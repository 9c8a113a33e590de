---------------------------- MODULE JweDecrypter ----------------------------
(***************************************************************************)
(* The session lambda unwrapping the content key of a JWE with KMS.  With  *)
(* the key rotation flag it tries three key aliases in turn, and then, if  *)
(* the fallback flag says so, a legacy key whose id is a parameter of the  *)
(* stack and is kept by the container after its first use.  Aliases and    *)
(* parameters are changed, and calls to KMS fail, between any two tries.   *)
(***************************************************************************)
EXTENDS Integers

CONSTANTS Key, None

ASSUME NoneIsNoKey == None \notin Key

\* DecryptionKeyAliases: active, inactive, previous, in the order tried.
Alias == 1 .. 3

VARIABLES
    flags,     \* the two environment variables, fixed by the deployment
    keyOf,     \* the key an alias stands for in KMS, or None
    legacyId,  \* the parameter AuthRequestKmsEncryptionKeyId
    cachedId,  \* kmsEncryptionKeyId of this container, or None
    job        \* the request in progress or the last one

vars == <<flags, keyOf, legacyId, cachedId, job>>

\* A request: the key its JWE is for; the alias tried next; the aliases that
\* have stood for that key ever since it began; whether KMS failed a call
\* that was for that key; the aliases tried.
TypeOK ==
    /\ flags \in [rotation : BOOLEAN, fallback : BOOLEAN]
    /\ keyOf \in [Alias -> Key \cup {None}]
    /\ legacyId \in Key
    /\ cachedId \in Key \cup {None}
    /\ job \in [pc : {"none", "alias", "legacy", "opened", "failed"},
                key : Key, next : 1 .. 4, steady : SUBSET Alias,
                faulty : BOOLEAN, tried : SUBSET Alias]

Init ==
    /\ flags \in [rotation : BOOLEAN, fallback : BOOLEAN]
    /\ keyOf \in [Alias -> Key \cup {None}]
    /\ legacyId \in Key
    /\ cachedId = None
    /\ job \in [pc : {"none"}, key : Key, next : {1}, steady : {{}},
                faulty : {FALSE}, tried : {{}}]

\* A slip: the parameter left out whenever keys are rotated.
LoadedWithoutRotation == ~flags.rotation

\* requireDecryptionKeyId: whether the session lambda loads the parameter.
KeyIdIsLoaded == ~flags.rotation \/ flags.fallback

-----------------------------------------------------------------------------
(* A request.                                                              *)
Receive(k) ==
    /\ job.pc \in {"none", "opened", "failed"}
    /\ job' = [pc |-> IF flags.rotation THEN "alias" ELSE "legacy",
               key |-> k, next |-> 1,
               steady |-> {a \in Alias : keyOf[a] = k},
               faulty |-> FALSE, tried |-> {}]
    /\ UNCHANGED <<flags, keyOf, legacyId, cachedId>>

\* A slip: the last alias never tried.
NextButLast ==
    IF job.next < 2 THEN "alias" ELSE IF flags.fallback THEN "legacy" ELSE "failed"

\* Where fetchKeyUsingAlias goes on after an alias has not worked.
AfterAlias ==
    IF job.next < 3 THEN "alias" ELSE IF flags.fallback THEN "legacy" ELSE "failed"

\* DecryptCommand with an alias: KMS looks up the key it stands for now.
TryAlias ==
    /\ job.pc = "alias"
    /\ \E fault \in BOOLEAN :
         job' = [job EXCEPT
             !.pc = IF keyOf[job.next] = job.key /\ ~fault THEN "opened"
                                                           ELSE AfterAlias,
             !.next = @ + 1, !.tried = @ \cup {job.next},
             !.faulty = @ \/ (fault /\ keyOf[job.next] = job.key)]
    /\ UNCHANGED <<flags, keyOf, legacyId, cachedId>>

\* A slip: the place in the list kept for the id.
PlaceAsId == job.next

LegacyId == IF cachedId = None THEN legacyId ELSE cachedId

\* fetchKeyUsingKeyId; getConfigEntry throws for a parameter not loaded.
TryLegacy ==
    /\ job.pc = "legacy"
    /\ IF KeyIdIsLoaded
       THEN /\ cachedId' = LegacyId
            /\ \E fault \in BOOLEAN :
                 job' = [job EXCEPT
                     !.pc = IF LegacyId = job.key /\ ~fault THEN "opened" ELSE "failed"]
       ELSE /\ cachedId' = cachedId
            /\ job' = [job EXCEPT !.pc = "failed"]
    /\ UNCHANGED <<flags, keyOf, legacyId>>

-----------------------------------------------------------------------------
(* Key rotation: aliases are moved one at a time.  A new container.        *)
MoveAlias(a, k) ==
    /\ keyOf' = [keyOf EXCEPT ![a] = k]
    /\ job' = [job EXCEPT !.steady = IF k = job.key THEN @ ELSE @ \ {a}]
    /\ UNCHANGED <<flags, legacyId, cachedId>>

ChangeLegacyId(k) ==
    /\ legacyId' = k
    /\ UNCHANGED <<flags, keyOf, cachedId, job>>

ColdStart ==
    /\ cachedId' = None
    /\ job' = [job EXCEPT !.pc = "failed", !.faulty = TRUE]
    /\ UNCHANGED <<flags, keyOf, legacyId>>

Next ==
    \/ \E k \in Key : Receive(k)
    \/ TryAlias \/ TryLegacy
    \/ \E a \in Alias, k \in Key \cup {None} : MoveAlias(a, k)
    \/ \E k \in Key : ChangeLegacyId(k)
    \/ ColdStart

Spec == Init /\ [][Next]_vars

-----------------------------------------------------------------------------
(* Properties.                                                             *)

\* While keys are rotated, a JWE whose key some alias stands for all along is
\* opened unless KMS fails the very call, whatever is done to the other aliases meanwhile
\* and wherever in the list it stands.
SteadyKeyOpens ==
    job.pc = "failed" /\ flags.rotation => job.steady = {} \/ job.faulty

\* The key that a request falls back to is one the session lambda has loaded
\* under the same flags, and all aliases have been tried before it: the two
\* readings of the flags, in the handler and in the decrypter, agree.
FallbackIsReady ==
    job.pc = "legacy" => /\ KeyIdIsLoaded
                         /\ flags.rotation => job.tried = Alias

-----------------------------------------------------------------------------
(* The invariant these rest on.                                            *)

\* A steady alias stands for the key; the aliases tried are those before the
\* next one; one that was tried in vain was not steady, or KMS failed on it.
KeyInv ==
    /\ \A a \in job.steady : keyOf[a] = job.key
    /\ job.pc = "alias" => /\ flags.rotation /\ job.next \in Alias
                           /\ job.tried = 1 .. job.next - 1
    /\ job.pc = "legacy" /\ flags.rotation => flags.fallback /\ job.tried = Alias
    /\ job.pc = "failed" /\ flags.rotation => job.tried = Alias \/ job.faulty
    /\ job.pc \in {"alias", "legacy", "failed"} =>
          job.steady \cap job.tried = {} \/ job.faulty

\* Inductive.
DecrypterInv == TypeOK /\ KeyInv
=============================================================================
