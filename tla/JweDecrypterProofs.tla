------------------------- MODULE JweDecrypterProofs -------------------------
(***************************************************************************)
(* Proofs about JweDecrypter, for any number of keys.                      *)
(***************************************************************************)
EXTENDS JweDecrypter, TLAPS

-----------------------------------------------------------------------------
(* The requests, named so that the lemmas below stay short.                *)
JobType == [pc : {"none", "alias", "legacy", "opened", "failed"},
            key : Key, next : 1 .. 4, steady : SUBSET Alias,
            faulty : BOOLEAN, tried : SUBSET Alias]

LEMMA JobTyped == TypeOK <=> /\ flags \in [rotation : BOOLEAN, fallback : BOOLEAN]
                             /\ keyOf \in [Alias -> Key \cup {None}]
                             /\ legacyId \in Key
                             /\ cachedId \in Key \cup {None}
                             /\ job \in JobType
  BY DEF TypeOK, JobType

-----------------------------------------------------------------------------
(* The inductive invariant.                                                *)
LEMMA DecrypterInit == Init => DecrypterInv
<1> SUFFICES ASSUME Init PROVE DecrypterInv
  OBVIOUS
<1>. USE DEF Init
<1>0. PICK k \in Key : job = [pc |-> "none", key |-> k, next |-> 1, steady |-> {},
                             faulty |-> FALSE, tried |-> {}]
  BY Zenon
<1>1. job \in JobType
  BY <1>0, 1 \in 1 .. 4 DEF JobType
<1>2. TypeOK
  BY <1>1, JobTyped
<1>3. KeyInv
  BY <1>0 DEF KeyInv
<1>. QED  BY <1>2, <1>3 DEF DecrypterInv

\* One step of the request, or of the outside world.
LEMMA ReceiveStep == DecrypterInv /\ (\E k \in Key : Receive(k)) => DecrypterInv'
<1> SUFFICES ASSUME DecrypterInv, NEW k \in Key, Receive(k) PROVE DecrypterInv'
  OBVIOUS
<1>. USE DEF DecrypterInv, Receive
<1>1. job' \in JobType
  BY DEF JobType
<1>2. TypeOK'
  BY <1>1, JobTyped DEF TypeOK, JobType
<1>3. KeyInv'
  <2>1. 1 .. 1 - 1 = {} /\ 1 \in Alias
    BY DEF Alias
  <2>. QED  BY <2>1 DEF KeyInv
<1>. QED  BY <1>2, <1>3

\* The alias tried joins those tried before it: if it was steady then KMS
\* failed the call, for it stood for the key.
LEMMA TryAliasStep == DecrypterInv /\ TryAlias => DecrypterInv'
<1> SUFFICES ASSUME DecrypterInv, TryAlias PROVE DecrypterInv'
  OBVIOUS
<1>. USE DEF DecrypterInv
<1>1. /\ job.pc = "alias" /\ flags.rotation /\ job.next \in 1 .. 3
      /\ job.tried = 1 .. job.next - 1 /\ job \in JobType
      /\ UNCHANGED <<flags, keyOf, legacyId, cachedId>>
  BY JobTyped DEF TryAlias, KeyInv, Alias
<1>. PICK fault \in BOOLEAN :
        job' = [job EXCEPT
             !.pc = IF keyOf[job.next] = job.key /\ ~fault THEN "opened"
                                                           ELSE AfterAlias,
             !.next = @ + 1, !.tried = @ \cup {job.next},
             !.faulty = @ \/ (fault /\ keyOf[job.next] = job.key)]
  BY DEF TryAlias
<1>. DEFINE opened == keyOf[job.next] = job.key /\ ~fault
            failed == fault /\ keyOf[job.next] = job.key
<1>2. /\ job'.pc = IF opened THEN "opened" ELSE AfterAlias
      /\ job'.next = job.next + 1 /\ job'.tried = job.tried \cup {job.next}
      /\ job'.faulty = (job.faulty \/ failed)
      /\ job'.key = job.key /\ job'.steady = job.steady
  BY <1>1 DEF JobType
<1>3. job' \in JobType
  <2>1. AfterAlias \in {"alias", "legacy", "failed"}
    BY DEF AfterAlias
  <2>2. /\ job.next + 1 \in 1 .. 4 /\ job.tried \cup {job.next} \in SUBSET Alias
        /\ (job.faulty \/ failed) \in BOOLEAN
        /\ (IF opened THEN "opened" ELSE AfterAlias)
             \in {"none", "alias", "legacy", "opened", "failed"}
    BY <1>1, <2>1 DEF JobType, Alias
  <2>. HIDE DEF opened, failed
  <2>. QED  BY <1>1, <2>2, Zenon DEF JobType, opened, failed
<1>4. TypeOK'
  BY <1>1, <1>3, JobTyped DEF TypeOK, JobType
<1>5. (job.steady \cap job.tried = {} \/ job.faulty)
      /\ \A a \in job.steady : keyOf[a] = job.key
  BY <1>1 DEF KeyInv
<1>6. ~opened => job'.steady \cap job'.tried = {} \/ job'.faulty
  BY <1>2, <1>5 DEF JobType
<1>7. job.tried \cup {job.next} = 1 .. job.next
  BY <1>1
<1>8. KeyInv'
  <2>1. job'.tried = 1 .. job.next /\ job'.tried = 1 .. job'.next - 1
    BY <1>1, <1>2, <1>7
  <2>2. job.next < 3 => job'.next \in Alias
    BY <1>1, <1>2 DEF Alias
  <2>3. ~(job.next < 3) => job'.tried = Alias
    BY <1>1, <2>1 DEF Alias
  <2>. QED  BY <1>1, <1>2, <1>5, <1>6, <2>1, <2>2, <2>3 DEF KeyInv, AfterAlias
<1>. QED  BY <1>4, <1>8

LEMMA TryLegacyStep == DecrypterInv /\ TryLegacy => DecrypterInv'
<1> SUFFICES ASSUME DecrypterInv, TryLegacy PROVE DecrypterInv'
  OBVIOUS
<1>. USE DEF DecrypterInv
<1>1. /\ job.pc = "legacy" /\ job \in JobType
      /\ legacyId \in Key /\ cachedId \in Key \cup {None}
      /\ UNCHANGED <<flags, keyOf, legacyId>>
  BY JobTyped DEF TryLegacy
<1>2. cachedId' \in Key \cup {None}
  BY <1>1 DEF TryLegacy, LegacyId
<1>3. PICK pc \in {"opened", "failed"} : job' = [job EXCEPT !.pc = pc]
  BY DEF TryLegacy
<1>4. job' \in JobType
  BY <1>1, <1>3 DEF JobType
<1>5. TypeOK'
  BY <1>1, <1>2, <1>4, JobTyped DEF TypeOK, JobType
<1>6. /\ job'.pc = pc /\ job'.key = job.key /\ job'.steady = job.steady
      /\ job'.tried = job.tried /\ job'.faulty = job.faulty
  BY <1>1, <1>3 DEF JobType
<1>7. KeyInv'
  BY <1>1, <1>6 DEF KeyInv
<1>. QED  BY <1>5, <1>7

LEMMA MoveAliasStep ==
  DecrypterInv /\ (\E a \in Alias, k \in Key \cup {None} : MoveAlias(a, k)) => DecrypterInv'
<1> SUFFICES ASSUME DecrypterInv, NEW a \in Alias, NEW k \in Key \cup {None},
                    MoveAlias(a, k)
             PROVE  DecrypterInv'
  OBVIOUS
<1>. USE DEF DecrypterInv
<1>1. /\ job \in JobType /\ keyOf \in [Alias -> Key \cup {None}]
      /\ keyOf' = [keyOf EXCEPT ![a] = k]
      /\ job' = [job EXCEPT !.steady = IF k = job.key THEN @ ELSE @ \ {a}]
      /\ UNCHANGED <<flags, legacyId, cachedId>>
  BY JobTyped DEF MoveAlias
<1>2. keyOf' \in [Alias -> Key \cup {None}] /\ job' \in JobType
  BY <1>1 DEF JobType
<1>3. TypeOK'
  BY <1>1, <1>2, JobTyped DEF TypeOK, JobType
<1>4. /\ job'.pc = job.pc /\ job'.key = job.key /\ job'.next = job.next
      /\ job'.tried = job.tried /\ job'.faulty = job.faulty
      /\ job'.steady \subseteq job.steady
      /\ k = job.key \/ a \notin job'.steady
  BY <1>1 DEF JobType
<1>5. KeyInv'
  <2>1. job'.steady \subseteq Alias
    BY <1>2 DEF JobType
  <2>. QED  BY <1>1, <1>4, <2>1 DEF KeyInv
<1>. QED  BY <1>3, <1>5

LEMMA OtherSteps ==
  DecrypterInv /\ ((\E k \in Key : ChangeLegacyId(k)) \/ ColdStart \/ UNCHANGED vars)
    => DecrypterInv'
<1> SUFFICES ASSUME DecrypterInv,
                    (\E k \in Key : ChangeLegacyId(k)) \/ ColdStart \/ UNCHANGED vars
             PROVE  DecrypterInv'
  OBVIOUS
<1>. USE DEF DecrypterInv
<1>1. CASE \E k \in Key : ChangeLegacyId(k)
  BY <1>1, JobTyped DEF ChangeLegacyId, TypeOK, KeyInv
<1>2. CASE ColdStart
  <2>1. /\ job \in JobType /\ UNCHANGED <<flags, keyOf, legacyId>> /\ cachedId' = None
        /\ job' = [job EXCEPT !.pc = "failed", !.faulty = TRUE]
    BY <1>2, JobTyped DEF ColdStart
  <2>2. job' \in JobType /\ job'.pc = "failed" /\ job'.faulty
        /\ job'.key = job.key /\ job'.steady = job.steady
    BY <2>1 DEF JobType
  <2>3. TypeOK'
    BY <2>1, <2>2, JobTyped DEF TypeOK, JobType
  <2>4. KeyInv'
    BY <2>1, <2>2 DEF KeyInv
  <2>. QED  BY <2>3, <2>4
<1>3. CASE UNCHANGED vars
  BY <1>3 DEF vars, TypeOK, KeyInv
<1>. QED  BY <1>1, <1>2, <1>3

-----------------------------------------------------------------------------
(* Theorems.                                                               *)

\* In every state the aliases tried in vain are those before the next one, and
\* a steady one among them means that KMS failed: for any keys, however the
\* aliases are moved while fetchKeyUsingAlias goes through them.
THEOREM AliasesAreTriedInTurn == Spec => []DecrypterInv
<1>1. DecrypterInv /\ [Next]_vars => DecrypterInv'
  BY ReceiveStep, TryAliasStep, TryLegacyStep, MoveAliasStep, OtherSteps DEF Next
<1>. QED  BY DecrypterInit, <1>1, PTL DEF Spec

\* A JWE whose key some alias stands for all along is opened unless KMS fails
\* the very call.
THEOREM SteadyKeysOpen == Spec => []SteadyKeyOpens
<1>1. DecrypterInv => SteadyKeyOpens
  <2> SUFFICES ASSUME DecrypterInv, job.pc = "failed", flags.rotation, ~job.faulty
               PROVE  job.steady = {}
    BY DEF SteadyKeyOpens
  <2>1. job.tried = Alias /\ job.steady \cap job.tried = {}
    BY DEF DecrypterInv, KeyInv
  <2>2. job.steady \subseteq Alias
    BY JobTyped DEF DecrypterInv, JobType
  <2>. QED  BY <2>1, <2>2
<1>. QED  BY AliasesAreTriedInTurn, <1>1, PTL

\* The legacy key is tried only when its id was loaded and all aliases failed.
THEOREM FallbacksAreReady == Spec => []FallbackIsReady
<1>1. DecrypterInv => FallbackIsReady
  BY DEF DecrypterInv, KeyInv, FallbackIsReady, KeyIdIsLoaded
<1>. QED  BY AliasesAreTriedInTurn, <1>1, PTL
=============================================================================
