--------------------------- MODULE ContainerConfig ---------------------------
(***************************************************************************)
(* The configuration in the memory of one warm lambda container.  Two      *)
(* layers keep what was read from the parameter store (SSM): the parameter *)
(* provider for PARAMETER_TTL seconds, and ConfigService on top of it: the *)
(* common entries are asked for again by every request, the configuration  *)
(* of a client once in the life of the container.                          *)
(*                                                                         *)
(* A value is named by the second in which SSM served it, so that its age  *)
(* is known wherever it is copied.  A container serves one request at a    *)
(* time; parameters are added and removed, and time passes, between any    *)
(* two of its steps.                                                       *)
(***************************************************************************)
EXTENDS Integers

CONSTANTS Client,
          Name,       \* the client parameters the lambda asks for
          Common,     \* the common parameter it asks for: SessionTtl
          None,
          ParameterTtl, MaxClock

ASSUME ConfigAssumption ==
    /\ None \notin Int
    /\ None \notin [Name -> 0 .. MaxClock \cup {None}]
    /\ Common \notin Client \X Name
    /\ ParameterTtl \in Nat /\ MaxClock \in Nat

Parameter == {Common} \cup (Client \X Name)

ClientParameters(c) == {c} \X Name

VARIABLES
    clock,
    present,  \* the parameters SSM has
    cache,    \* the provider: when it read a parameter, or None
    entry,    \* configEntries[SessionTtl]: when its value was read
    config,   \* clientConfigurations: when each of its values was read
    job       \* the request in progress

vars == <<clock, present, cache, entry, config, job>>

ReadTime == 0 .. MaxClock \cup {None}

TypeOK ==
    /\ clock \in 0 .. MaxClock
    /\ present \in SUBSET Parameter
    /\ cache \in [Parameter -> ReadTime]
    /\ entry \in ReadTime
    /\ config \in [Client -> [Name -> ReadTime] \cup {None}]
    /\ job \in [pc : {"idle", "init", "client", "use"}, client : Client,
                began : 0 .. MaxClock]

NothingCached == [p \in Parameter |-> None]
NoConfig      == [c \in Client |-> None]

Init ==
    /\ clock = 0
    /\ present \in SUBSET Parameter
    /\ cache = NothingCached /\ entry = None /\ config = NoConfig
    /\ job \in [pc : {"idle"}, client : Client, began : {0}]

-----------------------------------------------------------------------------
(* The parameter provider.                                                 *)

\* A slip: the provider asked without a maxAge that ever ends.
CachedForGood(p) == cache[p] # None

Cached(p) == cache[p] # None /\ cache[p] + ParameterTtl >= clock

\* A slip: the time a value runs out recorded as the time it was read.
ReadUntil(p) == IF Cached(p) THEN cache[p]
                ELSE IF p \in present THEN clock + ParameterTtl ELSE None

\* getParametersByName: None for a parameter that goes into its _errors.
Get(p) == IF Cached(p) THEN cache[p]
          ELSE IF p \in present THEN clock ELSE None

\* What was found is kept, also when something else was not.
Keep(ps) == cache' = [p \in Parameter |-> IF p \in ps /\ Get(p) # None
                                          THEN Get(p) ELSE cache[p]]

\* A slip: _errors ignored if anything was found.
SomeFound(ps) == \E p \in ps : Get(p) # None

\* getSSMParameters throws if there are errors.
AllFound(ps) == \A p \in ps : Get(p) # None

-----------------------------------------------------------------------------
(* A request.                                                              *)
Begin(c) ==
    /\ job.pc = "idle"
    /\ job' = [pc |-> "init", client |-> c, began |-> clock]
    /\ UNCHANGED <<clock, present, cache, entry, config>>

GoOn(pc) == job' = [job EXCEPT !.pc = pc]

\* A slip: the common entries loaded like a client's, once and for all.
LoadCommonOnce ==
    /\ job.pc = "init"
    /\ IF entry = None THEN Keep({Common}) /\ entry' = Get(Common)
                       ELSE UNCHANGED <<cache, entry>>
    /\ GoOn(IF entry' = None THEN "idle" ELSE "client")
    /\ UNCHANGED <<clock, present, config>>

\* initialiseConfigMiddleware: init() on every request.
LoadCommon ==
    /\ job.pc = "init"
    /\ Keep({Common})
    /\ \/ AllFound({Common}) /\ entry' = Get(Common) /\ GoOn("client")
       \/ ~AllFound({Common}) /\ entry' = entry /\ GoOn("idle")
    /\ UNCHANGED <<clock, present, config>>

\* initialiseClientConfigMiddleware: initClientConfig() for a new client.
LoadClient ==
    LET c     == job.client
        found == AllFound(ClientParameters(c))
    IN  /\ job.pc = "client"
        /\ config[c] = None
        /\ Keep(ClientParameters(c))
        /\ config' = IF found THEN [config EXCEPT ![c] = [n \in Name |-> Get(<<c, n>>)]]
                     ELSE config
        /\ GoOn(IF found THEN "use" ELSE "idle")
        /\ UNCHANGED <<clock, present, entry>>

ClientKnown ==
    /\ job.pc = "client"
    /\ config[job.client] # None
    /\ GoOn("use")
    /\ UNCHANGED <<clock, present, cache, entry, config>>

\* The handler has read its configuration and answers.
Answer ==
    /\ job.pc = "use"
    /\ GoOn("idle")
    /\ UNCHANGED <<clock, present, cache, entry, config>>

\* SSM refuses a call, or the request fails for any other reason.
RequestFails ==
    /\ job.pc \in {"init", "client"}
    /\ GoOn("idle")
    /\ UNCHANGED <<clock, present, cache, entry, config>>

-----------------------------------------------------------------------------
(* Operators of the client's and the stack's parameters; the clock.        *)
ChangeParameter(p) ==
    /\ present' \in {present \cup {p}, present \ {p}}
    /\ UNCHANGED <<clock, cache, entry, config, job>>

Tick ==
    /\ clock < MaxClock
    /\ clock' = clock + 1
    /\ UNCHANGED <<present, cache, entry, config, job>>

ColdStart ==
    /\ cache' = NothingCached /\ entry' = None /\ config' = NoConfig
    /\ GoOn("idle")
    /\ UNCHANGED <<clock, present>>

Next ==
    \/ \E c \in Client : Begin(c)
    \/ LoadCommon \/ LoadClient \/ ClientKnown \/ Answer \/ RequestFails
    \/ \E p \in Parameter : ChangeParameter(p)
    \/ Tick
    \/ ColdStart

Spec == Init /\ [][Next]_vars

-----------------------------------------------------------------------------
(* Properties.                                                             *)

\* No request is ever served with part of a client's configuration: a load
\* that found only some of the parameters, or failed in between, leaves
\* nothing that hasClientConfig() would take for a configuration later.
NeverPartOfAConfig ==
    /\ job.pc = "use" => config[job.client] # None
    /\ \A c \in Client : config[c] # None =>
           \A n \in Name : config[c][n] # None

\* The settings a request goes by were in the parameter store at most
\* PARAMETER_TTL seconds before it began, however long the container lives.
SettingsAreFresh ==
    job.pc \in {"client", "use"} => entry # None /\ entry + ParameterTtl >= job.began

\* A client's configuration, kept for the life of the container, was not old
\* when it was loaded: values left over from loads that failed are mixed with
\* new ones only if they were read within PARAMETER_TTL seconds.
LoadedFresh ==
    [][\A c \in Client : config[c] = None /\ config'[c] # None =>
          \A n \in Name : config'[c][n] # None =>
             config'[c][n] + ParameterTtl >= clock]_vars

-----------------------------------------------------------------------------
(* The invariant these rest on: freshness is judged when a request loads   *)
(* its settings, which is never before the request began.                  *)
ConfigInv ==
    /\ TypeOK
    /\ job.began <= clock
    /\ NeverPartOfAConfig /\ SettingsAreFresh
=============================================================================
