------------------------ MODULE ContainerConfigProofs ------------------------
(***************************************************************************)
(* Proofs about ContainerConfig, for any clients and parameters and any    *)
(* PARAMETER_TTL.                                                          *)
(***************************************************************************)
EXTENDS ContainerConfig, TLAPS

-----------------------------------------------------------------------------
JobType == [pc : {"idle", "init", "client", "use"}, client : Client,
            began : 0 .. MaxClock]

LEMMA JobTyped == TypeOK <=> /\ clock \in 0 .. MaxClock
                             /\ present \in SUBSET Parameter
                             /\ cache \in [Parameter -> ReadTime]
                             /\ entry \in ReadTime
                             /\ config \in [Client -> [Name -> ReadTime] \cup {None}]
                             /\ job \in JobType
  BY DEF TypeOK, JobType

\* The provider never returns a value older than PARAMETER_TTL seconds.
LEMMA GetIsFresh ==
  ASSUME TypeOK, NEW p \in Parameter
  PROVE  /\ Get(p) \in ReadTime
         /\ Get(p) # None => Get(p) \in 0 .. MaxClock /\ Get(p) + ParameterTtl >= clock
<1>1. cache[p] \in ReadTime /\ clock \in 0 .. MaxClock
  BY DEF TypeOK
<1>. QED  BY <1>1, ConfigAssumption DEF Get, Cached, ReadTime

LEMMA KeepIsTyped ==
  ASSUME TypeOK, NEW ps, Keep(ps)
  PROVE  cache' \in [Parameter -> ReadTime]
<1>1. cache \in [Parameter -> ReadTime] /\ \A p \in Parameter : Get(p) \in ReadTime
  BY GetIsFresh DEF TypeOK
<1>. QED  BY <1>1 DEF Keep

\* Going on changes the place of the request only.
LEMMA GoOnIsTyped ==
  ASSUME TypeOK, NEW pc \in {"idle", "init", "client", "use"}, GoOn(pc)
  PROVE  /\ job' \in JobType
         /\ job'.pc = pc /\ job'.client = job.client /\ job'.began = job.began
  BY DEF TypeOK, GoOn, JobType

-----------------------------------------------------------------------------
(* The inductive invariant.                                                *)
LEMMA ConfigInit == Init => ConfigInv
<1> SUFFICES ASSUME Init PROVE ConfigInv
  OBVIOUS
<1>1. PICK c \in Client : job = [pc |-> "idle", client |-> c, began |-> 0]
  BY DEF Init
<1>2. TypeOK
  <2>1. 0 \in 0 .. MaxClock
    BY ConfigAssumption
  <2>. QED  BY <1>1, <2>1 DEF Init, TypeOK, ReadTime, NothingCached, NoConfig
<1>3. NeverPartOfAConfig /\ SettingsAreFresh
  BY <1>1 DEF Init, NeverPartOfAConfig, SettingsAreFresh, NoConfig
<1>4. job.began <= clock
  BY <1>1 DEF Init
<1>. QED  BY <1>2, <1>3, <1>4 DEF ConfigInv

LEMMA BeginStep == ConfigInv /\ (\E c \in Client : Begin(c)) => ConfigInv'
<1> SUFFICES ASSUME ConfigInv, NEW c \in Client, Begin(c) PROVE ConfigInv'
  OBVIOUS
<1>. USE DEF ConfigInv, Begin
<1>1. clock \in 0 .. MaxClock
  BY DEF TypeOK
<1>2. TypeOK'
  BY DEF TypeOK
<1>3. NeverPartOfAConfig' /\ SettingsAreFresh'
  BY DEF NeverPartOfAConfig, SettingsAreFresh
<1>. QED  BY <1>1, <1>2, <1>3

\* The common settings are as fresh as the provider keeps them.
LEMMA LoadCommonStep == ConfigInv /\ LoadCommon => ConfigInv'
<1> SUFFICES ASSUME ConfigInv, LoadCommon PROVE ConfigInv'
  OBVIOUS
<1>. USE DEF ConfigInv
<1>1. Common \in Parameter /\ UNCHANGED <<clock, present, config>>
  BY DEF Parameter, LoadCommon
<1>2. cache' \in [Parameter -> ReadTime]
  BY KeepIsTyped DEF LoadCommon
<1>3. job.began \in 0 .. MaxClock /\ clock \in 0 .. MaxClock
  BY DEF TypeOK
<1>4. CASE AllFound({Common}) /\ entry' = Get(Common) /\ GoOn("client")
  <2>1. /\ Get(Common) \in 0 .. MaxClock /\ Get(Common) \in ReadTime
        /\ Get(Common) + ParameterTtl >= clock
    BY <1>1, <1>4, GetIsFresh DEF AllFound
  <2>2. job' \in JobType /\ job'.pc = "client" /\ job'.began = job.began
    BY <1>4, GoOnIsTyped
  <2>3. TypeOK'
    BY <1>1, <1>2, <1>4, <2>1, <2>2 DEF TypeOK, JobType
  <2>4. SettingsAreFresh'
    BY <1>1, <1>3, <1>4, <2>1, <2>2, ConfigAssumption DEF SettingsAreFresh
  <2>5. NeverPartOfAConfig'
    BY <1>1, <2>2 DEF NeverPartOfAConfig
  <2>. QED  BY <1>1, <2>2, <2>3, <2>4, <2>5
<1>5. CASE entry' = entry /\ GoOn("idle")
  <2>1. job' \in JobType /\ job'.pc = "idle" /\ job'.began = job.began
    BY <1>5, GoOnIsTyped
  <2>2. TypeOK'
    BY <1>1, <1>2, <1>5, <2>1 DEF TypeOK, JobType
  <2>. QED  BY <1>1, <2>1, <2>2 DEF NeverPartOfAConfig, SettingsAreFresh
<1>. QED  BY <1>4, <1>5 DEF LoadCommon

\* A configuration is kept only if every parameter of it was found.
LEMMA LoadClientStep == ConfigInv /\ LoadClient => ConfigInv'
<1> SUFFICES ASSUME ConfigInv, LoadClient PROVE ConfigInv'
  OBVIOUS
<1>. USE DEF ConfigInv
<1>. DEFINE c      == job.client
            found  == AllFound(ClientParameters(c))
            loaded == [n \in Name |-> Get(<<c, n>>)]
<1>1. /\ job.pc = "client" /\ UNCHANGED <<clock, present, entry>>
      /\ config' = IF found THEN [config EXCEPT ![c] = loaded] ELSE config
      /\ GoOn(IF found THEN "use" ELSE "idle")
  BY DEF LoadClient
<1>2. c \in Client /\ config \in [Client -> [Name -> ReadTime] \cup {None}]
  BY JobTyped DEF JobType
<1>3. cache' \in [Parameter -> ReadTime]
  BY KeepIsTyped DEF LoadClient
<1>4. /\ job' \in JobType /\ job'.pc = (IF found THEN "use" ELSE "idle")
      /\ job'.client = c /\ job'.began = job.began
  BY <1>1, GoOnIsTyped
<1>5. \A n \in Name : <<c, n>> \in Parameter /\ <<c, n>> \in ClientParameters(c)
  BY <1>2 DEF Parameter, ClientParameters
<1>6. loaded \in [Name -> ReadTime] /\ loaded # None
  <2>1. loaded \in [Name -> ReadTime]
    BY <1>5, GetIsFresh
  <2>. QED  BY <2>1, ConfigAssumption DEF ReadTime
<1>7. found => \A n \in Name : loaded[n] # None
  BY <1>5 DEF AllFound
<1>. HIDE DEF c, found, loaded
<1>8. TypeOK'
  BY <1>1, <1>2, <1>3, <1>4, <1>6 DEF TypeOK, JobType
<1>9. NeverPartOfAConfig'
  <2>1. NeverPartOfAConfig
    OBVIOUS
  <2>. QED  BY <1>1, <1>2, <1>4, <1>6, <1>7, <2>1 DEF NeverPartOfAConfig
<1>10. SettingsAreFresh'
  BY <1>1, <1>4 DEF SettingsAreFresh
<1>. QED  BY <1>1, <1>4, <1>8, <1>9, <1>10

\* The rest of a request moves it on, or ends it.
LEMMA RequestSteps ==
  ConfigInv /\ (ClientKnown \/ Answer \/ RequestFails) => ConfigInv'
<1> SUFFICES ASSUME ConfigInv, ClientKnown \/ Answer \/ RequestFails PROVE ConfigInv'
  OBVIOUS
<1>. USE DEF ConfigInv
<1>1. UNCHANGED <<clock, present, cache, entry, config>>
  BY DEF ClientKnown, Answer, RequestFails
<1>2. PICK pc \in {"idle", "use"} :
        GoOn(pc) /\ (pc = "use" => job.pc = "client" /\ config[job.client] # None)
  BY DEF ClientKnown, Answer, RequestFails
<1>3. /\ job' \in JobType
      /\ job'.pc = pc /\ job'.client = job.client /\ job'.began = job.began
  BY <1>2, GoOnIsTyped
<1>4. TypeOK'
  BY <1>1, <1>3 DEF TypeOK, JobType
<1>5. NeverPartOfAConfig' /\ SettingsAreFresh'
  BY <1>1, <1>2, <1>3 DEF NeverPartOfAConfig, SettingsAreFresh
<1>. QED  BY <1>1, <1>3, <1>4, <1>5

LEMMA OutsideSteps ==
  ConfigInv /\ ((\E p \in Parameter : ChangeParameter(p)) \/ Tick \/ UNCHANGED vars)
    => ConfigInv'
<1> SUFFICES ASSUME ConfigInv,
                    (\E p \in Parameter : ChangeParameter(p)) \/ Tick \/ UNCHANGED vars
             PROVE  ConfigInv'
  OBVIOUS
<1>. USE DEF ConfigInv
<1>1. /\ UNCHANGED <<cache, entry, config, job>>
      /\ clock' \in 0 .. MaxClock /\ clock' >= clock /\ present' \in SUBSET Parameter
  BY ConfigAssumption DEF ChangeParameter, Tick, vars, TypeOK
<1>2. TypeOK'
  BY <1>1 DEF TypeOK
<1>3. NeverPartOfAConfig' /\ SettingsAreFresh'
  BY <1>1 DEF NeverPartOfAConfig, SettingsAreFresh
<1>4. job'.began <= clock'
  BY <1>1 DEF TypeOK
<1>. QED  BY <1>2, <1>3, <1>4

LEMMA ColdStartStep == ConfigInv /\ ColdStart => ConfigInv'
<1> SUFFICES ASSUME ConfigInv, ColdStart PROVE ConfigInv'
  OBVIOUS
<1>. USE DEF ConfigInv
<1>1. /\ UNCHANGED <<clock, present>> /\ GoOn("idle")
      /\ cache' = NothingCached /\ entry' = None /\ config' = NoConfig
  BY DEF ColdStart
<1>2. job' \in JobType /\ job'.pc = "idle" /\ job'.began = job.began
  BY <1>1, GoOnIsTyped
<1>3. TypeOK'
  BY <1>1, <1>2 DEF TypeOK, JobType, ReadTime, NothingCached, NoConfig
<1>4. NeverPartOfAConfig' /\ SettingsAreFresh'
  BY <1>1, <1>2 DEF NeverPartOfAConfig, SettingsAreFresh, NoConfig
<1>. QED  BY <1>1, <1>2, <1>3, <1>4

-----------------------------------------------------------------------------
(* Theorems.                                                               *)

\* Every state of a container's configuration is as ConfigInv says.
THEOREM ConfigIsKept == Spec => []ConfigInv
<1>1. ConfigInv /\ [Next]_vars => ConfigInv'
  BY BeginStep, LoadCommonStep, LoadClientStep, RequestSteps, OutsideSteps, ColdStartStep
     DEF Next
<1>. QED  BY ConfigInit, <1>1, PTL DEF Spec

\* No request is served with part of a client's configuration, for any
\* number of parameters and however loads fail half way.
THEOREM ConfigsAreWhole == Spec => []NeverPartOfAConfig
<1>1. ConfigInv => NeverPartOfAConfig
  BY DEF ConfigInv
<1>. QED  BY ConfigIsKept, <1>1, PTL

\* The common settings of a request are at most PARAMETER_TTL seconds old
\* when it begins.
THEOREM CommonSettingsAreFresh == Spec => []SettingsAreFresh
<1>1. ConfigInv => SettingsAreFresh
  BY DEF ConfigInv
<1>. QED  BY ConfigIsKept, <1>1, PTL

\* No value of a client's configuration was older than that when it was loaded.
THEOREM ConfigsAreLoadedFresh == Spec => LoadedFresh
<1>. DEFINE Fresh == \A c \in Client : config[c] = None /\ config'[c] # None =>
                       \A n \in Name : config'[c][n] # None =>
                          config'[c][n] + ParameterTtl >= clock
<1>1. ConfigInv /\ [Next]_vars => [Fresh]_vars
  <2> SUFFICES ASSUME ConfigInv, Next,
                      NEW c \in Client, config[c] = None, config'[c] # None,
                      NEW n \in Name, config'[c][n] # None
               PROVE  config'[c][n] + ParameterTtl >= clock
    OBVIOUS
  <2>1. LoadClient
    BY DEF Next, Begin, LoadCommon, ClientKnown, Answer, RequestFails,
           ChangeParameter, Tick, ColdStart, NoConfig
  <2>2. config'[c] = [m \in Name |-> Get(<<c, m>>)]
    BY <2>1 DEF LoadClient, ConfigInv, TypeOK
  <2>. QED  BY <2>2, GetIsFresh DEF ConfigInv, Parameter
<1>. QED  BY ConfigIsKept, <1>1, PTL DEF Spec, LoadedFresh
=============================================================================
