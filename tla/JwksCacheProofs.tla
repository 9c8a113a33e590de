-------------------------- MODULE JwksCacheProofs --------------------------
(***************************************************************************)
(* Proofs about JwksCache, for any signing keys, max-ages, reading times   *)
(* and clocks.                                                             *)
(***************************************************************************)
EXTENDS JwksCache, TLAPS

-----------------------------------------------------------------------------
(* The records, named so that the lemmas below stay short.                 *)
Time == 0 .. MaxClock
Age == NoMaxAge .. MaxAge
JobType == [pc : {"fetch", "read", "check", "verified", "failed"},
            key : Key, sound : BOOLEAN, steady : BOOLEAN,
            began : Time, served : Time, keys : SUBSET Key, maxAge : Age]

LEMMA JobTyped == TypeOK <=> /\ clock \in Time
                             /\ published \in SUBSET Key
                             /\ retiredAt \in [Key -> Time \cup {None}]
                             /\ cached \in Response \cup {None}
                             /\ job \in JobType
                             /\ misses \in 0 .. MaxMisses
  BY DEF TypeOK, JobType, Time, Age

\* Times and ages as the integers they are.
LEMMA Numbers ==
  /\ MaxAge \in Nat /\ ReadTime \in Nat /\ MaxClock \in Nat /\ MaxMisses \in Nat
  /\ None \notin Int /\ Time \subseteq Int /\ Age \subseteq Int /\ NoMaxAge \in Age
  /\ \A t \in Time : 0 <= t /\ t <= MaxClock
  /\ \A a \in Age : a <= Kept(a) /\ 0 <= Kept(a) /\ Kept(a) \in Int
  BY JwksAssumption DEF Time, Age, NoMaxAge, Kept

LEMMA ColdJobTyped ==
  ASSUME NEW k \in Key
  PROVE  /\ ColdJob(k) \in JobType
         /\ ColdJob(k).pc = "failed" /\ ColdJob(k).began = 0 /\ ~ColdJob(k).steady
<1>1. 0 \in Time
  BY JwksAssumption DEF Time
<1>. QED  BY <1>1, Numbers DEF ColdJob, JobType

-----------------------------------------------------------------------------
(* The inductive invariant.                                                *)
LEMMA JwksInit == Init => JwksInv
<1> SUFFICES ASSUME Init PROVE JwksInv
  OBVIOUS
<1>. USE DEF Init
<1>1. PICK k \in Key : job = ColdJob(k)
  OBVIOUS
<1>2. /\ job \in JobType /\ job.pc = "failed" /\ job.began = 0 /\ ~job.steady
      /\ 0 \in Time /\ 0 \in 0 .. MaxMisses
  BY <1>1, ColdJobTyped, JwksAssumption DEF Time
<1>3. TypeOK
  BY <1>2, JobTyped
<1>4. JobInv
  BY <1>2 DEF JobInv
<1>. QED  BY <1>3, <1>4 DEF JwksInv, EndpointInv, CacheInv, MissInv, Retired

\* The verification begins, with the cached response if it is still good.
LEMMA VerifyStep ==
  JwksInv /\ (\E k \in Key, sound \in BOOLEAN : Verify(k, sound)) => JwksInv'
<1> SUFFICES ASSUME JwksInv, NEW k \in Key, NEW sound \in BOOLEAN, Verify(k, sound)
             PROVE  JwksInv'
  OBVIOUS
<1>. USE DEF JwksInv
<1>1. /\ UNCHANGED <<clock, published, retiredAt, cached, misses>>
      /\ clock \in Time /\ job \in JobType /\ cached \in Response \cup {None}
      /\ published \in SUBSET Key /\ retiredAt \in [Key -> Time \cup {None}]
  BY JobTyped DEF Verify
<1>. PICK pc \in {"fetch", "check"} :
        /\ (pc = "check") <=> Usable(cached)
        /\ job' = [job EXCEPT
                !.pc = pc, !.key = k, !.sound = sound,
                !.steady = k \in published, !.began = clock,
                !.keys = IF pc = "check" THEN cached.keys ELSE {},
                !.maxAge = IF pc = "check" THEN cached.maxAge ELSE NoMaxAge]
  BY DEF Verify
<1>2. pc = "check" => /\ cached \in Response /\ cached # None
                      /\ cached.keys \in SUBSET Key /\ cached.maxAge \in Age
                      /\ cached.expiry \in Int /\ clock <= cached.expiry
  BY <1>1, JwksAssumption DEF Usable, Response, Age, NoMaxAge
<1>3. /\ job'.pc = pc /\ job'.key = k /\ job'.began = clock
      /\ job'.steady = (k \in published)
      /\ pc = "check" => job'.keys = cached.keys /\ job'.maxAge = cached.maxAge
  BY <1>1 DEF JobType
<1>4. job' \in JobType
  <2>1. /\ (IF pc = "check" THEN cached.keys ELSE {}) \in SUBSET Key
        /\ (IF pc = "check" THEN cached.maxAge ELSE NoMaxAge) \in Age
        /\ (k \in published) \in BOOLEAN
        /\ pc \in {"fetch", "read", "check", "verified", "failed"}
    BY <1>2, Numbers
  <2>2. ASSUME NEW keys \in SUBSET Key, NEW age \in Age, NEW steady \in BOOLEAN
        PROVE  [job EXCEPT !.pc = pc, !.key = k, !.sound = sound, !.steady = steady,
                           !.began = clock, !.keys = keys, !.maxAge = age] \in JobType
    BY <1>1, <2>1, Zenon DEF JobType
  <2>. QED  BY <2>1, <2>2
<1>5. TypeOK'
  BY <1>1, <1>4, JobTyped DEF TypeOK, JobType, Time, Age
<1>6. JobInv'
  <2>1. ASSUME pc = "check", NEW r \in job'.keys, Retired(r)
        PROVE  clock <= retiredAt[r] + ReadTime + Kept(job'.maxAge)
    <3>1. /\ cached.expiry <= retiredAt[r] + ReadTime + cached.maxAge
          /\ retiredAt[r] \in Time /\ r \in Key
      BY <1>1, <1>2, <1>3, <2>1 DEF CacheInv, Retired
    <3>. QED  BY <1>1, <1>2, <1>3, <2>1, <3>1, Numbers
  <2>2. job'.began <= clock' /\ job'.pc \in {"fetch", "check"}
    BY <1>1, <1>3, Numbers
  <2>3. job'.steady => job'.key \in published'
    BY <1>1, <1>3
  <2>4. job'.pc = "check" =>
           \A r \in job'.keys : retiredAt'[r] # None =>
               job'.began <= retiredAt'[r] + ReadTime + Kept(job'.maxAge)
    BY <1>1, <1>3, <2>1 DEF Retired
  <2>. QED  BY <2>2, <2>3, <2>4 DEF JobInv, Retired
<1>7. MissInv'
  BY <1>1, <1>2, <1>3 DEF MissInv
<1>. QED  BY <1>1, <1>5, <1>6, <1>7 DEF EndpointInv, CacheInv, Retired

\* The endpoint serves only keys that are not retired.
LEMMA FetchStep == JwksInv /\ (\E maxAge \in Age : Fetch(maxAge)) => JwksInv'
<1> SUFFICES ASSUME JwksInv, NEW maxAge \in Age, Fetch(maxAge) PROVE JwksInv'
  OBVIOUS
<1>. USE DEF JwksInv
<1>1. /\ UNCHANGED <<clock, published, retiredAt, cached, misses>>
      /\ clock \in Time /\ job \in JobType /\ published \in SUBSET Key
      /\ job' = [job EXCEPT !.pc = "read", !.keys = published,
                            !.served = clock, !.maxAge = maxAge]
  BY JobTyped DEF Fetch
<1>2. /\ job'.pc = "read" /\ job'.keys = published /\ job'.served = clock
      /\ job'.began = job.began /\ job'.steady = job.steady /\ job'.key = job.key
  BY <1>1 DEF JobType
<1>3. job' \in JobType
  BY <1>1 DEF JobType
<1>4. TypeOK'
  BY <1>1, <1>3, JobTyped DEF TypeOK, JobType, Time, Age
<1>5. JobInv'
  BY <1>1, <1>2, Numbers DEF JobInv, EndpointInv, Retired
<1>6. MissInv'
  BY <1>1, <1>2 DEF MissInv
<1>. QED  BY <1>1, <1>4, <1>5, <1>6 DEF EndpointInv, CacheInv, Retired

\* The response is stored, and its age starts now.
LEMMA StoreStep == JwksInv /\ Store => JwksInv'
<1> SUFFICES ASSUME JwksInv, Store PROVE JwksInv'
  OBVIOUS
<1>. USE DEF JwksInv
<1>1. /\ UNCHANGED <<clock, published, retiredAt, misses>> /\ job.pc = "read"
      /\ clock \in Time /\ job \in JobType /\ retiredAt \in [Key -> Time \cup {None}]
      /\ job' = [job EXCEPT !.pc = "check"]
      /\ cached' = [keys |-> job.keys, maxAge |-> job.maxAge,
                    expiry |-> clock + job.maxAge]
  BY JobTyped DEF Store, Expiry
<1>2. /\ job'.pc = "check" /\ job'.keys = job.keys /\ job'.maxAge = job.maxAge
      /\ job'.began = job.began /\ job'.steady = job.steady /\ job'.key = job.key
      /\ job' \in JobType
      /\ job.maxAge \in Age /\ job.keys \in SUBSET Key
      /\ job.served \in Time /\ job.began \in Time
  BY <1>1 DEF JobType
<1>3. cached' \in Response
  <2>1. clock + job.maxAge \in NoMaxAge .. MaxClock + MaxAge
    BY <1>1, <1>2, JwksAssumption DEF Time, Age, NoMaxAge
  <2>. QED  BY <1>1, <1>2, <2>1 DEF Response, Age
<1>4. TypeOK'
  BY <1>1, <1>2, <1>3, JobTyped DEF TypeOK, JobType, Time, Age
<1>5. \A k \in job.keys : Retired(k) =>
         retiredAt[k] \in Time /\ job.served <= retiredAt[k]
  BY <1>1, <1>2 DEF JobInv, Retired
<1>6. clock <= job.served + ReadTime /\ job.began <= job.served
  BY <1>1 DEF JobInv
<1>7. CacheInv'
  BY <1>1, <1>2, <1>5, <1>6, Numbers DEF CacheInv, Retired
<1>8. JobInv'
  BY <1>1, <1>2, <1>5, <1>6, Numbers DEF JobInv, Retired
<1>9. MissInv'
  BY <1>1, <1>2 DEF MissInv
<1>. QED  BY <1>1, <1>4, <1>7, <1>8, <1>9 DEF EndpointInv, Retired

LEMMA CheckPassesStep == JwksInv /\ CheckPasses => JwksInv'
<1> SUFFICES ASSUME JwksInv, CheckPasses PROVE JwksInv'
  OBVIOUS
<1>. USE DEF JwksInv
<1>1. /\ UNCHANGED <<clock, published, retiredAt, cached, misses>>
      /\ job.pc = "check" /\ job.key \in job.keys /\ job \in JobType
      /\ job' = [job EXCEPT !.pc = "verified"]
  BY JobTyped DEF CheckPasses, Acceptable
<1>2. job' = [job EXCEPT !.pc = job'.pc] /\ job' \in JobType /\ job'.pc = "verified"
      /\ job'.keys = job.keys /\ job'.maxAge = job.maxAge /\ job'.began = job.began
      /\ job'.steady = job.steady /\ job'.key = job.key
  BY <1>1 DEF JobType
<1>3. TypeOK'
  BY <1>1, <1>2, JobTyped DEF TypeOK, JobType, Time, Age
<1>4. JobInv' /\ MissInv'
  BY <1>1, <1>2 DEF JobInv, MissInv, Retired
<1>. QED  BY <1>1, <1>3, <1>4 DEF EndpointInv, CacheInv, Retired

\* A verification that fails drops the response.  If it counts as a miss then
\* its keys lacked a published one, so it is the first.
LEMMA FailStep == JwksInv /\ (FetchFails \/ CheckFails) => JwksInv'
<1> SUFFICES ASSUME JwksInv, FetchFails \/ CheckFails PROVE JwksInv'
  OBVIOUS
<1>. USE DEF JwksInv
<1>1. /\ UNCHANGED <<clock, published, retiredAt>> /\ cached' = None
      /\ job' = [job EXCEPT !.pc = "failed"] /\ job \in JobType
      /\ misses \in 0 .. MaxMisses
  BY JobTyped DEF FetchFails, CheckFails, Fail
<1>2. /\ job' \in JobType /\ job'.pc = "failed" /\ job'.began = job.began
      /\ job'.steady = job.steady /\ job'.key = job.key
  BY <1>1 DEF JobType
<1>3. misses' \in 0 .. MaxMisses /\ misses' <= 1
  <2>1. CASE misses' = misses
    BY <1>1, <2>1 DEF MissInv
  <2>2. CASE misses' # misses
    <3>1. /\ CheckFails /\ misses' = misses + 1 /\ misses < MaxMisses
          /\ job.pc = "check" /\ job.sound /\ job.steady /\ job.key \notin job.keys
      BY <2>2 DEF FetchFails, CheckFails, Acceptable
    <3>2. misses # 1
      BY <3>1 DEF MissInv, JobInv
    <3>. QED  BY <1>1, <3>1, <3>2, JwksAssumption DEF MissInv
  <2>. QED  BY <2>1, <2>2
<1>4. TypeOK'
  BY <1>1, <1>2, <1>3, JobTyped DEF TypeOK, JobType, Time, Age
<1>5. JobInv' /\ MissInv' /\ CacheInv' /\ EndpointInv'
  BY <1>1, <1>2, <1>3 DEF JobInv, MissInv, CacheInv, EndpointInv, Retired
<1>. QED  BY <1>4, <1>5

-----------------------------------------------------------------------------
(* The client, the clock, and a new container.                             *)
LEMMA PublishStep == JwksInv /\ (\E k \in Key : Publish(k)) => JwksInv'
<1> SUFFICES ASSUME JwksInv, NEW k \in Key, Publish(k) PROVE JwksInv'
  OBVIOUS
<1>. USE DEF JwksInv
<1>1. /\ UNCHANGED <<clock, retiredAt, cached, job>> /\ ~Retired(k)
      /\ published' = published \cup {k} /\ misses' = 0 /\ 0 \in 0 .. MaxMisses
  BY JwksAssumption DEF Publish, Retired
<1>2. TypeOK'
  BY <1>1 DEF TypeOK
<1>. QED  BY <1>1, <1>2 DEF EndpointInv, CacheInv, JobInv, MissInv, Retired

\* Whatever still holds the retired key ends in time from now.
LEMMA RetireStep == JwksInv /\ (\E k \in Key : Retire(k)) => JwksInv'
<1> SUFFICES ASSUME JwksInv, NEW k \in Key, Retire(k) PROVE JwksInv'
  OBVIOUS
<1>. USE DEF JwksInv
<1>1. /\ UNCHANGED <<clock, cached, misses>> /\ clock \in Time
      /\ published' = published \ {k} /\ published \in SUBSET Key
      /\ retiredAt' = [retiredAt EXCEPT ![k] = clock]
      /\ retiredAt \in [Key -> Time \cup {None}]
      /\ job \in JobType /\ job' = [job EXCEPT !.steady = @ /\ job.key # k]
      /\ cached \in Response \cup {None}
  BY JobTyped DEF Retire
<1>2. /\ job'.pc = job.pc /\ job'.key = job.key /\ job'.sound = job.sound
      /\ job'.began = job.began /\ job'.served = job.served /\ job'.keys = job.keys
      /\ job'.maxAge = job.maxAge /\ job'.steady = (job.steady /\ job.key # k)
      /\ job.keys \in SUBSET Key /\ job.maxAge \in Age
      /\ job.served \in Time /\ job.began \in Time
  BY <1>1 DEF JobType
<1>3. job' \in JobType
  <2>1. (job.steady /\ job.key # k) \in BOOLEAN
    OBVIOUS
  <2>. QED  BY <1>1, <2>1, Zenon DEF JobType
<1>4. /\ retiredAt' \in [Key -> Time \cup {None}]
      /\ \A r \in Key : retiredAt'[r] = IF r = k THEN clock ELSE retiredAt[r]
  BY <1>1
<1>5. TypeOK'
  BY <1>1, <1>3, <1>4, JobTyped DEF TypeOK, JobType, Time, Age
<1>6. CacheInv'
  <2> SUFFICES ASSUME cached # None
               PROVE  /\ cached.expiry <= clock + cached.maxAge
                      /\ \A r \in cached.keys : retiredAt'[r] # None =>
                           cached.expiry <= retiredAt'[r] + ReadTime + cached.maxAge
    BY <1>1 DEF CacheInv, Retired
  <2>1. /\ cached.keys \in SUBSET Key /\ cached.maxAge \in Int /\ cached.expiry \in Int
        /\ cached.expiry <= clock + cached.maxAge
    BY <1>1, JwksAssumption DEF CacheInv, Response, NoMaxAge
  <2>2. \A r \in cached.keys : retiredAt[r] # None =>
           cached.expiry <= retiredAt[r] + ReadTime + cached.maxAge
    BY DEF CacheInv, Retired
  <2>. QED  BY <1>1, <1>4, <2>1, <2>2, Numbers
<1>7. JobInv'
  <2>1. job.pc = "read" => \A r \in job.keys : retiredAt'[r] # None =>
                              job.served <= retiredAt'[r]
    BY <1>2, <1>4 DEF JobInv, Retired
  <2>2. ASSUME job.pc \in {"check", "verified"}, NEW r \in job.keys, retiredAt'[r] # None
        PROVE  job.began <= retiredAt'[r] + ReadTime + Kept(job.maxAge)
    <3>1. CASE r = k
      BY <1>1, <1>2, <1>4, <3>1, Numbers DEF JobInv
    <3>2. CASE r # k
      BY <1>2, <1>4, <2>2, <3>2 DEF JobInv, Retired
    <3>. QED  BY <3>1, <3>2
  <2>3. job'.pc = "read" => \A r \in job'.keys : retiredAt'[r] # None =>
                               job'.served <= retiredAt'[r]
    BY <1>2, <2>1
  <2>4. job'.pc \in {"check", "verified"} =>
           \A r \in job'.keys : retiredAt'[r] # None =>
               job'.began <= retiredAt'[r] + ReadTime + Kept(job'.maxAge)
    BY <1>2, <2>2
  <2>5. job'.steady => job'.key \in published'
    <3>1. job.steady => job.key \in published
      BY DEF JobInv
    <3>2. job'.steady => job.steady /\ job.key # k
      BY <1>2, Zenon
    <3>. QED  BY <1>1, <1>2, <3>1, <3>2
  <2>. QED  BY <1>1, <1>2, <2>3, <2>4, <2>5 DEF JobInv, Retired
<1>8. EndpointInv'
  BY <1>1, <1>4 DEF EndpointInv, Retired
<1>9. MissInv'
  BY <1>1, <1>2 DEF MissInv
<1>. QED  BY <1>5, <1>6, <1>7, <1>8, <1>9

LEMMA TickStep == JwksInv /\ Tick => JwksInv'
<1> SUFFICES ASSUME JwksInv, Tick PROVE JwksInv'
  OBVIOUS
<1>. USE DEF JwksInv
<1>1. /\ UNCHANGED <<published, retiredAt, cached, job, misses>> /\ clock' = clock + 1
      /\ clock \in Time /\ clock' \in Time /\ job \in JobType
      /\ cached \in Response \cup {None}
      /\ job.pc = "read" => clock < job.served + ReadTime
  BY JobTyped, JwksAssumption DEF Tick, Time
<1>2. TypeOK'
  BY <1>1, JobTyped DEF TypeOK, Time
<1>3. job.began \in Time /\ job.served \in Time
  BY <1>1 DEF JobType
<1>4. cached # None => cached.expiry \in Int /\ cached.maxAge \in Int
  BY <1>1, JwksAssumption DEF Response, NoMaxAge
<1>5. CacheInv'
  BY <1>1, <1>4, Numbers DEF CacheInv, Retired
<1>6. JobInv'
  <2>1. job.began <= clock + 1 /\ (job.served <= clock => job.served <= clock + 1)
    <3>1. clock \in Int /\ job.began \in Int /\ job.served \in Int
      BY <1>1, <1>3 DEF Time
    <3>2. job.began <= clock
      BY DEF JobInv
    <3> HIDE DEF JwksInv
    <3>. QED  BY <3>1, <3>2
  <2>2. job.pc = "read" => clock + 1 <= job.served + ReadTime
    <3>1. clock \in Int /\ job.served \in Int /\ ReadTime \in Int
      BY <1>1, <1>3, JwksAssumption DEF Time
    <3>2. job.pc = "read" => clock < job.served + ReadTime
      BY <1>1
    <3>. QED  BY <3>1, <3>2
  <2>. QED  BY <1>1, <2>1, <2>2 DEF JobInv, Retired
<1>. QED  BY <1>1, <1>2, <1>5, <1>6 DEF EndpointInv, MissInv, Retired

LEMMA ColdStartStep == JwksInv /\ ColdStart => JwksInv'
<1> SUFFICES ASSUME JwksInv, ColdStart PROVE JwksInv'
  OBVIOUS
<1>. USE DEF JwksInv
<1>1. /\ UNCHANGED <<clock, published, retiredAt, misses>> /\ cached' = None
      /\ clock \in Time /\ job.key \in Key /\ job' = ColdJob(job.key)
  BY JobTyped DEF ColdStart, JobType
<1>2. job' \in JobType /\ job'.pc = "failed" /\ job'.began = 0 /\ ~job'.steady
  BY <1>1, ColdJobTyped
<1>3. TypeOK'
  BY <1>1, <1>2, JobTyped DEF TypeOK, JobType, Time, Age
<1>4. JobInv'
  <2>1. job'.began <= clock'
    BY <1>1, <1>2, Numbers
  <2>. QED  BY <1>2, <2>1 DEF JobInv
<1>. QED  BY <1>1, <1>2, <1>3, <1>4 DEF EndpointInv, CacheInv, MissInv, Retired

LEMMA UnchangedStep == JwksInv /\ UNCHANGED vars => JwksInv'
  BY DEF vars, JwksInv, TypeOK, EndpointInv, CacheInv, JobInv, MissInv, Retired

-----------------------------------------------------------------------------
(* Theorems.                                                               *)

\* Every state of a container's cache is as JwksInv says: for any number of
\* keys, however they are published and retired around the verifier's steps.
THEOREM CacheIsKept == Spec => []JwksInv
<1>1. JwksInv /\ [Next]_vars => JwksInv'
  BY VerifyStep, FetchStep, StoreStep, CheckPassesStep, FailStep, PublishStep,
     RetireStep, TickStep, ColdStartStep, UnchangedStep DEF Next, Age
<1>. QED  BY JwksInit, <1>1, PTL DEF Spec

\* No JWT is accepted with a retired key in a verification begun more than
\* max-age and the reading time after it was retired.
THEOREM RetiredKeysAreDropped == Spec => []RetiredKeysExpire
<1>1. JwksInv => RetiredKeysExpire
  BY DEF JwksInv, JobInv, RetiredKeysExpire
<1>. QED  BY CacheIsKept, <1>1, PTL

\* A key rotation costs at most one refusal, whatever max-age was named.
THEOREM RotationsCostOneMiss == Spec => []OneMissPerRotation
<1>1. JwksInv => OneMissPerRotation
  BY DEF JwksInv, MissInv, OneMissPerRotation
<1>. QED  BY CacheIsKept, <1>1, PTL
=============================================================================
