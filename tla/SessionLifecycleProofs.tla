----------------------- MODULE SessionLifecycleProofs -----------------------
(***************************************************************************)
(* Proofs about SessionLifecycle, for any sessions, updates, deletions,    *)
(* fields and attempts.                                                    *)
(***************************************************************************)
EXTENDS SessionLifecycle, TLAPS

-----------------------------------------------------------------------------
(* The records, named so that the lemmas below stay short.                 *)
CreateType == [pc : {"idle", "identity", "audit", "done"}, claims : BOOLEAN,
               resp : {None, 201, 500}]
UpdateAnswer == {None, 200, 400, 404, 500}
UpdateType == [pc : {"idle", "ensure", "apply", "done"}, session : Session \cup {None},
               set : SUBSET Field, remove : SUBSET Field,
               tries : 0 .. UpdateAttempts - 1, resp : UpdateAnswer]
DeleteAnswer == {None, 200, 404, 500}
DeleteType == [pc : {"idle", "sent", "done"}, session : Session \cup {None},
               tries : 0 .. DeleteAttempts - 1, resp : DeleteAnswer]

LEMMA Typed == TypeOK <=> /\ clock \in 0 .. MaxClock
                          /\ table \in [Session -> Item \cup {None}]
                          /\ replica \in [Session -> Item \cup {None}]
                          /\ identity \in [Session -> Int \cup {None}]
                          /\ audited \in SUBSET Session
                          /\ create \in [Session -> CreateType]
                          /\ update \in [Update -> UpdateType]
                          /\ delete \in [DeleteCall -> DeleteType]
  BY DEF TypeOK, CreateType, UpdateType, UpdateAnswer, DeleteType, DeleteAnswer

\* No status code is None.
LEMMA Statuses == None \notin {200, 201, 400, 404, 500}
  BY LifecycleAssumption

\* A map that was made, or merged into, is not missing.
LEMMA MapsExist ==
  /\ EmptyMap \in SessionData /\ EmptyMap # None
  /\ \A map \in SessionData : MapOrEmpty(map) \in SessionData /\ MapOrEmpty(map) # None
  /\ \A u \in Update : \A map \in SessionData :
       map # None => Merged(u, map) \in SessionData /\ Merged(u, map) # None
<1>1. EmptyMap \in [Field -> Update \cup {None}]
  BY DEF EmptyMap
<1>2. ASSUME NEW u \in Update, NEW map \in [Field -> Update \cup {None}]
      PROVE  Merged(u, map) \in [Field -> Update \cup {None}]
  BY DEF Merged
<1>. QED  BY <1>1, <1>2, LifecycleAssumption DEF SessionData, MapOrEmpty

\* Ended and unanswered calls keep what they are about.
LEMMA EndedUpdate ==
  ASSUME NEW call \in UpdateType, NEW resp \in {200, 400, 404, 500}
  PROVE  /\ Ended(call, resp) \in UpdateType
         /\ Ended(call, resp).pc = "done" /\ Ended(call, resp).resp = resp
         /\ Ended(call, resp).session = call.session
<1>1. resp \in UpdateAnswer
  BY DEF UpdateAnswer
<1>2. [call EXCEPT !.pc = "done", !.resp = resp] \in UpdateType
  BY <1>1, Zenon DEF UpdateType
<1>. QED  BY <1>2 DEF Ended, UpdateType

LEMMA UnansweredUpdate ==
  ASSUME NEW call \in UpdateType
  PROVE  LET next == Unanswered(call, UpdateAttempts)
         IN  /\ next \in UpdateType /\ next.session = call.session
             /\ \/ next.pc = call.pc /\ next.resp = call.resp
                \/ next.pc = "done" /\ next.resp = 500
<1>. DEFINE again == [call EXCEPT !.tries = @ + 1]
<1>1. CASE call.tries + 1 < UpdateAttempts
  <2>1. call.tries + 1 \in 0 .. UpdateAttempts - 1
    BY <1>1, LifecycleAssumption DEF UpdateType
  <2>2. again \in UpdateType
    BY <2>1 DEF UpdateType
  <2>3. again.pc = call.pc /\ again.resp = call.resp /\ again.session = call.session
    BY DEF UpdateType
  <2>. QED  BY <1>1, <2>2, <2>3 DEF Unanswered
<1>2. CASE ~(call.tries + 1 < UpdateAttempts)
  BY <1>2, EndedUpdate DEF Unanswered
<1>. QED  BY <1>1, <1>2

LEMMA EndedDelete ==
  ASSUME NEW call \in DeleteType, NEW resp \in {200, 404, 500}
  PROVE  /\ Ended(call, resp) \in DeleteType
         /\ Ended(call, resp).pc = "done" /\ Ended(call, resp).resp = resp
         /\ Ended(call, resp).session = call.session
<1>1. resp \in DeleteAnswer
  BY DEF DeleteAnswer
<1>2. [call EXCEPT !.pc = "done", !.resp = resp] \in DeleteType
  BY <1>1, Zenon DEF DeleteType
<1>. QED  BY <1>2 DEF Ended, DeleteType

LEMMA UnansweredDelete ==
  ASSUME NEW call \in DeleteType
  PROVE  LET next == Unanswered(call, DeleteAttempts)
         IN  /\ next \in DeleteType /\ next.session = call.session
             /\ \/ next.pc = call.pc /\ next.resp = call.resp
                \/ next.pc = "done" /\ next.resp = 500
<1>. DEFINE again == [call EXCEPT !.tries = @ + 1]
<1>1. CASE call.tries + 1 < DeleteAttempts
  <2>1. call.tries + 1 \in 0 .. DeleteAttempts - 1
    BY <1>1, LifecycleAssumption DEF DeleteType
  <2>2. again \in DeleteType
    BY <2>1 DEF DeleteType
  <2>3. again.pc = call.pc /\ again.resp = call.resp /\ again.session = call.session
    BY DEF DeleteType
  <2>. QED  BY <1>1, <2>2, <2>3 DEF Unanswered
<1>2. CASE ~(call.tries + 1 < DeleteAttempts)
  BY <1>2, EndedDelete DEF Unanswered
<1>. QED  BY <1>1, <1>2

-----------------------------------------------------------------------------
(* What calls know of their sessions survives every step of the others.    *)

\* The two facts all of it rests on: a known session stays known, and what is
\* missing of it stays missing.
KnownStayGone ==
  \A s \in Session : Known(s) =>
      /\ Known(s)'
      /\ table[s] = None => table'[s] = None
      /\ identity[s] = None => identity'[s] = None

\* No step takes a known session's map away, other than with the session.
MapsStay ==
  \A s \in Session : Known(s) /\ table'[s] # None =>
      table[s] # None /\ (table[s].sessionData # None => table'[s].sessionData # None)

\* What is true of an update, and of a deletion, in a state.
UpdateInv(u) ==
  /\ update[u].pc # "idle" => update[u].session \in Session /\ Known(update[u].session)
  /\ update[u].pc # "done" => update[u].resp = None
  /\ update[u].resp = 404 => table[update[u].session] = None
  /\ update[u].pc = "apply" =>
        \/ table[update[u].session] = None
        \/ table[update[u].session].sessionData # None

DeleteInv(d) ==
  /\ delete[d].pc # "idle" => delete[d].session \in Session /\ Known(delete[d].session)
  /\ delete[d].pc # "done" => delete[d].resp = None
  /\ delete[d].resp = 200 =>
       table[delete[d].session] = None /\ identity[delete[d].session] = None

LEMMA CallsTogether ==
  CallInv /\ ToldGoneMeansGone /\ MapStaysBetweenUpdates <=>
    (\A u \in Update : UpdateInv(u)) /\ (\A d \in DeleteCall : DeleteInv(d))
  BY DEF CallInv, ToldGoneMeansGone, MapStaysBetweenUpdates, UpdateInv, DeleteInv

LEMMA UpdateKept ==
  ASSUME NEW u \in Update, UpdateInv(u), KnownStayGone, MapsStay, update'[u] = update[u]
  PROVE  UpdateInv(u)'
<1>. DEFINE s == update[u].session
<1>1. update[u].resp = 404 => update[u].pc # "idle"
  BY Statuses DEF UpdateInv
<1>2. update[u].pc # "idle" =>
        /\ s \in Session /\ create'[s].resp = 201
        /\ table[s] = None => table'[s] = None
  BY DEF UpdateInv, KnownStayGone, Known
<1>3. update[u].pc = "apply" => table'[s] = None \/ table'[s].sessionData # None
  BY DEF UpdateInv, KnownStayGone, MapsStay
<1>. QED  BY <1>1, <1>2, <1>3 DEF UpdateInv, Known

LEMMA DeleteKept ==
  ASSUME NEW d \in DeleteCall, DeleteInv(d), KnownStayGone, delete'[d] = delete[d]
  PROVE  DeleteInv(d)'
<1>. DEFINE s == delete[d].session
<1>1. delete[d].resp = 200 => delete[d].pc # "idle"
  BY Statuses DEF DeleteInv
<1>2. delete[d].pc # "idle" =>
        /\ s \in Session /\ create[s].resp = 201 /\ create'[s].resp = 201
        /\ table[s] = None => table'[s] = None
        /\ identity[s] = None => identity'[s] = None
  BY DEF DeleteInv, KnownStayGone, Known
<1>. QED  BY <1>1, <1>2 DEF DeleteInv, Known

LEMMA CallsKept ==
  ASSUME LifecycleInv, KnownStayGone, MapsStay, UNCHANGED <<update, delete>>
  PROVE  CallInv' /\ ToldGoneMeansGone' /\ MapStaysBetweenUpdates'
<1>1. \A u \in Update : UpdateInv(u)'
  BY CallsTogether, UpdateKept DEF LifecycleInv
<1>2. \A d \in DeleteCall : DeleteInv(d)'
  BY CallsTogether, DeleteKept DEF LifecycleInv
<1>. QED  BY <1>1, <1>2 DEF CallInv, ToldGoneMeansGone, MapStaysBetweenUpdates,
                         UpdateInv, DeleteInv

\* A session no step creates, and whose identity goes only with it.
LEMMA StoredKept ==
  ASSUME LifecycleInv, NEW s \in Session,
         create'[s] = create[s], audited \subseteq audited',
         clock' \in Int, clock <= clock',
         \/ table'[s] = None
         \/ /\ table[s] # None /\ table'[s].expiryDate = table[s].expiryDate
            /\ identity'[s] = identity[s],
         identity[s] = None => identity'[s] = None
  PROVE  Stored(s)'
<1>1. Stored(s) /\ clock \in Int /\ SessionTtl \in Int
  BY LifecycleAssumption DEF LifecycleInv, StoredInv, TypeOK
<1>2. CASE table'[s] = None
  BY <1>1, <1>2 DEF Stored, Known
<1>3. CASE /\ table[s] # None /\ table'[s].expiryDate = table[s].expiryDate
           /\ identity'[s] = identity[s]
  BY <1>1, <1>3 DEF Stored, Known
<1>. QED  BY <1>2, <1>3

-----------------------------------------------------------------------------
(* The initial state.                                                      *)
LEMMA LifecycleInit == Init => LifecycleInv
<1> SUFFICES ASSUME Init PROVE LifecycleInv
  OBVIOUS
<1>. USE DEF Init
<1>1. /\ 0 \in 0 .. MaxClock /\ 0 \in 0 .. UpdateAttempts - 1
      /\ 0 \in 0 .. DeleteAttempts - 1 /\ None \in UpdateAnswer /\ None \in DeleteAnswer
  BY LifecycleAssumption DEF UpdateAnswer, DeleteAnswer
<1>2. create \in [Session -> CreateType]
  BY DEF CreateType
<1>3. update \in [Update -> UpdateType]
  BY <1>1 DEF UpdateType
<1>4. delete \in [DeleteCall -> DeleteType]
  BY <1>1 DEF DeleteType
<1>5. TypeOK
  BY <1>1, <1>2, <1>3, <1>4, Typed
<1>6. StoredInv
  BY Statuses DEF StoredInv, Stored, Known
<1>7. CallInv /\ ToldGoneMeansGone /\ MapStaysBetweenUpdates
  BY Statuses DEF CallInv, ToldGoneMeansGone, MapStaysBetweenUpdates
<1>. QED  BY <1>5, <1>6, <1>7 DEF LifecycleInv

-----------------------------------------------------------------------------
(* POST /session.                                                          *)

\* An invocation that is not done yet is one that no call is about.
LEMMA CreateEnded ==
  ASSUME NEW call \in CreateType, NEW resp \in {201, 500}
  PROVE  /\ Ended(call, resp) \in CreateType
         /\ Ended(call, resp).pc = "done" /\ Ended(call, resp).resp = resp
         /\ Ended(call, resp).claims = call.claims
<1>1. resp \in {None, 201, 500}
  OBVIOUS
<1>. QED  BY <1>1 DEF Ended, CreateType

\* A step of one invocation: what is known is about other sessions.
LEMMA OneCreate ==
  ASSUME LifecycleInv, NEW s \in Session, ~Known(s),
         create' \in [Session -> CreateType],
         table' \in [Session -> Item \cup {None}],
         identity' \in [Session -> Int \cup {None}],
         \A t \in Session \ {s} : /\ create'[t] = create[t] /\ table'[t] = table[t]
                                  /\ identity'[t] = identity[t],
         audited' \in SUBSET Session, audited \subseteq audited',
         UNCHANGED <<clock, replica, update, delete>>,
         Stored(s)'
  PROVE  LifecycleInv'
<1>1. clock \in 0 .. MaxClock
  BY Typed DEF LifecycleInv
<1>2. TypeOK'
  BY Typed DEF LifecycleInv, TypeOK, CreateType, UpdateType, DeleteType
<1>3. \A t \in Session : t # s => /\ create'[t] = create[t] /\ table'[t] = table[t]
                                  /\ identity'[t] = identity[t]
  OBVIOUS
<1>4. StoredInv'
  <2>1. ASSUME NEW t \in Session, t # s PROVE Stored(t)'
    <3>1. clock' \in Int /\ clock <= clock'
      BY <1>1
    <3>. QED  BY <1>3, <2>1, <3>1, StoredKept
  <2>. QED  BY <2>1 DEF StoredInv
<1>5. KnownStayGone /\ MapsStay
  BY <1>3 DEF KnownStayGone, MapsStay, Known
<1>. QED  BY <1>2, <1>4, <1>5, CallsKept DEF LifecycleInv

\* The session begins to be, with an expiry of its own and no identity yet.
LEMMA SaveSessionStep ==
  ASSUME LifecycleInv, NEW s \in Session, NEW claims \in BOOLEAN, SaveSession(s, claims)
  PROVE  LifecycleInv'
<1>. DEFINE saved == [expiryDate |-> clock + SessionTtl, sessionData |-> None]
            next == [pc |-> IF claims THEN "identity" ELSE "audit",
                     claims |-> claims, resp |-> None]
<1>1. /\ create \in [Session -> CreateType] /\ table \in [Session -> Item \cup {None}]
      /\ identity \in [Session -> Int \cup {None}] /\ audited \in SUBSET Session
      /\ clock \in Int /\ SessionTtl \in Int
  BY Typed, LifecycleAssumption DEF LifecycleInv
<1>2. /\ create[s].pc = "idle" /\ create[s] \in CreateType
      /\ UNCHANGED <<clock, replica, identity, audited, update, delete>>
  BY <1>1 DEF SaveSession
<1>3. /\ ~Known(s) /\ table[s] = None /\ identity[s] = None
  BY <1>2 DEF LifecycleInv, StoredInv, Stored
<1>4. saved \in Item /\ saved.expiryDate = clock + SessionTtl
  BY <1>1 DEF Item, SessionData
<1>5. PICK item \in {None, saved}, call \in {next, Ended(create[s], 500)} :
        /\ table' = [table EXCEPT ![s] = item]
        /\ create' = [create EXCEPT ![s] = call]
  <2>1. table = [table EXCEPT ![s] = None]
    BY <1>1, <1>3
  <2>2. \/ table' = [table EXCEPT ![s] = saved] /\ create' = [create EXCEPT ![s] = next]
        \/ /\ table' = table \/ table' = [table EXCEPT ![s] = saved]
           /\ create' = [create EXCEPT ![s] = Ended(create[s], 500)]
    BY <1>1 DEF SaveSession
  <2>. HIDE DEF saved, next
  <2>. QED  BY <2>1, <2>2
<1>6. /\ call \in CreateType /\ call.pc \in {"identity", "audit", "done"}
      /\ call.resp # 201 /\ (call.pc = "audit" => ~call.claims)
  <2>1. CASE call = next
    BY <2>1, Statuses DEF CreateType
  <2>2. CASE call = Ended(create[s], 500)
    <3>. HIDE DEF next
    <3>. QED  BY <1>2, <2>2, CreateEnded
  <2>. QED  BY <1>5, <2>1, <2>2
<1>. HIDE DEF saved, next
<1>7. Stored(s)'
  <2>1. create'[s] = call /\ table'[s] = item /\ identity'[s] = None
    BY <1>1, <1>2, <1>3, <1>5
  <2>. QED  BY <1>1, <1>2, <1>4, <1>5, <1>6, <2>1 DEF Stored, Known
<1>8. /\ create' \in [Session -> CreateType] /\ table' \in [Session -> Item \cup {None}]
      /\ \A t \in Session \ {s} : create'[t] = create[t] /\ table'[t] = table[t]
  BY <1>1, <1>4, <1>5, <1>6
<1>. QED  BY <1>1, <1>2, <1>3, <1>7, <1>8, OneCreate

\* The identity is saved after the session, so it outlives it.
LEMMA SaveIdentityStep ==
  ASSUME LifecycleInv, NEW s \in Session, SaveIdentity(s)
  PROVE  LifecycleInv'
<1>1. /\ create \in [Session -> CreateType] /\ table \in [Session -> Item \cup {None}]
      /\ identity \in [Session -> Int \cup {None}] /\ audited \in SUBSET Session
      /\ clock \in Int /\ SessionTtl \in Int
  BY Typed, LifecycleAssumption DEF LifecycleInv
<1>2. /\ create[s].pc = "identity" /\ create[s] \in CreateType
      /\ UNCHANGED <<clock, table, replica, audited, update, delete>>
  BY <1>1 DEF SaveIdentity
<1>3. ~Known(s) /\ Stored(s) /\ create[s].resp # 201
  BY <1>2 DEF LifecycleInv, StoredInv, Stored, Known
<1>. DEFINE next == [create[s] EXCEPT !.pc = "audit"]
<1>4. PICK date \in {identity[s], clock + SessionTtl},
           call \in {next, Ended(create[s], 500)} :
        /\ identity' = [identity EXCEPT ![s] = date]
        /\ create' = [create EXCEPT ![s] = call]
        /\ call = next => date = clock + SessionTtl
  <2>1. identity = [identity EXCEPT ![s] = identity[s]]
    BY <1>1
  <2>2. [create EXCEPT ![s].pc = "audit"] = [create EXCEPT ![s] = next]
    BY <1>1
  <2>3. Ended(create[s], 500) # next
    <3>1. Ended(create[s], 500).pc = "done"
      BY <1>2, CreateEnded
    <3>2. next.pc = "audit"
      BY <1>2 DEF CreateType
    <3>. HIDE DEF next
    <3>. QED  BY <3>1, <3>2
  <2>4. \/ /\ identity' = [identity EXCEPT ![s] = clock + SessionTtl]
           /\ create' = [create EXCEPT ![s] = next]
        \/ /\ identity' \in {identity, [identity EXCEPT ![s] = clock + SessionTtl]}
           /\ create' = [create EXCEPT ![s] = Ended(create[s], 500)]
    BY <1>1, <2>2 DEF SaveIdentity
  <2>. HIDE DEF next
  <2>. QED  BY <2>1, <2>3, <2>4
<1>5. /\ call \in CreateType /\ call.pc \in {"audit", "done"} /\ call.resp # 201
      /\ call.pc = "audit" => call = next
  <2>1. /\ next \in CreateType /\ next.pc = "audit" /\ next.resp = create[s].resp
    BY <1>2 DEF CreateType
  <2>2. /\ Ended(create[s], 500) \in CreateType /\ Ended(create[s], 500).pc = "done"
        /\ Ended(create[s], 500).resp = 500
    BY <1>2, CreateEnded
  <2>. HIDE DEF next
  <2>. QED  BY <1>3, <1>4, <2>1, <2>2
<1>. HIDE DEF next
<1>6. /\ create' \in [Session -> CreateType] /\ identity' \in [Session -> Int \cup {None}]
      /\ \A t \in Session \ {s} : create'[t] = create[t] /\ identity'[t] = identity[t]
  BY <1>1, <1>4, <1>5
<1>7. Stored(s)'
  <2>1. /\ create'[s] = call /\ table'[s] = table[s] /\ identity'[s] = date
        /\ clock + SessionTtl # None
    BY <1>1, <1>2, <1>4, LifecycleAssumption
  <2>2. CASE date = clock + SessionTtl
    BY <1>1, <1>2, <1>3, <1>5, <2>1, <2>2 DEF Stored, Known
  <2>3. CASE date = identity[s] /\ call.pc = "done"
    BY <1>1, <1>2, <1>3, <1>5, <2>1, <2>3 DEF Stored, Known
  <2>. QED  BY <1>4, <1>5, <2>2, <2>3
<1>. QED  BY <1>1, <1>2, <1>3, <1>6, <1>7, OneCreate

\* The session becomes known when the last of its three effects is reported.
LEMMA SendAuditStep ==
  ASSUME LifecycleInv, NEW s \in Session, SendAudit(s)
  PROVE  LifecycleInv'
<1>1. /\ create \in [Session -> CreateType] /\ table \in [Session -> Item \cup {None}]
      /\ identity \in [Session -> Int \cup {None}] /\ audited \in SUBSET Session
      /\ clock \in Int
  BY Typed DEF LifecycleInv
<1>2. /\ create[s].pc = "audit" /\ create[s] \in CreateType
      /\ UNCHANGED <<clock, table, replica, identity, update, delete>>
  BY <1>1 DEF SendAudit
<1>3. ~Known(s) /\ Stored(s)
  BY <1>2 DEF LifecycleInv, StoredInv, Stored
<1>4. PICK resp \in {201, 500} :
        /\ create' = [create EXCEPT ![s] = Ended(create[s], resp)]
        /\ audited' \in {audited, audited \cup {s}}
        /\ resp = 201 => s \in audited'
  BY <1>1 DEF SendAudit
<1>. DEFINE call == Ended(create[s], resp)
<1>5. call \in CreateType /\ call.pc = "done" /\ call.resp = resp
      /\ call.claims = create[s].claims
  BY <1>2, CreateEnded
<1>. HIDE DEF call
<1>6. create' = [create EXCEPT ![s] = call]
  BY <1>4 DEF call
<1>7. Stored(s)'
  <2>1. create'[s] = call /\ table'[s] = table[s] /\ identity'[s] = identity[s]
    BY <1>1, <1>2, <1>6
  <2>. QED  BY <1>2, <1>3, <1>4, <1>5, <2>1 DEF Stored, Known
<1>8. /\ create' \in [Session -> CreateType] /\ audited' \in SUBSET Session
      /\ audited \subseteq audited'
      /\ \A t \in Session \ {s} : create'[t] = create[t]
  BY <1>1, <1>4, <1>5, <1>6
<1>. QED  BY <1>1, <1>2, <1>3, <1>7, <1>8, OneCreate

-----------------------------------------------------------------------------
(* The session-data update.                                                *)

\* A step of one update changes at most the data of sessions that exist.
LEMMA OneUpdate ==
  ASSUME LifecycleInv, NEW u \in Update, NEW next \in UpdateType,
         update' = [update EXCEPT ![u] = next],
         table' \in [Session -> Item \cup {None}],
         \A s \in Session :
            \/ table'[s] = table[s]
            \/ /\ table[s] # None /\ table'[s].expiryDate = table[s].expiryDate
               /\ table[s].sessionData # None => table'[s].sessionData # None,
         UNCHANGED <<clock, replica, identity, audited, create, delete>>,
         UpdateInv(u)'
  PROVE  LifecycleInv'
<1>1. clock \in 0 .. MaxClock /\ update \in [Update -> UpdateType]
  BY Typed DEF LifecycleInv
<1>2. /\ update' \in [Update -> UpdateType]
      /\ \A v \in Update \ {u} : update'[v] = update[v]
  BY <1>1
<1>3. TypeOK'
  BY <1>2, Typed DEF LifecycleInv, TypeOK, CreateType, UpdateType, UpdateAnswer, DeleteType, DeleteAnswer
<1>4. StoredInv'
  <2>1. ASSUME NEW s \in Session PROVE Stored(s)'
    <3>1. clock' \in Int /\ clock <= clock'
      BY <1>1
    <3>. QED  BY <3>1, StoredKept
  <2>. QED  BY <2>1 DEF StoredInv
<1>5. KnownStayGone /\ MapsStay
  BY DEF KnownStayGone, MapsStay, Known
<1>6. \A v \in Update : UpdateInv(v)'
  BY <1>2, <1>5, CallsTogether, UpdateKept DEF LifecycleInv
<1>7. \A d \in DeleteCall : DeleteInv(d)'
  BY <1>5, CallsTogether, DeleteKept DEF LifecycleInv
<1>. QED  BY <1>3, <1>4, <1>6, <1>7
          DEF LifecycleInv, CallInv, ToldGoneMeansGone, MapStaysBetweenUpdates,
              UpdateInv, DeleteInv

\* What an update is in a good state.
LEMMA UpdateFacts ==
  ASSUME LifecycleInv, NEW u \in Update
  PROVE  /\ update \in [Update -> UpdateType] /\ update[u] \in UpdateType
         /\ table \in [Session -> Item \cup {None}]
         /\ UpdateInv(u)
<1>1. TypeOK /\ UpdateInv(u)
  BY CallsTogether DEF LifecycleInv
<1>. QED  BY <1>1, Typed

LEMMA UpdateRefusedStep ==
  ASSUME LifecycleInv, NEW u \in Update, NEW s \in Session, UpdateRefused(u, s)
  PROVE  LifecycleInv'
<1>. DEFINE call == [update[u] EXCEPT !.session = s]
            next == Ended(call, 400)
<1>1. /\ Known(s) /\ update' = [update EXCEPT ![u] = next]
      /\ UNCHANGED <<clock, table, replica, identity, audited, create, delete>>
  BY UpdateFacts DEF UpdateRefused
<1>2. call \in UpdateType /\ call.session = s
  BY UpdateFacts DEF UpdateType
<1>. HIDE DEF call
<1>3. next \in UpdateType /\ next.pc = "done" /\ next.resp = 400 /\ next.session = s
  BY <1>2, EndedUpdate
<1>. HIDE DEF next
<1>4. UpdateInv(u)'
  <2>1. update'[u] = next
    BY <1>1, UpdateFacts
  <2>. QED  BY <1>1, <1>3, <2>1 DEF UpdateInv, Known
<1>. QED  BY <1>1, <1>3, <1>4, UpdateFacts, OneUpdate

LEMMA UpdateSendStep ==
  ASSUME LifecycleInv, NEW u \in Update, NEW s \in Session,
         NEW set \in SUBSET Field, NEW remove \in SUBSET Field,
         UpdateSend(u, s, set, remove)
  PROVE  LifecycleInv'
<1>. DEFINE next == [update[u] EXCEPT !.pc = "ensure", !.session = s,
                                      !.set = set, !.remove = remove]
<1>1. /\ Known(s) /\ update[u].pc = "idle" /\ update' = [update EXCEPT ![u] = next]
      /\ UNCHANGED <<clock, table, replica, identity, audited, create, delete>>
  BY UpdateFacts DEF UpdateSend
<1>2. next \in UpdateType /\ next.pc = "ensure" /\ next.session = s
      /\ next.resp = update[u].resp
  BY UpdateFacts DEF UpdateType
<1>3. update[u].resp = None
  BY <1>1, UpdateFacts DEF UpdateInv
<1>. HIDE DEF next
<1>4. UpdateInv(u)'
  <2>1. update'[u] = next
    BY <1>1, UpdateFacts
  <2>. QED  BY <1>1, <1>2, <1>3, <2>1, Statuses DEF UpdateInv, Known
<1>. QED  BY <1>1, <1>2, <1>4, UpdateFacts, OneUpdate

\* The map made by the first update is there for the second.
LEMMA EnsureMapStep ==
  ASSUME LifecycleInv, NEW u \in Update, EnsureMap(u)
  PROVE  LifecycleInv'
<1>. DEFINE call == update[u]
            s    == call.session
            go   == [call EXCEPT !.pc = "apply", !.tries = 0]
<1>1. /\ call.pc = "ensure" /\ call.resp = None /\ s \in Session /\ Known(s)
      /\ call \in UpdateType
      /\ UNCHANGED <<clock, replica, identity, audited, create, delete>>
  BY UpdateFacts DEF EnsureMap, UpdateInv
<1>2. table' = IF Exists(s) THEN [table EXCEPT ![s].sessionData = MapOrEmpty(@)]
                            ELSE table
  BY DEF EnsureMap
<1>3. PICK next \in {Ended(call, 404), Ended(call, 400), go,
                     Unanswered(call, UpdateAttempts)} :
        /\ update' = [update EXCEPT ![u] = next]
        /\ next = Ended(call, 404) => ~Exists(s)
        /\ next = go => Exists(s)
  <2>1. go.pc = "apply" /\ go.resp = None
    BY <1>1 DEF UpdateType
  <2>2. /\ Ended(call, 404).resp = 404
        /\ Ended(call, 404).pc = "done" /\ Ended(call, 400).resp = 400
        /\ Ended(call, 400).pc = "done"
    BY <1>1, EndedUpdate
  <2>3. /\ Unanswered(call, UpdateAttempts).pc \in {"ensure", "done"}
        /\ Unanswered(call, UpdateAttempts).resp # 404
    BY <1>1, UnansweredUpdate, Statuses
  <2>4. \/ ~Exists(s) /\ update' = [update EXCEPT ![u] = Ended(call, 404)]
        \/ Exists(s) /\ update' = [update EXCEPT ![u] = Ended(call, 400)]
        \/ Exists(s) /\ update' = [update EXCEPT ![u] = go]
        \/ update' = [update EXCEPT ![u] = Unanswered(call, UpdateAttempts)]
    BY DEF EnsureMap
  <2>. HIDE DEF call, s, go
  <2>. QED  BY <2>1, <2>2, <2>3, <2>4, Statuses
<1>4. /\ next \in UpdateType /\ next.session = s
      /\ next.pc \in {"ensure", "apply", "done"}
      /\ next.pc # "done" => next.resp = None
      /\ next.resp = 404 => ~Exists(s)
      /\ next.pc = "apply" => Exists(s)
  <2>1. 0 \in 0 .. UpdateAttempts - 1
    BY LifecycleAssumption
  <2>2. /\ go \in UpdateType /\ go.session = s /\ go.pc = "apply" /\ go.resp = None
    BY <1>1, <2>1 DEF UpdateType
  <2>. HIDE DEF call, s, go
  <2>3. CASE next = Ended(call, 404)
    BY <1>1, <1>3, <2>3, EndedUpdate DEF s
  <2>4. CASE next = Ended(call, 400)
    BY <1>1, <2>4, EndedUpdate DEF s
  <2>5. CASE next = go
    BY <1>3, <2>2, <2>5, Statuses
  <2>6. CASE next = Unanswered(call, UpdateAttempts)
    BY <1>1, <2>6, UnansweredUpdate, Statuses DEF s
  <2>. QED  BY <1>3, <2>3, <2>4, <2>5, <2>6
<1>. HIDE DEF call, s, go
<1>5. /\ table' \in [Session -> Item \cup {None}]
      /\ \A t \in Session : t # s => table'[t] = table[t]
      /\ ~Exists(s) => table'[s] = table[s]
      /\ Exists(s) => /\ table'[s].expiryDate = table[s].expiryDate
                      /\ table'[s].sessionData # None
  <2>1. CASE Exists(s)
    <3>1. table[s] \in Item /\ table \in [Session -> Item \cup {None}]
      BY <1>1, <2>1, UpdateFacts DEF Exists
    <3>. DEFINE item == [table[s] EXCEPT !.sessionData = MapOrEmpty(@)]
    <3>2. /\ item \in Item /\ item.expiryDate = table[s].expiryDate
          /\ item.sessionData # None
      BY <3>1, MapsExist DEF Item
    <3>3. table' = [table EXCEPT ![s] = item]
      BY <1>2, <2>1
    <3>. HIDE DEF item
    <3>. QED  BY <1>1, <2>1, <3>1, <3>2, <3>3
  <2>2. CASE ~Exists(s)
    BY <1>2, <2>2, UpdateFacts
  <2>. QED  BY <2>1, <2>2
<1>6. UpdateInv(u)'
  <2>1. update'[u] = next
    BY <1>3, UpdateFacts
  <2>2. create'[s].resp = 201
    BY <1>1 DEF Known
  <2>. QED  BY <1>1, <1>4, <1>5, <2>1, <2>2 DEF UpdateInv, Known, Exists
<1>. QED  BY <1>1, <1>3, <1>4, <1>5, <1>6, OneUpdate DEF Exists

\* A merge leaves a map, and refuses a session without one.
LEMMA ApplyUpdateStep ==
  ASSUME LifecycleInv, NEW u \in Update, ApplyUpdate(u)
  PROVE  LifecycleInv'
<1>. DEFINE call == update[u]
            s    == call.session
<1>1. /\ call.pc = "apply" /\ call.resp = None /\ s \in Session /\ Known(s)
      /\ call \in UpdateType
      /\ table[s] = None \/ table[s].sessionData # None
      /\ UNCHANGED <<clock, replica, identity, audited, create, delete>>
  BY UpdateFacts DEF ApplyUpdate, UpdateInv
<1>2. PICK answer \in {200, 404, 500} :
        /\ answer = 200 => Exists(s)
        /\ answer = 404 => ~Exists(s)
        /\ table' = IF answer = 200
                    THEN [table EXCEPT ![s].sessionData = Merged(u, @)] ELSE table
        /\ \/ update' = [update EXCEPT ![u] = Ended(call, answer)]
           \/ update' = [update EXCEPT ![u] = Unanswered(call, UpdateAttempts)]
  BY DEF ApplyUpdate
<1>. HIDE DEF call, s
<1>3. PICK next \in {Ended(call, answer), Unanswered(call, UpdateAttempts)} :
        update' = [update EXCEPT ![u] = next]
  BY <1>2
<1>4. /\ next \in UpdateType /\ next.session = s
      /\ next.pc \in {"apply", "done"}
      /\ next.pc # "done" => next.resp = None
      /\ next.resp = 404 => ~Exists(s)
  <2>1. CASE next = Ended(call, answer)
    BY <1>1, <1>2, <2>1, EndedUpdate DEF s
  <2>2. CASE next = Unanswered(call, UpdateAttempts)
    BY <1>1, <2>2, UnansweredUpdate, Statuses DEF s
  <2>. QED  BY <1>3, <2>1, <2>2
<1>5. /\ table' \in [Session -> Item \cup {None}]
      /\ \A t \in Session : t # s => table'[t] = table[t]
      /\ \/ table'[s] = table[s]
         \/ /\ table[s] # None /\ table'[s].expiryDate = table[s].expiryDate
            /\ table'[s].sessionData # None
  <2>1. CASE answer = 200
    <3>1. /\ table[s] \in Item /\ table \in [Session -> Item \cup {None}]
          /\ table[s] # None /\ table[s].sessionData # None
      BY <1>1, <1>2, <2>1, UpdateFacts DEF Exists
    <3>. DEFINE item == [table[s] EXCEPT !.sessionData = Merged(u, @)]
    <3>2. /\ item \in Item /\ item.expiryDate = table[s].expiryDate
          /\ item.sessionData # None
      BY <3>1, MapsExist DEF Item
    <3>3. table' = [table EXCEPT ![s] = item]
      BY <1>2, <2>1
    <3>. HIDE DEF item
    <3>. QED  BY <1>1, <3>1, <3>2, <3>3
  <2>2. CASE answer # 200
    BY <1>2, <2>2, UpdateFacts
  <2>. QED  BY <2>1, <2>2
<1>6. UpdateInv(u)'
  <2>1. update'[u] = next /\ create'[s].resp = 201
    BY <1>1, <1>3, UpdateFacts DEF Known
  <2>2. next.resp = 404 => table'[s] = None
    BY <1>4, <1>5 DEF Exists
  <2>3. table'[s] = None \/ table'[s].sessionData # None
    BY <1>1, <1>5
  <2>. QED  BY <1>1, <1>4, <2>1, <2>2, <2>3 DEF UpdateInv, Known
<1>7. /\ table' \in [Session -> Item \cup {None}]
      /\ \A t \in Session :
            \/ table'[t] = table[t]
            \/ /\ table[t] # None /\ table'[t].expiryDate = table[t].expiryDate
               /\ table[t].sessionData # None => table'[t].sessionData # None
  BY <1>5
<1>8. UNCHANGED <<clock, replica, identity, audited, create, delete>> /\ next \in UpdateType
  BY <1>1, <1>4
<1>. QED  BY <1>3, <1>6, <1>7, <1>8, OneUpdate

LEMMA UpdateLostStep ==
  ASSUME LifecycleInv, NEW u \in Update, UpdateLost(u)
  PROVE  LifecycleInv'
<1>. DEFINE call == update[u]
            next == Unanswered(call, UpdateAttempts)
<1>1. /\ call.pc \in {"ensure", "apply"} /\ call \in UpdateType /\ UpdateInv(u)
      /\ update' = [update EXCEPT ![u] = next]
      /\ UNCHANGED <<clock, table, replica, identity, audited, create, delete>>
  BY UpdateFacts DEF UpdateLost
<1>2. /\ next \in UpdateType /\ next.session = call.session
      /\ \/ next.pc = call.pc /\ next.resp = call.resp
         \/ next.pc = "done" /\ next.resp = 500
  BY <1>1, UnansweredUpdate
<1>. HIDE DEF call, next
<1>3. UpdateInv(u)'
  <2>1. update'[u] = next
    BY <1>1, UpdateFacts
  <2>. QED  BY <1>1, <1>2, <2>1, Statuses DEF UpdateInv, Known, call
<1>. QED  BY <1>1, <1>2, <1>3, UpdateFacts, OneUpdate

-----------------------------------------------------------------------------
(* DELETE /session.                                                        *)

\* A step of one deletion takes sessions away whole, or leaves them alone.
LEMMA OneDelete ==
  ASSUME LifecycleInv, NEW d \in DeleteCall, NEW next \in DeleteType,
         delete' = [delete EXCEPT ![d] = next],
         table' \in [Session -> Item \cup {None}],
         identity' \in [Session -> Int \cup {None}],
         \A s \in Session :
            \/ table'[s] = table[s] /\ identity'[s] = identity[s]
            \/ table'[s] = None /\ identity'[s] = None,
         UNCHANGED <<clock, replica, audited, create, update>>,
         DeleteInv(d)'
  PROVE  LifecycleInv'
<1>1. clock \in 0 .. MaxClock /\ delete \in [DeleteCall -> DeleteType]
  BY Typed DEF LifecycleInv
<1>2. /\ delete' \in [DeleteCall -> DeleteType]
      /\ \A e \in DeleteCall \ {d} : delete'[e] = delete[e]
  BY <1>1
<1>3. TypeOK'
  BY <1>2, Typed DEF LifecycleInv, TypeOK, CreateType, UpdateType, UpdateAnswer, DeleteType, DeleteAnswer
<1>4. StoredInv'
  <2>1. ASSUME NEW s \in Session PROVE Stored(s)'
    <3>1. clock' \in Int /\ clock <= clock'
      BY <1>1
    <3>. QED  BY <3>1, StoredKept
  <2>. QED  BY <2>1 DEF StoredInv
<1>5. KnownStayGone /\ MapsStay
  BY DEF KnownStayGone, MapsStay, Known
<1>6. \A u \in Update : UpdateInv(u)'
  BY <1>5, CallsTogether, UpdateKept DEF LifecycleInv
<1>7. \A e \in DeleteCall : DeleteInv(e)'
  BY <1>2, <1>5, CallsTogether, DeleteKept DEF LifecycleInv
<1>. QED  BY <1>3, <1>4, <1>6, <1>7
          DEF LifecycleInv, CallInv, ToldGoneMeansGone, MapStaysBetweenUpdates,
              UpdateInv, DeleteInv

LEMMA DeleteFacts ==
  ASSUME LifecycleInv, NEW d \in DeleteCall
  PROVE  /\ delete \in [DeleteCall -> DeleteType] /\ delete[d] \in DeleteType
         /\ table \in [Session -> Item \cup {None}]
         /\ identity \in [Session -> Int \cup {None}]
         /\ DeleteInv(d)
<1>1. TypeOK /\ DeleteInv(d)
  BY CallsTogether DEF LifecycleInv
<1>. QED  BY <1>1, Typed

LEMMA DeleteSendStep ==
  ASSUME LifecycleInv, NEW d \in DeleteCall, NEW s \in Session, DeleteSend(d, s)
  PROVE  LifecycleInv'
<1>. DEFINE sent == [delete[d] EXCEPT !.pc = "sent", !.session = s]
            call == [delete[d] EXCEPT !.session = s]
<1>1. /\ Known(s) /\ delete[d].pc = "idle" /\ delete[d].resp = None
      /\ UNCHANGED <<clock, table, replica, identity, audited, create, update>>
  BY DeleteFacts DEF DeleteSend, DeleteInv
<1>2. PICK next \in {sent, Ended(call, 404)} : delete' = [delete EXCEPT ![d] = next]
  BY DeleteFacts DEF DeleteSend
<1>3. /\ next \in DeleteType /\ next.session = s /\ next.resp # 200
      /\ next.pc \in {"sent", "done"} /\ (next.pc # "done" => next.resp = None)
  <2>1. /\ sent \in DeleteType /\ sent.session = s /\ sent.pc = "sent"
        /\ sent.resp = delete[d].resp
    BY DeleteFacts DEF DeleteType
  <2>4. call \in DeleteType /\ call.session = s
    BY DeleteFacts DEF DeleteType
  <2>. HIDE DEF sent, call
  <2>2. CASE next = sent
    BY <1>1, <2>1, <2>2, Statuses
  <2>3. CASE next = Ended(call, 404)
    BY <2>3, <2>4, EndedDelete
  <2>. QED  BY <1>2, <2>2, <2>3
<1>4. DeleteInv(d)'
  <2>1. delete'[d] = next /\ create'[s].resp = 201
    BY <1>1, <1>2, DeleteFacts DEF Known
  <2>. QED  BY <1>3, <2>1 DEF DeleteInv, Known
<1>. QED  BY <1>1, <1>2, <1>3, <1>4, DeleteFacts, OneDelete

\* A deletion that was served, answered or not, leaves neither item.
LEMMA DeleteBothStep ==
  ASSUME LifecycleInv, NEW d \in DeleteCall, DeleteBoth(d)
  PROVE  LifecycleInv'
<1>. DEFINE call == delete[d]
            s    == call.session
<1>1. /\ call.pc = "sent" /\ call.resp = None /\ s \in Session /\ Known(s)
      /\ call \in DeleteType
      /\ table' = [table EXCEPT ![s] = None] /\ identity' = [identity EXCEPT ![s] = None]
      /\ UNCHANGED <<clock, replica, audited, create, update>>
  BY DeleteFacts DEF DeleteBoth, DeleteInv
<1>. HIDE DEF s
<1>2. PICK next \in {Ended(call, 200), Unanswered(call, DeleteAttempts)} :
        delete' = [delete EXCEPT ![d] = next]
  BY DeleteFacts DEF DeleteBoth
<1>3. /\ next \in DeleteType /\ next.session = s
      /\ next.pc \in {"sent", "done"} /\ (next.pc # "done" => next.resp = None)
  <2>1. CASE next = Ended(call, 200)
    BY <1>1, <2>1, EndedDelete DEF s
  <2>2. CASE next = Unanswered(call, DeleteAttempts)
    BY <1>1, <2>2, UnansweredDelete DEF s
  <2>. QED  BY <1>2, <2>1, <2>2
<1>4. /\ table' \in [Session -> Item \cup {None}]
      /\ identity' \in [Session -> Int \cup {None}]
      /\ table'[s] = None /\ identity'[s] = None
      /\ \A t \in Session : t # s => table'[t] = table[t] /\ identity'[t] = identity[t]
  BY <1>1, DeleteFacts
<1>5. DeleteInv(d)'
  <2>1. delete'[d] = next /\ create'[s].resp = 201
    BY <1>1, <1>2, DeleteFacts DEF Known
  <2>. QED  BY <1>1, <1>3, <1>4, <2>1 DEF DeleteInv, Known
<1>6. \A t \in Session : \/ table'[t] = table[t] /\ identity'[t] = identity[t]
                         \/ table'[t] = None /\ identity'[t] = None
  BY <1>4
<1>. QED  BY <1>1, <1>2, <1>3, <1>4, <1>5, <1>6, OneDelete

LEMMA DeleteLostStep ==
  ASSUME LifecycleInv, NEW d \in DeleteCall, DeleteLost(d)
  PROVE  LifecycleInv'
<1>. DEFINE call == delete[d]
            next == Unanswered(call, DeleteAttempts)
<1>1. /\ call.pc = "sent" /\ call \in DeleteType /\ DeleteInv(d)
      /\ delete' = [delete EXCEPT ![d] = next]
      /\ UNCHANGED <<clock, table, replica, identity, audited, create, update>>
  BY DeleteFacts DEF DeleteLost
<1>2. /\ next \in DeleteType /\ next.session = call.session
      /\ \/ next.pc = call.pc /\ next.resp = call.resp
         \/ next.pc = "done" /\ next.resp = 500
  BY <1>1, UnansweredDelete
<1>. HIDE DEF call, next
<1>3. DeleteInv(d)'
  <2>1. delete'[d] = next
    BY <1>1, DeleteFacts
  <2>. QED  BY <1>1, <1>2, <2>1 DEF DeleteInv, Known, call
<1>. QED  BY <1>1, <1>2, <1>3, DeleteFacts, OneDelete

-----------------------------------------------------------------------------
(* DynamoDB and the clock.                                                 *)

LEMMA ReplicateStep ==
  ASSUME LifecycleInv, NEW s \in Session, Replicate(s)
  PROVE  LifecycleInv'
<1>1. /\ table \in [Session -> Item \cup {None}] /\ replica \in [Session -> Item \cup {None}]
      /\ replica' = [replica EXCEPT ![s] = table[s]]
      /\ UNCHANGED <<clock, table, identity, audited, create, update, delete>>
  BY Typed DEF LifecycleInv, Replicate
<1>2. replica' \in [Session -> Item \cup {None}]
  BY <1>1
<1>3. TypeOK'
  BY <1>1, <1>2 DEF LifecycleInv, TypeOK
<1>4. StoredInv'
  BY <1>1 DEF LifecycleInv, StoredInv, Stored, Known
<1>. QED  BY <1>1, <1>3, <1>4, CallsKept
          DEF LifecycleInv, KnownStayGone, MapsStay, Known

LEMMA SweepSessionStep ==
  ASSUME LifecycleInv, NEW s \in Session, SweepSession(s)
  PROVE  LifecycleInv'
<1>1. /\ table \in [Session -> Item \cup {None}] /\ clock \in 0 .. MaxClock
      /\ table' = [table EXCEPT ![s] = None]
      /\ UNCHANGED <<clock, replica, identity, audited, create, update, delete>>
  BY Typed DEF LifecycleInv, SweepSession
<1>2. /\ table' \in [Session -> Item \cup {None}]
      /\ \A t \in Session : table'[t] = None \/ table'[t] = table[t]
  BY <1>1
<1>3. TypeOK'
  BY <1>1, <1>2 DEF LifecycleInv, TypeOK
<1>4. StoredInv'
  <2>1. ASSUME NEW t \in Session PROVE Stored(t)'
    <3>1. clock' \in Int /\ clock <= clock'
      BY <1>1
    <3>. QED  BY <1>1, <1>2, <3>1, StoredKept
  <2>. QED  BY <2>1 DEF StoredInv
<1>5. KnownStayGone /\ MapsStay
  BY <1>1, <1>2 DEF KnownStayGone, MapsStay, Known
<1>. QED  BY <1>1, <1>3, <1>4, <1>5, CallsKept DEF LifecycleInv

\* An identity is swept only when the session it belongs to has expired too.
LEMMA SweepIdentityStep ==
  ASSUME LifecycleInv, NEW s \in Session, SweepIdentity(s)
  PROVE  LifecycleInv'
<1>1. /\ identity \in [Session -> Int \cup {None}] /\ clock \in 0 .. MaxClock
      /\ identity[s] # None /\ identity[s] < clock /\ identity[s] \in Int
      /\ identity' = [identity EXCEPT ![s] = None]
      /\ UNCHANGED <<clock, table, replica, audited, create, update, delete>>
  BY Typed DEF LifecycleInv, SweepIdentity, Expired
<1>2. /\ identity' \in [Session -> Int \cup {None}]
      /\ identity'[s] = None /\ \A t \in Session : t # s => identity'[t] = identity[t]
  BY <1>1
<1>3. TypeOK'
  BY <1>1, <1>2 DEF LifecycleInv, TypeOK
<1>4. StoredInv'
  <2>1. ASSUME NEW t \in Session PROVE Stored(t)'
    <3>1. Stored(t)
      BY DEF LifecycleInv, StoredInv
    <3>2. CASE t = s
      BY <1>1, <1>2, <3>1, <3>2 DEF Stored, Known
    <3>3. CASE t # s
      BY <1>1, <1>2, <3>1, <3>3 DEF Stored, Known
    <3>. QED  BY <3>2, <3>3
  <2>. QED  BY <2>1 DEF StoredInv
<1>5. KnownStayGone /\ MapsStay
  BY <1>1, <1>2 DEF KnownStayGone, MapsStay, Known
<1>. QED  BY <1>1, <1>3, <1>4, <1>5, CallsKept DEF LifecycleInv

LEMMA TickStep == LifecycleInv /\ Tick => LifecycleInv'
<1> SUFFICES ASSUME LifecycleInv, Tick PROVE LifecycleInv'
  OBVIOUS
<1>1. /\ clock \in Int /\ clock' \in 0 .. MaxClock /\ clock <= clock'
      /\ UNCHANGED <<table, replica, identity, audited, create, update, delete>>
  BY LifecycleAssumption DEF LifecycleInv, TypeOK, Tick
<1>2. TypeOK'
  BY <1>1 DEF LifecycleInv, TypeOK
<1>3. StoredInv'
  <2>1. ASSUME NEW s \in Session PROVE Stored(s)'
    <3>1. clock' \in Int
      BY <1>1
    <3>. QED  BY <1>1, <3>1, StoredKept
  <2>. QED  BY <2>1 DEF StoredInv
<1>. QED  BY <1>1, <1>2, <1>3, CallsKept DEF LifecycleInv, KnownStayGone, MapsStay, Known

LEMMA UnchangedStep == LifecycleInv /\ UNCHANGED vars => LifecycleInv'
  BY DEF vars, LifecycleInv, TypeOK, StoredInv, Stored, Known, CallInv,
         ToldGoneMeansGone, MapStaysBetweenUpdates

-----------------------------------------------------------------------------
(* Theorems.                                                               *)

LEMMA LifecycleStep == LifecycleInv /\ [Next]_vars => LifecycleInv'
<1> SUFFICES ASSUME LifecycleInv, [Next]_vars PROVE LifecycleInv'
  OBVIOUS
<1>1. CASE \E s \in Session : \/ \E claims \in BOOLEAN : SaveSession(s, claims)
                              \/ SaveIdentity(s) \/ SendAudit(s)
                              \/ Replicate(s) \/ SweepSession(s) \/ SweepIdentity(s)
  BY <1>1, SaveSessionStep, SaveIdentityStep, SendAuditStep, ReplicateStep,
     SweepSessionStep, SweepIdentityStep
<1>2. CASE \E s \in Session, u \in Update :
             \/ UpdateRefused(u, s)
             \/ \E set, remove \in SUBSET Field : UpdateSend(u, s, set, remove)
  BY <1>2, UpdateRefusedStep, UpdateSendStep
<1>3. CASE \E s \in Session, d \in DeleteCall : DeleteSend(d, s)
  BY <1>3, DeleteSendStep
<1>4. CASE \E u \in Update : UpdateStep(u)
  BY <1>4, EnsureMapStep, ApplyUpdateStep, UpdateLostStep DEF UpdateStep
<1>5. CASE \E d \in DeleteCall : DeleteStep(d)
  BY <1>5, DeleteBothStep, DeleteLostStep DEF DeleteStep
<1>6. CASE Tick \/ Finished \/ UNCHANGED vars
  BY <1>6, TickStep, UnchangedStep DEF Finished
<1>. QED  BY <1>1, <1>2, <1>3, <1>4, <1>5, <1>6 DEF Next

\* Every state is as LifecycleInv says: for any number of sessions, updates,
\* deletions and attempts, and whatever step of which request fails.
THEOREM LifecycleIsKept == Spec => []LifecycleInv
  BY LifecycleInit, LifecycleStep, PTL DEF Spec

\* A session that a client was told of is complete while it is live.
THEOREM LiveSessionsAreComplete == Spec => []CompleteWhileLive
<1>1. LifecycleInv => CompleteWhileLive
  BY DEF LifecycleInv, StoredInv, Stored, CompleteWhileLive
<1>. QED  BY LifecycleIsKept, <1>1, PTL

\* A client that is told that a session is gone is told the truth.
THEOREM GoneIsTrue == Spec => []ToldGoneMeansGone
<1>1. LifecycleInv => ToldGoneMeansGone
  BY DEF LifecycleInv
<1>. QED  BY LifecycleIsKept, <1>1, PTL

\* No other request takes the map away between the two updates of one.
THEOREM MapsStayBetweenUpdates == Spec => []MapStaysBetweenUpdates
<1>1. LifecycleInv => MapStaysBetweenUpdates
  BY DEF LifecycleInv
<1>. QED  BY LifecycleIsKept, <1>1, PTL

\* What a step writes: only a creation makes an item, of a session that
\* nobody knows, and only a merge changes a field, one that its request names.
LEMMA WhoWrites ==
  ASSUME LifecycleInv, [Next]_vars, NEW s \in Session
  PROVE  /\ Known(s) /\ table[s] = None => table'[s] = None
         /\ table[s] # None /\ table'[s] # None /\ table[s].sessionData # None =>
              /\ table'[s].sessionData # None
              /\ \A f \in Field :
                   table'[s].sessionData[f] # table[s].sessionData[f] =>
                     \E u \in Update : /\ update[u].pc = "apply"
                                       /\ update[u].session = s
                                       /\ f \in update[u].set \cup update[u].remove
<1>. DEFINE changed == \A f \in Field :
                   table'[s].sessionData[f] # table[s].sessionData[f] =>
                     \E u \in Update : /\ update[u].pc = "apply"
                                       /\ update[u].session = s
                                       /\ f \in update[u].set \cup update[u].remove
<1>1. /\ table \in [Session -> Item \cup {None}]
      /\ table[s] # None => table[s] \in Item
  BY Typed DEF LifecycleInv
<1>2. CASE table'[s] = table[s] \/ table'[s] = None
  BY <1>2
<1>3. CASE \E t \in Session, claims \in BOOLEAN : SaveSession(t, claims)
  <2>1. PICK t \in Session : /\ create[t].pc = "idle"
                             /\ \A r \in Session : r # t => table'[r] = table[r]
    BY <1>1, <1>3 DEF SaveSession
  <2>2. t = s => table[s] = None /\ ~Known(s)
    BY <2>1 DEF LifecycleInv, StoredInv, Stored
  <2>. QED  BY <2>1, <2>2
<1>4. CASE \E u \in Update : EnsureMap(u)
  <2>1. PICK u \in Update : EnsureMap(u)
    BY <1>4
  <2>2. \/ table'[s] = table[s]
        \/ /\ table[s] # None
           /\ table'[s].sessionData = MapOrEmpty(table[s].sessionData)
    BY <1>1, <2>1 DEF EnsureMap, Exists, Item
  <2>. QED  BY <2>2 DEF MapOrEmpty
<1>5. CASE \E u \in Update : ApplyUpdate(u)
  <2>1. PICK u \in Update : ApplyUpdate(u)
    BY <1>5
  <2>2. update[u].pc = "apply"
    BY <2>1 DEF ApplyUpdate
  <2>3. \/ table'[s] = table[s]
        \/ /\ table[s] # None /\ update[u].session = s
           /\ table'[s].sessionData = Merged(u, table[s].sessionData)
    BY <1>1, <2>1 DEF ApplyUpdate, Exists, Item
  <2>4. CASE /\ table[s] # None /\ update[u].session = s
             /\ table[s].sessionData # None
             /\ table'[s].sessionData = Merged(u, table[s].sessionData)
    <3>1. table'[s].sessionData # None
      BY <1>1, <2>4, MapsExist DEF Item
    <3>2. \A f \in Field : f \notin update[u].set \cup update[u].remove =>
             table'[s].sessionData[f] = table[s].sessionData[f]
      BY <2>4 DEF Merged
    <3>. QED  BY <2>2, <2>4, <3>1, <3>2
  <2>. QED  BY <2>3, <2>4
<1>6. CASE \/ \E t \in Session : SaveIdentity(t) \/ SendAudit(t) \/ Replicate(t)
                                 \/ SweepSession(t) \/ SweepIdentity(t)
           \/ \E t \in Session, u \in Update :
                \/ UpdateRefused(u, t)
                \/ \E set, remove \in SUBSET Field : UpdateSend(u, t, set, remove)
           \/ \E t \in Session, d \in DeleteCall : DeleteSend(d, t)
           \/ \E u \in Update : UpdateLost(u)
           \/ \E d \in DeleteCall : DeleteStep(d)
           \/ Tick \/ Finished \/ UNCHANGED vars
  <2>1. table'[s] = table[s] \/ table'[s] = None
    BY <1>1, <1>6 DEF SaveIdentity, SendAudit, Replicate, SweepSession, SweepIdentity,
       UpdateRefused, UpdateSend, DeleteSend, UpdateLost, DeleteStep, DeleteBoth,
       DeleteLost, Tick, Finished, vars
  <2>. QED  BY <1>2, <2>1
<1>. QED  BY <1>3, <1>4, <1>5, <1>6 DEF Next, UpdateStep

\* A known session is never written again once it is gone.
THEOREM GoneSessionsStayGone == Spec => GoneForGood
<1>1. LifecycleInv /\ [Next]_vars =>
        [\A s \in Session : Known(s) /\ table[s] = None => table'[s] = None]_vars
  BY WhoWrites
<1>. QED  BY LifecycleIsKept, <1>1, PTL DEF Spec, GoneForGood

\* Concurrent updates keep each other's fields, whatever is sent again.
THEOREM OtherFieldsAreKept == Spec => OthersKept
<1>1. LifecycleInv /\ [Next]_vars =>
        [\A s \in Session : \A f \in Field :
           /\ table[s] # None /\ table'[s] # None
           /\ table[s].sessionData # None
           /\ \/ table'[s].sessionData = None
              \/ table'[s].sessionData[f] # table[s].sessionData[f]
           => \E u \in Update : /\ update[u].pc = "apply" /\ update[u].session = s
                                /\ f \in update[u].set \cup update[u].remove]_vars
  BY WhoWrites
<1>. QED  BY LifecycleIsKept, <1>1, PTL DEF Spec, OthersKept

-----------------------------------------------------------------------------
(* AnnouncedInv, which the refinement needs next to LifecycleInv.          *)

\* A step that makes no session and announces none, and begins no second update
\* without fields.
LEMMA AnnouncedKept ==
  ASSUME AnnouncedInv, UNCHANGED create,
         \A s \in Session :
            /\ \/ table'[s] = None \/ table'[s] = table[s]
               \/ Known(s) /\ table[s] # None /\ table'[s].expiryDate = table[s].expiryDate
            /\ identity'[s] \in {None, identity[s]},
         \A u \in Update : update'[u].pc = "apply" =>
            \/ update[u].pc = "apply" /\ update'[u].set = update[u].set
                                      /\ update'[u].remove = update[u].remove
            \/ update'[u].set \cup update'[u].remove # {}
  PROVE  AnnouncedInv'
  BY DEF AnnouncedInv, Known

\* A step of the creation of one session.
LEMMA AnnouncedByCreate ==
  ASSUME AnnouncedInv, NEW s \in Session,
         create \in [Session -> CreateType],
         \A t \in Session \ {s} : /\ create'[t] = create[t] /\ table'[t] = table[t]
                                  /\ identity'[t] = identity[t],
         UNCHANGED update,
         table'[s] # None => /\ table'[s].expiryDate \in Nat
                             /\ ~Known(s)' => table'[s].sessionData = None,
         create'[s].pc = "identity" \/ identity'[s] # None => create'[s].claims
  PROVE  AnnouncedInv'
<1>1. ASSUME NEW t \in Session
      PROVE  /\ table'[t] # None => table'[t].expiryDate \in Nat
             /\ table'[t] # None /\ ~Known(t)' => table'[t].sessionData = None
             /\ create'[t].pc = "identity" \/ identity'[t] # None => create'[t].claims
  <2>1. CASE t = s
    BY <2>1
  <2>2. CASE t # s
    BY <2>2 DEF AnnouncedInv, Known
  <2>. QED  BY <2>1, <2>2
<1>. QED  BY <1>1 DEF AnnouncedInv

LEMMA AnnouncedCreation ==
  ASSUME LifecycleInv, AnnouncedInv, NEW s \in Session,
         \/ \E claims \in BOOLEAN : SaveSession(s, claims)
         \/ SaveIdentity(s) \/ SendAudit(s)
  PROVE  AnnouncedInv'
<1>1. /\ create \in [Session -> CreateType] /\ table \in [Session -> Item \cup {None}]
      /\ identity \in [Session -> Int \cup {None}]
      /\ clock \in Nat /\ SessionTtl \in Nat
  BY Typed, LifecycleAssumption DEF LifecycleInv
<1>2. CASE \E claims \in BOOLEAN : SaveSession(s, claims)
  <2>1. PICK claims \in BOOLEAN : SaveSession(s, claims)
    BY <1>2
  <2>. DEFINE saved == [expiryDate |-> clock + SessionTtl, sessionData |-> None]
              next == [pc |-> IF claims THEN "identity" ELSE "audit",
                       claims |-> claims, resp |-> None]
  <2>2. /\ create[s].pc = "idle" /\ create[s] \in CreateType
        /\ UNCHANGED <<identity, update>>
    BY <1>1, <2>1 DEF SaveSession
  <2>3. table[s] = None /\ identity[s] = None
    BY <2>2 DEF LifecycleInv, StoredInv, Stored
  <2>4. saved.expiryDate \in Nat /\ saved.sessionData = None
    BY <1>1
  <2>5. next.pc = "identity" => next.claims
    OBVIOUS
  <2>6. Ended(create[s], 500).pc = "done"
    BY <2>2, CreateEnded
  <2>7. /\ table'[s] \in {None, saved} /\ create'[s] \in {next, Ended(create[s], 500)}
        /\ \A t \in Session \ {s} : create'[t] = create[t] /\ table'[t] = table[t]
    <3>. HIDE DEF saved, next
    <3>1. \/ table' = table \/ table' = [table EXCEPT ![s] = saved]
      BY <2>1 DEF SaveSession, saved
    <3>2. \/ create' = [create EXCEPT ![s] = next]
          \/ create' = [create EXCEPT ![s] = Ended(create[s], 500)]
      BY <1>1, <2>1 DEF SaveSession, next
    <3>. QED  BY <1>1, <2>3, <3>1, <3>2
  <2>. HIDE DEF saved, next
  <2>8. table'[s] # None => table'[s].expiryDate \in Nat /\ table'[s].sessionData = None
    BY <2>4, <2>7
  <2>9. create'[s].pc = "identity" \/ identity'[s] # None => create'[s].claims
    BY <2>2, <2>3, <2>5, <2>6, <2>7
  <2>. QED  BY <1>1, <2>2, <2>7, <2>8, <2>9, AnnouncedByCreate
<1>3. CASE SaveIdentity(s)
  <2>1. /\ create[s].pc = "identity" /\ create[s] \in CreateType /\ create[s].claims
        /\ UNCHANGED <<table, update>>
    BY <1>1, <1>3 DEF SaveIdentity, AnnouncedInv
  <2>2. ~Known(s)
    BY <2>1 DEF LifecycleInv, StoredInv, Stored
  <2>3. PICK next \in {[create[s] EXCEPT !.pc = "audit"], Ended(create[s], 500)} :
          create' = [create EXCEPT ![s] = next]
    BY <1>1, <1>3 DEF SaveIdentity
  <2>4. next.claims
    BY <2>1, <2>3, CreateEnded DEF CreateType
  <2>5. /\ create'[s] = next
        /\ \A t \in Session \ {s} : create'[t] = create[t] /\ identity'[t] = identity[t]
    BY <1>1, <1>3, <2>3 DEF SaveIdentity
  <2>6. table'[s] # None => table'[s].expiryDate \in Nat /\ table'[s].sessionData = None
    BY <2>1, <2>2 DEF AnnouncedInv
  <2>. QED  BY <1>1, <2>1, <2>4, <2>5, <2>6, AnnouncedByCreate
<1>4. CASE SendAudit(s)
  <2>1. /\ create[s].pc = "audit" /\ create[s] \in CreateType
        /\ UNCHANGED <<table, identity, update>>
    BY <1>1, <1>4 DEF SendAudit
  <2>2. ~Known(s)
    BY <2>1 DEF LifecycleInv, StoredInv, Stored
  <2>3. PICK resp \in {201, 500} : create' = [create EXCEPT ![s] = Ended(create[s], resp)]
    BY <1>1, <1>4 DEF SendAudit
  <2>4. /\ create'[s].pc = "done" /\ create'[s].claims = create[s].claims
        /\ \A t \in Session \ {s} : create'[t] = create[t]
    BY <1>1, <2>1, <2>3, CreateEnded
  <2>5. table'[s] # None => table'[s].expiryDate \in Nat /\ table'[s].sessionData = None
    BY <2>1, <2>2 DEF AnnouncedInv
  <2>6. identity'[s] # None => create'[s].claims
    BY <2>1, <2>4 DEF AnnouncedInv
  <2>. QED  BY <1>1, <2>1, <2>4, <2>5, <2>6, AnnouncedByCreate
<1>. QED  BY <1>2, <1>3, <1>4

\* What an unanswered update asks for is asked for again.
LEMMA AskedAgain ==
  ASSUME NEW call \in UpdateType
  PROVE  /\ Unanswered(call, UpdateAttempts).set = call.set
         /\ Unanswered(call, UpdateAttempts).remove = call.remove
         /\ \A resp : Ended(call, resp).set = call.set /\ Ended(call, resp).remove = call.remove
  BY DEF Unanswered, Ended, UpdateType

LEMMA AnnouncedUpdate ==
  ASSUME LifecycleInv, AnnouncedInv, NEW u \in Update, UpdateStep(u)
  PROVE  AnnouncedInv'
<1>. DEFINE call == update[u]
            s    == call.session
            go   == [call EXCEPT !.pc = "apply", !.tries = 0]
<1>1. /\ update \in [Update -> UpdateType] /\ call \in UpdateType
      /\ table \in [Session -> Item \cup {None}]
      /\ call.pc \in {"ensure", "apply"} /\ s \in Session /\ Known(s)
      /\ UNCHANGED <<identity, create>>
  BY UpdateFacts DEF UpdateStep, EnsureMap, ApplyUpdate, UpdateLost, UpdateInv
<1>2. ASSUME NEW t \in Session
      PROVE  \/ table'[t] = None \/ table'[t] = table[t]
             \/ Known(t) /\ table[t] # None /\ table'[t].expiryDate = table[t].expiryDate
  <2>1. \/ table' = table
        \/ Exists(s) /\ table' = [table EXCEPT ![s].sessionData = MapOrEmpty(@)]
        \/ Exists(s) /\ table' = [table EXCEPT ![s].sessionData = Merged(u, @)]
    BY DEF UpdateStep, EnsureMap, ApplyUpdate, UpdateLost
  <2>2. CASE table' = table \/ t # s
    BY <1>1, <2>1, <2>2
  <2>3. CASE t = s /\ Exists(s) /\ table' = [table EXCEPT ![s].sessionData = MapOrEmpty(@)]
    BY <1>1, <2>3 DEF Exists, Item
  <2>4. CASE t = s /\ Exists(s) /\ table' = [table EXCEPT ![s].sessionData = Merged(u, @)]
    BY <1>1, <2>4 DEF Exists, Item
  <2>. QED  BY <2>1, <2>2, <2>3, <2>4
<1>3. /\ \A v \in Update \ {u} : update'[v] = update[v]
      /\ update'[u].pc = "apply" =>
           \/ call.pc = "apply" /\ update'[u].set = call.set /\ update'[u].remove = call.remove
           \/ update'[u].set \cup update'[u].remove # {}
  <2>1. PICK next : /\ update' = [update EXCEPT ![u] = next]
                    /\ \/ \E resp \in {200, 400, 404, 500} : next = Ended(call, resp)
                       \/ next = Unanswered(call, UpdateAttempts)
                       \/ next = go /\ call.set \cup call.remove # {}
    BY DEF UpdateStep, EnsureMap, ApplyUpdate, UpdateLost
  <2>2. update'[u] = next /\ \A v \in Update \ {u} : update'[v] = update[v]
    BY <1>1, <2>1
  <2>3. go.set = call.set /\ go.remove = call.remove
    BY <1>1 DEF UpdateType
  <2>. HIDE DEF call, go
  <2>4. CASE \E resp \in {200, 400, 404, 500} : next = Ended(call, resp)
    BY <1>1, <2>2, <2>4, EndedUpdate
  <2>5. CASE next = Unanswered(call, UpdateAttempts)
    BY <1>1, <2>2, <2>5, UnansweredUpdate, AskedAgain
  <2>6. CASE next = go /\ call.set \cup call.remove # {}
    BY <2>2, <2>3, <2>6
  <2>. QED  BY <2>1, <2>2, <2>4, <2>5, <2>6
<1>4. \A v \in Update : update'[v].pc = "apply" =>
         \/ update[v].pc = "apply" /\ update'[v].set = update[v].set
                                   /\ update'[v].remove = update[v].remove
         \/ update'[v].set \cup update'[v].remove # {}
  BY <1>3
<1>. QED  BY <1>1, <1>2, <1>4, AnnouncedKept

LEMMA AnnouncedStep == LifecycleInv /\ AnnouncedInv /\ [Next]_vars => AnnouncedInv'
<1> SUFFICES ASSUME LifecycleInv, AnnouncedInv, [Next]_vars PROVE AnnouncedInv'
  OBVIOUS
<1>0. /\ table \in [Session -> Item \cup {None}] /\ update \in [Update -> UpdateType]
      /\ identity \in [Session -> Int \cup {None}]
  BY Typed DEF LifecycleInv
<1>1. CASE \E s \in Session : \/ \E claims \in BOOLEAN : SaveSession(s, claims)
                              \/ SaveIdentity(s) \/ SendAudit(s)
  BY <1>1, AnnouncedCreation
<1>2. CASE \E u \in Update : UpdateStep(u)
  BY <1>2, AnnouncedUpdate
<1>3. CASE \E u \in Update, s \in Session :
             \/ UpdateRefused(u, s)
             \/ \E set, remove \in SUBSET Field : UpdateSend(u, s, set, remove)
  <2>1. PICK u \in Update, s \in Session :
             \/ UpdateRefused(u, s)
             \/ \E set, remove \in SUBSET Field : UpdateSend(u, s, set, remove)
    BY <1>3
  <2>2. /\ UNCHANGED <<table, identity, create>>
        /\ \A v \in Update \ {u} : update'[v] = update[v]
    BY <1>0, <2>1 DEF UpdateRefused, UpdateSend
  <2>3. update'[u].pc # "apply"
    <3>. DEFINE call == [update[u] EXCEPT !.session = s]
    <3>1. CASE UpdateRefused(u, s)
      <4>1. call \in UpdateType
        BY <1>0 DEF UpdateType
      <4>2. update'[u] = Ended(call, 400)
        BY <1>0, <3>1 DEF UpdateRefused
      <4>. HIDE DEF call
      <4>. QED  BY <4>1, <4>2, EndedUpdate
    <3>2. CASE \E set, remove \in SUBSET Field : UpdateSend(u, s, set, remove)
      BY <1>0, <3>2 DEF UpdateSend, UpdateType
    <3>. QED  BY <2>1, <3>1, <3>2
  <2>. QED  BY <2>2, <2>3, AnnouncedKept
<1>4. CASE \/ \E s \in Session : \/ Replicate(s) \/ SweepSession(s) \/ SweepIdentity(s)
                                 \/ \E d \in DeleteCall : DeleteSend(d, s)
           \/ \E d \in DeleteCall : DeleteStep(d)
           \/ Tick \/ Finished \/ UNCHANGED vars
  <2>1. /\ UNCHANGED <<create, update>>
        /\ \A t \in Session : /\ table'[t] = None \/ table'[t] = table[t]
                              /\ identity'[t] \in {None, identity[t]}
    BY <1>0, <1>4 DEF Replicate, SweepSession, SweepIdentity, DeleteSend, DeleteStep,
       DeleteBoth, DeleteLost, Tick, Finished, vars
  <2>. QED  BY <2>1, AnnouncedKept
<1>. QED  BY <1>1, <1>2, <1>3, <1>4 DEF Next

-----------------------------------------------------------------------------
(* The refinement of SessionStore.                                         *)

StoreInv == LifecycleInv /\ AnnouncedInv

LEMMA StoreInvInit == Init => StoreInv
  BY LifecycleInit DEF StoreInv, Init, AnnouncedInv

LEMMA StoreInvStep == StoreInv /\ [Next]_vars => StoreInv'
  BY LifecycleStep, AnnouncedStep DEF StoreInv

\* What the store sees of a session, of an update and of a deletion.
LiveView(s) == [data     |-> MapOrEmpty(table[s].sessionData),
                deadline |-> table[s].expiryDate,
                claims   |-> create[s].claims]
AskedView(call) ==
  [pc      |-> IF call.pc \in {"ensure", "apply"} THEN "pending" ELSE call.pc,
   session |-> call.session, set |-> call.set, remove |-> call.remove, resp |-> call.resp]
RemovalView(call) ==
  [pc      |-> IF call.pc = "sent" THEN "pending" ELSE call.pc,
   session |-> call.session, resp |-> call.resp]

LEMMA StoreFacts ==
  ASSUME StoreInv
  PROVE  /\ LifecycleInv /\ AnnouncedInv
         /\ clock \in Nat /\ SessionTtl \in Nat
         /\ table \in [Session -> Item \cup {None}]
         /\ identity \in [Session -> Int \cup {None}]
         /\ create \in [Session -> CreateType]
         /\ update \in [Update -> UpdateType]
         /\ delete \in [DeleteCall -> DeleteType]
         /\ \A s \in Session : Stored(s)
  BY Typed, LifecycleAssumption DEF StoreInv, LifecycleInv, StoredInv

\* What the store does not see a step do.
LEMMA SameSessions == UNCHANGED <<table, create>> => known' = known /\ live' = live
  BY DEF known, live, Known, MapOrEmpty, EmptyMap
LEMMA SamePeople == UNCHANGED <<identity, create>> => person' = person
  BY DEF person, Known
LEMMA SameAsked == UNCHANGED update => asked' = asked
  BY DEF asked
LEMMA SameRemoval == UNCHANGED delete => removal' = removal
  BY DEF removal

\* A session that is there is seen.
LEMMA LiveThere ==
  ASSUME StoreInv, NEW s \in Session, Known(s), table[s] # None
  PROVE  /\ live[s] = LiveView(s) /\ live[s] # None
         /\ live[s].deadline = table[s].expiryDate
<1>1. live[s] = LiveView(s)
  BY DEF live, LiveView
<1>2. table[s].sessionData \in SessionData /\ table[s].expiryDate \in Int
  BY StoreFacts DEF Stored, Item
<1>3. /\ MapOrEmpty(table[s].sessionData) \in SessionData
      /\ create[s].claims \in BOOLEAN
  BY <1>2, StoreFacts, MapsExist DEF CreateType
<1>4. LiveView(s) \in [data : SessionData, deadline : Int, claims : BOOLEAN]
  BY <1>2, <1>3 DEF LiveView
<1>5. LiveView(s).deadline = table[s].expiryDate
  BY DEF LiveView
<1>. QED  BY <1>1, <1>4, <1>5, LifecycleAssumption

\* What happens to one session before it is known does not show.
LEMMA Unseen ==
  ASSUME NEW s \in Session, ~Known(s), ~Known(s)',
         \A t \in Session \ {s} : /\ create'[t] = create[t] /\ table'[t] = table[t]
                                  /\ identity'[t] = identity[t],
         UNCHANGED <<clock, update, delete>>
  PROVE  UNCHANGED Store!vars
<1>1. ASSUME NEW t \in Session
      PROVE  /\ Known(t)' <=> Known(t)
             /\ Known(t) => /\ create'[t] = create[t] /\ table'[t] = table[t]
                            /\ identity'[t] = identity[t]
  BY DEF Known
<1>2. known' = known /\ person' = person
  BY <1>1 DEF known, person
<1>3. live' = live
  BY <1>1 DEF live, MapOrEmpty, EmptyMap
<1>. QED  BY <1>2, <1>3, SameAsked, SameRemoval DEF Store!vars

\* A step of one update, and of one deletion, is a step of what is seen of it.
LEMMA OneAsked ==
  ASSUME StoreInv, NEW u \in Update, NEW next, update' = [update EXCEPT ![u] = next]
  PROVE  /\ asked[u] = AskedView(update[u])
         /\ asked' = [asked EXCEPT ![u] = AskedView(next)]
  BY StoreFacts DEF asked, AskedView

LEMMA OneRemoval ==
  ASSUME StoreInv, NEW d \in DeleteCall, NEW next, delete' = [delete EXCEPT ![d] = next]
  PROVE  /\ removal[d] = RemovalView(delete[d])
         /\ removal' = [removal EXCEPT ![d] = RemovalView(next)]
  BY StoreFacts DEF removal, RemovalView

\* What it is to answer a record of the store.
LEMMA AnsweredAsked ==
  ASSUME NEW pc, NEW session, NEW set, NEW remove, NEW resp, NEW answer
  PROVE  Store!Answered([pc |-> pc, session |-> session, set |-> set,
                         remove |-> remove, resp |-> resp], answer)
           = [pc |-> "done", session |-> session, set |-> set,
              remove |-> remove, resp |-> answer]
<1>. DEFINE fields == {"pc", "session", "set", "remove", "resp"}
            old == [pc |-> pc, session |-> session, set |-> set,
                    remove |-> remove, resp |-> resp]
            new == [pc |-> "done", session |-> session, set |-> set,
                    remove |-> remove, resp |-> answer]
<1>1. /\ new.session = old.session /\ new.set = old.set /\ new.remove = old.remove
      /\ new.pc = "done" /\ new.resp = answer
  OBVIOUS
<1>2. old = [f \in fields |-> old[f]] /\ new = [f \in fields |-> new[f]]
  OBVIOUS
<1>. HIDE DEF old, new
<1>3. [old EXCEPT !.pc = "done", !.resp = answer] = [f \in fields |-> new[f]]
  BY <1>1, <1>2
<1>. QED  BY <1>2, <1>3 DEF Store!Answered, old, new

LEMMA AnsweredRemoval ==
  ASSUME NEW pc, NEW session, NEW resp, NEW answer
  PROVE  Store!Answered([pc |-> pc, session |-> session, resp |-> resp], answer)
           = [pc |-> "done", session |-> session, resp |-> answer]
<1>. DEFINE fields == {"pc", "session", "resp"}
            old == [pc |-> pc, session |-> session, resp |-> resp]
            new == [pc |-> "done", session |-> session, resp |-> answer]
<1>1. new.session = old.session /\ new.pc = "done" /\ new.resp = answer
  OBVIOUS
<1>2. old = [f \in fields |-> old[f]] /\ new = [f \in fields |-> new[f]]
  OBVIOUS
<1>. HIDE DEF old, new
<1>3. [old EXCEPT !.pc = "done", !.resp = answer] = [f \in fields |-> new[f]]
  BY <1>1, <1>2
<1>. QED  BY <1>2, <1>3 DEF Store!Answered, old, new

\* The same of a record that comes to be about a session.
LEMMA AboutAsked ==
  ASSUME NEW pc, NEW session, NEW set, NEW remove, NEW resp, NEW s
  PROVE  Store!About([pc |-> pc, session |-> session, set |-> set,
                      remove |-> remove, resp |-> resp], s)
           = [pc |-> "pending", session |-> s, set |-> set,
              remove |-> remove, resp |-> resp]
<1>. DEFINE fields == {"pc", "session", "set", "remove", "resp"}
            old == [pc |-> pc, session |-> session, set |-> set,
                    remove |-> remove, resp |-> resp]
            new == [pc |-> "pending", session |-> s, set |-> set,
                    remove |-> remove, resp |-> resp]
<1>1. /\ new.session = s /\ new.set = old.set /\ new.remove = old.remove
      /\ new.pc = "pending" /\ new.resp = old.resp
  OBVIOUS
<1>2. old = [f \in fields |-> old[f]] /\ new = [f \in fields |-> new[f]]
  OBVIOUS
<1>. HIDE DEF old, new
<1>3. [old EXCEPT !.pc = "pending", !.session = s] = [f \in fields |-> new[f]]
  BY <1>1, <1>2
<1>. QED  BY <1>2, <1>3 DEF Store!About, old, new

LEMMA AboutRemoval ==
  ASSUME NEW pc, NEW session, NEW resp, NEW s
  PROVE  Store!About([pc |-> pc, session |-> session, resp |-> resp], s)
           = [pc |-> "pending", session |-> s, resp |-> resp]
<1>. DEFINE fields == {"pc", "session", "resp"}
            old == [pc |-> pc, session |-> session, resp |-> resp]
            new == [pc |-> "pending", session |-> s, resp |-> resp]
<1>1. new.session = s /\ new.pc = "pending" /\ new.resp = old.resp
  OBVIOUS
<1>2. old = [f \in fields |-> old[f]] /\ new = [f \in fields |-> new[f]]
  OBVIOUS
<1>. HIDE DEF old, new
<1>3. [old EXCEPT !.pc = "pending", !.session = s] = [f \in fields |-> new[f]]
  BY <1>1, <1>2
<1>. QED  BY <1>2, <1>3 DEF Store!About, old, new

\* An answer is seen as it was given.
LEMMA AnswerSeen ==
  ASSUME NEW resp
  PROVE  /\ \A call \in UpdateType :
              AskedView(Ended(call, resp)) = Store!Answered(AskedView(call), resp)
         /\ \A call \in DeleteType :
              RemovalView(Ended(call, resp)) = Store!Answered(RemovalView(call), resp)
<1>1. ASSUME NEW call \in UpdateType
      PROVE  AskedView(Ended(call, resp)) = Store!Answered(AskedView(call), resp)
  <2>. DEFINE answer == [pc |-> "done", session |-> call.session, set |-> call.set,
                         remove |-> call.remove, resp |-> resp]
  <2>1. /\ Ended(call, resp).pc = "done" /\ Ended(call, resp).resp = resp
        /\ Ended(call, resp).session = call.session
        /\ Ended(call, resp).set = call.set /\ Ended(call, resp).remove = call.remove
    BY DEF Ended, UpdateType
  <2>2. AskedView(Ended(call, resp)) = answer
    BY <2>1 DEF AskedView
  <2>3. Store!Answered(AskedView(call), resp) = answer
    BY AnsweredAsked DEF AskedView
  <2>. QED  BY <2>2, <2>3
<1>2. ASSUME NEW call \in DeleteType
      PROVE  RemovalView(Ended(call, resp)) = Store!Answered(RemovalView(call), resp)
  <2>. DEFINE answer == [pc |-> "done", session |-> call.session, resp |-> resp]
  <2>1. /\ Ended(call, resp).pc = "done" /\ Ended(call, resp).resp = resp
        /\ Ended(call, resp).session = call.session
    BY DEF Ended, DeleteType
  <2>2. RemovalView(Ended(call, resp)) = answer
    BY <2>1 DEF RemovalView
  <2>3. Store!Answered(RemovalView(call), resp) = answer
    BY AnsweredRemoval DEF RemovalView
  <2>. QED  BY <2>2, <2>3
<1>. QED  BY <1>1, <1>2

\* A command without an answer is sent again, which does not show, or given up.
LEMMA RetrySeen ==
  /\ \A call \in UpdateType :
       \/ AskedView(Unanswered(call, UpdateAttempts)) = AskedView(call)
       \/ AskedView(Unanswered(call, UpdateAttempts)) = Store!Answered(AskedView(call), 500)
  /\ \A call \in DeleteType :
       \/ RemovalView(Unanswered(call, DeleteAttempts)) = RemovalView(call)
       \/ RemovalView(Unanswered(call, DeleteAttempts))
            = Store!Answered(RemovalView(call), 500)
<1>1. ASSUME NEW call \in UpdateType
      PROVE  AskedView([call EXCEPT !.tries = @ + 1]) = AskedView(call)
  BY DEF AskedView, UpdateType
<1>2. ASSUME NEW call \in DeleteType
      PROVE  RemovalView([call EXCEPT !.tries = @ + 1]) = RemovalView(call)
  BY DEF RemovalView, DeleteType
<1>. QED  BY <1>1, <1>2, AnswerSeen DEF Unanswered

\* The answer that makes a session known announces it, with what is there of it.
LEMMA AnnounceStep ==
  ASSUME StoreInv, NEW s \in Session, create[s].pc = "audit",
         create' = [create EXCEPT ![s] = Ended(create[s], 201)],
         UNCHANGED <<clock, table, identity, update, delete>>
  PROVE  Store!Announce(s)
<1>1. /\ create \in [Session -> CreateType] /\ table \in [Session -> Item \cup {None}]
      /\ create[s] \in CreateType /\ Stored(s) /\ AnnouncedInv
      /\ clock \in Nat /\ SessionTtl \in Nat
  BY StoreFacts
<1>2. ~Known(s)
  BY <1>1 DEF Stored
<1>3. Known(s)' /\ create'[s].claims = create[s].claims
  BY <1>1, CreateEnded DEF Known
<1>4. ASSUME NEW t \in Session, t # s
      PROVE  create'[t] = create[t] /\ (Known(t)' <=> Known(t))
  BY <1>1, <1>4 DEF Known
<1>5. s \notin known /\ known' = known \cup {s}
  BY <1>2, <1>3, <1>4 DEF known
<1>6. person' = IF identity[s] # None THEN person \cup {s} ELSE person
  BY <1>2, <1>3, <1>4 DEF person
<1>7. s \in person' <=> identity[s] # None
  BY <1>3 DEF person
<1>8. CASE table[s] = None
  <2>1. live' = live
    BY <1>4, <1>8 DEF live, MapOrEmpty, EmptyMap
  <2>. QED  BY <1>5, <1>6, <2>1, SameAsked, SameRemoval DEF Store!Announce
<1>9. CASE table[s] # None
  <2>. DEFINE deadline == table[s].expiryDate
              claims   == create[s].claims
              new      == [data |-> Store!NoData, deadline |-> deadline, claims |-> claims]
  <2>1. /\ table[s].sessionData = None /\ deadline \in 0 .. clock + SessionTtl
        /\ claims \in BOOLEAN
        /\ identity[s] # None => claims
        /\ claims /\ clock <= deadline => identity[s] # None
    BY <1>1, <1>2, <1>9 DEF AnnouncedInv, Stored, CreateType
  <2>2. live'[s] = new
    BY <1>3, <1>9, <2>1 DEF live, MapOrEmpty, EmptyMap, Store!NoData
  <2>3. \A t \in Session \ {s} : live'[t] = live[t]
    BY <1>4 DEF live, MapOrEmpty, EmptyMap
  <2>4. live' = [live EXCEPT ![s] = new]
    <3>1. live = [t \in Session |-> live[t]] /\ live' = [t \in Session |-> live'[t]]
      BY DEF live
    <3>. HIDE DEF new
    <3>. QED  BY <2>2, <2>3, <3>1
  <2>. HIDE DEF deadline, claims
  <2>. QED  BY <1>5, <1>6, <1>7, <2>1, <2>4, SameAsked, SameRemoval DEF Store!Announce
<1>. QED  BY <1>8, <1>9

LEMMA CreationSeen ==
  ASSUME StoreInv, NEW s \in Session,
         \/ \E claims \in BOOLEAN : SaveSession(s, claims)
         \/ SaveIdentity(s) \/ SendAudit(s)
  PROVE  Store!Announce(s) \/ UNCHANGED Store!vars
<1>1. /\ create \in [Session -> CreateType] /\ table \in [Session -> Item \cup {None}]
      /\ identity \in [Session -> Int \cup {None}]
      /\ create[s] \in CreateType /\ Stored(s)
  BY StoreFacts
<1>2. /\ create[s].pc # "done" /\ ~Known(s)
      /\ UNCHANGED <<clock, update, delete>>
      /\ \A t \in Session \ {s} : /\ create'[t] = create[t] /\ table'[t] = table[t]
                                  /\ identity'[t] = identity[t]
  BY <1>1 DEF SaveSession, SaveIdentity, SendAudit, Stored
<1>3. CASE Known(s)'
  <2>1. SendAudit(s)
    <3>1. Ended(create[s], 500).resp = 500 /\ create[s].resp # 201
      BY <1>1, <1>2, CreateEnded DEF Known
    <3>2. ASSUME NEW claims \in BOOLEAN, SaveSession(s, claims) PROVE FALSE
      <4>. DEFINE next == [pc |-> IF claims THEN "identity" ELSE "audit",
                           claims |-> claims, resp |-> None]
      <4>1. next.resp # 201
        BY Statuses
      <4>. HIDE DEF next
      <4>2. create'[s] \in {next, Ended(create[s], 500)}
        BY <1>1, <3>2 DEF SaveSession, next
      <4>. QED  BY <1>3, <3>1, <4>1, <4>2 DEF Known
    <3>3. ASSUME SaveIdentity(s) PROVE FALSE
      <4>. DEFINE next == [create[s] EXCEPT !.pc = "audit"]
      <4>1. next.resp # 201
        BY <1>1, <3>1 DEF CreateType
      <4>2. [create EXCEPT ![s].pc = "audit"] = [create EXCEPT ![s] = next]
        BY <1>1
      <4>. HIDE DEF next
      <4>3. create'[s] \in {next, Ended(create[s], 500)}
        BY <1>1, <3>3, <4>2 DEF SaveIdentity
      <4>. QED  BY <1>3, <3>1, <4>1, <4>3 DEF Known
    <3>. QED  BY <3>2, <3>3
  <2>2. PICK resp \in {201, 500} : create' = [create EXCEPT ![s] = Ended(create[s], resp)]
    BY <1>1, <2>1 DEF SendAudit
  <2>3. resp = 201
    BY <1>1, <1>3, <2>2, CreateEnded DEF Known
  <2>. QED  BY <1>2, <2>1, <2>2, <2>3, AnnounceStep DEF SendAudit
<1>4. CASE ~Known(s)'
  BY <1>2, <1>4, Unseen
<1>. QED  BY <1>3, <1>4

\* The beginning of an update, and of a deletion.
LEMMA AskSeen ==
  ASSUME StoreInv, NEW u \in Update, NEW s \in Session,
         \/ UpdateRefused(u, s)
         \/ \E set, remove \in SUBSET Field : UpdateSend(u, s, set, remove)
  PROVE  Store!Ask(u, s)
<1>1. /\ update \in [Update -> UpdateType] /\ update[u] \in UpdateType
      /\ update[u].pc = "idle" /\ s \in known /\ update[u].resp = None
      /\ UNCHANGED <<clock, table, identity, create, delete>>
  BY StoreFacts DEF UpdateRefused, UpdateSend, known, LifecycleInv, CallInv
<1>2. asked[u] = AskedView(update[u]) /\ asked[u].pc = "idle"
  BY <1>1 DEF asked, AskedView
<1>3. UNCHANGED <<clock, known, live, person, removal>>
  BY <1>1, SameSessions, SamePeople, SameRemoval
<1>4. CASE UpdateRefused(u, s)
  <2>. DEFINE call == [update[u] EXCEPT !.session = s]
              view == AskedView(update[u])
  <2>1. call \in UpdateType
    BY <1>1 DEF UpdateType
  <2>2. update' = [update EXCEPT ![u] = Ended(call, 400)]
    BY <1>4 DEF UpdateRefused
  <2>3. asked' = [asked EXCEPT ![u] = AskedView(Ended(call, 400))]
    <3>. HIDE DEF call
    <3>. QED  BY <2>2, OneAsked
  <2>4. AskedView(Ended(call, 400)) = Store!Answered(AskedView(call), 400)
    <3>. HIDE DEF call
    <3>. QED  BY <2>1, AnswerSeen
  <2>5. Store!Answered(AskedView(call), 400) = Store!Answered(Store!About(view, s), 400)
    <3>1. /\ AskedView(call) = [pc |-> "idle", session |-> s, set |-> update[u].set,
                                remove |-> update[u].remove, resp |-> update[u].resp]
          /\ view = [pc |-> "idle", session |-> update[u].session, set |-> update[u].set,
                     remove |-> update[u].remove, resp |-> update[u].resp]
      BY <1>1 DEF AskedView, UpdateType
    <3>2. Store!About(view, s)
            = [pc |-> "pending", session |-> s, set |-> update[u].set,
               remove |-> update[u].remove, resp |-> update[u].resp]
      BY <3>1, AboutAsked
    <3>. DEFINE answer == [pc |-> "done", session |-> s, set |-> update[u].set,
                           remove |-> update[u].remove, resp |-> 400]
    <3>. HIDE DEF call, view
    <3>3. Store!Answered(AskedView(call), 400) = answer
      BY <3>1, AnsweredAsked
    <3>4. Store!Answered(Store!About(view, s), 400) = answer
      BY <3>2, AnsweredAsked
    <3>. QED  BY <3>3, <3>4
  <2>6. asked'[u] = Store!Answered(Store!About(asked[u], s), 400)
    BY <1>2, <2>3, <2>4, <2>5 DEF asked
  <2>7. asked' = [asked EXCEPT ![u] = asked'[u]]
    BY <2>3 DEF asked
  <2>. QED  BY <1>1, <1>2, <1>3, <2>6, <2>7 DEF Store!Ask
<1>5. CASE \E set, remove \in SUBSET Field : UpdateSend(u, s, set, remove)
  <2>1. PICK set \in SUBSET Field, remove \in SUBSET Field : UpdateSend(u, s, set, remove)
    BY <1>5
  <2>. DEFINE next == [update[u] EXCEPT !.pc = "ensure", !.session = s,
                                        !.set = set, !.remove = remove]
  <2>2. update' = [update EXCEPT ![u] = next] /\ set \cap remove = {}
    BY <1>1, <2>1 DEF UpdateSend
  <2>3. /\ next.pc = "ensure" /\ next.session = s /\ next.set = set
        /\ next.remove = remove /\ next.resp = None
    BY <1>1 DEF UpdateType
  <2>. HIDE DEF next
  <2>4. asked' = [asked EXCEPT ![u] = AskedView(next)]
    BY <2>2, OneAsked
  <2>5. AskedView(next) = [pc |-> "pending", session |-> s, set |-> set,
                           remove |-> remove, resp |-> None]
    BY <2>3 DEF AskedView
  <2>6. asked'[u] = AskedView(next) /\ asked' = [asked EXCEPT ![u] = asked'[u]]
    BY <2>4 DEF asked
  <2>7. /\ asked'[u] \in [pc : {"pending"}, session : {s}, resp : {None},
                          set : SUBSET Field, remove : SUBSET Field]
        /\ asked'[u].set \cap asked'[u].remove = {}
    <3>1. asked'[u] = [pc |-> "pending", session |-> s, set |-> set,
                       remove |-> remove, resp |-> None]
      BY <2>5, <2>6
    <3>. QED  BY <2>2, <3>1
  <2>. QED  BY <1>1, <1>2, <1>3, <2>6, <2>7 DEF Store!Ask
<1>. QED  BY <1>4, <1>5

\* An attempt of an update that changes nothing to be seen of its session.
LEMMA DeclineStep ==
  ASSUME StoreInv, NEW u \in Update, update[u].pc \in {"ensure", "apply"},
         NEW next, update' = [update EXCEPT ![u] = next],
         LET call == update[u]
         IN  \/ AskedView(next) = AskedView(call)
             \/ next \in {Unanswered(call, UpdateAttempts), Ended(call, 500)}
             \/ next = Ended(call, 404) /\ table[call.session] = None
             \/ next = Ended(call, 400) /\ call.set \cup call.remove = {},
         live' = live, UNCHANGED <<clock, identity, create, delete>>
  PROVE  Store!Decline(u) \/ UNCHANGED Store!vars
<1>. DEFINE call == update[u]
            view == AskedView(call)
<1>1. /\ call \in UpdateType /\ call.session \in Session
      /\ asked[u] = view /\ asked' = [asked EXCEPT ![u] = AskedView(next)]
  BY StoreFacts, UpdateFacts, OneAsked DEF UpdateInv
<1>2. UNCHANGED <<clock, known, live, person, removal>>
  BY SamePeople, SameRemoval DEF known, Known
<1>3. /\ view.pc = "pending" /\ view.session = call.session
      /\ view.set = call.set /\ view.remove = call.remove
  BY DEF AskedView
<1>4. table[call.session] = None => live[call.session] = None
  BY <1>1 DEF live
<1>5. \/ AskedView(next) = view
      \/ AskedView(next) = Store!Answered(view, 500)
      \/ AskedView(next) = Store!Answered(view, 404) /\ live[call.session] = None
      \/ AskedView(next) = Store!Answered(view, 400) /\ view.set \cup view.remove = {}
  <2>1. \A resp : AskedView(Ended(call, resp)) = Store!Answered(view, resp)
    BY <1>1, AnswerSeen
  <2>2. \/ AskedView(Unanswered(call, UpdateAttempts)) = view
        \/ AskedView(Unanswered(call, UpdateAttempts)) = Store!Answered(view, 500)
    BY <1>1, RetrySeen
  <2>3. \/ AskedView(next) = view
        \/ next \in {Unanswered(call, UpdateAttempts), Ended(call, 500)}
        \/ next = Ended(call, 404) /\ table[call.session] = None
        \/ next = Ended(call, 400) /\ call.set \cup call.remove = {}
    OBVIOUS
  <2>. HIDE DEF call, view
  <2>. QED  BY <1>3, <1>4, <2>1, <2>2, <2>3
<1>. HIDE DEF call, view
<1>6. CASE AskedView(next) = view
  <2>1. asked' = asked
    BY <1>1, <1>6 DEF asked
  <2>. QED  BY <1>2, <2>1 DEF Store!vars
<1>7. CASE AskedView(next) # view
  BY <1>1, <1>2, <1>3, <1>5, <1>7 DEF Store!Decline, Store!Answer, Store!Named
<1>. QED  BY <1>6, <1>7

\* The first update shows only when it is refused: a session has an empty map
\* or none at all.
LEMMA EnsureSeen ==
  ASSUME StoreInv, NEW u \in Update, EnsureMap(u)
  PROVE  Store!Decline(u) \/ UNCHANGED Store!vars
<1>. DEFINE call == update[u]
            s    == call.session
            go   == [call EXCEPT !.pc = "apply", !.tries = 0]
<1>1. /\ call.pc = "ensure" /\ call \in UpdateType /\ s \in Session
      /\ table \in [Session -> Item \cup {None}]
      /\ UNCHANGED <<clock, identity, create, delete>>
  BY StoreFacts, UpdateFacts DEF EnsureMap, UpdateInv
<1>2. PICK next : /\ update' = [update EXCEPT ![u] = next]
                  /\ \/ next = go
                     \/ next = Unanswered(call, UpdateAttempts)
                     \/ next = Ended(call, 404) /\ table[s] = None
                     \/ next = Ended(call, 400) /\ call.set \cup call.remove = {}
  BY DEF EnsureMap, Exists
<1>3. AskedView(go) = AskedView(call)
  BY <1>1 DEF AskedView, UpdateType
<1>4. live' = live
  <2>1. CASE Exists(s)
    <3>. DEFINE item == [table[s] EXCEPT !.sessionData = MapOrEmpty(@)]
    <3>1. table' = [table EXCEPT ![s] = item]
      BY <1>1, <2>1 DEF EnsureMap
    <3>2. /\ item \in Item /\ item.expiryDate = table[s].expiryDate
          /\ MapOrEmpty(item.sessionData) = MapOrEmpty(table[s].sessionData)
      <4>1. table[s] \in Item
        BY <1>1, <2>1 DEF Exists
      <4>2. item.sessionData = MapOrEmpty(table[s].sessionData)
        BY <4>1 DEF Item
      <4>3. item \in Item /\ item.expiryDate = table[s].expiryDate
        BY <4>1, MapsExist DEF Item
      <4>4. MapOrEmpty(MapOrEmpty(table[s].sessionData)) = MapOrEmpty(table[s].sessionData)
        BY MapsExist DEF MapOrEmpty
      <4>. QED  BY <4>2, <4>3, <4>4
    <3>3. table[s] # None /\ item # None
      BY <2>1, <3>2, LifecycleAssumption DEF Exists
    <3>. HIDE DEF item
    <3>4. ASSUME NEW t \in Session
          PROVE  /\ table'[t] = None <=> table[t] = None
                 /\ table'[t].expiryDate = table[t].expiryDate
                 /\ MapOrEmpty(table'[t].sessionData) = MapOrEmpty(table[t].sessionData)
      BY <1>1, <3>1, <3>2, <3>3
    <3>5. \A t \in Session : live'[t] = live[t]
      BY <1>1, <3>4 DEF live, Known, MapOrEmpty, EmptyMap
    <3>. QED  BY <3>5 DEF live
  <2>2. CASE ~Exists(s)
    BY <1>1, <2>2, SameSessions DEF EnsureMap
  <2>. QED  BY <2>1, <2>2
<1>5. call.pc \in {"ensure", "apply"}
  BY <1>1
<1>6. \/ AskedView(next) = AskedView(call)
      \/ next \in {Unanswered(call, UpdateAttempts), Ended(call, 500)}
      \/ next = Ended(call, 404) /\ table[s] = None
      \/ next = Ended(call, 400) /\ call.set \cup call.remove = {}
  <2>. HIDE DEF call, s, go
  <2>. QED  BY <1>2, <1>3
<1>. HIDE DEF go
<1>. QED  BY <1>1, <1>2, <1>4, <1>5, <1>6, DeclineStep

\* A merge that is accepted is one write of all the fields.
LEMMA WriteStep ==
  ASSUME StoreInv, NEW u \in Update, update[u].pc = "apply",
         LET call == update[u]
             s    == call.session
         IN  /\ table[s] # None /\ (call.set \cup call.remove) \cap OddField = {}
             /\ table' = [table EXCEPT ![s].sessionData = Merged(u, @)]
             /\ \/ update' = [update EXCEPT ![u] = Ended(call, 200)]
                \/ update' = [update EXCEPT ![u] = Unanswered(call, UpdateAttempts)],
         UNCHANGED <<clock, identity, create, delete>>
  PROVE  Store!Write(u)
<1>. DEFINE call == update[u]
            s    == call.session
            view == AskedView(call)
            data == table[s].sessionData
            item == [table[s] EXCEPT !.sessionData = Merged(u, @)]
            old  == [data |-> data, deadline |-> table[s].expiryDate,
                     claims |-> create[s].claims]
            new  == [data |-> Merged(u, data), deadline |-> table[s].expiryDate,
                     claims |-> create[s].claims]
<1>1. /\ call \in UpdateType /\ s \in Session /\ Known(s)
      /\ table \in [Session -> Item \cup {None}] /\ table[s] \in Item
      /\ data \in SessionData /\ data # None
      /\ call.set \cup call.remove # {}
  BY StoreFacts, UpdateFacts DEF UpdateInv, AnnouncedInv, Item
<1>2. /\ view.pc = "pending" /\ view.session = s
      /\ view.set = call.set /\ view.remove = call.remove /\ asked[u] = view
  BY DEF AskedView, asked
<1>3. /\ item \in Item /\ item # None /\ item.expiryDate = table[s].expiryDate
      /\ item.sessionData = Merged(u, data) /\ Merged(u, data) # None
  <2>1. item.sessionData = Merged(u, data) /\ item.expiryDate = table[s].expiryDate
    BY <1>1 DEF Item
  <2>2. Merged(u, data) \in SessionData /\ Merged(u, data) # None
    BY <1>1, MapsExist
  <2>3. item \in Item
    BY <1>1, <2>2 DEF Item
  <2>. QED  BY <2>1, <2>2, <2>3, LifecycleAssumption
<1>4. table' = [table EXCEPT ![s] = item]
  BY <1>1
<1>5. live[s] = old /\ live[s] # None
  BY <1>1, LiveThere DEF LiveView, MapOrEmpty
<1>6. live'[s] = new
  <2>. HIDE DEF item, s, data
  <2>1. table'[s] = item /\ create'[s] = create[s] /\ create'[s].resp = 201
    BY <1>1, <1>4 DEF Known
  <2>2. /\ table'[s] # None /\ table'[s].expiryDate = table[s].expiryDate
        /\ table'[s].sessionData = Merged(u, data)
    BY <1>3, <2>1
  <2>3. live'[s] = [data |-> MapOrEmpty(table'[s].sessionData),
                    deadline |-> table'[s].expiryDate, claims |-> create'[s].claims]
    BY <1>1, <2>1, <2>2 DEF live, Known, MapOrEmpty, EmptyMap
  <2>4. MapOrEmpty(table'[s].sessionData) = Merged(u, data)
    BY <1>3, <2>2 DEF MapOrEmpty
  <2>. QED  BY <2>1, <2>2, <2>3, <2>4
<1>7. \A t \in Session \ {s} : live'[t] = live[t]
  BY <1>1, <1>4 DEF live, Known, MapOrEmpty, EmptyMap
<1>8. live' = [live EXCEPT ![s] = new]
  <2>1. live = [t \in Session |-> live[t]] /\ live' = [t \in Session |-> live'[t]]
    BY DEF live
  <2>. HIDE DEF new, s
  <2>. QED  BY <1>6, <1>7, <2>1
<1>9. new = [old EXCEPT !.data =
               [f \in Field |-> IF f \in view.set THEN u
                                ELSE IF f \in view.remove THEN None ELSE @[f]]]
  <2>1. Merged(u, data) = [f \in Field |-> IF f \in view.set THEN u
                             ELSE IF f \in view.remove THEN None ELSE old.data[f]]
    BY <1>2 DEF Merged
  <2>. HIDE DEF data, s, view
  <2>. QED  BY <2>1
<1>10. live' = [live EXCEPT ![s].data =
                 [f \in Field |-> IF f \in view.set THEN u
                                  ELSE IF f \in view.remove THEN None ELSE @[f]]]
  <2>1. live = [t \in Session |-> live[t]]
    BY DEF live
  <2>. HIDE DEF old, new, s, view
  <2>. QED  BY <1>5, <1>8, <1>9, <2>1
<1>11. asked' \in {asked, Store!Answer(asked, u, 200), Store!Answer(asked, u, 500)}
  <2>1. PICK next \in {Ended(call, 200), Unanswered(call, UpdateAttempts)} :
          update' = [update EXCEPT ![u] = next]
    OBVIOUS
  <2>2. asked' = [asked EXCEPT ![u] = AskedView(next)]
    BY <2>1, OneAsked
  <2>3. AskedView(next) \in {view, Store!Answered(view, 200), Store!Answered(view, 500)}
    <3>1. AskedView(Ended(call, 200)) = Store!Answered(view, 200)
      BY <1>1, AnswerSeen
    <3>2. \/ AskedView(Unanswered(call, UpdateAttempts)) = view
          \/ AskedView(Unanswered(call, UpdateAttempts)) = Store!Answered(view, 500)
      BY <1>1, RetrySeen
    <3>. HIDE DEF call, view
    <3>. QED  BY <2>1, <3>1, <3>2
  <2>4. asked = [asked EXCEPT ![u] = asked[u]]
    BY DEF asked
  <2>. HIDE DEF view
  <2>. QED  BY <1>2, <2>2, <2>3, <2>4 DEF Store!Answer
<1>12. UNCHANGED <<clock, known, person, removal>>
  BY SamePeople, SameRemoval DEF known, Known
<1>13. (view.set \cup view.remove) \cap OddField = {} /\ view.set \cup view.remove # {}
  BY <1>1, <1>2
<1>. HIDE DEF call, s, view, item, data, old, new
<1>. QED  BY <1>2, <1>5, <1>10, <1>11, <1>12, <1>13 DEF Store!Write, Store!Named

LEMMA ApplySeen ==
  ASSUME StoreInv, NEW u \in Update, ApplyUpdate(u)
  PROVE  Store!Write(u) \/ Store!Decline(u) \/ UNCHANGED Store!vars
<1>. DEFINE call == update[u]
            s    == call.session
            odd  == (call.set \cup call.remove) \cap OddField # {}
            noMap == Exists(s) /\ table[s].sessionData = None
<1>1. /\ call.pc = "apply" /\ call \in UpdateType /\ s \in Session
      /\ UNCHANGED <<clock, identity, create, delete>>
  BY StoreFacts, UpdateFacts DEF ApplyUpdate, UpdateInv
<1>2. CASE Exists(s) /\ ~odd /\ ~noMap
  <2>1. /\ table' = [table EXCEPT ![s].sessionData = Merged(u, @)]
        /\ \/ update' = [update EXCEPT ![u] = Ended(call, 200)]
           \/ update' = [update EXCEPT ![u] = Unanswered(call, UpdateAttempts)]
    BY <1>2 DEF ApplyUpdate
  <2>. QED  BY <1>1, <1>2, <2>1, WriteStep DEF Exists
<1>3. CASE ~(Exists(s) /\ ~odd /\ ~noMap)
  <2>1. PICK next : /\ update' = [update EXCEPT ![u] = next]
                    /\ \/ next = Ended(call, 500)
                       \/ next = Ended(call, 404) /\ table[s] = None
                       \/ next = Unanswered(call, UpdateAttempts)
    BY <1>3 DEF ApplyUpdate, Exists
  <2>2. table' = table
    BY <1>3 DEF ApplyUpdate, Exists
  <2>3. live' = live
    BY <1>1, <2>2, SameSessions
  <2>4. call.pc \in {"ensure", "apply"}
    BY <1>1
  <2>. QED  BY <1>1, <2>1, <2>3, <2>4, DeclineStep
<1>. QED  BY <1>2, <1>3

LEMMA LostSeen ==
  ASSUME StoreInv, NEW u \in Update, UpdateLost(u)
  PROVE  Store!Decline(u) \/ UNCHANGED Store!vars
<1>1. /\ update[u].pc \in {"ensure", "apply"}
      /\ update' = [update EXCEPT ![u] = Unanswered(update[u], UpdateAttempts)]
      /\ UNCHANGED <<clock, table, identity, create, delete>>
  BY StoreFacts DEF UpdateLost
<1>. QED  BY <1>1, SameSessions, DeclineStep

LEMMA AskRemovalSeen ==
  ASSUME StoreInv, NEW d \in DeleteCall, NEW s \in Session, DeleteSend(d, s)
  PROVE  Store!AskRemoval(d, s)
<1>. DEFINE sent == [delete[d] EXCEPT !.pc = "sent", !.session = s]
            call == [delete[d] EXCEPT !.session = s]
            view == RemovalView(delete[d])
            about == [pc |-> "pending", session |-> s, resp |-> delete[d].resp]
<1>1. /\ delete \in [DeleteCall -> DeleteType] /\ delete[d] \in DeleteType
      /\ delete[d].pc = "idle" /\ s \in known
      /\ UNCHANGED <<clock, table, identity, create, update>>
  BY StoreFacts DEF DeleteSend, known
<1>2. PICK next \in {sent, Ended(call, 404)} : delete' = [delete EXCEPT ![d] = next]
  BY DEF DeleteSend
<1>3. /\ RemovalView(sent) = about
      /\ RemovalView(call) = [pc |-> "idle", session |-> s, resp |-> delete[d].resp]
      /\ call \in DeleteType
  BY <1>1 DEF RemovalView, DeleteType
<1>4. view = [pc |-> "idle", session |-> delete[d].session, resp |-> delete[d].resp]
  BY <1>1 DEF RemovalView
<1>. HIDE DEF sent, call, view
<1>5. Store!About(view, s) = about
  BY <1>4, AboutRemoval
<1>6. RemovalView(Ended(call, 404)) = Store!Answered(about, 404)
  <2>. DEFINE answer == [pc |-> "done", session |-> s, resp |-> 404]
  <2>1. RemovalView(Ended(call, 404)) = Store!Answered(RemovalView(call), 404)
    BY <1>3, AnswerSeen
  <2>2. Store!Answered(RemovalView(call), 404) = answer
    BY <1>3, AnsweredRemoval
  <2>3. Store!Answered(about, 404) = answer
    BY AnsweredRemoval
  <2>. QED  BY <2>1, <2>2, <2>3
<1>7. /\ removal[d] = view /\ view.pc = "idle"
      /\ removal' = [removal EXCEPT ![d] = RemovalView(next)]
  <2>1. view.pc = "idle"
    BY <1>4
  <2>. QED  BY <1>2, <2>1, OneRemoval DEF view
<1>8. \/ RemovalView(next) = Store!About(view, s)
      \/ RemovalView(next) = Store!Answered(Store!About(view, s), 404)
  BY <1>2, <1>3, <1>5, <1>6
<1>9. UNCHANGED <<clock, known, live, person, asked>>
  BY <1>1, SameSessions, SamePeople, SameAsked
<1>. HIDE DEF about
<1>. QED  BY <1>1, <1>7, <1>8, <1>9 DEF Store!AskRemoval

\* The transaction, answered or not, removes the session with its person.
LEMMA RemoveSeen ==
  ASSUME StoreInv, NEW d \in DeleteCall, DeleteBoth(d)
  PROVE  Store!Remove(d)
<1>. DEFINE call == delete[d]
            s    == call.session
            view == RemovalView(call)
<1>1. /\ call.pc = "sent" /\ call \in DeleteType /\ s \in Session
      /\ table \in [Session -> Item \cup {None}] /\ identity \in [Session -> Int \cup {None}]
      /\ table' = [table EXCEPT ![s] = None] /\ identity' = [identity EXCEPT ![s] = None]
      /\ UNCHANGED <<clock, create, update>>
  BY StoreFacts, DeleteFacts DEF DeleteBoth, DeleteInv
<1>2. removal[d] = view /\ view.pc = "pending" /\ view.session = s
  BY <1>1 DEF removal, RemovalView
<1>3. PICK next \in {Ended(call, 200), Unanswered(call, DeleteAttempts)} :
        delete' = [delete EXCEPT ![d] = next]
  BY DEF DeleteBoth
<1>4. removal' \in {removal, Store!Answer(removal, d, 200), Store!Answer(removal, d, 500)}
  <2>1. removal' = [removal EXCEPT ![d] = RemovalView(next)]
    BY <1>3, OneRemoval
  <2>2. RemovalView(next) \in {view, Store!Answered(view, 200), Store!Answered(view, 500)}
    <3>1. RemovalView(Ended(call, 200)) = Store!Answered(view, 200)
      BY <1>1, AnswerSeen
    <3>2. \/ RemovalView(Unanswered(call, DeleteAttempts)) = view
          \/ RemovalView(Unanswered(call, DeleteAttempts)) = Store!Answered(view, 500)
      BY <1>1, RetrySeen
    <3>. HIDE DEF call, view
    <3>. QED  BY <1>3, <3>1, <3>2
  <2>3. removal = [removal EXCEPT ![d] = removal[d]]
    BY DEF removal
  <2>. HIDE DEF view
  <2>. QED  BY <1>2, <2>1, <2>2, <2>3 DEF Store!Answer
<1>. HIDE DEF s, call
<1>5. live' = [live EXCEPT ![s] = None]
  <2>1. live'[s] = None
    BY <1>1 DEF live, MapOrEmpty, EmptyMap
  <2>2. \A t \in Session \ {s} : live'[t] = live[t]
    BY <1>1 DEF live, Known, MapOrEmpty, EmptyMap
  <2>3. live = [t \in Session |-> live[t]] /\ live' = [t \in Session |-> live'[t]]
    BY DEF live
  <2>. QED  BY <2>1, <2>2, <2>3
<1>6. person' = person \ {s}
  BY <1>1 DEF person, Known
<1>7. known' = known /\ asked' = asked
  BY <1>1, SameAsked DEF known, Known
<1>. HIDE DEF view
<1>. QED  BY <1>1, <1>2, <1>4, <1>5, <1>6, <1>7 DEF Store!Remove

LEMMA GiveUpSeen ==
  ASSUME StoreInv, NEW d \in DeleteCall, DeleteLost(d)
  PROVE  Store!GiveUp(d) \/ UNCHANGED Store!vars
<1>. DEFINE call == delete[d]
            view == RemovalView(call)
            next == Unanswered(call, DeleteAttempts)
<1>1. /\ call.pc = "sent" /\ call \in DeleteType /\ delete' = [delete EXCEPT ![d] = next]
      /\ UNCHANGED <<clock, table, identity, create, update>>
  BY StoreFacts DEF DeleteLost
<1>2. removal[d] = view /\ view.pc = "pending"
  BY <1>1 DEF removal, RemovalView
<1>3. removal' = [removal EXCEPT ![d] = RemovalView(next)]
  <2>. HIDE DEF next
  <2>. QED  BY <1>1, OneRemoval
<1>4. RemovalView(next) = view \/ RemovalView(next) = Store!Answered(view, 500)
  BY <1>1, RetrySeen
<1>5. UNCHANGED <<clock, known, live, person, asked>>
  BY <1>1, SameSessions, SamePeople, SameAsked
<1>6. removal = [removal EXCEPT ![d] = removal[d]]
  BY DEF removal
<1>. HIDE DEF call, view, next
<1>7. CASE RemovalView(next) = view
  BY <1>2, <1>3, <1>5, <1>6, <1>7 DEF Store!vars
<1>8. CASE RemovalView(next) = Store!Answered(view, 500)
  BY <1>2, <1>3, <1>5, <1>8 DEF Store!GiveUp, Store!Answer
<1>. QED  BY <1>4, <1>7, <1>8

\* A known session and its person are swept after the session's deadline.
LEMMA SweepSeen ==
  ASSUME StoreInv, NEW s \in Session, SweepSession(s) \/ SweepIdentity(s)
  PROVE  Store!Expire(s) \/ Store!Forget(s) \/ UNCHANGED Store!vars
<1>1. /\ table \in [Session -> Item \cup {None}] /\ identity \in [Session -> Int \cup {None}]
      /\ clock \in Nat /\ Stored(s)
      /\ UNCHANGED <<clock, create, update, delete>>
  BY StoreFacts DEF SweepSession, SweepIdentity
<1>2. CASE ~Known(s)
  <2>1. ~Known(s)'
    BY <1>1, <1>2 DEF Known
  <2>2. \A t \in Session \ {s} : /\ create'[t] = create[t] /\ table'[t] = table[t]
                                 /\ identity'[t] = identity[t]
    BY <1>1 DEF SweepSession, SweepIdentity
  <2>. QED  BY <1>1, <1>2, <2>1, <2>2, Unseen
<1>3. CASE Known(s) /\ SweepSession(s)
  <2>1. /\ table[s] # None /\ table[s].expiryDate < clock
        /\ table' = [table EXCEPT ![s] = None] /\ identity' = identity
    BY <1>3 DEF SweepSession, Expired
  <2>2. live[s] # None /\ live[s].deadline < clock
    BY <1>3, <2>1, LiveThere
  <2>3. live' = [live EXCEPT ![s] = None]
    <3>1. live'[s] = None
      BY <1>1, <2>1 DEF live, MapOrEmpty, EmptyMap
    <3>2. \A t \in Session \ {s} : live'[t] = live[t]
      BY <1>1, <2>1 DEF live, Known, MapOrEmpty, EmptyMap
    <3>3. live = [t \in Session |-> live[t]] /\ live' = [t \in Session |-> live'[t]]
      BY DEF live
    <3>. QED  BY <3>1, <3>2, <3>3
  <2>4. known' = known
    BY <1>1 DEF known, Known
  <2>. QED  BY <1>1, <2>1, <2>2, <2>3, <2>4, SamePeople, SameAsked, SameRemoval
            DEF Store!Expire
<1>4. CASE Known(s) /\ SweepIdentity(s)
  <2>1. /\ identity[s] # None /\ identity[s] < clock
        /\ identity' = [identity EXCEPT ![s] = None] /\ table' = table
    BY <1>4 DEF SweepIdentity, Expired
  <2>2. live[s] # None => live[s].deadline < clock
    <3>1. table[s] # None => table[s].expiryDate < clock
      BY <1>1, <2>1 DEF Stored
    <3>2. live[s] # None => table[s] # None
      BY DEF live
    <3>. QED  BY <1>4, <3>1, <3>2, LiveThere
  <2>3. person' = person \ {s}
    BY <1>1, <2>1 DEF person, Known
  <2>. QED  BY <1>1, <2>1, <2>2, <2>3, SameSessions, SameAsked, SameRemoval
            DEF Store!Forget
<1>. QED  BY <1>2, <1>3, <1>4

\* Every step is one of the store's, or does not show.
LEMMA StoreSimulation == StoreInv /\ [Next]_vars => [Store!Next]_(Store!vars)
<1> SUFFICES ASSUME StoreInv, [Next]_vars
             PROVE  Store!Next \/ UNCHANGED Store!vars
  OBVIOUS
<1>1. CASE \E s \in Session : \/ \E claims \in BOOLEAN : SaveSession(s, claims)
                              \/ SaveIdentity(s) \/ SendAudit(s)
  BY <1>1, CreationSeen DEF Store!Next
<1>2. CASE \E s \in Session : SweepSession(s) \/ SweepIdentity(s)
  BY <1>2, SweepSeen DEF Store!Next
<1>3. CASE \E s \in Session, u \in Update :
             \/ UpdateRefused(u, s)
             \/ \E set, remove \in SUBSET Field : UpdateSend(u, s, set, remove)
  BY <1>3, AskSeen DEF Store!Next
<1>4. CASE \E s \in Session, d \in DeleteCall : DeleteSend(d, s)
  BY <1>4, AskRemovalSeen DEF Store!Next
<1>5. CASE \E u \in Update : UpdateStep(u)
  BY <1>5, EnsureSeen, ApplySeen, LostSeen DEF UpdateStep, Store!Next
<1>6. CASE \E d \in DeleteCall : DeleteStep(d)
  BY <1>6, RemoveSeen, GiveUpSeen DEF DeleteStep, Store!Next
<1>7. CASE Tick
  <2>1. clock' = clock + 1 /\ UNCHANGED <<table, identity, create, update, delete>>
    BY <1>7 DEF Tick
  <2>. QED  BY <2>1, SameSessions, SamePeople, SameAsked, SameRemoval
            DEF Store!Tick, Store!Next
<1>8. CASE (\E s \in Session : Replicate(s)) \/ Finished \/ UNCHANGED vars
  <2>1. UNCHANGED <<clock, table, identity, create, update, delete>>
    BY <1>8 DEF Replicate, Finished, vars
  <2>. QED  BY <2>1, SameSessions, SamePeople, SameAsked, SameRemoval DEF Store!vars
<1>. QED  BY <1>1, <1>2, <1>3, <1>4, <1>5, <1>6, <1>7, <1>8 DEF Next

\* For any sessions, updates, deletions, fields and attempts, whichever write
\* fails half-way or is sent again, the two tables are to a client that was
\* told of a session the one store of SessionStore.
THEOREM TablesAreOneStore == Spec => ImplementsStore
<1>1. Init => Store!Init
  BY Statuses DEF Init, Store!Init, known, live, person, asked, removal, Known
<1>. QED  BY <1>1, StoreInvInit, StoreInvStep, StoreSimulation, PTL
          DEF Spec, ImplementsStore, Store!Spec
=============================================================================
