-------------------------- MODULE SessionLifecycle --------------------------
(***************************************************************************)
(* A session and the personal identity that belongs to it: POST /session   *)
(* stores both, one after the other, and reports a START event; the        *)
(* session-data endpoint merges fields into the session in two updates;    *)
(* DELETE /session removes both in one transaction; each table sweeps its  *)
(* own items by their own expiryDate.  Authorization codes are the matter  *)
(* of AuthorizationCode.                                                   *)
(*                                                                         *)
(* An item is None when the table has none.  A field's value is named by   *)
(* the update that wrote it, so that one writer's values tell from         *)
(* another's.  Clients learn a session's id from a 201 answer, and only    *)
(* ask about such sessions.                                                *)
(***************************************************************************)
EXTENDS Integers

CONSTANTS Session,       \* one POST /session invocation each
          Update,        \* session-data updates
          DeleteCall,    \* DELETE /session requests
          Field,         \* names of session data
          OddField,      \* names that make no legal expression alias: a-b, a b
          None,
          SessionTtl, UpdateAttempts, DeleteAttempts, MaxClock

\* sessionData: no attribute, or a map in which a missing field is None.
SessionData == [Field -> Update \cup {None}] \cup {None}
EmptyMap    == [f \in Field |-> None]
Item        == [expiryDate : Int \cup {None}, sessionData : SessionData]

\* None is no ordinary value: no name, no map, no item and no part of SessionStore.
ASSUME LifecycleAssumption ==
    /\ None \notin Session \cup Update \cup Int
    /\ None \notin [Field -> Update \cup {None}]
    /\ None \notin Item
    /\ None \notin [data : SessionData, deadline : Int, claims : BOOLEAN]
    /\ OddField \subseteq Field
    /\ SessionTtl \in Nat /\ MaxClock \in Nat
    /\ UpdateAttempts \in Nat \ {0} /\ DeleteAttempts \in Nat \ {0}

VARIABLES
    clock,      \* seconds
    table,      \* the session table
    replica,    \* what an eventually consistent read of it may return
    identity,   \* the person identity table: an item's expiryDate, or None
    audited,    \* sessions with a START event on the audit queue
    create,     \* the POST /session invocations
    update,     \* the session-data invocations
    delete      \* the DELETE /session invocations

vars == <<clock, table, replica, identity, audited, create, update, delete>>

-----------------------------------------------------------------------------
TypeOK ==
    /\ clock \in 0 .. MaxClock
    /\ table \in [Session -> Item \cup {None}]
    /\ replica \in [Session -> Item \cup {None}]
    /\ identity \in [Session -> Int \cup {None}]
    /\ audited \in SUBSET Session
    /\ create \in [Session ->
         [pc : {"idle", "identity", "audit", "done"}, claims : BOOLEAN,
          resp : {None, 201, 500}]]
    /\ update \in [Update ->
         [pc : {"idle", "ensure", "apply", "done"}, session : Session \cup {None},
          set : SUBSET Field, remove : SUBSET Field,
          tries : 0 .. UpdateAttempts - 1, resp : {None, 200, 400, 404, 500}]]
    /\ delete \in [DeleteCall ->
         [pc : {"idle", "sent", "done"}, session : Session \cup {None},
          tries : 0 .. DeleteAttempts - 1, resp : {None, 200, 404, 500}]]

Init ==
    /\ clock = 0
    /\ table = [s \in Session |-> None]
    /\ replica = table
    /\ identity = [s \in Session |-> None]
    /\ audited = {}
    /\ create = [s \in Session |-> [pc |-> "idle", claims |-> FALSE, resp |-> None]]
    /\ update = [u \in Update |->
                   [pc |-> "idle", session |-> None, set |-> {}, remove |-> {},
                    tries |-> 0, resp |-> None]]
    /\ delete = [d \in DeleteCall |->
                   [pc |-> "idle", session |-> None, tries |-> 0, resp |-> None]]

Known(s) == create[s].resp = 201

Ended(call, resp) == [call EXCEPT !.pc = "done", !.resp = resp]

\* A slip: never giving up.
NeverGivesUp(call, attempts) == [call EXCEPT !.tries = (@ + 1) % attempts]

\* No answer: the SDK sends the command again, or gives up.
Unanswered(call, attempts) ==
    IF call.tries + 1 < attempts THEN [call EXCEPT !.tries = @ + 1]
                                 ELSE Ended(call, 500)

-----------------------------------------------------------------------------
(* POST /session, once its JWT is validated: three writes in a row.  Any   *)
(* of them may fail, with or without having taken effect; the lambda then  *)
(* answers 500 and undoes nothing.                                         *)

\* saveSession; shared_claims decides whether there is an identity to save.
SaveSession(s, claims) ==
    /\ create[s].pc = "idle"
    /\ clock + SessionTtl + 1 < MaxClock
    /\ \/ /\ table' = [table EXCEPT ![s] =
                        [expiryDate |-> clock + SessionTtl, sessionData |-> None]]
          /\ create' = [create EXCEPT
                ![s] = [pc |-> IF claims THEN "identity" ELSE "audit",
                        claims |-> claims, resp |-> None]]
       \/ /\ \/ table' = table
             \/ table' = [table EXCEPT ![s] =
                   [expiryDate |-> clock + SessionTtl, sessionData |-> None]]
          /\ create' = [create EXCEPT ![s] = Ended(@, 500)]
    /\ UNCHANGED <<clock, replica, identity, audited, update, delete>>

\* A slip: a failure to save the identity is ignored.
SaveIdentityOrNot(s) ==
    /\ create[s].pc = "identity"
    /\ clock + SessionTtl < MaxClock
    /\ identity' \in {identity, [identity EXCEPT ![s] = clock + SessionTtl]}
    /\ create' = [create EXCEPT ![s].pc = "audit"]
    /\ UNCHANGED <<clock, table, replica, audited, update, delete>>

\* savePersonIdentity: its expiry is computed anew, never the session's.
SaveIdentity(s) ==
    LET saved == [identity EXCEPT ![s] = clock + SessionTtl]
    IN  /\ create[s].pc = "identity"
        /\ clock + SessionTtl < MaxClock
        /\ \/ /\ identity' = saved
              /\ create' = [create EXCEPT ![s].pc = "audit"]
           \/ /\ identity' \in {identity, saved}
              /\ create' = [create EXCEPT ![s] = Ended(@, 500)]
        /\ UNCHANGED <<clock, table, replica, audited, update, delete>>

\* buildAndSendAuditEvent, then the answer that makes the session known.
SendAudit(s) ==
    /\ create[s].pc = "audit"
    /\ \/ /\ audited' = audited \cup {s}
          /\ create' = [create EXCEPT ![s] = Ended(@, 201)]
       \/ /\ audited' \in {audited, audited \cup {s}}
          /\ create' = [create EXCEPT ![s] = Ended(@, 500)]
    /\ UNCHANGED <<clock, table, replica, identity, update, delete>>

-----------------------------------------------------------------------------
(* The session-data update.                                                *)

\* parseBody: anything but a JSON object is refused before the table is used.
UpdateRefused(u, s) ==
    /\ update[u].pc = "idle" /\ Known(s)
    /\ update' = [update EXCEPT ![u] = Ended([@ EXCEPT !.session = s], 400)]
    /\ UNCHANGED <<clock, table, replica, identity, audited, create, delete>>

\* A field with a null value is to be removed, any other to be set.
UpdateSend(u, s, set, remove) ==
    /\ update[u].pc = "idle" /\ Known(s)
    /\ set \cap remove = {}
    /\ update' = [update EXCEPT
           ![u].pc = "ensure", ![u].session = s,
           ![u].set = set, ![u].remove = remove]
    /\ UNCHANGED <<clock, table, replica, identity, audited, create, delete>>

\* A slip: the session looked up before it is updated on condition.
ReadAndExists(s) == replica[s] # None /\ table[s] # None

\* attribute_exists(sessionId)
Exists(s) == table[s] # None

\* A slip: if_not_exists forgotten.
AlwaysEmpty(map) == EmptyMap

\* if_not_exists(sessionData, :emptyMap)
MapOrEmpty(map) == IF map = None THEN EmptyMap ELSE map

\* A slip: the first update creates the session it is about.
EnsureMapOfAny(u) ==
    LET s == update[u].session
    IN  /\ update[u].pc = "ensure"
        /\ table' = [table EXCEPT ![s] =
                       IF @ = None
                       THEN [expiryDate |-> None, sessionData |-> EmptyMap]
                       ELSE [@ EXCEPT !.sessionData = MapOrEmpty(@)]]
        /\ update' = [update EXCEPT ![u].pc = "apply"]
        /\ UNCHANGED <<clock, replica, identity, audited, create, delete>>

\* First update: give the session a map to put fields in, if it exists.  It
\* is only then that a body without any field is refused.
EnsureMap(u) ==
    LET call == update[u]
        s    == call.session
        next == IF ~Exists(s) THEN Ended(call, 404)
                ELSE IF call.set \cup call.remove = {} THEN Ended(call, 400)
                ELSE [call EXCEPT !.pc = "apply", !.tries = 0]
    IN  /\ call.pc = "ensure"
        /\ table' = IF Exists(s)
                    THEN [table EXCEPT ![s].sessionData = MapOrEmpty(@)]
                    ELSE table
        /\ \/ update' = [update EXCEPT ![u] = next]
           \/ update' = [update EXCEPT ![u] = Unanswered(call, UpdateAttempts)]
        /\ UNCHANGED <<clock, replica, identity, audited, create, delete>>

\* A slip: a map left without fields is removed altogether.
MergedOrNone(u, map) ==
    IF \A f \in Field : /\ f \notin update[u].set
                        /\ f \in update[u].remove \/ map[f] = None
    THEN None
    ELSE [f \in Field |-> IF f \in update[u].set THEN u ELSE map[f]]

\* SET and REMOVE of sessionData.#field, one clause per field.
Merged(u, map) ==
    [f \in Field |-> IF f \in update[u].set THEN u
                     ELSE IF f \in update[u].remove THEN None
                     ELSE map[f]]

\* Second update: DynamoDB refuses an alias it cannot parse whatever the item
\* is, and then a path into a map that is not there.
ApplyUpdate(u) ==
    LET call   == update[u]
        s      == call.session
        noMap  == Exists(s) /\ table[s].sessionData = None
        answer == IF (call.set \cup call.remove) \cap OddField # {} \/ noMap
                  THEN 500
                  ELSE IF Exists(s) THEN 200 ELSE 404
    IN  /\ call.pc = "apply"
        /\ table' = IF answer = 200
                    THEN [table EXCEPT ![s].sessionData = Merged(u, @)]
                    ELSE table
        /\ \/ update' = [update EXCEPT ![u] = Ended(call, answer)]
           \/ update' = [update EXCEPT ![u] = Unanswered(call, UpdateAttempts)]
        /\ UNCHANGED <<clock, replica, identity, audited, create, delete>>

\* An attempt of either update never reaches the table.
UpdateLost(u) ==
    /\ update[u].pc \in {"ensure", "apply"}
    /\ update' = [update EXCEPT ![u] = Unanswered(@, UpdateAttempts)]
    /\ UNCHANGED <<clock, table, replica, identity, audited, create, delete>>

-----------------------------------------------------------------------------
(* DELETE /session: a read that may be stale, then one transaction.        *)
DeleteSend(d, s) ==
    /\ delete[d].pc = "idle" /\ Known(s)
    /\ \E item \in {table[s], replica[s]} :
           delete' = [delete EXCEPT ![d] =
               IF item # None
               THEN [@ EXCEPT !.pc = "sent", !.session = s]
               ELSE Ended([@ EXCEPT !.session = s], 404)]
    /\ UNCHANGED <<clock, table, replica, identity, audited, create, update>>

\* A slip: the identity is forgotten.
DeleteSessionOnly(d) ==
    /\ delete[d].pc = "sent"
    /\ table' = [table EXCEPT ![delete[d].session] = None]
    /\ delete' = [delete EXCEPT ![d] = Ended(@, 200)]
    /\ UNCHANGED <<clock, replica, identity, audited, create, update>>

\* TransactWriteCommand
DeleteBoth(d) ==
    LET s == delete[d].session
    IN  /\ delete[d].pc = "sent"
        /\ table' = [table EXCEPT ![s] = None]
        /\ identity' = [identity EXCEPT ![s] = None]
        /\ \/ delete' = [delete EXCEPT ![d] = Ended(@, 200)]
           \/ delete' = [delete EXCEPT ![d] = Unanswered(@, DeleteAttempts)]
        /\ UNCHANGED <<clock, replica, audited, create, update>>

DeleteLost(d) ==
    /\ delete[d].pc = "sent"
    /\ delete' = [delete EXCEPT ![d] = Unanswered(@, DeleteAttempts)]
    /\ UNCHANGED <<clock, table, replica, identity, audited, create, update>>

-----------------------------------------------------------------------------
(* DynamoDB: replication, and a TTL sweep per table on its own expiryDate. *)
Replicate(s) ==
    /\ replica[s] # table[s]
    /\ replica' = [replica EXCEPT ![s] = table[s]]
    /\ UNCHANGED <<clock, table, identity, audited, create, update, delete>>

Expired(date) == date # None /\ date < clock

SweepSession(s) ==
    /\ table[s] # None /\ Expired(table[s].expiryDate)
    /\ table' = [table EXCEPT ![s] = None]
    /\ UNCHANGED <<clock, replica, identity, audited, create, update, delete>>

SweepIdentity(s) ==
    /\ Expired(identity[s])
    /\ identity' = [identity EXCEPT ![s] = None]
    /\ UNCHANGED <<clock, table, replica, audited, create, update, delete>>

\* Bound: time waits for an identity being saved, so that the identity too
\* can expire before MaxClock (a lambda has 30 seconds to get there).
Tick ==
    /\ clock < MaxClock
    /\ \A s \in Session :
         create[s].pc = "identity" => clock + SessionTtl + 1 < MaxClock
    /\ clock' = clock + 1
    /\ UNCHANGED <<table, replica, identity, audited, create, update, delete>>

\* Everything is answered and erased: the only state that may stop.
Finished ==
    /\ clock = MaxClock
    /\ \A s \in Session : /\ create[s].pc \in {"idle", "done"}
                          /\ table[s] = None /\ replica[s] = None
                          /\ identity[s] = None
    /\ \A u \in Update : update[u].pc \in {"idle", "done"}
    /\ \A d \in DeleteCall : delete[d].pc \in {"idle", "done"}
    /\ UNCHANGED vars

-----------------------------------------------------------------------------
UpdateStep(u) == EnsureMap(u) \/ ApplyUpdate(u) \/ UpdateLost(u)
DeleteStep(d) == DeleteBoth(d) \/ DeleteLost(d)

Next ==
    \/ \E s \in Session :
         \/ \E claims \in BOOLEAN : SaveSession(s, claims)
         \/ SaveIdentity(s) \/ SendAudit(s)
         \/ Replicate(s) \/ SweepSession(s) \/ SweepIdentity(s)
         \/ \E u \in Update :
              \/ UpdateRefused(u, s)
              \/ \E set, remove \in SUBSET Field : UpdateSend(u, s, set, remove)
         \/ \E d \in DeleteCall : DeleteSend(d, s)
    \/ \E u \in Update : UpdateStep(u)
    \/ \E d \in DeleteCall : DeleteStep(d)
    \/ Tick
    \/ Finished

Spec == Init /\ [][Next]_vars

\* What was started goes on, time passes, DynamoDB sweeps and replicates.
Fairness ==
    /\ WF_vars(Tick)
    /\ \A s \in Session :
         /\ WF_vars(SaveIdentity(s)) /\ WF_vars(SendAudit(s))
         /\ WF_vars(Replicate(s))
         /\ WF_vars(SweepSession(s)) /\ WF_vars(SweepIdentity(s))
    /\ \A u \in Update : WF_vars(UpdateStep(u))
    /\ \A d \in DeleteCall : WF_vars(DeleteStep(d))

FairSpec == Spec /\ Fairness

-----------------------------------------------------------------------------
(* Properties.                                                             *)

\* A session that a client was told of was created together with everything
\* that belongs to it: while it is neither expired nor deleted, its identity
\* is there if its request had shared claims, and its START event was sent.
\* Two tables with two sweeps and a deletion in between must agree on it.
CompleteWhileLive ==
    \A s \in Session :
        Known(s) /\ table[s] # None /\ clock <= table[s].expiryDate =>
            /\ s \in audited
            /\ create[s].claims => identity[s] # None

\* A client that is told that a session is gone is told the truth, whatever
\* updates, sweeps and stale reads were in flight: after a deletion answered
\* 200 neither the session nor its identity is in its table, and an update
\* answered 404 was about a session that is not there.  (A deletion answered
\* 404 may be wrong: it trusts a read that may be stale.)
ToldGoneMeansGone ==
    /\ \A d \in DeleteCall : delete[d].resp = 200 =>
         table[delete[d].session] = None /\ identity[delete[d].session] = None
    /\ \A u \in Update : update[u].resp = 404 => table[update[u].session] = None

\* A session-data update, its retries included, changes the fields it names
\* and no other: concurrent updates of different fields are both kept.
OthersKept ==
    [][\A s \in Session : \A f \in Field :
         /\ table[s] # None /\ table'[s] # None
         /\ table[s].sessionData # None
         /\ \/ table'[s].sessionData = None
            \/ table'[s].sessionData[f] # table[s].sessionData[f]
         => \E u \in Update : /\ update[u].pc = "apply" /\ update[u].session = s
                              /\ f \in update[u].set \cup update[u].remove]_vars

\* Between the two updates of a request the session keeps its map, or is gone
\* altogether: no other request leaves a session for which the second update
\* would be refused.
MapStaysBetweenUpdates ==
    \A u \in Update : update[u].pc = "apply" =>
        LET item == table[update[u].session]
        IN  item = None \/ item.sessionData # None

\* A session that a client was told of is never written again once it is gone.
GoneForGood ==
    [][\A s \in Session : Known(s) /\ table[s] = None => table'[s] = None]_vars

\* Personal data is in the end removed from both tables and every replica,
\* the leftovers of requests that failed half-way included.
EventuallyErased ==
    \A s \in Session :
        create[s].pc # "idle" ~>
            [](table[s] = None /\ replica[s] = None /\ identity[s] = None)

\* Every update and deletion that was begun is answered.
RequestsAnswered ==
    /\ \A u \in Update : update[u].pc = "ensure" ~> update[u].pc = "done"
    /\ \A d \in DeleteCall : delete[d].pc = "sent" ~> delete[d].pc = "done"
    /\ \A s \in Session : create[s].pc = "identity" ~> create[s].pc = "done"

-----------------------------------------------------------------------------
(* The invariant these rest on.                                            *)

\* Saved after the session and for as long, an identity that belongs to a
\* session outlives it; a session is known only when all of it is saved.
Stored(s) ==
    LET item == table[s]
    IN  /\ create[s].pc = "idle" => item = None /\ identity[s] = None
        /\ Known(s) => create[s].pc = "done" /\ s \in audited
        /\ item # None =>
             /\ item.expiryDate \in Int /\ item.expiryDate <= clock + SessionTtl
             /\ identity[s] # None => item.expiryDate <= identity[s]
             /\ /\ create[s].pc = "audit" \/ Known(s)
                /\ create[s].claims /\ clock <= item.expiryDate
                => identity[s] # None

StoredInv == \A s \in Session : Stored(s)

\* Updates and deletions are about known sessions; only ended ones are answered.
CallInv ==
    /\ \A u \in Update :
         /\ update[u].pc # "idle" => update[u].session \in Session /\ Known(update[u].session)
         /\ update[u].pc # "done" => update[u].resp = None
    /\ \A d \in DeleteCall :
         /\ delete[d].pc # "idle" => delete[d].session \in Session /\ Known(delete[d].session)
         /\ delete[d].pc # "done" => delete[d].resp = None

\* Inductive.
LifecycleInv ==
    TypeOK /\ StoredInv /\ CallInv /\ ToldGoneMeansGone /\ MapStaysBetweenUpdates

\* Inductive together with LifecycleInv: what a session is when it is announced,
\* and that an update without fields is never applied.
AnnouncedInv ==
    /\ \A s \in Session :
         /\ table[s] # None => table[s].expiryDate \in Nat
         /\ table[s] # None /\ ~Known(s) => table[s].sessionData = None
         /\ create[s].pc = "identity" \/ identity[s] # None => create[s].claims
    /\ \A u \in Update : update[u].pc = "apply" => update[u].set \cup update[u].remove # {}

-----------------------------------------------------------------------------
(* What the two tables promise together, see SessionStore.                 *)
known   == {s \in Session : Known(s)}
live    == [s \in Session |->
              IF ~Known(s) \/ table[s] = None THEN None
              ELSE [data     |-> MapOrEmpty(table[s].sessionData),
                    deadline |-> table[s].expiryDate,
                    claims   |-> create[s].claims]]
person  == {s \in Session : Known(s) /\ identity[s] # None}
asked   == [u \in Update |->
              [pc      |-> IF update[u].pc \in {"ensure", "apply"} THEN "pending"
                           ELSE update[u].pc,
               session |-> update[u].session, set |-> update[u].set,
               remove  |-> update[u].remove, resp |-> update[u].resp]]
removal == [d \in DeleteCall |->
              [pc      |-> IF delete[d].pc = "sent" THEN "pending" ELSE delete[d].pc,
               session |-> delete[d].session, resp |-> delete[d].resp]]

Store == INSTANCE SessionStore WITH Ttl <- SessionTtl, now <- clock

\* Three writes in a row, two updates with retries, stale reads and two sweeps
\* implement the one store of SessionStore for a client that knows a session:
\* it is announced whole, updates are all or nothing, a 404 to an update is the
\* truth, and nothing but a deletion takes anything away before the deadline.
ImplementsStore == Store!Spec
=============================================================================
