---------------------------- MODULE SessionStore ----------------------------
(***************************************************************************)
(* What a client may count on who was told of a session: one store, where  *)
(* a session and its person are announced whole, changed by whole updates  *)
(* and removed together, and otherwise stay until the session's deadline.  *)
(* There is no second table, no second command and no command sent twice.  *)
(***************************************************************************)
EXTENDS Integers

CONSTANTS Session, Update, DeleteCall, Field, OddField, None, Ttl

VARIABLES now,      \* seconds
          known,    \* the sessions that were announced
          live,     \* the session's data, deadline and claims, None once gone
          person,   \* the known sessions whose person is stored
          asked,    \* the updates
          removal   \* the deletions

vars == <<now, known, live, person, asked, removal>>

NoData == [f \in Field |-> None]

Init ==
    /\ now = 0
    /\ known = {}
    /\ live = [s \in Session |-> None]
    /\ person = {}
    /\ asked = [u \in Update |-> [pc |-> "idle", session |-> None, set |-> {},
                                  remove |-> {}, resp |-> None]]
    /\ removal = [d \in DeleteCall |-> [pc |-> "idle", session |-> None, resp |-> None]]

\* Unless it has expired meanwhile, the person is there if the request had claims.
Announce(s) ==
    /\ s \notin known /\ known' = known \cup {s}
    /\ person' \in {person, person \cup {s}}
    /\ \/ live' = live
       \/ \E deadline \in 0 .. now + Ttl, claims \in BOOLEAN :
            /\ live' = [live EXCEPT ![s] =
                          [data |-> NoData, deadline |-> deadline, claims |-> claims]]
            /\ s \in person' => claims
            /\ claims /\ now <= deadline => s \in person'
    /\ UNCHANGED <<now, asked, removal>>

About(call, s)         == [call EXCEPT !.pc = "pending", !.session = s]
Answered(call, resp)   == [call EXCEPT !.pc = "done", !.resp = resp]
Answer(calls, c, resp) == [calls EXCEPT ![c] = Answered(@, resp)]

\* An update of some fields is taken up, or refused for its form.
Ask(u, s) ==
    /\ asked[u].pc = "idle" /\ s \in known
    /\ asked' = [asked EXCEPT ![u] = asked'[u]]
    /\ \/ asked'[u] = Answered(About(asked[u], s), 400)
       \/ /\ asked'[u] \in [pc : {"pending"}, session : {s}, resp : {None},
                             set : SUBSET Field, remove : SUBSET Field]
          /\ asked'[u].set \cap asked'[u].remove = {}
    /\ UNCHANGED <<now, known, live, person, removal>>

Named(u) == asked[u].set \cup asked[u].remove

\* All the fields at once; a client that gets no answer may see it done again.
Write(u) ==
    LET call == asked[u]
    IN  /\ call.pc = "pending" /\ live[call.session] # None
        /\ Named(u) # {} /\ Named(u) \cap OddField = {}
        /\ live' = [live EXCEPT ![call.session].data =
                      [f \in Field |-> IF f \in call.set THEN u
                                       ELSE IF f \in call.remove THEN None ELSE @[f]]]
        /\ asked' \in {asked, Answer(asked, u, 200), Answer(asked, u, 500)}
        /\ UNCHANGED <<now, known, person, removal>>

\* 404 is the truth; 400 is for an update that names no field.
Decline(u) ==
    /\ asked[u].pc = "pending"
    /\ \/ asked' = Answer(asked, u, 500)
       \/ live[asked[u].session] = None /\ asked' = Answer(asked, u, 404)
       \/ Named(u) = {} /\ asked' = Answer(asked, u, 400)
    /\ UNCHANGED <<now, known, live, person, removal>>

\* The 404 of a deletion need not be the truth.
AskRemoval(d, s) ==
    /\ removal[d].pc = "idle" /\ s \in known
    /\ \/ removal' = [removal EXCEPT ![d] = About(@, s)]
       \/ removal' = [removal EXCEPT ![d] = Answered(About(@, s), 404)]
    /\ UNCHANGED <<now, known, live, person, asked>>

\* Whoever is told 200 finds neither the session nor the person.
Remove(d) ==
    /\ removal[d].pc = "pending"
    /\ live' = [live EXCEPT ![removal[d].session] = None]
    /\ person' = person \ {removal[d].session}
    /\ removal' \in {removal, Answer(removal, d, 200), Answer(removal, d, 500)}
    /\ UNCHANGED <<now, known, asked>>

GiveUp(d) ==
    /\ removal[d].pc = "pending"
    /\ removal' = Answer(removal, d, 500)
    /\ UNCHANGED <<now, known, live, person, asked>>

Expire(s) ==
    /\ live[s] # None /\ live[s].deadline < now
    /\ live' = [live EXCEPT ![s] = None]
    /\ UNCHANGED <<now, known, person, asked, removal>>

\* Never before the session's deadline.
Forget(s) ==
    /\ live[s] # None => live[s].deadline < now
    /\ person' = person \ {s}
    /\ UNCHANGED <<now, known, live, asked, removal>>

Tick == now' = now + 1 /\ UNCHANGED <<known, live, person, asked, removal>>

Next ==
    \/ \E s \in Session : \/ Announce(s) \/ Expire(s) \/ Forget(s)
                          \/ \E u \in Update : Ask(u, s)
                          \/ \E d \in DeleteCall : AskRemoval(d, s)
    \/ \E u \in Update : Write(u) \/ Decline(u)
    \/ \E d \in DeleteCall : Remove(d) \/ GiveUp(d)
    \/ Tick

Spec == Init /\ [][Next]_vars
=============================================================================
