----------------------- MODULE AuthorizationCodeGrant -----------------------
(***************************************************************************)
(* What a client and a relying party may count on, with no requests in     *)
(* flight, no replicas and no lost answers: a session offers at most one   *)
(* authorization code; a code is offered no more often than it is tried,   *)
(* and each offer is spent at most once; a code that has not lapsed is     *)
(* never replaced; and a closed session offers nothing more.  A code is    *)
(* tried Tries times at most: with Tries = 1 it is granted once and sold   *)
(* once.                                                                   *)
(***************************************************************************)
EXTENDS Integers

CONSTANTS Session, Code, None, Ttl, Tries

VARIABLES now,      \* seconds
          status,   \* "new", "open" or "closed" for every session
          offer,    \* the code a session offers with its deadline, or None
          used,     \* how often a code has been tried
          sold      \* how many tokens a code has been exchanged for

vars == <<now, status, offer, used, sold>>

Init ==
    /\ now = 0
    /\ status = [s \in Session |-> "new"]
    /\ offer = [s \in Session |-> None]
    /\ used = [c \in Code |-> 0]
    /\ sold = [c \in Code |-> 0]

Open(s) ==
    /\ status[s] = "new"
    /\ status' = [status EXCEPT ![s] = "open"]
    /\ UNCHANGED <<now, offer, used, sold>>

Try(c) ==
    /\ used[c] < Tries
    /\ used' = [used EXCEPT ![c] = @ + 1]

\* A new code takes the place of none, or of one whose deadline has passed.
Grant(s, c) ==
    /\ Try(c)
    /\ status[s] = "open"
    /\ offer[s] = None \/ offer[s].deadline < now
    /\ \E d \in Ttl .. now + Ttl :
           offer' = [offer EXCEPT ![s] = [code |-> c, deadline |-> d]]
    /\ UNCHANGED <<now, status, sold>>

\* A try that grants nothing.
Waste(c) ==
    /\ Try(c)
    /\ UNCHANGED <<now, status, offer, sold>>

\* Whoever spends a code takes it off offer.  A buyer that spends the same code
\* again, when it is offered again, has no second token of it.
Spend(s) ==
    LET c == offer[s].code
    IN  /\ offer[s] # None
        /\ offer' = [offer EXCEPT ![s] = None]
        /\ \/ sold' = [sold EXCEPT ![c] = @ + 1]
           \/ sold[c] > 0 /\ sold' = sold
        /\ UNCHANGED <<now, status, used>>

Close(s) ==
    /\ status[s] = "open"
    /\ status' = [status EXCEPT ![s] = "closed"]
    /\ offer' = [offer EXCEPT ![s] = None]
    /\ UNCHANGED <<now, used, sold>>

Tick ==
    /\ now' = now + 1
    /\ UNCHANGED <<status, offer, used, sold>>

Next ==
    \/ \E s \in Session : \/ Open(s) \/ Spend(s) \/ Close(s)
                          \/ \E c \in Code : Grant(s, c)
    \/ \E c \in Code : Waste(c)
    \/ Tick

Spec == Init /\ [][Next]_vars
=============================================================================
