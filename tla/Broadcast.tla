----------------------------- MODULE Broadcast -----------------------------
(***************************************************************************)
(* What the notification path promises, without threads, lock or iterator: *)
(* events are submitted, sinks join and leave, and an event which is       *)
(* waiting is delivered to every member at once. A waiting event is        *)
(* delivered exactly once, to whoever is a member at that moment; events   *)
(* may overtake each other, but all sinks then see the same order.         *)
(***************************************************************************)
EXTENDS Sequences

CONSTANTS Sinks, Jobs

VARIABLES
    issued,    \* the events submitted so far
    waiting,   \* those not delivered yet
    members,   \* the sinks registered
    inbox      \* the events each sink has been given, in order

vars == <<issued, waiting, members, inbox>>

Init ==
    /\ issued = {} /\ waiting = {}
    /\ members = {}
    /\ inbox = [s \in Sinks |-> <<>>]

Submit(j) ==
    /\ j \notin issued
    /\ issued' = issued \cup {j}
    /\ waiting' = waiting \cup {j}
    /\ UNCHANGED <<members, inbox>>

Join(s)  == members' = members \cup {s} /\ UNCHANGED <<issued, waiting, inbox>>
Leave(s) == members' = members \ {s}    /\ UNCHANGED <<issued, waiting, inbox>>

Deliver(j) ==
    /\ j \in waiting
    /\ waiting' = waiting \ {j}
    /\ inbox' = [s \in Sinks |-> IF s \in members THEN Append(inbox[s], j)
                                                  ELSE inbox[s]]
    /\ UNCHANGED <<issued, members>>

Next ==
    \/ \E j \in Jobs : Submit(j) \/ Deliver(j)
    \/ \E s \in Sinks : Join(s) \/ Leave(s)

Spec == Init /\ [][Next]_vars

\* A waiting event is delivered in the end.
FairSpec == Spec /\ \A j \in Jobs : WF_vars(Deliver(j))
=============================================================================
