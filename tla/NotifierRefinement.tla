------------------------- MODULE NotifierRefinement -------------------------
(***************************************************************************)
(* The notification path implements Broadcast when no callback changes the *)
(* list it is called from (Reentrant = {}). A Dispatch takes effect where  *)
(* it takes _adminLock: from then on nobody can join or leave before it is *)
(* over, so the sinks it has yet to call count as having the event.        *)
(***************************************************************************)
EXTENDS Notifier

\* The sinks from node s to the end of the list.
From(s) == {t \in Listed : Position(t) >= Position(s)}

\* The sinks the Dispatch of w has still to call.
ToCall(w) ==
    IF index[w] = End THEN {}
    ELSE CASE pc[w] = "loop"     -> From(index[w])
           [] pc[w] = "callback" -> From(index[w]) \ {index[w]}
           [] OTHER              -> {}

Heard(s) == [i \in DOMAIN delivered[s] |-> delivered[s][i].job]

\* The events no Dispatch has taken the lock for.
Waiting == ToSet(queue) \cup {job[w] : w \in {v \in Workers : pc[v] = "dispatch"}}

Inbox == [s \in Sinks |->
            IF adminLock # Free /\ s \in ToCall(adminLock)
              THEN Append(Heard(s), job[adminLock]) ELSE Heard(s)]

Abstract == INSTANCE Broadcast WITH
    Jobs    <- Job,
    issued  <- ToSet(submitted),
    waiting <- Waiting,
    members <- Listed,
    inbox   <- Inbox

\* The lock, the iterator and the worker pool together deliver each event at one
\* moment to exactly the sinks registered then.
ImplementsBroadcast == Abstract!Spec

\* And every submitted event is delivered in the end.
ImplementsFairBroadcast == Abstract!FairSpec
=============================================================================
