--------------------------- MODULE NotifierProofs ---------------------------
(***************************************************************************)
(* The safety of Notifier, for every set of sinks, clients, workers and    *)
(* devices, and whatever the callbacks register and unregister.            *)
(*                                                                         *)
(* The invariant is inductive as the conjunction Inv: a callback cannot    *)
(* erase the node its loop stands on because only the owner of _adminLock  *)
(* changes the list during a Dispatch; erasing another node keeps the list *)
(* free of duplicates, so the iterator's node stays in it; and a node in   *)
(* the list carries a reference, so the sink it stands for is alive.       *)
(*                                                                         *)
(* The last section is about who waits for whom: for the lock, whose owner *)
(* waits for nobody, or for a querying sink and then for good.             *)
(***************************************************************************)
EXTENDS Notifier, ListLemmas

Inv == TypeOK /\ IteratorValid /\ Balanced

-----------------------------------------------------------------------------
(* The list operations.                                                    *)

LEMMA PositionIsNode ==
    ASSUME NEW s \in Listed
    PROVE  Position(s) \in DOMAIN notifications /\ notifications[Position(s)] = s
<1>1. \E i \in DOMAIN notifications : notifications[i] = s
  BY DEF Listed, ToSet
<1> QED
  BY <1>1 DEF Position

LEMMA FirstIsNode ==
    ASSUME notifications \in Seq(Sinks)
    PROVE  First \in Listed \cup {End}
<1>1. CASE notifications = <<>>
  BY <1>1 DEF First
<1>2. CASE notifications # <<>>
  <2>1. 1 \in DOMAIN notifications
    BY <1>2
  <2> QED
    BY <1>2, <2>1 DEF First, Listed, ToSet
<1> QED
  BY <1>1, <1>2

LEMMA NodeAfterIsNode ==
    ASSUME notifications \in Seq(Sinks), NEW s \in Listed
    PROVE  NodeAfter(s) \in Listed \cup {End}
<1>1. Position(s) \in 1..Len(notifications) /\ Len(notifications) \in Nat
  BY PositionIsNode
<1>2. CASE Position(s) = Len(notifications)
  BY <1>2 DEF NodeAfter
<1>3. CASE Position(s) # Len(notifications)
  <2>1. Position(s) + 1 \in DOMAIN notifications
    BY <1>1, <1>3
  <2> QED
    BY <1>3, <2>1 DEF NodeAfter, Listed, ToSet
<1> QED
  BY <1>2, <1>3

\* A callback and a client change the list by these two operations alone.
LEMMA AddSinkEffect ==
    ASSUME Inv, NEW s \in Sinks, AddSink(s)
    PROVE  /\ notifications' \in Seq(Sinks) /\ refs' \in [Sinks -> Nat]
           /\ joins' \in [Sinks -> Nat] /\ leaves' \in [Sinks -> Nat]
           /\ Listed' = Listed \cup {s}
           /\ Balanced'
<1>1. CASE s \in Listed
  BY <1>1 DEF AddSink, Inv, TypeOK, Balanced, listVars, Listed
<1>2. CASE s \notin Listed
  <2>1. /\ notifications' = Append(notifications, s)
        /\ refs' = [refs EXCEPT ![s] = @ + 1]
        /\ joins' = [joins EXCEPT ![s] = @ + 1]
        /\ leaves' = leaves
    BY <1>2 DEF AddSink
  <2>2. /\ IsInjective(notifications')
        /\ Listed' = Listed \cup {s}
    BY <1>2, <2>1, AppendNoDuplicates DEF Inv, TypeOK, Balanced, Listed
  <2>3. /\ refs \in [Sinks -> Nat] /\ joins \in [Sinks -> Nat]
        /\ leaves \in [Sinks -> Nat] /\ notifications \in Seq(Sinks)
        /\ \A t \in Sinks : /\ refs[t] = joins[t] - leaves[t]
                           /\ refs[t] = IF t \in Listed THEN 1 ELSE 0
    BY DEF Inv, TypeOK, Balanced
  <2>4. /\ refs' \in [Sinks -> Nat]
        /\ joins' \in [Sinks -> Nat] /\ leaves' \in [Sinks -> Nat]
    BY <2>1, <2>3
  <2>5. notifications' \in Seq(Sinks)
    BY <2>1, <2>3, AppendProperties
  <2>6. ASSUME NEW t \in Sinks
        PROVE  /\ refs'[t] = joins'[t] - leaves'[t]
               /\ refs'[t] = IF t \in Listed' THEN 1 ELSE 0
    <3>1. CASE t = s
      <4>1. refs[s] = 0 /\ refs'[s] = refs[s] + 1 /\ joins'[s] = joins[s] + 1
        BY <1>2, <2>1, <2>3
      <4> QED
        BY <2>1, <2>2, <2>3, <3>1, <4>1
    <3>2. CASE t # s
      <4>1. refs'[t] = refs[t] /\ joins'[t] = joins[t]
        BY <2>1, <2>3, <3>2
      <4> QED
        BY <2>1, <2>2, <2>3, <3>2, <4>1
    <3> QED
      BY <3>1, <3>2
  <2> QED
    BY <2>2, <2>4, <2>5, <2>6 DEF Balanced
<1> QED
  BY <1>1, <1>2

LEMMA RemoveSinkEffect ==
    ASSUME Inv, NEW s \in Sinks, RemoveSink(s)
    PROVE  /\ notifications' \in Seq(Sinks) /\ refs' \in [Sinks -> Nat]
           /\ joins' \in [Sinks -> Nat] /\ leaves' \in [Sinks -> Nat]
           /\ Listed' = Listed \ {s}
           /\ Balanced'
<1>1. CASE s \notin Listed
  BY <1>1 DEF RemoveSink, Inv, TypeOK, Balanced, listVars, Listed
<1>2. CASE s \in Listed
  <2>1. /\ notifications' = RemoveAt(notifications, Position(s))
        /\ refs' = [refs EXCEPT ![s] = @ - 1]
        /\ leaves' = [leaves EXCEPT ![s] = @ + 1]
        /\ joins' = joins
    BY <1>2 DEF RemoveSink
  <2>2. Position(s) \in DOMAIN notifications /\ notifications[Position(s)] = s
    BY <1>2, PositionIsNode
  <2>3. /\ IsInjective(notifications')
        /\ Listed' = Listed \ {s}
    BY <2>1, <2>2, EraseNoDuplicates, ZenonT(40) DEF Inv, TypeOK, Balanced, Listed
  <2>4. /\ refs \in [Sinks -> Nat] /\ joins \in [Sinks -> Nat]
        /\ leaves \in [Sinks -> Nat] /\ notifications \in Seq(Sinks)
        /\ \A t \in Sinks : /\ refs[t] = joins[t] - leaves[t]
                           /\ refs[t] = IF t \in Listed THEN 1 ELSE 0
    BY DEF Inv, TypeOK, Balanced
  <2>5. /\ refs' \in [Sinks -> Nat]
        /\ joins' \in [Sinks -> Nat] /\ leaves' \in [Sinks -> Nat]
    BY <1>2, <2>1, <2>4
  <2>6. notifications' \in Seq(Sinks)
    BY <2>1, <2>2, <2>4, EraseProperties
  <2>7. ASSUME NEW t \in Sinks
        PROVE  /\ refs'[t] = joins'[t] - leaves'[t]
               /\ refs'[t] = IF t \in Listed' THEN 1 ELSE 0
    BY <1>2, <2>1, <2>3, <2>4, SMTT(40)
  <2> QED
    BY <2>3, <2>5, <2>6, <2>7 DEF Balanced
<1> QED
  BY <1>1, <1>2

-----------------------------------------------------------------------------
(* The inductive invariant.                                                *)

LEMMA InitInv == Init => Inv
<1> SUFFICES ASSUME Init PROVE Inv
  OBVIOUS
<1>1. TypeOK
  BY DEF Init, TypeOK
<1>2. IteratorValid
  BY DEF Init, IteratorValid, InDispatch
<1>3. Balanced
  BY DEF Init, Balanced, Listed, ToSet, IsInjective
<1> QED
  BY <1>1, <1>2, <1>3 DEF Inv

LEMMA HotPlugInv ==
    ASSUME Inv, NEW d \in Devices, NEW event \in Events,
           HotPlugCallback(event, d), plugged' \subseteq Devices
    PROVE  Inv'
<1>1. UNCHANGED <<workerVars, listVars, callVars, delivered>>
  BY DEF HotPlugCallback
<1>2. submitted' \in Seq(Job) /\ queue' \in Seq(Job)
  <2>1. submitted \in Seq(Job) /\ queue \in Seq(Job)
    BY DEF Inv, TypeOK
  <2>2. CASE dispatchEvent(event, d)
    <3> DEFINE j == [id |-> Len(submitted) + 1, event |-> event, device |-> d]
    <3>1. Len(submitted) + 1 \in 1..MaxEvents
      BY <2>1, NotifierAssumption DEF HotPlugCallback
    <3>2. j \in Job
      BY <3>1 DEF Job
    <3>3. submitted' = Append(submitted, j) /\ queue' = Append(queue, j)
      BY <2>2 DEF dispatchEvent
    <3> QED
      BY <2>1, <3>2, <3>3, AppendProperties
  <2>3. CASE UNCHANGED <<submitted, queue>>
    BY <2>1, <2>3
  <2> QED
    BY <2>2, <2>3 DEF HotPlugCallback
<1>3. TypeOK'
  BY <1>1, <1>2 DEF Inv, TypeOK, workerVars, listVars, callVars
<1>4. IteratorValid' /\ Balanced'
  BY <1>1 DEF Inv, IteratorValid, Balanced, InDispatch, Listed, workerVars, listVars
<1> QED
  BY <1>3, <1>4 DEF Inv

LEMMA TakeJobInv == ASSUME Inv, NEW w \in Workers, TakeJob(w) PROVE Inv'
<1>1. /\ Head(queue) \in Job /\ Tail(queue) \in Seq(Job)
  BY HeadTailProperties DEF TakeJob, Inv, TypeOK
<1>2. TypeOK'
  BY <1>1 DEF TakeJob, Inv, TypeOK, eventVars, listVars, callVars
<1>3. IteratorValid'
  BY DEF TakeJob, Inv, TypeOK, IteratorValid, InDispatch, Listed, listVars
<1>4. Balanced'
  BY DEF TakeJob, Inv, Balanced, Listed, listVars
<1> QED
  BY <1>2, <1>3, <1>4 DEF Inv

LEMMA DispatchLockInv == ASSUME Inv, NEW w \in Workers, DispatchLock(w) PROVE Inv'
<1>1. First \in Listed \cup {End}
  BY FirstIsNode DEF Inv, TypeOK
<1>2. Listed \subseteq Sinks
  BY DEF Inv, TypeOK, Listed, ToSet
<1>3. TypeOK'
  BY <1>1, <1>2 DEF DispatchLock, Inv, TypeOK, eventVars, listVars, callVars
<1>4. ASSUME NEW v \in Workers, InDispatch(v)' PROVE v = w
  BY <1>4, NotifierAssumption DEF DispatchLock, Inv, TypeOK, IteratorValid, InDispatch
<1>5. IteratorValid'
  BY <1>1, <1>4 DEF DispatchLock, Inv, TypeOK, IteratorValid, InDispatch, Listed, listVars
<1>6. Balanced'
  BY DEF DispatchLock, Inv, Balanced, Listed, listVars
<1> QED
  BY <1>3, <1>5, <1>6 DEF Inv

LEMMA DispatchCallInv == ASSUME Inv, NEW w \in Workers, DispatchCall(w) PROVE Inv'
<1>1. index[w] \in Sinks /\ joins[index[w]] \in Nat /\ job[w] \in Job \cup {NoJob}
  BY DEF DispatchCall, Inv, TypeOK
<1>2. delivered' \in [Sinks -> Seq([job : Job \cup {NoJob}, join : Nat])]
  <2> DEFINE Entry == [job : Job \cup {NoJob}, join : Nat]
             e == [job |-> job[w], join |-> joins[index[w]]]
  <2>1. e \in Entry /\ delivered \in [Sinks -> Seq(Entry)]
    BY <1>1 DEF Inv, TypeOK
  <2>2. delivered' = [delivered EXCEPT ![index[w]] = Append(@, e)]
    BY DEF DispatchCall
  <2> HIDE DEF Entry, e
  <2>3. Append(delivered[index[w]], e) \in Seq(Entry)
    BY <1>1, <2>1, AppendProperties
  <2>4. delivered' \in [Sinks -> Seq(Entry)]
    BY <1>1, <2>1, <2>2, <2>3
  <2> QED
    BY <2>4 DEF Entry
<1>3. call' \in [Callers -> Calls \cup {Idle}]
  BY <1>1 DEF DispatchCall, Inv, TypeOK, Callers, Calls
<1>4. TypeOK'
  BY <1>2, <1>3 DEF DispatchCall, Inv, TypeOK, eventVars, listVars
<1>5. IteratorValid'
  BY DEF DispatchCall, Inv, TypeOK, IteratorValid, InDispatch, Listed, listVars
<1>6. Balanced'
  BY DEF DispatchCall, Inv, Balanced, Listed, listVars
<1> QED
  BY <1>4, <1>5, <1>6 DEF Inv

LEMMA DispatchReturnInv == ASSUME Inv, NEW w \in Workers, DispatchReturn(w) PROVE Inv'
<1>1. index[w] \in Listed
  BY DEF DispatchReturn, Inv, IteratorValid, InDispatch
<1>2. NodeAfter(index[w]) \in Listed \cup {End}
  BY <1>1, NodeAfterIsNode DEF Inv, TypeOK
<1>3. Listed \subseteq Sinks
  BY DEF Inv, TypeOK, Listed, ToSet
<1>4. TypeOK'
  BY <1>2, <1>3 DEF DispatchReturn, Inv, TypeOK, eventVars, listVars, callVars
<1>5. IteratorValid'
  BY <1>2 DEF DispatchReturn, Inv, TypeOK, IteratorValid, InDispatch, Listed, listVars
<1>6. Balanced'
  BY DEF DispatchReturn, Inv, Balanced, Listed, listVars
<1> QED
  BY <1>4, <1>5, <1>6 DEF Inv

LEMMA DispatchUnlockInv == ASSUME Inv, NEW w \in Workers, DispatchUnlock(w) PROVE Inv'
<1>1. TypeOK'
  BY DEF DispatchUnlock, Inv, TypeOK, eventVars, listVars, callVars
<1>2. ASSUME NEW v \in Workers PROVE ~InDispatch(v)'
  BY DEF DispatchUnlock, Inv, TypeOK, IteratorValid, InDispatch
<1>3. IteratorValid'
  BY <1>2 DEF IteratorValid
<1>4. Balanced'
  BY DEF DispatchUnlock, Inv, Balanced, Listed, listVars
<1> QED
  BY <1>1, <1>3, <1>4 DEF Inv

LEMMA NestedCallInv == ASSUME Inv, NEW w \in Workers, NestedCall(w) PROVE Inv'
<1>1. PICK s \in Sinks : (s \in owned /\ AddSink(s)) \/ (s # index[w] /\ RemoveSink(s))
  BY DEF NestedCall
<1>2. /\ notifications' \in Seq(Sinks) /\ refs' \in [Sinks -> Nat]
      /\ joins' \in [Sinks -> Nat] /\ leaves' \in [Sinks -> Nat]
      /\ Balanced'
      /\ Listed' = Listed \cup {s} \/ (s # index[w] /\ Listed' = Listed \ {s})
  BY <1>1, AddSinkEffect, RemoveSinkEffect
<1>3. TypeOK'
  <2>1. calls' \in Nat
    BY DEF NestedCall, Inv, TypeOK
  <2>2. UNCHANGED <<eventVars, queue, workerVars, owned, call, delivered>>
    BY DEF NestedCall
  <2> QED
    BY <1>2, <2>1, <2>2 DEF Inv, TypeOK, eventVars, workerVars
<1>4. ASSUME NEW v \in Workers, InDispatch(v) PROVE v = w
  BY <1>4 DEF NestedCall, Inv, IteratorValid, InDispatch
<1>5. IteratorValid'
  BY <1>2, <1>4 DEF NestedCall, Inv, IteratorValid, InDispatch, workerVars
<1> QED
  BY <1>2, <1>3, <1>5 DEF Inv

LEMMA ServeInv == ASSUME Inv, NEW c \in Callers, Serve(c) PROVE Inv'
<1>1. /\ call[c] \in Calls /\ call' = [call EXCEPT ![c] = Idle] /\ adminLock = Free
      /\ UNCHANGED <<eventVars, queue, workerVars, owned, calls, delivered>>
  BY DEF Serve, Register, Unregister, Query, Locked, Inv, TypeOK
<1>2. \/ \E s \in Sinks : AddSink(s) \/ RemoveSink(s)
      \/ UNCHANGED listVars
  BY <1>1 DEF Serve, Register, Unregister, Query, Locked, Calls
<1>3. /\ notifications' \in Seq(Sinks) /\ refs' \in [Sinks -> Nat]
      /\ joins' \in [Sinks -> Nat] /\ leaves' \in [Sinks -> Nat]
      /\ Balanced'
  <2>1. CASE UNCHANGED listVars
    BY <2>1 DEF Inv, TypeOK, Balanced, Listed, listVars
  <2>2. CASE \E s \in Sinks : AddSink(s) \/ RemoveSink(s)
    BY <2>2, AddSinkEffect, RemoveSinkEffect
  <2> QED
    BY <1>2, <2>1, <2>2
<1>4. TypeOK'
  BY <1>1, <1>3 DEF Inv, TypeOK, eventVars, workerVars
<1>5. IteratorValid'
  BY <1>1, NotifierAssumption DEF Inv, IteratorValid, InDispatch, workerVars
<1> QED
  BY <1>3, <1>4, <1>5 DEF Inv

LEMMA NextInv == Inv /\ [Next]_vars => Inv'
<1> SUFFICES ASSUME Inv, [Next]_vars PROVE Inv'
  OBVIOUS
<1>1. CASE \E d \in Devices : Attached(d) \/ Detached(d)
  <2>1. PICK d \in Devices : Attached(d) \/ Detached(d)
    BY <1>1
  <2>2. plugged' \subseteq Devices
    BY <2>1 DEF Attached, Detached, Inv, TypeOK
  <2> QED
    BY <2>1, <2>2, HotPlugInv DEF Attached, Detached, Events
<1>2. CASE \E w \in Workers : Work(w) \/ NestedCall(w)
  BY <1>2, TakeJobInv, DispatchLockInv, DispatchCallInv, DispatchReturnInv,
     DispatchUnlockInv, NestedCallInv DEF Work
<1>3. CASE \E c \in Clients : Enter(c)
  <2>1. PICK c \in Clients : Enter(c)
    BY <1>3
  <2>2. TypeOK'
    <3>1. calls' \in Nat
      BY <2>1 DEF Enter, Inv, TypeOK
    <3>2. call' \in [Callers -> Calls \cup {Idle}]
      BY <2>1 DEF Enter, Inv, TypeOK, Callers
    <3>3. UNCHANGED <<eventVars, queue, workerVars, listVars, owned, delivered>>
      BY <2>1 DEF Enter
    <3> QED
      BY <3>1, <3>2, <3>3 DEF Inv, TypeOK, eventVars, workerVars, listVars
  <2>3. IteratorValid' /\ Balanced'
    BY <2>1 DEF Enter, Inv, IteratorValid, Balanced, InDispatch, Listed, workerVars, listVars
  <2> QED
    BY <2>2, <2>3 DEF Inv
<1>4. CASE \E c \in Callers : Serve(c)
  BY <1>4, ServeInv
<1>5. CASE \E s \in Sinks : Disown(s)
  <2>1. PICK s \in Sinks : Disown(s)
    BY <1>5
  <2>2. TypeOK'
    BY <2>1 DEF Disown, Inv, TypeOK, eventVars, workerVars, listVars
  <2>3. IteratorValid' /\ Balanced'
    BY <2>1 DEF Disown, Inv, IteratorValid, Balanced, InDispatch, Listed, workerVars, listVars
  <2> QED
    BY <2>2, <2>3 DEF Inv
<1>6. CASE UNCHANGED vars
  <2>1. TypeOK'
    BY <1>6 DEF Inv, TypeOK, vars, eventVars, workerVars, listVars, callVars
  <2>2. IteratorValid' /\ Balanced'
    BY <1>6 DEF Inv, IteratorValid, Balanced, InDispatch, Listed, vars, workerVars, listVars
  <2> QED
    BY <2>1, <2>2 DEF Inv
<1> QED
  BY <1>1, <1>2, <1>3, <1>4, <1>5, <1>6 DEF Next, Quiescent

\* Inv holds in every state, for any sinks, clients, workers and devices.
THEOREM Invariance == Spec => []Inv
  BY InitInv, NextInv, PTL DEF Spec

-----------------------------------------------------------------------------
(* What a user of the plugin relies on.                                    *)

\* Every variable keeps its type; in particular no reference count of a sink
\* ever falls below zero.
THEOREM TypeCorrect == Spec => []TypeOK
<1>1. Inv => TypeOK
  BY DEF Inv
<1> QED
  BY <1>1, Invariance, PTL

\* Dispatch never stands on a node which has been erased, and only while it
\* holds _adminLock.
THEOREM IteratorSafe == Spec => []IteratorValid
<1>1. Inv => IteratorValid
  BY DEF Inv
<1> QED
  BY <1>1, Invariance, PTL

\* A sink is listed once at most, and each registration holds one reference
\* which exactly one Unregister gives back.
THEOREM ReferencesBalance == Spec => []Balanced
<1>1. Inv => Balanced
  BY DEF Inv
<1> QED
  BY <1>1, Invariance, PTL

\* Dispatch never calls a sink whose last reference is gone.
THEOREM CallbackSafe == Spec => []CalledSinkAlive
<1>1. Inv => CalledSinkAlive
  <2> SUFFICES ASSUME Inv, NEW w \in Workers, pc[w] = "callback"
               PROVE  refs[index[w]] > 0
    BY DEF CalledSinkAlive
  <2>1. index[w] \in Listed /\ index[w] \in Sinks
    BY NotifierAssumption DEF Inv, TypeOK, IteratorValid, InDispatch
  <2> QED
    BY <2>1 DEF Inv, Balanced
<1> QED
  BY <1>1, Invariance, PTL

-----------------------------------------------------------------------------
(* Who waits for whom: what of CallsReturn is a matter of safety.          *)

\* The guards of Work(w): what worker w needs for its next step.
CanWork(w) ==
    \/ pc[w] = "idle" /\ queue # <<>>
    \/ pc[w] = "dispatch" /\ adminLock = Free
    \/ pc[w] = "loop"
    \/ pc[w] = "callback" /\ call[index[w]] = Idle

\* Worker w is in the callback of a sink which makes a call before it returns.
AwaitsAnswer(w) == pc[w] = "callback" /\ index[w] \in Querying

\* The owner of _adminLock is dispatching; of the sinks, only a querying one makes a
\* call, and it has made it when its callback runs.
Waiters ==
    /\ adminLock # Free => InDispatch(adminLock)
    /\ \A s \in Sinks \ Querying : call[s] = Idle
    /\ \A w \in Workers : AwaitsAnswer(w) => call[index[w]] # Idle

LEMMA InitWaiters == Init => Waiters
<1> SUFFICES ASSUME Init PROVE Waiters
  OBVIOUS
<1>1. \A w \in Workers : ~AwaitsAnswer(w)
  BY DEF Init, AwaitsAnswer
<1>2. \A s \in Sinks : call[s] = Idle
  BY DEF Init, Callers
<1>3. adminLock = Free
  BY DEF Init
<1> QED
  BY <1>1, <1>2, <1>3 DEF Waiters

LEMMA WorkWaiters ==
    ASSUME Inv, Waiters, NEW w \in Workers, Work(w) \/ NestedCall(w) PROVE Waiters'
<1> USE DEF Waiters, AwaitsAnswer, InDispatch
<1>1. CASE TakeJob(w)
  BY <1>1 DEF TakeJob, Inv, TypeOK, callVars
<1>2. CASE DispatchLock(w)
  BY <1>2 DEF DispatchLock, Inv, TypeOK, callVars
<1>3. CASE DispatchCall(w)
  <2>1. /\ pc' = [pc EXCEPT ![w] = "callback"] /\ UNCHANGED <<index, adminLock>>
        /\ call' = IF index[w] \in Querying
                     THEN [call EXCEPT ![index[w]] = [op |-> "Query"]] ELSE call
        /\ index[w] \in Sinks
    BY <1>3 DEF DispatchCall, Inv, TypeOK
  <2>2. Idle # [op |-> "Query"]
    BY NotifierAssumption
  <2>3. adminLock' # Free => InDispatch(adminLock)'
    BY <2>1 DEF Inv, TypeOK
  <2>4. \A s \in Sinks \ Querying : call'[s] = Idle
    BY <2>1 DEF Inv, TypeOK
  <2>5. ASSUME NEW v \in Workers, AwaitsAnswer(v)' PROVE call'[index'[v]] # Idle
    BY <2>1, <2>2, <2>5 DEF Inv, TypeOK, Callers
  <2> QED
    BY <2>3, <2>4, <2>5
<1>4. CASE DispatchReturn(w)
  BY <1>4 DEF DispatchReturn, Inv, TypeOK, callVars
<1>5. CASE DispatchUnlock(w)
  BY <1>5 DEF DispatchUnlock, Inv, TypeOK, callVars
<1>6. CASE NestedCall(w)
  BY <1>6 DEF NestedCall, workerVars
<1> QED
  BY <1>1, <1>2, <1>3, <1>4, <1>5, <1>6 DEF Work

LEMMA NextWaiters == ASSUME Inv, Waiters, [Next]_vars PROVE Waiters'
<1> USE DEF Waiters, AwaitsAnswer, InDispatch
<1>1. CASE \E d \in Devices : Attached(d) \/ Detached(d)
  BY <1>1 DEF Attached, Detached, HotPlugCallback, workerVars, callVars
<1>2. CASE \E c \in Clients : Enter(c)
  <2>1. PICK c \in Clients : Enter(c)
    BY <1>2
  <2>2. \A s \in Sinks : call'[s] = call[s]
    BY <2>1, NotifierAssumption DEF Enter, Inv, TypeOK, Callers
  <2> QED
    BY <2>1, <2>2, NotifierAssumption DEF Enter, workerVars
<1>3. CASE \E c \in Callers : Serve(c)
  \* A call is served only while nobody dispatches.
  <2>1. PICK c \in Callers : Serve(c)
    BY <1>3
  <2>2. adminLock = Free /\ call' = [call EXCEPT ![c] = Idle] /\ UNCHANGED workerVars
    BY <2>1 DEF Serve, Register, Unregister, Query, Locked
  <2>3. \A w \in Workers : ~AwaitsAnswer(w)
    BY <2>2, NotifierAssumption DEF Inv, IteratorValid
  <2> QED
    BY <2>2, <2>3 DEF Inv, TypeOK, Callers, workerVars
<1>4. CASE (\E s \in Sinks : Disown(s)) \/ UNCHANGED vars
  BY <1>4 DEF Disown, vars, workerVars, callVars
<1> QED
  BY <1>1, WorkWaiters, <1>2, <1>3, <1>4 DEF Next, Quiescent

LEMMA WaitersInvariance == Spec => [](Inv /\ Waiters)
<1>1. Init => Inv /\ Waiters
  BY InitInv, InitWaiters
<1>2. Inv /\ Waiters /\ [Next]_vars => (Inv /\ Waiters)'
  BY NextInv, NextWaiters
<1> QED
  BY <1>1, <1>2, PTL DEF Spec

\* Nobody waits in a circle, but for querying sinks: the owner of _adminLock, for which
\* every call and every other Dispatch waits, needs nothing of anybody for its next step
\* unless it is in the callback of a querying sink. Re-entrant callbacks are no exception.
THEOREM LockOwnerProceeds ==
    Spec => [](adminLock # Free =>
                 adminLock \in Workers /\ (CanWork(adminLock) \/ AwaitsAnswer(adminLock)))
<1>1. ASSUME Inv, Waiters, adminLock # Free
      PROVE  adminLock \in Workers /\ (CanWork(adminLock) \/ AwaitsAnswer(adminLock))
  <2>1. adminLock \in Workers /\ InDispatch(adminLock)
    BY <1>1 DEF Inv, TypeOK, Waiters
  <2>2. CASE pc[adminLock] = "loop"
    BY <2>1, <2>2 DEF CanWork
  <2>3. CASE pc[adminLock] = "callback"
    <3>1. index[adminLock] \in Sinks
      BY <1>1, <2>1, <2>3 DEF Inv, TypeOK, IteratorValid
    <3> QED
      BY <1>1, <2>1, <2>3, <3>1 DEF CanWork, AwaitsAnswer, Waiters
  <2> QED
    BY <2>1, <2>2, <2>3 DEF InDispatch
<1> QED
  BY <1>1, WaitersInvariance, PTL

\* The exception is final: the call which a sink in another process makes from its
\* callback is never answered, so the worker stays in the callback and keeps the lock,
\* in every instance and not only in that of notifier_remote_query.
THEOREM QueryNeverAnswered ==
    ASSUME NEW w \in Workers
    PROVE  Spec => [](AwaitsAnswer(w) => [](AwaitsAnswer(w) /\ adminLock = w))
<1> DEFINE Stuck == AwaitsAnswer(w) /\ adminLock = w
<1>1. Inv /\ AwaitsAnswer(w) => Stuck
  BY DEF Inv, IteratorValid, InDispatch, AwaitsAnswer
<1>2. ASSUME Inv, Waiters, Inv', Stuck, [Next]_vars PROVE Stuck'
  <2>1. call[index[w]] # Idle
    BY <1>2 DEF Waiters
  <2>2. AwaitsAnswer(w)'
    <3>1. CASE \E v \in Workers : Work(v) \/ NestedCall(v)
      <4>1. PICK v \in Workers : Work(v) \/ NestedCall(v)
        BY <3>1
      <4>2. CASE v = w
        BY <1>2, <2>1, <4>1, <4>2
        DEF Work, TakeJob, DispatchLock, DispatchCall, DispatchReturn, DispatchUnlock,
            NestedCall, AwaitsAnswer, workerVars
      <4>3. CASE v # w
        BY <1>2, <4>1, <4>3
        DEF Work, TakeJob, DispatchLock, DispatchCall, DispatchReturn, DispatchUnlock,
            NestedCall, AwaitsAnswer, workerVars, Inv, TypeOK
      <4> QED
        BY <4>2, <4>3
    <3>2. CASE \/ \E d \in Devices : Attached(d) \/ Detached(d)
               \/ \E c \in Clients : Enter(c)
               \/ \E c \in Callers : Serve(c)
               \/ \E s \in Sinks : Disown(s)
               \/ UNCHANGED vars
      BY <1>2, <3>2
      DEF Attached, Detached, HotPlugCallback, Enter, Serve, Register, Unregister, Query,
          Locked, Disown, vars, AwaitsAnswer, workerVars
    <3> QED
      BY <1>2, <3>1, <3>2 DEF Next, Quiescent
  <2> QED
    BY <1>2, <2>2 DEF Inv, IteratorValid, InDispatch, AwaitsAnswer
<1>3. Inv /\ Waiters /\ (Inv /\ Waiters)' /\ Stuck /\ [Next]_vars => Stuck'
  BY <1>2
<1> HIDE DEF Stuck
<1>4. Spec => [](AwaitsAnswer(w) => []Stuck)
  BY <1>1, <1>3, WaitersInvariance, PTL DEF Spec
<1> QED
  BY <1>4 DEF Stuck
=============================================================================
