-------------------------- MODULE RefinementProofs --------------------------
(***************************************************************************)
(* Without callbacks which change the list, the notification path          *)
(* implements Broadcast, for any sinks, clients, workers and devices, and  *)
(* with callbacks which query the plugin.                                  *)
(*                                                                         *)
(* A Dispatch takes effect when it locks: Waiting loses its Job there, as  *)
(* a Job is in one place, and every listed sink is to be called. From then *)
(* on a sink has the event when it is still to be called or was called, so *)
(* calling it changes nothing; and to go on to the next node leaves to be  *)
(* called what is behind the last one, as each node has a place of its own.*)
(***************************************************************************)
EXTENDS NotifierRefinement, DeliveryProofs

\* A new Job has a number of its own.
Serial == \A j \in ToSet(submitted) : j.id \in Nat /\ j.id <= Len(submitted)

Entries == [job : Job \cup {NoJob}, join : Nat]

-----------------------------------------------------------------------------
(* The parts of the mapping.                                               *)

LEMMA InboxFrame ==
    ASSUME UNCHANGED <<pc, job, index, adminLock, notifications, delivered>>
    PROVE  Inbox' = Inbox
BY DEF Inbox, ToCall, From, Heard, Listed, Position

LEMMA WaitingFrame == ASSUME UNCHANGED <<queue, pc, job>> PROVE Waiting' = Waiting
BY DEF Waiting

LEMMA FreeInbox ==
    ASSUME adminLock = Free, adminLock' = Free, delivered' = delivered
    PROVE  Inbox' = Inbox
BY DEF Inbox, Heard

LEMMA HeldInbox ==
    ASSUME NEW w \in Workers, adminLock = w
    PROVE  Inbox = [s \in Sinks |-> IF s \in ToCall(w) THEN Append(Heard(s), job[w])
                                                      ELSE Heard(s)]
BY NotifierAssumption DEF Inbox

LEMMA ToSetAppend ==
    ASSUME NEW S, NEW l \in Seq(S), NEW x \in S
    PROVE  ToSet(Append(l, x)) = ToSet(l) \cup {x}
<1> DEFINE r == Append(l, x)
<1>1. /\ Len(r) = Len(l) + 1 /\ Len(l) \in Nat /\ r \in Seq(S)
      /\ \A k \in 1..Len(l) : r[k] = l[k]
      /\ r[Len(l) + 1] = x
  BY AppendProperties
<1>2. DOMAIN r = 1..(Len(l) + 1) /\ DOMAIN l = 1..Len(l)
  BY <1>1
<1>3. \A k \in 1..(Len(l) + 1) : k \in 1..Len(l) \/ k = Len(l) + 1
  BY <1>1
<1>4. Len(l) + 1 \in 1..(Len(l) + 1) /\ \A k \in 1..Len(l) : k \in 1..(Len(l) + 1)
  BY <1>1
<1> HIDE DEF r
<1>5. ToSet(r) \subseteq ToSet(l) \cup {x}
  BY <1>1, <1>2, <1>3 DEF ToSet
<1>6. x \in ToSet(r) /\ ToSet(l) \subseteq ToSet(r)
  BY <1>1, <1>2, <1>4 DEF ToSet
<1> QED
  BY <1>5, <1>6 DEF r

LEMMA HeadAndRest ==
    ASSUME NEW S, NEW l \in Seq(S), l # <<>>
    PROVE  ToSet(l) = ToSet(Tail(l)) \cup {Head(l)}
<1> DEFINE r == Tail(l)
<1>1. /\ r \in Seq(S) /\ Len(r) = Len(l) - 1 /\ Len(l) \in Nat \ {0}
      /\ \A k \in 1..Len(r) : r[k] = l[k + 1]
      /\ Head(l) = l[1]
  BY HeadTailProperties
<1>2. DOMAIN r = 1..(Len(l) - 1) /\ DOMAIN l = 1..Len(l)
  BY <1>1
<1> HIDE DEF r
<1>3. \A k \in 1..(Len(l) - 1) : k + 1 \in 1..Len(l)
  BY <1>1
<1>4. \A k \in 1..Len(l) : k = 1 \/ (k - 1 \in 1..(Len(l) - 1) /\ r[k - 1] = l[k])
  BY <1>1
<1>5. 1 \in 1..Len(l)
  BY <1>1
<1>6. ToSet(r) \subseteq ToSet(l) /\ Head(l) \in ToSet(l)
  BY <1>1, <1>2, <1>3, <1>5 DEF ToSet
<1>7. ASSUME NEW k \in 1..Len(l) PROVE l[k] \in ToSet(r) \cup {Head(l)}
  <2>1. CASE k = 1
    BY <1>1, <2>1
  <2>2. CASE k # 1
    BY <1>2, <1>4, <2>2 DEF ToSet
  <2> QED
    BY <2>1, <2>2
<1>8. ToSet(l) \subseteq ToSet(r) \cup {Head(l)}
  BY <1>2, <1>7 DEF ToSet
<1> QED
  BY <1>6, <1>8 DEF r

LEMMA FunctionIsSeq ==
    ASSUME NEW S, NEW n \in Nat, NEW f \in [1..n -> S]
    PROVE  f \in Seq(S) /\ Len(f) = n
BY SeqDef

\* A sink hears of its events in the order of its callbacks.
LEMMA HeardAppend ==
    ASSUME Inv, NEW w \in Workers, DispatchCall(w)
    PROVE  /\ Heard(index[w])' = Append(Heard(index[w]), job[w])
           /\ \A t \in Sinks \ {index[w]} : Heard(t)' = Heard(t)
<1> DEFINE s == index[w]
           n == Len(delivered[s])
           h == Heard(s)
<1>1. /\ n \in Nat
      /\ \A t \in Sinks \ {s} : delivered'[t] = delivered[t]
      /\ DOMAIN delivered[s] = 1..n /\ DOMAIN delivered'[s] = 1..(n + 1)
      /\ \A i \in 1..n : delivered'[s][i] = delivered[s][i]
      /\ delivered'[s][n + 1] = Entry(w, s)
      /\ s \in Sinks /\ delivered[s] \in Seq(Entries)
      /\ Entry(w, s) \in Entries
  BY CallAppends DEF Inv, TypeOK, Entries
<1>2. s' = s
  BY DEF DispatchCall
<1>3. job[w] \in Job \cup {NoJob}
  BY DEF Inv, TypeOK
<1>4. Entry(w, s).job = job[w]
  BY DEF Entry
<1> HIDE DEF s, n
<1>5. h = [i \in 1..n |-> delivered[s][i].job]
  BY <1>1 DEF Heard
<1>6. \A i \in 1..n : delivered[s][i].job \in Job \cup {NoJob}
  <2>1. \A i \in 1..n : delivered[s][i] \in Entries
    BY <1>1
  <2>2. \A x \in Entries : x.job \in Job \cup {NoJob}
    BY DEF Entries
  <2> QED
    BY <2>1, <2>2
<1>7. h \in Seq(Job \cup {NoJob}) /\ Len(h) = n
  <2>1. h \in [1..n -> Job \cup {NoJob}]
    BY <1>5, <1>6
  <2> HIDE DEF h
  <2> QED
    BY <1>1, <2>1, FunctionIsSeq
<1>8. Heard(s)' = [i \in 1..(n + 1) |-> delivered'[s][i].job]
  BY <1>1, <1>2 DEF Heard
<1>9. Append(h, job[w]) = [i \in 1..(n + 1) |-> IF i = n + 1 THEN job[w] ELSE h[i]]
  BY <1>1, <1>3, <1>7
<1>10. \A i \in 1..(n + 1) :
          delivered'[s][i].job = IF i = n + 1 THEN job[w] ELSE h[i]
  BY <1>1, <1>4, <1>5
<1>11. Heard(s)' = Append(h, job[w])
  BY <1>8, <1>9, <1>10
<1>12. \A t \in Sinks \ {s} : Heard(t)' = Heard(t)
  BY <1>1 DEF Heard
<1> QED
  BY <1>11, <1>12 DEF s

-----------------------------------------------------------------------------
(* The steps.                                                              *)

LEMMA InitRefines == Init => Abstract!Init
<1> SUFFICES ASSUME Init PROVE Abstract!Init
  OBVIOUS
<1>1. /\ submitted = <<>> /\ queue = <<>> /\ notifications = <<>>
      /\ adminLock = Free /\ \A w \in Workers : pc[w] = "idle"
      /\ \A s \in Sinks : delivered[s] = <<>>
  BY DEF Init
<1>2. ToSet(submitted) = {} /\ Waiting = {} /\ Listed = {}
  BY <1>1 DEF ToSet, Waiting, Listed
<1>3. \A s \in Sinks : Heard(s) = <<>>
  BY <1>1 DEF Heard
<1>4. Inbox = [s \in Sinks |-> <<>>]
  BY <1>1, <1>3 DEF Inbox
<1> QED
  BY <1>2, <1>4 DEF Abstract!Init

LEMMA HotPlugRefines ==
    ASSUME Inv, Serial, NEW event \in Events, NEW d \in Devices,
           HotPlugCallback(event, d)
    PROVE  \/ \E j \in Job : Abstract!Submit(j)
           \/ UNCHANGED Abstract!vars
<1>1. /\ Len(submitted) < MaxEvents
      /\ UNCHANGED <<pc, job, index, adminLock, notifications, delivered>>
      /\ Listed' = Listed
  BY DEF HotPlugCallback, workerVars, listVars, Listed
<1>2. Inbox' = Inbox
  BY <1>1, InboxFrame
<1>3. CASE UNCHANGED <<submitted, queue>>
  BY <1>1, <1>2, <1>3, WaitingFrame DEF Abstract!vars
<1>4. CASE dispatchEvent(event, d)
  <2> DEFINE j == [id |-> Len(submitted) + 1, event |-> event, device |-> d]
  <2>1. submitted \in Seq(Job) /\ queue \in Seq(Job) /\ Len(submitted) \in Nat
    BY DEF Inv, TypeOK
  <2>2. j \in Job
    BY <1>1, <2>1, NotifierAssumption DEF Job
  <2>3. submitted' = Append(submitted, j) /\ queue' = Append(queue, j)
    BY <1>4 DEF dispatchEvent
  <2>4. j \notin ToSet(submitted)
    BY <2>1 DEF Serial
  <2> HIDE DEF j
  <2>5. ToSet(submitted)' = ToSet(submitted) \cup {j} /\ ToSet(queue)' = ToSet(queue) \cup {j}
    BY <2>1, <2>2, <2>3, ToSetAppend
  <2>6. Waiting' = Waiting \cup {j}
    BY <1>1, <2>5 DEF Waiting
  <2> QED
    BY <1>1, <1>2, <2>2, <2>4, <2>5, <2>6 DEF Abstract!Submit
<1> QED
  BY <1>3, <1>4 DEF HotPlugCallback

LEMMA TakeJobRefines ==
    ASSUME Inv, NEW w \in Workers, TakeJob(w) PROVE UNCHANGED Abstract!vars
<1>1. /\ pc[w] = "idle" /\ pc' = [pc EXCEPT ![w] = "dispatch"]
      /\ job' = [job EXCEPT ![w] = Head(queue)]
      /\ queue # <<>> /\ queue' = Tail(queue)
      /\ UNCHANGED <<submitted, index, adminLock, notifications, delivered>>
      /\ pc \in [Workers -> {"idle", "dispatch", "loop", "callback"}]
      /\ job \in [Workers -> Job \cup {NoJob}] /\ queue \in Seq(Job)
  BY DEF TakeJob, eventVars, listVars, Inv, TypeOK
<1>2. /\ pc'[w] = "dispatch" /\ job'[w] = Head(queue)
      /\ \A v \in Workers \ {w} : pc'[v] = pc[v] /\ job'[v] = job[v]
  BY <1>1
<1>3. ToSet(queue) = ToSet(queue') \cup {Head(queue)}
  BY <1>1, HeadAndRest
<1>4. Waiting' = Waiting
  <2>1. {v \in Workers : pc'[v] = "dispatch"} = {v \in Workers : pc[v] = "dispatch"} \cup {w}
    BY <1>2
  <2>2. {job'[v] : v \in {u \in Workers : pc'[u] = "dispatch"}}
          = {job[v] : v \in {u \in Workers : pc[u] = "dispatch"}} \cup {Head(queue)}
    BY <1>1, <1>2, <2>1
  <2> QED
    BY <1>3, <2>2 DEF Waiting, ToSet
<1>5. Inbox' = Inbox
  <2>1. Listed' = Listed /\ \A t : Position(t)' = Position(t) /\ Heard(t)' = Heard(t)
    BY <1>1 DEF Listed, Position, Heard
  <2>2. CASE adminLock = w
    BY <1>1, <1>2, <2>1, <2>2 DEF Inbox, ToCall
  <2>3. CASE adminLock \in Workers \ {w}
    BY <1>1, <1>2, <2>1, <2>3 DEF Inbox, ToCall, From
  <2>4. CASE adminLock = Free
    BY <1>1, <2>1, <2>4 DEF Inbox
  <2> QED
    BY <2>2, <2>3, <2>4 DEF Inv, TypeOK
<1>6. Listed' = Listed
  BY <1>1 DEF Listed
<1> QED
  BY <1>1, <1>4, <1>5, <1>6 DEF Abstract!vars

LEMMA DispatchLockRefines ==
    ASSUME Inv, Delivery, NEW w \in Workers, DispatchLock(w)
    PROVE  \E j \in Job : Abstract!Deliver(j)
<1>1. /\ pc[w] = "dispatch" /\ pc' = [pc EXCEPT ![w] = "loop"]
      /\ adminLock = Free /\ adminLock' = w
      /\ index' = [index EXCEPT ![w] = First]
      /\ UNCHANGED <<submitted, queue, job, notifications, delivered>>
      /\ pc \in [Workers -> {"idle", "dispatch", "loop", "callback"}]
      /\ index \in [Workers -> Sinks \cup {End}]
  BY DEF DispatchLock, eventVars, listVars, Inv, TypeOK
<1>2. /\ pc'[w] = "loop" /\ index'[w] = First
      /\ \A v \in Workers \ {w} : pc'[v] = pc[v]
  BY <1>1
<1>3. /\ job[w] \in Job /\ job[w] \notin ToSet(queue)
      /\ \A v \in Workers \ {w} : pc[v] = "dispatch" => job[v] # job[w]
  BY <1>1 DEF Delivery, JobsOnce
<1>4. job[w] \in Waiting
  BY <1>1 DEF Waiting
<1>5. Waiting' = Waiting \ {job[w]}
  <2>1. {v \in Workers : pc'[v] = "dispatch"} = {v \in Workers : pc[v] = "dispatch"} \ {w}
    BY <1>2
  <2>2. {job[v] : v \in {u \in Workers : pc'[u] = "dispatch"}}
          = {job[v] : v \in {u \in Workers : pc[u] = "dispatch"}} \ {job[w]}
    BY <1>3, <2>1
  <2> QED
    BY <1>1, <1>3, <2>2 DEF Waiting
<1>6. Listed' = Listed /\ \A t : Position(t)' = Position(t) /\ Heard(t)' = Heard(t)
  BY <1>1 DEF Listed, Position, Heard
<1>7. ToCall(w)' = Listed
  <2>1. CASE First = End
    <3>1. notifications = <<>>
      <4>1. notifications # <<>> => 1 \in DOMAIN notifications
        BY ListFacts
      <4> QED
        BY <2>1, <4>1, ListFacts, NotifierAssumption DEF First
    <3> QED
      BY <1>2, <2>1, <3>1 DEF ToCall, Listed, ToSet
  <2>2. CASE First # End
    <3>1. notifications # <<>> /\ First = notifications[1]
      BY <2>2 DEF First
    <3>2. 1 \in DOMAIN notifications
      BY <3>1, ListFacts
    <3>3. Position(First) = 1
      BY <3>1, <3>2, PlaceOf, ListFacts DEF Position, Place
    <3>4. \A t \in Listed : Position(t) \in Nat /\ Position(t) >= 1
      BY PositionIsNode, ListFacts
    <3> QED
      BY <1>2, <1>6, <2>2, <3>3, <3>4 DEF ToCall, From
  <2> QED
    BY <2>1, <2>2
<1>8. Inbox = [s \in Sinks |-> Heard(s)]
  BY <1>1 DEF Inbox
<1>9. Inbox' = [s \in Sinks |-> IF s \in Listed THEN Append(Inbox[s], job[w]) ELSE Inbox[s]]
  BY <1>1, <1>6, <1>7, <1>8, NotifierAssumption DEF Inbox
<1> QED
  BY <1>1, <1>3, <1>4, <1>5, <1>6, <1>9 DEF Abstract!Deliver

LEMMA DispatchCallRefines ==
    ASSUME Inv, NEW w \in Workers, DispatchCall(w) PROVE UNCHANGED Abstract!vars
<1> DEFINE s == index[w]
<1>1. /\ pc[w] = "loop" /\ s # End /\ pc' = [pc EXCEPT ![w] = "callback"]
      /\ UNCHANGED <<submitted, queue, job, index, adminLock, notifications>>
      /\ pc \in [Workers -> {"idle", "dispatch", "loop", "callback"}]
  BY DEF DispatchCall, eventVars, listVars, Inv, TypeOK
<1>2. pc'[w] = "callback" /\ \A v \in Workers \ {w} : pc'[v] = pc[v]
  BY <1>1
<1>3. adminLock = w /\ s \in Listed
  BY <1>1 DEF Inv, IteratorValid, InDispatch
<1>4. Listed' = Listed /\ \A t : Position(t)' = Position(t)
  BY <1>1 DEF Listed, Position
<1>5. Waiting' = Waiting
  <2>1. {v \in Workers : pc'[v] = "dispatch"} = {v \in Workers : pc[v] = "dispatch"}
    BY <1>1, <1>2
  <2> QED
    BY <1>1, <2>1 DEF Waiting
<1>6. /\ Heard(s)' = Append(Heard(s), job[w])
      /\ \A t \in Sinks \ {s} : Heard(t)' = Heard(t)
  BY HeardAppend
<1>7. s \in ToCall(w) /\ ToCall(w)' = ToCall(w) \ {s}
  <2>1. s \in From(s)
    BY <1>3, PositionIsNode, ListFacts DEF From
  <2>2. ToCall(w) = From(s)
    BY <1>1 DEF ToCall
  <2>3. ToCall(w)' = From(s) \ {s}
    BY <1>1, <1>2, <1>4 DEF ToCall, From
  <2> QED
    BY <2>1, <2>2, <2>3
<1>8. \A t \in Sinks :
        (IF t \in ToCall(w)' THEN Append(Heard(t)', job[w]) ELSE Heard(t)')
          = (IF t \in ToCall(w) THEN Append(Heard(t), job[w]) ELSE Heard(t))
  <2> TAKE t \in Sinks
  <2>1. CASE t = s
    <3>1. s' = s
      BY <1>1, SMTT(40)
    <3>2. Heard(t)' = Append(Heard(t), job[w])
      BY <1>6, <2>1, <3>1 DEF Heard
    <3> QED
      BY <1>7, <2>1, <3>2
  <2>2. CASE t # s
    BY <1>6, <1>7, <2>2
  <2> QED
    BY <2>1, <2>2
<1>9. Inbox' = Inbox
  <2>1. Inbox = [t \in Sinks |-> IF t \in ToCall(w) THEN Append(Heard(t), job[w])
                                                    ELSE Heard(t)]
    BY <1>3, HeldInbox
  <2>2. Inbox' = [t \in Sinks |-> IF t \in ToCall(w)' THEN Append(Heard(t)', job[w])
                                                      ELSE Heard(t)']
    BY <1>1, <1>3, NotifierAssumption DEF Inbox
  <2> QED
    BY <1>8, <2>1, <2>2
<1> QED
  BY <1>1, <1>4, <1>5, <1>9 DEF Abstract!vars

LEMMA DispatchReturnRefines ==
    ASSUME Inv, NEW w \in Workers, DispatchReturn(w) PROVE UNCHANGED Abstract!vars
<1> DEFINE s == index[w]
           p == Position(s)
           n == Len(notifications)
<1>1. /\ pc[w] = "callback" /\ pc' = [pc EXCEPT ![w] = "loop"]
      /\ index' = [index EXCEPT ![w] = NodeAfter(s)]
      /\ UNCHANGED <<submitted, queue, job, adminLock, notifications, delivered>>
      /\ pc \in [Workers -> {"idle", "dispatch", "loop", "callback"}]
      /\ index \in [Workers -> Sinks \cup {End}]
  BY DEF DispatchReturn, eventVars, listVars, Inv, TypeOK
<1>2. /\ pc'[w] = "loop" /\ index'[w] = NodeAfter(s)
      /\ \A v \in Workers \ {w} : pc'[v] = pc[v]
  BY <1>1
<1>3. adminLock = w /\ s \in Listed /\ s # End
  BY <1>1 DEF Inv, IteratorValid, InDispatch
<1>4. Listed' = Listed /\ \A t : Position(t)' = Position(t) /\ Heard(t)' = Heard(t)
  BY <1>1 DEF Listed, Position, Heard
<1>5. Waiting' = Waiting
  <2>1. {v \in Workers : pc'[v] = "dispatch"} = {v \in Workers : pc[v] = "dispatch"}
    BY <1>1, <1>2
  <2> QED
    BY <1>1, <2>1 DEF Waiting
<1>6. /\ p \in 1..n /\ n \in Nat /\ notifications[p] = s
      /\ \A t \in Listed : /\ Position(t) \in 1..n
                           /\ notifications[Position(t)] = t
  BY <1>3, PositionIsNode, ListFacts
<1>7. ToCall(w) = {t \in Listed : Position(t) >= p + 1}
  <2>1. ToCall(w) = {t \in Listed : Position(t) >= p} \ {s}
    BY <1>1, <1>3 DEF ToCall, From
  <2>2. \A t \in Listed : Position(t) = p <=> t = s
    BY <1>6
  <2> HIDE DEF p, n, s
  <2>3. \A t \in Listed : Position(t) >= p + 1 <=> (Position(t) >= p /\ t # s)
    BY <1>6, <2>2
  <2> QED
    BY <2>1, <2>3
<1>8. ToCall(w)' = {t \in Listed : Position(t) >= p + 1}
  <2>1. CASE p < n
    <3>1. p + 1 \in DOMAIN notifications
      BY <1>6, <2>1, ListFacts
    <3>2. NodeAfter(s) = notifications[p + 1]
      BY <1>3, <2>1 DEF NodeAfter
    <3>3. Position(NodeAfter(s)) = p + 1
      BY <3>1, <3>2, PlaceOf, ListFacts DEF Position, Place
    <3>4. NodeAfter(s) # End
      BY <3>1, <3>2, ListFacts, NotifierAssumption
    <3>5. Position(index[w])' = p + 1
      BY <1>1, <1>2, <3>3 DEF Position
    <3> QED
      BY <1>2, <1>4, <3>4, <3>5 DEF ToCall, From
  <2>2. CASE ~(p < n)
    <3>1. NodeAfter(s) = End
      BY <2>2 DEF NodeAfter
    <3>2. ToCall(w)' = {}
      BY <1>2, <3>1 DEF ToCall
    <3> HIDE DEF p, n
    <3>3. \A t \in Listed : ~(Position(t) >= p + 1)
      BY <1>6, <2>2
    <3> QED
      BY <3>2, <3>3
  <2> QED
    BY <2>1, <2>2
<1>9. Inbox' = Inbox
  BY <1>1, <1>3, <1>4, <1>7, <1>8 DEF Inbox
<1> QED
  BY <1>1, <1>4, <1>5, <1>9 DEF Abstract!vars

LEMMA DispatchUnlockRefines ==
    ASSUME Inv, NEW w \in Workers, DispatchUnlock(w) PROVE UNCHANGED Abstract!vars
<1>1. /\ pc[w] = "loop" /\ index[w] = End /\ pc' = [pc EXCEPT ![w] = "idle"]
      /\ job' = [job EXCEPT ![w] = NoJob] /\ adminLock' = Free
      /\ UNCHANGED <<submitted, queue, index, notifications, delivered>>
      /\ pc \in [Workers -> {"idle", "dispatch", "loop", "callback"}]
      /\ job \in [Workers -> Job \cup {NoJob}]
  BY DEF DispatchUnlock, eventVars, listVars, Inv, TypeOK
<1>2. adminLock = w /\ ToCall(w) = {}
  BY <1>1 DEF Inv, IteratorValid, InDispatch, ToCall
<1>3. Listed' = Listed /\ \A t : Heard(t)' = Heard(t)
  BY <1>1 DEF Listed, Heard
<1>4. Waiting' = Waiting
  <2>1. {v \in Workers : pc'[v] = "dispatch"} = {v \in Workers : pc[v] = "dispatch"}
    BY <1>1
  <2>2. \A v \in Workers : pc[v] = "dispatch" => job'[v] = job[v]
    BY <1>1
  <2>3. {job'[v] : v \in {u \in Workers : pc'[u] = "dispatch"}}
          = {job[v] : v \in {u \in Workers : pc[u] = "dispatch"}}
    BY <2>1, <2>2
  <2> QED
    BY <1>1, <2>3 DEF Waiting
<1>5. Inbox' = Inbox
  BY <1>1, <1>2, <1>3 DEF Inbox
<1> QED
  BY <1>1, <1>3, <1>4, <1>5 DEF Abstract!vars

LEMMA ServeRefines ==
    ASSUME Inv, NEW c \in Callers, Serve(c)
    PROVE  \/ \E s \in Sinks : Abstract!Join(s) \/ Abstract!Leave(s)
           \/ UNCHANGED Abstract!vars
<1>1. /\ call[c] \in Calls /\ adminLock = Free
      /\ UNCHANGED <<submitted, queue, pc, job, index, adminLock, delivered>>
  BY DEF Serve, Register, Unregister, Query, Locked, Inv, TypeOK, eventVars, workerVars
<1>2. Inbox' = Inbox /\ Waiting' = Waiting
  BY <1>1, FreeInbox, WaitingFrame
<1>3. CASE Register(c)
  <2>1. call[c].sink \in Sinks /\ AddSink(call[c].sink)
    BY <1>1, <1>3 DEF Register, Locked, Calls
  <2>2. Listed' = Listed \cup {call[c].sink}
    BY <2>1, AddSinkEffect
  <2> QED
    BY <1>1, <1>2, <2>1, <2>2 DEF Abstract!Join
<1>4. CASE Unregister(c)
  <2>1. call[c].sink \in Sinks /\ RemoveSink(call[c].sink)
    BY <1>1, <1>4 DEF Unregister, Locked, Calls
  <2>2. Listed' = Listed \ {call[c].sink}
    BY <2>1, RemoveSinkEffect
  <2> QED
    BY <1>1, <1>2, <2>1, <2>2 DEF Abstract!Leave
<1>5. CASE Query(c)
  BY <1>1, <1>2, <1>5 DEF Query, listVars, Listed, Abstract!vars
<1> QED
  BY <1>3, <1>4, <1>5 DEF Serve

\* A step which touches neither events, workers, list nor deliveries is invisible.
LEMMA OtherRefines ==
    ASSUME UNCHANGED <<submitted, queue, pc, job, index, adminLock, notifications, delivered>>
    PROVE  UNCHANGED Abstract!vars
BY InboxFrame, WaitingFrame DEF Listed, Abstract!vars

LEMMA NextRefines ==
    ASSUME Reentrant = {}, Inv, Delivery, Serial, [Next]_vars
    PROVE  [Abstract!Next]_(Abstract!vars)
<1>1. CASE \E d \in Devices : Attached(d) \/ Detached(d)
  BY <1>1, HotPlugRefines DEF Attached, Detached, Events, Abstract!Next
<1>2. CASE \E w \in Workers : Work(w)
  BY <1>2, TakeJobRefines, DispatchLockRefines, DispatchCallRefines,
     DispatchReturnRefines, DispatchUnlockRefines DEF Work, Abstract!Next
<1>3. CASE \E w \in Workers : NestedCall(w)
  BY <1>3 DEF NestedCall
<1>4. CASE \E c \in Clients : Enter(c)
  BY <1>4, OtherRefines DEF Enter, eventVars, workerVars, listVars
<1>5. CASE \E c \in Callers : Serve(c)
  BY <1>5, ServeRefines DEF Abstract!Next
<1>6. CASE \E s \in Sinks : Disown(s)
  BY <1>6, OtherRefines DEF Disown, eventVars, workerVars, listVars
<1>7. CASE UNCHANGED vars
  BY <1>7, OtherRefines DEF vars, eventVars, workerVars, listVars
<1> QED
  BY <1>1, <1>2, <1>3, <1>4, <1>5, <1>6, <1>7 DEF Next, Quiescent

LEMMA NextSerial == ASSUME Inv, Serial, [Next]_vars PROVE Serial'
<1>1. submitted' = submitted \/ \E event \in Events, d \in Devices : dispatchEvent(event, d)
  BY DEF Next, Attached, Detached, Events, HotPlugCallback, Work, TakeJob, DispatchLock,
     DispatchCall, DispatchReturn, DispatchUnlock, NestedCall, Enter, Serve, Register,
     Unregister, Query, Locked, Disown, Quiescent, vars, eventVars
<1>2. CASE submitted' = submitted
  BY <1>2 DEF Serial
<1>3. ASSUME NEW event \in Events, NEW d \in Devices, dispatchEvent(event, d)
      PROVE  Serial'
  <2> DEFINE j == [id |-> Len(submitted) + 1, event |-> event, device |-> d]
             Jobs == [id : Nat, event : Events, device : Devices]
  <2>1. submitted \in Seq(Jobs) /\ Len(submitted) \in Nat
    <3>1. submitted \in Seq(Job) /\ Job \subseteq Jobs
      BY NotifierAssumption DEF Inv, TypeOK, Job
    <3> HIDE DEF Jobs
    <3>2. submitted \in Seq(Jobs)
      BY <3>1, SeqMonotonic
    <3> QED
      BY <3>1, <3>2, LenProperties
  <2>2. j \in Jobs /\ j.id = Len(submitted) + 1 /\ submitted' = Append(submitted, j)
    BY <1>3, <2>1 DEF dispatchEvent
  <2> HIDE DEF j, Jobs
  <2>3. ToSet(submitted)' = ToSet(submitted) \cup {j} /\ Len(submitted') = Len(submitted) + 1
    BY <2>1, <2>2, ToSetAppend, AppendProperties
  <2> QED
    BY <2>1, <2>2, <2>3 DEF Serial
<1> QED
  BY <1>1, <1>2, <1>3

-----------------------------------------------------------------------------
\* The lock, the iterator and the worker pool deliver each event at one moment to
\* exactly the sinks registered then, when no callback changes the list.
THEOREM BroadcastImplemented == ASSUME Reentrant = {} PROVE Spec => ImplementsBroadcast
<1>1. Init => Serial /\ Abstract!Init
  BY InitRefines DEF Init, Serial, ToSet
<1>2. Inv /\ Serial /\ [Next]_vars => Serial'
  BY NextSerial
<1>3. Inv /\ Delivery /\ Serial /\ [Next]_vars => [Abstract!Next]_(Abstract!vars)
  BY NextRefines
<1> QED
  BY <1>1, <1>2, <1>3, DeliveryInvariance, PTL DEF Spec, ImplementsBroadcast, Abstract!Spec
=============================================================================
