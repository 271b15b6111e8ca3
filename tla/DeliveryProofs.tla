--------------------------- MODULE DeliveryProofs ---------------------------
(***************************************************************************)
(* What Notifier delivers: every registered sink has each event, once for  *)
(* a registration, and all sinks have them in one order; for any sinks,    *)
(* clients, workers and devices, re-entrant callbacks included.            *)
(*                                                                         *)
(* A Job is in one place, the queue or a worker, and no sink has heard of  *)
(* it before its Dispatch has the lock. From then on it is the last event  *)
(* of every sink which has it, so sinks cannot disagree on the order; and  *)
(* a sink has it for its present registration if and only if the iterator  *)
(* has passed the sink, also when callbacks append to the list and erase   *)
(* from it: neither changes the order of the others.                       *)
(*                                                                         *)
(* The last section is about one pool thread: it begins the Jobs in line,  *)
(* so a sink which stays ends with the right view of every device.         *)
(***************************************************************************)
EXTENDS NotifierProofs

\* Where the Jobs are.
JobsOnce ==
    /\ IsInjective(queue)
    /\ \A w \in Workers : pc[w] # "idle" => job[w] \in Job /\ job[w] \notin ToSet(queue)
    /\ \A v, w \in Workers : v # w /\ pc[v] # "idle" /\ pc[w] # "idle" => job[v] # job[w]

\* No Job has a number which was not given yet.
Numbered ==
    /\ \A j \in ToSet(queue) : j.id <= Len(submitted)
    /\ \A w \in Workers : pc[w] # "idle" => job[w].id <= Len(submitted)
    /\ \A s \in Sinks : \A i \in DOMAIN delivered[s] :
          delivered[s][i].job.id <= Len(submitted)

\* A Job which waits has not been delivered.
Fresh ==
    \A s \in Sinks : \A i \in DOMAIN delivered[s] :
        /\ delivered[s][i].job \notin ToSet(queue)
        /\ \A w \in Workers : pc[w] = "dispatch" => delivered[s][i].job # job[w]

\* The Job which is dispatched is the last a sink has heard of, if it has.
Final ==
    \A w \in Workers : InDispatch(w) =>
        \A s \in Sinks : \A i, k \in DOMAIN delivered[s] :
            i < k /\ delivered[s][i].job = job[w] => delivered[s][k].job = job[w]

\* What a sink has been given was for a registration it has made.
Joined == \A s \in Sinks : \A i \in DOMAIN delivered[s] : delivered[s][i].join <= joins[s]

Entry(w, t) == [job |-> job[w], join |-> joins[t]]

\* The iterator of w has passed sink t, or t's callback has begun.
Passed(w, t) == \/ index[w] = End
                \/ Position(t) < Position(index[w])
                \/ pc[w] = "callback" /\ t = index[w]

Loop ==
    \A w \in Workers : InDispatch(w) =>
        \A t \in Listed : Entry(w, t) \in ToSet(delivered[t]) <=> Passed(w, t)

Delivery == JobsOnce /\ Numbered /\ Fresh /\ Final /\ Joined /\ Loop
                     /\ OncePerRegistration /\ AgreedOrder

-----------------------------------------------------------------------------
(* Places in a list without duplicates.                                    *)

Place(l, x) == CHOOSE i \in DOMAIN l : l[i] = x

LEMMA PlaceOf ==
    ASSUME NEW S, NEW l \in Seq(S), IsInjective(l), NEW i \in DOMAIN l
    PROVE  Place(l, l[i]) = i
<1>1. \E k \in DOMAIN l : l[k] = l[i]
  OBVIOUS
<1>2. Place(l, l[i]) \in DOMAIN l /\ l[Place(l, l[i])] = l[i]
  BY <1>1 DEF Place
<1> QED
  BY <1>2 DEF IsInjective

LEMMA PlaceAppend ==
    ASSUME NEW S, NEW l \in Seq(S), IsInjective(l), NEW x \in S, x \notin ToSet(l)
    PROVE  /\ \A y \in ToSet(l) : /\ Place(Append(l, x), y) = Place(l, y)
                                  /\ Place(l, y) \in 1..Len(l)
           /\ Place(Append(l, x), x) = Len(l) + 1
<1> DEFINE r == Append(l, x)
<1>1. /\ r \in Seq(S) /\ Len(r) = Len(l) + 1 /\ Len(l) \in Nat
      /\ \A k \in 1..Len(l) : r[k] = l[k]
      /\ r[Len(l) + 1] = x
  BY AppendProperties
<1>2. IsInjective(r)
  BY AppendNoDuplicates
<1>3. DOMAIN r = 1..(Len(l) + 1) /\ DOMAIN l = 1..Len(l)
  BY <1>1
<1> HIDE DEF r
<1>4. \A k \in DOMAIN r : Place(r, r[k]) = k
  BY <1>1, <1>2, PlaceOf
<1>5. \A k \in DOMAIN l : Place(l, l[k]) = k
  BY PlaceOf
<1>6. ASSUME NEW y \in ToSet(l) PROVE Place(r, y) = Place(l, y) /\ Place(l, y) \in 1..Len(l)
  <2>1. PICK k \in DOMAIN l : l[k] = y
    BY DEF ToSet
  <2>2. k \in DOMAIN r /\ r[k] = y
    BY <1>1, <1>3, <2>1
  <2> QED
    BY <1>3, <1>4, <1>5, <2>1, <2>2
<1>7. Place(r, x) = Len(l) + 1
  <2>1. Len(l) + 1 \in DOMAIN r
    BY <1>1, <1>3
  <2> QED
    BY <1>1, <1>4, <2>1
<1> QED
  BY <1>6, <1>7 DEF r

LEMMA PlaceErase ==
    ASSUME NEW S, NEW l \in Seq(S), IsInjective(l), NEW i \in DOMAIN l
    PROVE  \A y, z \in ToSet(l) \ {l[i]} :
             Place(RemoveAt(l, i), y) < Place(RemoveAt(l, i), z) <=> Place(l, y) < Place(l, z)
<1> DEFINE r == RemoveAt(l, i)
<1>1. /\ r \in Seq(S) /\ Len(r) = Len(l) - 1 /\ Len(l) \in Nat /\ i \in 1..Len(l)
      /\ \A k \in 1..(Len(l) - 1) : r[k] = IF k < i THEN l[k] ELSE l[k + 1]
  BY EraseProperties
<1>2. IsInjective(r)
  BY EraseNoDuplicates
<1>3. DOMAIN r = 1..(Len(l) - 1) /\ DOMAIN l = 1..Len(l)
  BY <1>1
<1> HIDE DEF r
<1>4. \A k \in DOMAIN r : Place(r, r[k]) = k
  BY <1>1, <1>2, PlaceOf
<1>5. \A k \in DOMAIN l : Place(l, l[k]) = k
  BY PlaceOf
<1>6. ASSUME NEW y \in ToSet(l) \ {l[i]}
      PROVE  \E k \in 1..Len(l) : /\ k # i /\ Place(l, y) = k
                                  /\ Place(r, y) = IF k < i THEN k ELSE k - 1
  <2>1. PICK k \in DOMAIN l : l[k] = y
    BY DEF ToSet
  <2>2. k # i /\ k \in 1..Len(l)
    BY <1>3, <2>1
  <2>3. CASE k < i
    <3>1. k \in DOMAIN r /\ r[k] = y
      BY <1>1, <1>3, <2>1, <2>2, <2>3
    <3> QED
      BY <1>4, <1>5, <2>1, <2>2, <2>3, <3>1
  <2>4. CASE ~(k < i)
    <3>1. k - 1 \in DOMAIN r /\ r[k - 1] = y
      BY <1>1, <1>3, <2>1, <2>2, <2>4
    <3> QED
      BY <1>4, <1>5, <2>1, <2>2, <2>4, <3>1
  <2> QED
    BY <2>3, <2>4
<1>7. ASSUME NEW y \in ToSet(l) \ {l[i]}, NEW z \in ToSet(l) \ {l[i]}
      PROVE  Place(r, y) < Place(r, z) <=> Place(l, y) < Place(l, z)
  <2>1. PICK j \in 1..Len(l) : /\ j # i /\ Place(l, y) = j
                               /\ Place(r, y) = IF j < i THEN j ELSE j - 1
    BY <1>6
  <2>2. PICK k \in 1..Len(l) : /\ k # i /\ Place(l, z) = k
                               /\ Place(r, z) = IF k < i THEN k ELSE k - 1
    BY <1>6
  <2> QED
    BY <1>1, <2>1, <2>2
<1> QED
  BY <1>7 DEF r

-----------------------------------------------------------------------------
(* What Register and Unregister do to the order of the list.               *)

\* Sinks which stay keep their order and their registrations; one which joins is
\* behind them all, and its registration is a new one.
OrderKept ==
    /\ joins' \in [Sinks -> Nat]
    /\ \A t \in Sinks : joins[t] <= joins'[t]
    /\ \A t \in Listed \cap Listed' :
          /\ joins'[t] = joins[t]
          /\ \A u \in Listed \cap Listed' :
                Position(t)' < Position(u)' <=> Position(t) < Position(u)
    /\ \A t \in Listed' \ Listed :
          /\ joins[t] < joins'[t]
          /\ \A u \in Listed \cap Listed' : ~(Position(t)' < Position(u)')

LEMMA ListFacts ==
    ASSUME Inv
    PROVE  /\ notifications \in Seq(Sinks) /\ IsInjective(notifications)
           /\ joins \in [Sinks -> Nat] /\ Listed \subseteq Sinks
<1>1. /\ notifications \in Seq(Sinks) /\ IsInjective(notifications)
      /\ joins \in [Sinks -> Nat]
  BY DEF Inv, TypeOK, Balanced
<1>2. \A i \in DOMAIN notifications : notifications[i] \in Sinks
  BY <1>1
<1>3. Listed \subseteq Sinks
  BY <1>2 DEF Listed, ToSet
<1> QED
  BY <1>1, <1>3

LEMMA AddSinkOrder == ASSUME Inv, NEW s \in Sinks, AddSink(s) PROVE OrderKept
<1>1. /\ notifications \in Seq(Sinks) /\ IsInjective(notifications)
      /\ joins \in [Sinks -> Nat] /\ Listed \subseteq Sinks
  BY ListFacts
<1>2. CASE s \in Listed
  <2>1. UNCHANGED <<notifications, joins>>
    BY <1>2 DEF AddSink, listVars
  <2>2. Listed' = Listed /\ \A t \in Listed : Position(t)' = Position(t)
    BY <2>1 DEF Listed, Position
  <2> QED
    BY <1>1, <2>1, <2>2 DEF OrderKept
<1>3. CASE s \notin Listed
  <2>1. /\ notifications' = Append(notifications, s)
        /\ joins' = [joins EXCEPT ![s] = @ + 1]
    BY <1>3 DEF AddSink
  <2>2. Listed' = Listed \cup {s}
    BY <1>1, <1>3, <2>1, AppendNoDuplicates DEF Listed
  <2>3. /\ \A y \in Listed : /\ Place(notifications', y) = Place(notifications, y)
                             /\ Place(notifications, y) \in 1..Len(notifications)
        /\ Place(notifications', s) = Len(notifications) + 1
    BY <1>1, <1>3, <2>1, PlaceAppend DEF Listed
  <2>4. /\ \A t \in Listed : Position(t)' = Position(t)
        /\ \A t \in Listed : Position(t) \in 1..Len(notifications)
        /\ Position(s)' = Len(notifications) + 1
    BY <2>3 DEF Position, Place
  <2>5. Len(notifications) \in Nat
    BY <1>1
  <2>6. /\ joins' \in [Sinks -> Nat] /\ joins'[s] = joins[s] + 1
        /\ \A t \in Sinks \ {s} : joins'[t] = joins[t]
    BY <1>1, <2>1
  <2>7. \A t \in Sinks : joins[t] \in Nat
    BY <1>1
  <2>8. \A t \in Sinks : joins[t] <= joins'[t]
    BY <2>6, <2>7
  <2>9. \A u \in Listed : ~(Position(s)' < Position(u)')
    BY <2>4, <2>5
  <2>10. joins[s] < joins'[s]
    BY <2>6, <2>7
  <2> QED
    BY <1>1, <1>3, <2>2, <2>4, <2>6, <2>8, <2>9, <2>10 DEF OrderKept
<1> QED
  BY <1>2, <1>3

LEMMA RemoveSinkOrder == ASSUME Inv, NEW s \in Sinks, RemoveSink(s) PROVE OrderKept
<1>1. /\ notifications \in Seq(Sinks) /\ IsInjective(notifications)
      /\ joins \in [Sinks -> Nat] /\ Listed \subseteq Sinks
  BY ListFacts
<1>2. joins' = joins
  BY DEF RemoveSink, listVars
<1>3. \A t \in Sinks : joins[t] <= joins'[t]
  BY <1>1, <1>2
<1>4. CASE s \notin Listed
  <2>1. notifications' = notifications
    BY <1>4 DEF RemoveSink, listVars
  <2>2. Listed' = Listed /\ \A t \in Listed : Position(t)' = Position(t)
    BY <2>1 DEF Listed, Position
  <2> QED
    BY <1>1, <1>2, <1>3, <2>2 DEF OrderKept
<1>5. CASE s \in Listed
  <2>1. notifications' = RemoveAt(notifications, Position(s))
    BY <1>5 DEF RemoveSink
  <2>2. Position(s) \in DOMAIN notifications /\ notifications[Position(s)] = s
    BY <1>5, PositionIsNode
  <2>3. Listed' = Listed \ {s}
    BY <1>1, <2>1, <2>2, EraseNoDuplicates DEF Listed
  <2>4. \A y, z \in Listed \ {s} :
           Place(notifications', y) < Place(notifications', z)
             <=> Place(notifications, y) < Place(notifications, z)
    BY <1>1, <2>1, <2>2, PlaceErase DEF Listed
  <2>5. \A y, z \in Listed \ {s} :
           Position(y)' < Position(z)' <=> Position(y) < Position(z)
    BY <2>4 DEF Position, Place
  <2> QED
    BY <1>1, <1>2, <1>3, <2>3, <2>5 DEF OrderKept
<1> QED
  BY <1>4, <1>5

-----------------------------------------------------------------------------
(* The steps.                                                              *)

LEMMA InitDelivery == Init => Delivery
<1> SUFFICES ASSUME Init PROVE Delivery
  OBVIOUS
<1>1. /\ queue = <<>> /\ submitted = <<>> /\ \A w \in Workers : pc[w] = "idle"
      /\ \A s \in Sinks : delivered[s] = <<>>
  BY DEF Init
<1>2. JobsOnce /\ Numbered /\ Fresh
  BY <1>1 DEF JobsOnce, Numbered, Fresh, IsInjective, ToSet
<1>3. Final /\ Joined /\ Loop
  BY <1>1 DEF Final, Joined, Loop, InDispatch
<1>4. OncePerRegistration /\ AgreedOrder
  BY <1>1 DEF OncePerRegistration, AgreedOrder, IsInjective
<1> QED
  BY <1>2, <1>3, <1>4 DEF Delivery

\* What the Jobs and the deliveries of a step which touches neither are.
LEMMA Frame ==
    ASSUME Delivery,
           UNCHANGED <<submitted, queue, pc, job, index, notifications, joins, delivered>>
    PROVE  Delivery'
<1>1. JobsOnce' /\ Numbered' /\ Fresh'
  BY DEF Delivery, JobsOnce, Numbered, Fresh
<1>2. Final' /\ Joined'
  BY DEF Delivery, Final, Joined, InDispatch
<1>3. Loop'
  BY DEF Delivery, Loop, InDispatch, Entry, Passed, Position, Listed
<1>4. OncePerRegistration' /\ AgreedOrder'
  BY DEF Delivery, OncePerRegistration, AgreedOrder
<1> QED
  BY <1>1, <1>2, <1>3, <1>4 DEF Delivery

\* A step which changes the list, or a worker's part in it, but delivers nothing.
LEMMA DeliveredFrame ==
    ASSUME Delivery, UNCHANGED delivered
    PROVE  OncePerRegistration' /\ AgreedOrder'
  BY DEF Delivery, OncePerRegistration, AgreedOrder

\* What a sink has heard of, of the types of its parts.
LEMMA DeliveredFacts ==
    ASSUME Inv, NEW s \in Sinks
    PROVE  /\ delivered[s] \in Seq([job : Job \cup {NoJob}, join : Nat])
           /\ \A i \in DOMAIN delivered[s] : /\ delivered[s][i].job.id \in Int
                                            /\ delivered[s][i].join \in Nat
<1> DEFINE Entries == [job : Job \cup {NoJob}, join : Nat]
<1>1. delivered[s] \in Seq(Entries)
  BY DEF Inv, TypeOK
<1>2. \A k \in Job \cup {NoJob} : k.id \in Int
  BY NotifierAssumption DEF Job, NoJob
<1>3. \A e \in Entries : e.job \in Job \cup {NoJob} /\ e.join \in Nat
  OBVIOUS
<1> HIDE DEF Entries
<1>4. \A i \in DOMAIN delivered[s] : delivered[s][i] \in Entries
  BY <1>1
<1>5. \A i \in DOMAIN delivered[s] : /\ delivered[s][i].job.id \in Int
                                    /\ delivered[s][i].join \in Nat
  BY <1>2, <1>3, <1>4
<1> QED
  BY <1>1, <1>5 DEF Entries

\* A Dispatch which a step does not touch.
LEMMA LoopFrame ==
    ASSUME Delivery, NEW v \in Workers, InDispatch(v),
           pc'[v] = pc[v], job'[v] = job[v], index'[v] = index[v],
           UNCHANGED <<notifications, joins, delivered>>
    PROVE  \A t \in Listed' : (Entry(v, t) \in ToSet(delivered[t]))' <=> Passed(v, t)'
<1>1. Listed' = Listed /\ \A t : Position(t)' = Position(t)
  BY DEF Listed, Position
<1>2. \A t : Entry(v, t)' = Entry(v, t)
  BY DEF Entry
<1>3. Position(index[v])' = Position(index[v])
  BY DEF Position
<1>4. \A t : Passed(v, t)' <=> Passed(v, t)
  BY <1>1, <1>3 DEF Passed
<1> QED
  BY <1>1, <1>2, <1>4 DEF Delivery, Loop

LEMMA HotPlugDelivery ==
    ASSUME Inv, Delivery, NEW d \in Devices, NEW event \in Events,
           HotPlugCallback(event, d)
    PROVE  Delivery'
<1> DEFINE j == [id |-> Len(submitted) + 1, event |-> event, device |-> d]
<1>1. UNCHANGED <<pc, job, index, notifications, joins, delivered>>
  BY DEF HotPlugCallback, workerVars, listVars
<1>2. CASE UNCHANGED <<submitted, queue>>
  BY <1>1, <1>2, Frame
<1>3. CASE dispatchEvent(event, d)
  <2>1. /\ submitted \in Seq(Job) /\ queue \in Seq(Job) /\ Len(submitted) \in Nat
        /\ submitted' = Append(submitted, j) /\ queue' = Append(queue, j)
    BY <1>3 DEF dispatchEvent, Inv, TypeOK
  <2>2. Len(submitted) + 1 \in 1..MaxEvents
    BY <2>1, NotifierAssumption DEF HotPlugCallback
  <2>3. j \in Job
    BY <2>2 DEF Job
  <2>4. /\ j.id = Len(submitted) + 1
        /\ Len(submitted') = Len(submitted) + 1
    BY <2>1, <2>3, AppendProperties
  <2> HIDE DEF j
  <2>5. \A k \in ToSet(queue) : k \in Job
    <3>1. \A i \in DOMAIN queue : queue[i] \in Job
      BY <2>1
    <3> QED
      BY <3>1 DEF ToSet
  <2>6. /\ \A k \in ToSet(queue) : k.id \in Nat /\ k # j
        /\ \A w \in Workers : pc[w] # "idle" => job[w].id \in Nat /\ job[w] # j
        /\ \A s \in Sinks : \A i \in DOMAIN delivered[s] : delivered[s][i].job # j
    <3>1. \A k \in Job : k.id \in Nat
      BY NotifierAssumption DEF Job
    <3>2. /\ \A k \in ToSet(queue) : k.id <= Len(submitted)
          /\ \A w \in Workers : pc[w] # "idle" => /\ job[w].id <= Len(submitted)
                                                 /\ job[w] \in Job
          /\ \A s \in Sinks : \A i \in DOMAIN delivered[s] :
                delivered[s][i].job.id <= Len(submitted)
      BY DEF Delivery, Numbered, JobsOnce
    <3>3. ~(j.id <= Len(submitted))
      BY <2>1, <2>4
    <3> QED
      BY <2>5, <3>1, <3>2, <3>3
  <2>7. IsInjective(queue') /\ ToSet(queue') = ToSet(queue) \cup {j}
    <3>1. IsInjective(queue) /\ j \notin ToSet(queue)
      BY <2>6 DEF Delivery, JobsOnce
    <3> QED
      BY <2>1, <2>3, <3>1, AppendNoDuplicates
  <2>8. JobsOnce'
    BY <1>1, <2>6, <2>7 DEF Delivery, JobsOnce
  <2>9. Numbered'
    <3>1. \A s \in Sinks : \A i \in DOMAIN delivered[s] : delivered[s][i].job.id \in Int
      BY DeliveredFacts
    <3>2. \A s \in Sinks : \A i \in DOMAIN delivered[s] :
             delivered[s][i].job.id <= Len(submitted) + 1
      BY <2>1, <3>1 DEF Delivery, Numbered
    <3>3. \A w \in Workers : pc[w] # "idle" => job[w].id <= Len(submitted) + 1
      BY <2>1, <2>6 DEF Delivery, Numbered
    <3>4. \A k \in ToSet(queue') : k.id <= Len(submitted) + 1
      <4>1. ASSUME NEW k \in ToSet(queue) PROVE k.id <= Len(submitted) + 1
        BY <2>1, <2>6 DEF Delivery, Numbered
      <4> QED
        BY <2>1, <2>4, <2>7, <4>1
    <3> QED
      BY <1>1, <2>4, <3>2, <3>3, <3>4 DEF Numbered
  <2>10. Fresh'
    BY <1>1, <2>6, <2>7 DEF Delivery, Fresh
  <2>11. Final' /\ Joined'
    BY <1>1 DEF Delivery, Final, Joined, InDispatch
  <2>12. Loop'
    BY <1>1 DEF Delivery, Loop, InDispatch, Entry, Passed, Position, Listed
  <2> QED
    BY <1>1, <2>8, <2>9, <2>10, <2>11, <2>12, DeliveredFrame DEF Delivery
<1> QED
  BY <1>2, <1>3 DEF HotPlugCallback

LEMMA TakeJobDelivery ==
    ASSUME Inv, Delivery, NEW w \in Workers, TakeJob(w) PROVE Delivery'
<1>1. /\ pc \in [Workers -> {"idle", "dispatch", "loop", "callback"}]
      /\ job \in [Workers -> Job \cup {NoJob}] /\ queue \in Seq(Job) /\ queue # <<>>
      /\ pc[w] = "idle" /\ pc' = [pc EXCEPT ![w] = "dispatch"]
      /\ job' = [job EXCEPT ![w] = Head(queue)] /\ queue' = Tail(queue)
      /\ UNCHANGED <<submitted, index, notifications, joins, delivered>>
  BY DEF TakeJob, Inv, TypeOK, eventVars, listVars
<1>2. /\ IsInjective(queue') /\ ToSet(queue') = ToSet(queue) \ {Head(queue)}
      /\ Head(queue) \in ToSet(queue)
  BY <1>1, TailNoDuplicates DEF Delivery, JobsOnce
<1>3. Head(queue) \in Job
  BY <1>1, HeadTailProperties
<1>4. /\ pc'[w] = "dispatch" /\ job'[w] = Head(queue)
      /\ \A v \in Workers \ {w} : pc'[v] = pc[v] /\ job'[v] = job[v]
  BY <1>1
<1>5. JobsOnce'
  BY <1>2, <1>3, <1>4 DEF Delivery, JobsOnce
<1>6. Numbered'
  BY <1>1, <1>2, <1>4 DEF Delivery, Numbered
<1>7. Fresh'
  BY <1>1, <1>2, <1>4 DEF Delivery, Fresh
<1>8. \A v \in Workers : InDispatch(v)' => v # w /\ InDispatch(v)
  BY <1>4 DEF InDispatch
<1>9. Final' /\ Joined'
  BY <1>1, <1>4, <1>8 DEF Delivery, Final, Joined
<1>10. Loop'
  BY <1>1, <1>4, <1>8, LoopFrame DEF Loop
<1> QED
  BY <1>1, <1>5, <1>6, <1>7, <1>9, <1>10, DeliveredFrame DEF Delivery

LEMMA DispatchLockDelivery ==
    ASSUME Inv, Delivery, NEW w \in Workers, DispatchLock(w) PROVE Delivery'
<1>1. /\ pc \in [Workers -> {"idle", "dispatch", "loop", "callback"}]
      /\ index \in [Workers -> Sinks \cup {End}]
      /\ pc[w] = "dispatch" /\ pc' = [pc EXCEPT ![w] = "loop"] /\ adminLock = Free
      /\ index' = [index EXCEPT ![w] = First]
      /\ UNCHANGED <<submitted, queue, job, notifications, joins, delivered>>
  BY DEF DispatchLock, Inv, TypeOK, eventVars, listVars
<1>2. /\ pc'[w] = "loop" /\ index'[w] = First
      /\ \A v \in Workers \ {w} : pc'[v] = pc[v] /\ index'[v] = index[v]
  BY <1>1
<1>3. \A v \in Workers : ~InDispatch(v)
  BY <1>1, NotifierAssumption DEF Inv, IteratorValid
<1>4. \A v \in Workers : InDispatch(v)' => v = w
  BY <1>2, <1>3 DEF InDispatch
<1>5. JobsOnce'
  BY <1>1, <1>2 DEF Delivery, JobsOnce
<1>6. Numbered'
  BY <1>1, <1>2 DEF Delivery, Numbered
<1>7. Fresh'
  BY <1>1, <1>2 DEF Delivery, Fresh
<1>8. \A s \in Sinks : \A i \in DOMAIN delivered[s] : delivered[s][i].job # job[w]
  BY <1>1 DEF Delivery, Fresh
<1>9. Final'
  BY <1>1, <1>4, <1>8 DEF Final
<1>10. Joined'
  BY <1>1 DEF Delivery, Joined
<1>11. Loop'
  <2>1. Listed' = Listed /\ \A t : Position(t)' = Position(t) /\ Entry(w, t)' = Entry(w, t)
    BY <1>1 DEF Listed, Position, Entry
  <2>2. ASSUME NEW t \in Listed PROVE Entry(w, t) \notin ToSet(delivered[t])
    <3>1. t \in Sinks
      BY ListFacts
    <3>2. Entry(w, t).job = job[w]
      BY DEF Entry
    <3> QED
      BY <1>8, <3>1, <3>2 DEF ToSet
  <2>3. ASSUME NEW t \in Listed PROVE ~Passed(w, t)'
    <3>1. notifications # <<>>
      BY DEF Listed, ToSet
    <3>2. 1 \in DOMAIN notifications
      BY <3>1, ListFacts
    <3>3. First = notifications[1] /\ First \in Sinks
      BY <3>1, <3>2, ListFacts DEF First
    <3>4. Position(First) = 1
      BY <3>2, <3>3, PlaceOf, ListFacts DEF Position, Place
    <3>5. Position(t) \in 1..Len(notifications)
      BY PositionIsNode, ListFacts
    <3>6. First # End /\ ~(Position(t) < Position(First))
      BY <3>3, <3>4, <3>5, NotifierAssumption
    <3>7. Position(index[w])' = Position(First)
      BY <1>1, <1>2 DEF Position
    <3> QED
      BY <1>2, <2>1, <3>6, <3>7 DEF Passed
  <2> QED
    BY <1>1, <1>4, <2>1, <2>2, <2>3 DEF Loop
<1> QED
  BY <1>1, <1>5, <1>6, <1>7, <1>9, <1>10, <1>11, DeliveredFrame DEF Delivery

LEMMA DispatchUnlockDelivery ==
    ASSUME Inv, Delivery, NEW w \in Workers, DispatchUnlock(w) PROVE Delivery'
<1>1. /\ pc \in [Workers -> {"idle", "dispatch", "loop", "callback"}]
      /\ job \in [Workers -> Job \cup {NoJob}]
      /\ pc[w] = "loop" /\ pc' = [pc EXCEPT ![w] = "idle"]
      /\ job' = [job EXCEPT ![w] = NoJob]
      /\ UNCHANGED <<submitted, queue, index, notifications, joins, delivered>>
  BY DEF DispatchUnlock, Inv, TypeOK, eventVars, listVars
<1>2. /\ pc'[w] = "idle"
      /\ \A v \in Workers \ {w} : pc'[v] = pc[v] /\ job'[v] = job[v]
  BY <1>1
<1>3. \A v \in Workers : ~InDispatch(v)'
  BY <1>1, <1>2 DEF Inv, IteratorValid, InDispatch
<1>4. JobsOnce'
  BY <1>1, <1>2 DEF Delivery, JobsOnce
<1>5. Numbered'
  BY <1>1, <1>2 DEF Delivery, Numbered
<1>6. Fresh'
  BY <1>1, <1>2 DEF Delivery, Fresh
<1>7. Joined'
  BY <1>1 DEF Delivery, Joined
<1>8. Final' /\ Loop'
  BY <1>3 DEF Final, Loop
<1> QED
  BY <1>1, <1>4, <1>5, <1>6, <1>7, <1>8, DeliveredFrame DEF Delivery

LEMMA DispatchReturnDelivery ==
    ASSUME Inv, Delivery, NEW w \in Workers, DispatchReturn(w) PROVE Delivery'
<1>1. /\ pc \in [Workers -> {"idle", "dispatch", "loop", "callback"}]
      /\ index \in [Workers -> Sinks \cup {End}]
      /\ pc[w] = "callback" /\ pc' = [pc EXCEPT ![w] = "loop"]
      /\ index' = [index EXCEPT ![w] = NodeAfter(index[w])]
      /\ UNCHANGED <<submitted, queue, job, notifications, joins, delivered>>
  BY DEF DispatchReturn, Inv, TypeOK, eventVars, listVars
<1>2. /\ pc'[w] = "loop" /\ index'[w] = NodeAfter(index[w])
      /\ \A v \in Workers \ {w} : pc'[v] = pc[v] /\ index'[v] = index[v]
  BY <1>1
<1>3. InDispatch(w) /\ \A v \in Workers : InDispatch(v)' => v = w
  BY <1>1, <1>2 DEF Inv, IteratorValid, InDispatch
<1>4. JobsOnce'
  BY <1>1, <1>2 DEF Delivery, JobsOnce
<1>5. Numbered'
  BY <1>1, <1>2 DEF Delivery, Numbered
<1>6. Fresh'
  BY <1>1, <1>2 DEF Delivery, Fresh
<1>7. Final' /\ Joined'
  BY <1>1, <1>3 DEF Delivery, Final, Joined
<1>8. Loop'
  <2>1. Listed' = Listed /\ \A t : Position(t)' = Position(t) /\ Entry(w, t)' = Entry(w, t)
    BY <1>1 DEF Listed, Position, Entry
  <2>2. index[w] \in Listed /\ index[w] # End
    BY <1>1, <1>3 DEF Inv, IteratorValid, InDispatch
  <2>3. ASSUME NEW t \in Listed PROVE Passed(w, t)' <=> Passed(w, t)
    <3> DEFINE p == Position(index[w])
               n == Len(notifications)
    <3>1. /\ p \in 1..n /\ notifications[p] = index[w]
          /\ Position(t) \in 1..n /\ notifications[Position(t)] = t /\ n \in Nat
      BY <2>2, PositionIsNode, ListFacts
    <3>2. Passed(w, t) <=> Position(t) <= p
      <4>1. Position(t) = p <=> t = index[w]
        BY <3>1
      <4> HIDE DEF n
      <4> QED
        BY <1>1, <2>2, <3>1, <4>1 DEF Passed
    <3>3. CASE p < n
      <4>1. p + 1 \in DOMAIN notifications
        BY <3>1, <3>3, ListFacts
      <4>2. NodeAfter(index[w]) = notifications[p + 1]
        BY <2>2, <3>3 DEF NodeAfter
      <4>3. Position(NodeAfter(index[w])) = p + 1
        BY <4>1, <4>2, PlaceOf, ListFacts DEF Position, Place
      <4>4. NodeAfter(index[w]) # End
        BY <4>1, <4>2, ListFacts, NotifierAssumption
      <4>5. Position(index[w])' = p + 1
        BY <1>1, <1>2, <4>3 DEF Position
      <4>6. Passed(w, t)' <=> Position(t) < p + 1
        BY <1>2, <2>1, <4>4, <4>5 DEF Passed
      <4> HIDE DEF n, p
      <4> QED
        BY <3>1, <3>2, <4>6
    <3>4. CASE ~(p < n)
      <4>1. NodeAfter(index[w]) = End
        BY <3>4 DEF NodeAfter
      <4>2. Passed(w, t)'
        BY <1>2, <4>1 DEF Passed
      <4> HIDE DEF n, p
      <4> QED
        BY <3>1, <3>2, <3>4, <4>2
    <3> QED
      BY <3>3, <3>4
  <2> QED
    BY <1>1, <1>3, <2>1, <2>3 DEF Loop, Delivery
<1> QED
  BY <1>1, <1>4, <1>5, <1>6, <1>7, <1>8, DeliveredFrame DEF Delivery

\* The event goes to the end of what the sink has heard, and to nobody else.
LEMMA CallAppends ==
    ASSUME Inv, NEW w \in Workers, DispatchCall(w)
    PROVE  LET s == index[w]
               n == Len(delivered[s])
           IN  /\ s \in Listed /\ s \in Sinks /\ s # End /\ n \in Nat
               /\ delivered' \in [Sinks -> Seq([job : Job \cup {NoJob}, join : Nat])]
               /\ \A t \in Sinks \ {s} : delivered'[t] = delivered[t]
               /\ delivered'[s] = Append(delivered[s], Entry(w, s))
               /\ DOMAIN delivered[s] = 1..n /\ DOMAIN delivered'[s] = 1..(n + 1)
               /\ \A i \in 1..n : delivered'[s][i] = delivered[s][i]
               /\ delivered'[s][n + 1] = Entry(w, s)
               /\ Entry(w, s) \in [job : Job \cup {NoJob}, join : Nat]
<1> DEFINE s == index[w]
           n == Len(delivered[s])
           Entries == [job : Job \cup {NoJob}, join : Nat]
<1>1. InDispatch(w) /\ s # End
  BY DEF DispatchCall, InDispatch
<1>2. s \in Listed /\ s \in Sinks
  BY <1>1, ListFacts DEF Inv, IteratorValid
<1>3. Entry(w, s) \in Entries
  <2>1. job[w] \in Job \cup {NoJob} /\ joins[s] \in Nat
    BY <1>2 DEF Inv, TypeOK
  <2> QED
    BY <2>1 DEF Entry
<1>4. delivered' = [delivered EXCEPT ![s] = Append(@, Entry(w, s))]
  BY DEF DispatchCall, Entry
<1>5. delivered \in [Sinks -> Seq(Entries)]
  BY DEF Inv, TypeOK
<1> HIDE DEF s, Entries
<1>6. /\ Append(delivered[s], Entry(w, s)) \in Seq(Entries)
      /\ Len(Append(delivered[s], Entry(w, s))) = n + 1 /\ n \in Nat
      /\ \A i \in 1..n : Append(delivered[s], Entry(w, s))[i] = delivered[s][i]
      /\ Append(delivered[s], Entry(w, s))[n + 1] = Entry(w, s)
  BY <1>2, <1>3, <1>5, AppendProperties
<1>7. /\ delivered' \in [Sinks -> Seq(Entries)]
      /\ delivered'[s] = Append(delivered[s], Entry(w, s))
      /\ \A t \in Sinks \ {s} : delivered'[t] = delivered[t]
  BY <1>2, <1>4, <1>5, <1>6
<1>8. DOMAIN delivered[s] = 1..n /\ DOMAIN delivered'[s] = 1..(n + 1)
  BY <1>2, <1>5, <1>6, <1>7
<1> QED
  BY <1>1, <1>2, <1>3, <1>6, <1>7, <1>8 DEF s, Entries

LEMMA DispatchCallDelivery ==
    ASSUME Inv, Delivery, NEW w \in Workers, DispatchCall(w) PROVE Delivery'
<1> DEFINE s == index[w]
           n == Len(delivered[s])
           e == Entry(w, s)
<1>1. /\ pc \in [Workers -> {"idle", "dispatch", "loop", "callback"}]
      /\ pc[w] = "loop" /\ pc' = [pc EXCEPT ![w] = "callback"]
      /\ UNCHANGED <<submitted, queue, job, index, notifications, joins>>
  BY DEF DispatchCall, Inv, TypeOK, eventVars, listVars
<1>2. pc'[w] = "callback" /\ \A v \in Workers \ {w} : pc'[v] = pc[v]
  BY <1>1
<1>3. InDispatch(w) /\ \A v \in Workers : InDispatch(v)' => v = w
  BY <1>1, <1>2 DEF Inv, IteratorValid, InDispatch
<1>4. /\ s \in Listed /\ s \in Sinks /\ s # End /\ n \in Nat
      /\ \A t \in Sinks \ {s} : delivered'[t] = delivered[t]
      /\ delivered'[s] = Append(delivered[s], e)
      /\ DOMAIN delivered[s] = 1..n /\ DOMAIN delivered'[s] = 1..(n + 1)
      /\ \A i \in 1..n : delivered'[s][i] = delivered[s][i]
      /\ delivered'[s][n + 1] = e
      /\ e \in [job : Job \cup {NoJob}, join : Nat]
      /\ delivered[s] \in Seq([job : Job \cup {NoJob}, join : Nat])
  BY CallAppends, DeliveredFacts
<1>5. e.job = job[w] /\ e.join = joins[s]
  BY DEF Entry
<1> HIDE DEF n, e
<1>6. \A t \in Sinks : \A i \in DOMAIN delivered'[t] :
         \/ i \in DOMAIN delivered[t] /\ delivered'[t][i] = delivered[t][i]
         \/ t = s /\ i = n + 1 /\ delivered'[t][i] = e
  <2> TAKE t \in Sinks
  <2> TAKE i \in DOMAIN delivered'[t]
  <2>1. CASE t # s
    BY <1>4, <2>1
  <2>2. CASE t = s
    <3> HIDE DEF s
    <3>1. i \in 1..(n + 1) /\ n \in Nat
      BY <1>4, <2>2
    <3>2. i \in 1..n \/ i = n + 1
      BY <3>1
    <3> QED
      BY <1>4, <2>2, <3>2
  <2> QED
    BY <2>1, <2>2
<1>7. JobsOnce'
  BY <1>1, <1>2 DEF Delivery, JobsOnce
<1>8. Numbered'
  <2>1. job[w].id <= Len(submitted)
    BY <1>1 DEF Delivery, Numbered
  <2> QED
    BY <1>1, <1>2, <1>5, <1>6, <2>1 DEF Delivery, Numbered
<1>9. Fresh'
  <2>1. /\ job[w] \notin ToSet(queue)
        /\ \A v \in Workers : pc'[v] = "dispatch" => pc[v] = "dispatch" /\ job[v] # job[w]
    BY <1>1, <1>2 DEF Delivery, JobsOnce
  <2> QED
    BY <1>1, <1>5, <1>6, <2>1 DEF Delivery, Fresh
<1>10. Final'
  <2> SUFFICES ASSUME NEW t \in Sinks, NEW i \in DOMAIN delivered'[t],
                      NEW k \in DOMAIN delivered'[t],
                      i < k, delivered'[t][i].job = job[w]
               PROVE  delivered'[t][k].job = job[w]
    BY <1>1, <1>3 DEF Final
  <2>1. CASE t = s /\ k = n + 1
    BY <1>4, <1>5, <2>1
  <2>2. CASE ~(t = s /\ k = n + 1)
    <3>1. k \in DOMAIN delivered[t] /\ delivered'[t][k] = delivered[t][k]
      BY <1>6, <2>2
    <3>2. i \in DOMAIN delivered[t] /\ delivered'[t][i] = delivered[t][i]
      BY <1>4, <1>6, <3>1
    <3> QED
      BY <1>3, <3>1, <3>2 DEF Delivery, Final
  <2> QED
    BY <2>1, <2>2
<1>11. Joined'
  <2>1. joins[s] <= joins[s]
    BY <1>4 DEF Inv, TypeOK
  <2> QED
    BY <1>1, <1>5, <1>6, <2>1 DEF Delivery, Joined
<1>12. /\ Listed' = Listed /\ \A t : Position(t)' = Position(t) /\ Entry(w, t)' = Entry(w, t)
       /\ Position(index[w])' = Position(s)
  BY <1>1 DEF Listed, Position, Entry
<1>13. ~Passed(w, s)
  <2>1. Position(s) \in Nat
    BY <1>4, PositionIsNode, ListFacts
  <2> QED
    BY <1>1, <1>4, <2>1 DEF Passed
<1>14. e \notin ToSet(delivered[s])
  BY <1>3, <1>4, <1>13 DEF Delivery, Loop, e
<1>15. Loop'
  <2>1. ASSUME NEW t \in Listed, t # s
        PROVE  (Entry(w, t) \in ToSet(delivered[t]))' <=> Passed(w, t)'
    <3>1. delivered'[t] = delivered[t]
      BY <1>4, <2>1, ListFacts
    <3>2. Passed(w, t)' <=> Passed(w, t)
      BY <1>1, <1>2, <1>12, <2>1 DEF Passed
    <3> QED
      BY <1>3, <1>12, <3>1, <3>2 DEF Delivery, Loop
  <2>2. ASSUME NEW t \in Listed, t = s
        PROVE  (Entry(w, t) \in ToSet(delivered[t]))' /\ Passed(w, t)'
    <3>1. n + 1 \in DOMAIN delivered'[t] /\ delivered'[t][n + 1] = e
      BY <1>4, <2>2
    <3>2. Entry(w, t)' = e
      BY <1>1, <2>2 DEF Entry, e
    <3>3. Passed(w, t)'
      BY <1>1, <1>2, <2>2 DEF Passed
    <3> QED
      BY <3>1, <3>2, <3>3 DEF ToSet
  <2>3. ASSUME NEW t \in Listed
        PROVE  (Entry(w, t) \in ToSet(delivered[t]))' <=> Passed(w, t)'
    BY <2>1, <2>2
  <2> QED
    BY <1>3, <1>12, <2>3 DEF Loop
<1>16. OncePerRegistration'
  <2>1. \A t \in Sinks : IsInjective(delivered[t])
    BY DEF Delivery, OncePerRegistration
  <2>2. IsInjective(delivered'[s])
    <3> HIDE DEF s
    <3>1. IsInjective(Append(delivered[s], e))
      BY <1>4, <1>14, <2>1, AppendNoDuplicates
    <3> QED
      BY <1>4, <3>1
  <2> QED
    BY <1>4, <2>1, <2>2 DEF OncePerRegistration
<1>17. AgreedOrder'
  <2> SUFFICES ASSUME NEW t \in Sinks, NEW u \in Sinks,
                      NEW i \in DOMAIN delivered'[t], NEW j \in DOMAIN delivered'[t],
                      NEW k \in DOMAIN delivered'[u], NEW l \in DOMAIN delivered'[u],
                      i < j, k < l,
                      delivered'[t][i].job = delivered'[u][l].job,
                      delivered'[t][j].job = delivered'[u][k].job
               PROVE  delivered'[t][i].job = delivered'[t][j].job
    BY DEF AgreedOrder
  <2>1. \A x \in Sinks : \A a, b \in DOMAIN delivered'[x] :
           a < b /\ delivered'[x][a].job = job[w] => delivered'[x][b].job = job[w]
    BY <1>1, <1>2, <1>10 DEF Final, InDispatch
  <2>2. CASE t = s /\ j = n + 1
    <3>1. delivered'[u][k].job = job[w]
      BY <1>4, <1>5, <2>2
    <3>2. delivered'[u][l].job = job[w]
      BY <2>1, <3>1
    <3> QED
      BY <3>1, <3>2
  <2>3. CASE u = s /\ l = n + 1
    <3>1. delivered'[t][i].job = job[w]
      BY <1>4, <1>5, <2>3
    <3>2. delivered'[t][j].job = job[w]
      BY <2>1, <3>1
    <3> QED
      BY <3>1, <3>2
  <2>4. CASE ~(t = s /\ j = n + 1) /\ ~(u = s /\ l = n + 1)
    <3>1. /\ j \in DOMAIN delivered[t] /\ delivered'[t][j] = delivered[t][j]
          /\ l \in DOMAIN delivered[u] /\ delivered'[u][l] = delivered[u][l]
      BY <1>6, <2>4
    <3>2. /\ i \in DOMAIN delivered[t] /\ delivered'[t][i] = delivered[t][i]
          /\ k \in DOMAIN delivered[u] /\ delivered'[u][k] = delivered[u][k]
      BY <1>4, <1>6, <3>1
    <3> QED
      BY <3>1, <3>2 DEF Delivery, AgreedOrder
  <2> QED
    BY <2>2, <2>3, <2>4
<1> QED
  BY <1>7, <1>8, <1>9, <1>10, <1>11, <1>15, <1>16, <1>17 DEF Delivery

-----------------------------------------------------------------------------
(* Registrations.                                                          *)

LEMMA NestedCallDelivery ==
    ASSUME Inv, Delivery, NEW w \in Workers, NestedCall(w) PROVE Delivery'
<1>1. /\ pc[w] = "callback"
      /\ UNCHANGED <<submitted, queue, pc, job, index, delivered>>
  BY DEF NestedCall, eventVars, workerVars
<1>2. PICK s \in Sinks : (s \in owned /\ AddSink(s)) \/ (s # index[w] /\ RemoveSink(s))
  BY DEF NestedCall
<1>3. OrderKept /\ (Listed' = Listed \cup {s} \/ (s # index[w] /\ Listed' = Listed \ {s}))
  BY <1>2, AddSinkOrder, RemoveSinkOrder, AddSinkEffect, RemoveSinkEffect
<1>4. InDispatch(w) /\ \A v \in Workers : InDispatch(v)' => v = w
  BY <1>1 DEF Inv, IteratorValid, InDispatch
<1>5. JobsOnce' /\ Numbered' /\ Fresh'
  BY <1>1 DEF Delivery, JobsOnce, Numbered, Fresh
<1>6. Final'
  BY <1>1 DEF Delivery, Final, InDispatch
<1>7. Joined'
  <2> SUFFICES ASSUME NEW t \in Sinks, NEW i \in DOMAIN delivered[t]
               PROVE  delivered[t][i].join <= joins'[t]
    BY <1>1 DEF Joined
  <2>1. /\ delivered[t][i].join <= joins[t] /\ joins[t] <= joins'[t]
        /\ delivered[t][i].join \in Nat /\ joins[t] \in Nat /\ joins'[t] \in Nat
    BY <1>3, DeliveredFacts, ListFacts DEF Delivery, Joined, OrderKept
  <2> QED
    BY <2>1
<1>8. Loop'
  <2>1. index[w] \in Listed \cap Listed' /\ index[w] # End
    BY <1>1, <1>3, <1>4 DEF Inv, IteratorValid
  <2>2. Position(index[w])' = Place(notifications', index[w])
    BY <1>1 DEF Position, Place
  <2>3. \A t : Position(t)' = Place(notifications', t)
    BY DEF Position, Place
  <2>4. ASSUME NEW t \in Listed \cap Listed'
        PROVE  (Entry(w, t) \in ToSet(delivered[t]))' <=> Passed(w, t)'
    <3>1. Entry(w, t)' = Entry(w, t)
      BY <1>1, <1>3 DEF Entry, OrderKept
    <3>2. Place(notifications', t) < Place(notifications', index[w])
            <=> Position(t) < Position(index[w])
      BY <1>3, <2>1, <2>3 DEF OrderKept
    <3>3. Passed(w, t)' <=> Passed(w, t)
      BY <1>1, <2>2, <2>3, <3>2 DEF Passed
    <3> QED
      BY <1>1, <1>4, <3>1, <3>3 DEF Delivery, Loop
  <2>5. ASSUME NEW t \in Listed' \ Listed
        PROVE  (Entry(w, t) \in ToSet(delivered[t]))' <=> Passed(w, t)'
    <3>1. t \in Sinks
      BY <1>3, <2>5, ListFacts
    <3>2. joins[t] < joins'[t] /\ joins[t] \in Nat /\ joins'[t] \in Nat
      BY <1>3, <2>5, <3>1, ListFacts DEF OrderKept
    <3>3. \A i \in DOMAIN delivered[t] : delivered[t][i].join # joins'[t]
      <4> TAKE i \in DOMAIN delivered[t]
      <4>1. delivered[t][i].join <= joins[t] /\ delivered[t][i].join \in Nat
        BY <3>1, DeliveredFacts DEF Delivery, Joined
      <4> QED
        BY <3>2, <4>1
    <3>4. Entry(w, t)'.join = joins'[t]
      BY DEF Entry
    <3>5. ~(Entry(w, t)' \in ToSet(delivered'[t]))
      BY <1>1, <3>3, <3>4 DEF ToSet
    <3>6. ~(Place(notifications', t) < Place(notifications', index[w])) /\ t # index[w]
      BY <1>3, <2>1, <2>3, <2>5 DEF OrderKept
    <3>7. ~Passed(w, t)'
      BY <1>1, <2>1, <2>2, <2>3, <3>6 DEF Passed
    <3> QED
      BY <3>5, <3>7
  <2> QED
    BY <1>4, <2>4, <2>5 DEF Loop
<1> QED
  BY <1>1, <1>5, <1>6, <1>7, <1>8, DeliveredFrame DEF Delivery

LEMMA ServeDelivery == ASSUME Inv, Delivery, NEW c \in Callers, Serve(c) PROVE Delivery'
<1>1. /\ call[c] \in Calls /\ adminLock = Free
      /\ UNCHANGED <<submitted, queue, pc, job, index, delivered>>
  BY DEF Serve, Register, Unregister, Query, Locked, Inv, TypeOK, eventVars, workerVars
<1>2. \A v \in Workers : ~InDispatch(v)'
  BY <1>1, NotifierAssumption DEF Inv, IteratorValid, InDispatch
<1>3. (\E s \in Sinks : AddSink(s) \/ RemoveSink(s)) \/ UNCHANGED listVars
  BY <1>1 DEF Serve, Register, Unregister, Query, Locked, Calls
<1>4. CASE UNCHANGED listVars
  BY <1>1, <1>4, Frame DEF listVars
<1>5. CASE \E s \in Sinks : AddSink(s) \/ RemoveSink(s)
  <2>1. OrderKept
    BY <1>5, AddSinkOrder, RemoveSinkOrder
  <2>2. JobsOnce' /\ Numbered' /\ Fresh'
    BY <1>1 DEF Delivery, JobsOnce, Numbered, Fresh
  <2>3. Joined'
    <3> SUFFICES ASSUME NEW t \in Sinks, NEW i \in DOMAIN delivered[t]
                 PROVE  delivered[t][i].join <= joins'[t]
      BY <1>1 DEF Joined
    <3>1. /\ delivered[t][i].join <= joins[t] /\ joins[t] <= joins'[t]
          /\ delivered[t][i].join \in Nat /\ joins[t] \in Nat /\ joins'[t] \in Nat
      BY <2>1, DeliveredFacts, ListFacts DEF Delivery, Joined, OrderKept
    <3> QED
      BY <3>1
  <2>4. Final' /\ Loop'
    BY <1>2 DEF Final, Loop
  <2> QED
    BY <1>1, <2>2, <2>3, <2>4, DeliveredFrame DEF Delivery
<1> QED
  BY <1>3, <1>4, <1>5

LEMMA NextDelivery == ASSUME Inv, Delivery, [Next]_vars PROVE Delivery'
<1>1. CASE \E d \in Devices : Attached(d) \/ Detached(d)
  BY <1>1, HotPlugDelivery DEF Attached, Detached, Events
<1>2. CASE \E w \in Workers : Work(w) \/ NestedCall(w)
  BY <1>2, TakeJobDelivery, DispatchLockDelivery, DispatchCallDelivery,
     DispatchReturnDelivery, DispatchUnlockDelivery, NestedCallDelivery DEF Work
<1>3. CASE \E c \in Clients : Enter(c)
  BY <1>3, Frame DEF Enter, eventVars, workerVars, listVars
<1>4. CASE \E c \in Callers : Serve(c)
  BY <1>4, ServeDelivery
<1>5. CASE \E s \in Sinks : Disown(s)
  BY <1>5, Frame DEF Disown, eventVars, workerVars, listVars
<1>6. CASE UNCHANGED vars
  BY <1>6, Frame DEF vars, eventVars, workerVars, listVars
<1> QED
  BY <1>1, <1>2, <1>3, <1>4, <1>5, <1>6 DEF Next, Quiescent

\* Delivery holds in every reachable state, with Inv.
THEOREM DeliveryInvariance == Spec => [](Inv /\ Delivery)
<1>1. Init => Inv /\ Delivery
  BY InitInv, InitDelivery
<1>2. Inv /\ Delivery /\ [Next]_vars => (Inv /\ Delivery)'
  BY NextInv, NextDelivery
<1> QED
  BY <1>1, <1>2, PTL DEF Spec

-----------------------------------------------------------------------------
(* What a sink relies on.                                                  *)

LEMMA LoopCallsAll == ASSUME Delivery PROVE AllSinksCalled
<1> SUFFICES ASSUME NEW w \in Workers, pc[w] = "loop", index[w] = End, NEW s \in Listed
             PROVE  \E i \in DOMAIN delivered[s] :
                       delivered[s][i] = [job |-> job[w], join |-> joins[s]]
  BY DEF AllSinksCalled
<1>1. Entry(w, s) \in ToSet(delivered[s])
  BY DEF Delivery, Loop, InDispatch, Passed
<1> QED
  BY <1>1 DEF Entry, ToSet

\* When a Dispatch is through the list, every sink which is registered then has had
\* the event, for its present registration.
THEOREM EverySinkCalled == Spec => []AllSinksCalled
<1>1. Inv /\ Delivery => AllSinksCalled
  BY LoopCallsAll
<1> QED
  BY <1>1, DeliveryInvariance, PTL

\* No registration of a sink brings it one event twice.
THEOREM NeverTwice == Spec => []OncePerRegistration
<1>1. Inv /\ Delivery => OncePerRegistration
  BY DEF Delivery
<1> QED
  BY <1>1, DeliveryInvariance, PTL

\* No two sinks hear of two events in different orders, however many workers there
\* are and whatever the callbacks do to the list.
THEOREM OneOrder == Spec => []AgreedOrder
<1>1. Inv /\ Delivery => AgreedOrder
  BY DEF Delivery
<1> QED
  BY <1>1, DeliveryInvariance, PTL

\* Event n waits or is dispatched.
Owed(n) == \/ \E i \in DOMAIN queue : queue[i].id = n
           \/ \E w \in Workers : pc[w] # "idle" /\ job[w].id = n

HasHeard(s, n) == \E i \in DOMAIN delivered[s] : delivered[s][i].job.id = n

LEMMA TakeJobOwes ==
    ASSUME Inv, NEW w \in Workers, TakeJob(w), NEW n, Owed(n) PROVE Owed(n)'
<1>1. /\ queue \in Seq(Job) /\ queue # <<>> /\ queue' = Tail(queue)
      /\ job' = [job EXCEPT ![w] = Head(queue)] /\ pc' = [pc EXCEPT ![w] = "dispatch"]
      /\ pc[w] = "idle" /\ DOMAIN pc = Workers /\ DOMAIN job = Workers
  BY DEF TakeJob, Inv, TypeOK
<1>2. CASE \E v \in Workers : pc[v] # "idle" /\ job[v].id = n
  BY <1>1, <1>2 DEF Owed
<1>3. CASE \E i \in DOMAIN queue : queue[i].id = n
  <2>1. PICK i \in DOMAIN queue : queue[i].id = n
    BY <1>3
  <2>2. CASE i = 1
    BY <1>1, <2>1, <2>2 DEF Owed
  <2>3. CASE i # 1
    <3>1. i - 1 \in DOMAIN Tail(queue) /\ Tail(queue)[i - 1] = queue[i]
      BY <1>1, <2>3
    <3> QED
      BY <1>1, <2>1, <3>1 DEF Owed
  <2> QED
    BY <2>2, <2>3
<1> QED
  BY <1>2, <1>3 DEF Owed

\* An event which a registered sink has yet to hear of is never dropped: as long as the
\* sink is registered the event waits or is dispatched until the sink has heard of it.
\* It is what EventReachesSink asks for, but for the pool's threads going on.
THEOREM OwedUntilHeard ==
    ASSUME NEW s \in Sinks, NEW n
    PROVE  Spec => [][Owed(n) /\ s \in Listed
                        => Owed(n)' \/ HasHeard(s, n)' \/ s \notin Listed']_vars
<1> DEFINE Kept == Owed(n) /\ s \in Listed => Owed(n)' \/ HasHeard(s, n)' \/ s \notin Listed'
<1>1. ASSUME Inv, Delivery, [Next]_vars, Owed(n), s \in Listed
      PROVE  Owed(n)' \/ HasHeard(s, n)' \/ s \notin Listed'
  <2>1. CASE \E d \in Devices : Attached(d) \/ Detached(d)
    <3>1. PICK d \in Devices : Attached(d) \/ Detached(d)
      BY <2>1
    <3>2. UNCHANGED workerVars /\ (UNCHANGED queue \/ \E j : queue' = Append(queue, j))
      BY <3>1 DEF Attached, Detached, HotPlugCallback, dispatchEvent
    <3>3. \A i \in DOMAIN queue : i \in DOMAIN queue' /\ queue'[i] = queue[i]
      BY <3>2 DEF Inv, TypeOK
    <3> QED
      BY <1>1, <3>2, <3>3 DEF Owed, workerVars
  <2>2. ASSUME NEW w \in Workers, Work(w) PROVE Owed(n)' \/ HasHeard(s, n)' \/ s \notin Listed'
    <3>1. CASE TakeJob(w)
      BY <1>1, <3>1, TakeJobOwes
    <3>2. CASE DispatchLock(w) \/ DispatchCall(w) \/ DispatchReturn(w)
      BY <1>1, <3>2 DEF DispatchLock, DispatchCall, DispatchReturn, Owed, Inv, TypeOK
    <3>3. CASE DispatchUnlock(w)
      <4>1. CASE job[w].id = n
        <5>1. PICK i \in DOMAIN delivered[s] :
                 delivered[s][i] = [job |-> job[w], join |-> joins[s]]
          BY <1>1, <3>3, LoopCallsAll DEF DispatchUnlock, AllSinksCalled
        <5>2. delivered[s][i].job.id = n
          BY <4>1, <5>1
        <5>3. delivered' = delivered
          BY <3>3 DEF DispatchUnlock
        <5> QED
          BY <5>2, <5>3 DEF HasHeard
      <4>2. CASE job[w].id # n
        BY <1>1, <3>3, <4>2 DEF DispatchUnlock, Owed, Inv, TypeOK
      <4> QED
        BY <4>1, <4>2
    <3> QED
      BY <2>2, <3>1, <3>2, <3>3 DEF Work
  <2>3. CASE \/ \E w \in Workers : NestedCall(w)
             \/ \E c \in Clients : Enter(c)
             \/ \E c \in Callers : Serve(c)
             \/ \E t \in Sinks : Disown(t)
             \/ UNCHANGED vars
    BY <1>1, <2>3 DEF NestedCall, Enter, Serve, Register, Unregister, Query, Locked, Disown,
                      vars, workerVars, Owed
  <2> QED
    BY <1>1, <2>1, <2>2, <2>3 DEF Next, Quiescent
<1>2. Inv /\ Delivery /\ [Next]_vars => [Kept]_vars
  BY <1>1
<1> QED
  BY <1>2, DeliveryInvariance, PTL DEF Spec
-----------------------------------------------------------------------------
(* One pool thread and devices which can be read: what SettledView needs.  *)

\* The Jobs which were taken from the queue.
Begun == Len(submitted) - Len(queue)

\* The last Job of a device tells whether it is there.
Recorded ==
    \A n \in DOMAIN submitted :
        (\A m \in DOMAIN submitted : m > n => submitted[m].device # submitted[n].device)
          => (submitted[n].event = "ARRIVED" <=> submitted[n].device \in plugged)

\* The Jobs are begun in the order they were submitted in, one by one.
InLine(w) ==
    /\ Len(queue) <= Len(submitted)
    /\ \A i \in DOMAIN queue : queue[i] = submitted[Begun + i]
    /\ pc[w] # "idle" => Begun > 0 /\ job[w] = submitted[Begun]

\* The Dispatch of the Job number n is through with sink s.
Reached(w, s, n) ==
    \/ n < Begun
    \/ n = Begun /\ \/ pc[w] = "idle"
                    \/ InDispatch(w) /\ Entry(w, s) \in ToSet(delivered[s])

\* A sink which never left has heard, after an event, of every later one which has
\* reached it.
Hears(w) ==
    \A s \in Listed : leaves[s] = 0 =>
        \A i \in DOMAIN delivered[s] : \E m \in DOMAIN submitted :
            /\ delivered[s][i].job = submitted[m]
            /\ \A n \in DOMAIN submitted : n > m /\ Reached(w, s, n) =>
                  \E k \in DOMAIN delivered[s] : k > i /\ delivered[s][k].job = submitted[n]

\* A sink which was never registered has heard of nothing.
Silent == \A s \in Sinks : joins[s] = 0 => delivered[s] = <<>>

Settling(w) == Recorded /\ InLine(w) /\ Hears(w) /\ Silent

\* A registration is a sink's first, and it has heard of nothing yet, or it has left
\* before.
LEMMA FirstRegistration ==
    ASSUME Inv, Silent, NEW s \in Sinks, AddSink(s) \/ RemoveSink(s)
    PROVE  /\ \A t \in Listed' : t \in Sinks /\ (leaves'[t] = 0 => leaves[t] = 0)
           /\ \A t \in Listed' \ Listed : leaves'[t] = 0 => delivered[t] = <<>>
           /\ \A t \in Listed' \cap Listed : joins'[t] = joins[t]
           /\ \A t \in Sinks : joins'[t] = 0 => joins[t] = 0
<1>1. /\ joins \in [Sinks -> Nat] /\ leaves \in [Sinks -> Nat] /\ Listed \subseteq Sinks
      /\ \A t \in Sinks \ Listed : joins[t] = leaves[t]
  <2>1. \A t \in Sinks \ Listed : joins[t] - leaves[t] = 0
    BY DEF Inv, Balanced
  <2>2. joins \in [Sinks -> Nat] /\ leaves \in [Sinks -> Nat]
    BY DEF Inv, TypeOK
  <2>3. \A t \in Sinks : joins[t] \in Nat /\ leaves[t] \in Nat
    BY <2>2
  <2> QED
    BY <2>1, <2>2, <2>3, ListFacts
<1>2. OrderKept /\ Listed' \subseteq Sinks
  BY <1>1, AddSinkOrder, RemoveSinkOrder, AddSinkEffect, RemoveSinkEffect
<1>3. \A t \in Sinks : leaves'[t] = leaves[t] \/ leaves'[t] = leaves[t] + 1
  BY <1>1 DEF AddSink, RemoveSink, listVars
<1>4. \A t \in Sinks : leaves'[t] = 0 => leaves[t] = 0
  <2>1. \A t \in Sinks : leaves[t] \in Nat
    BY <1>1
  <2> QED
    BY <1>3, <2>1
<1>5. \A t \in Sinks : joins'[t] = 0 => joins[t] = 0
  <2>1. \A t \in Sinks : joins[t] \in Nat /\ joins'[t] \in Nat /\ joins[t] <= joins'[t]
    BY <1>1, <1>2 DEF OrderKept
  <2> QED
    BY <2>1
<1>6. \A t \in Listed' \ Listed : leaves'[t] = 0 => delivered[t] = <<>>
  BY <1>1, <1>2, <1>4 DEF Silent
<1> QED
  BY <1>2, <1>4, <1>5, <1>6 DEF OrderKept

\* What was heard stays enough as long as no Dispatch gets through with a sink.
LEMMA HearsKept ==
    ASSUME NEW w \in Workers, Hears(w), UNCHANGED <<submitted, delivered>>,
           \A s \in Listed' : leaves'[s] = 0 =>
              \/ delivered[s] = <<>>
              \/ /\ s \in Listed /\ leaves[s] = 0
                 /\ \A n \in DOMAIN submitted : Reached(w, s, n)' => Reached(w, s, n)
    PROVE  Hears(w)'
<1> SUFFICES ASSUME NEW s \in Listed', leaves'[s] = 0, NEW i \in DOMAIN delivered[s]
             PROVE  \E m \in DOMAIN submitted :
                       /\ delivered[s][i].job = submitted[m]
                       /\ \A n \in DOMAIN submitted : n > m /\ Reached(w, s, n)' =>
                             \E k \in DOMAIN delivered[s] :
                                 k > i /\ delivered[s][k].job = submitted[n]
  BY DEF Hears
<1>1. /\ s \in Listed /\ leaves[s] = 0
      /\ \A n \in DOMAIN submitted : Reached(w, s, n)' => Reached(w, s, n)
  OBVIOUS
<1> QED
  BY <1>1 DEF Hears

\* A step which leaves the Jobs, their Dispatch and the list as they are.
LEMMA SettlingFrame ==
    ASSUME NEW w \in Workers, Settling(w),
           UNCHANGED <<plugged, submitted, queue, pc, job, notifications, joins, leaves,
                       delivered>>
    PROVE  Settling(w)'
<1>1. Begun' = Begun /\ Listed' = Listed
  BY DEF Begun, Listed
<1>2. \A s, n : Reached(w, s, n)' <=> Reached(w, s, n)
  BY <1>1 DEF Reached, InDispatch, Entry
<1>3. Hears(w)'
  BY <1>1, <1>2, HearsKept DEF Settling
<1>4. Recorded' /\ InLine(w)' /\ Silent'
  BY <1>1 DEF Settling, Recorded, InLine, Silent
<1> QED
  BY <1>3, <1>4 DEF Settling

\* A callback or a client changes the list.
LEMMA ListSettles ==
    ASSUME Inv, NEW w \in Workers, Settling(w), NEW s \in Sinks, AddSink(s) \/ RemoveSink(s),
           UNCHANGED <<plugged, submitted, queue, pc, job, delivered>>
    PROVE  Settling(w)'
<1>1. Begun' = Begun
  BY DEF Begun
<1>2. /\ \A t \in Listed' : t \in Sinks /\ (leaves'[t] = 0 => leaves[t] = 0)
      /\ \A t \in Listed' \ Listed : leaves'[t] = 0 => delivered[t] = <<>>
      /\ \A t \in Listed' \cap Listed : joins'[t] = joins[t]
      /\ \A t \in Sinks : joins'[t] = 0 => joins[t] = 0
  BY FirstRegistration DEF Settling
<1>3. Hears(w)'
  <2>1. \A t \in Listed' \cap Listed : \A n : Reached(w, t, n)' => Reached(w, t, n)
    BY <1>1, <1>2 DEF Reached, InDispatch, Entry
  <2> QED
    BY <1>2, <2>1, HearsKept DEF Settling
<1>4. Recorded' /\ InLine(w)' /\ Silent'
  BY <1>1, <1>2 DEF Settling, Recorded, InLine, Silent
<1> QED
  BY <1>3, <1>4 DEF Settling

\* The callbacks submit a Job for every change of the bus, if each device can be read.
LEMMA HotPlugSettles ==
    ASSUME Inv, NEW w \in Workers, Settling(w), ~Lossy,
           NEW d \in Devices, NEW event \in Events, HotPlugCallback(event, d),
           \/ event = "ARRIVED" /\ plugged' = plugged \cup {d}
           \/ event = "LEFT" /\ plugged' = plugged \ {d}
    PROVE  Settling(w)'
<1> DEFINE j == [id |-> Len(submitted) + 1, event |-> event, device |-> d]
           N == Len(submitted)
           Q == Len(queue)
<1>1. /\ submitted' = Append(submitted, j) /\ queue' = Append(queue, j)
      /\ UNCHANGED <<pc, job, notifications, joins, leaves, delivered>>
  BY DEF HotPlugCallback, dispatchEvent, workerVars, listVars
<1>2. submitted \in Seq(Job) /\ queue \in Seq(Job)
  BY DEF Inv, TypeOK
<1>3. j \in Job
  <2>1. N + 1 \in 1..MaxEvents
    BY <1>2, NotifierAssumption DEF HotPlugCallback
  <2> QED
    BY <2>1 DEF Job
<1>4. j.device = d /\ j.event = event
  OBVIOUS
<1> HIDE DEF j
<1>5. /\ N \in Nat /\ Q \in Nat
      /\ DOMAIN submitted = 1..N /\ DOMAIN submitted' = 1..(N + 1) /\ Len(submitted') = N + 1
      /\ DOMAIN queue = 1..Q /\ DOMAIN queue' = 1..(Q + 1) /\ Len(queue') = Q + 1
      /\ \A n \in 1..N : submitted'[n] = submitted[n]
      /\ \A i \in 1..Q : queue'[i] = queue[i]
      /\ submitted'[N + 1] = j /\ queue'[Q + 1] = j
  <2>1. submitted' \in Seq(Job) /\ queue' \in Seq(Job)
    BY <1>1, <1>2, <1>3, AppendProperties
  <2> QED
    BY <1>1, <1>2, <1>3, <2>1, AppendProperties
<1> HIDE DEF N, Q
<1>6. /\ Begun' = Begun /\ Begun \in 0..N /\ Q <= N /\ Begun = N - Q
      /\ Listed' = Listed
  <2>1. Q <= N /\ Begun = N - Q
    BY DEF Settling, InLine, Begun, N, Q
  <2>2. Begun' = (N + 1) - (Q + 1)
    BY <1>5 DEF Begun
  <2> QED
    BY <1>1, <1>5, <2>1, <2>2 DEF Listed
<1>7. Recorded'
  <2> SUFFICES ASSUME NEW n \in 1..(N + 1),
                      \A m \in 1..(N + 1) : m > n => submitted'[m].device # submitted'[n].device
               PROVE  submitted'[n].event = "ARRIVED" <=> submitted'[n].device \in plugged'
    BY <1>5 DEF Recorded
  <2>1. CASE n = N + 1
    BY <1>4, <1>5, <2>1
  <2>2. CASE n # N + 1
    <3>1. n \in 1..N /\ N + 1 \in 1..(N + 1) /\ N + 1 > n
      BY <1>5, <2>2
    <3>2. submitted'[n] = submitted[n] /\ submitted[n].device # d
      BY <1>4, <1>5, <3>1
    <3>3. \A m \in 1..N : m > n => submitted[m].device # submitted[n].device
      <4> TAKE m \in 1..N
      <4>1. m \in 1..(N + 1) /\ submitted'[m] = submitted[m]
        BY <1>5
      <4> QED
        BY <3>2, <4>1
    <3>4. submitted[n].event = "ARRIVED" <=> submitted[n].device \in plugged
      BY <1>5, <3>1, <3>3 DEF Settling, Recorded
    <3> QED
      BY <3>2, <3>4
  <2> QED
    BY <2>1, <2>2
<1>8. InLine(w)'
  <2>1. ASSUME NEW i \in 1..(Q + 1) PROVE queue'[i] = submitted'[Begun + i]
    <3>1. CASE i = Q + 1
      <4>1. Begun + i = N + 1
        BY <1>5, <1>6, <3>1
      <4> QED
        BY <1>5, <3>1, <4>1
    <3>2. CASE i # Q + 1
      <4>1. i \in 1..Q /\ Begun + i \in 1..N
        BY <1>5, <1>6, <3>2
      <4>2. queue[i] = submitted[Begun + i]
        BY <1>5, <4>1 DEF Settling, InLine
      <4> QED
        BY <1>5, <4>1, <4>2
    <3> QED
      BY <3>1, <3>2
  <2>2. pc'[w] # "idle" => Begun > 0 /\ job'[w] = submitted'[Begun]
    <3>1. pc[w] # "idle" => Begun > 0 /\ job[w] = submitted[Begun]
      BY DEF Settling, InLine
    <3>2. Begun > 0 => Begun \in 1..N
      BY <1>5, <1>6
    <3> QED
      BY <1>1, <1>5, <3>1, <3>2
  <2>3. Len(queue') <= Len(submitted')
    BY <1>5, <1>6
  <2> QED
    BY <1>5, <1>6, <2>1, <2>2, <2>3 DEF InLine
<1>9. Hears(w)'
  <2> SUFFICES ASSUME NEW s \in Listed, leaves[s] = 0, NEW i \in DOMAIN delivered[s]
               PROVE  \E m \in DOMAIN submitted' :
                         /\ delivered[s][i].job = submitted'[m]
                         /\ \A n \in DOMAIN submitted' : n > m /\ Reached(w, s, n)' =>
                               \E k \in DOMAIN delivered[s] :
                                   k > i /\ delivered[s][k].job = submitted'[n]
    BY <1>1, <1>6 DEF Hears
  <2>1. PICK m \in 1..N :
           /\ delivered[s][i].job = submitted[m]
           /\ \A n \in 1..N : n > m /\ Reached(w, s, n) =>
                 \E k \in DOMAIN delivered[s] : k > i /\ delivered[s][k].job = submitted[n]
    BY <1>5, SMTT(40) DEF Settling, Hears
  <2>2. \A n \in 1..(N + 1) : Reached(w, s, n)' => n \in 1..N /\ Reached(w, s, n)
    <3>1. \A n \in 1..(N + 1) : Reached(w, s, n)' => Reached(w, s, n) /\ n <= Begun
      BY <1>1, <1>6 DEF Reached, InDispatch, Entry
    <3> QED
      BY <1>5, <1>6, <3>1
  <2>3. m \in DOMAIN submitted' /\ delivered[s][i].job = submitted'[m]
    BY <1>5, <2>1
  <2>4. ASSUME NEW n \in DOMAIN submitted', n > m, Reached(w, s, n)'
        PROVE  \E k \in DOMAIN delivered[s] : k > i /\ delivered[s][k].job = submitted'[n]
    BY <1>5, <2>1, <2>2, <2>4
  <2> QED
    BY <2>3, <2>4
<1>10. Silent'
  BY <1>1 DEF Settling, Silent
<1> QED
  BY <1>7, <1>8, <1>9, <1>10 DEF Settling

LEMMA TakeJobSettles ==
    ASSUME Inv, NEW w \in Workers, Settling(w), TakeJob(w) PROVE Settling(w)'
<1> DEFINE N == Len(submitted)
           Q == Len(queue)
<1>1. /\ pc \in [Workers -> {"idle", "dispatch", "loop", "callback"}]
      /\ job \in [Workers -> Job \cup {NoJob}] /\ queue \in Seq(Job) /\ queue # <<>>
      /\ pc[w] = "idle" /\ pc' = [pc EXCEPT ![w] = "dispatch"]
      /\ job' = [job EXCEPT ![w] = Head(queue)] /\ queue' = Tail(queue)
      /\ UNCHANGED <<plugged, submitted, notifications, joins, leaves, delivered>>
  BY DEF TakeJob, Inv, TypeOK, eventVars, listVars
<1>2. pc'[w] = "dispatch" /\ job'[w] = queue[1]
  BY <1>1, HeadTailProperties
<1>3. /\ Q \in Nat \ {0} /\ DOMAIN queue = 1..Q /\ N \in Nat
      /\ Len(queue') = Q - 1 /\ DOMAIN queue' = 1..(Q - 1)
      /\ \A i \in 1..(Q - 1) : queue'[i] = queue[i + 1]
  <2>1. submitted \in Seq(Job)
    BY DEF Inv, TypeOK
  <2>2. queue' \in Seq(Job) /\ Len(queue') = Q - 1
    BY <1>1, HeadTailProperties
  <2> QED
    BY <1>1, <2>1, <2>2, HeadTailProperties, EmptySeq
<1> HIDE DEF N, Q
<1>4. /\ Q <= N /\ Begun = N - Q /\ \A i \in 1..Q : queue[i] = submitted[Begun + i]
      /\ Begun' = Begun + 1
  <2>1. Q <= N /\ Begun = N - Q /\ \A i \in 1..Q : queue[i] = submitted[Begun + i]
    BY <1>3 DEF Settling, InLine, Begun, N, Q
  <2>2. Begun' = N - (Q - 1)
    BY <1>1, <1>3 DEF Begun, N
  <2> QED
    BY <1>3, <2>1, <2>2
<1>5. InLine(w)'
  <2>1. ASSUME NEW i \in 1..(Q - 1) PROVE queue'[i] = submitted[Begun' + i]
    <3>1. i + 1 \in 1..Q /\ Begun + (i + 1) = Begun' + i
      BY <1>3, <1>4
    <3> QED
      BY <1>3, <1>4, <3>1
  <2>2. 1 \in 1..Q /\ Begun' > 0 /\ job'[w] = submitted[Begun']
    BY <1>2, <1>3, <1>4
  <2>3. Len(queue') <= N
    BY <1>3, <1>4
  <2> QED
    BY <1>1, <1>3, <2>1, <2>2, <2>3 DEF InLine, N
<1>6. Hears(w)'
  <2>1. \A s : \A n \in DOMAIN submitted : Reached(w, s, n)' => Reached(w, s, n)
    <3> SUFFICES ASSUME NEW n \in DOMAIN submitted, n < Begun + 1
                 PROVE  n < Begun \/ n = Begun
      BY <1>1, <1>2, <1>4 DEF Reached, InDispatch
    <3>1. n \in Int /\ Begun \in Int
      BY <1>3, <1>4 DEF Inv, TypeOK
    <3> QED
      BY <3>1
  <2>2. Listed' = Listed
    BY <1>1 DEF Listed
  <2> QED
    BY <1>1, <2>1, <2>2, HearsKept DEF Settling
<1>7. Recorded' /\ Silent'
  BY <1>1 DEF Settling, Recorded, Silent
<1> QED
  BY <1>5, <1>6, <1>7 DEF Settling

\* The steps of Dispatch which call nobody: a sink the Dispatch gets through with has
\* had its event.
LEMMA DispatchSettles ==
    ASSUME Inv, Delivery, NEW w \in Workers, Settling(w),
           DispatchLock(w) \/ DispatchReturn(w) \/ DispatchUnlock(w)
    PROVE  Settling(w)'
<1>1. /\ pc \in [Workers -> {"idle", "dispatch", "loop", "callback"}]
      /\ UNCHANGED <<plugged, submitted, queue, notifications, joins, leaves, delivered>>
  BY DEF DispatchLock, DispatchReturn, DispatchUnlock, Inv, TypeOK, eventVars, listVars
<1>2. Begun' = Begun /\ Listed' = Listed /\ pc[w] # "idle"
  BY <1>1 DEF Begun, Listed, DispatchLock, DispatchReturn, DispatchUnlock
<1>3. pc'[w] = "idle" \/ job'[w] = job[w]
  BY <1>1 DEF DispatchLock, DispatchReturn, DispatchUnlock
<1>4. InLine(w)'
  BY <1>1, <1>2, <1>3 DEF Settling, InLine
<1>5. ASSUME NEW s \in Listed, NEW n \in DOMAIN submitted, Reached(w, s, n)'
      PROVE  Reached(w, s, n)
  <2>1. CASE DispatchLock(w)
    <3>1. \A i \in DOMAIN delivered[s] : delivered[s][i].job # job[w]
      BY <2>1, ListFacts DEF DispatchLock, Delivery, Fresh
    <3>2. Entry(w, s)' = Entry(w, s) /\ Entry(w, s).job = job[w]
      BY <1>1, <2>1 DEF DispatchLock, Entry
    <3>3. Entry(w, s) \notin ToSet(delivered[s])
      BY <3>1, <3>2 DEF ToSet
    <3>4. pc'[w] = "loop"
      BY <1>1, <2>1 DEF DispatchLock
    <3> QED
      BY <1>1, <1>2, <1>5, <3>2, <3>3, <3>4 DEF Reached
  <2>2. CASE DispatchReturn(w)
    <3>1. pc[w] = "callback" /\ pc'[w] = "loop" /\ Entry(w, s)' = Entry(w, s)
      BY <1>1, <2>2 DEF DispatchReturn, Entry, listVars
    <3> QED
      BY <1>1, <1>2, <1>5, <3>1 DEF Reached, InDispatch
  <2>3. CASE DispatchUnlock(w)
    <3>1. pc[w] = "loop" /\ index[w] = End
      BY <2>3 DEF DispatchUnlock
    <3>2. Entry(w, s) \in ToSet(delivered[s])
      BY <3>1 DEF Delivery, Loop, InDispatch, Passed
    <3> QED
      BY <1>2, <1>5, <3>1, <3>2 DEF Reached, InDispatch
  <2> QED
    BY <2>1, <2>2, <2>3
<1>6. Hears(w)'
  BY <1>1, <1>2, <1>5, HearsKept DEF Settling
<1>7. Recorded' /\ Silent'
  BY <1>1 DEF Settling, Recorded, Silent
<1> QED
  BY <1>4, <1>6, <1>7 DEF Settling

\* The event a sink is called with is the next for it.
LEMMA DispatchCallSettles ==
    ASSUME Inv, NEW w \in Workers, Settling(w), DispatchCall(w) PROVE Settling(w)'
<1> DEFINE s == index[w]
           e == Entry(w, s)
           l == Len(delivered[s])
<1>1. /\ pc \in [Workers -> {"idle", "dispatch", "loop", "callback"}]
      /\ pc[w] = "loop" /\ pc' = [pc EXCEPT ![w] = "callback"]
      /\ UNCHANGED <<plugged, submitted, queue, job, notifications, joins, leaves>>
  BY DEF DispatchCall, Inv, TypeOK, eventVars, listVars
<1>2. /\ s \in Listed /\ s \in Sinks /\ l \in Nat
      /\ \A t \in Sinks \ {s} : delivered'[t] = delivered[t]
      /\ DOMAIN delivered[s] = 1..l /\ DOMAIN delivered'[s] = 1..(l + 1)
      /\ \A i \in 1..l : delivered'[s][i] = delivered[s][i]
      /\ delivered'[s][l + 1] = e
  BY CallAppends
<1>3. /\ Begun' = Begun /\ Listed' = Listed /\ pc'[w] = "callback"
      /\ InDispatch(w) /\ InDispatch(w)' /\ e.job = job[w]
      /\ \A t : Entry(w, t)' = Entry(w, t)
  BY <1>1 DEF Begun, Listed, InDispatch, Entry
<1>4. job[w] = submitted[Begun] /\ Begun \in DOMAIN submitted
  <2>1. job[w] = submitted[Begun] /\ Begun > 0 /\ Begun = Len(submitted) - Len(queue)
    BY <1>1 DEF Settling, InLine, Begun
  <2>2. submitted \in Seq(Job) /\ queue \in Seq(Job)
    BY DEF Inv, TypeOK
  <2>3. Len(submitted) \in Nat /\ Len(queue) \in Nat /\ DOMAIN submitted = 1..Len(submitted)
    BY <2>2
  <2> QED
    BY <2>1, <2>3
<1> HIDE DEF s, e, l
<1>5. Hears(w)'
  <2> SUFFICES ASSUME NEW t \in Listed, leaves[t] = 0, NEW i \in DOMAIN delivered'[t]
               PROVE  \E m \in DOMAIN submitted :
                         /\ delivered'[t][i].job = submitted[m]
                         /\ \A n \in DOMAIN submitted : n > m /\ Reached(w, t, n)' =>
                               \E k \in DOMAIN delivered'[t] :
                                   k > i /\ delivered'[t][k].job = submitted[n]
    BY <1>1, <1>3 DEF Hears
  <2>1. CASE t # s
    <3>1. delivered'[t] = delivered[t] /\ t \in Sinks
      BY <1>2, <2>1, ListFacts
    <3>2. \A n : Reached(w, t, n)' <=> Reached(w, t, n)
      BY <1>1, <1>3, <3>1 DEF Reached
    <3> QED
      BY <3>1, <3>2 DEF Settling, Hears
  <2>2. CASE t = s /\ i # l + 1
    <3>1. i \in 1..l
      BY <1>2, <2>2
    <3>2. PICK m \in DOMAIN submitted :
             /\ delivered[t][i].job = submitted[m]
             /\ \A n \in DOMAIN submitted : n > m /\ Reached(w, t, n) =>
                   \E k \in DOMAIN delivered[t] : k > i /\ delivered[t][k].job = submitted[n]
      BY <1>2, <2>2, <3>1 DEF Settling, Hears
    <3>3. ASSUME NEW n \in DOMAIN submitted, n > m, Reached(w, t, n)'
          PROVE  \E k \in 1..(l + 1) : k > i /\ delivered'[t][k].job = submitted[n]
      <4>1. CASE n = Begun
        <5>1. l + 1 \in 1..(l + 1) /\ l + 1 > i
          BY <1>2, <3>1
        <5> QED
          BY <1>2, <1>3, <1>4, <2>2, <4>1, <5>1
      <4>2. CASE n # Begun
        <5>1. Reached(w, t, n)
          BY <1>3, <3>3, <4>2 DEF Reached
        <5>2. PICK k \in 1..l : k > i /\ delivered[t][k].job = submitted[n]
          BY <1>2, <2>2, <3>2, <3>3, <5>1
        <5>3. k \in 1..(l + 1)
          BY <1>2
        <5> QED
          BY <1>2, <2>2, <5>2, <5>3
      <4> QED
        BY <4>1, <4>2
    <3>4. delivered'[t][i].job = submitted[m] /\ DOMAIN delivered'[t] = 1..(l + 1)
      BY <1>2, <2>2, <3>1, <3>2
    <3> QED
      BY <3>3, <3>4
  <2>3. CASE t = s /\ i = l + 1
    <3>1. delivered'[t][i].job = submitted[Begun]
      BY <1>2, <1>3, <1>4, <2>3
    <3>2. \A n \in DOMAIN submitted : Reached(w, t, n)' => ~(n > Begun)
      <4> SUFFICES ASSUME NEW n \in DOMAIN submitted, n < Begun \/ n = Begun
                   PROVE  ~(n > Begun)
        BY <1>3 DEF Reached
      <4>1. n \in Int /\ Begun \in Int
        BY <1>4 DEF Inv, TypeOK
      <4> QED
        BY <4>1
    <3> QED
      BY <1>4, <3>1, <3>2
  <2> QED
    BY <2>1, <2>2, <2>3
<1>6. Silent'
  <2>1. joins[s] # 0
    <3>1. joins[s] - leaves[s] = 1 /\ joins[s] \in Nat /\ leaves[s] \in Nat
      BY <1>2 DEF Inv, TypeOK, Balanced
    <3> QED
      BY <3>1
  <2> QED
    BY <1>1, <1>2, <2>1 DEF Settling, Silent
<1>7. Recorded' /\ InLine(w)'
  BY <1>1, <1>3 DEF Settling, Recorded, InLine
<1> QED
  BY <1>5, <1>6, <1>7 DEF Settling

LEMMA InitSettling == ASSUME Init, NEW w \in Workers PROVE Settling(w)
<1>1. /\ submitted = <<>> /\ queue = <<>> /\ notifications = <<>> /\ pc[w] = "idle"
      /\ \A s \in Sinks : delivered[s] = <<>>
  BY DEF Init
<1>2. Recorded /\ Silent /\ Hears(w)
  BY <1>1 DEF Recorded, Silent, Hears, Listed, ToSet
<1>3. InLine(w)
  BY <1>1 DEF InLine
<1> QED
  BY <1>2, <1>3 DEF Settling

LEMMA NextSettling ==
    ASSUME ~Lossy, NEW w, Workers = {w}, Inv, Delivery, Settling(w), [Next]_vars
    PROVE  Settling(w)'
<1> USE DEF eventVars, workerVars, listVars, callVars
<1>1. ASSUME NEW d \in Devices, Attached(d) \/ Detached(d) PROVE Settling(w)'
  BY <1>1, HotPlugSettles DEF Attached, Detached, Events
<1>2. CASE Work(w)
  BY <1>2, TakeJobSettles, DispatchSettles, DispatchCallSettles DEF Work
<1>3. CASE NestedCall(w)
  <2>1. \E s \in Sinks : AddSink(s) \/ RemoveSink(s)
    BY <1>3 DEF NestedCall
  <2> QED
    BY <1>3, <2>1, ListSettles DEF NestedCall
<1>4. ASSUME NEW c \in Clients, Enter(c) PROVE Settling(w)'
  BY <1>4, SettlingFrame DEF Enter
<1>5. ASSUME NEW c \in Callers, Serve(c) PROVE Settling(w)'
  <2>1. /\ call[c] \in Calls
        /\ UNCHANGED <<plugged, submitted, queue, pc, job, delivered>>
    BY <1>5 DEF Serve, Register, Unregister, Query, Locked, Inv, TypeOK
  <2>2. (\E s \in Sinks : AddSink(s) \/ RemoveSink(s)) \/ UNCHANGED listVars
    BY <1>5, <2>1 DEF Serve, Register, Unregister, Query, Locked, Calls
  <2> QED
    BY <2>1, <2>2, ListSettles, SettlingFrame
<1>6. ASSUME NEW s \in Sinks, Disown(s) PROVE Settling(w)'
  BY <1>6, SettlingFrame DEF Disown
<1>7. CASE UNCHANGED vars
  BY <1>7, SettlingFrame DEF vars
<1> QED
  BY <1>1, <1>2, <1>3, <1>4, <1>5, <1>6, <1>7 DEF Next, Quiescent

\* With one pool thread, and devices which can be read, a sink which stays registered
\* ends with the right view of every device it has heard of, whoever else comes, goes
\* or calls back: that there are several threads is all that breaks it.
THEOREM OneThreadSettles ==
    ASSUME ~Lossy, NEW w, Workers = {w} PROVE Spec => []SettledView
<1>1. Init => Settling(w)
  BY InitSettling
<1>2. Inv /\ Delivery /\ Settling(w) /\ [Next]_vars => Settling(w)'
  BY NextSettling
<1>3. Inv /\ Settling(w) => SettledView
  <2> SUFFICES ASSUME Inv, Settling(w), queue = <<>>, pc[w] = "idle",
                      NEW s \in Listed, leaves[s] = 0, NEW i \in DOMAIN delivered[s],
                      \A k \in DOMAIN delivered[s] : k > i =>
                          delivered[s][k].job.device # delivered[s][i].job.device
               PROVE  delivered[s][i].job.event = "ARRIVED"
                        <=> delivered[s][i].job.device \in plugged
    BY DEF SettledView
  <2>1. PICK m \in DOMAIN submitted :
           /\ delivered[s][i].job = submitted[m]
           /\ \A n \in DOMAIN submitted : n > m /\ Reached(w, s, n) =>
                 \E k \in DOMAIN delivered[s] : k > i /\ delivered[s][k].job = submitted[n]
    BY DEF Settling, Hears
  <2>2. \A n \in DOMAIN submitted : Reached(w, s, n)
    <3>1. submitted \in Seq(Job) /\ Begun = Len(submitted) - 0
      BY DEF Begun, Inv, TypeOK
    <3>2. \A n \in DOMAIN submitted : n < Begun \/ n = Begun
      BY <3>1
    <3> QED
      BY <3>2 DEF Reached
  <2>3. \A n \in DOMAIN submitted : n > m => submitted[n].device # submitted[m].device
    BY <2>1, <2>2
  <2> QED
    BY <2>1, <2>3 DEF Settling, Recorded
<1> QED
  BY <1>1, <1>2, <1>3, DeliveryInvariance, PTL DEF Spec
=============================================================================
