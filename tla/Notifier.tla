------------------------------ MODULE Notifier ------------------------------
(***************************************************************************)
(* The notification path of USBDeviceImplementation: the list of sinks     *)
(* guarded by _adminLock, the jobs the libusb event thread submits to the  *)
(* worker pool, and the worker threads which walk the list and call every  *)
(* sink while they hold the lock.                                          *)
(*                                                                         *)
(* Every critical section of the interface other than Dispatch makes no    *)
(* call out of the object, so it is one step which needs the lock free.    *)
(* Dispatch calls the sinks inside its critical section, so it is a        *)
(* sequence of steps of its worker: lock, call, return, ..., unlock.       *)
(*                                                                         *)
(* An operator named Slip... is a plausible slip in the definition which   *)
(* follows it, never part of the specification: it shows that a property   *)
(* would notice.                                                           *)
(***************************************************************************)
EXTENDS SequencesExt

CONSTANTS
    Sinks,          \* objects with the INotification interface
    Clients,        \* threads which call the interface
    Workers,        \* threads of the worker pool
    Devices,        \* USB devices which come and go
    Reentrant,      \* in-process sinks whose callback calls Register/Unregister
    Querying,       \* out-of-process sinks whose callback queries the plugin
    MaxEvents,      \* bound on the hot-plug events
    MaxCalls,       \* bound on the calls to Register, Unregister and the queries
    Lossy,          \* TRUE when reading the device's descriptor may fail
    Free, End, Idle \* no lock owner, end() of the list, no call in progress

ASSUME NotifierAssumption ==
    /\ Reentrant \subseteq Sinks /\ Querying \subseteq Sinks
    /\ MaxEvents \in Nat /\ MaxCalls \in Nat
    /\ Lossy \in BOOLEAN
    /\ Clients \cap Sinks = {}
    /\ Free \notin Workers /\ End \notin Sinks
    /\ Idle \notin [op : {"Register", "Unregister"}, sink : Sinks]
                      \cup [op : {"Query"}]

VARIABLES
    plugged,       \* the devices on the bus, as the callbacks reported them
    submitted,     \* history: the jobs in the order they were submitted
    queue,         \* the worker pool's queue of jobs
    pc,            \* what each worker is doing
    job,           \* the job each worker is running
    index,         \* the list iterator of each worker's Dispatch
    adminLock,     \* the owner of _adminLock
    notifications, \* _usbDeviceNotification
    refs,          \* references the implementation holds on each sink
    owned,         \* the sinks whose owner still holds a reference
    call,          \* the interface call each client, or remote callback, has made
    calls,         \* number of calls made, for the bound MaxCalls
    joins, leaves, \* history: registrations made and ERROR_NONE answers to Unregister
    delivered      \* history: the callbacks each sink has had

eventVars  == <<plugged, submitted>>
workerVars == <<pc, job, index, adminLock>>
listVars   == <<notifications, refs, joins, leaves>>
callVars   == <<call, calls, owned>>
vars == <<eventVars, queue, workerVars, listVars, callVars, delivered>>

Events == {"ARRIVED", "LEFT"}
Job    == [id : 1..MaxEvents, event : Events, device : Devices]
NoJob  == [id |-> 0]
Listed == ToSet(notifications)

\* A callback of an out-of-process sink is a caller too: it runs in a thread of
\* the client, and its query arrives on a thread of its own.
Callers == Clients \cup Sinks
Calls   == [op : {"Register", "Unregister"}, sink : Sinks] \cup [op : {"Query"}]

Init ==
    /\ plugged = {}
    /\ submitted = <<>>
    /\ queue = <<>>
    /\ pc = [w \in Workers |-> "idle"]
    /\ job = [w \in Workers |-> NoJob]
    /\ index = [w \in Workers |-> End]
    /\ adminLock = Free
    /\ notifications = <<>>
    /\ refs = [s \in Sinks |-> 0]
    /\ owned = Sinks
    /\ call = [c \in Callers |-> Idle]
    /\ calls = 0
    /\ joins = [s \in Sinks |-> 0]
    /\ leaves = [s \in Sinks |-> 0]
    /\ delivered = [s \in Sinks |-> <<>>]

-----------------------------------------------------------------------------
(* The std::list and its iterators: an iterator is the node it stands on.  *)

Position(s) == CHOOSE i \in DOMAIN notifications : notifications[i] = s

\* begin() and operator++
First == IF notifications = <<>> THEN End ELSE notifications[1]

SlipSkipsLast(s) == IF Position(s) + 1 >= Len(notifications)
                      THEN End ELSE notifications[Position(s) + 1]

NodeAfter(s) == IF s \in Listed /\ Position(s) < Len(notifications)
                  THEN notifications[Position(s) + 1] ELSE End

-----------------------------------------------------------------------------
(* The bodies of Register and Unregister, with _adminLock held.            *)

SlipNoAddRef(s) ==
    IF s \in Listed
      THEN UNCHANGED listVars
      ELSE /\ notifications' = Append(notifications, s)
           /\ joins' = [joins EXCEPT ![s] = @ + 1]
           /\ UNCHANGED <<refs, leaves>>

SlipNoFind(s) ==
    /\ notifications' = Append(notifications, s)
    /\ refs' = [refs EXCEPT ![s] = @ + 1]
    /\ joins' = [joins EXCEPT ![s] = @ + 1]
    /\ UNCHANGED leaves

\* Register: a sink which is in the list already is not added a second time.
AddSink(s) ==
    IF s \in Listed
      THEN UNCHANGED listVars
      ELSE /\ notifications' = Append(notifications, s)
           /\ refs' = [refs EXCEPT ![s] = @ + 1]
           /\ joins' = [joins EXCEPT ![s] = @ + 1]
           /\ UNCHANGED leaves

SlipReleaseUnfound(s) ==
    /\ refs' = [refs EXCEPT ![s] = @ - 1]
    /\ IF s \in Listed
         THEN /\ notifications' = RemoveAt(notifications, Position(s))
              /\ leaves' = [leaves EXCEPT ![s] = @ + 1]
         ELSE UNCHANGED <<notifications, leaves>>
    /\ UNCHANGED joins

\* Unregister: ERROR_NONE and one reference less, or ERROR_GENERAL when not found.
RemoveSink(s) ==
    IF s \in Listed
      THEN /\ notifications' = RemoveAt(notifications, Position(s))
           /\ refs' = [refs EXCEPT ![s] = @ - 1]
           /\ leaves' = [leaves EXCEPT ![s] = @ + 1]
           /\ UNCHANGED joins
      ELSE UNCHANGED listVars

-----------------------------------------------------------------------------
(* The libusb event thread.                                                *)

\* dispatchEvent: Submit(Job::Create(this, event, usbDevice))
dispatchEvent(event, d) ==
    LET j == [id |-> Len(submitted) + 1, event |-> event, device |-> d]
    IN  /\ submitted' = Append(submitted, j)
        /\ queue' = Append(queue, j)

\* Either callback: the job is submitted only when the device could be read.
HotPlugCallback(event, d) ==
    /\ Len(submitted) < MaxEvents
    /\ \/ dispatchEvent(event, d)
       \/ Lossy /\ UNCHANGED <<submitted, queue>>
    /\ UNCHANGED <<workerVars, listVars, callVars, delivered>>

Attached(d) ==
    /\ d \notin plugged
    /\ plugged' = plugged \cup {d}
    /\ HotPlugCallback("ARRIVED", d)

Detached(d) ==
    /\ d \in plugged
    /\ plugged' = plugged \ {d}
    /\ HotPlugCallback("LEFT", d)

-----------------------------------------------------------------------------
(* The workers: Job::Dispatch.                                             *)

SlipJobStays(w) ==
    /\ pc[w] = "idle"
    /\ queue # <<>>
    /\ job' = [job EXCEPT ![w] = Head(queue)]
    /\ pc' = [pc EXCEPT ![w] = "dispatch"]
    /\ UNCHANGED <<eventVars, queue, index, adminLock, listVars, callVars, delivered>>

TakeJob(w) ==
    /\ pc[w] = "idle"
    /\ queue # <<>>
    /\ job' = [job EXCEPT ![w] = Head(queue)]
    /\ queue' = Tail(queue)
    /\ pc' = [pc EXCEPT ![w] = "dispatch"]
    /\ UNCHANGED <<eventVars, index, adminLock, listVars, callVars, delivered>>

SlipNoLock(w) ==
    /\ pc[w] = "dispatch"
    /\ adminLock' = w
    /\ index' = [index EXCEPT ![w] = First]
    /\ pc' = [pc EXCEPT ![w] = "loop"]
    /\ UNCHANGED <<eventVars, queue, job, listVars, callVars, delivered>>

SlipMissingCase(w) ==
    /\ pc[w] = "dispatch"
    /\ adminLock = Free
    /\ adminLock' = w
    /\ index' = [index EXCEPT ![w] = IF job[w].event = "LEFT" THEN End ELSE First]
    /\ pc' = [pc EXCEPT ![w] = "loop"]
    /\ UNCHANGED <<eventVars, queue, job, listVars, callVars, delivered>>

DispatchLock(w) ==
    /\ pc[w] = "dispatch"
    /\ adminLock = Free
    /\ adminLock' = w
    /\ index' = [index EXCEPT ![w] = First]
    /\ pc' = [pc EXCEPT ![w] = "loop"]
    /\ UNCHANGED <<eventVars, queue, job, listVars, callVars, delivered>>

\* (*index)->OnDevicePluggedIn or OnDevicePluggedOut begins. The callback of a
\* querying sink sends its query and will not return before it has the answer.
DispatchCall(w) ==
    /\ pc[w] = "loop"
    /\ index[w] # End
    /\ LET s == index[w]
       IN  /\ delivered' = [delivered EXCEPT ![s] =
                              Append(@, [job |-> job[w], join |-> joins[s]])]
           /\ call' = IF s \in Querying
                        THEN [call EXCEPT ![s] = [op |-> "Query"]] ELSE call
    /\ pc' = [pc EXCEPT ![w] = "callback"]
    /\ UNCHANGED <<eventVars, queue, job, index, adminLock, listVars, owned, calls>>

\* The callback returns, and the loop goes on to the next node.
DispatchReturn(w) ==
    /\ pc[w] = "callback"
    /\ call[index[w]] = Idle
    /\ index' = [index EXCEPT ![w] = NodeAfter(index[w])]
    /\ pc' = [pc EXCEPT ![w] = "loop"]
    /\ UNCHANGED <<eventVars, queue, job, adminLock, listVars, callVars, delivered>>

SlipReturnsLocked(w) ==
    /\ pc[w] = "loop"
    /\ index[w] = End
    /\ adminLock' = IF notifications = <<>> THEN adminLock ELSE Free
    /\ job' = [job EXCEPT ![w] = NoJob]
    /\ pc' = [pc EXCEPT ![w] = "idle"]
    /\ UNCHANGED <<eventVars, queue, index, listVars, callVars, delivered>>

DispatchUnlock(w) ==
    /\ pc[w] = "loop"
    /\ index[w] = End
    /\ adminLock' = Free
    /\ job' = [job EXCEPT ![w] = NoJob]
    /\ pc' = [pc EXCEPT ![w] = "idle"]
    /\ UNCHANGED <<eventVars, queue, index, listVars, callVars, delivered>>

\* A callback on the worker's own thread may call the interface: _adminLock is
\* recursive. Erasing the node the loop stands on would leave the iterator
\* invalid, which std::list leaves undefined, so a sink does not unregister
\* itself in its own callback.
NestedCall(w) ==
    /\ pc[w] = "callback"
    /\ index[w] \in Reentrant
    /\ calls < MaxCalls
    /\ calls' = calls + 1
    /\ \E s \in Sinks :
          \/ s \in owned /\ AddSink(s)
          \/ s # index[w] /\ RemoveSink(s)
    /\ UNCHANGED <<eventVars, queue, workerVars, owned, call, delivered>>

-----------------------------------------------------------------------------
(* The clients.                                                            *)

\* A client enters a call; it passes a sink it still owns to Register.
Enter(c) ==
    /\ call[c] = Idle
    /\ calls < MaxCalls
    /\ calls' = calls + 1
    /\ \E request \in Calls :
          /\ request.op = "Register" => request.sink \in owned
          /\ call' = [call EXCEPT ![c] = request]
    /\ UNCHANGED <<eventVars, queue, workerVars, listVars, owned, delivered>>

\* A call takes _adminLock, does its work and returns.
Locked(c, op) ==
    /\ call[c] # Idle /\ call[c].op = op
    /\ adminLock = Free
    /\ call' = [call EXCEPT ![c] = Idle]
    /\ UNCHANGED <<eventVars, queue, workerVars, owned, calls, delivered>>

Unlocked(c, op) ==
    /\ call[c] # Idle /\ call[c].op = op
    /\ call' = [call EXCEPT ![c] = Idle]
    /\ UNCHANGED <<eventVars, queue, workerVars, owned, calls, delivered>>

SlipRegisterUnlocked(c)   == Unlocked(c, "Register")   /\ AddSink(call[c].sink)
SlipUnregisterUnlocked(c) == Unlocked(c, "Unregister") /\ RemoveSink(call[c].sink)

Register(c)   == Locked(c, "Register")   /\ AddSink(call[c].sink)
Unregister(c) == Locked(c, "Unregister") /\ RemoveSink(call[c].sink)

\* GetDeviceInfo, BindDriver and UnbindDriver: the lock, and no change to the list.
Query(c) == Locked(c, "Query") /\ UNCHANGED listVars

\* The owner gives up its reference: the list may hold the last one.
Disown(s) ==
    /\ s \in owned
    /\ \A c \in Clients : call[c] # [op |-> "Register", sink |-> s]
    /\ owned' = owned \ {s}
    /\ UNCHANGED <<eventVars, queue, workerVars, listVars, call, calls, delivered>>

-----------------------------------------------------------------------------
Work(w) == \/ TakeJob(w) \/ DispatchLock(w) \/ DispatchCall(w)
           \/ DispatchReturn(w) \/ DispatchUnlock(w)

Serve(c) == Register(c) \/ Unregister(c) \/ Query(c)

\* Nothing is left to do: the plugin waits for the next event or call.
Quiescent ==
    /\ queue = <<>> /\ \A w \in Workers : pc[w] = "idle"
    /\ \A c \in Callers : call[c] = Idle
    /\ UNCHANGED vars

Next ==
    \/ \E d \in Devices : Attached(d) \/ Detached(d)
    \/ \E w \in Workers : Work(w) \/ NestedCall(w)
    \/ \E c \in Clients : Enter(c)
    \/ \E c \in Callers : Serve(c)
    \/ \E s \in Sinks : Disown(s)
    \/ Quiescent

Spec == Init /\ [][Next]_vars

\* Each pool thread keeps running, a callback returns, and a thread waiting for
\* _adminLock gets it once it stays free. Nothing obliges a client to call.
Fairness ==
    /\ \A w \in Workers : WF_vars(Work(w))
    /\ \A c \in Callers : WF_vars(Serve(c))

FairSpec == Spec /\ Fairness
-----------------------------------------------------------------------------
(* Properties.                                                             *)

TypeOK ==
    /\ plugged \subseteq Devices
    /\ submitted \in Seq(Job) /\ queue \in Seq(Job)
    /\ pc \in [Workers -> {"idle", "dispatch", "loop", "callback"}]
    /\ job \in [Workers -> Job \cup {NoJob}]
    /\ index \in [Workers -> Sinks \cup {End}]
    /\ adminLock \in Workers \cup {Free}
    /\ notifications \in Seq(Sinks)
    /\ refs \in [Sinks -> Nat]
    /\ owned \subseteq Sinks
    /\ call \in [Callers -> Calls \cup {Idle}]
    /\ calls \in Nat
    /\ joins \in [Sinks -> Nat] /\ leaves \in [Sinks -> Nat]
    /\ delivered \in [Sinks -> Seq([job : Job \cup {NoJob}, join : Nat])]

InDispatch(w) == pc[w] \in {"loop", "callback"}

\* The iterator of a Dispatch always stands on a node of the list or at its end,
\* whatever the clients and the callbacks register and unregister meanwhile:
\* only the owner of _adminLock walks the list.
IteratorValid ==
    \A w \in Workers : InDispatch(w) =>
        /\ adminLock = w
        /\ index[w] \in Listed \cup {End}
        /\ pc[w] = "callback" => index[w] # End

\* A sink is never called after its last reference is gone, though its owner
\* may drop its own reference at any moment, and another client unregister it.
CalledSinkAlive ==
    \A w \in Workers : pc[w] = "callback" =>
        index[w] \in owned \/ refs[index[w]] > 0

\* However many clients register and unregister the same sink, it is in the list
\* once at most, and AddRef and Release on it balance: one reference per
\* registration which no successful Unregister has ended.
Balanced ==
    /\ IsInjective(notifications)
    /\ \A s \in Sinks : /\ refs[s] = joins[s] - leaves[s]
                        /\ refs[s] = IF s \in Listed THEN 1 ELSE 0

\* When a Dispatch reaches the end of the list, every sink then registered has
\* had this event, those a callback registered meanwhile included.
AllSinksCalled ==
    \A w \in Workers : pc[w] = "loop" /\ index[w] = End =>
        \A s \in Listed : \E i \in DOMAIN delivered[s] :
            delivered[s][i] = [job |-> job[w], join |-> joins[s]]

\* One registration of a sink never brings it the same event twice.
OncePerRegistration == \A s \in Sinks : IsInjective(delivered[s])

\* Any two sinks which hear the same two events hear them in the same order,
\* also when several workers dispatch at once.
AgreedOrder ==
    \A s, t \in Sinks :
        \A i, j \in DOMAIN delivered[s], k, l \in DOMAIN delivered[t] :
            (/\ i < j /\ k < l
             /\ delivered[s][i].job = delivered[t][l].job
             /\ delivered[s][j].job = delivered[t][k].job)
            => delivered[s][i].job = delivered[s][j].job

\* With nothing left to dispatch, the last event a sink has heard of a device
\* tells whether the device is plugged in, if the sink has stayed registered.
SettledView ==
    (queue = <<>> /\ \A w \in Workers : pc[w] = "idle") =>
        \A s \in Listed : leaves[s] = 0 =>
            \A i \in DOMAIN delivered[s] :
                LET d == delivered[s][i].job.device
                IN  (\A k \in DOMAIN delivered[s] :
                         k > i => delivered[s][k].job.device # d)
                    => (delivered[s][i].job.event = "ARRIVED" <=> d \in plugged)

\* Event n is submitted and no worker has begun to dispatch it.
Waits(n) == \/ \E i \in DOMAIN queue : queue[i].id = n
            \/ \E w \in Workers : pc[w] = "dispatch" /\ job[w].id = n

\* A sink which is registered while an event waits hears of it in the end,
\* unless it is unregistered.
EventReachesSink ==
    \A s \in Sinks, n \in 1..MaxEvents :
        Waits(n) /\ s \in Listed ~>
            \/ s \notin Listed
            \/ \E i \in DOMAIN delivered[s] : delivered[s][i].job.id = n

\* Every call of the interface returns: no caller waits for _adminLock forever.
CallsReturn == \A c \in Callers : call[c] # Idle ~> call[c] = Idle
=============================================================================
