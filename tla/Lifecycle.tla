----------------------------- MODULE Lifecycle -----------------------------
(***************************************************************************)
(* The life of the plugin's implementation object: activation, the libusb  *)
(* event thread it starts, the Jobs which hold references on it, the       *)
(* release at deactivation, and the destructor, which runs on whichever    *)
(* thread drops the last reference.                                        *)
(*                                                                         *)
(* The plugin runs in one process with its implementation. Activations     *)
(* follow each other: Initialize waits until the last object is gone.      *)
(*                                                                         *)
(* `fault' names the first thing the code does that ends the process or    *)
(* that C++ leaves undefined; nothing happens after it. The properties say *)
(* what holds up to there; NoSelfJoin and NoUseOfDeadObject say of a fault *)
(* that it never happens.                                                  *)
(*                                                                         *)
(* An operator named Slip... is a plausible slip in the definition which   *)
(* follows it; it is no part of the specification.                         *)
(***************************************************************************)
EXTENDS SequencesExt

CONSTANTS
    Workers,        \* threads of the worker pool
    MaxActivations, \* bound on the calls to Initialize
    MaxJobs,        \* bound on the Jobs created
    MaxPending,     \* bound on the hot-plug messages libusb holds
    Outcomes,       \* the outcomes of libUSBInit considered
    None            \* no thread, no Job

ASSUME LifecycleAssumption ==
    /\ MaxActivations \in Nat /\ MaxJobs \in Nat /\ MaxPending \in Nat
    /\ Outcomes \subseteq {"ok", "context", "capability", "attached", "detached"}
    /\ None \notin Workers /\ None \notin Nat
    /\ Workers \cap {"main", "events"} = {}

VARIABLES
    mainPc,       \* where the thread which runs Initialize and Deinitialize is
    activations,  \* calls to Initialize
    result,       \* what Release returned in Deinitialize
    registered,   \* whether the plugin's own sink is in the notification list
    obj,          \* the implementation object
    refCount,     \* its reference count
    closer,       \* the thread which runs its destructor, and
    closePc,      \*   where it is in libUSBClose
    handling,     \* _handlingUSBDeviceEvents
    ctx,          \* whether libusb's default context is initialised
    callbacks,    \* the hot-plug callbacks registered in it
    wake,         \* whether libusb has been told to interrupt handle_events
    pending,      \* hot-plug messages libusb has not handled
    batch,        \* those handle_events is handling
    evPc,         \* where the event thread is
    held,         \* the Job the event thread holds
    created,      \* the number of Jobs created
    jobRefs,      \* the reference count of each Job
    queue,        \* the worker pool's queue
    workerPc, job, \* where each worker is, and the Job it holds
    fault         \* the first fault

mainVars   == <<mainPc, activations, result, registered>>
closeVars  == <<closer, closePc>>
libusbVars == <<ctx, callbacks, wake, pending>>
eventVars  == <<batch, evPc, held>>
jobVars    == <<created, jobRefs, queue>>
workerVars == <<workerPc, job>>
vars == <<mainVars, obj, refCount, closeVars, handling, libusbVars, eventVars,
          jobVars, workerVars, fault>>

Messages == {"ARRIVED", "LEFT"}
Jobs     == 1..MaxJobs
Threads  == {"main", "events"} \cup Workers
Faults   == {"none", "no context", "half built", "dead object", "self join"}

Up == fault = "none"

Init ==
    /\ mainPc = "off" /\ activations = 0 /\ result = "none" /\ registered = FALSE
    /\ obj = "none" /\ refCount = 0
    /\ closer = None /\ closePc = "none"
    /\ handling = FALSE
    /\ ctx = FALSE /\ callbacks = {} /\ wake = FALSE /\ pending = <<>>
    /\ batch = <<>> /\ evPc = "none" /\ held = None
    /\ created = 0 /\ jobRefs = [j \in Jobs |-> 0] /\ queue = <<>>
    /\ workerPc = [w \in Workers |-> "idle"] /\ job = [w \in Workers |-> None]
    /\ fault = "none"

-----------------------------------------------------------------------------
(* Activation: USBDevice::Initialize.                                      *)

\* The constructor and libUSBInit. Every failure exits the context again; only
\* when both callbacks are registered does the event thread start, before the
\* constructor has returned. The constructor reports no failure to its caller.
Construct ==
    /\ Up /\ mainPc = "off" /\ obj \in {"none", "gone"}
    /\ activations < MaxActivations
    /\ activations' = activations + 1
    /\ mainPc' = "constructing" /\ obj' = "constructing"
    /\ result' = "none"
    /\ \E outcome \in Outcomes :
         IF outcome = "ok"
           THEN /\ ctx' = TRUE /\ callbacks' = Messages
                /\ handling' = TRUE /\ evPc' = "check"
           ELSE /\ ctx' = FALSE /\ callbacks' = {}
                /\ handling' = FALSE /\ evPc' = "none"
    /\ wake' = FALSE /\ pending' = <<>>
    /\ UNCHANGED <<registered, refCount, closeVars, batch, held, jobVars, workerVars, fault>>

\* The object is complete: Root hands it out with the plugin's reference.
Constructed ==
    /\ Up /\ mainPc = "constructing"
    /\ mainPc' = "register" /\ obj' = "alive" /\ refCount' = 1
    /\ UNCHANGED <<activations, result, registered, closeVars, handling, libusbVars,
                   eventVars, jobVars, workerVars, fault>>

\* _adminLock is held by the worker which is calling the sinks.
LockFree == \A w \in Workers : workerPc[w] # "callback"

RegisterSink ==
    /\ Up /\ mainPc = "register" /\ LockFree
    /\ mainPc' = "active" /\ registered' = TRUE
    /\ UNCHANGED <<activations, result, obj, refCount, closeVars, handling, libusbVars,
                   eventVars, jobVars, workerVars, fault>>

-----------------------------------------------------------------------------
(* The last reference: ~USBDeviceImplementation and libUSBClose.           *)

\* Release by thread t: the last reference destroys the object on that thread.
Release(t) ==
    /\ refCount' = refCount - 1
    /\ IF refCount = 1
         THEN obj' = "closing" /\ closer' = t /\ closePc' = "flag"
         ELSE UNCHANGED <<obj, closer, closePc>>

SlipFlagStays ==
    /\ Up /\ closePc = "flag"
    /\ closePc' = "deregister0"
    /\ UNCHANGED <<mainVars, obj, refCount, closer, handling, libusbVars, eventVars,
                   jobVars, workerVars, fault>>

ClearFlag ==
    /\ Up /\ closePc = "flag"
    /\ handling' = FALSE
    /\ closePc' = "deregister0"
    /\ UNCHANGED <<mainVars, obj, refCount, closer, libusbVars, eventVars, jobVars,
                   workerVars, fault>>

\* libusb_hotplug_deregister_callback makes handle_events return. Without an
\* initialised context, it works on one libusb does not have.
Deregister(message, here, next) ==
    /\ Up /\ closePc = here
    /\ IF ctx
         THEN /\ callbacks' = callbacks \ {message}
              /\ wake' = TRUE
              /\ closePc' = next
              /\ UNCHANGED fault
         ELSE /\ fault' = "no context"
              /\ UNCHANGED <<callbacks, wake, closePc>>
    /\ UNCHANGED <<mainVars, obj, refCount, closer, handling, ctx, pending, eventVars,
                   jobVars, workerVars>>

DeregisterAttached == Deregister("ARRIVED", "deregister0", "deregister1")
SlipSameHandle == Deregister("ARRIVED", "deregister1", "join")
DeregisterDetached == Deregister("LEFT", "deregister1", "join")

SlipNoJoin ==
    /\ Up /\ closePc = "join"
    /\ closePc' = "exit"
    /\ UNCHANGED <<mainVars, obj, refCount, closer, handling, libusbVars, eventVars,
                   jobVars, workerVars, fault>>

\* join() waits for the event thread. On the event thread itself it throws out of
\* the destructor, which terminates the process.
Join ==
    /\ Up /\ closePc = "join"
    /\ IF closer = "events"
         THEN fault' = "self join" /\ UNCHANGED <<closePc, evPc>>
         ELSE /\ evPc = "done"
              /\ evPc' = "none" /\ closePc' = "exit"
              /\ UNCHANGED fault
    /\ UNCHANGED <<mainVars, obj, refCount, closer, handling, libusbVars, batch, held,
                   jobVars, workerVars>>

\* libusb_exit, and the object is gone; its thread goes on after the Release.
Exit ==
    /\ Up /\ closePc = "exit"
    /\ ctx' = FALSE /\ wake' = FALSE /\ pending' = <<>>
    /\ obj' = "gone"
    /\ closer' = None /\ closePc' = "none"
    /\ UNCHANGED <<mainVars, refCount, handling, callbacks, eventVars, jobVars,
                   workerVars, fault>>

\* The flag is cleared after the callbacks are deregistered.
SlipFlagLast ==
    \/ Up /\ closePc = "flag" /\ closePc' = "deregister0"
       /\ UNCHANGED <<mainVars, obj, refCount, closer, handling, libusbVars, eventVars,
                      jobVars, workerVars, fault>>
    \/ DeregisterAttached
    \/ Deregister("LEFT", "deregister1", IF handling THEN "late" ELSE "join")
    \/ Up /\ closePc = "late" /\ closePc' = "join" /\ handling' = FALSE
       /\ UNCHANGED <<mainVars, obj, refCount, closer, libusbVars, eventVars, jobVars,
                      workerVars, fault>>
    \/ Join \/ Exit

Close == ClearFlag \/ DeregisterAttached \/ DeregisterDetached \/ Join \/ Exit

-----------------------------------------------------------------------------
(* Deactivation: USBDevice::Deinitialize.                                  *)

\* Thunder deactivates the plugin: Unregister of the plugin's sink is called.
Deactivate ==
    /\ Up /\ mainPc = "active"
    /\ mainPc' = "unregister"
    /\ UNCHANGED <<activations, result, registered, obj, refCount, closeVars, handling,
                   libusbVars, eventVars, jobVars, workerVars, fault>>

SlipUnregisterUnlocked ==
    /\ Up /\ mainPc = "unregister"
    /\ mainPc' = "release" /\ registered' = FALSE
    /\ UNCHANGED <<activations, result, obj, refCount, closeVars, handling, libusbVars,
                   eventVars, jobVars, workerVars, fault>>

\* Unregister gets _adminLock, once no worker is in a callback.
UnregisterSink ==
    /\ Up /\ mainPc = "unregister" /\ LockFree
    /\ mainPc' = "release" /\ registered' = FALSE
    /\ UNCHANGED <<activations, result, obj, refCount, closeVars, handling, libusbVars,
                   eventVars, jobVars, workerVars, fault>>

ReleaseImpl ==
    /\ Up /\ mainPc = "release"
    /\ mainPc' = "releasing"
    /\ result' = IF refCount = 1 THEN "destruction succeeded" ELSE "not the last"
    /\ Release("main")
    /\ UNCHANGED <<activations, registered, handling, libusbVars, eventVars, jobVars,
                   workerVars, fault>>

\* Release returns once the destructor has, if it ran it.
Deinitialized ==
    /\ Up /\ mainPc = "releasing" /\ closer # "main"
    /\ mainPc' = "off"
    /\ UNCHANGED <<activations, result, registered, obj, refCount, closeVars, handling,
                   libusbVars, eventVars, jobVars, workerVars, fault>>

-----------------------------------------------------------------------------
(* Jobs.                                                                   *)

SlipReleaseEachDrop(j, t) ==
    /\ jobRefs' = [jobRefs EXCEPT ![j] = @ - 1]
    /\ Release(t)

SlipJobNeverReleases(j, t) ==
    /\ jobRefs' = [jobRefs EXCEPT ![j] = @ - 1]
    /\ UNCHANGED <<refCount, obj, closeVars>>

\* Thread t drops its reference on Job j; the Job's destructor releases the object.
DropJob(j, t) ==
    /\ jobRefs' = [jobRefs EXCEPT ![j] = @ - 1]
    /\ IF jobRefs[j] = 1
         THEN Release(t)
         ELSE UNCHANGED <<refCount, obj, closeVars>>

-----------------------------------------------------------------------------
(* The event thread: libUSBEventsHandlingThread and the two callbacks.     *)

\* A device comes or goes, and libusb queues a message for its context.
HotPlug(message) ==
    /\ Up /\ ctx /\ Len(pending) < MaxPending /\ created < MaxJobs
    /\ pending' = Append(pending, message)
    /\ UNCHANGED <<mainVars, obj, refCount, closeVars, handling, ctx, callbacks, wake,
                   eventVars, jobVars, workerVars, fault>>

\* while (_handlingUSBDeviceEvents)
CheckFlag ==
    /\ Up /\ evPc = "check"
    /\ evPc' = IF handling THEN "poll" ELSE "done"
    /\ UNCHANGED <<mainVars, obj, refCount, closeVars, handling, libusbVars, batch, held,
                   jobVars, workerVars, fault>>

\* libusb_handle_events blocks until there is a message, or it is interrupted.
Poll ==
    /\ Up /\ evPc = "poll"
    /\ wake \/ pending # <<>>
    /\ batch' = pending /\ pending' = <<>> /\ wake' = FALSE
    /\ evPc' = "handle"
    /\ UNCHANGED <<mainVars, obj, refCount, closeVars, handling, ctx, callbacks, held,
                   jobVars, workerVars, fault>>

\* The next message of the batch, if its callback is registered still; when there
\* is none left handle_events returns. The thread is not here but in the callback
\* of the message before while it runs the destructor.
HandleMessage ==
    /\ Up /\ evPc = "handle" /\ closer # "events"
    /\ IF batch = <<>>
         THEN evPc' = "check" /\ UNCHANGED batch
         ELSE /\ evPc' = IF Head(batch) \in callbacks THEN "callback" ELSE "handle"
              /\ batch' = Tail(batch)
    /\ UNCHANGED <<mainVars, obj, refCount, closeVars, handling, libusbVars, held,
                   jobVars, workerVars, fault>>

\* The callback could not read the device: the event is only logged.
DropEvent ==
    /\ Up /\ evPc = "callback"
    /\ evPc' = "handle"
    /\ UNCHANGED <<mainVars, obj, refCount, closeVars, handling, libusbVars, batch, held,
                   jobVars, workerVars, fault>>

SlipNoAddRef ==
    /\ Up /\ evPc = "callback" /\ created < MaxJobs /\ obj = "alive"
    /\ created' = created + 1
    /\ jobRefs' = [jobRefs EXCEPT ![created + 1] = 1]
    /\ held' = created + 1
    /\ evPc' = "submit"
    /\ UNCHANGED <<mainVars, obj, refCount, closeVars, handling, libusbVars, batch, queue,
                   workerVars, fault>>

\* Job::Create in dispatchEvent. The Job calls AddRef, which only a complete object
\* has: in the constructor and in the destructor it is a pure virtual function.
CreateJob ==
    /\ Up /\ evPc = "callback" /\ created < MaxJobs
    /\ IF obj = "alive"
         THEN /\ created' = created + 1
              /\ jobRefs' = [jobRefs EXCEPT ![created + 1] = 1]
              /\ held' = created + 1
              /\ refCount' = refCount + 1
              /\ evPc' = "submit"
              /\ UNCHANGED fault
         ELSE /\ fault' = IF obj = "constructing" THEN "half built" ELSE "dead object"
              /\ UNCHANGED <<created, jobRefs, held, refCount, evPc>>
    /\ UNCHANGED <<mainVars, obj, closeVars, handling, libusbVars, batch, queue, workerVars>>

SlipSubmitNoRef ==
    /\ Up /\ evPc = "submit"
    /\ queue' = Append(queue, held)
    /\ evPc' = "submitted"
    /\ UNCHANGED <<mainVars, obj, refCount, closeVars, handling, libusbVars, batch, held,
                   created, jobRefs, workerVars, fault>>

\* IWorkerPool::Submit: the pool takes a reference of its own on the Job.
SubmitJob ==
    /\ Up /\ evPc = "submit"
    /\ queue' = Append(queue, held)
    /\ jobRefs' = [jobRefs EXCEPT ![held] = @ + 1]
    /\ evPc' = "submitted"
    /\ UNCHANGED <<mainVars, obj, refCount, closeVars, handling, libusbVars, batch, held,
                   created, workerVars, fault>>

\* dispatchEvent returns, and its temporary reference on the Job goes away.
DropHeld ==
    /\ Up /\ evPc = "submitted"
    /\ DropJob(held, "events")
    /\ held' = None
    /\ evPc' = "handle"
    /\ UNCHANGED <<mainVars, handling, libusbVars, batch, created, queue, workerVars, fault>>

EventThread ==
    \/ CheckFlag \/ Poll \/ HandleMessage \/ DropEvent
    \/ CreateJob \/ SubmitJob \/ DropHeld

-----------------------------------------------------------------------------
(* The worker pool.                                                        *)

TakeJob(w) ==
    /\ Up /\ workerPc[w] = "idle" /\ closer # w
    /\ queue # <<>>
    /\ job' = [job EXCEPT ![w] = Head(queue)]
    /\ queue' = Tail(queue)
    /\ workerPc' = [workerPc EXCEPT ![w] = "dispatch"]
    /\ UNCHANGED <<mainVars, obj, refCount, closeVars, handling, libusbVars, eventVars,
                   created, jobRefs, fault>>

\* Job::Dispatch takes _adminLock, and calls the plugin's sink if it is listed.
Dispatch(w) ==
    /\ Up /\ workerPc[w] = "dispatch" /\ LockFree
    /\ workerPc' = [workerPc EXCEPT ![w] = IF registered THEN "callback" ELSE "drop"]
    /\ UNCHANGED <<mainVars, obj, refCount, closeVars, handling, libusbVars, eventVars,
                   jobVars, job, fault>>

DispatchReturn(w) ==
    /\ Up /\ workerPc[w] = "callback"
    /\ workerPc' = [workerPc EXCEPT ![w] = "drop"]
    /\ UNCHANGED <<mainVars, obj, refCount, closeVars, handling, libusbVars, eventVars,
                   jobVars, job, fault>>

\* The pool lets go of the Job it has run.
FinishJob(w) ==
    /\ Up /\ workerPc[w] = "drop"
    /\ DropJob(job[w], w)
    /\ job' = [job EXCEPT ![w] = None]
    /\ workerPc' = [workerPc EXCEPT ![w] = "idle"]
    /\ UNCHANGED <<mainVars, handling, libusbVars, eventVars, created, queue, fault>>

Worker(w) == TakeJob(w) \/ Dispatch(w) \/ DispatchReturn(w) \/ FinishJob(w)

-----------------------------------------------------------------------------
Initialize   == Construct \/ Constructed \/ RegisterSink
Deinitialize == Deactivate \/ UnregisterSink \/ ReleaseImpl \/ Deinitialized

\* The plugin is off for good, or the process is dead.
Over == /\ \/ ~Up
           \/ mainPc = "off" /\ activations = MaxActivations
        /\ UNCHANGED vars

Next ==
    \/ Initialize \/ Deinitialize \/ Close \/ EventThread
    \/ \E m \in Messages : HotPlug(m)
    \/ \E w \in Workers : Worker(w)
    \/ Over

Spec == Init /\ [][Next]_vars

\* Threads keep running; a started activation or deactivation goes on, and gets the
\* lock once that stays free. Nothing obliges devices to come, or the plugin to be
\* activated or deactivated.
Fairness ==
    /\ WF_vars(Constructed \/ RegisterSink)
    /\ WF_vars(UnregisterSink \/ ReleaseImpl \/ Deinitialized)
    /\ WF_vars(Close)
    /\ WF_vars(EventThread)
    /\ \A w \in Workers : WF_vars(Worker(w))

FairSpec == Spec /\ Fairness

-----------------------------------------------------------------------------
(* Properties.                                                             *)

ObjectTypes ==
    /\ mainPc \in {"off", "constructing", "register", "active", "unregister", "release",
                 "releasing"}
    /\ activations \in Nat
    /\ result \in {"none", "destruction succeeded", "not the last"}
    /\ registered \in BOOLEAN
    /\ obj \in {"none", "constructing", "alive", "closing", "gone"}
    /\ refCount \in Nat
    /\ closer \in Threads \cup {None}
    /\ closePc \in {"none", "flag", "deregister0", "deregister1", "join", "exit"}
    /\ fault \in Faults

LibusbTypes ==
    /\ handling \in BOOLEAN /\ ctx \in BOOLEAN /\ wake \in BOOLEAN
    /\ callbacks \subseteq Messages
    /\ pending \in Seq(Messages) /\ batch \in Seq(Messages)
    /\ evPc \in {"none", "check", "poll", "handle", "callback", "submit", "submitted", "done"}

JobTypes ==
    /\ held \in Jobs \cup {None}
    /\ created \in 0..MaxJobs
    /\ jobRefs \in [Jobs -> Nat]
    /\ queue \in Seq(Jobs)
    /\ workerPc \in [Workers -> {"idle", "dispatch", "callback", "drop"}]
    /\ job \in [Workers -> Jobs \cup {None}]

TypeOK == ObjectTypes /\ LibusbTypes /\ JobTypes

\* When a thread waits in join() for the event thread, that thread is not blocked
\* in handle_events: it is interrupted, and will find the flag cleared. This is
\* why libUSBClose clears the flag before it deregisters the callbacks. (Otherwise the
\* destructor would wait for libusb's own timeout, which is a minute.)
NoLostWakeup ==
    closePc = "join" => /\ ~handling
                        /\ evPc = "poll" => wake

LiveJobs == {j \in Jobs : jobRefs[j] > 0}

PluginReference ==
    IF mainPc \in {"register", "active", "unregister", "release"} THEN 1 ELSE 0

\* Job j is in the worker pool: in its queue, or with one of its threads.
Pooled(j) == j \in ToSet(queue) \/ \E w \in Workers : job[w] = j

\* A Job is in one place of the pool at most.
PooledOnce ==
    /\ IsInjective(queue)
    /\ \A w \in Workers : job[w] # None =>
          job[w] \notin ToSet(queue) /\ \A v \in Workers : job[v] = job[w] => v = w

\* The reference counts are exact: a Job is held by the event thread and by the
\* pool, and the object by the plugin and by each Job which still exists.
ReferencesExact ==
    /\ PooledOnce
    /\ \A j \in Jobs : jobRefs[j] = (IF held = j THEN 1 ELSE 0)
                                     + (IF Pooled(j) THEN 1 ELSE 0)
    /\ refCount = PluginReference + Cardinality(LiveJobs)
    /\ refCount > 0 <=> obj = "alive"

\* A worker only ever dispatches on a complete object whose destructor has not
\* begun, also when the plugin was deactivated after the event.
DispatchOnLiveObject ==
    \A w \in Workers : workerPc[w] \in {"dispatch", "callback"} => obj = "alive"

\* libusb_exit never frees the context under the event thread, and when the object
\* is gone nothing it started or registered is left.
CleanClose ==
    /\ evPc # "none" => ctx
    /\ obj = "gone" => /\ ~ctx /\ ~handling /\ callbacks = {} /\ ~registered
                       /\ LiveJobs = {}

\* Once Unregister has returned in Deinitialize, no worker is inside a callback of
\* the plugin's sink, which dies with the plugin.
SinkQuiet ==
    mainPc \in {"release", "releasing", "off"} =>
        \A w \in Workers : workerPc[w] # "callback"

\* Each fault has one way to come about. A destructor without a context is that of an
\* object which never started anything; a Job is made on an object which is not yet
\* complete, or on one whose destructor still waits for the event thread, but never on
\* one which is gone; and the event thread joins itself only after a Release in
\* Deinitialize which was not the last.
FaultsExplained ==
    /\ fault = "no context" => evPc = "none" /\ callbacks = {} /\ LiveJobs = {}
    /\ fault = "half built" => mainPc = "constructing"
    /\ fault = "dead object" => obj = "closing" /\ closePc # "exit"
    /\ fault = "self join" => closer = "events" /\ result = "not the last"

\* Release in Deinitialize is the last unless a Job is alive: what its assertion asks
\* for is broken by pending Jobs and by nothing else.
LastUnlessJobs ==
    [][mainPc = "release" /\ mainPc' = "releasing" =>
          (result' = "destruction succeeded" <=> LiveJobs = {})]_vars

\* Deinitialize returns from the moment it is called: neither _adminLock, which workers
\* hold while they call the sinks, nor the join holds it up forever.
DeactivationEnds ==
    mainPc \in {"unregister", "release", "releasing"} ~> mainPc = "off" \/ fault # "none"

\* After deactivation the object is destroyed in the end, if not by the plugin's
\* Release then by the last Job's; and every Job is run and destroyed, also while the
\* plugin stays active.
NothingLingers ==
    /\ mainPc = "off" /\ obj # "none" ~> obj = "gone" \/ fault # "none"
    /\ \A j \in Jobs : jobRefs[j] > 0 ~> jobRefs[j] = 0 \/ fault # "none"

-----------------------------------------------------------------------------
(* What the documents promise and the code does not keep.                  *)

\* Deinitialize asserts that its Release was the last.
ReleaseDestroys == result # "not the last"

\* The event thread is joined by another thread.
NoSelfJoin == fault # "self join"

\* No callback uses the object once its destructor has begun.
NoUseOfDeadObject == fault # "dead object"

\* A plugin which is active has initialised libusb.
FailureReported == mainPc = "active" => ctx
=============================================================================
