-------------------------- MODULE LifecycleProofs --------------------------
(***************************************************************************)
(* The safety of Lifecycle up to the first fault, for every pool of        *)
(* workers and every number of activations, events and Jobs.               *)
(*                                                                         *)
(* Two arguments meet in the invariant. Control says how far the           *)
(* destructor may be when the other threads are where they are: the flag   *)
(* is cleared before the callbacks go, so an event thread which is blocked *)
(* once one is gone has an interrupt pending. ReferencesExact counts: a    *)
(* Job which some thread still holds keeps the count of the object above   *)
(* zero, so the destructor has not begun.                                  *)
(*                                                                         *)
(* With them every fault has its cause: what a fault needs is kept apart   *)
(* from what has gone before it by the join, which comes before the object *)
(* goes, and by what Release returned to the plugin (ResultTells).         *)
(***************************************************************************)
EXTENDS Lifecycle, ListLemmas, FiniteSetTheorems

Control ==
    /\ obj = "constructing" <=> mainPc = "constructing"
    /\ obj = "closing" <=> closePc # "none"
    /\ obj = "none" => mainPc = "off"
    /\ registered <=> mainPc \in {"active", "unregister"}
    /\ mainPc \in {"register", "active", "unregister", "release"} => obj = "alive"
    /\ obj \in {"none", "gone"} => ~ctx /\ ~handling
    /\ ~ctx => callbacks = {} /\ ~handling /\ evPc = "none"
    /\ closePc \in {"deregister0", "deregister1", "join", "exit"} => ~handling
    /\ closePc \in {"deregister1", "join", "exit"} =>
          "ARRIVED" \notin callbacks /\ (evPc = "poll" => wake)
    /\ closePc \in {"join", "exit"} => callbacks = {}
    /\ closePc = "exit" => evPc = "none"

\* Where the Jobs are, thread by thread.
Places ==
    /\ evPc \in {"submit", "submitted"} <=> held # None
    /\ evPc = "submit" => ~Pooled(held)
    /\ \A j \in Jobs : j > created => held # j /\ ~Pooled(j)
    /\ \A w \in Workers : workerPc[w] = "idle" <=> job[w] = None

\* A callback of the plugin's sink runs under _adminLock while the sink is listed.
InCallback ==
    \A w \in Workers : workerPc[w] = "callback" => mainPc \in {"active", "unregister"}

Inv == TypeOK /\ Control /\ Places /\ InCallback /\ ReferencesExact

-----------------------------------------------------------------------------
(* Counting references.                                                    *)

LEMMA NoneIsNoJob == None \notin Jobs
  BY LifecycleAssumption DEF Jobs

LEMMA LiveJobsFinite == IsFiniteSet(LiveJobs) /\ Cardinality(LiveJobs) \in Nat
<1>1. IsFiniteSet(Jobs)
  BY FS_Interval, LifecycleAssumption DEF Jobs
<1>2. LiveJobs \in SUBSET Jobs
  BY DEF LiveJobs
<1>3. IsFiniteSet(LiveJobs)
  BY <1>1, <1>2, FS_Subset
<1> QED
  BY <1>3, FS_CardinalityType

\* While a Job is alive, so is the object.
LEMMA JobKeepsObject ==
    ASSUME Inv, NEW j \in Jobs, jobRefs[j] > 0
    PROVE  /\ refCount > 0 /\ obj = "alive"
           /\ Cardinality(LiveJobs) > 0
<1>1. j \in LiveJobs
  BY DEF LiveJobs
<1>2. Cardinality(LiveJobs) # 0
  BY <1>1, LiveJobsFinite, FS_EmptySet
<1>3. Cardinality(LiveJobs) > 0
  BY <1>2, LiveJobsFinite
<1>4. refCount = PluginReference + Cardinality(LiveJobs) /\ PluginReference \in {0, 1}
  BY DEF Inv, ReferencesExact, PluginReference
<1>5. refCount > 0
  BY <1>3, <1>4, LiveJobsFinite
<1> QED
  BY <1>3, <1>5 DEF Inv, ReferencesExact

\* What a step does which touches neither Jobs nor counts.
LEMMA ReferencesFrame ==
    ASSUME ReferencesExact, UNCHANGED <<held, jobRefs, queue, job, refCount>>,
           PluginReference' = PluginReference, obj' = "alive" <=> obj = "alive"
    PROVE  ReferencesExact'
<1>1. PooledOnce' /\ LiveJobs' = LiveJobs /\ \A j \in Jobs : Pooled(j)' <=> Pooled(j)
  BY DEF ReferencesExact, PooledOnce, LiveJobs, Pooled
<1> QED
  BY <1>1 DEF ReferencesExact

\* The two ways a Release ends.
LEMMA ReleaseEffect ==
    ASSUME Inv, refCount > 0, NEW t \in Threads, Release(t)
    PROVE  /\ refCount' \in Nat
           /\ refCount' > 0 <=> obj' = "alive"
           /\ \/ UNCHANGED <<obj, closer, closePc>>
              \/ obj' = "closing" /\ closer' = t /\ closePc' = "flag"
<1>1. refCount \in Nat /\ obj = "alive"
  BY DEF Inv, TypeOK, ObjectTypes, ReferencesExact
<1>2. CASE refCount = 1
  BY <1>1, <1>2 DEF Release
<1>3. CASE refCount # 1
  BY <1>1, <1>3 DEF Release
<1> QED
  BY <1>2, <1>3

\* Dropping one reference on a Job, and with the last one the Job's on the object.
LEMMA DropJobEffect ==
    ASSUME Inv, NEW j \in Jobs, jobRefs[j] > 0, NEW t \in Threads, DropJob(j, t),
           PluginReference' = PluginReference
    PROVE  /\ jobRefs' \in [Jobs -> Nat] /\ jobRefs' = [jobRefs EXCEPT ![j] = @ - 1]
           /\ refCount' \in Nat
           /\ refCount' = PluginReference' + Cardinality(LiveJobs)'
           /\ refCount' > 0 <=> obj' = "alive"
           /\ \/ UNCHANGED <<obj, closer, closePc>>
              \/ obj' = "closing" /\ closer' = t /\ closePc' = "flag"
<1>1. /\ jobRefs' = [jobRefs EXCEPT ![j] = @ - 1] /\ jobRefs \in [Jobs -> Nat]
      /\ jobRefs[j] - 1 \in Nat
  <2>1. jobRefs \in [Jobs -> Nat]
    BY DEF Inv, TypeOK, JobTypes
  <2>2. jobRefs[j] \in Nat
    BY <2>1
  <2>3. jobRefs[j] - 1 \in Nat
    BY <2>2
  <2> QED
    BY <2>1, <2>3 DEF DropJob
<1>2. jobRefs' \in [Jobs -> Nat]
  BY <1>1
<1>3. refCount > 0 /\ obj = "alive" /\ refCount = PluginReference + Cardinality(LiveJobs)
  BY JobKeepsObject DEF Inv, ReferencesExact
<1>4. CASE jobRefs[j] = 1
  <2>1. LiveJobs' = LiveJobs \ {j} /\ j \in LiveJobs
    BY <1>1, <1>4 DEF LiveJobs
  <2>2. Cardinality(LiveJobs \ {j}) = Cardinality(LiveJobs) - 1
    BY <2>1, LiveJobsFinite, FS_RemoveElement
  <2>3. Release(t) /\ refCount' = refCount - 1
    BY <1>4 DEF DropJob, Release
  <2>4. PluginReference \in {0, 1}
    BY DEF PluginReference
  <2>5. refCount' = PluginReference' + Cardinality(LiveJobs)'
    BY <1>3, <2>1, <2>2, <2>3, <2>4, LiveJobsFinite
  <2> QED
    BY <1>1, <1>2, <1>3, <2>3, <2>5, ReleaseEffect
<1>5. CASE jobRefs[j] # 1
  <2>1. LiveJobs' = LiveJobs
    BY <1>1, <1>5 DEF LiveJobs
  <2>2. UNCHANGED <<refCount, obj, closer, closePc>>
    BY <1>5 DEF DropJob, closeVars
  <2> QED
    BY <1>1, <1>2, <1>3, <2>1, <2>2 DEF Inv, TypeOK, ObjectTypes
<1> QED
  BY <1>4, <1>5

-----------------------------------------------------------------------------
(* Steps which change no reference.                                        *)

LEMMA NoMessages == <<>> \in Seq(Messages)
  OBVIOUS

LEMMA ConstructInv == ASSUME Inv, Construct PROVE Inv'
<1>1. ObjectTypes'
  <2>1. activations \in Nat /\ activations' = activations + 1
    BY DEF Construct, Inv, TypeOK, ObjectTypes
  <2>2. activations' \in Nat
    BY <2>1
  <2>3. /\ mainPc' = "constructing" /\ obj' = "constructing" /\ result' = "none"
        /\ registered' = registered /\ refCount' = refCount /\ fault' = fault
        /\ closer' = closer /\ closePc' = closePc
    BY DEF Construct, closeVars
  <2>4. /\ registered \in BOOLEAN /\ refCount \in Nat /\ fault \in Faults
        /\ closer \in Threads \cup {None}
        /\ closePc \in {"none", "flag", "deregister0", "deregister1", "join", "exit"}
    BY DEF Inv, TypeOK, ObjectTypes
  <2> QED
    BY <2>2, <2>3, <2>4 DEF ObjectTypes
<1>2. LibusbTypes'
  BY NoMessages DEF Construct, Inv, TypeOK, LibusbTypes
<1>3. JobTypes'
  BY DEF Construct, Messages, Inv, TypeOK, JobTypes, jobVars, workerVars
<1>4. Control'
  BY DEF Construct, Messages, Inv, TypeOK, ObjectTypes, LibusbTypes, Control, closeVars
<1>5. Places'
  <2>1. held = None
    BY DEF Construct, Inv, Control, Places
  <2> QED
    BY <2>1 DEF Construct, Inv, Places, Pooled, jobVars, workerVars
<1>6. InCallback'
  BY DEF Construct, Messages, Inv, Control, InCallback, LockFree, workerVars
<1>7. ReferencesExact'
  BY ReferencesFrame DEF Construct, Messages, Inv, Control, PluginReference, jobVars, workerVars
<1> QED
  BY <1>1, <1>2, <1>3, <1>4, <1>5, <1>6, <1>7 DEF Inv, TypeOK

LEMMA RegisterSinkInv == ASSUME Inv, RegisterSink PROVE Inv'
<1>1. ObjectTypes'
  BY DEF RegisterSink, Inv, TypeOK, ObjectTypes, closeVars
<1>2. LibusbTypes'
  BY DEF RegisterSink, Inv, TypeOK, LibusbTypes, libusbVars, eventVars
<1>3. JobTypes'
  BY DEF RegisterSink, Inv, TypeOK, JobTypes, eventVars, jobVars, workerVars
<1>4. Control'
  BY DEF RegisterSink, Inv, TypeOK, ObjectTypes, LibusbTypes, Control, closeVars, libusbVars,
         eventVars
<1>5. Places'
  BY DEF RegisterSink, Inv, Places, Pooled, eventVars, jobVars, workerVars
<1>6. InCallback'
  BY DEF RegisterSink, Inv, Control, InCallback, LockFree, workerVars
<1>7. ReferencesExact'
  BY ReferencesFrame DEF RegisterSink, Inv, Control, PluginReference, eventVars, jobVars,
                         workerVars
<1> QED
  BY <1>1, <1>2, <1>3, <1>4, <1>5, <1>6, <1>7 DEF Inv, TypeOK

LEMMA DeactivateInv == ASSUME Inv, Deactivate PROVE Inv'
<1>1. ObjectTypes'
  BY DEF Deactivate, Inv, TypeOK, ObjectTypes, closeVars
<1>2. LibusbTypes'
  BY DEF Deactivate, Inv, TypeOK, LibusbTypes, libusbVars, eventVars
<1>3. JobTypes'
  BY DEF Deactivate, Inv, TypeOK, JobTypes, eventVars, jobVars, workerVars
<1>4. Control'
  BY DEF Deactivate, Inv, TypeOK, ObjectTypes, LibusbTypes, Control, closeVars, libusbVars,
         eventVars
<1>5. Places'
  BY DEF Deactivate, Inv, Places, Pooled, eventVars, jobVars, workerVars
<1>6. InCallback'
  BY DEF Deactivate, Inv, Control, InCallback, LockFree, workerVars
<1>7. ReferencesExact'
  BY ReferencesFrame DEF Deactivate, Inv, Control, PluginReference, eventVars, jobVars,
                         workerVars
<1> QED
  BY <1>1, <1>2, <1>3, <1>4, <1>5, <1>6, <1>7 DEF Inv, TypeOK

LEMMA UnregisterSinkInv == ASSUME Inv, UnregisterSink PROVE Inv'
<1>1. ObjectTypes'
  BY DEF UnregisterSink, Inv, TypeOK, ObjectTypes, closeVars
<1>2. LibusbTypes'
  BY DEF UnregisterSink, Inv, TypeOK, LibusbTypes, libusbVars, eventVars
<1>3. JobTypes'
  BY DEF UnregisterSink, Inv, TypeOK, JobTypes, eventVars, jobVars, workerVars
<1>4. Control'
  BY DEF UnregisterSink, Inv, TypeOK, ObjectTypes, LibusbTypes, Control, closeVars, libusbVars,
         eventVars
<1>5. Places'
  BY DEF UnregisterSink, Inv, Places, Pooled, eventVars, jobVars, workerVars
<1>6. InCallback'
  BY DEF UnregisterSink, Inv, Control, InCallback, LockFree, workerVars
<1>7. ReferencesExact'
  BY ReferencesFrame DEF UnregisterSink, Inv, Control, PluginReference, eventVars, jobVars,
                         workerVars
<1> QED
  BY <1>1, <1>2, <1>3, <1>4, <1>5, <1>6, <1>7 DEF Inv, TypeOK

LEMMA DeinitializedInv == ASSUME Inv, Deinitialized PROVE Inv'
<1>1. ObjectTypes'
  BY DEF Deinitialized, Inv, TypeOK, ObjectTypes, closeVars
<1>2. LibusbTypes'
  BY DEF Deinitialized, Inv, TypeOK, LibusbTypes, libusbVars, eventVars
<1>3. JobTypes'
  BY DEF Deinitialized, Inv, TypeOK, JobTypes, eventVars, jobVars, workerVars
<1>4. Control'
  BY DEF Deinitialized, Inv, TypeOK, ObjectTypes, LibusbTypes, Control, closeVars, libusbVars,
         eventVars
<1>5. Places'
  BY DEF Deinitialized, Inv, Places, Pooled, eventVars, jobVars, workerVars
<1>6. InCallback'
  BY DEF Deinitialized, Inv, Control, InCallback, LockFree, workerVars
<1>7. ReferencesExact'
  BY ReferencesFrame DEF Deinitialized, Inv, Control, PluginReference, eventVars, jobVars,
                         workerVars
<1> QED
  BY <1>1, <1>2, <1>3, <1>4, <1>5, <1>6, <1>7 DEF Inv, TypeOK

LEMMA ClearFlagInv == ASSUME Inv, ClearFlag PROVE Inv'
<1>1. ObjectTypes'
  BY DEF ClearFlag, Inv, TypeOK, ObjectTypes, mainVars
<1>2. LibusbTypes'
  BY DEF ClearFlag, Inv, TypeOK, LibusbTypes, libusbVars, eventVars
<1>3. JobTypes'
  BY DEF ClearFlag, Inv, TypeOK, JobTypes, eventVars, jobVars, workerVars
<1>4. Control'
  BY DEF ClearFlag, Inv, TypeOK, ObjectTypes, LibusbTypes, Control, mainVars, libusbVars,
         eventVars
<1>5. Places'
  BY DEF ClearFlag, Inv, Places, Pooled, eventVars, jobVars, workerVars
<1>6. InCallback'
  BY DEF ClearFlag, Inv, Control, InCallback, LockFree, mainVars, workerVars
<1>7. ReferencesExact'
  BY ReferencesFrame DEF ClearFlag, Inv, Control, PluginReference, mainVars, eventVars,
                         jobVars, workerVars
<1> QED
  BY <1>1, <1>2, <1>3, <1>4, <1>5, <1>6, <1>7 DEF Inv, TypeOK

LEMMA DeregisterAttachedInv == ASSUME Inv, DeregisterAttached PROVE Inv'
<1>1. ObjectTypes'
  BY DEF DeregisterAttached, Deregister, Inv, TypeOK, ObjectTypes, Faults, mainVars
<1>2. LibusbTypes'
  BY DEF DeregisterAttached, Deregister, Inv, TypeOK, LibusbTypes, eventVars
<1>3. JobTypes'
  BY DEF DeregisterAttached, Deregister, Inv, TypeOK, JobTypes, eventVars, jobVars, workerVars
<1>4. Control'
  BY DEF DeregisterAttached, Deregister, Inv, TypeOK, ObjectTypes, LibusbTypes, Control,
         mainVars, eventVars
<1>5. Places'
  BY DEF DeregisterAttached, Deregister, Inv, Places, Pooled, eventVars, jobVars, workerVars
<1>6. InCallback'
  BY DEF DeregisterAttached, Deregister, Inv, Control, InCallback, LockFree, mainVars, workerVars
<1>7. ReferencesExact'
  BY ReferencesFrame DEF DeregisterAttached, Deregister, Inv, Control, PluginReference,
                         mainVars, eventVars, jobVars, workerVars
<1> QED
  BY <1>1, <1>2, <1>3, <1>4, <1>5, <1>6, <1>7 DEF Inv, TypeOK

LEMMA DeregisterDetachedInv == ASSUME Inv, DeregisterDetached PROVE Inv'
<1>1. ObjectTypes'
  BY DEF DeregisterDetached, Deregister, Inv, TypeOK, ObjectTypes, Faults, mainVars
<1>2. LibusbTypes'
  BY DEF DeregisterDetached, Deregister, Inv, TypeOK, LibusbTypes, eventVars
<1>3. JobTypes'
  BY DEF DeregisterDetached, Deregister, Inv, TypeOK, JobTypes, eventVars, jobVars, workerVars
<1>4. Control'
  BY DEF DeregisterDetached, Deregister, Inv, TypeOK, ObjectTypes, LibusbTypes, Messages,
         Control, mainVars, eventVars
<1>5. Places'
  BY DEF DeregisterDetached, Deregister, Inv, Places, Pooled, eventVars, jobVars, workerVars
<1>6. InCallback'
  BY DEF DeregisterDetached, Deregister, Inv, Control, InCallback, LockFree, mainVars, workerVars
<1>7. ReferencesExact'
  BY ReferencesFrame DEF DeregisterDetached, Deregister, Inv, Control, PluginReference,
                         mainVars, eventVars, jobVars, workerVars
<1> QED
  BY <1>1, <1>2, <1>3, <1>4, <1>5, <1>6, <1>7 DEF Inv, TypeOK

LEMMA JoinInv == ASSUME Inv, Join PROVE Inv'
<1>1. ObjectTypes'
  BY DEF Join, Inv, TypeOK, ObjectTypes, Faults, mainVars
<1>2. LibusbTypes'
  BY DEF Join, Inv, TypeOK, LibusbTypes, libusbVars
<1>3. JobTypes'
  BY DEF Join, Inv, TypeOK, JobTypes, jobVars, workerVars
<1>4. Control'
  BY DEF Join, Inv, TypeOK, ObjectTypes, LibusbTypes, Control, mainVars, libusbVars
<1>5. Places'
  BY DEF Join, Inv, Places, Pooled, jobVars, workerVars
<1>6. InCallback'
  BY DEF Join, Inv, Control, InCallback, LockFree, mainVars, workerVars
<1>7. ReferencesExact'
  BY ReferencesFrame DEF Join, Inv, Control, PluginReference, mainVars, jobVars, workerVars
<1> QED
  BY <1>1, <1>2, <1>3, <1>4, <1>5, <1>6, <1>7 DEF Inv, TypeOK

LEMMA ExitInv == ASSUME Inv, Exit PROVE Inv'
<1>1. ObjectTypes'
  BY DEF Exit, Inv, TypeOK, ObjectTypes, mainVars
<1>2. LibusbTypes'
  BY NoMessages DEF Exit, Inv, TypeOK, LibusbTypes, eventVars
<1>3. JobTypes'
  BY DEF Exit, Inv, TypeOK, JobTypes, eventVars, jobVars, workerVars
<1>4. Control'
  BY DEF Exit, Inv, TypeOK, ObjectTypes, LibusbTypes, Control, mainVars, eventVars
<1>5. Places'
  BY DEF Exit, Inv, Places, Pooled, eventVars, jobVars, workerVars
<1>6. InCallback'
  BY DEF Exit, Inv, Control, InCallback, LockFree, mainVars, workerVars
<1>7. ReferencesExact'
  BY ReferencesFrame DEF Exit, Inv, Control, PluginReference, mainVars, eventVars, jobVars,
                         workerVars
<1> QED
  BY <1>1, <1>2, <1>3, <1>4, <1>5, <1>6, <1>7 DEF Inv, TypeOK

LEMMA CheckFlagInv == ASSUME Inv, CheckFlag PROVE Inv'
<1>1. ObjectTypes'
  BY DEF CheckFlag, Inv, TypeOK, ObjectTypes, mainVars, closeVars
<1>2. LibusbTypes'
  BY DEF CheckFlag, Inv, TypeOK, LibusbTypes, libusbVars
<1>3. JobTypes'
  BY DEF CheckFlag, Inv, TypeOK, JobTypes, jobVars, workerVars
<1>4. Control'
  BY DEF CheckFlag, Inv, TypeOK, ObjectTypes, LibusbTypes, Control, mainVars, closeVars,
         libusbVars
<1>5. Places'
  BY DEF CheckFlag, Inv, Places, Pooled, jobVars, workerVars
<1>6. InCallback'
  BY DEF CheckFlag, Inv, Control, InCallback, LockFree, mainVars, workerVars
<1>7. ReferencesExact'
  BY ReferencesFrame DEF CheckFlag, Inv, Control, PluginReference, mainVars, jobVars, workerVars
<1> QED
  BY <1>1, <1>2, <1>3, <1>4, <1>5, <1>6, <1>7 DEF Inv, TypeOK

LEMMA PollInv == ASSUME Inv, Poll PROVE Inv'
<1>1. ObjectTypes'
  BY DEF Poll, Inv, TypeOK, ObjectTypes, mainVars, closeVars
<1>2. LibusbTypes'
  BY NoMessages DEF Poll, Inv, TypeOK, LibusbTypes
<1>3. JobTypes'
  BY DEF Poll, Inv, TypeOK, JobTypes, jobVars, workerVars
<1>4. Control'
  BY DEF Poll, Inv, TypeOK, ObjectTypes, LibusbTypes, Control, mainVars, closeVars
<1>5. Places'
  BY DEF Poll, Inv, Places, Pooled, jobVars, workerVars
<1>6. InCallback'
  BY DEF Poll, Inv, Control, InCallback, LockFree, mainVars, workerVars
<1>7. ReferencesExact'
  BY ReferencesFrame DEF Poll, Inv, Control, PluginReference, mainVars, jobVars, workerVars
<1> QED
  BY <1>1, <1>2, <1>3, <1>4, <1>5, <1>6, <1>7 DEF Inv, TypeOK

LEMMA HandleMessageInv == ASSUME Inv, HandleMessage PROVE Inv'
<1>1. ObjectTypes'
  BY DEF HandleMessage, Inv, TypeOK, ObjectTypes, mainVars, closeVars
<1>2. LibusbTypes'
  BY DEF HandleMessage, Inv, TypeOK, LibusbTypes, libusbVars
<1>3. JobTypes'
  BY DEF HandleMessage, Inv, TypeOK, JobTypes, jobVars, workerVars
<1>4. Control'
  BY DEF HandleMessage, Inv, TypeOK, ObjectTypes, LibusbTypes, Control, mainVars, closeVars,
         libusbVars
<1>5. Places'
  BY DEF HandleMessage, Inv, Places, Pooled, jobVars, workerVars
<1>6. InCallback'
  BY DEF HandleMessage, Inv, Control, InCallback, LockFree, mainVars, workerVars
<1>7. ReferencesExact'
  BY ReferencesFrame DEF HandleMessage, Inv, Control, PluginReference, mainVars, jobVars,
                         workerVars
<1> QED
  BY <1>1, <1>2, <1>3, <1>4, <1>5, <1>6, <1>7 DEF Inv, TypeOK

LEMMA DropEventInv == ASSUME Inv, DropEvent PROVE Inv'
<1>1. ObjectTypes'
  BY DEF DropEvent, Inv, TypeOK, ObjectTypes, mainVars, closeVars
<1>2. LibusbTypes'
  BY DEF DropEvent, Inv, TypeOK, LibusbTypes, libusbVars
<1>3. JobTypes'
  BY DEF DropEvent, Inv, TypeOK, JobTypes, jobVars, workerVars
<1>4. Control'
  BY DEF DropEvent, Inv, TypeOK, ObjectTypes, LibusbTypes, Control, mainVars, closeVars,
         libusbVars
<1>5. Places'
  BY DEF DropEvent, Inv, Places, Pooled, jobVars, workerVars
<1>6. InCallback'
  BY DEF DropEvent, Inv, Control, InCallback, LockFree, mainVars, workerVars
<1>7. ReferencesExact'
  BY ReferencesFrame DEF DropEvent, Inv, Control, PluginReference, mainVars, jobVars, workerVars
<1> QED
  BY <1>1, <1>2, <1>3, <1>4, <1>5, <1>6, <1>7 DEF Inv, TypeOK

LEMMA DispatchInv == ASSUME Inv, NEW w \in Workers, Dispatch(w) PROVE Inv'
<1>1. ObjectTypes'
  BY DEF Dispatch, Inv, TypeOK, ObjectTypes, mainVars, closeVars
<1>2. LibusbTypes'
  BY DEF Dispatch, Inv, TypeOK, LibusbTypes, libusbVars, eventVars
<1>3. JobTypes'
  BY DEF Dispatch, Inv, TypeOK, JobTypes, eventVars, jobVars
<1>4. Control'
  BY DEF Dispatch, Inv, TypeOK, ObjectTypes, LibusbTypes, Control, mainVars, closeVars,
         libusbVars, eventVars
<1>5. Places'
  BY DEF Dispatch, Inv, Places, Pooled, eventVars, jobVars
<1>6. InCallback'
  BY DEF Dispatch, Inv, Control, InCallback, LockFree, mainVars
<1>7. ReferencesExact'
  BY ReferencesFrame DEF Dispatch, Inv, Control, PluginReference, mainVars, eventVars, jobVars
<1> QED
  BY <1>1, <1>2, <1>3, <1>4, <1>5, <1>6, <1>7 DEF Inv, TypeOK

LEMMA DispatchReturnInv == ASSUME Inv, NEW w \in Workers, DispatchReturn(w) PROVE Inv'
<1>1. ObjectTypes'
  BY DEF DispatchReturn, Inv, TypeOK, ObjectTypes, mainVars, closeVars
<1>2. LibusbTypes'
  BY DEF DispatchReturn, Inv, TypeOK, LibusbTypes, libusbVars, eventVars
<1>3. JobTypes'
  BY DEF DispatchReturn, Inv, TypeOK, JobTypes, eventVars, jobVars
<1>4. Control'
  BY DEF DispatchReturn, Inv, TypeOK, ObjectTypes, LibusbTypes, Control, mainVars, closeVars,
         libusbVars, eventVars
<1>5. Places'
  BY DEF DispatchReturn, Inv, Places, Pooled, eventVars, jobVars
<1>6. InCallback'
  BY DEF DispatchReturn, Inv, Control, InCallback, LockFree, mainVars
<1>7. ReferencesExact'
  BY ReferencesFrame DEF DispatchReturn, Inv, Control, PluginReference, mainVars, eventVars,
                         jobVars
<1> QED
  BY <1>1, <1>2, <1>3, <1>4, <1>5, <1>6, <1>7 DEF Inv, TypeOK
LEMMA HotPlugInv == ASSUME Inv, NEW m \in Messages, HotPlug(m) PROVE Inv'
<1>1. pending' \in Seq(Messages)
  BY AppendProperties DEF HotPlug, Inv, TypeOK, LibusbTypes
<1>2. ObjectTypes'
  BY DEF HotPlug, Inv, TypeOK, ObjectTypes, mainVars, closeVars
<1>3. LibusbTypes'
  BY <1>1 DEF HotPlug, Inv, TypeOK, LibusbTypes, eventVars
<1>4. JobTypes'
  BY DEF HotPlug, Inv, TypeOK, JobTypes, eventVars, jobVars, workerVars
<1>5. Control' /\ Places' /\ InCallback'
  BY DEF HotPlug, Inv, Control, Places, Pooled, InCallback, mainVars, closeVars, eventVars,
         jobVars, workerVars
<1>6. ReferencesExact'
  BY ReferencesFrame DEF HotPlug, Inv, PluginReference, mainVars, eventVars, jobVars, workerVars
<1> QED
  BY <1>2, <1>3, <1>4, <1>5, <1>6 DEF Inv, TypeOK

-----------------------------------------------------------------------------
(* The plugin's own reference.                                             *)

LEMMA ConstructedInv == ASSUME Inv, Constructed PROVE Inv'
<1>1. ObjectTypes'
  BY DEF Constructed, Inv, TypeOK, ObjectTypes, closeVars
<1>2. LibusbTypes'
  BY DEF Constructed, Inv, TypeOK, LibusbTypes, libusbVars, eventVars
<1>3. JobTypes'
  BY DEF Constructed, Inv, TypeOK, JobTypes, eventVars, jobVars, workerVars
<1>4. Control'
  BY DEF Constructed, Inv, Control, closeVars, libusbVars, eventVars
<1>5. Places' /\ InCallback'
  BY DEF Constructed, Inv, Places, Pooled, InCallback, eventVars, jobVars, workerVars
<1>6. Cardinality(LiveJobs) = 0
  <2>1. obj = "constructing" /\ PluginReference = 0
    BY DEF Constructed, Inv, Control, PluginReference
  <2>2. refCount \in Nat /\ ~(refCount > 0)
    BY <2>1 DEF Inv, TypeOK, ObjectTypes, ReferencesExact
  <2> QED
    BY <2>1, <2>2, LiveJobsFinite DEF Inv, ReferencesExact
<1>7. ReferencesExact'
  <2>1. PooledOnce' /\ LiveJobs' = LiveJobs /\ \A j \in Jobs : Pooled(j)' <=> Pooled(j)
    BY DEF Constructed, Inv, ReferencesExact, PooledOnce, LiveJobs, Pooled, jobVars, workerVars
  <2>2. refCount' = 1 /\ PluginReference' = 1 /\ obj' = "alive" /\ UNCHANGED <<held, jobRefs>>
    BY DEF Constructed, PluginReference, eventVars, jobVars
  <2> QED
    BY <1>6, <2>1, <2>2 DEF Inv, ReferencesExact
<1> QED
  BY <1>1, <1>2, <1>3, <1>4, <1>5, <1>7 DEF Inv, TypeOK

LEMMA ReleaseImplInv == ASSUME Inv, ReleaseImpl PROVE Inv'
<1>1. /\ refCount > 0 /\ obj = "alive" /\ closePc = "none"
      /\ PluginReference = 1 /\ PluginReference' = 0 /\ refCount \in Nat
      /\ refCount = PluginReference + Cardinality(LiveJobs)
  BY DEF ReleaseImpl, Inv, TypeOK, ObjectTypes, Control, ReferencesExact, PluginReference
<1>2. /\ refCount' = refCount - 1 /\ refCount' \in Nat
      /\ refCount' > 0 <=> obj' = "alive"
      /\ \/ UNCHANGED <<obj, closer, closePc>>
         \/ obj' = "closing" /\ closer' = "main" /\ closePc' = "flag"
  BY <1>1, ReleaseEffect DEF ReleaseImpl, Release, Threads
<1>3. ObjectTypes'
  BY <1>2 DEF ReleaseImpl, Inv, TypeOK, ObjectTypes, Threads
<1>4. LibusbTypes'
  BY DEF ReleaseImpl, Inv, TypeOK, LibusbTypes, libusbVars, eventVars
<1>5. JobTypes'
  BY DEF ReleaseImpl, Inv, TypeOK, JobTypes, eventVars, jobVars, workerVars
<1>6. Control'
  BY <1>1, <1>2 DEF ReleaseImpl, Inv, Control, libusbVars, eventVars
<1>7. Places'
  BY DEF ReleaseImpl, Inv, Places, Pooled, eventVars, jobVars, workerVars
<1>8. InCallback'
  BY DEF ReleaseImpl, Inv, InCallback, workerVars
<1>9. ReferencesExact'
  <2>1. PooledOnce' /\ LiveJobs' = LiveJobs /\ \A j \in Jobs : Pooled(j)' <=> Pooled(j)
    BY DEF ReleaseImpl, Inv, ReferencesExact, PooledOnce, LiveJobs, Pooled, jobVars, workerVars
  <2>2. refCount' = PluginReference' + Cardinality(LiveJobs)
    BY <1>1, <1>2, LiveJobsFinite
  <2>3. UNCHANGED <<held, jobRefs>>
    BY DEF ReleaseImpl, eventVars, jobVars
  <2> QED
    BY <1>2, <2>1, <2>2, <2>3 DEF Inv, ReferencesExact
<1> QED
  BY <1>3, <1>4, <1>5, <1>6, <1>7, <1>8, <1>9 DEF Inv, TypeOK

-----------------------------------------------------------------------------
(* The life of a Job.                                                      *)

\* A fault leaves everything else alone.
LEMMA FaultInv ==
    ASSUME Inv, fault' \in Faults,
           UNCHANGED <<mainVars, obj, refCount, closeVars, handling, libusbVars, eventVars,
                       jobVars, workerVars>>
    PROVE  Inv'
<1>1. TypeOK'
  <2>1. ObjectTypes'
    BY DEF Inv, TypeOK, ObjectTypes, mainVars, closeVars
  <2>2. LibusbTypes'
    BY DEF Inv, TypeOK, LibusbTypes, libusbVars, eventVars
  <2>3. JobTypes'
    BY DEF Inv, TypeOK, JobTypes, eventVars, jobVars, workerVars
  <2> QED
    BY <2>1, <2>2, <2>3 DEF TypeOK
<1>2. Control' /\ Places' /\ InCallback'
  BY DEF Inv, Control, Places, Pooled, InCallback, mainVars, closeVars, libusbVars, eventVars,
         jobVars, workerVars
<1>3. ReferencesExact'
  BY ReferencesFrame DEF Inv, PluginReference, mainVars, eventVars, jobVars, workerVars
<1> QED
  BY <1>1, <1>2, <1>3 DEF Inv, TypeOK

LEMMA CreateJobInv == ASSUME Inv, CreateJob PROVE Inv'
<1>1. CASE obj # "alive"
  <2>1. /\ fault' \in Faults
        /\ UNCHANGED <<mainVars, obj, refCount, closeVars, handling, libusbVars, eventVars,
                       jobVars, workerVars>>
    BY <1>1 DEF CreateJob, Faults, eventVars, jobVars
  <2> QED
    BY <2>1, FaultInv
<1>2. CASE obj = "alive"
  <2> DEFINE n == created + 1
  <2>1. /\ n \in Jobs /\ n > created /\ created \in Nat /\ n <= MaxJobs
        /\ held = None /\ n # None
    <3>1. created \in 0..MaxJobs /\ created < MaxJobs /\ MaxJobs \in Nat
      BY LifecycleAssumption DEF CreateJob, Inv, TypeOK, JobTypes
    <3>2. n \in Nat /\ n \in Jobs
      BY <3>1 DEF Jobs
    <3>3. held = None
      BY DEF CreateJob, Inv, Places
    <3> QED
      BY <3>1, <3>2, <3>3, NoneIsNoJob
  <2>2. /\ created' = n /\ jobRefs' = [jobRefs EXCEPT ![n] = 1] /\ held' = n
        /\ refCount' = refCount + 1 /\ evPc' = "submit"
        /\ UNCHANGED <<mainVars, obj, closeVars, handling, libusbVars, batch, queue,
                       workerVars, fault>>
    BY <1>2 DEF CreateJob
  <2> HIDE DEF n
  <2>3. ~Pooled(n) /\ held # n /\ jobRefs[n] = 0 /\ jobRefs \in [Jobs -> Nat]
    BY <2>1 DEF Inv, TypeOK, JobTypes, Places, ReferencesExact
  <2>4. \A j \in Jobs : Pooled(j)' <=> Pooled(j)
    BY <2>2 DEF Pooled, workerVars
  <2>5. ObjectTypes'
    <3>1. refCount \in Nat
      BY DEF Inv, TypeOK, ObjectTypes
    <3>2. refCount' \in Nat
      BY <2>2, <3>1
    <3> QED
      BY <2>2, <3>2 DEF Inv, TypeOK, ObjectTypes, mainVars, closeVars
  <2>6. LibusbTypes'
    BY <2>2 DEF Inv, TypeOK, LibusbTypes, libusbVars
  <2>7. JobTypes'
    <3>1. created' \in 0..MaxJobs
      BY <2>1, <2>2 DEF Jobs
    <3>2. jobRefs' \in [Jobs -> Nat]
      BY <2>1, <2>2, <2>3
    <3> QED
      BY <2>1, <2>2, <3>1, <3>2 DEF Inv, TypeOK, JobTypes, workerVars
  <2>8. Control'
    BY <1>2, <2>2 DEF CreateJob, Inv, Control, mainVars, closeVars, libusbVars
  <2>9. Places'
    <3>1. ASSUME NEW j \in Jobs, j > created' PROVE held' # j /\ ~Pooled(j)'
      <4>1. j > created /\ j # n
        BY <2>1, <2>2, <3>1 DEF Jobs
      <4> QED
        BY <2>2, <2>4, <4>1 DEF Inv, Places
    <3>2. ~Pooled(held)'
      BY <2>1, <2>2, <2>3, <2>4 DEF Pooled
    <3> QED
      BY <2>1, <2>2, <3>1, <3>2 DEF Inv, Places, workerVars
  <2>10. InCallback'
    BY <2>2 DEF Inv, InCallback, mainVars, workerVars
  <2>11. ReferencesExact'
    <3>1. PooledOnce'
      BY <2>2 DEF Inv, ReferencesExact, PooledOnce, workerVars
    <3>2. LiveJobs' = LiveJobs \cup {n} /\ n \notin LiveJobs
      BY <2>1, <2>2, <2>3 DEF LiveJobs
    <3>3. Cardinality(LiveJobs)' = Cardinality(LiveJobs) + 1
      BY <3>2, LiveJobsFinite, FS_AddElement
    <3>4. PluginReference' = PluginReference /\ PluginReference \in {0, 1}
      BY <2>2 DEF PluginReference, mainVars
    <3>5. refCount' = PluginReference' + Cardinality(LiveJobs)'
      BY <2>2, <3>3, <3>4, LiveJobsFinite DEF Inv, ReferencesExact
    <3>6. refCount' > 0 /\ obj' = "alive"
      <4>1. refCount \in Nat
        BY DEF Inv, TypeOK, ObjectTypes
      <4> QED
        BY <1>2, <2>2, <4>1
    <3>7. ASSUME NEW j \in Jobs
          PROVE  jobRefs'[j] = (IF held' = j THEN 1 ELSE 0) + (IF Pooled(j)' THEN 1 ELSE 0)
      <4>1. CASE j = n
        BY <2>1, <2>2, <2>3, <2>4, <4>1
      <4>2. CASE j # n
        <5>1. held # j
          BY <2>1, NoneIsNoJob
        <5>2. jobRefs'[j] = jobRefs[j]
          BY <2>2, <2>3, <4>2
        <5> QED
          BY <2>2, <2>4, <4>2, <5>1, <5>2 DEF Inv, ReferencesExact
      <4> QED
        BY <4>1, <4>2
    <3> QED
      BY <3>1, <3>5, <3>6, <3>7 DEF ReferencesExact
  <2> QED
    BY <2>5, <2>6, <2>7, <2>8, <2>9, <2>10, <2>11 DEF Inv, TypeOK
<1> QED
  BY <1>1, <1>2

LEMMA SubmitJobInv == ASSUME Inv, SubmitJob PROVE Inv'
<1>1. held \in Jobs /\ ~Pooled(held) /\ held # None
  BY DEF SubmitJob, Inv, TypeOK, JobTypes, Places
<1>2. /\ queue \in Seq(Jobs) /\ IsInjective(queue) /\ held \notin ToSet(queue)
      /\ jobRefs \in [Jobs -> Nat] /\ jobRefs[held] = 1
  BY <1>1 DEF Inv, TypeOK, JobTypes, ReferencesExact, PooledOnce, Pooled
<1>3. /\ queue' = Append(queue, held) /\ jobRefs' = [jobRefs EXCEPT ![held] = 2]
      /\ evPc' = "submitted"
      /\ UNCHANGED <<mainVars, obj, refCount, closeVars, handling, libusbVars, batch, held,
                     created, workerVars, fault>>
  BY <1>2 DEF SubmitJob
<1>4. /\ IsInjective(queue') /\ ToSet(queue') = ToSet(queue) \cup {held}
      /\ queue' \in Seq(Jobs)
  BY <1>1, <1>2, <1>3, AppendNoDuplicates, AppendProperties
<1>5. \A j \in Jobs : Pooled(j)' <=> Pooled(j) \/ j = held
  BY <1>3, <1>4 DEF Pooled, workerVars
<1>6. ObjectTypes'
  BY <1>3 DEF Inv, TypeOK, ObjectTypes, mainVars, closeVars
<1>7. LibusbTypes'
  BY <1>3 DEF Inv, TypeOK, LibusbTypes, libusbVars
<1>8. JobTypes'
  BY <1>1, <1>2, <1>3, <1>4 DEF Inv, TypeOK, JobTypes, workerVars
<1>9. Control'
  BY <1>3 DEF SubmitJob, Inv, Control, mainVars, closeVars, libusbVars
<1>10. Places'
  BY <1>1, <1>3, <1>5 DEF Inv, Places, workerVars
<1>11. InCallback'
  BY <1>3 DEF Inv, InCallback, mainVars, workerVars
<1>12. ReferencesExact'
  <2>1. PooledOnce'
    BY <1>1, <1>3, <1>4 DEF Inv, ReferencesExact, PooledOnce, Pooled, workerVars
  <2>2. LiveJobs' = LiveJobs
    BY <1>1, <1>2, <1>3 DEF LiveJobs
  <2>3. ASSUME NEW j \in Jobs
        PROVE  jobRefs'[j] = (IF held' = j THEN 1 ELSE 0) + (IF Pooled(j)' THEN 1 ELSE 0)
    <3>1. CASE j = held
      BY <1>1, <1>2, <1>3, <1>5, <3>1
    <3>2. CASE j # held
      <4>1. jobRefs'[j] = jobRefs[j]
        BY <1>2, <1>3, <3>2
      <4> QED
        BY <1>3, <1>5, <3>2, <4>1 DEF Inv, ReferencesExact
    <3> QED
      BY <3>1, <3>2
  <2>4. PluginReference' = PluginReference
    BY <1>3 DEF PluginReference, mainVars
  <2> QED
    BY <1>3, <2>1, <2>2, <2>3, <2>4 DEF Inv, ReferencesExact
<1> QED
  BY <1>6, <1>7, <1>8, <1>9, <1>10, <1>11, <1>12 DEF Inv, TypeOK
LEMMA DropHeldInv == ASSUME Inv, DropHeld PROVE Inv'
<1> DEFINE h == held
<1>1. h \in Jobs /\ h # None /\ jobRefs[h] > 0 /\ jobRefs \in [Jobs -> Nat]
  <2>1. h \in Jobs /\ h # None /\ jobRefs \in [Jobs -> Nat]
    BY DEF DropHeld, Inv, TypeOK, JobTypes, Places
  <2> QED
    BY <2>1 DEF Inv, ReferencesExact
<1>2. /\ DropJob(h, "events") /\ held' = None /\ evPc' = "handle"
      /\ UNCHANGED <<mainVars, handling, libusbVars, batch, created, queue, workerVars, fault>>
  BY DEF DropHeld
<1>3. PluginReference' = PluginReference
  BY <1>2 DEF PluginReference, mainVars
<1> HIDE DEF h
<1>4. /\ jobRefs' \in [Jobs -> Nat] /\ jobRefs' = [jobRefs EXCEPT ![h] = @ - 1]
      /\ refCount' \in Nat
      /\ refCount' = PluginReference' + Cardinality(LiveJobs)'
      /\ refCount' > 0 <=> obj' = "alive"
      /\ \/ UNCHANGED <<obj, closer, closePc>>
         \/ obj' = "closing" /\ closer' = "events" /\ closePc' = "flag"
  BY <1>1, <1>2, <1>3, DropJobEffect DEF Threads
<1>5. obj = "alive" /\ closePc = "none"
  BY <1>1, JobKeepsObject DEF Inv, TypeOK, ObjectTypes, Control
<1>6. \A j \in Jobs : Pooled(j)' <=> Pooled(j)
  BY <1>2 DEF Pooled, workerVars
<1>7. ObjectTypes'
  BY <1>2, <1>4 DEF Inv, TypeOK, ObjectTypes, Threads, mainVars
<1>8. LibusbTypes'
  BY <1>2 DEF Inv, TypeOK, LibusbTypes, libusbVars
<1>9. JobTypes'
  BY <1>2, <1>4 DEF Inv, TypeOK, JobTypes, workerVars
<1>10. Control'
  <2>1. mainPc \notin {"register", "active", "unregister", "release"} \/ obj' = "alive"
    <3>1. ASSUME mainPc \in {"register", "active", "unregister", "release"} PROVE refCount' > 0
      <4>1. PluginReference' = 1
        BY <1>3, <3>1 DEF PluginReference
      <4>2. Cardinality(LiveJobs)' \in Nat
        <5>1. LiveJobs' \in SUBSET Jobs /\ IsFiniteSet(Jobs)
          BY FS_Interval, LifecycleAssumption DEF LiveJobs, Jobs
        <5> QED
          BY <5>1, FS_Subset, FS_CardinalityType
      <4> QED
        BY <1>4, <4>1, <4>2
    <3> QED
      BY <1>4, <3>1
  <2> QED
    BY <1>2, <1>4, <1>5, <2>1 DEF DropHeld, Inv, Control, mainVars, libusbVars
<1>11. Places'
  BY <1>1, <1>2, <1>6, NoneIsNoJob DEF Inv, Places, workerVars
<1>12. InCallback'
  BY <1>2 DEF Inv, InCallback, mainVars, workerVars
<1>13. ReferencesExact'
  <2>1. PooledOnce'
    BY <1>2 DEF Inv, ReferencesExact, PooledOnce, workerVars
  <2>2. ASSUME NEW j \in Jobs
        PROVE  jobRefs'[j] = (IF held' = j THEN 1 ELSE 0) + (IF Pooled(j)' THEN 1 ELSE 0)
    <3>1. jobRefs[j] = (IF h = j THEN 1 ELSE 0) + (IF Pooled(j) THEN 1 ELSE 0) /\ held' # j
      BY <1>2, NoneIsNoJob DEF Inv, ReferencesExact, h
    <3>2. CASE j = h
      <4>1. jobRefs'[j] = jobRefs[j] - 1
        BY <1>1, <1>4, <3>2
      <4> QED
        BY <1>6, <3>1, <3>2, <4>1
    <3>3. CASE j # h
      <4>1. jobRefs'[j] = jobRefs[j]
        BY <1>1, <1>4, <3>3
      <4> QED
        BY <1>6, <3>1, <3>3, <4>1
    <3> QED
      BY <3>2, <3>3
  <2> QED
    BY <1>4, <2>1, <2>2 DEF ReferencesExact
<1> QED
  BY <1>7, <1>8, <1>9, <1>10, <1>11, <1>12, <1>13 DEF Inv, TypeOK

LEMMA TakeJobInv == ASSUME Inv, NEW w \in Workers, TakeJob(w) PROVE Inv'
<1>1. /\ queue \in Seq(Jobs) /\ queue # <<>> /\ IsInjective(queue)
      /\ job \in [Workers -> Jobs \cup {None}] /\ job[w] = None /\ workerPc[w] = "idle"
  BY DEF TakeJob, Inv, TypeOK, JobTypes, Places, ReferencesExact, PooledOnce
<1>2. /\ job' = [job EXCEPT ![w] = Head(queue)] /\ queue' = Tail(queue)
      /\ workerPc' = [workerPc EXCEPT ![w] = "dispatch"]
      /\ UNCHANGED <<mainVars, obj, refCount, closeVars, handling, libusbVars, eventVars,
                     created, jobRefs, fault>>
  BY DEF TakeJob
<1>3. /\ Head(queue) \in Jobs /\ Tail(queue) \in Seq(Jobs)
      /\ IsInjective(Tail(queue)) /\ ToSet(Tail(queue)) = ToSet(queue) \ {Head(queue)}
      /\ Head(queue) \in ToSet(queue) /\ Head(queue) # None
  BY <1>1, HeadTailProperties, TailNoDuplicates, NoneIsNoJob
<1>4. \A j \in Jobs : Pooled(j)' <=> Pooled(j)
  <2> TAKE j \in Jobs
  <2>1. j # None /\ \A v \in Workers : job'[v] = IF v = w THEN Head(queue) ELSE job[v]
    BY <1>1, <1>2, NoneIsNoJob
  <2> QED
    BY <1>1, <1>2, <1>3, <2>1 DEF Pooled
<1>5. ObjectTypes'
  BY <1>2 DEF Inv, TypeOK, ObjectTypes, mainVars, closeVars
<1>6. LibusbTypes'
  BY <1>2 DEF Inv, TypeOK, LibusbTypes, libusbVars, eventVars
<1>7. JobTypes'
  BY <1>2, <1>3 DEF Inv, TypeOK, JobTypes, eventVars
<1>8. Control'
  BY <1>2 DEF Inv, Control, mainVars, closeVars, libusbVars, eventVars
<1>9. Places'
  <2>1. \A v \in Workers : workerPc'[v] = "idle" <=> job'[v] = None
    BY <1>1, <1>2, <1>3 DEF Inv, TypeOK, JobTypes, Places
  <2>2. held' = None \/ held' \in Jobs
    BY <1>2 DEF Inv, TypeOK, JobTypes, eventVars
  <2> QED
    BY <1>2, <1>4, <2>1, <2>2 DEF Inv, Places, eventVars
<1>10. InCallback'
  BY <1>2 DEF Inv, TypeOK, JobTypes, InCallback, mainVars
<1>11. ReferencesExact'
  <2>1. PooledOnce'
    <3>1. \A v \in Workers : job'[v] = IF v = w THEN Head(queue) ELSE job[v]
      BY <1>1, <1>2
    <3>2. \A v \in Workers : job[v] # Head(queue)
      BY <1>3 DEF Inv, ReferencesExact, PooledOnce
    <3> QED
      BY <1>2, <1>3, <3>1, <3>2 DEF Inv, ReferencesExact, PooledOnce
  <2>2. PluginReference' = PluginReference /\ LiveJobs' = LiveJobs
    BY <1>2 DEF PluginReference, LiveJobs, mainVars
  <2> QED
    BY <1>2, <1>4, <2>1, <2>2 DEF Inv, ReferencesExact, eventVars
<1> QED
  BY <1>5, <1>6, <1>7, <1>8, <1>9, <1>10, <1>11 DEF Inv, TypeOK

LEMMA FinishJobInv == ASSUME Inv, NEW w \in Workers, FinishJob(w) PROVE Inv'
<1> DEFINE h == job[w]
<1>1. h \in Jobs /\ h # None /\ Pooled(h) /\ jobRefs[h] > 0 /\ jobRefs \in [Jobs -> Nat]
  <2>1. h \in Jobs /\ h # None /\ jobRefs \in [Jobs -> Nat]
    BY DEF FinishJob, Inv, TypeOK, JobTypes, Places
  <2>2. Pooled(h)
    BY DEF Pooled
  <2> QED
    BY <2>1, <2>2 DEF Inv, ReferencesExact
<1>2. /\ DropJob(h, w) /\ job' = [job EXCEPT ![w] = None]
      /\ workerPc' = [workerPc EXCEPT ![w] = "idle"]
      /\ UNCHANGED <<mainVars, handling, libusbVars, eventVars, created, queue, fault>>
  BY DEF FinishJob
<1>3. PluginReference' = PluginReference
  BY <1>2 DEF PluginReference, mainVars
<1>4. /\ jobRefs' \in [Jobs -> Nat] /\ jobRefs' = [jobRefs EXCEPT ![h] = @ - 1]
      /\ refCount' \in Nat
      /\ refCount' = PluginReference' + Cardinality(LiveJobs)'
      /\ refCount' > 0 <=> obj' = "alive"
      /\ \/ UNCHANGED <<obj, closer, closePc>>
         \/ obj' = "closing" /\ closer' = w /\ closePc' = "flag"
  <2> HIDE DEF h
  <2> QED
    BY <1>1, <1>2, <1>3, DropJobEffect DEF Threads
<1>5. obj = "alive" /\ closePc = "none"
  BY <1>1, JobKeepsObject DEF Inv, TypeOK, ObjectTypes, Control
<1>6. \A j \in Jobs : Pooled(j)' <=> Pooled(j) /\ j # h
  <2> TAKE j \in Jobs
  <2>1. j # None /\ \A v \in Workers : job'[v] = IF v = w THEN None ELSE job[v]
    BY <1>2, NoneIsNoJob DEF Inv, TypeOK, JobTypes
  <2>2. h \notin ToSet(queue) /\ \A v \in Workers : job[v] = h => v = w
    BY <1>1 DEF Inv, ReferencesExact, PooledOnce
  <2> QED
    BY <1>2, <2>1, <2>2 DEF Pooled
<1>7. ObjectTypes'
  BY <1>2, <1>4 DEF Inv, TypeOK, ObjectTypes, Threads, mainVars
<1>8. LibusbTypes'
  BY <1>2 DEF Inv, TypeOK, LibusbTypes, libusbVars, eventVars
<1>9. JobTypes'
  BY <1>2, <1>4 DEF Inv, TypeOK, JobTypes, eventVars
<1>10. Control'
  <2>1. mainPc \notin {"register", "active", "unregister", "release"} \/ obj' = "alive"
    <3>1. ASSUME mainPc \in {"register", "active", "unregister", "release"} PROVE refCount' > 0
      <4>1. PluginReference' = 1
        BY <1>3, <3>1 DEF PluginReference
      <4>2. Cardinality(LiveJobs)' \in Nat
        <5>1. LiveJobs' \in SUBSET Jobs /\ IsFiniteSet(Jobs)
          BY FS_Interval, LifecycleAssumption DEF LiveJobs, Jobs
        <5> QED
          BY <5>1, FS_Subset, FS_CardinalityType
      <4> QED
        BY <1>4, <4>1, <4>2
    <3> QED
      BY <1>4, <3>1
  <2> QED
    BY <1>2, <1>4, <1>5, <2>1 DEF Inv, Control, mainVars, libusbVars, eventVars
<1>11. Places'
  <2>1. \A v \in Workers : workerPc'[v] = "idle" <=> job'[v] = None
    BY <1>2 DEF Inv, TypeOK, JobTypes, Places
  <2>2. held' = None \/ held' \in Jobs
    BY <1>2 DEF Inv, TypeOK, JobTypes, eventVars
  <2> QED
    BY <1>2, <1>6, <2>1, <2>2 DEF Inv, Places, eventVars
<1>12. InCallback'
  BY <1>2 DEF Inv, TypeOK, JobTypes, InCallback, mainVars
<1>13. ReferencesExact'
  <2>1. PooledOnce'
    <3>1. \A v \in Workers : job'[v] = IF v = w THEN None ELSE job[v]
      BY <1>2 DEF Inv, TypeOK, JobTypes
    <3> QED
      BY <1>2, <3>1 DEF Inv, ReferencesExact, PooledOnce
  <2>2. ASSUME NEW j \in Jobs
        PROVE  jobRefs'[j] = (IF held' = j THEN 1 ELSE 0) + (IF Pooled(j)' THEN 1 ELSE 0)
    <3>1. /\ jobRefs[j] = (IF held = j THEN 1 ELSE 0) + (IF Pooled(j) THEN 1 ELSE 0)
          /\ held' = held
      BY <1>2 DEF Inv, ReferencesExact, eventVars
    <3>2. CASE j = h
      <4>1. jobRefs'[j] = jobRefs[j] - 1
        BY <1>1, <1>4, <3>2
      <4> QED
        BY <1>1, <1>6, <3>1, <3>2, <4>1
    <3>3. CASE j # h
      <4>1. jobRefs'[j] = jobRefs[j]
        BY <1>1, <1>4, <3>3
      <4> QED
        BY <1>6, <3>1, <3>3, <4>1
    <3> QED
      BY <3>2, <3>3
  <2> QED
    BY <1>4, <2>1, <2>2 DEF ReferencesExact
<1> QED
  BY <1>7, <1>8, <1>9, <1>10, <1>11, <1>12, <1>13 DEF Inv, TypeOK

-----------------------------------------------------------------------------
(* The invariant, and what follows from it.                                *)

LEMMA InitInv == Init => Inv
<1> SUFFICES ASSUME Init PROVE Inv
  OBVIOUS
<1>1. ObjectTypes
  BY DEF Init, ObjectTypes, Faults
<1>2. LibusbTypes
  BY NoMessages DEF Init, LibusbTypes
<1>3. JobTypes
  <2>1. 0 \in 0..MaxJobs /\ <<>> \in Seq(Jobs)
    BY LifecycleAssumption
  <2> QED
    BY <2>1 DEF Init, JobTypes
<1>4. Control /\ InCallback
  BY DEF Init, Control, InCallback
<1>5. \A j \in Jobs : ~Pooled(j) /\ j # None
  BY NoneIsNoJob DEF Init, Pooled, ToSet
<1>6. Places
  BY <1>5 DEF Init, Places
<1>7. ReferencesExact
  <2>1. PooledOnce
    BY DEF Init, PooledOnce, IsInjective
  <2>2. LiveJobs = {}
    BY DEF Init, LiveJobs
  <2>3. refCount = PluginReference + Cardinality(LiveJobs)
    BY <2>2, FS_EmptySet DEF Init, PluginReference
  <2> QED
    BY <1>5, <2>1, <2>3 DEF Init, ReferencesExact
<1> QED
  BY <1>1, <1>2, <1>3, <1>4, <1>6, <1>7 DEF Inv, TypeOK

LEMMA NextInv == Inv /\ [Next]_vars => Inv'
<1> SUFFICES ASSUME Inv, [Next]_vars PROVE Inv'
  OBVIOUS
<1>1. CASE Initialize
  BY <1>1, ConstructInv, ConstructedInv, RegisterSinkInv DEF Initialize
<1>2. CASE Deinitialize
  BY <1>2, DeactivateInv, UnregisterSinkInv, ReleaseImplInv, DeinitializedInv DEF Deinitialize
<1>3. CASE Close
  BY <1>3, ClearFlagInv, DeregisterAttachedInv, DeregisterDetachedInv, JoinInv, ExitInv
     DEF Close
<1>4. CASE EventThread
  BY <1>4, CheckFlagInv, PollInv, HandleMessageInv, DropEventInv, CreateJobInv,
     SubmitJobInv, DropHeldInv DEF EventThread
<1>5. CASE \E m \in Messages : HotPlug(m)
  BY <1>5, HotPlugInv
<1>6. CASE \E w \in Workers : Worker(w)
  BY <1>6, TakeJobInv, DispatchInv, DispatchReturnInv, FinishJobInv DEF Worker
<1>7. CASE UNCHANGED vars
  <2>1. fault' \in Faults
    BY <1>7 DEF vars, Inv, TypeOK, ObjectTypes
  <2> QED
    BY <1>7, <2>1, FaultInv DEF vars
<1> QED
  BY <1>1, <1>2, <1>3, <1>4, <1>5, <1>6, <1>7 DEF Next, Over

\* Inv holds in every state, for any workers, Jobs and activations.
THEOREM Invariance == Spec => []Inv
  BY InitInv, NextInv, PTL DEF Spec

\* Every variable keeps its type: no reference count falls below zero.
THEOREM TypeCorrect == Spec => []TypeOK
<1>1. Inv => TypeOK
  BY DEF Inv
<1> QED
  BY <1>1, Invariance, PTL

\* The join in libUSBClose never waits for a thread which nothing will wake.
THEOREM CloseWakesEventThread == Spec => []NoLostWakeup
<1>1. Inv => NoLostWakeup
  BY DEF Inv, Control, NoLostWakeup
<1> QED
  BY <1>1, Invariance, PTL

\* The counts on the object and on each Job are the references really held.
THEOREM CountsExact == Spec => []ReferencesExact
<1>1. Inv => ReferencesExact
  BY DEF Inv
<1> QED
  BY <1>1, Invariance, PTL

\* A Job's reference keeps the object from its destructor until it has run.
THEOREM DispatchSafe == Spec => []DispatchOnLiveObject
<1>1. Inv => DispatchOnLiveObject
  <2> SUFFICES ASSUME Inv, NEW w \in Workers, workerPc[w] \in {"dispatch", "callback"}
               PROVE  obj = "alive"
    BY DEF DispatchOnLiveObject
  <2>1. job[w] \in Jobs
    BY DEF Inv, TypeOK, JobTypes, Places
  <2>2. Pooled(job[w])
    BY DEF Pooled
  <2>3. jobRefs[job[w]] > 0
    BY <2>1, <2>2 DEF Inv, ReferencesExact
  <2> QED
    BY <2>1, <2>3, JobKeepsObject
<1> QED
  BY <1>1, Invariance, PTL

\* libusb's context outlives the event thread, and nothing outlives the object.
THEOREM CloseIsClean == Spec => []CleanClose
<1>1. Inv => CleanClose
  <2> SUFFICES ASSUME Inv PROVE CleanClose
    OBVIOUS
  <2>1. evPc # "none" => ctx
    BY DEF Inv, Control
  <2>2. ASSUME obj = "gone"
        PROVE  ~ctx /\ ~handling /\ callbacks = {} /\ ~registered /\ LiveJobs = {}
    <3>1. ~ctx /\ ~handling /\ callbacks = {} /\ ~registered
      BY <2>2 DEF Inv, Control
    <3>2. \A j \in Jobs : ~(jobRefs[j] > 0)
      BY <2>2, JobKeepsObject
    <3> QED
      BY <3>1, <3>2 DEF LiveJobs
  <2> QED
    BY <2>1, <2>2 DEF CleanClose
<1> QED
  BY <1>1, Invariance, PTL

\* The plugin's sink is not in use once Deinitialize has unregistered it.
THEOREM SinkSafe == Spec => []SinkQuiet
<1>1. Inv => SinkQuiet
  BY DEF Inv, InCallback, SinkQuiet
<1> QED
  BY <1>1, Invariance, PTL

-----------------------------------------------------------------------------
(* What a fault takes, and what Release in Deinitialize returns.           *)

\* An object which outlives the Release of the plugin, and the thread which destroys
\* it, tell what that Release returned.
ResultTells ==
    /\ mainPc \in {"releasing", "off"} /\ obj = "alive" => result = "not the last"
    /\ obj = "closing" /\ closer # "main" => result = "not the last"

\* A Job's reference is the last only after the plugin's own has gone.
LEMMA DropTells ==
    ASSUME Inv, ResultTells, NEW j \in Jobs, jobRefs[j] > 0, NEW t \in Threads,
           DropJob(j, t), UNCHANGED mainVars
    PROVE  ResultTells'
<1>1. /\ refCount' = PluginReference' + Cardinality(LiveJobs)'
      /\ refCount' > 0 <=> obj' = "alive"
      /\ \/ UNCHANGED <<obj, closer, closePc>>
         \/ obj' = "closing" /\ closer' = t /\ closePc' = "flag"
      /\ refCount' \in Nat
  BY DropJobEffect DEF PluginReference, mainVars
<1>2. CASE UNCHANGED <<obj, closer, closePc>>
  BY <1>2 DEF ResultTells, mainVars
<1>3. CASE obj' = "closing" /\ closer' = t /\ closePc' = "flag"
  <2>1. LiveJobs' \subseteq Jobs /\ IsFiniteSet(Jobs)
    BY FS_Interval, LifecycleAssumption DEF LiveJobs, Jobs
  <2>2. Cardinality(LiveJobs)' \in Nat
    BY <2>1, FS_Subset, FS_CardinalityType
  <2>3. refCount' = 0
    BY <1>1, <1>3
  <2>4. PluginReference' = 0
    BY <1>1, <2>2, <2>3 DEF PluginReference
  <2>5. mainPc \notin {"register", "active", "unregister", "release"}
    BY <2>4 DEF PluginReference, mainVars
  <2>6. obj = "alive" /\ mainPc # "constructing"
    BY JobKeepsObject DEF Inv, Control
  <2>7. mainPc \in {"off", "releasing"}
    BY <2>5, <2>6 DEF Inv, TypeOK, ObjectTypes
  <2> QED
    BY <1>3, <2>6, <2>7 DEF ResultTells, mainVars
<1> QED
  BY <1>1, <1>2, <1>3

LEMMA ReleaseTells == ASSUME Inv, ResultTells, ReleaseImpl PROVE ResultTells'
<1>1. mainPc' = "releasing" /\ obj = "alive"
  BY DEF ReleaseImpl, Inv, Control
<1>2. CASE refCount = 1
  BY <1>1, <1>2 DEF ReleaseImpl, Release, ResultTells
<1>3. CASE refCount # 1
  BY <1>1, <1>3 DEF ReleaseImpl, Release, ResultTells
<1> QED
  BY <1>2, <1>3

LEMMA NextTells == ASSUME Inv, ResultTells, [Next]_vars PROVE ResultTells'
<1> USE DEF mainVars, closeVars
<1>1. CASE Initialize
  BY <1>1 DEF Initialize, Construct, Constructed, RegisterSink, ResultTells
<1>2. CASE Deinitialize
  <2>1. CASE Deactivate \/ UnregisterSink \/ Deinitialized
    BY <2>1 DEF Deactivate, UnregisterSink, Deinitialized, ResultTells, Up, LockFree, Inv, Control
  <2> QED
    BY <1>2, <2>1, ReleaseTells DEF Deinitialize
<1>3. CASE Close
  BY <1>3 DEF Close, ClearFlag, DeregisterAttached, DeregisterDetached, Deregister, Join,
     Exit, ResultTells
<1>4. CASE EventThread
  <2>1. CASE DropHeld
    <3>1. held \in Jobs /\ jobRefs[held] > 0
      BY <2>1, NoneIsNoJob DEF DropHeld, Inv, TypeOK, JobTypes, Places, ReferencesExact
    <3> QED
      BY <2>1, <3>1, DropTells DEF DropHeld, Threads
  <2>2. CASE ~DropHeld
    BY <1>4, <2>2 DEF EventThread, CheckFlag, Poll, HandleMessage, DropEvent, CreateJob,
       SubmitJob, ResultTells
  <2> QED
    BY <2>1, <2>2
<1>5. CASE \E m \in Messages : HotPlug(m)
  BY <1>5 DEF HotPlug, ResultTells
<1>6. ASSUME NEW w \in Workers, Worker(w) PROVE ResultTells'
  <2>1. CASE FinishJob(w)
    <3>1. job[w] \in Jobs /\ Pooled(job[w])
      BY <2>1 DEF FinishJob, Inv, TypeOK, JobTypes, Places, Pooled
    <3>2. jobRefs[job[w]] > 0
      BY <3>1 DEF Inv, ReferencesExact
    <3> QED
      BY <2>1, <3>1, <3>2, DropTells DEF FinishJob, Threads
  <2>2. CASE ~FinishJob(w)
    BY <1>6, <2>2 DEF Worker, TakeJob, Dispatch, DispatchReturn, ResultTells
  <2> QED
    BY <2>1, <2>2
<1>7. CASE UNCHANGED vars
  BY <1>7 DEF vars, ResultTells
<1> QED
  BY <1>1, <1>2, <1>3, <1>4, <1>5, <1>6, <1>7 DEF Next, Over

LEMMA NextExplained ==
    ASSUME Inv, ResultTells, FaultsExplained, [Next]_vars PROVE FaultsExplained'
<1> USE DEF mainVars, closeVars
<1>1. CASE fault' = "none"
  BY <1>1 DEF FaultsExplained
<1>2. CASE UNCHANGED vars
  <2>1. LiveJobs' = LiveJobs
    BY <1>2 DEF vars, jobVars, LiveJobs
  <2> QED
    BY <1>2, <2>1 DEF vars, libusbVars, eventVars, FaultsExplained
<1>3. CASE fault' # "none" /\ ~UNCHANGED vars
  <2>1. Up /\ (DeregisterAttached \/ DeregisterDetached \/ Join \/ CreateJob)
    BY <1>3 DEF Next, Over, Up, Initialize, Construct, Constructed, RegisterSink,
       Deinitialize, Deactivate, UnregisterSink, ReleaseImpl, Deinitialized, Close, ClearFlag,
       DeregisterAttached, DeregisterDetached, Deregister, Join, Exit, HotPlug,
       EventThread, CheckFlag, Poll, HandleMessage, DropEvent, CreateJob, SubmitJob,
       DropHeld, Worker, TakeJob, Dispatch, DispatchReturn, FinishJob
  <2>2. CASE DeregisterAttached \/ DeregisterDetached
    <3>1. /\ fault' = "no context" /\ ~ctx /\ closePc # "none"
          /\ UNCHANGED <<evPc, callbacks, jobRefs>>
      BY <1>3, <2>1, <2>2 DEF Up, DeregisterAttached, DeregisterDetached, Deregister,
         eventVars, jobVars
    <3>2. evPc = "none" /\ callbacks = {} /\ obj # "alive"
      BY <3>1 DEF Inv, Control
    <3>3. \A j \in Jobs : ~(jobRefs[j] > 0)
      BY <3>2, JobKeepsObject
    <3> QED
      BY <3>1, <3>2, <3>3 DEF FaultsExplained, LiveJobs
  <2>3. CASE Join
    <3>1. fault' = "self join" /\ closer = "events" /\ UNCHANGED <<closer, result>>
      BY <1>3, <2>1, <2>3 DEF Up, Join
    <3>2. result = "not the last"
      BY <2>3, <3>1 DEF Join, ResultTells, Inv, Control
    <3> QED
      BY <3>1, <3>2 DEF FaultsExplained
  <2>4. CASE CreateJob
    <3>1. /\ evPc = "callback" /\ obj # "alive"
          /\ fault' = IF obj = "constructing" THEN "half built" ELSE "dead object"
          /\ UNCHANGED <<mainPc, obj, closePc>>
      BY <1>3, <2>1, <2>4 DEF Up, CreateJob
    <3>2. obj \in {"constructing", "closing"} /\ closePc # "exit"
      BY <3>1 DEF Inv, Control, TypeOK, ObjectTypes
    <3>3. obj = "constructing" => mainPc = "constructing"
      BY DEF Inv, Control
    <3> QED
      BY <3>1, <3>2, <3>3 DEF FaultsExplained
  <2> QED
    BY <2>1, <2>2, <2>3, <2>4
<1> QED
  BY <1>1, <1>2, <1>3

\* These hold together in every state, for any workers, Jobs and activations.
THEOREM FaultInvariance == Spec => [](Inv /\ ResultTells /\ FaultsExplained)
<1>1. Init => Inv /\ ResultTells /\ FaultsExplained
  <2> SUFFICES ASSUME Init PROVE ResultTells /\ FaultsExplained
    BY InitInv
  <2>1. fault = "none" /\ mainPc = "off" /\ obj = "none"
    BY DEF Init
  <2> QED
    BY <2>1 DEF ResultTells, FaultsExplained
<1>2. Inv /\ ResultTells /\ FaultsExplained /\ [Next]_vars
        => (Inv /\ ResultTells /\ FaultsExplained)'
  BY NextInv, NextTells, NextExplained
<1> QED
  BY <1>1, <1>2, PTL DEF Spec

\* Each fault has the one cause which FaultsExplained names: no Job is ever made on an
\* object which is gone, and only a Release which was not the last lets the event
\* thread join itself.
THEOREM FaultsHaveCauses == Spec => []FaultsExplained
<1>1. Inv /\ ResultTells /\ FaultsExplained => FaultsExplained
  OBVIOUS
<1> QED
  BY <1>1, FaultInvariance, PTL

\* What the assertion in Deinitialize asks for fails for pending Jobs alone.
THEOREM ReleaseIsLast == Spec => LastUnlessJobs
<1> DEFINE Act == mainPc = "release" /\ mainPc' = "releasing" =>
                     (result' = "destruction succeeded" <=> LiveJobs = {})
<1>1. Inv /\ [Next]_vars => [Act]_vars
  <2> SUFFICES ASSUME Inv, Next, mainPc = "release", mainPc' = "releasing"
               PROVE  result' = "destruction succeeded" <=> LiveJobs = {}
    OBVIOUS
  <2>1. ReleaseImpl
    BY DEF Next, Over, vars, mainVars, Initialize, Construct, Constructed, RegisterSink,
       Deinitialize, Deactivate, UnregisterSink, Deinitialized, Close, ClearFlag,
       DeregisterAttached, DeregisterDetached, Deregister, Join, Exit, HotPlug,
       EventThread, CheckFlag, Poll, HandleMessage, DropEvent, CreateJob, SubmitJob,
       DropHeld, Worker, TakeJob, Dispatch, DispatchReturn, FinishJob
  <2>2. refCount = 1 + Cardinality(LiveJobs)
    BY DEF Inv, ReferencesExact, PluginReference
  <2>3. Cardinality(LiveJobs) = 0 <=> LiveJobs = {}
    BY LiveJobsFinite, FS_EmptySet
  <2>4. refCount = 1 <=> LiveJobs = {}
    BY <2>2, <2>3, LiveJobsFinite
  <2> QED
    BY <2>1, <2>4 DEF ReleaseImpl
<1> QED
  BY <1>1, Invariance, PTL DEF Spec, LastUnlessJobs

\* The object has the context which its constructor has set up.
HasContext == (obj \in {"constructing", "alive", "closing"} => ctx) /\ fault # "no context"

LEMMA NextHasContext ==
    ASSUME Outcomes \subseteq {"ok"}, Inv, HasContext, [Next]_vars PROVE HasContext'
<1>1. CASE Initialize
  <2>1. CASE Construct
    BY <2>1 DEF Construct, HasContext
  <2>2. CASE Constructed \/ RegisterSink
    BY <2>2 DEF Constructed, RegisterSink, libusbVars, HasContext, Inv, Control
  <2> QED
    BY <1>1, <2>1, <2>2 DEF Initialize
<1>2. CASE Deinitialize
  BY <1>2 DEF Deinitialize, Deactivate, UnregisterSink, ReleaseImpl, Release, Deinitialized, Inv,
     Control, libusbVars, HasContext
<1>3. CASE Close
  <2>1. obj = "closing"
    BY <1>3 DEF Close, ClearFlag, DeregisterAttached, DeregisterDetached, Deregister, Join,
       Exit, Inv, Control
  <2> QED
    BY <1>3, <2>1 DEF Close, ClearFlag, DeregisterAttached, DeregisterDetached, Deregister,
       Join, Exit, libusbVars, HasContext
<1>4. CASE EventThread
  <2>1. evPc # "none" => ctx
    BY DEF Inv, Control
  <2> QED
    BY <1>4, <2>1 DEF EventThread, CheckFlag, Poll, HandleMessage, DropEvent, CreateJob,
       SubmitJob, DropHeld, libusbVars, HasContext
<1>5. ASSUME NEW m \in Messages, HotPlug(m) PROVE HasContext'
  BY <1>5 DEF HotPlug, HasContext
<1>6. ASSUME NEW w \in Workers, Worker(w) PROVE HasContext'
  <2>1. CASE FinishJob(w)
    <3>1. job[w] \in Jobs /\ Pooled(job[w])
      BY <2>1 DEF FinishJob, Inv, TypeOK, JobTypes, Places, Pooled
    <3>2. jobRefs[job[w]] > 0
      BY <3>1 DEF Inv, ReferencesExact
    <3>3. obj = "alive"
      BY <3>1, <3>2, JobKeepsObject
    <3> QED
      BY <2>1, <3>3 DEF FinishJob, libusbVars, HasContext
  <2>2. CASE ~FinishJob(w)
    BY <1>6, <2>2 DEF Worker, TakeJob, Dispatch, DispatchReturn, libusbVars, HasContext
  <2> QED
    BY <2>1, <2>2
<1>7. CASE UNCHANGED vars
  BY <1>7 DEF vars, libusbVars, HasContext
<1> QED
  BY <1>1, <1>2, <1>3, <1>4, <1>5, <1>6, <1>7 DEF Next, Over

\* When libUSBInit succeeds the plugin has libusb for as long as it is active, and its
\* destructor has the context it tears down.
THEOREM GoodInitSuffices ==
    ASSUME Outcomes \subseteq {"ok"} PROVE Spec => [](FailureReported /\ fault # "no context")
<1>1. Init => HasContext
  BY DEF Init, HasContext
<1>2. Inv /\ HasContext /\ [Next]_vars => HasContext'
  BY NextHasContext
<1>3. Inv /\ HasContext => FailureReported /\ fault # "no context"
  BY DEF Inv, Control, FailureReported, HasContext
<1> QED
  BY <1>1, <1>2, <1>3, Invariance, PTL DEF Spec
=============================================================================
