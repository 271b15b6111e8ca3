-------------------------- MODULE PluginShellProofs --------------------------
(***************************************************************************)
(* The safety of PluginShell, for any processes of this and of other       *)
(* plugins.                                                                *)
(*                                                                         *)
(* Members says which members are set at which step of Initialize and      *)
(* Deinitialize, and Notices what Thunder may be telling the sink then: a  *)
(* callback runs only while the sink is registered, hence only while       *)
(* _service is set, because Unregister waits for it. A connection closes   *)
(* once, so it is at one place of Thunder only, and each Job counts.       *)
(*                                                                         *)
(* Orphans follows the news of a crash from the connection to the callback *)
(* and the Job: an active plugin whose process is dead has it in one of    *)
(* them, whatever Jobs an earlier activation has left.                     *)
(***************************************************************************)
EXTENDS PluginShell, FiniteSetTheorems, TLAPS

Members ==
    /\ pc = "out" <=> state \in {"activated", "deactivated"}
    /\ pc \in Initializing => state = "activating"
    /\ pc \in Deinitializing \ {"forget", "clear"} => state = "deactivating"
    /\ service <=> state # "deactivated" /\ pc # "begin"
    /\ observing <=> service /\ pc \notin {"observe", "clear"}
    /\ announced <=> state = "activated" \/ pc = "withdraw"
    /\ impl # None => state = "activated"
                        \/ pc \in {"announce", "withdraw", "connection", "release"}
    /\ connectionId # None => service

Notices ==
    /\ closing # None => observing
    /\ matched => closing \in Hosts
    /\ closing \in Hosts => process[closing] = "dead"
    /\ jobs \subseteq Hosts /\ \A k \in jobs : process[k] = "dead"
    /\ closing \notin connections \cup jobs /\ jobs \cap connections = {}

Counts == references = Cardinality(jobs) + (IF service THEN 1 ELSE 0)

Inv == TypeOK /\ Members /\ Notices /\ Counts

LEMMA JobsFinite == ASSUME TypeOK, Notices PROVE IsFiniteSet(jobs) /\ Cardinality(jobs) \in Nat
<1>1. IsFiniteSet(jobs)
  BY PluginShellAssumption, FS_Subset DEF Notices
<1> QED
  BY <1>1, FS_CardinalityType

LEMMA InitInv == Init => Inv
<1> SUFFICES ASSUME Init PROVE Inv
  OBVIOUS
<1>1. TypeOK
  BY DEF Init, TypeOK, States
<1>2. Members /\ Notices
  BY PluginShellAssumption DEF Init, Members, Notices, Initializing, Deinitializing
<1>3. Counts
  BY FS_EmptySet DEF Init, Counts
<1> QED
  BY <1>1, <1>2, <1>3 DEF Inv

\* A step of Initialize or Deinitialize.
LEMMA InitializeInv == ASSUME Inv, Activate \/ Initialize PROVE Inv'
<1> USE PluginShellAssumption DEF Goto, pluginVars, processVars, thunderVars, Unlocked
<1>1. TypeOK'
  <2>1. CASE Activate
    BY <2>1 DEF Activate, Inv, TypeOK, States, Initializing, Deinitializing
  <2>2. CASE KeepService
    BY <2>2 DEF KeepService, Inv, TypeOK, States, Initializing, Deinitializing
  <2>3. CASE Observe
    BY <2>3 DEF Observe, Inv, TypeOK, States, Initializing, Deinitializing
  <2>4. CASE Launch
    BY <2>4 DEF Launch, Inv, TypeOK, States, Initializing, Deinitializing
  <2>5. CASE RootReturns
    BY <2>5 DEF RootReturns, Inv, TypeOK, States, Initializing, Deinitializing
  <2>6. CASE Announce
    BY <2>6 DEF Announce, Inv, TypeOK, States, Initializing, Deinitializing
  <2> QED
    BY <2>1, <2>2, <2>3, <2>4, <2>5, <2>6 DEF Initialize
<1>2. Members'
  <2>1. CASE Activate
    BY <2>1 DEF Activate, Inv, Members, TypeOK, Initializing, Deinitializing
  <2>2. CASE KeepService
    BY <2>2 DEF KeepService, Inv, Members, TypeOK, Initializing, Deinitializing
  <2>3. CASE Observe
    BY <2>3 DEF Observe, Inv, Members, TypeOK, Initializing, Deinitializing
  <2>4. CASE Launch
    BY <2>4 DEF Launch, Inv, Members, TypeOK, Initializing, Deinitializing
  <2>5. CASE RootReturns
    BY <2>5 DEF RootReturns, Inv, Members, TypeOK, Initializing, Deinitializing
  <2>6. CASE Announce
    BY <2>6 DEF Announce, Inv, Members, TypeOK, Initializing, Deinitializing
  <2> QED
    BY <2>1, <2>2, <2>3, <2>4, <2>5, <2>6 DEF Initialize
<1>3. Notices'
  <2>1. CASE Launch
    BY <2>1 DEF Launch, Inv, Members, Notices, TypeOK
  <2>2. CASE Activate \/ KeepService \/ Observe \/ RootReturns \/ Announce
    BY <2>2 DEF Activate, KeepService, Observe, RootReturns, Announce, Inv, Notices, Members
  <2> QED
    BY <2>1, <2>2 DEF Initialize
<1>4. Counts'
  <2>1. CASE KeepService
    BY <2>1, JobsFinite DEF KeepService, Inv, Counts, Members, Initializing, Deinitializing
  <2>2. CASE Activate \/ Observe \/ Launch \/ RootReturns \/ Announce
    BY <2>2 DEF Activate, Observe, Launch, RootReturns, Announce, Inv, Counts
  <2> QED
    BY <2>1, <2>2 DEF Initialize
<1> QED
  BY <1>1, <1>2, <1>3, <1>4 DEF Inv

LEMMA DeinitializeInv == ASSUME Inv, Deactivate \/ Deinitialize PROVE Inv'
<1> USE PluginShellAssumption DEF Goto, pluginVars, processVars, thunderVars, Unlocked
<1>1. TypeOK'
  <2>1. CASE Deactivate
    BY <2>1 DEF Deactivate, Inv, TypeOK, States, Initializing, Deinitializing
  <2>2. CASE Withdraw
    BY <2>2, ZenonT(40) DEF Withdraw, Inv, TypeOK, States, Initializing, Deinitializing
  <2>3. CASE RemoteConnection
    BY <2>3 DEF RemoteConnection, Inv, TypeOK, States, Initializing, Deinitializing
  <2>4. CASE ReleaseImpl
    BY <2>4 DEF ReleaseImpl, Inv, TypeOK, States, Initializing, Deinitializing
  <2>5. CASE Terminate
    BY <2>5 DEF Terminate, Inv, TypeOK, States, Initializing, Deinitializing
  <2>6. CASE Forget
    BY <2>6 DEF Forget, Inv, TypeOK, States, Initializing, Deinitializing
  <2>7. CASE Clear
    <3>1. references' \in Nat
      BY <2>7, JobsFinite DEF Clear, Inv, Counts, Members, Initializing, Deinitializing
    <3> QED
      BY <2>7, <3>1 DEF Clear, Inv, TypeOK, States, Initializing, Deinitializing
  <2> QED
    BY <2>1, <2>2, <2>3, <2>4, <2>5, <2>6, <2>7 DEF Deinitialize
<1>2. Members'
  <2>1. CASE Deactivate
    BY <2>1 DEF Deactivate, Inv, Members, TypeOK, Initializing, Deinitializing
  <2>2. CASE Withdraw
    BY <2>2 DEF Withdraw, Inv, Members, TypeOK, Initializing, Deinitializing
  <2>3. CASE RemoteConnection
    BY <2>3 DEF RemoteConnection, Inv, Members, TypeOK, Initializing, Deinitializing
  <2>4. CASE ReleaseImpl
    BY <2>4 DEF ReleaseImpl, Inv, Members, TypeOK, Initializing, Deinitializing
  <2>5. CASE Terminate
    BY <2>5 DEF Terminate, Inv, Members, TypeOK, Initializing, Deinitializing
  <2>6. CASE Forget
    BY <2>6 DEF Forget, Inv, Members, TypeOK, Initializing, Deinitializing
  <2>7. CASE Clear
    BY <2>7 DEF Clear, Inv, Members, TypeOK, Initializing, Deinitializing
  <2> QED
    BY <2>1, <2>2, <2>3, <2>4, <2>5, <2>6, <2>7 DEF Deinitialize
<1>3. Notices'
  <2>1. CASE Forget
    BY <2>1 DEF Forget, Inv, Notices
  <2>2. CASE Clear
    BY <2>2 DEF Clear, Inv, Notices
  <2>3. CASE Deactivate \/ Withdraw \/ RemoteConnection \/ ReleaseImpl \/ Terminate
    BY <2>3 DEF Deactivate, Withdraw, RemoteConnection, ReleaseImpl, Terminate, Inv, Notices
  <2> QED
    BY <2>1, <2>2, <2>3 DEF Deinitialize
<1>4. Counts'
  <2>1. CASE Clear
    BY <2>1, JobsFinite DEF Clear, Inv, Counts, Members, Initializing, Deinitializing
  <2>2. CASE Deactivate \/ Withdraw \/ RemoteConnection \/ ReleaseImpl \/ Terminate \/ Forget
    BY <2>2 DEF Deactivate, Withdraw, RemoteConnection, ReleaseImpl, Terminate, Forget, Inv,
                Counts
  <2> QED
    BY <2>1, <2>2 DEF Deinitialize
<1> QED
  BY <1>1, <1>2, <1>3, <1>4 DEF Inv

-----------------------------------------------------------------------------
(* Processes and Thunder.                                                  *)

LEMMA ExitInv == ASSUME Inv, NEW p \in Hosts, Exit(p) PROVE Inv'
<1> USE DEF pluginVars, thunderVars
<1>1. TypeOK'
  BY DEF Exit, Inv, TypeOK
<1>2. Members' /\ Counts'
  BY DEF Exit, Inv, Members, Counts
<1>3. Notices'
  BY DEF Exit, Inv, Notices, TypeOK
<1> QED
  BY <1>1, <1>2, <1>3 DEF Inv

LEMMA CloseInv == ASSUME Inv, NEW k \in Hosts \cup Others, Close(k) PROVE Inv'
<1> USE PluginShellAssumption DEF pluginVars, processVars, Unlocked
<1>1. TypeOK'
  BY DEF Close, Inv, TypeOK
<1>2. Members' /\ Counts'
  BY DEF Close, Inv, Members, Counts
<1>3. Notices'
  BY DEF Close, Inv, Notices
<1> QED
  BY <1>1, <1>2, <1>3 DEF Inv

LEMMA CompareInv == ASSUME Inv, Compare PROVE Inv'
<1> USE PluginShellAssumption DEF pluginVars, processVars
<1>1. TypeOK'
  BY DEF Compare, Inv, TypeOK
<1>2. Members' /\ Counts'
  BY DEF Compare, Inv, Members, Counts
<1>3. Notices'
  BY DEF Compare, Inv, Notices, TypeOK
<1> QED
  BY <1>1, <1>2, <1>3 DEF Inv

\* The connection of a Job is new among the Jobs, so the Job's reference counts.
LEMMA SubmitInv == ASSUME Inv, Submit PROVE Inv'
<1> USE PluginShellAssumption DEF processVars
<1>1. closing \in Hosts /\ closing \notin jobs /\ process[closing] = "dead"
  BY DEF Submit, Inv, Notices
<1>2. references \in Nat /\ references' = references + 1
  BY DEF Submit, Inv, TypeOK
<1>3. TypeOK'
  <2>1. references' \in Nat
    BY <1>2
  <2>2. jobs' \subseteq Hosts \cup Others
    BY <1>1 DEF Submit, Inv, TypeOK
  <2> QED
    BY <2>1, <2>2 DEF Submit, Inv, TypeOK
<1>4. Members'
  BY DEF Submit, Inv, Members
<1>5. Notices'
  BY <1>1 DEF Submit, Inv, Notices, TypeOK
<1>6. Cardinality(jobs') = Cardinality(jobs) + 1
  BY <1>1, JobsFinite, FS_AddElement DEF Submit, Inv
<1>7. Counts'
  BY <1>2, <1>6, JobsFinite DEF Submit, Inv, Counts
<1> QED
  BY <1>3, <1>4, <1>5, <1>7 DEF Inv

LEMMA RunJobInv == ASSUME Inv, NEW k \in Hosts \cup Others, RunJob(k) PROVE Inv'
<1> USE PluginShellAssumption DEF processVars, Goto
<1>1. Cardinality(jobs') = Cardinality(jobs) - 1 /\ Cardinality(jobs') \in Nat
  BY JobsFinite, FS_RemoveElement, FS_CardinalityType DEF RunJob, Inv
<1>2. references \in Nat /\ references' = references - 1
  BY DEF RunJob, Inv, TypeOK
<1>3. Counts'
  BY <1>1, <1>2, JobsFinite DEF RunJob, Inv, Counts
<1>4. references' \in Nat
  BY <1>1, <1>3 DEF Counts
<1>5. TypeOK'
  BY <1>4 DEF RunJob, Inv, TypeOK, States, Deinitializing
<1>6. Members'
  BY DEF RunJob, Inv, Members, TypeOK, Initializing, Deinitializing
<1>7. Notices'
  BY DEF RunJob, Inv, Notices
<1> QED
  BY <1>3, <1>5, <1>6, <1>7 DEF Inv

LEMMA NextInv == ASSUME Inv, [Next]_vars PROVE Inv'
<1>1. CASE \E p \in Hosts : Exit(p)
  BY <1>1, ExitInv
<1>2. CASE \E k \in Hosts \cup Others : Close(k) \/ RunJob(k)
  BY <1>2, CloseInv, RunJobInv
<1>3. CASE Quiescent \/ UNCHANGED vars
  BY <1>3 DEF Quiescent, vars, pluginVars, processVars, thunderVars, Inv, TypeOK, Members,
              Notices, Counts
<1> QED
  BY <1>1, <1>2, <1>3, InitializeInv, DeinitializeInv, CompareInv, SubmitInv DEF Next

\* Inv holds in every state, for any processes and connections.
THEOREM Invariance == Spec => []Inv
<1> QED
  BY InitInv, NextInv, PTL DEF Spec

-----------------------------------------------------------------------------
(* What follows.                                                           *)

\* The plugin, the processes and Thunder hold what they should; no reference on the
\* shell is released which was not taken.
THEOREM TypeCorrect == Spec => []TypeOK
<1>1. Inv => TypeOK
  BY DEF Inv
<1> QED
  BY <1>1, Invariance, PTL

\* What Initialize, Deinitialize and Deactivated assert of the plugin's members never
\* fails, whenever the process of the implementation dies.
THEOREM NoAssertionFails == Spec => []AssertionsHold
<1>1. ASSUME Inv PROVE AssertionsHold
  <2>1. pc = "begin" => ~service /\ impl = None /\ connectionId = None
    BY <1>1 DEF Inv, Members, Initializing
  <2>2. pc \in Deinitializing => service
    BY <1>1 DEF Inv, Members, Deinitializing
  <2>3. matched => service
    BY <1>1, PluginShellAssumption DEF Inv, Members, Notices
  <2> QED
    BY <2>1, <2>2, <2>3 DEF AssertionsHold
<1> QED
  BY <1>1, Invariance, PTL

\* References on the shell are exact, and a deactivated plugin has nothing registered.
THEOREM ShellReferencesBalance == Spec => []ShellBalanced
<1>1. ASSUME Inv PROVE ShellBalanced
  BY <1>1 DEF Inv, Members, Counts, ShellBalanced, Deinitializing
<1> QED
  BY <1>1, Invariance, PTL

\* The plugin is never deactivated for FAILURE because another plugin's process ended.
THEOREM OnlyOwnFailures == Spec => FailureIsOwn
<1>1. ASSUME Inv, [Next]_vars, cause' # cause, cause' # None
      PROVE  cause' \in Hosts /\ process[cause'] = "dead"
  <2>1. PICK k \in Hosts \cup Others : RunJob(k)
    BY <1>1 DEF Next, Activate, Initialize, KeepService, Observe, Launch, RootReturns,
         Announce, Deactivate, Deinitialize, Withdraw, RemoteConnection, ReleaseImpl,
         Terminate, Forget, Clear, Exit, Close, Compare, Submit, Quiescent, vars
  <2>2. k \in jobs /\ cause' = k
    BY <1>1, <2>1 DEF RunJob
  <2> QED
    BY <1>1, <2>2 DEF Inv, Notices
<1>2. Inv /\ [Next]_vars =>
        [cause' # cause /\ cause' # None => cause' \in Hosts /\ process[cause'] = "dead"]_vars
  BY <1>1
<1> QED
  BY <1>2, Invariance, PTL DEF Spec, FailureIsOwn

-----------------------------------------------------------------------------
(* A crash is never forgotten: what of CrashHandled is a matter of safety. *)

\* The process of an active plugin has died, and the plugin is still active.
Abandoned == {p \in orphaned : state = "activated" /\ impl = p}

\* The news of it is on its way: the connection has not closed yet, or a Deactivated
\* which will not take it for another's is running, or the Job waits.
NewsUnderWay(p) == p \in connections \/ (closing = p /\ connectionId = p) \/ p \in jobs

\* Where an orphan and the present implementation are: a process becomes an orphan only
\* while the plugin is active, and the one Initialize has just been given is not dead
\* for good.
Orphans ==
    /\ \A p \in Hosts : process[p] = "running" => p \in connections
    /\ \A p \in orphaned : process[p] = "dead"
    /\ connectionId # None => process[connectionId] # "unborn"
    /\ pc = "announce" \/ state = "activated" => impl # None /\ connectionId = impl
    /\ pc \in {"launched", "withdraw", "connection", "release", "terminate"} =>
          connectionId # None
    /\ pc \in {"release", "terminate"} =>
          connection = connectionId \/ process[connectionId] = "dead"
    /\ pc = "announce" => impl \notin orphaned
    /\ \A p \in Abandoned : NewsUnderWay(p)

LEMMA InitOrphans == Init => Orphans
  BY DEF Init, Orphans, Abandoned

LEMMA InitializeOrphans ==
    ASSUME Inv, Orphans, Activate \/ Initialize PROVE Orphans'
<1> USE PluginShellAssumption
    DEF Goto, pluginVars, processVars, thunderVars, Orphans, Abandoned, NewsUnderWay
<1>1. CASE Activate
  BY <1>1 DEF Activate, Inv, Members
<1>2. CASE KeepService
  BY <1>2 DEF KeepService, Inv, Members, Initializing
<1>3. CASE Observe
  BY <1>3 DEF Observe, Inv, Members, Initializing
<1>4. CASE Launch
  BY <1>4 DEF Launch, Inv, Members, Initializing, TypeOK
<1>5. CASE RootReturns
  BY <1>5 DEF RootReturns, Inv, Members, Initializing, TypeOK
<1>6. CASE Announce
  BY <1>6 DEF Announce, Inv, Members, Initializing, TypeOK
<1> QED
  BY <1>1, <1>2, <1>3, <1>4, <1>5, <1>6 DEF Initialize

LEMMA DeinitializeOrphans ==
    ASSUME Inv, Orphans, Deactivate \/ Deinitialize PROVE Orphans'
<1> USE DEF Goto, pluginVars, processVars, thunderVars, Orphans, Abandoned, NewsUnderWay
<1>1. CASE Deactivate
  BY <1>1 DEF Deactivate
<1>2. CASE Withdraw \/ ReleaseImpl \/ Terminate
  BY <1>2 DEF Withdraw, ReleaseImpl, Terminate, Inv, Members, Deinitializing
<1>3. CASE RemoteConnection
  BY <1>3 DEF RemoteConnection, Inv, Members, TypeOK, Deinitializing
<1>4. CASE Forget
  BY <1>4 DEF Forget, Inv, Members
<1>5. CASE Clear
  BY <1>5 DEF Clear
<1> QED
  BY <1>1, <1>2, <1>3, <1>4, <1>5 DEF Deinitialize

LEMMA ThunderOrphans ==
    ASSUME Inv, Orphans,
           \/ \E p \in Hosts : Exit(p)
           \/ \E k \in Hosts \cup Others : Close(k) \/ RunJob(k)
           \/ Compare \/ Submit
    PROVE  Orphans'
<1> USE PluginShellAssumption
    DEF pluginVars, processVars, thunderVars, Orphans, Abandoned, NewsUnderWay
<1>1. ASSUME NEW p \in Hosts, Exit(p) PROVE Orphans'
  BY <1>1 DEF Exit, Inv, TypeOK, Members, Initializing
<1>2. ASSUME NEW k \in Hosts \cup Others, Close(k) PROVE Orphans'
  <2>1. \A p \in Hosts : process[p] = "running" => p \in connections'
    BY <1>2 DEF Close
  \* While the plugin is active its sink is registered, so Deactivated is called.
  <2>2. \A p \in Abandoned : observing /\ connectionId = p
    BY DEF Inv, Members
  <2>3. ASSUME NEW p \in Abandoned' PROVE NewsUnderWay(p)'
    <3>1. p \in Abandoned /\ (p \in connections \/ p \in jobs)
      BY <1>2, <2>3 DEF Close, Unlocked, Inv, TypeOK
    <3> QED
      BY <1>2, <2>2, <3>1 DEF Close
  <2> QED
    BY <1>2, <2>1, <2>3 DEF Close
<1>3. ASSUME NEW k \in Hosts \cup Others, RunJob(k) PROVE Orphans'
  BY <1>3 DEF RunJob, Goto, Inv, TypeOK, Members
<1>4. CASE Compare
  BY <1>4 DEF Compare
<1>5. CASE Submit
  BY <1>5 DEF Submit
<1> QED
  BY <1>1, <1>2, <1>3, <1>4, <1>5

LEMMA NextOrphans == ASSUME Inv, Orphans, [Next]_vars PROVE Orphans'
<1>1. CASE Quiescent \/ UNCHANGED vars
  BY <1>1 DEF Quiescent, vars, pluginVars, processVars, thunderVars, Orphans, Abandoned,
              NewsUnderWay
<1> QED
  BY <1>1, InitializeOrphans, DeinitializeOrphans, ThunderOrphans DEF Next

LEMMA OrphansInvariance == Spec => [](Inv /\ Orphans)
<1>1. Init => Inv /\ Orphans
  BY InitInv, InitOrphans
<1>2. Inv /\ Orphans /\ [Next]_vars => (Inv /\ Orphans)'
  BY NextInv, NextOrphans
<1> QED
  BY <1>1, <1>2, PTL DEF Spec

\* When the process of an active plugin has died, Thunder is always about to learn of
\* it and to deactivate the plugin: no order of the crash, the closing of connections,
\* the comparison in Deactivated and earlier Jobs loses the news. What CrashHandled asks
\* for besides is only that Thunder's threads go on.
THEOREM CrashNeverForgotten == Spec => [](\A p \in Abandoned : NewsUnderWay(p))
<1>1. Orphans => \A p \in Abandoned : NewsUnderWay(p)
  BY DEF Orphans
<1> QED
  BY <1>1, OrphansInvariance, PTL

\* Deinitialize leaves no process of an implementation behind untold: when it passes
\* Terminate the process has been told to end, unless it was dead already. What
\* ProcessEnds asks for besides is that a process which is told to end does.
THEOREM NoneLeftUntold ==
    Spec => [][pc = "terminate" /\ pc' # "terminate" =>
                 connectionId \in told' \/ process[connectionId] = "dead"]_vars
<1>1. ASSUME Inv, Orphans, [Next]_vars, pc = "terminate", pc' # "terminate"
      PROVE  connectionId \in told' \/ process[connectionId] = "dead"
  <2>1. Terminate
    BY <1>1 DEF Next, Activate, Initialize, KeepService, Observe, Launch, RootReturns,
         Announce, Deactivate, Deinitialize, Withdraw, RemoteConnection, ReleaseImpl,
         Forget, Clear, Exit, Close, Compare, Submit, RunJob, Goto, Quiescent, vars
  <2> QED
    BY <1>1, <2>1 DEF Terminate, Orphans
<1>2. Inv /\ Orphans /\ [Next]_vars =>
        [pc = "terminate" /\ pc' # "terminate" =>
           connectionId \in told' \/ process[connectionId] = "dead"]_vars
  BY <1>1
<1> QED
  BY <1>2, OrphansInvariance, PTL DEF Spec
=============================================================================
