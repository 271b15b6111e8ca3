----------------------------- MODULE PluginShell -----------------------------
(***************************************************************************)
(* The plugin's shell, USBDevice, with its implementation in a process of  *)
(* its own: Initialize and Deinitialize step by step, the death of that    *)
(* process at any moment, and Deactivated, which asks Thunder to           *)
(* deactivate the plugin when it learns of it.                             *)
(*                                                                         *)
(* Thunder is external. It activates and deactivates a plugin one at a     *)
(* time. It keeps the connections to the processes; when one closes it     *)
(* calls the observers under the lock of the connections, which Register,  *)
(* Unregister, RemoteConnection and Root take as well. A Job of its worker *)
(* pool deactivates a plugin which is active, and does nothing otherwise.  *)
(*                                                                         *)
(* An operator named Slip... is a plausible slip in the definition which   *)
(* follows it; it is no part of the specification.                         *)
(***************************************************************************)
EXTENDS Naturals, FiniteSets

CONSTANTS
    Hosts,   \* processes, and their connections, which may host an implementation
    Others,  \* connections to the processes of other plugins
    None     \* no process, no connection; and the connection id 0

ASSUME PluginShellAssumption ==
    /\ IsFiniteSet(Hosts) /\ Hosts \cap Others = {}
    /\ None \notin Hosts \cup Others

VARIABLES
    state,         \* of the plugin, as Thunder has it
    pc,            \* where Initialize or Deinitialize is
    service,       \* whether _service is set
    connectionId,  \* _connectionId
    impl,          \* _usbDeviceImpl: the process it is in
    connection,    \* the local of that name in Deinitialize
    references,    \* references the plugin and its Jobs have on the shell
    observing,     \* whether the sink is registered with the shell
    announced,     \* whether the JSON-RPC methods are registered
    process,       \* the state of each process
    told,          \* processes told to end
    connections,   \* those Thunder has
    closing,       \* the one whose end it tells the observers
    matched,       \* whether Deactivated has found it to be the plugin's
    jobs,          \* Jobs submitted: the connection which closed names each
    cause,         \* history: the Job which deactivates the plugin
    orphaned       \* history: processes which died while the plugin was active

pluginVars  == <<service, connectionId, impl, connection, references, observing, announced>>
processVars == <<process, told>>
thunderVars == <<connections, closing, matched, jobs>>
vars == <<state, pc, pluginVars, processVars, thunderVars, cause, orphaned>>

Init ==
    /\ state = "deactivated" /\ pc = "out"
    /\ service = FALSE /\ connectionId = None /\ impl = None /\ connection = None
    /\ references = 0 /\ observing = FALSE /\ announced = FALSE
    /\ process = [p \in Hosts |-> "unborn"] /\ told = {}
    /\ connections = Others /\ closing = None /\ matched = FALSE
    /\ jobs = {} /\ cause = None /\ orphaned = {}

Goto(here, there) == pc = here /\ pc' = there

\* The lock of the connections is free.
Unlocked == closing = None

-----------------------------------------------------------------------------
(* Initialize.                                                             *)

Activate ==
    /\ state = "deactivated"
    /\ state' = "activating"
    /\ Goto("out", "begin")
    /\ UNCHANGED <<pluginVars, processVars, thunderVars, cause, orphaned>>

KeepService ==
    /\ service' = TRUE /\ references' = references + 1
    /\ Goto("begin", "observe")
    /\ UNCHANGED <<state, connectionId, impl, connection, observing, announced,
                   processVars, thunderVars, cause, orphaned>>

SlipNotObserving ==
    /\ Unlocked
    /\ Goto("observe", "launch")
    /\ UNCHANGED <<state, pluginVars, processVars, thunderVars, cause, orphaned>>

Observe ==
    /\ Unlocked
    /\ observing' = TRUE
    /\ Goto("observe", "launch")
    /\ UNCHANGED <<state, service, connectionId, impl, connection, references, announced,
                   processVars, thunderVars, cause, orphaned>>

\* Root starts a process, unless it cannot, and has it make the implementation. The
\* id of the connection is known while it waits.
Launch ==
    /\ Unlocked
    /\ \/ /\ \E p \in Hosts :
               /\ process[p] = "unborn"
               /\ process' = [process EXCEPT ![p] = "running"]
               /\ connections' = connections \cup {p}
               /\ connectionId' = p
          /\ Goto("launch", "launched")
       \/ /\ Goto("launch", "forget")
          /\ UNCHANGED <<process, connections, connectionId>>
    /\ UNCHANGED <<state, service, impl, connection, references, observing, announced,
                   told, closing, matched, jobs, cause, orphaned>>

\* Root returns: the process answers, or does not within five seconds. Without an
\* implementation Initialize calls Deinitialize, which has no process to end then.
RootReturns ==
    /\ pc = "launched"
    /\ \/ /\ process[connectionId] = "running"
          /\ impl' = connectionId
          /\ pc' = "announce"
       \/ /\ pc' = "forget"
          /\ UNCHANGED impl
    /\ UNCHANGED <<state, service, connectionId, connection, references, observing,
                   announced, processVars, thunderVars, cause, orphaned>>

\* The sink is registered with the implementation, and the methods with JSON-RPC.
Announce ==
    /\ announced' = TRUE
    /\ Goto("announce", "out")
    /\ state' = "activated"
    /\ UNCHANGED <<service, connectionId, impl, connection, references, observing,
                   processVars, thunderVars, cause, orphaned>>

Initialize == KeepService \/ Observe \/ Launch \/ RootReturns \/ Announce

-----------------------------------------------------------------------------
(* Deinitialize.                                                           *)

Deactivate ==
    /\ state = "activated"
    /\ state' = "deactivating"
    /\ Goto("out", "withdraw")
    /\ UNCHANGED <<pluginVars, processVars, thunderVars, cause, orphaned>>

Withdraw ==
    /\ announced' = FALSE
    /\ Goto("withdraw", "connection")
    /\ UNCHANGED <<state, service, connectionId, impl, connection, references, observing,
                   processVars, thunderVars, cause, orphaned>>

\* RemoteConnection knows a connection until it closes.
RemoteConnection ==
    /\ Unlocked
    /\ connection' = IF connectionId \in connections THEN connectionId ELSE None
    /\ Goto("connection", "release")
    /\ UNCHANGED <<state, service, connectionId, impl, references, observing, announced,
                   processVars, thunderVars, cause, orphaned>>

\* What Release answers, and whether the object is gone with it, is the matter of
\* Lifecycle; Deinitialize only asserts it, and goes on alike.
ReleaseImpl ==
    /\ impl' = None
    /\ Goto("release", "terminate")
    /\ UNCHANGED <<state, service, connectionId, connection, references, observing,
                   announced, processVars, thunderVars, cause, orphaned>>

SlipNoTerminate ==
    /\ connection' = None
    /\ Goto("terminate", "forget")
    /\ UNCHANGED <<state, service, connectionId, impl, references, observing, announced,
                   processVars, thunderVars, cause, orphaned>>

Terminate ==
    /\ told' = told \cup ({connection} \ {None})
    /\ connection' = None
    /\ Goto("terminate", "forget")
    /\ UNCHANGED <<state, service, connectionId, impl, references, observing, announced,
                   process, thunderVars, cause, orphaned>>

\* Unregister waits for a callback of the sink which is running.
Forget ==
    /\ Unlocked
    /\ observing' = FALSE
    /\ Goto("forget", "clear")
    /\ UNCHANGED <<state, service, connectionId, impl, connection, references, announced,
                   processVars, thunderVars, cause, orphaned>>

SlipReleasesTwice ==
    /\ service' = FALSE /\ references' = references - 2 /\ connectionId' = None
    /\ Goto("clear", "out")
    /\ state' = "deactivated" /\ cause' = None
    /\ UNCHANGED <<impl, connection, observing, announced, processVars, thunderVars,
                   orphaned>>

SlipReleaseOnRequest ==
    /\ service' = FALSE /\ connectionId' = None
    /\ references' = IF state = "deactivating" THEN references - 1 ELSE references
    /\ Goto("clear", "out")
    /\ state' = "deactivated" /\ cause' = None
    /\ UNCHANGED <<impl, connection, observing, announced, processVars, thunderVars,
                   orphaned>>

Clear ==
    /\ service' = FALSE /\ references' = references - 1 /\ connectionId' = None
    /\ Goto("clear", "out")
    /\ state' = "deactivated" /\ cause' = None
    /\ UNCHANGED <<impl, connection, observing, announced, processVars, thunderVars,
                   orphaned>>

SlipClearFirst ==
    \/ Withdraw \/ RemoteConnection \/ ReleaseImpl \/ Terminate
    \/ /\ pc = "forget" /\ service
       /\ service' = FALSE /\ references' = references - 1
       /\ UNCHANGED <<state, pc, connectionId, impl, connection, observing, announced,
                      processVars, thunderVars, cause, orphaned>>
    \/ /\ ~service /\ Unlocked
       /\ observing' = FALSE /\ connectionId' = None
       /\ Goto("forget", "out")
       /\ state' = "deactivated" /\ cause' = None
       /\ UNCHANGED <<service, impl, connection, references, announced, processVars,
                      thunderVars, orphaned>>

Deinitialize == \/ Withdraw \/ RemoteConnection \/ ReleaseImpl \/ Terminate
                \/ Forget \/ Clear

-----------------------------------------------------------------------------
(* Processes end, and Thunder learns of it.                                *)

\* A process ends because it is told to, or crashes at any moment.
Exit(p) ==
    /\ process[p] = "running"
    /\ process' = [process EXCEPT ![p] = "dead"]
    /\ orphaned' = IF state = "activated" /\ impl = p THEN orphaned \cup {p} ELSE orphaned
    /\ UNCHANGED <<state, pc, pluginVars, told, thunderVars, cause>>

\* The connection closes, and Thunder calls Deactivated of the observers.
Close(k) ==
    /\ Unlocked /\ k \in connections
    /\ k \in Hosts => process[k] = "dead"
    /\ connections' = connections \ {k}
    /\ closing' = IF observing THEN k ELSE None
    /\ UNCHANGED <<state, pc, pluginVars, processVars, matched, jobs, cause, orphaned>>

SlipAnyConnection ==
    /\ closing # None /\ ~matched
    /\ matched' = TRUE
    /\ UNCHANGED <<state, pc, pluginVars, processVars, connections, closing, jobs, cause,
                   orphaned>>

\* Deactivated: is it the connection of this plugin?
Compare ==
    /\ closing # None /\ ~matched
    /\ IF closing = connectionId THEN matched' = TRUE /\ UNCHANGED closing
                                 ELSE closing' = None /\ UNCHANGED matched
    /\ UNCHANGED <<state, pc, pluginVars, processVars, connections, jobs, cause, orphaned>>

\* Deactivated: it is. The Job holds a reference on the shell.
Submit ==
    /\ matched
    /\ jobs' = jobs \cup {closing} /\ references' = references + 1
    /\ closing' = None /\ matched' = FALSE
    /\ UNCHANGED <<state, pc, service, connectionId, impl, connection, observing,
                   announced, processVars, connections, cause, orphaned>>

\* The worker pool runs a Job: DEACTIVATED, for the reason FAILURE.
RunJob(k) ==
    /\ k \in jobs
    /\ jobs' = jobs \ {k} /\ references' = references - 1
    /\ IF state = "activated"
         THEN state' = "deactivating" /\ Goto("out", "withdraw") /\ cause' = k
         ELSE UNCHANGED <<state, pc, cause>>
    /\ UNCHANGED <<service, connectionId, impl, connection, observing, announced,
                   processVars, connections, closing, matched, orphaned>>

\* Nobody activates the plugin, and there is nothing left to do.
Quiescent == pc = "out" /\ jobs = {} /\ closing = None /\ UNCHANGED vars

Next ==
    \/ Activate \/ Initialize
    \/ Deactivate \/ Deinitialize
    \/ \E p \in Hosts : Exit(p)
    \/ \E k \in Hosts \cup Others : Close(k) \/ RunJob(k)
    \/ Compare \/ Submit
    \/ Quiescent

Spec == Init /\ [][Next]_vars

\* The threads of Thunder run, what is told to end ends, and the end of a process is
\* noticed. Nobody needs to activate or to deactivate the plugin.
FairSpec ==
    /\ Spec
    /\ WF_vars(Initialize) /\ WF_vars(Deinitialize)
    /\ \A p \in Hosts : WF_vars(p \in told /\ Exit(p)) /\ WF_vars(Close(p))
    /\ \A k \in Hosts \cup Others : WF_vars(RunJob(k))
    /\ WF_vars(Compare \/ Submit)

-----------------------------------------------------------------------------
(* Properties.                                                             *)

States == {"deactivated", "activating", "activated", "deactivating"}
Initializing == {"begin", "observe", "launch", "launched", "announce"}
Deinitializing == {"withdraw", "connection", "release", "terminate", "forget", "clear"}

\* What the plugin, the processes and Thunder hold is of the right kind.
TypeOK ==
    /\ state \in States /\ pc \in {"out"} \cup Initializing \cup Deinitializing
    /\ service \in BOOLEAN /\ observing \in BOOLEAN /\ announced \in BOOLEAN
    /\ connectionId \in Hosts \cup {None} /\ impl \in Hosts \cup {None}
    /\ connection \in Hosts \cup {None}
    /\ references \in Nat
    /\ process \in [Hosts -> {"unborn", "running", "dead"}]
    /\ told \subseteq Hosts /\ connections \subseteq Hosts \cup Others
    /\ closing \in Hosts \cup Others \cup {None} /\ matched \in BOOLEAN
    /\ jobs \subseteq Hosts \cup Others /\ cause \in Hosts \cup Others \cup {None}
    /\ orphaned \subseteq Hosts

\* What the code asserts of the plugin's members holds, also when the process dies while
\* the plugin is initialized or deinitialized: Initialize finds them reset, Deinitialize
\* its service set, and so does Deactivated when it makes a Job of it. (What Deinitialize
\* asserts of the result of Release does not hold: that is ReleaseDestroys in Lifecycle.)
AssertionsHold ==
    /\ pc = "begin" => ~service /\ impl = None /\ connectionId = None
    /\ pc \in Deinitializing => service
    /\ matched => service

\* The shell is referenced once by an initialized plugin and once by each Job; and a
\* plugin which is deactivated, or whose Initialize has failed, leaves nothing
\* registered.
ShellBalanced ==
    /\ references = Cardinality(jobs) + (IF service THEN 1 ELSE 0)
    /\ state = "deactivated" => ~service /\ ~observing /\ ~announced /\ impl = None

\* The plugin is deactivated for FAILURE only when a process of its own has ended,
\* never because that of another plugin has.
FailureIsOwn == [][cause' # cause /\ cause' # None =>
                     cause' \in Hosts /\ process[cause'] = "dead"]_vars

\* A plugin whose process dies while it is active does not stay active without it.
CrashHandled == \A p \in Hosts :
    p \in orphaned ~> ~(state = "activated" /\ impl = p)

\* A process whose implementation the plugin has released ends, whether the plugin
\* was asked to deactivate or another part of it failed.
ProcessEnds == \A p \in Hosts : impl = p /\ pc = "release" ~> process[p] = "dead"
=============================================================================
