--------------------------- MODULE DriverControl ---------------------------
(***************************************************************************)
(* BindDriver and UnbindDriver: a call takes _adminLock, asks libusb for   *)
(* the list of devices, opens the one with the requested name, asks        *)
(* whether a kernel driver is active on it, attaches or detaches it,       *)
(* closes the handle, frees the list and unlocks. The bus does not wait:   *)
(* devices come and go between any two of these steps, and the kernel or   *)
(* another program may bind and unbind drivers.                            *)
(*                                                                         *)
(* An operator named Slip... is a plausible slip in the definition which   *)
(* follows it; it is no part of the specification.                         *)
(***************************************************************************)
EXTENDS Naturals

CONSTANTS
    Clients,    \* threads which call the interface
    Names,      \* "<bus>/<address>" names
    Devices,    \* devices; one which is plugged in again is another one
    Name,       \* the name of each device
    MaxCalls,   \* bound on the calls
    MaxForeign, \* bound on the drivers others bind and unbind
    None        \* no device, no owner, no call

ASSUME DriverControlAssumption ==
    /\ Name \in [Devices -> Names]
    /\ MaxCalls \in Nat /\ MaxForeign \in Nat
    /\ None \notin Clients /\ None \notin Devices
    /\ None \notin [op : {"BindDriver", "UnbindDriver"}, name : Names]

VARIABLES
    present, gone,  \* devices plugged in, and unplugged again
    bound,          \* devices with an active kernel driver on interface 0
    pc,             \* where each client is
    request,        \* the call it is in
    status,         \* the local of that name, which the call returns
    list,           \* devs: the devices it holds a libusb reference on
    handle,         \* devHandle: the device it has open
    adminLock,      \* the owner of _adminLock
    target,         \* history: the named device, as long as nothing has come in the
                    \*   way of the call since it took the lock
    foreign,        \* number of drivers others have bound or unbound
    calls           \* number of calls made, for the bound MaxCalls

busVars   == <<present, gone, bound, foreign>>
localVars == <<request, status, list, handle>>
vars == <<busVars, pc, localVars, adminLock, target, calls>>

Requests == [op : {"BindDriver", "UnbindDriver"}, name : Names]
Answers  == {"ERROR_NONE", "ERROR_GENERAL"}

Init ==
    /\ present = {} /\ gone = {} /\ bound = {}
    /\ pc = [c \in Clients |-> "idle"]
    /\ request = [c \in Clients |-> None]
    /\ status = [c \in Clients |-> "ERROR_GENERAL"]
    /\ list = [c \in Clients |-> {}]
    /\ handle = [c \in Clients |-> None]
    /\ adminLock = None
    /\ target = [c \in Clients |-> None]
    /\ foreign = 0 /\ calls = 0

-----------------------------------------------------------------------------
(* The bus, the kernel and other programs.                                 *)

\* What happens to device d is in the way of the calls for it.
Disturb(d) == target' = [c \in Clients |-> IF target[c] = d THEN None ELSE target[c]]

\* The kernel gives a bus address to one device at a time, and to another later.
Plug(d) ==
    /\ d \notin present \cup gone
    /\ \A e \in present : Name[e] # Name[d]
    /\ present' = present \cup {d}
    /\ \/ bound' = bound \cup {d}
       \/ UNCHANGED bound
    /\ UNCHANGED <<gone, foreign, pc, localVars, adminLock, target, calls>>

Unplug(d) ==
    /\ d \in present
    /\ present' = present \ {d} /\ gone' = gone \cup {d} /\ bound' = bound \ {d}
    /\ Disturb(d)
    /\ UNCHANGED <<foreign, pc, localVars, adminLock, calls>>

ForeignSwitch(d) ==
    /\ d \in present /\ foreign < MaxForeign
    /\ foreign' = foreign + 1
    /\ bound' = IF d \in bound THEN bound \ {d} ELSE bound \cup {d}
    /\ Disturb(d)
    /\ UNCHANGED <<present, gone, pc, localVars, adminLock, calls>>

-----------------------------------------------------------------------------
(* A call.                                                                 *)

Goto(c, here, there) == pc[c] = here /\ pc' = [pc EXCEPT ![c] = there]

Enter(c) ==
    /\ calls < MaxCalls
    /\ calls' = calls + 1
    /\ Goto(c, "idle", "lock")
    /\ \E r \in Requests : request' = [request EXCEPT ![c] = r]
    /\ status' = [status EXCEPT ![c] = "ERROR_GENERAL"]
    /\ UNCHANGED <<busVars, list, handle, adminLock, target>>

\* What the caller has in mind: the device which has the name now, if there is one.
NamedNow(c) == IF \E d \in present : Name[d] = request[c].name
                 THEN CHOOSE d \in present : Name[d] = request[c].name
                 ELSE None

SlipNoLock(c) ==
    /\ Goto(c, "lock", "list")
    /\ adminLock' = c
    /\ target' = [target EXCEPT ![c] = NamedNow(c)]
    /\ UNCHANGED <<busVars, localVars, calls>>

Lock(c) ==
    /\ Goto(c, "lock", "list")
    /\ adminLock = None
    /\ adminLock' = c
    /\ target' = [target EXCEPT ![c] = NamedNow(c)]
    /\ UNCHANGED <<busVars, localVars, calls>>

\* A libusb call of c has failed though the device is there.
Fail(c) == target' = [target EXCEPT ![c] = None]

\* libusb_get_device_list: without a device, or on failure, nothing is freed.
GetDeviceList(c) ==
    /\ \/ /\ present # {}
          /\ list' = [list EXCEPT ![c] = present]
          /\ Goto(c, "list", "open")
          /\ UNCHANGED target
       \/ /\ present = {}
          /\ Goto(c, "list", "unlock")
          /\ UNCHANGED <<list, target>>
       \/ /\ Fail(c)
          /\ Goto(c, "list", "unlock")
          /\ UNCHANGED list
    /\ UNCHANGED <<busVars, request, status, handle, adminLock, calls>>

Candidates(c) == {d \in list[c] \cap present : Name[d] = request[c].name}

SlipOpenUnchecked(c) ==
    /\ Goto(c, "open", "query")
    /\ \/ /\ \E d \in Candidates(c) : handle' = [handle EXCEPT ![c] = d]
          /\ UNCHANGED target
       \/ Candidates(c) = {} /\ UNCHANGED <<handle, target>>
       \/ Fail(c) /\ UNCHANGED handle
    /\ UNCHANGED <<busVars, request, status, list, adminLock, calls>>

\* The loop over the list stops at the first device with the requested name.
\* libusb_open fails on a device which is gone, whatever now has its name.
Open(c) ==
    /\ \/ /\ \E d \in Candidates(c) : handle' = [handle EXCEPT ![c] = d]
          /\ Goto(c, "open", "query")
          /\ UNCHANGED target
       \/ /\ Candidates(c) = {}
          /\ Goto(c, "open", "free")
          /\ UNCHANGED <<handle, target>>
       \/ /\ Fail(c)
          /\ Goto(c, "open", "free")
          /\ UNCHANGED handle
    /\ UNCHANGED <<busVars, request, status, list, adminLock, calls>>

\* Whether device d is as the call wants it.
AsWanted(c, d) == d \in bound <=> request[c].op = "BindDriver"

\* libusb_kernel_driver_active, and where to go when it fails.
QueryOrElse(c, there) ==
    LET d == handle[c]
    IN  /\ \/ /\ d \in present /\ AsWanted(c, d)
              /\ status' = [status EXCEPT ![c] = "ERROR_NONE"]
              /\ Goto(c, "query", "close")
              /\ UNCHANGED target
           \/ /\ d \in present /\ ~AsWanted(c, d)
              /\ Goto(c, "query", "switch")
              /\ UNCHANGED <<status, target>>
           \/ /\ d \notin present
              /\ Goto(c, "query", there)
              /\ UNCHANGED <<status, target>>
           \/ /\ Fail(c)
              /\ Goto(c, "query", there)
              /\ UNCHANGED status
        /\ UNCHANGED <<busVars, request, list, handle, adminLock, calls>>

SlipErrorReturnsEarly(c) == QueryOrElse(c, "free")

Query(c) == QueryOrElse(c, "close")

\* The driver is bound or unbound, as the call wants it.
Switched(c, d) ==
    /\ d \in present /\ ~AsWanted(c, d)
    /\ bound' = IF d \in bound THEN bound \ {d} ELSE bound \cup {d}

SlipIgnoresResult(c) ==
    LET d == handle[c]
    IN  /\ Goto(c, "switch", "close")
        /\ status' = [status EXCEPT ![c] = "ERROR_NONE"]
        /\ \/ Switched(c, d) /\ UNCHANGED target
           \/ (d \notin present \/ AsWanted(c, d)) /\ UNCHANGED <<bound, target>>
           \/ Fail(c) /\ UNCHANGED bound
        /\ UNCHANGED <<present, gone, foreign, request, list, handle, adminLock, calls>>

\* libusb_attach_kernel_driver or libusb_detach_kernel_driver: it fails when the
\* device is gone, and when someone else has done it since the query.
Switch(c) ==
    LET d == handle[c]
    IN  /\ Goto(c, "switch", "close")
        /\ \/ /\ Switched(c, d)
              /\ status' = [status EXCEPT ![c] = "ERROR_NONE"]
              /\ UNCHANGED target
           \/ /\ d \notin present \/ AsWanted(c, d)
              /\ UNCHANGED <<bound, status, target>>
           \/ Fail(c) /\ UNCHANGED <<bound, status>>
        /\ UNCHANGED <<present, gone, foreign, request, list, handle, adminLock, calls>>

Close(c) ==
    /\ Goto(c, "close", "free")
    /\ handle' = [handle EXCEPT ![c] = None]
    /\ UNCHANGED <<busVars, request, status, list, adminLock, target, calls>>

Free(c) ==
    /\ Goto(c, "free", "unlock")
    /\ list' = [list EXCEPT ![c] = {}]
    /\ UNCHANGED <<busVars, request, status, handle, adminLock, target, calls>>

SlipUnlockOnSuccess(c) ==
    /\ Goto(c, "unlock", "idle")
    /\ request' = [request EXCEPT ![c] = None]
    /\ adminLock' = IF status[c] = "ERROR_NONE" THEN None ELSE adminLock
    /\ target' = [target EXCEPT ![c] = None]
    /\ UNCHANGED <<busVars, status, list, handle, calls>>

Unlock(c) ==
    /\ Goto(c, "unlock", "idle")
    /\ request' = [request EXCEPT ![c] = None]
    /\ adminLock' = None
    /\ target' = [target EXCEPT ![c] = None]
    /\ UNCHANGED <<busVars, status, list, handle, calls>>

Serve(c) == \/ Lock(c) \/ GetDeviceList(c) \/ Open(c) \/ Query(c) \/ Switch(c)
            \/ Close(c) \/ Free(c) \/ Unlock(c)

\* Nobody calls, and no device comes or goes.
Quiescent == (\A c \in Clients : pc[c] = "idle") /\ UNCHANGED vars

Next ==
    \/ \E d \in Devices : Plug(d) \/ Unplug(d) \/ ForeignSwitch(d)
    \/ \E c \in Clients : Enter(c) \/ Serve(c)
    \/ Quiescent

Spec == Init /\ [][Next]_vars

\* libusb calls return, and a thread which waits for _adminLock gets it once it
\* stays free.
FairSpec == Spec /\ \A c \in Clients : WF_vars(Serve(c))

-----------------------------------------------------------------------------
(* Properties.                                                             *)

Places == {"idle", "lock", "list", "open", "query", "switch", "close", "free", "unlock"}

\* A call has a request, and no null handle is passed to libusb.
TypeOK ==
    /\ present \subseteq Devices /\ gone \subseteq Devices /\ bound \subseteq present
    /\ pc \in [Clients -> Places]
    /\ request \in [Clients -> Requests \cup {None}]
    /\ status \in [Clients -> Answers]
    /\ list \in [Clients -> SUBSET Devices]
    /\ handle \in [Clients -> Devices \cup {None}]
    /\ adminLock \in Clients \cup {None}
    /\ target \in [Clients -> Devices \cup {None}]
    /\ foreign \in Nat /\ calls \in Nat
    /\ \A c \in Clients : /\ pc[c] # "idle" => request[c] # None
                          /\ pc[c] \in {"query", "switch"} => handle[c] # None

\* Whichever way a call ends, and whatever is unplugged while it runs, it keeps no
\* handle open and no device of the list referenced once it has left the lock.
ResourcesReturned ==
    \A c \in Clients : adminLock # c => handle[c] = None /\ list[c] = {}

\* A call succeeds on a device which stays plugged in, when libusb does not fail on
\* it and nobody outside the plugin touches its driver: concurrent calls never trip
\* each other up between the query and the attach.
NoSpuriousFailure ==
    \A c \in Clients : pc[c] = "unlock" /\ target[c] # None => status[c] = "ERROR_NONE"

\* A call's answer is that of one atomic look at, or change of, the driver of a
\* device with the requested name; a call which fails has changed nothing.
Atomically == INSTANCE DriverState WITH answer <- status

ImplementsDriverState == Atomically!Spec

\* Every call returns: _adminLock is given back on every path, and nothing of the
\* bus can hold a call up.
EveryCallReturns == \A c \in Clients : pc[c] # "idle" ~> pc[c] = "idle"
=============================================================================
