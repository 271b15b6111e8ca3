----------------------------- MODULE DeviceQuery -----------------------------
(***************************************************************************)
(* What the plugin says of devices: GetDeviceList and GetDeviceInfo, and   *)
(* the two hot-plug callbacks, which describe one device on libusb's event *)
(* thread. All describe a mass-storage device with the block device it has *)
(* in sysfs, which appears some time after the device. Devices and block   *)
(* devices come and go between any two steps.                              *)
(*                                                                         *)
(* A device is named by its bus and address. The kernel numbers addresses  *)
(* in turn, so within a call a name stands for one device; a port and the  *)
(* name of a block device (sda) soon belong to another one.                *)
(*                                                                         *)
(* An operator named Slip... is a plausible slip in the definition which   *)
(* follows it; it is no part of the specification.                         *)
(***************************************************************************)
EXTENDS FiniteSets, SysfsWalk, StringDescriptors

CONSTANTS
    Clients,     \* threads which call the interface
    Uses,        \* the calls each client makes
    EventThread, \* the thread which runs the hot-plug callbacks
    Devices,     \* devices; one which is plugged in again is another one
    Port,        \* the port of each device, which is its directory in sysfs
    Kind,        \* where a device says it is mass storage, if it is
    Blocks,      \* names of block devices
    Disks,       \* those which start with sd
    Below,       \* directories between the block devices of a device and its own
    Attempts,    \* retryCount
    MaxWork,     \* bound on the calls and events
    None         \* no device, no path, no owner

Calls == [op : {"GetDeviceList"}, dev : {None}] \cup [op : {"GetDeviceInfo"}, dev : Devices]
Kinds == {"by interface", "by device", "other"}

ASSUME DeviceQueryAssumption ==
    /\ EventThread \notin Clients
    /\ Uses \in [Clients -> SUBSET Calls]
    /\ Kind \in [Devices -> Kinds]
    /\ DOMAIN Port = Devices
    /\ Disks \subseteq Blocks
    /\ Below \in [Devices -> Nat]
    /\ Attempts \in Nat \ {0} /\ MaxWork \in Nat
    /\ None \notin Devices \cup Blocks \cup Clients \cup {EventThread}
    /\ \A d \in Devices : Port[d] # None
    /\ IsFiniteSet(Devices)

Threads == Clients \cup {EventThread}
Events  == [op : {"ARRIVED", "LEFT"}, dev : Devices]
NoCall  == [op |-> "none", dev |-> None]
Outcomes == {"ERROR_NONE", "ERROR_GENERAL"}

VARIABLES
    bus, gone,   \* devices plugged in, and unplugged again
    block,       \* the device of each block device
    pc,          \* where each thread is
    call,        \* the call or event it is in
    devs, index, \* the devices it holds a libusb reference on, and where it is in them
    dev,         \* the device it describes
    tries,       \* retryCount: lookups left
    todo,        \* the rest of the directory it reads
    entry, dir,  \* the block device it looks at, and the directory it found for it
    path,        \* devicePath
    status,      \* the local of that name, which a call returns
    answer,      \* usbDeviceList: its devices; a path is looked at when it is found
    handle,      \* the device it has open
    adminLock,   \* the owner of _adminLock
    work,        \* the weight of the calls and events so far
    unreadable,  \* history: devices the call could not read
    owned,       \* history: block devices which dev has had since it was turned to
    steady       \* history: block devices which the lookup should find: those of dev
                 \*   which have been there ever since the directory was opened, and
                 \*   whose files no read has failed on

worldVars   == <<bus, gone, block>>
lookupVars  == <<tries, todo, entry, dir, path>>
historyVars == <<unreadable, owned, steady>>
vars == <<worldVars, pc, call, devs, index, dev, lookupVars, status, answer, handle,
          adminLock, work, historyVars>>

Init ==
    /\ bus = {} /\ gone = {} /\ block = [b \in Blocks |-> None]
    /\ pc = [t \in Threads |-> "idle"]
    /\ call = [t \in Threads |-> NoCall]
    /\ devs = [t \in Threads |-> <<>>] /\ index = [t \in Threads |-> 1]
    /\ dev = [t \in Threads |-> None]
    /\ tries = [t \in Threads |-> 0]
    /\ todo = [t \in Threads |-> {}]
    /\ entry = [t \in Threads |-> None] /\ dir = [t \in Threads |-> None]
    /\ path = [t \in Threads |-> None]
    /\ status = [t \in Threads |-> "ERROR_GENERAL"]
    /\ answer = [t \in Threads |-> <<>>]
    /\ handle = [t \in Threads |-> None]
    /\ adminLock = None /\ work = 0
    /\ unreadable = [t \in Threads |-> {}]
    /\ owned = [t \in Threads |-> {}] /\ steady = [t \in Threads |-> {}]

-----------------------------------------------------------------------------
(* The bus and the kernel.                                                 *)

BlocksOf(d) == {b \in Blocks : block[b] = d}

Plug(d) ==
    /\ d \notin bus \cup gone
    /\ \A e \in bus : Port[e] # Port[d]
    /\ bus' = bus \cup {d}
    /\ UNCHANGED <<gone, block, pc, call, devs, index, dev, lookupVars, status, answer,
                   handle, adminLock, work, historyVars>>

\* The block devices of a device go before its port is free.
Unplug(d) ==
    /\ d \in bus
    /\ bus' = bus \ {d} /\ gone' = gone \cup {d}
    /\ block' = [b \in Blocks |-> IF block[b] = d THEN None ELSE block[b]]
    /\ steady' = [t \in Threads |-> {b \in steady[t] : block[b] # d}]
    /\ UNCHANGED <<pc, call, devs, index, dev, lookupVars, status, answer, handle,
                   adminLock, work, unreadable, owned>>

AddBlock(d, b) ==
    /\ d \in bus /\ Kind[d] # "other" /\ block[b] = None
    /\ block' = [block EXCEPT ![b] = d]
    /\ owned' = [t \in Threads |-> IF dev[t] = d THEN owned[t] \cup {b} ELSE owned[t]]
    /\ UNCHANGED <<bus, gone, pc, call, devs, index, dev, lookupVars, status,
                   answer, handle, adminLock, work, unreadable, steady>>

\* The driver of the device is unbound.
RemoveBlock(b) ==
    /\ block[b] # None
    /\ block' = [block EXCEPT ![b] = None]
    /\ steady' = [t \in Threads |-> steady[t] \ {b}]
    /\ UNCHANGED <<bus, gone, pc, call, devs, index, dev, lookupVars, status,
                   answer, handle, adminLock, work, unreadable, owned>>

World == \/ \E d \in Devices : Plug(d) \/ Unplug(d) \/ \E b \in Blocks : AddBlock(d, b)
         \/ \E b \in Blocks : RemoveBlock(b)

-----------------------------------------------------------------------------
(* Calls and events begin, and end.                                        *)

Goto(t, here, there) == pc[t] = here /\ pc' = [pc EXCEPT ![t] = there]

\* What a call weighs in the bound MaxWork: two queries of a device may meet, which
\* share a lock; the others share nothing with anybody.
Weight(r) == IF r.op = "GetDeviceInfo" THEN 1 ELSE 2

Begin(t, r, there) ==
    /\ work + Weight(r) <= MaxWork
    /\ work' = work + Weight(r)
    /\ call' = [call EXCEPT ![t] = r]
    /\ Goto(t, "idle", there)
    /\ UNCHANGED <<worldVars, devs, index, tries, todo, entry, dir, status, answer, handle,
                   adminLock, unreadable, steady>>

\* Thread t turns to device d, whose path is empty.
TurnTo(t, d) ==
    /\ dev' = [dev EXCEPT ![t] = d]
    /\ path' = [path EXCEPT ![t] = None]
    /\ owned' = [owned EXCEPT ![t] = BlocksOf(d)]

\* Thread t is done with its device.
TurnAway(t) ==
    /\ dev' = [dev EXCEPT ![t] = None]
    /\ path' = [path EXCEPT ![t] = None]
    /\ owned' = [owned EXCEPT ![t] = {}]

Enter(c) ==
    /\ \E r \in Uses[c] : Begin(c, r, IF r.op = "GetDeviceInfo" THEN "lock" ELSE "list")
    /\ UNCHANGED <<dev, path, owned>>

\* libusb calls the callback for a device which has come or gone. Which messages
\* there are, and in what order, is the matter of Notifier.
HotPlug ==
    \E r \in Events :
        /\ r.dev \in IF r.op = "LEFT" THEN gone ELSE bus \cup gone
        /\ Begin(EventThread, r, "describe")
        /\ TurnTo(EventThread, r.dev)

\* Thread t returns to its caller: its locals are gone.
Return(t) ==
    /\ call' = [call EXCEPT ![t] = NoCall]
    /\ index' = [index EXCEPT ![t] = 1]
    /\ tries' = [tries EXCEPT ![t] = 0]
    /\ status' = [status EXCEPT ![t] = "ERROR_GENERAL"]
    /\ answer' = [answer EXCEPT ![t] = <<>>]
    /\ unreadable' = [unreadable EXCEPT ![t] = {}]

\* Only GetDeviceInfo takes the lock.
Lock(c) ==
    /\ adminLock = None
    /\ adminLock' = c
    /\ Goto(c, "lock", "list")
    /\ UNCHANGED <<worldVars, call, devs, index, dev, lookupVars, status, answer, handle,
                   work, historyVars>>

Lists(S) == {l \in [1..Cardinality(S) -> S] : {l[i] : i \in DOMAIN l} = S}

\* libusb_get_device_list. No device and a failure are alike: GetDeviceList answers
\* success without a list, and GetDeviceInfo fails.
GetList(c) ==
    /\ pc[c] = "list"
    /\ \/ \E l \in Lists(bus) :
            LET first == IF call[c].op = "GetDeviceList" THEN l[1] ELSE call[c].dev
            IN  /\ bus # {}
                /\ devs' = [devs EXCEPT ![c] = l]
                /\ IF first \in bus
                     THEN TurnTo(c, first) /\ Goto(c, "list", "describe")
                     ELSE TurnAway(c) /\ Goto(c, "list", "free")
                /\ UNCHANGED status
       \/ /\ status' = [status EXCEPT ![c] =
                          IF call[c].op = "GetDeviceList" THEN "ERROR_NONE" ELSE @]
          /\ Goto(c, "list", "done")
          /\ UNCHANGED <<devs, dev, path, owned>>
    /\ UNCHANGED <<worldVars, call, index, tries, todo, entry, dir, answer, handle,
                   adminLock, work, unreadable, steady>>

-----------------------------------------------------------------------------
(* One device.                                                             *)

\* After a device: the next of the list, or the end of the call or of the callback.
Onwards(t, here) ==
    IF call[t].op = "GetDeviceList" /\ index[t] < Len(devs[t])
      THEN /\ index' = [index EXCEPT ![t] = @ + 1]
           /\ TurnTo(t, devs[t][index[t] + 1])
           /\ Goto(t, here, "describe")
      ELSE /\ Goto(t, here, IF t = EventThread THEN "done" ELSE "free")
           /\ TurnAway(t)
           /\ UNCHANGED index

SlipStopsAtUnreadable(t) ==
    /\ Goto(t, "describe", IF t = EventThread THEN "done" ELSE "free")
    /\ TurnAway(t)
    /\ status' = [status EXCEPT ![t] = "ERROR_GENERAL"]
    /\ unreadable' = [unreadable EXCEPT ![t] = @ \cup {dev[t]}]
    /\ UNCHANGED <<worldVars, call, devs, index, tries, todo, entry, dir, answer, handle,
                   adminLock, work, steady>>

\* The device descriptor cannot be read: the list goes on without the device, the
\* event is dropped.
Unreadable(t) ==
    /\ Onwards(t, "describe")
    /\ status' = [status EXCEPT ![t] = "ERROR_GENERAL"]
    /\ unreadable' = [unreadable EXCEPT ![t] = @ \cup {dev[t]}]
    /\ UNCHANGED <<worldVars, call, devs, tries, todo, entry, dir, answer, handle,
                   adminLock, work, steady>>

\* GetDeviceInfo does not look for the path when it is the device descriptor which
\* says mass storage; and whoever cannot read the interfaces does not either.
Storage(t) == \/ Kind[dev[t]] = "by interface"
              \/ Kind[dev[t]] = "by device" /\ call[t].op # "GetDeviceInfo"

Describe(t) ==
    /\ pc[t] = "describe"
    /\ \/ /\ Storage(t)
          /\ tries' = [tries EXCEPT ![t] =
                         IF call[t].op = "GetDeviceInfo" THEN 1 ELSE Attempts]
          /\ Goto(t, "describe", "scan")
       \/ /\ ~Storage(t) \/ Kind[dev[t]] = "by interface"
          /\ Goto(t, "describe", "described")
          /\ UNCHANGED tries
    /\ UNCHANGED <<worldVars, call, devs, index, dev, todo, entry, dir, path, status,
                   answer, handle, adminLock, work, historyVars>>

\* GetDeviceList appends the device; a callback hands it to dispatchEvent.
Described(t) ==
    /\ call[t].op # "GetDeviceInfo"
    /\ status' = [status EXCEPT ![t] = "ERROR_NONE"]
    /\ answer' = [answer EXCEPT ![t] = Append(@, dev[t])]
    /\ Onwards(t, "described")
    /\ UNCHANGED <<worldVars, call, devs, tries, todo, entry, dir, handle, adminLock,
                   work, unreadable, steady>>

-----------------------------------------------------------------------------
(* The block device of a device: getDevicePathFromDevice.                  *)

\* The block devices of device d which a lookup can find: those named sd..., if the
\* files of the device are not too far up.
Findable(d) == {b \in Disks : block[b] = d /\ Below[d] < MaxTraversalDepth}

\* The directory of block devices is opened, unless it cannot be or the device has
\* no port numbers.
OpenDir(t) ==
    /\ Goto(t, "scan", "resolve")
    /\ \/ /\ todo' = [todo EXCEPT ![t] = {b \in Blocks : block[b] # None}]
          /\ steady' = [steady EXCEPT ![t] = Findable(dev[t])]
       \/ /\ todo' = [todo EXCEPT ![t] = {}]
          /\ steady' = [steady EXCEPT ![t] = {}]
    /\ UNCHANGED <<worldVars, call, devs, index, dev, tries, entry, dir, path, status,
                   answer, handle, adminLock, work, unreadable, owned>>

\* The directories from block device b upwards; the files are those of its device.
Above(b) == IF block[b] = None THEN <<>>
            ELSE LET n == Below[block[b]] + 1
                 IN  [i \in 1..n |-> IF i = n THEN Files ELSE {}]

\* The next entry of the directory is looked at if it is named sd... Its canonical
\* path names the port of its device, unless it cannot be resolved, or the walk finds
\* nothing or fails on a directory it cannot read.
Resolve(t) ==
    /\ pc[t] = "resolve"
    /\ \E b \in todo[t] :
         /\ todo' = [todo EXCEPT ![t] = @ \ {b}]
         /\ \/ /\ b \in Disks /\ FindUsbAddressFiles(Above(b)) # 0
               /\ entry' = [entry EXCEPT ![t] = b]
               /\ dir' = [dir EXCEPT ![t] = Port[block[b]]]
               /\ Goto(t, "resolve", "compare")
               /\ UNCHANGED steady
            \/ /\ b \notin Disks \/ FindUsbAddressFiles(Above(b)) = 0
               /\ UNCHANGED <<entry, dir, pc, steady>>
            \/ /\ b \in Disks
               /\ steady' = [steady EXCEPT ![t] = @ \ {b}]
               /\ UNCHANGED <<entry, dir, pc>>
    /\ UNCHANGED <<worldVars, call, devs, index, dev, tries, path, status, answer, handle,
                   adminLock, work, unreadable, owned>>

\* The entry is the block device of the device, and the loop ends.
Matched(t) ==
    /\ path' = [path EXCEPT ![t] = entry[t]]
    /\ todo' = [todo EXCEPT ![t] = {}] /\ steady' = [steady EXCEPT ![t] = {}]
    /\ Goto(t, "compare", "described")

\* The loop goes on with the next entry; those in misread are not to be found any more.
PassedOver(t, misread) ==
    /\ steady' = [steady EXCEPT ![t] = @ \ misread]
    /\ Goto(t, "compare", "resolve")
    /\ UNCHANGED <<path, todo>>

LeaveEntry(t) ==
    /\ entry' = [entry EXCEPT ![t] = None] /\ dir' = [dir EXCEPT ![t] = None]
    /\ UNCHANGED <<worldVars, call, devs, index, dev, tries, status,
                   answer, handle, adminLock, work, unreadable, owned>>

SlipComparesBusOnly(t) ==
    /\ \/ IF \E d \in bus : Port[d] = dir[t] THEN Matched(t) ELSE PassedOver(t, {})
       \/ PassedOver(t, {entry[t]})
    /\ LeaveEntry(t)

SlipStopsAtMismatch(t) ==
    /\ \/ IF \E d \in bus : Port[d] = dir[t] /\ d = dev[t]
            THEN Matched(t)
            ELSE /\ todo' = [todo EXCEPT ![t] = {}]
                 /\ Goto(t, "compare", "resolve")
                 /\ UNCHANGED <<path, steady>>
       \/ PassedOver(t, {entry[t]})
    /\ LeaveEntry(t)

\* busnum and devnum are those of the device which is at the port by now. One of the
\* two may not be opened, or have no number, though the device is there.
Compare(t) ==
    /\ \/ IF \E d \in bus : Port[d] = dir[t] /\ d = dev[t]
            THEN Matched(t)
            ELSE PassedOver(t, {})
       \/ PassedOver(t, {entry[t]})
    /\ LeaveEntry(t)

\* No entry matched. GetDeviceInfo leaves it at that, the others sleep a second.
NotFound(t) ==
    /\ todo[t] = {}
    /\ tries' = [tries EXCEPT ![t] = @ - 1]
    /\ Goto(t, "resolve", IF call[t].op = "GetDeviceInfo" THEN "described" ELSE "sleep")
    /\ UNCHANGED <<worldVars, call, devs, index, dev, todo, entry, dir, path, status,
                   answer, handle, adminLock, work, historyVars>>

SlipNeverGivesUp(t) ==
    /\ Goto(t, "sleep", "scan")
    /\ UNCHANGED <<worldVars, call, devs, index, dev, lookupVars, status, answer, handle,
                   adminLock, work, historyVars>>

Wake(t) ==
    /\ Goto(t, "sleep", IF tries[t] = 0 THEN "described" ELSE "scan")
    /\ UNCHANGED <<worldVars, call, devs, index, dev, lookupVars, status, answer, handle,
                   adminLock, work, historyVars>>

Lookup(t) == OpenDir(t) \/ Resolve(t) \/ Compare(t) \/ NotFound(t) \/ Wake(t)

-----------------------------------------------------------------------------
(* The rest of GetDeviceInfo, and of GetDeviceList.                        *)

\* libusb_open, after the port, the speed and the configuration were read.
Open(c) ==
    /\ call[c].op = "GetDeviceInfo"
    /\ \/ /\ dev[c] \in bus
          /\ handle' = [handle EXCEPT ![c] = dev[c]]
          /\ Goto(c, "described", "strings")
       \/ /\ Goto(c, "described", "free")
          /\ UNCHANGED handle
    /\ TurnAway(c)
    /\ UNCHANGED <<worldVars, call, devs, index, tries, todo, entry, dir, status, answer,
                   adminLock, work, unreadable, steady>>

\* What libusb returns when it is asked for the languages of a device: it has none,
\* one or two, or the read fails.
NotReceived == [ret |-> -1, buf |-> [i \in 0..BufferSize - 1 |-> 0]]
LanguageReads == {[ret |-> 2 * Len(ids) + 2, buf |-> Languages(ids)]
                    : ids \in {<<>>, <<1033>>, <<1033, 7>>}} \cup {NotReceived}

\* The outcome of reading the strings of c's device, which has a serial number or
\* not; nothing can be read of a device which is gone.
StringsRead(c, outcome) ==
    \E read \in LanguageReads, serial \in {<<65>>, Failed} :
        /\ handle[c] \notin bus => read = NotReceived /\ serial = Failed
        /\ outcome = ExtInfo(read, [x \in LanguageIds |-> [f \in Fields |-> serial]]).status

SlipKeepsHandle(c) ==
    /\ \E outcome \in Outcomes :
         /\ StringsRead(c, outcome)
         /\ status' = [status EXCEPT ![c] = outcome]
         /\ Goto(c, "strings", IF outcome = "ERROR_NONE" THEN "close" ELSE "free")
    /\ UNCHANGED <<worldVars, call, devs, index, dev, lookupVars, answer, handle,
                   adminLock, work, historyVars>>

ReadStrings(c) ==
    /\ Goto(c, "strings", "close")
    /\ \E outcome \in Outcomes :
         /\ StringsRead(c, outcome)
         /\ status' = [status EXCEPT ![c] = outcome]
    /\ UNCHANGED <<worldVars, call, devs, index, dev, lookupVars, answer, handle,
                   adminLock, work, historyVars>>

Close(c) ==
    /\ Goto(c, "close", "free")
    /\ handle' = [handle EXCEPT ![c] = None]
    /\ UNCHANGED <<worldVars, call, devs, index, dev, lookupVars, status, answer,
                   adminLock, work, historyVars>>

\* libusb_free_device_list. GetDeviceList answers with its list if the last device
\* could be read. (GetDeviceInfo has worked out level and parent before, and only for
\* an answer which is an error.)
Free(c) ==
    /\ devs' = [devs EXCEPT ![c] = <<>>]
    /\ Goto(c, "free", "done")
    /\ UNCHANGED <<worldVars, call, index, dev, lookupVars, status, answer, handle,
                   adminLock, work, historyVars>>

SlipUnlockOnSuccess(t) ==
    /\ adminLock' = IF adminLock = t /\ status[t] = "ERROR_NONE" THEN None ELSE adminLock
    /\ Goto(t, "done", "idle")
    /\ Return(t)
    /\ UNCHANGED <<worldVars, devs, dev, todo, entry, dir, path, handle, work, owned,
                   steady>>

\* GetDeviceInfo unlocks; a callback has handed its device to dispatchEvent.
Done(t) ==
    /\ adminLock' = IF adminLock = t THEN None ELSE adminLock
    /\ Goto(t, "done", "idle")
    /\ Return(t)
    /\ UNCHANGED <<worldVars, devs, dev, todo, entry, dir, path, handle, work, owned,
                   steady>>

DescribeDevice(t) ==
    Unreadable(t) \/ Describe(t) \/ Lookup(t) \/ Described(t) \/ Done(t)

Serve(c) == \/ Lock(c) \/ GetList(c) \/ DescribeDevice(c) \/ Open(c) \/ ReadStrings(c)
            \/ Close(c) \/ Free(c)

\* Nobody calls, and no device comes or goes.
Quiescent == (\A t \in Threads : pc[t] = "idle") /\ UNCHANGED vars

Next ==
    \/ World
    \/ \E c \in Clients : Enter(c) \/ Serve(c)
    \/ HotPlug \/ DescribeDevice(EventThread)
    \/ Quiescent

Spec == Init /\ [][Next]_vars

\* libusb and the file system answer, a sleep ends, and a thread which waits for
\* _adminLock gets it once it stays free.
FairSpec == /\ Spec
            /\ \A c \in Clients : WF_vars(Serve(c))
            /\ WF_vars(DescribeDevice(EventThread))

-----------------------------------------------------------------------------
(* Properties.                                                             *)

Places == {"idle", "lock", "list", "describe", "scan", "resolve", "compare", "sleep",
           "described", "strings", "close", "free", "done"}

\* What a thread holds is of the right kind, and retryCount does not go below zero.
TypeOK ==
    /\ bus \subseteq Devices /\ gone \subseteq Devices
    /\ block \in [Blocks -> Devices \cup {None}]
    /\ pc \in [Threads -> Places]
    /\ call \in [Threads -> Calls \cup Events \cup {NoCall}]
    /\ devs \in [Threads -> Seq(Devices)] /\ index \in [Threads -> Nat \ {0}]
    /\ dev \in [Threads -> Devices \cup {None}]
    /\ tries \in [Threads -> 0..Attempts]
    /\ todo \in [Threads -> SUBSET Blocks]
    /\ entry \in [Threads -> Blocks \cup {None}]
    /\ dir \in [Threads -> {Port[d] : d \in Devices} \cup {None}]
    /\ path \in [Threads -> Blocks \cup {None}]
    /\ status \in [Threads -> Outcomes]
    /\ answer \in [Threads -> Seq(Devices)]
    /\ handle \in [Threads -> Devices \cup {None}]
    /\ adminLock \in Clients \cup {None}
    /\ work \in Nat
    /\ unreadable \in [Threads -> SUBSET Devices]
    /\ owned \in [Threads -> SUBSET Blocks] /\ steady \in [Threads -> SUBSET Blocks]

\* The list out has the devices of in which are not in S, once and in their order.
ListsWithout(out, in, S) ==
    /\ {out[i] : i \in DOMAIN out} = {in[k] : k \in DOMAIN in} \ S
    /\ \A i, j \in DOMAIN out, k, l \in DOMAIN in :
          out[i] = in[k] /\ out[j] = in[l] => (i < j <=> k < l)

\* GetDeviceList, when it has been through the devices, has an entry for each of them
\* which could be read, once and in the order of the bus, whatever was unplugged in
\* the meantime. (Whether it answers with that list, PartialInfoReturned asks.)
ListExact ==
    \A c \in Clients :
        pc[c] = "free" /\ call[c].op = "GetDeviceList" =>
            ListsWithout(answer[c], devs[c], unreadable[c])

\* A path is only ever reported for the device whose block device it was, at some
\* moment since the thread turned to it: not for one which has followed it at its
\* port, nor for one which had the name sda before.
PathBelongs == \A t \in Threads : path[t] # None => path[t] \in owned[t]

\* A lookup does not miss: when it ends without a path, the device had no block device
\* from the moment the directory was opened on, but such as are not named sd..., whose
\* files are too far up for the walk, or could not be read.
NoMiss == \A t \in Threads : pc[t] = "resolve" /\ todo[t] = {} => steady[t] = {}

\* Whichever way a call ends, and whatever is unplugged while it runs, it keeps no
\* handle open, no device of the list referenced and no lock.
ResourcesReturned ==
    \A t \in Threads :
        /\ pc[t] = "idle" => handle[t] = None /\ devs[t] = <<>> /\ adminLock # t
        /\ handle[t] # None => adminLock = t

\* What Resolve and ReadStrings compute is right for every input, not only for those
\* which a state of the model supplies: the walk over sysfs ends at the nearest device.
WalkIsRight == Init => WalkFindsNearest

\* A string descriptor, whatever part of it arrives, is decoded to its last unit, each
\* cut to its low byte, or refused.
TextsAreRight == Init => TextsArriveWhole

\* A device with one language is described in it.
ProductIsRight == Init => OneLanguageDescribed

\* Every call returns and every callback ends: the retries are bounded, and the lock
\* is given back.
EveryCallReturns == \A t \in Threads : pc[t] # "idle" ~> pc[t] = "idle"

-----------------------------------------------------------------------------
(* What the documents promise and the code does not keep.                  *)

\* When some devices cannot be accessed, the caller of GetDeviceList gets the others.
PartialInfoReturned ==
    \A c \in Clients :
        pc[c] = "free" /\ call[c].op = "GetDeviceList" /\ answer[c] # <<>> =>
            status[c] = "ERROR_NONE"
=============================================================================
