# Verification of the USBDevice plugin

TLA+ modules, TLC configurations and TLAPS proofs for the `entservices-usbdevice`
repository: a Thunder plugin which reports USB devices to its clients, notifies
them of devices which come and go, and binds and unbinds kernel drivers. Paths
are relative to the root of the repository; `Impl.cpp` stands for
`plugin/USBDeviceImplementation.cpp`.

To run a model: `tlc -config MCNotifierSafety.cfg MCNotifier`. To check the
proofs of a module: `tlapm NotifierProofs.tla`.

## 1. Inventory

| Component | State | Operations | Talks to |
|---|---|---|---|
| Notification path (`Impl.cpp` 374-451, 964-1051, `Job` in the header) | `_usbDeviceNotification` (a `std::list` of sinks), `_adminLock`, the pool's queue of Jobs | `Register`, `Unregister`, `dispatchEvent`, `Dispatch`, the two hot-plug callbacks | sinks (called with the lock held), Thunder's worker pool, libusb |
| Implementation lifecycle (`Impl.cpp` 238-372, `USBDevice.cpp` 61-141) | the object's reference count, the static `instance()`, `_libUSBDeviceThread`, `_handlingUSBDeviceEvents`, `_hotPlugHandle`, libusb's default context | `Initialize`, `Deinitialize`, constructor, `libUSBInit`, destructor, `libUSBClose`, the event loop, `~Job` | libusb, the worker pool, the plugin's own sink |
| Driver control (`Impl.cpp` 1173-1341) | `_adminLock`, a device list and a handle per call | `BindDriver`, `UnbindDriver` | libusb, the kernel |
| Device queries (`Impl.cpp` 1053-1171) | a device list per call; `GetDeviceInfo` takes `_adminLock`, `GetDeviceList` does not | `GetDeviceList`, `GetDeviceInfo` | libusb, device description |
| Device description (`Impl.cpp` 769-959) | none | `getUSBDeviceStruct...`, `getUSBDeviceInfoStruct...`, class of the interfaces | libusb, block device path, string descriptors |
| String descriptors (`Impl.cpp` 566-767) | none | `getUSBDescriptorValue`, `getUSBExtInfoStruct...` | libusb |
| Block device path (`Impl.cpp` 72-234, 464-564) | none | `findUsbAddressFiles`, `findBlockDevicePathByUsbAddress`, `getDevicePathFromDevice`, `getDeviceSerialNumber` | sysfs |
| Plugin shell (`USBDevice.cpp`, `USBDevice.h`) | `_service`, `_connectionId`, `_usbDeviceImpl` | `Initialize`, `Deinitialize`, `Deactivated`, the sink which forwards to JSON-RPC | Thunder's shell, the implementation |
| JSON-RPC glue (`Module.cpp`, interface maps, generated `JUSBDevice`) | none | | Thunder |
| Tests and build | none | | |

How they interact. libusb's hot-plug messages are handled by one event thread,
which the constructor starts and the destructor joins. A callback reads the
device and submits a Job, which holds a reference on the implementation, to the
worker pool. A pool thread runs the Job: it takes `_adminLock` and calls every
sink in the list. Client threads call the interface; all operations but
`GetDeviceList` take `_adminLock`. The plugin registers a sink of its own, which
turns notifications into JSON-RPC events.

What is hard:

* sinks are called with the lock held, while the list, the sinks' references and
  the callbacks' own calls change what is iterated (interleaving, deadlock);
* Jobs of one device run on several pool threads (ordering);
* the last reference may be dropped by the plugin, a pool thread or the event
  thread, and the destructor then joins the event thread (atomicity, deadlock);
* the event thread blocks in libusb, which lets go by itself only after 60 seconds,
  and must be woken by `libUSBClose` (a lost wakeup);
* `libUSBInit` fails at one of several steps and tells nobody (partial failure);
* the bus does not wait for a call: devices go, and others get their address,
  their port or the name of their block device, between any two libusb calls or
  reads of sysfs (stale state);
* the implementation usually runs in a process of its own, which may die at any
  moment of the plugin's life (crash).

What makes each component correct: of the notification path, that an event
reaches exactly the sinks registered at one moment, once, in one order, while
they are alive; of the lifecycle, exact counts, no use of an object outside its
life, a clean and terminating teardown; of driver control, that a call is atomic,
gives back everything and does not fail without a reason; of the queries and
pure algorithms, that the answer describes the devices which were there, with
their own block devices, and that nothing is kept on any path; of the shell, that
what it asserts of its members holds and nothing stays registered whenever the
process dies.
`PROJECT.json` lists the hazards one by one, each with the properties which
would catch it, or with the reason why none does yet.

## 2. Modules

| Module | What it is |
|---|---|
| `Notifier` | the notification path: event thread, pool, lock, list, sinks, clients |
| `Broadcast` | what it promises: an atomic broadcast without threads, lock or list |
| `NotifierRefinement` | the mapping from `Notifier` to `Broadcast` |
| `NotifierProofs` | theorems about `Notifier`: iterator, references, callbacks |
| `DeliveryProofs` | theorems about `Notifier`: who has which event, how often and in which order |
| `RefinementProofs` | the theorem that `Notifier` implements `Broadcast` |
| `ListLemmas` | lemmas on appending to and erasing from a list without duplicates |
| `Lifecycle` | activation, event thread, Jobs, references, destructor, deactivation |
| `LifecycleProofs` | theorems about `Lifecycle` |
| `DriverControl` | `BindDriver` and `UnbindDriver`, step by step, on a changing bus |
| `DriverState` | what they promise: atomic changes of the drivers |
| `DriverControlProofs` | theorems about `DriverControl`, its refinement included |
| `DeviceQuery` | `GetDeviceList`, `GetDeviceInfo` and what the callbacks read of a device, while devices and block devices come and go |
| `SysfsWalk` | `findUsbAddressFiles`, with what it is for; extended by `DeviceQuery` |
| `StringDescriptors` | decoding of string descriptors and languages; extended by `DeviceQuery` |
| `DeviceQueryProofs` | theorems about `DeviceQuery` |
| `PluginShell` | `Initialize`, `Deinitialize`, `Deactivated` with the implementation in a process of its own |
| `PluginShellProofs` | theorems about `PluginShell` |
| `MCNotifier`, `MCLifecycle`, `MCDriverControl`, `MCDeviceQuery`, `MCPluginShell` | instances for TLC |

`Slip...` operators stand before the definition they could be mistaken for: each
is a plausible mistake in that code (a dropped guard, a missing `AddRef`, a lock
not taken), used to show that a property would notice. They are no part of any
specification.

### Notifier

| Code | Model |
|---|---|
| `_usbDeviceNotification` and its iterator | `notifications`, `index` (the node it stands on, or `End`), `First`, `NodeAfter` |
| `AddRef` and `Release` on a sink | `refs`; `owned` says whose owner holds a reference besides |
| `_adminLock` | `adminLock`; `Core::CriticalSection` is recursive, so a callback on the worker's thread may call the interface (`NestedCall`) |
| `Register`, `Unregister` | `Enter` then `Register`, `Unregister`: one step, as nothing is called out of the critical section |
| `Dispatch` | `DispatchLock`, then `DispatchCall` and `DispatchReturn` for each sink, then `DispatchUnlock` |
| the hot-plug callbacks and `dispatchEvent` | `Attached`, `Detached`: the Job is submitted, or dropped when the device cannot be read (`Lossy`) |
| the worker pool | `queue`, `TakeJob`: first in, first out, several threads |
| `GetDeviceInfo` and the other calls which take the lock | `Query` |

`submitted`, `delivered`, `joins` and `leaves` are history. A sink in
`Querying` lives in another process: its callback makes a call which arrives on
another thread, and does not return before the answer. A re-entrant sink does not
unregister itself in its own callback: `++index` on the erased node is undefined.

### Lifecycle

| Code | Model |
|---|---|
| `Initialize` | `Construct` (constructor and `libUSBInit`, with each outcome), `Constructed` (`Root` returns), `RegisterSink` |
| `Deinitialize` | `Deactivate` (it is called), `UnregisterSink` (`Unregister` has got `_adminLock`, from whichever worker has it), `ReleaseImpl`, `Deinitialized` |
| destructor and `libUSBClose` | `ClearFlag`, `DeregisterAttached`, `DeregisterDetached`, `Join`, `Exit`, by the thread `closer` which dropped the last reference |
| event loop | `CheckFlag`, `Poll`, `HandleMessage`, then `DropEvent` or `CreateJob`, `SubmitJob`, `DropHeld` |
| `Job` | `jobRefs`; created with one reference, the pool's is the second; `DropJob` is `~Job` when the last goes |
| pool threads | `TakeJob`, `Dispatch`, `DispatchReturn`, `FinishJob` |

libusb and Thunder as assumed: deregistering a callback makes
`libusb_handle_events` return (`wake`); a deregistered callback is not called any
more; `libusb_exit` forgets the messages; `AddRef` and `Release` are pure virtual
until the object is complete and once its destructor runs.

`fault` is set by the first step which ends the process or is undefined in C++:
a Job made on an incomplete or dying object, `join()` of a thread with itself,
libusb without a context. All actions require `fault = "none"`, so the invariants
say what holds until then; the liveness properties allow for it. What the
documents promise and the code breaks has runs of its own: `NoSelfJoin` and
`NoUseOfDeadObject` are about faults, `ReleaseDestroys` is broken without any. The faults `half built` (the event thread starts inside the
constructor) and `no context` (the destructor after a failed `libUSBInit`) are
reached too, but no document speaks of them.

### DriverControl

A call is `Enter`, `Lock`, `GetDeviceList`, `Open`, `Query`, `Switch`, `Close`,
`Free`, `Unlock`, with the early exits of the code. `Plug` and `Unplug` may happen
between any two. A device which comes back is a new device, and two devices may
have the same bus address one after the other (`Name`). Each libusb call may fail
for reasons of its own (`Fail`), and other programs may bind and unbind drivers
(`ForeignSwitch`). `target` is history: the device a call is about, for as long
as nothing outside the plugin has disturbed that call.

`Switch` and `AsWanted` stand for both functions, which differ in the wanted state
and in attach or detach.

### DeviceQuery

| Code | Model |
|---|---|
| `GetDeviceList` | `Enter`, `GetList`, for each device `Describe`, the lookup and `Described`, or `Unreadable`; then `Free`, `Done` |
| `GetDeviceInfo` | `Enter`, `Lock`, `GetList` (which finds the device by name), `Describe`, one lookup, `Open`, `ReadStrings`, `Close`, `Free`, `Done` (which unlocks) |
| the two hot-plug callbacks | `HotPlug`, `Describe`, the lookup, `Described` or `Unreadable`, `Done`, on `EventThread` |
| the class of a device | `Kind`: mass storage by an interface, by the device descriptor, or neither; `Storage` says who looks for a path. `GetDeviceInfo` does not when the device descriptor says mass storage (lines 796-805) |
| `getDevicePathFromDevice` | `OpenDir`, then for each entry `Resolve` (the name, which must begin with `sd`; the canonical path, which names a port; and the walk) and `Compare` (`busnum` and `devnum` of whoever is at that port by now: `Matched` or `PassedOver`) |
| a directory or file which cannot be read though the device is there (lines 104-107, 181-192, 202-213) | the last alternative of `Resolve` and of `Compare`: the loop goes on with the next entry |
| `retryCount`, `sleep(1)` | `tries`, `NotFound`, `Wake` |
| `libusb_get_device_list` and `libusb_free_device_list` | `devs`: the devices a call holds references on, in any order |
| `devHandle` | `handle` |

`findUsbAddressFiles`, `getUSBDescriptorValue` and the reading of the languages are
pure, and are operators of `SysfsWalk` and `StringDescriptors`, which the actions
`Resolve` and `ReadStrings` use. A chain of directories is a sequence of sets of
files, a read of libusb a record of its return value and the bytes it leaves.

`owned`, `steady` and `unreadable` are history: the block devices a device has had
since the thread turned to it, those which the lookup should find, and the devices a
call could not read. A lookup should find a block device of its device which has been
there since the directory was opened, is named `sd...` (`Disks`), has the files of its
device near enough for the walk (`Findable`), and on which no read has failed.

The kernel numbers addresses in turn, so within a call a bus and address stand for
one device: this is assumed. Ports and names of block devices are used again at
once.

### PluginShell

| Code | Model |
|---|---|
| `Initialize` | `KeepService`, `Observe`, `Launch` and `RootReturns` (with every way `Root` may fail), `Announce`; or the call of `Deinitialize` at line 92 |
| `Deinitialize` | `Withdraw`, `RemoteConnection`, `ReleaseImpl`, `Terminate`, `Forget`, `Clear`; from line 92, without implementation, the last two |
| `Deactivated` | `Compare` and `Submit`, two steps, as the members it reads are cleared by another thread |
| `_service`, `_connectionId`, `_usbDeviceImpl` | `service`, `connectionId`, `impl` |
| the references on the shell | `references`, of the plugin and of each Job |

Thunder as assumed: it activates and deactivates a plugin one at a time; it calls
the observers of connections, and registers and unregisters them, under one lock,
so `Unregister` waits for a `Deactivated` which is running; a Job for FAILURE does
nothing unless the plugin is active.

Two behaviours of the model are worth knowing, though no document speaks of them.
`Terminate` comes before `Unregister`, so a `Deinitialize` somebody asked for may
submit a Job for FAILURE; when the plugin is activated again before the Job runs,
the Job deactivates the new activation. And a process which dies while
`Initialize` is under way leaves the plugin active without it, as the Job comes
too early.

## 3. Runs

| Run | Shows |
|---|---|
| `notifier_safety` | types; the iterator stays valid; called sinks are alive; registrations and references balance; a finished Dispatch has called every sink; no event twice for one registration; all sinks agree on the order |
| `notifier_live` | refinement of `Broadcast` with its fairness; every event reaches every sink which stays; every call returns |
| `notifier_reorder` | *violated*: with two pool threads a sink may hear LEFT before ARRIVED and end with the wrong view |
| `notifier_remote_query` | *violated*: a call from an out-of-process callback waits for the lock its notification holds |
| `lifecycle` | types; no lost wakeup; exact counts; dispatch on live objects only; clean close; quiet sink; one cause for each fault; `Release` is the last unless a Job is alive; and that deactivation ends and no object or Job lingers |
| `lifecycle_last_reference` | *violated*: `Release` in `Deinitialize` is not the last while a Job is pending (the assertion at `USBDevice.cpp:118`) |
| `lifecycle_self_join` | *violated*: the event thread drops the last reference and joins itself |
| `lifecycle_dead_object` | *violated*: a hot-plug callback uses the object while it is destroyed |
| `driver_control` | types; nothing is kept; no call fails because of another; refinement of `DriverState`; every call returns |
| `device_query` | types and bounded retries; the list has every readable device once; a path belongs to its device; a lookup does not miss a block device which stays and can be read; nothing is kept; every call and callback ends; the walk ends at the nearest device; texts arrive to their last unit or not at all; a device with one language is described in it |
| `device_query_partial_info` | *violated*: when the last device of the list cannot be read, `GetDeviceList` answers with an error and without those which could |
| `plugin_shell` | types; what the code asserts of the plugin's members; the shell's references; FAILURE only for the plugin's own process; a crash is handled; a released process ends |

A violation is the disagreement of the code with a sentence of the documents,
quoted in `PROJECT.json` under `findings`. If the framework limits how long a
COM-RPC call may take, the deadlock of `notifier_remote_query` lasts as long as
that limit, once for each sink.

Some more divergences need no run. `ARCHITECTURE.md:68` says the event loop calls
`libusb_handle_events_timeout()`; it calls `libusb_handle_events()`, which has only
libusb's own timeout of 60 seconds, which is why `NoLostWakeup` matters.
`ARCHITECTURE.md:167` says that activation fails when the initialization does: the
constructor only logs that `libUSBInit` failed, `Initialize` sees an object and
answers success, and the plugin is active without an initialised libusb.
`FailureReported` is what the document promises, and `GoodInitSuffices` shows that
nothing but a failed `libUSBInit` breaks it. `PRODUCT.md:17` calls the
notification of a removal immediate: for a mass-storage device the callback first
looks for a block device which is gone, five times with a second of sleep, before
it submits the Job (`DeviceQuery`, where the LEFT event goes through `Wake`
`Attempts` times). `device_query_partial_info` is about the last device of a list;
when another one cannot be read, the caller gets the rest and is not told that one is
missing (`LastDeviceDecides`).

### Bounds

* `notifier_safety`: two sinks, clients and workers, one of the sinks re-entrant,
  two events, four calls. Two workers are needed for jobs to overtake each other,
  two sinks for a loop with a middle, four calls for register, unregister and
  register again during one Dispatch.
* `notifier_live`: no re-entrant sink, since a callback which changes the list it
  is called from is not atomic; three events, so that one waits behind two others.
* `lifecycle`: two activations, so that what the first leaves is seen by the
  second; three Jobs on two threads, so that one waits while both are busy; two
  pending messages, so that a batch has a successor. Activations do not overlap.
* `driver_control`: three devices of which two share a bus address, two clients,
  three calls, one foreign switch.
* `device_query`: three devices, two of which get the same port one after the
  other, one with its files just out of reach of the walk, and mass storage by the
  interface or by the device descriptor (a device of another kind has no block
  device, and takes the steps of a device which is not looked for); two names of block devices, so that one may be another
  device's; two attempts for the code's five, as a third adds no new order of
  steps; two queries which contend for the lock, or one list, or one callback
  (`MaxWork`, `Weight`): a call shares nothing with another but the lock. Chains of
  up to seven directories with a depth of five stand for the code's ten; the walk
  reads each level alike. Texts of up to two characters, with each length that
  may arrive, in the buffer's real size, of units below 128, of eight bits and of
  more. Both block devices are named `sd...`: one which is not is passed over like
  one out of reach, and the theorems are for any `Disks`.
* `plugin_shell`: two processes, hence two activations which start one, so that the
  second meets what is left of the first, and any number which start none; one
  connection of another plugin.
* the violation runs show their counterexample with smaller bounds than these.

`MaxEvents`, `MaxCalls`, `MaxActivations`, `MaxJobs`, `MaxPending`, `MaxForeign`,
`MaxWork` and `MaxChain` bound the models only; the code has no such limits, and the
theorems hold for every value of them. `MaxText` is at most 126, the longest text
whose descriptor has a length which fits in its one byte; the theorems hold up to
that. `WalkIsRight`, `TextsAreRight` and `ProductIsRight` state formulas without
variables (`WalkFindsNearest`, `TextsArriveWhole`, `OneLanguageDescribed`), so
`device_query` evaluates them once, in the initial state, over all inputs within
`MaxChain` and `MaxText`.

### Fairness

Weak fairness on each pool thread, on the event thread, on the destructor, on the
rest of a started activation or deactivation (`Deinitialize` waits for `_adminLock`
once it is called; Jobs are bounded, so it gets it), and on each call which waits for
`_adminLock`: threads run, libusb calls and the plugin's own callbacks return, and
a mutex which stays free is obtained. As calls are bounded, nobody is overtaken
forever. In `DeviceQuery` libusb and the file system answer and a sleep ends. In
`PluginShell` the started Initialize or Deinitialize goes on, a process which was
told to end ends (Thunder kills it otherwise), a closed connection is noticed, and
the worker pool runs its Jobs; no process is obliged to crash or to answer.
Nothing obliges a device to come, a client to call, or the plugin to be
activated or deactivated.

## 4. Proofs

All proofs are for any sets of clients, sinks, workers, devices, and any bounds, from
the `ASSUME`s of the modules alone; the few theorems which need more say so.

`NotifierProofs`: `Inv == TypeOK /\ IteratorValid /\ Balanced` is inductive.
`IteratorValid` alone is not: that `RemoveAt` leaves the node of the iterator in
the list needs a list without duplicates (`Balanced`), and only the owner of the
lock changes the list. `EraseProperties` of `ListLemmas` says what erasing leaves.
`CalledSinkAlive` follows, since a listed sink has a reference of the list.

Its last section is the safety half of `CallsReturn`: who waits for whom. Every call
and every other Dispatch waits for `_adminLock` only, and by `LockOwnerProceeds` its owner
needs nothing of anybody for its next step, unless it is in the callback of a querying
sink. Then, by `QueryNeverAnswered`, it stays there and keeps the lock for good: what
`notifier_remote_query` shows of one sink is so in every instance. The guards of the
next step are written out, as ENABLED is out of the prover's reach.

`DeliveryProofs` adds `Delivery`, which is inductive with `Inv`. `JobsOnce`: a Job is in
one place, the queue or a worker. `Fresh`: no sink has heard of a Job before its
Dispatch has the lock. `Final`: while it is dispatched, it is the last event of
every sink which has it; a sink which gets a later event first is thus
impossible, and `AgreedOrder` follows. `Loop` is the invariant of the walk: a listed
sink has the event for its present registration if and only if the iterator has
passed it. A re-entrant callback keeps `Loop` since appending and erasing leave the
order of the other sinks as it was, and a sink which joins is behind them all
with a registration of a new number (`OrderKept`). At the end of the list `Loop` is
`AllSinksCalled`, and before each call it shows that the event is new to the sink,
which is `OncePerRegistration`. `OwedUntilHeard` is the safety half of `EventReachesSink`:
an event is not dropped while a registered sink has yet to hear of it.

`OneThreadSettles` answers `notifier_reorder`: with one pool thread, and devices which can
be read, `SettledView` holds for any sinks and clients and also with re-entrant
callbacks, so the violation needs a second thread. The invariant is `Settling`: the
queue is the end of what was submitted and the one worker has the Job before it
(`InLine`); the last Job of a device tells whether it is there (`Recorded`); and a sink
which never left has heard, after an event, of every later one which has reached it
(`Hears`), where `Delivery` says that a Dispatch under way has reached the sinks the
iterator has passed.

`RefinementProofs`: `Notifier` implements `Broadcast` (without its fairness) if
`Reentrant = {}`. A Dispatch takes effect where it locks: `Waiting` loses its Job
(`JobsOnce`), and every listed sink is to be called. A call moves the event from
"to be called" to "called", which the mapping does not tell apart, and the next
node leaves to be called what is behind the last, as no two sinks have one
position. The assumption is needed: a sink which a callback erases before its
turn never has the event, so the delivery was not one step.

`LifecycleProofs`: `Inv` is `TypeOK`, `ReferencesExact` and three parts which no run
needs by itself. `Control` relates the program counters of main thread, destructor
and event thread with flag, context and callbacks; `Places` says that a Job is in
one place of the pool and where the held one is; `InCallback` that the lock has one
owner, a worker with a Job. The core is the lemma on `DropJob`: `refCount` is the
plugin's reference plus the number of live Jobs, so a Job which is held keeps the
object alive, and the last drop is the one which starts the destructor
(`JobKeepsObject`, with the cardinality facts of `FiniteSetTheorems`).

Of the teardown it proves how it can go wrong. `FaultsExplained` gives each fault its one
cause: no Job is ever made on an object which is gone, only on one whose destructor
still waits for the event thread; and the event thread joins itself only after a
`Release` in `Deinitialize` which was not the last (`ResultTells`: until then the plugin's
own reference keeps the object alive). `LastUnlessJobs` says when that is: exactly when
a Job is alive. Without such a Job the assertion at `USBDevice.cpp:118` holds. With
`Outcomes = {"ok"}`, `GoodInitSuffices` shows that an active plugin has libusb and
that the destructor has a context to tear down: a failed `libUSBInit` which nobody is
told of is all that breaks `FailureReported`.

`DriverControlProofs`: `Owner` (the client between lock and unlock is the owner),
`Locals` (where each local is in use), `OneName` and `Steady` (what the call knows
of an undisturbed device: still in the list, still the one opened, still not as
wanted) are inductive together with `TypeOK`. `NothingKept` and `NeverSpurious`
follow at once. `DriversAtomic` is the refinement of `DriverState`: the call takes
effect at the query when the driver is as wanted already, at the attach or detach
otherwise, and every other step of a call is invisible.

`DeviceQueryProofs`: `Inv` is `TypeOK`, what is so of the bus (`BusFacts`: no two devices
are at one port, a block device is one of a device which is there, what is gone
does not come back) and three facts of each thread: `Device`, where it has a device and what it knows
of its path; `Holds`, where it has the list, the handle and the lock; `Knows`, that a
block device it stands on was its own if the port is still its device's. The last
is what `PathsBelong` needs: between `Resolve` and `Compare` the device at the port
may have changed, and only that a device never comes back under its own name
makes the comparison enough.

On `Inv` rests `Told`, what the thread may say so far. `AllFound`: while a lookup goes on,
each block device its device has had since the directory was opened is among those yet
to be read, or is the one the lookup stands on, and will then compare equal, whoever
was at the port meanwhile; at the end that is `NoMiss`. An entry which is
passed over because a read failed is not among them any more: that is all the code
may miss, besides names other than `sd...` and devices out of reach. `AllListing`: the list so far
is that of the devices already passed, in their order, less those which could not be
read; at the end that is `ListExact`, for any number of devices. It also keeps the
status of the device read last, and `LastDeviceDecides` is what that comes to: the
reason why `PartialInfoReturned` is violated.

The pure algorithms are proved too, though they are recursions and no induction
theorem can be used: what each computes is written down explicitly, and shown to
satisfy the equations of the recursive function, which has one solution only.
`WalkCorrect`: the walk ends at the least level with both files, for chains and depths of
any length (`LeastNatural` gives that level, from finite sets being well-founded).
`TextsCorrect` and `AnyLanguageDescribed`: for all UTF-16 units, for texts of every
length a descriptor can hold, and for all 65536 languages, not just for those the run
enumerates. A text is decoded as the code does it, each unit to its low byte
(`Narrowed`), so it is the device's own text only if that is ASCII.

`PluginShellProofs`: `Inv` is `TypeOK`, `Members` (which of the members are set at
which step), `Notices` (a connection which is being reported was the plugin's if it
matched, and its process is dead; a Job is never submitted twice for one connection)
and `Counts`. `NoAssertionFails`, which is about the assertions on the members (that on the
result of `Release` is `Lifecycle`'s), rests on the lock: `Clear` comes after `Forget`, and
after it no `Deactivated` is running. `Orphans`, inductive with `Inv`, is about crashes. While
the plugin is active its sink observes connections and `_connectionId` is the process
of its implementation, so the end of that process is noticed and not taken for
another's: it is in an open connection, a running `Deactivated` or a Job
(`CrashNeverForgotten`, the safety half of `CrashHandled`). And `Deinitialize` passes
`Terminate` only when the process was told to end or is dead (`NoneLeftUntold`, that of
`ProcessEnds`).

Only model-checked: the liveness properties, the fairness half of
`ImplementsFairBroadcast` among them, as fairness and ENABLED are out of the prover's
reach. All other properties of the passing runs are theorems.

## 5. Not modelled

* Time: `sleep(1)` is a step, and the five seconds of `Root` an outcome.
* The data race on `_handlingUSBDeviceEvents`: one step reads or writes it.
* Overlapping activations in one process: the static `instance()` and libusb's
  default context are then shared by two objects.
* Level and parent (`Impl.cpp` 1136-1155), which only error answers have; the fields
  copied from descriptors; the serial number file (464-493) and the text of the
  port path (129-149); the configuration descriptor, which `GetDeviceInfo` never
  frees; the array of an empty device list, which is never freed either.
* A change of the directory of block devices while it is read: the entries are
  those of the moment it was opened.
* The JSON-RPC glue has no state; the tests and build files hold none of the
  system's.

## 6. Plan

1. Overlapping objects in `Lifecycle`: the plugin is activated again before the
   last Job ended.
2. A composition of `Lifecycle` and `Notifier`: an event is lost only for a reason.
3. An abstract specification of the implementation object as one shared by reference
   counts, which `Lifecycle` implements up to the first fault, and its proof.
4. Proofs: the safety half of `DeactivationEnds` and `NothingLingers`, what each waiting
   thread of the teardown waits for.
