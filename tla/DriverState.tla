---------------------------- MODULE DriverState ----------------------------
(***************************************************************************)
(* What BindDriver and UnbindDriver promise, without lock, device list and *)
(* libusb handle: a call which answers ERROR_NONE saw or made the kernel   *)
(* driver active, or inactive, at one moment while it ran, on a device     *)
(* with the requested name which was plugged in at that moment; a call     *)
(* which answers ERROR_GENERAL has changed nothing.                        *)
(***************************************************************************)
EXTENDS Naturals

CONSTANTS Clients, Names, Devices, Name, MaxForeign, None

VARIABLES
    present,  \* devices plugged in
    gone,     \* devices unplugged; one which is plugged in again is another one
    bound,    \* devices with an active kernel driver
    foreign,  \* number of drivers others have bound or unbound
    request,  \* the call each client is in, or None
    answer    \* its answer so far, and the answer of the last one

vars == <<present, gone, bound, foreign, request, answer>>

Requests == [op : {"BindDriver", "UnbindDriver"}, name : Names]

Init ==
    /\ present = {} /\ gone = {} /\ bound = {} /\ foreign = 0
    /\ request = [c \in Clients |-> None]
    /\ answer = [c \in Clients |-> "ERROR_GENERAL"]

Plug(d) ==
    /\ d \notin present \cup gone
    /\ present' = present \cup {d}
    /\ bound' \in {bound, bound \cup {d}}
    /\ UNCHANGED <<gone, foreign, request, answer>>

Unplug(d) ==
    /\ present' = present \ {d} /\ gone' = gone \cup {d} /\ bound' = bound \ {d}
    /\ UNCHANGED <<foreign, request, answer>>

ForeignSwitch(d) ==
    /\ d \in present /\ foreign < MaxForeign
    /\ foreign' = foreign + 1
    /\ bound' \in {bound \cup {d}, bound \ {d}}
    /\ UNCHANGED <<present, gone, request, answer>>

Call(c) ==
    /\ request[c] = None
    /\ \E r \in Requests : request' = [request EXCEPT ![c] = r]
    /\ answer' = [answer EXCEPT ![c] = "ERROR_GENERAL"]
    /\ UNCHANGED <<present, gone, bound, foreign>>

TakeEffect(c) ==
    /\ request[c] # None /\ answer[c] = "ERROR_GENERAL"
    /\ \E d \in present :
          /\ Name[d] = request[c].name
          /\ bound' = IF request[c].op = "BindDriver" THEN bound \cup {d} ELSE bound \ {d}
    /\ answer' = [answer EXCEPT ![c] = "ERROR_NONE"]
    /\ UNCHANGED <<present, gone, foreign, request>>

Return(c) ==
    /\ request[c] # None
    /\ request' = [request EXCEPT ![c] = None]
    /\ UNCHANGED <<present, gone, bound, foreign, answer>>

Next ==
    \/ \E d \in Devices : Plug(d) \/ Unplug(d) \/ ForeignSwitch(d)
    \/ \E c \in Clients : Call(c) \/ TakeEffect(c) \/ Return(c)

Spec == Init /\ [][Next]_vars
=============================================================================
