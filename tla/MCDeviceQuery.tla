---------------------------- MODULE MCDeviceQuery ----------------------------
(* Instances of DeviceQuery for TLC.                                       *)
EXTENDS DeviceQuery, TLC

CONSTANTS c1, c2, d1, d2, d3, p1, p2

\* d2 is plugged into the port which d1 had, and its files are out of reach.
MCPort == d1 :> p1 @@ d2 :> p1 @@ d3 :> p2
MCKind == d1 :> "by interface" @@ d2 :> "by interface" @@ d3 :> "by device"
MCBelow == d1 :> 4 @@ d2 :> 5 @@ d3 :> 4

\* A second client is there to wait for _adminLock.
Ask(op, d) == [op |-> op, dev |-> d]
MCUses == c1 :> {Ask("GetDeviceList", None), Ask("GetDeviceInfo", d3)}
       @@ c2 :> {Ask("GetDeviceInfo", d1)}
=============================================================================
