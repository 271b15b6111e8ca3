------------------------ MODULE DriverControlProofs ------------------------
(***************************************************************************)
(* Proofs about BindDriver and UnbindDriver, for any number of clients and *)
(* devices. The owner of _adminLock is the only client between the lock    *)
(* and the unlock (Owner), so what it has found out stays true but for     *)
(* what the bus and other programs do (Steady).                            *)
(***************************************************************************)
EXTENDS DriverControl, TLAPS

Inside == {"list", "open", "query", "switch", "close", "free", "unlock"}

\* A client is between Lock and Unlock when it owns _adminLock, and only then.
Owner == \A c \in Clients : adminLock = c <=> pc[c] \in Inside

\* The stretch of the call in which each local is in use.
Locals ==
    \A c \in Clients :
        /\ pc[c] = "idle" => request[c] = None
        /\ handle[c] # None => pc[c] \in {"query", "switch", "close"}
        /\ list[c] # {} => pc[c] \in {"open", "query", "switch", "close", "free"}
        /\ pc[c] \in {"query", "switch"} => Name[handle[c]] = request[c].name
        /\ status[c] = "ERROR_NONE" => pc[c] \in {"idle", "close", "free", "unlock"}

\* The kernel gives a name to one device at a time.
OneName == \A d, e \in present : Name[d] = Name[e] => d = e

\* What a call knows of a device which has been plugged in since it took the lock.
Progress(c) ==
    LET d == target[c]
    IN  /\ d \in present /\ pc[c] \in Inside /\ Name[d] = request[c].name
        /\ pc[c] = "open" => d \in list[c]
        /\ pc[c] \in {"query", "switch"} => handle[c] = d
        /\ pc[c] = "switch" => ~AsWanted(c, d)
        /\ pc[c] \in {"close", "free", "unlock"} => status[c] = "ERROR_NONE"

Steady == \A c \in Clients : target[c] # None => Progress(c)

Inv == TypeOK /\ Owner /\ Locals /\ OneName /\ Steady

USE DriverControlAssumption

LEMMA InitInv == Init => Inv
  BY DEF Init, Inv, TypeOK, Owner, Locals, OneName, Steady, Requests, Answers, Places, Inside

LEMMA PlugInv == ASSUME Inv, NEW d \in Devices, Plug(d) PROVE Inv'
<1>1. TypeOK'
  BY DEF Inv, TypeOK, Plug, Goto, busVars, localVars, Places, Requests, Answers, NamedNow, Locals
<1>2. Owner'
  BY DEF Inv, TypeOK, Owner, Plug, Goto, Inside, busVars, localVars
<1>3. Locals'
  BY DEF Inv, TypeOK, Locals, Plug, Goto, Inside, busVars, localVars, Answers
<1>4. OneName'
  BY DEF Inv, TypeOK, OneName, Plug, Goto, busVars, localVars
<1>5. Steady'
  BY DEF Inv, TypeOK, Owner, Locals, OneName, Steady, Progress, AsWanted, Plug, Goto, Inside,
         NamedNow, busVars, localVars
<1> QED
  BY <1>1, <1>2, <1>3, <1>4, <1>5 DEF Inv

LEMMA UnplugInv == ASSUME Inv, NEW d \in Devices, Unplug(d) PROVE Inv'
<1>1. TypeOK'
  BY DEF Inv, TypeOK, Unplug, Disturb, Goto, busVars, localVars, Places, Requests, Answers,
         NamedNow, Locals
<1>2. Owner'
  BY DEF Inv, TypeOK, Owner, Unplug, Disturb, Goto, Inside, busVars, localVars
<1>3. Locals'
  BY DEF Inv, TypeOK, Locals, Unplug, Disturb, Goto, Inside, busVars, localVars, Answers
<1>4. OneName'
  BY DEF Inv, TypeOK, OneName, Unplug, Disturb, Goto, busVars, localVars
<1>5. Steady'
  BY DEF Inv, TypeOK, Owner, Locals, OneName, Steady, Progress, AsWanted, Unplug, Disturb,
         Goto, Inside, NamedNow, busVars, localVars
<1> QED
  BY <1>1, <1>2, <1>3, <1>4, <1>5 DEF Inv

LEMMA ForeignSwitchInv == ASSUME Inv, NEW d \in Devices, ForeignSwitch(d) PROVE Inv'
<1>1. TypeOK'
  BY DEF Inv, TypeOK, ForeignSwitch, Disturb, Goto, busVars, localVars, Places, Requests,
         Answers, NamedNow, Locals
<1>2. Owner'
  BY DEF Inv, TypeOK, Owner, ForeignSwitch, Disturb, Goto, Inside, busVars, localVars
<1>3. Locals'
  BY DEF Inv, TypeOK, Locals, ForeignSwitch, Disturb, Goto, Inside, busVars, localVars, Answers
<1>4. OneName'
  BY DEF Inv, TypeOK, OneName, ForeignSwitch, Disturb, Goto, busVars, localVars
<1>5. Steady'
  BY DEF Inv, TypeOK, Owner, Locals, OneName, Steady, Progress, AsWanted, ForeignSwitch,
         Disturb, Goto, Inside, NamedNow, busVars, localVars
<1> QED
  BY <1>1, <1>2, <1>3, <1>4, <1>5 DEF Inv

LEMMA EnterInv == ASSUME Inv, NEW c \in Clients, Enter(c) PROVE Inv'
<1>1. TypeOK'
  BY DEF Inv, TypeOK, Enter, Goto, busVars, localVars, Places, Requests, Answers, NamedNow, Locals
<1>2. Owner'
  BY DEF Inv, TypeOK, Owner, Enter, Goto, Inside, busVars, localVars
<1>3. Locals'
  BY DEF Inv, TypeOK, Locals, Enter, Goto, Inside, busVars, localVars, Answers
<1>4. OneName'
  BY DEF Inv, TypeOK, OneName, Enter, Goto, busVars, localVars
<1>5. Steady'
  BY DEF Inv, TypeOK, Owner, Locals, OneName, Steady, Progress, AsWanted, Enter, Goto, Inside,
         NamedNow, busVars, localVars
<1> QED
  BY <1>1, <1>2, <1>3, <1>4, <1>5 DEF Inv

LEMMA LockInv == ASSUME Inv, NEW c \in Clients, Lock(c) PROVE Inv'
<1>1. TypeOK'
  BY DEF Inv, TypeOK, Lock, Goto, busVars, localVars, Places, Requests, Answers, NamedNow, Locals
<1>2. Owner'
  BY DEF Inv, TypeOK, Owner, Lock, Goto, Inside, busVars, localVars
<1>3. Locals'
  BY DEF Inv, TypeOK, Locals, Lock, Goto, Inside, busVars, localVars, Answers
<1>4. OneName'
  BY DEF Inv, TypeOK, OneName, Lock, Goto, busVars, localVars
<1>5. Steady'
  BY DEF Inv, TypeOK, Owner, Locals, OneName, Steady, Progress, AsWanted, Lock, Goto, Inside,
         NamedNow, busVars, localVars
<1> QED
  BY <1>1, <1>2, <1>3, <1>4, <1>5 DEF Inv

LEMMA GetDeviceListInv == ASSUME Inv, NEW c \in Clients, GetDeviceList(c) PROVE Inv'
<1>1. TypeOK'
  BY DEF Inv, TypeOK, GetDeviceList, Fail, Goto, busVars, localVars, Places, Requests, Answers,
         NamedNow, Locals
<1>2. Owner'
  BY DEF Inv, TypeOK, Owner, GetDeviceList, Fail, Goto, Inside, busVars, localVars
<1>3. Locals'
  BY DEF Inv, TypeOK, Locals, GetDeviceList, Fail, Goto, Inside, busVars, localVars, Answers
<1>4. OneName'
  BY DEF Inv, TypeOK, OneName, GetDeviceList, Fail, Goto, busVars, localVars
<1>5. Steady'
  BY DEF Inv, TypeOK, Owner, Locals, OneName, Steady, Progress, AsWanted, GetDeviceList, Fail,
         Goto, Inside, NamedNow, busVars, localVars
<1> QED
  BY <1>1, <1>2, <1>3, <1>4, <1>5 DEF Inv

LEMMA OpenInv == ASSUME Inv, NEW c \in Clients, Open(c) PROVE Inv'
<1>1. TypeOK'
  BY DEF Inv, TypeOK, Open, Fail, Candidates, Goto, busVars, localVars, Places, Requests,
         Answers, NamedNow, Locals
<1>2. Owner'
  BY DEF Inv, TypeOK, Owner, Open, Fail, Candidates, Goto, Inside, busVars, localVars
<1>3. Locals'
  BY DEF Inv, TypeOK, Locals, Open, Fail, Candidates, Goto, Inside, busVars, localVars, Answers
<1>4. OneName'
  BY DEF Inv, TypeOK, OneName, Open, Fail, Candidates, Goto, busVars, localVars
<1>5. Steady'
  BY DEF Inv, TypeOK, Owner, Locals, OneName, Steady, Progress, AsWanted, Open, Fail,
         Candidates, Goto, Inside, NamedNow, busVars, localVars
<1> QED
  BY <1>1, <1>2, <1>3, <1>4, <1>5 DEF Inv

LEMMA QueryInv == ASSUME Inv, NEW c \in Clients, Query(c) PROVE Inv'
<1>1. TypeOK'
  BY DEF Inv, TypeOK, Query, QueryOrElse, Fail, Goto, busVars, localVars, Places, Requests,
         Answers, NamedNow, Locals
<1>2. Owner'
  BY DEF Inv, TypeOK, Owner, Query, QueryOrElse, Fail, Goto, Inside, busVars, localVars
<1>3. Locals'
  BY DEF Inv, TypeOK, Locals, Query, QueryOrElse, Fail, Goto, Inside, busVars, localVars, Answers
<1>4. OneName'
  BY DEF Inv, TypeOK, OneName, Query, QueryOrElse, Fail, Goto, busVars, localVars
<1>5. Steady'
  BY DEF Inv, TypeOK, Owner, Locals, OneName, Steady, Progress, AsWanted, Query, QueryOrElse,
         Fail, Goto, Inside, NamedNow, busVars, localVars
<1> QED
  BY <1>1, <1>2, <1>3, <1>4, <1>5 DEF Inv

LEMMA SwitchInv == ASSUME Inv, NEW c \in Clients, Switch(c) PROVE Inv'
<1>1. TypeOK'
  BY DEF Inv, TypeOK, Switch, Switched, Fail, Goto, busVars, localVars, Places, Requests,
         Answers, NamedNow, Locals
<1>2. Owner'
  BY DEF Inv, TypeOK, Owner, Switch, Switched, Fail, Goto, Inside, busVars, localVars
<1>3. Locals'
  BY DEF Inv, TypeOK, Locals, Switch, Switched, Fail, Goto, Inside, busVars, localVars, Answers
<1>4. OneName'
  BY DEF Inv, TypeOK, OneName, Switch, Switched, Fail, Goto, busVars, localVars
<1>5. Steady'
  BY DEF Inv, TypeOK, Owner, Locals, OneName, Steady, Progress, AsWanted, Switch, Switched,
         Fail, Goto, Inside, NamedNow, busVars, localVars
<1> QED
  BY <1>1, <1>2, <1>3, <1>4, <1>5 DEF Inv

LEMMA CloseInv == ASSUME Inv, NEW c \in Clients, Close(c) PROVE Inv'
<1>1. TypeOK'
  BY DEF Inv, TypeOK, Close, Goto, busVars, localVars, Places, Requests, Answers, NamedNow, Locals
<1>2. Owner'
  BY DEF Inv, TypeOK, Owner, Close, Goto, Inside, busVars, localVars
<1>3. Locals'
  BY DEF Inv, TypeOK, Locals, Close, Goto, Inside, busVars, localVars, Answers
<1>4. OneName'
  BY DEF Inv, TypeOK, OneName, Close, Goto, busVars, localVars
<1>5. Steady'
  BY DEF Inv, TypeOK, Owner, Locals, OneName, Steady, Progress, AsWanted, Close, Goto, Inside,
         NamedNow, busVars, localVars
<1> QED
  BY <1>1, <1>2, <1>3, <1>4, <1>5 DEF Inv

LEMMA FreeInv == ASSUME Inv, NEW c \in Clients, Free(c) PROVE Inv'
<1>1. TypeOK'
  BY DEF Inv, TypeOK, Free, Goto, busVars, localVars, Places, Requests, Answers, NamedNow, Locals
<1>2. Owner'
  BY DEF Inv, TypeOK, Owner, Free, Goto, Inside, busVars, localVars
<1>3. Locals'
  BY DEF Inv, TypeOK, Locals, Free, Goto, Inside, busVars, localVars, Answers
<1>4. OneName'
  BY DEF Inv, TypeOK, OneName, Free, Goto, busVars, localVars
<1>5. Steady'
  BY DEF Inv, TypeOK, Owner, Locals, OneName, Steady, Progress, AsWanted, Free, Goto, Inside,
         NamedNow, busVars, localVars
<1> QED
  BY <1>1, <1>2, <1>3, <1>4, <1>5 DEF Inv

LEMMA UnlockInv == ASSUME Inv, NEW c \in Clients, Unlock(c) PROVE Inv'
<1>1. TypeOK'
  BY DEF Inv, TypeOK, Unlock, Goto, busVars, localVars, Places, Requests, Answers, NamedNow,
         Locals
<1>2. Owner'
  BY DEF Inv, TypeOK, Owner, Unlock, Goto, Inside, busVars, localVars
<1>3. Locals'
  BY DEF Inv, TypeOK, Locals, Unlock, Goto, Inside, busVars, localVars, Answers
<1>4. OneName'
  BY DEF Inv, TypeOK, OneName, Unlock, Goto, busVars, localVars
<1>5. Steady'
  BY DEF Inv, TypeOK, Owner, Locals, OneName, Steady, Progress, AsWanted, Unlock, Goto, Inside,
         NamedNow, busVars, localVars
<1> QED
  BY <1>1, <1>2, <1>3, <1>4, <1>5 DEF Inv

LEMMA StepInv == Inv /\ [Next]_vars => Inv'
<1> SUFFICES ASSUME Inv, [Next]_vars PROVE Inv'
  OBVIOUS
<1>1. ASSUME NEW d \in Devices, Plug(d) \/ Unplug(d) \/ ForeignSwitch(d) PROVE Inv'
  BY <1>1, PlugInv, UnplugInv, ForeignSwitchInv
<1>2. ASSUME NEW c \in Clients, Enter(c) PROVE Inv'
  BY <1>2, EnterInv
<1>3. ASSUME NEW c \in Clients, Serve(c) PROVE Inv'
  BY <1>3, LockInv, GetDeviceListInv, OpenInv, QueryInv, SwitchInv, CloseInv, FreeInv,
     UnlockInv DEF Serve
<1>4. CASE UNCHANGED vars
  BY <1>4 DEF Inv, TypeOK, Owner, Locals, OneName, Steady, Progress, AsWanted, vars,
     busVars, localVars
<1> QED
  BY <1>1, <1>2, <1>3, <1>4 DEF Next, Quiescent

\* Inv holds in every state, for any clients, devices and names.
THEOREM Invariance == Spec => []Inv
<1>1. Init => Inv
  BY InitInv
<1>2. Inv /\ [Next]_vars => Inv'
  BY StepInv
<1> QED
  BY <1>1, <1>2, PTL DEF Spec

-----------------------------------------------------------------------------
(* The properties.                                                         *)

\* A call has a request, and no null handle is passed to libusb.
THEOREM TypeCorrect == Spec => []TypeOK
<1>1. Inv => TypeOK
  BY DEF Inv
<1> QED
  BY <1>1, Invariance, PTL

\* A call which does not hold _adminLock has no handle open and no device
\* referenced: every path through BindDriver and UnbindDriver gives them back.
THEOREM NothingKept == Spec => []ResourcesReturned
<1>1. Inv => ResourcesReturned
  BY DEF Inv, Owner, Locals, Inside, ResourcesReturned
<1> QED
  BY <1>1, Invariance, PTL

\* A call on a device which stays plugged in, and which neither libusb nor other
\* programs disturb, succeeds, whatever other calls run.
THEOREM NeverSpurious == Spec => []NoSpuriousFailure
<1>1. Inv => NoSpuriousFailure
  BY DEF Inv, Steady, Progress, NoSpuriousFailure
<1> QED
  BY <1>1, Invariance, PTL

-----------------------------------------------------------------------------
(* Every step is one of DriverState or changes nothing there. A call takes *)
(* effect when the query finds the driver as wanted, or when the attach or *)
(* the detach succeeds.                                                    *)

LEMMA InitRefines == Init => Atomically!Init
  BY DEF Init, Atomically!Init

LEMMA BusRefines ==
    ASSUME Inv, NEW d \in Devices, Plug(d) \/ Unplug(d) \/ ForeignSwitch(d)
    PROVE  Atomically!Next
<1>1. CASE Plug(d)
  BY <1>1 DEF Plug, localVars, Atomically!Next, Atomically!Plug
<1>2. CASE Unplug(d)
  BY <1>2 DEF Unplug, localVars, Atomically!Next, Atomically!Unplug
<1>3. CASE ForeignSwitch(d)
  BY <1>3 DEF ForeignSwitch, localVars, Atomically!Next, Atomically!ForeignSwitch
<1> QED
  BY <1>1, <1>2, <1>3

LEMMA QueryRefines ==
    ASSUME Inv, NEW c \in Clients, Query(c)
    PROVE  Atomically!TakeEffect(c) \/ UNCHANGED Atomically!vars
<1>1. CASE /\ handle[c] \in present /\ AsWanted(c, handle[c])
           /\ status' = [status EXCEPT ![c] = "ERROR_NONE"]
  <2>1. pc[c] = "query" /\ UNCHANGED <<busVars, request>>
    BY DEF Query, QueryOrElse, Goto
  <2>2. /\ request[c] # None /\ status[c] = "ERROR_GENERAL"
        /\ Name[handle[c]] = request[c].name
    BY <2>1 DEF Inv, TypeOK, Locals, Answers
  <2>3. bound' = IF request[c].op = "BindDriver" THEN bound \cup {handle[c]}
                                                 ELSE bound \ {handle[c]}
    BY <1>1, <2>1 DEF AsWanted, busVars
  <2> QED
    BY <1>1, <2>1, <2>2, <2>3 DEF Atomically!TakeEffect, busVars
<1>2. CASE UNCHANGED status
  BY <1>2 DEF Query, QueryOrElse, busVars, Atomically!vars
<1> QED
  BY <1>1, <1>2 DEF Query, QueryOrElse

LEMMA SwitchRefines ==
    ASSUME Inv, NEW c \in Clients, Switch(c)
    PROVE  Atomically!TakeEffect(c) \/ UNCHANGED Atomically!vars
<1>1. CASE /\ handle[c] \in present /\ ~AsWanted(c, handle[c])
           /\ bound' = IF handle[c] \in bound THEN bound \ {handle[c]}
                                              ELSE bound \cup {handle[c]}
           /\ status' = [status EXCEPT ![c] = "ERROR_NONE"]
  <2>1. pc[c] = "switch" /\ UNCHANGED <<present, gone, foreign, request>>
    BY DEF Switch, Goto
  <2>2. /\ request[c] # None /\ status[c] = "ERROR_GENERAL"
        /\ Name[handle[c]] = request[c].name
    BY <2>1 DEF Inv, TypeOK, Locals, Answers
  <2>3. bound' = IF request[c].op = "BindDriver" THEN bound \cup {handle[c]}
                                                 ELSE bound \ {handle[c]}
    BY <1>1 DEF AsWanted
  <2> QED
    BY <1>1, <2>1, <2>2, <2>3 DEF Atomically!TakeEffect
<1>2. CASE UNCHANGED <<bound, status>>
  BY <1>2 DEF Switch, Switched, Atomically!vars
<1> QED
  BY <1>1, <1>2 DEF Switch, Switched

LEMMA CallRefines ==
    ASSUME Inv, NEW c \in Clients, Enter(c) \/ Serve(c)
    PROVE  Atomically!Next \/ UNCHANGED Atomically!vars
<1>1. CASE Enter(c)
  <2>1. request[c] = None
    BY <1>1 DEF Enter, Goto, Inv, Locals
  <2>2. Atomically!Call(c)
    BY <1>1, <2>1 DEF Enter, busVars, Requests, Atomically!Call, Atomically!Requests
  <2> QED
    BY <2>2 DEF Atomically!Next
<1>2. CASE Query(c) \/ Switch(c)
  BY <1>2, QueryRefines, SwitchRefines DEF Atomically!Next
<1>3. CASE Unlock(c)
  <2>1. request[c] # None
    BY <1>3 DEF Unlock, Goto, Inv, TypeOK
  <2>2. Atomically!Return(c)
    BY <1>3, <2>1 DEF Unlock, busVars, Atomically!Return
  <2> QED
    BY <2>2 DEF Atomically!Next
<1>4. CASE Lock(c) \/ GetDeviceList(c) \/ Open(c) \/ Close(c) \/ Free(c)
  BY <1>4 DEF Lock, GetDeviceList, Open, Close, Free, busVars, localVars, Atomically!vars
<1> QED
  BY <1>1, <1>2, <1>3, <1>4 DEF Serve

\* BindDriver and UnbindDriver are atomic: an answer ERROR_NONE is about one moment
\* at which a device with the name was plugged in, and ERROR_GENERAL changed nothing.
THEOREM DriversAtomic == Spec => ImplementsDriverState
<1>1. Init => Atomically!Init
  BY InitRefines
<1>2. Inv /\ [Next]_vars => [Atomically!Next]_(Atomically!vars)
  <2> SUFFICES ASSUME Inv, [Next]_vars
               PROVE  Atomically!Next \/ UNCHANGED Atomically!vars
    OBVIOUS
  <2>1. ASSUME NEW d \in Devices, Plug(d) \/ Unplug(d) \/ ForeignSwitch(d)
        PROVE  Atomically!Next
    BY <2>1, BusRefines
  <2>2. ASSUME NEW c \in Clients, Enter(c) \/ Serve(c)
        PROVE  Atomically!Next \/ UNCHANGED Atomically!vars
    BY <2>2, CallRefines
  <2>3. CASE UNCHANGED vars
    BY <2>3 DEF vars, busVars, localVars, Atomically!vars
  <2> QED
    BY <2>1, <2>2, <2>3 DEF Next, Quiescent
<1> QED
  BY <1>1, <1>2, Invariance, PTL DEF Spec, ImplementsDriverState, Atomically!Spec
=============================================================================
