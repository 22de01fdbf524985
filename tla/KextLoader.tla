------------------------------ MODULE KextLoader ------------------------------
(***************************************************************************)
(* The host program kext_loader: its single-threaded event loop, the two   *)
(* IOKit notification iterators it drains, the opening and closing of      *)
(* pongoOS USB devices, and the list of devices it tracks.                 *)
(*                                                                         *)
(* A service is one attachment of one device: unplugging ends it and       *)
(* plugging the device in again is another service.  IOKit is external and *)
(* modelled from how kext_loader.c uses it: a notification iterator holds  *)
(* the services not yet handed out, an iterator that was read to its end   *)
(* is armed, and an arrival at an armed iterator sends one message to the  *)
(* notification port and disarms the iterator.                             *)
(*                                                                         *)
(* What is uploaded to an opened device is the subject of LoadSession;     *)
(* here a load is the time during which the loop is busy with one device.  *)
(***************************************************************************)
EXTENDS Naturals, Sequences

CONSTANTS
    Services,    \* the attachments that may happen
    MaxTries,    \* PONGO_USB_OPEN_MAX_TRIES
    NoService    \* IO_OBJECT_NULL

ASSUME MaxTriesAssumption == MaxTries \in Nat
ASSUME NoServiceAssumption == NoService \notin Services

VARIABLES
    phase,          \* [Services -> Phases]: what the cable did
    addedQ,         \* services waiting in the first-match iterator
    removedQ,       \* services waiting in the termination iterator
    addedArmed,     \* the first-match iterator will send a message
    removedArmed,   \* the termination iterator will send a message
    msgs,           \* messages waiting on the notification port
    pc,             \* where the loader is
    caller,         \* who called the handler that is running
    cur,            \* the service pongo_device_added is working on
    try,            \* the counter of the retry loop that is running
    usb,            \* [Services -> SUBSET Handles]: handles held per device
    instances,      \* [Services -> Nat]: pongo_instance records per service
    held            \* resources pongo_usb_kext_loader holds

ioVars   == <<addedQ, removedQ, addedArmed, removedArmed, msgs>>
openVars == <<cur, try, usb, instances>>
vars     == <<phase, ioVars, pc, caller, openVars, held>>

Phases  == {"absent", "attached", "gone"}
Kinds   == {"added", "removed"}
Handles == {"device", "device_open", "interface", "interface_open"}
Resources == {"kq", "port_set", "notify_port", "added_iter", "removed_iter"}

SetupLabels == {"kqueue", "port_set", "kevent_add", "notify_port",
                "match_added", "match_removed"}
OpenLabels  == {"plugin", "device_open", "find_interface",
                "interface_plugin", "interface_open", "async_port"}
LoopLabels  == {"kevent", "drain"}
Labels == SetupLabels \cup OpenLabels \cup LoopLabels
            \cup {"next_added", "load", "next_removed", "exit"}

-----------------------------------------------------------------------------
(* The environment: cables, and IOKit's notifications about them.          *)

\* The state of the notification port after an arrival at an iterator.
Arrival(kind, armed) == IF armed THEN Append(msgs, kind) ELSE msgs

\* A pongoOS device is attached.
Attach(s) ==
    /\ phase[s] = "absent"
    /\ phase' = [phase EXCEPT ![s] = "attached"]
    /\ IF "added_iter" \in held
       THEN /\ addedQ' = addedQ \cup {s}
            /\ msgs' = Arrival("added", addedArmed)
            /\ addedArmed' = FALSE
       ELSE UNCHANGED <<addedQ, msgs, addedArmed>>
    /\ UNCHANGED <<removedQ, removedArmed, pc, caller, openVars, held>>

\* A pongoOS device goes away: unplugged, or it left pongoOS to boot XNU.
Detach(s) ==
    /\ phase[s] = "attached"
    /\ phase' = [phase EXCEPT ![s] = "gone"]
    /\ IF "removed_iter" \in held
       THEN /\ removedQ' = removedQ \cup {s}
            /\ msgs' = Arrival("removed", removedArmed)
            /\ removedArmed' = FALSE
       ELSE UNCHANGED <<removedQ, msgs, removedArmed>>
    /\ UNCHANGED <<addedQ, addedArmed, pc, caller, openVars, held>>

-----------------------------------------------------------------------------
(* pongo_usb_kext_loader: set-up, and the clean-up ladder fail_5 .. fail_0. *)

\* Mutant: fail_4 no longer releases the first-match iterator.
Mut_ReleasedFrom(k) ==
    {r \in Resources :
        \/ k >= 1 /\ r = "kq"
        \/ k >= 2 /\ r = "port_set"
        \/ k >= 3 /\ r = "notify_port"
        \/ k >= 5 /\ r \in {"added_iter", "removed_iter"}}

\* What the labels from fail_k down to fail_0 release.
ReleasedFrom(k) ==
    {r \in Resources :
        \/ k >= 1 /\ r = "kq"
        \/ k >= 2 /\ r = "port_set"
        \/ k >= 3 /\ r = "notify_port"
        \/ k >= 4 /\ r = "added_iter"
        \/ k >= 5 /\ r = "removed_iter"}

\* goto fail_k, with the resources that are held at that point.  No label closes
\* the devices that are tracked: their instances and handles stay as they are.
Fail(k, resources) ==
    /\ held' = resources \ ReleasedFrom(k)
    /\ pc' = "exit"
    /\ addedQ' = {}
    /\ removedQ' = {}
    /\ addedArmed' = FALSE
    /\ removedArmed' = FALSE
    /\ msgs' = <<>>
    /\ UNCHANGED <<phase, caller, openVars>>

\* One call of the set-up sequence that acquires a resource or fails.
Acquire(label, resource, next, k) ==
    /\ pc = label
    /\ \/ /\ held' = held \cup {resource}
          /\ pc' = next
          /\ UNCHANGED <<phase, ioVars, caller, openVars>>
       \/ Fail(k, held)

OpenKqueue      == Acquire("kqueue", "kq", "port_set", 0)
AllocatePortSet == Acquire("port_set", "port_set", "kevent_add", 1)

AddPortSetToKqueue ==
    /\ pc = "kevent_add"
    /\ \/ /\ pc' = "notify_port"
          /\ UNCHANGED <<phase, ioVars, caller, openVars, held>>
       \/ Fail(2, held)

\* IONotificationPortCreate cannot fail here; inserting the port can.
CreateNotifyPort ==
    /\ pc = "notify_port"
    /\ LET now == held \cup {"notify_port"} IN
       \/ /\ held' = now
          /\ pc' = "match_added"
          /\ UNCHANGED <<phase, ioVars, caller, openVars>>
       \/ Fail(3, now)

\* First-match notifications also report the devices already attached.
MatchAdded ==
    /\ pc = "match_added"
    /\ \/ /\ held' = held \cup {"added_iter"}
          /\ addedQ' = {s \in Services : phase[s] = "attached"}
          /\ pc' = "match_removed"
          /\ UNCHANGED <<phase, removedQ, addedArmed, removedArmed, msgs,
                         caller, openVars>>
       \/ Fail(3, held)

MatchRemoved ==
    /\ pc = "match_removed"
    /\ \/ /\ held' = held \cup {"removed_iter"}
          /\ pc' = "next_added"
          /\ caller' = "arm"
          /\ UNCHANGED <<phase, ioVars, openVars>>
       \/ Fail(4, held)

-----------------------------------------------------------------------------
(* pongo_device_added, and pongo_usb_open with its ladder fail_4 .. fail_0. *)

\* Mutant: the handler returns after a load instead of draining.
Mut_LoadDone ==
    /\ pc = "load"
    /\ pc' = IF caller = "arm" THEN "next_removed" ELSE "drain"
    /\ cur' = NoService
    /\ UNCHANGED <<phase, ioVars, caller, try, usb, instances, held>>

\* IOIteratorNext: the next service, or the end, which arms the iterator.
NextAdded ==
    /\ pc = "next_added"
    /\ \/ \E s \in addedQ :
            /\ addedQ' = addedQ \ {s}
            /\ cur' = s
            /\ pc' = "plugin"
            /\ UNCHANGED addedArmed
       \/ /\ addedQ = {}
          /\ addedArmed' = TRUE
          /\ pc' = IF caller = "arm" THEN "next_removed" ELSE "drain"
          /\ UNCHANGED <<addedQ, cur>>
    /\ UNCHANGED <<phase, removedQ, removedArmed, msgs, caller, try, usb,
                   instances, held>>

\* Mutant: fail_2 no longer closes the device it opened.
Mut_ClosedFrom(k) ==
    {h \in Handles :
        \/ k >= 1 /\ h = "device"
        \/ k >= 3 /\ h \in {"device_open", "interface"}
        \/ k >= 4 /\ h = "interface_open"}

\* What the labels from fail_k down to fail_0 of pongo_usb_open close.
ClosedFrom(k) ==
    {h \in Handles :
        \/ k >= 1 /\ h = "device"
        \/ k >= 2 /\ h = "device_open"
        \/ k >= 3 /\ h = "interface"
        \/ k >= 4 /\ h = "interface_open"}

\* goto fail_k in pongo_usb_open; no instance is created.
OpenFail(k) ==
    /\ usb' = [usb EXCEPT ![cur] = @ \ ClosedFrom(k)]
    /\ pc' = "next_added"
    /\ cur' = NoService
    /\ UNCHANGED <<phase, ioVars, caller, try, instances, held>>

\* A call of pongo_usb_open that succeeds.
Opened(handle, next) ==
    /\ usb' = [usb EXCEPT ![cur] = @ \cup {handle}]
    /\ pc' = next
    /\ try' = 0
    /\ UNCHANGED <<phase, ioVars, caller, cur, instances, held>>

\* Mutant: the bound is tested with > instead of >=.
Mut_RetryOr(k) ==
    \/ /\ try > MaxTries
       /\ OpenFail(k)
    \/ /\ try <= MaxTries
       /\ try' = try + 1
       /\ UNCHANGED <<phase, ioVars, pc, caller, cur, usb, instances, held>>

\* The tail of both retry loops: give up, or sleep and try again.
RetryOr(k) ==
    \/ /\ try >= MaxTries
       /\ OpenFail(k)
    \/ /\ try < MaxTries
       /\ try' = try + 1
       /\ UNCHANGED <<phase, ioVars, pc, caller, cur, usb, instances, held>>

\* IOCreatePlugInInterfaceForService and QueryInterface for the device.
CreateDevicePlugin ==
    /\ pc = "plugin"
    /\ Opened("device", "device_open") \/ OpenFail(0)

\* USBDeviceOpen; only a device that is still attached can be opened.
USBDeviceOpen ==
    /\ pc = "device_open"
    /\ \/ phase[cur] = "attached" /\ Opened("device_open", "find_interface")
       \/ RetryOr(1)

\* CreateInterfaceIterator fails, finds the interface, or finds none yet.
FindInterface ==
    /\ pc = "find_interface"
    /\ \/ /\ pc' = "interface_plugin"
          /\ UNCHANGED <<phase, ioVars, caller, openVars, held>>
       \/ OpenFail(2)
       \/ RetryOr(2)

CreateInterfacePlugin ==
    /\ pc = "interface_plugin"
    /\ Opened("interface", "interface_open") \/ OpenFail(2)

USBInterfaceOpen ==
    /\ pc = "interface_open"
    /\ \/ phase[cur] = "attached" /\ Opened("interface_open", "async_port")
       \/ OpenFail(3)

\* pongo_instance_create links a new instance in at the head of the list.
LinkInstance(s) == instances' = [instances EXCEPT ![s] = @ + 1]

\* GetNumEndpoints, CreateInterfaceAsyncPort and mach_port_insert_member;
\* when they succeed, so does pongo_usb_open, and the instance is created.
CreateInstance ==
    /\ pc = "async_port"
    /\ \/ /\ LinkInstance(cur)
          /\ pc' = "load"
          /\ UNCHANGED <<phase, ioVars, caller, cur, try, usb, held>>
       \/ OpenFail(4)

\* pongo_instance_load_kext returns; its result is ignored.
LoadDone ==
    /\ pc = "load"
    /\ pc' = "next_added"
    /\ cur' = NoService
    /\ UNCHANGED <<phase, ioVars, caller, try, usb, instances, held>>

-----------------------------------------------------------------------------
(* pongo_device_removed with pongo_instance_destroy and pongo_usb_close.   *)

\* Mutant: the search loop misses the instance of the service.
Mut_Destroy(s) == UNCHANGED <<instances, usb>>

\* Mutant: the head of the list is unlinked without comparing services.
Mut_DestroyHead(s) ==
    \/ \E t \in Services :
        /\ instances[t] > 0
        /\ instances' = [instances EXCEPT ![t] = @ - 1]
        /\ usb' = [usb EXCEPT ![t] = {}]
    \/ /\ \A t \in Services : instances[t] = 0
       /\ UNCHANGED <<instances, usb>>

\* pongo_usb_close: close and release the interface and the device.
Close(s) == usb' = [usb EXCEPT ![s] = {}]

\* Unlink the first instance of the service, close its device and free it;
\* without such an instance nothing happens.
Destroy(s) ==
    IF instances[s] > 0
    THEN /\ instances' = [instances EXCEPT ![s] = @ - 1]
         /\ Close(s)
    ELSE UNCHANGED <<instances, usb>>

\* Mutant: the handler returns after one service instead of draining.
Mut_NextRemoved ==
    /\ pc = "next_removed"
    /\ \/ \E s \in removedQ :
            /\ removedQ' = removedQ \ {s}
            /\ Destroy(s)
            /\ pc' = IF caller = "arm" THEN "kevent" ELSE "drain"
            /\ UNCHANGED removedArmed
       \/ /\ removedQ = {}
          /\ removedArmed' = TRUE
          /\ pc' = IF caller = "arm" THEN "kevent" ELSE "drain"
          /\ UNCHANGED <<removedQ, instances, usb>>
    /\ UNCHANGED <<phase, addedQ, addedArmed, msgs, caller, cur, try, held>>

NextRemoved ==
    /\ pc = "next_removed"
    /\ \/ \E s \in removedQ :
            /\ removedQ' = removedQ \ {s}
            /\ Destroy(s)
            /\ UNCHANGED <<pc, removedArmed>>
       \/ /\ removedQ = {}
          /\ removedArmed' = TRUE
          /\ pc' = IF caller = "arm" THEN "kevent" ELSE "drain"
          /\ UNCHANGED <<removedQ, instances, usb>>
    /\ UNCHANGED <<phase, addedQ, addedArmed, msgs, caller, cur, try, held>>

-----------------------------------------------------------------------------
(* The main loop and handle_notification_message.                          *)

\* kevent returns an event because a message waits.  A return of zero events
\* changes nothing.
WaitKevent ==
    /\ pc = "kevent"
    /\ msgs # <<>>
    /\ pc' = "drain"
    /\ UNCHANGED <<phase, ioVars, caller, openVars, held>>

\* kevent fails: the loop ends, and with it the program.
KeventFails ==
    /\ pc = "kevent"
    /\ Fail(5, held)

\* mach_msg receives a message and IODispatchCalloutFromMessage calls the
\* handler registered for it.
Dispatch ==
    /\ pc = "drain"
    /\ msgs # <<>>
    /\ msgs' = Tail(msgs)
    /\ pc' = IF Head(msgs) = "added" THEN "next_added" ELSE "next_removed"
    /\ caller' = "dispatch"
    /\ UNCHANGED <<phase, addedQ, removedQ, addedArmed, removedArmed,
                   openVars, held>>

\* mach_msg times out because no message is left, or fails: back to kevent.
DrainEnd ==
    /\ pc = "drain"
    /\ pc' = "kevent"
    /\ UNCHANGED <<phase, ioVars, caller, openVars, held>>

-----------------------------------------------------------------------------
Init ==
    /\ phase = [s \in Services |-> "absent"]
    /\ addedQ = {}
    /\ removedQ = {}
    /\ addedArmed = FALSE
    /\ removedArmed = FALSE
    /\ msgs = <<>>
    /\ pc = "kqueue"
    /\ caller = "arm"
    /\ cur = NoService
    /\ try = 0
    /\ usb = [s \in Services |-> {}]
    /\ instances = [s \in Services |-> 0]
    /\ held = {}

Setup ==
    \/ OpenKqueue \/ AllocatePortSet \/ AddPortSetToKqueue
    \/ CreateNotifyPort \/ MatchAdded \/ MatchRemoved

Open ==
    \/ CreateDevicePlugin \/ USBDeviceOpen \/ FindInterface
    \/ CreateInterfacePlugin \/ USBInterfaceOpen \/ CreateInstance

Loader ==
    \/ Setup \/ NextAdded \/ Open \/ LoadDone \/ NextRemoved
    \/ WaitKevent \/ Dispatch \/ DrainEnd

Environment == \E s \in Services : Attach(s) \/ Detach(s)

Next == Loader \/ KeventFails \/ Environment

\* The loader's thread keeps running, and mach_msg does not fail for ever
\* while a message waits.  Nothing makes anyone plug or unplug a device, and
\* nothing makes kevent fail.
Fairness == WF_vars(Loader) /\ SF_vars(Dispatch)

Spec == Init /\ [][Next]_vars

FairSpec == Spec /\ Fairness

-----------------------------------------------------------------------------
(* Properties.                                                             *)

TypeOK ==
    /\ phase \in [Services -> Phases]
    /\ addedQ \subseteq Services
    /\ removedQ \subseteq Services
    /\ addedArmed \in BOOLEAN
    /\ removedArmed \in BOOLEAN
    /\ msgs \in Seq(Kinds)
    /\ pc \in Labels
    /\ caller \in {"arm", "dispatch"}
    /\ cur \in Services \cup {NoService}
    /\ pc \in OpenLabels \cup {"load"} => cur \in Services
    /\ try \in 0..MaxTries
    /\ usb \in [Services -> SUBSET Handles]
    /\ instances \in [Services -> Nat]
    /\ held \subseteq Resources

\* No device is forgotten: as long as the loader runs, a device that went
\* away while an instance tracks it, or while it was being opened, still has
\* its removal waiting in the termination iterator.  The removal handler may
\* drain removals before the added handler saw the service, so this rests on
\* the order of the two drains and on what pongo_usb_open can still open.
RemovalPending ==
    pc # "exit" =>
        \A s \in Services :
            (phase[s] = "gone"
                /\ (instances[s] > 0 \/ "device_open" \in usb[s]))
            => s \in removedQ

\* A message of this kind waits on the notification port.
Queued(kind) == \E i \in DOMAIN msgs : msgs[i] = kind

\* No wake-up is lost: services left in an iterator are always followed by a
\* run of its handler: the handler is draining, it is still to be called to
\* arm the iterators, or its message waits on the notification port.
WakeupPending ==
    /\ addedQ # {} =>
         \/ Queued("added")
         \/ pc \in {"match_removed", "next_added", "load"} \cup OpenLabels
    /\ removedQ # {} =>
         \/ Queued("removed")
         \/ pc = "next_removed"
         \/ caller = "arm" /\ pc \in {"next_added", "load"} \cup OpenLabels

\* USB handles are neither leaked nor lost: a device has one instance exactly
\* when all four handles are held and its opening is over, and a device that
\* is neither tracked nor being opened holds no handle at all.
HandlesOwned ==
    \A s \in Services :
        /\ instances[s] \in {0, 1}
        /\ instances[s] = 1 => usb[s] = Handles
        /\ instances[s] = 0 /\ ~(cur = s /\ pc \in OpenLabels) => usb[s] = {}

\* What a way out of pongo_usb_kext_loader leaves behind.  Its own resources are
\* all released, and a failure of the set-up leaves no USB handle.  A failed
\* kevent does: the devices that are tracked then stay open, each with all its
\* handles, and of those only the ones whose removal was never handled are gone.
ExitLeavesTracked ==
    [][pc # "exit" /\ pc' = "exit" =>
         /\ held' = {}
         /\ \A s \in Services : usb'[s] # {} =>
              /\ pc \notin SetupLabels
              /\ instances'[s] = 1 /\ usb'[s] = Handles
              /\ phase[s] = "gone" => s \in removedQ]_vars

\* An instance is destroyed only when its device has gone away, and the
\* handles of a tracked device are never closed under it.
DestroyedOnlyWhenGone ==
    [][\A s \in Services :
         instances[s] > 0 /\ (instances'[s] < instances[s] \/ usb'[s] # usb[s])
            => phase[s] = "gone"]_vars

\* A device that went away is eventually forgotten for good, unless the loader
\* has left its loop.
GoneForgotten ==
    \A s \in Services :
        [](phase[s] = "gone" =>
              (<>(pc = "exit") \/ <>[](instances[s] = 0 /\ usb[s] = {})))

\* What the loader knows of a service, as DeviceRegistry puts it.  Before the
\* first-match iterator exists, an attached device is one it will report.
Unmatched == SetupLabels \ {"match_removed"}

StatusOf(s) ==
    IF instances[s] > 0 THEN "tracked"
    ELSE IF \/ phase[s] = "absent"
            \/ phase[s] = "attached" /\ pc \in Unmatched
            \/ s \in addedQ
            \/ cur = s /\ pc \in OpenLabels
         THEN "new"
    ELSE "closed"

Status == [s \in Services |-> StatusOf(s)]
Host   == IF pc = "exit" THEN "left" ELSE "running"

Registry == INSTANCE DeviceRegistry WITH status <- Status, host <- Host

\* The loader implements DeviceRegistry: whatever the interleaving of cables,
\* notifications, retries and failed opens, no service is taken up twice or
\* after it was given up, and none is forgotten while it is attached.
ImplementsRegistry == Registry!Spec

\* It also implements the liveness of DeviceRegistry: every device that stays
\* attached is taken up, however long the loads of other devices keep the loop
\* busy, and every tracked device that went away is forgotten.
ServesRegistry == Registry!Served /\ Registry!Forgotten

=============================================================================
