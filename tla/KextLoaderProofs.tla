-------------------------- MODULE KextLoaderProofs --------------------------
(***************************************************************************)
(* Proofs about KextLoader, for any number of attachments and any retry    *)
(* bound.  The invariants the runs check are not inductive one by one: that *)
(* a removal is not lost depends on which handles pongo_usb_open holds at   *)
(* each point, and that depends on a service being new when its opening     *)
(* starts.  IInv collects what they need.                                  *)
(***************************************************************************)
EXTENDS KextLoader, TLAPS

\* The resources pongo_usb_kext_loader holds at each point of its code.
HeldAt(l) ==
    IF l \in {"kqueue", "exit"} THEN {}
    ELSE IF l = "port_set" THEN {"kq"}
    ELSE IF l \in {"kevent_add", "notify_port"} THEN {"kq", "port_set"}
    ELSE IF l = "match_added" THEN {"kq", "port_set", "notify_port"}
    ELSE IF l = "match_removed"
         THEN {"kq", "port_set", "notify_port", "added_iter"}
    ELSE Resources

\* The handles of the device that is being opened, at each point of
\* pongo_usb_open.
HandlesAt(l) ==
    IF l = "plugin" THEN {}
    ELSE IF l = "device_open" THEN {"device"}
    ELSE IF l \in {"find_interface", "interface_plugin"}
         THEN {"device", "device_open"}
    ELSE IF l = "interface_open" THEN {"device", "device_open", "interface"}
    ELSE Handles

\* Until the set-up is over nothing is tracked and nothing is notified.
SetupInv ==
    /\ held = HeldAt(pc)
    /\ pc \in SetupLabels =>
         /\ \A s \in Services : instances[s] = 0
         /\ caller = "arm"
         /\ ~addedArmed /\ ~removedArmed

\* The device that is being opened is a new one, and holds what the code at
\* that point has acquired.
OpeningInv ==
    pc \in OpenLabels =>
        /\ usb[cur] = HandlesAt(pc)
        /\ instances[cur] = 0
        /\ cur \notin addedQ
        /\ phase[cur] # "absent"

\* A service reaches pongo_device_added at most once, and before it the loader
\* knows nothing of it; only a service that went away is reported as removed.
FreshInv ==
    \A s \in Services :
        /\ phase[s] = "absent" => instances[s] = 0 /\ s \notin addedQ
        /\ s \in addedQ => instances[s] = 0
        /\ s \in removedQ => phase[s] = "gone"

\* The handlers of an iterator that has services to hand out, or that is not
\* armed, will run again.
AddedWake ==
    /\ addedArmed => addedQ = {}
    /\ addedQ # {} => "added_iter" \in held
    /\ "added_iter" \in held =>
         \/ addedArmed
         \/ Queued("added")
         \/ pc \in {"match_removed", "next_added", "load"} \cup OpenLabels

RemovedWake ==
    /\ removedArmed => removedQ = {}
    /\ removedQ # {} => "removed_iter" \in held
    /\ "removed_iter" \in held =>
         \/ removedArmed
         \/ Queued("removed")
         \/ pc = "next_removed"
         \/ caller = "arm" /\ pc \in {"next_added", "load"} \cup OpenLabels

\* The inductive invariant.
IInv ==
    /\ TypeOK
    /\ SetupInv
    /\ OpeningInv
    /\ HandlesOwned
    /\ FreshInv
    /\ RemovalPending
    /\ AddedWake
    /\ RemovedWake

-----------------------------------------------------------------------------
(* The notification port: what an arrival adds and a receive takes away.   *)

\* A message that is queued stays queued when another one arrives, and the one
\* that arrives is queued.
LEMMA AppendQueued ==
    ASSUME NEW q \in Seq(Kinds), NEW e \in Kinds
    PROVE  /\ Append(q, e) \in Seq(Kinds)
           /\ \E i \in DOMAIN Append(q, e) : Append(q, e)[i] = e
           /\ \A k \in Kinds :
                (\E i \in DOMAIN q : q[i] = k)
                    => \E i \in DOMAIN Append(q, e) : Append(q, e)[i] = k
<1>1. Append(q, e) \in Seq(Kinds)
  OBVIOUS
<1>2. /\ Len(q) + 1 \in DOMAIN Append(q, e)
      /\ Append(q, e)[Len(q) + 1] = e
  OBVIOUS
<1>3. \A i \in DOMAIN q : i \in DOMAIN Append(q, e) /\ Append(q, e)[i] = q[i]
  OBVIOUS
<1> QED
  BY <1>1, <1>2, <1>3

\* Receiving a message of one kind leaves the queued ones of the other kind.
LEMMA TailQueued ==
    ASSUME NEW q \in Seq(Kinds), q # <<>>
    PROVE  /\ Head(q) \in Kinds
           /\ Tail(q) \in Seq(Kinds)
           /\ \A k \in Kinds \ {Head(q)} :
                (\E i \in DOMAIN q : q[i] = k)
                    => \E i \in DOMAIN Tail(q) : Tail(q)[i] = k
<1>1. Head(q) \in Kinds /\ Tail(q) \in Seq(Kinds) /\ Head(q) = q[1]
  OBVIOUS
<1>2. \A i \in DOMAIN q \ {1} :
        i - 1 \in DOMAIN Tail(q) /\ Tail(q)[i - 1] = q[i]
  OBVIOUS
<1> QED
  BY <1>1, <1>2

-----------------------------------------------------------------------------
(* The three shapes that most steps of the loader have.                    *)

\* goto fail_k of pongo_usb_kext_loader, from a point where the labels from
\* fail_k on release all that is held.
LEMMA FailStep ==
    ASSUME IInv, pc \notin OpenLabels,
           NEW k \in 0..5, NEW resources \in SUBSET ReleasedFrom(k),
           Fail(k, resources)
    PROVE  IInv'
<1> USE DEF IInv, Fail, openVars
<1>1. held' = {}
  OBVIOUS
<1>2. TypeOK'
  <2>1. addedArmed' \in BOOLEAN /\ removedArmed' \in BOOLEAN
    OBVIOUS
  <2>2. msgs' \in Seq(Kinds) /\ held' \subseteq Resources
    BY <1>1
  <2> QED
    BY <2>1, <2>2 DEF TypeOK, Labels, OpenLabels
<1>3. SetupInv'
  BY <1>1 DEF SetupInv, HeldAt, SetupLabels
<1>4. OpeningInv' /\ HandlesOwned'
  BY DEF OpeningInv, OpenLabels, HandlesOwned
<1>5. FreshInv' /\ RemovalPending'
  BY DEF FreshInv, RemovalPending
<1>6. AddedWake' /\ RemovedWake'
  BY <1>1 DEF AddedWake, RemovedWake
<1> QED
  BY <1>2, <1>3, <1>4, <1>5, <1>6

\* goto fail_k of pongo_usb_open, from a point where the labels from fail_k on
\* close all that is held.
LEMMA OpenFailStep ==
    ASSUME IInv, pc \in OpenLabels,
           NEW k \in 0..4, HandlesAt(pc) \subseteq ClosedFrom(k),
           OpenFail(k)
    PROVE  IInv'
<1> USE DEF IInv, OpenFail, ioVars
<1>0. cur \in Services /\ usb'[cur] = {}
  BY DEF TypeOK, OpeningInv
<1>1. TypeOK'
  BY DEF TypeOK, Labels, OpenLabels
<1>2. SetupInv'
  BY DEF SetupInv, HeldAt, SetupLabels, OpenLabels
<1>3. OpeningInv' /\ FreshInv'
  BY DEF OpeningInv, OpenLabels, FreshInv
<1>4. HandlesOwned'
  BY <1>0 DEF HandlesOwned, OpenLabels, TypeOK, OpeningInv
<1>5. RemovalPending'
  BY <1>0 DEF RemovalPending, OpenLabels, TypeOK
<1>6. AddedWake' /\ RemovedWake'
  BY DEF AddedWake, RemovedWake, Queued, OpenLabels
<1> QED
  BY <1>1, <1>2, <1>3, <1>4, <1>5, <1>6

\* A successful call inside pongo_usb_open: the handle it acquires is the one
\* the next point of the code holds in addition.
LEMMA OpenedStep ==
    ASSUME IInv, pc \in OpenLabels,
           NEW handle \in Handles, NEW next \in OpenLabels,
           HandlesAt(next) = HandlesAt(pc) \cup {handle},
           handle = "device_open" => phase[cur] = "attached",
           Opened(handle, next)
    PROVE  IInv'
<1> USE DEF IInv, Opened, ioVars
<1>0. /\ cur \in Services
      /\ usb'[cur] = HandlesAt(next)
      /\ \A s \in Services \ {cur} : usb'[s] = usb[s]
  BY DEF TypeOK, OpeningInv
<1>1. TypeOK'
  BY MaxTriesAssumption DEF TypeOK, Labels
<1>2. SetupInv'
  BY DEF SetupInv, HeldAt, SetupLabels, OpenLabels
<1>3. OpeningInv' /\ FreshInv'
  BY <1>0 DEF OpeningInv, FreshInv
<1>4. HandlesOwned'
  BY <1>0 DEF HandlesOwned, TypeOK, OpeningInv
<1>5. RemovalPending'
  BY <1>0 DEF RemovalPending, OpeningInv, OpenLabels
<1>6. AddedWake'
  BY DEF AddedWake
<1>7. RemovedWake'
  BY DEF RemovedWake, Queued, OpenLabels
<1> QED
  BY <1>1, <1>2, <1>3, <1>4, <1>5, <1>6, <1>7

\* The tail of a retry loop.
LEMMA RetryStep ==
    ASSUME IInv, pc \in OpenLabels,
           NEW k \in 0..4, HandlesAt(pc) \subseteq ClosedFrom(k),
           RetryOr(k)
    PROVE  IInv'
<1>1. CASE OpenFail(k)
  BY <1>1, OpenFailStep
<1>2. CASE ~OpenFail(k)
  <2> USE <1>2 DEF IInv, RetryOr, ioVars
  <2>1. TypeOK'
    BY MaxTriesAssumption DEF TypeOK
  <2>2. SetupInv' /\ OpeningInv' /\ HandlesOwned' /\ FreshInv' /\ RemovalPending'
    BY DEF SetupInv, OpeningInv, HandlesOwned, FreshInv, RemovalPending
  <2>3. AddedWake' /\ RemovedWake'
    BY DEF AddedWake, RemovedWake, Queued
  <2> QED
    BY <2>1, <2>2, <2>3
<1> QED
  BY <1>1, <1>2

-----------------------------------------------------------------------------
(* The set-up of pongo_usb_kext_loader.                                    *)

\* A set-up call that succeeds and notifies nobody.
LEMMA AcquiredStep ==
    ASSUME IInv, pc \in SetupLabels \ {"match_added", "match_removed"},
           pc' \in SetupLabels, held' = HeldAt(pc'),
           pc' # "match_removed",
           UNCHANGED <<phase, ioVars, caller, openVars>>
    PROVE  IInv'
<1> USE DEF IInv, ioVars, openVars
<1>1. TypeOK'
  BY DEF TypeOK, Labels, HeldAt, Resources, SetupLabels, OpenLabels
<1>2. SetupInv' /\ OpeningInv'
  BY DEF SetupInv, OpeningInv, SetupLabels, OpenLabels
<1>3. HandlesOwned' /\ FreshInv' /\ RemovalPending'
  BY DEF HandlesOwned, FreshInv, RemovalPending, SetupLabels, OpenLabels
<1>4. AddedWake' /\ RemovedWake'
  BY DEF AddedWake, RemovedWake, SetupInv, HeldAt, SetupLabels
<1> QED
  BY <1>1, <1>2, <1>3, <1>4

LEMMA SetupStep ==
    ASSUME IInv, Setup
    PROVE  IInv'
<1>0. held = HeldAt(pc)
  BY DEF IInv, SetupInv
<1>1. CASE OpenKqueue
  <2>1. CASE Fail(0, held)
    BY <1>0, <1>1, <2>1, FailStep
       DEF OpenKqueue, Acquire, HeldAt, ReleasedFrom, OpenLabels
  <2>2. CASE ~Fail(0, held)
    BY <1>0, <1>1, <2>2, AcquiredStep
       DEF OpenKqueue, Acquire, HeldAt, SetupLabels
  <2> QED
    BY <2>1, <2>2
<1>2. CASE AllocatePortSet
  <2>1. CASE Fail(1, held)
    BY <1>0, <1>2, <2>1, FailStep
       DEF AllocatePortSet, Acquire, HeldAt, ReleasedFrom, Resources, OpenLabels
  <2>2. CASE ~Fail(1, held)
    BY <1>0, <1>2, <2>2, AcquiredStep
       DEF AllocatePortSet, Acquire, HeldAt, SetupLabels
  <2> QED
    BY <2>1, <2>2
<1>3. CASE AddPortSetToKqueue
  <2>1. CASE Fail(2, held)
    BY <1>0, <1>3, <2>1, FailStep
       DEF AddPortSetToKqueue, HeldAt, ReleasedFrom, Resources, OpenLabels
  <2>2. CASE ~Fail(2, held)
    BY <1>0, <1>3, <2>2, AcquiredStep
       DEF AddPortSetToKqueue, HeldAt, SetupLabels
  <2> QED
    BY <2>1, <2>2
<1>4. CASE CreateNotifyPort
  <2> DEFINE now == held \cup {"notify_port"}
  <2>1. CASE Fail(3, now)
    BY <1>0, <1>4, <2>1, FailStep
       DEF CreateNotifyPort, HeldAt, ReleasedFrom, Resources, OpenLabels
  <2>2. CASE ~Fail(3, now)
    BY <1>0, <1>4, <2>2, AcquiredStep
       DEF CreateNotifyPort, HeldAt, SetupLabels
  <2> QED
    BY <2>1, <2>2
<1>5. CASE MatchAdded
  <2>1. CASE Fail(3, held)
    BY <1>0, <1>5, <2>1, FailStep
       DEF MatchAdded, HeldAt, ReleasedFrom, Resources, OpenLabels
  <2>2. CASE ~Fail(3, held)
    <3> USE <1>0, <1>5, <2>2 DEF IInv, MatchAdded, openVars
    <3>1. TypeOK'
      BY DEF TypeOK, Labels, SetupLabels, OpenLabels, HeldAt, Resources
    <3>2. SetupInv' /\ OpeningInv'
      BY DEF SetupInv, OpeningInv, SetupLabels, OpenLabels, HeldAt
    <3>3. HandlesOwned' /\ FreshInv' /\ RemovalPending'
      BY DEF HandlesOwned, FreshInv, RemovalPending, SetupInv, SetupLabels,
             OpenLabels
    <3>4. AddedWake' /\ RemovedWake'
      BY DEF AddedWake, RemovedWake, SetupInv, SetupLabels, HeldAt
    <3> QED
      BY <3>1, <3>2, <3>3, <3>4
  <2> QED
    BY <2>1, <2>2
<1>6. CASE MatchRemoved
  <2>1. CASE Fail(4, held)
    BY <1>0, <1>6, <2>1, FailStep
       DEF MatchRemoved, HeldAt, ReleasedFrom, Resources, OpenLabels
  <2>2. CASE ~Fail(4, held)
    <3> USE <1>0, <1>6, <2>2 DEF IInv, MatchRemoved, openVars, ioVars
    <3>1. TypeOK'
      BY DEF TypeOK, Labels, OpenLabels, HeldAt, Resources
    <3>2. SetupInv' /\ OpeningInv'
      BY DEF SetupInv, OpeningInv, SetupLabels, OpenLabels, HeldAt, Resources
    <3>3. HandlesOwned' /\ FreshInv' /\ RemovalPending'
      BY DEF HandlesOwned, FreshInv, RemovalPending, OpenLabels
    <3>4. AddedWake' /\ RemovedWake'
      BY DEF AddedWake, RemovedWake, HeldAt
    <3> QED
      BY <3>1, <3>2, <3>3, <3>4
  <2> QED
    BY <2>1, <2>2
<1> QED
  BY <1>1, <1>2, <1>3, <1>4, <1>5, <1>6 DEF Setup

-----------------------------------------------------------------------------
(* pongo_device_added.                                                     *)

LEMMA NextAddedStep ==
    ASSUME IInv, NextAdded
    PROVE  IInv'
<1> USE DEF IInv, NextAdded
<1>1. TypeOK'
  BY DEF TypeOK, Labels, LoopLabels, OpenLabels
<1>2. SetupInv'
  BY DEF SetupInv, SetupLabels, HeldAt
<1>3. OpeningInv'
  BY DEF OpeningInv, OpenLabels, FreshInv, HandlesOwned, HandlesAt, TypeOK
<1>4. HandlesOwned' /\ FreshInv' /\ RemovalPending'
  BY DEF HandlesOwned, FreshInv, RemovalPending, OpenLabels
<1>5. AddedWake'
  BY DEF AddedWake, OpenLabels, TypeOK
<1>6. RemovedWake'
  BY DEF RemovedWake, Queued, OpenLabels
<1> QED
  BY <1>1, <1>2, <1>3, <1>4, <1>5, <1>6

\* FindInterface moves on without acquiring anything.
LEMMA FoundStep ==
    ASSUME IInv, pc = "find_interface", pc' = "interface_plugin",
           UNCHANGED <<phase, ioVars, caller, openVars, held>>
    PROVE  IInv'
<1> USE DEF IInv, ioVars, openVars
<1>1. TypeOK'
  BY DEF TypeOK, Labels, OpenLabels
<1>2. SetupInv' /\ OpeningInv'
  BY DEF SetupInv, OpeningInv, SetupLabels, OpenLabels, HeldAt, HandlesAt
<1>3. HandlesOwned' /\ FreshInv' /\ RemovalPending'
  BY DEF HandlesOwned, FreshInv, RemovalPending, OpenLabels
<1>4. AddedWake' /\ RemovedWake'
  BY DEF AddedWake, RemovedWake, Queued, OpenLabels
<1> QED
  BY <1>1, <1>2, <1>3, <1>4

\* pongo_instance_create: the device holds all four handles, and a removal
\* that came while it was being opened is still waiting.
LEMMA CreatedStep ==
    ASSUME IInv, pc = "async_port", pc' = "load",
           instances' = [instances EXCEPT ![cur] = @ + 1],
           UNCHANGED <<phase, ioVars, caller, cur, try, usb, held>>
    PROVE  IInv'
<1> USE DEF IInv, ioVars
<1>0. /\ cur \in Services
      /\ usb[cur] = Handles
      /\ instances[cur] = 0
      /\ cur \notin addedQ
      /\ phase[cur] # "absent"
  BY DEF TypeOK, OpeningInv, OpenLabels, HandlesAt
<1>1. /\ instances'[cur] = 1
      /\ \A s \in Services \ {cur} : instances'[s] = instances[s]
  BY <1>0 DEF TypeOK
<1>2. TypeOK'
  BY DEF TypeOK, Labels, OpenLabels
<1>3. SetupInv' /\ OpeningInv'
  BY DEF SetupInv, OpeningInv, SetupLabels, OpenLabels, HeldAt
<1>4. HandlesOwned'
  BY <1>0, <1>1 DEF HandlesOwned, OpenLabels
<1>5. FreshInv'
  BY <1>0, <1>1 DEF FreshInv
<1>6. RemovalPending'
  BY <1>0, <1>1 DEF RemovalPending, Handles
<1>7. AddedWake' /\ RemovedWake'
  BY DEF AddedWake, RemovedWake, Queued, OpenLabels
<1> QED
  BY <1>2, <1>3, <1>4, <1>5, <1>6, <1>7

LEMMA OpenStep ==
    ASSUME IInv, Open
    PROVE  IInv'
<1>1. CASE CreateDevicePlugin
  BY <1>1, OpenedStep, OpenFailStep
     DEF CreateDevicePlugin, OpenLabels, Handles, HandlesAt, ClosedFrom
<1>2. CASE USBDeviceOpen
  BY <1>2, OpenedStep, RetryStep
     DEF USBDeviceOpen, OpenLabels, Handles, HandlesAt, ClosedFrom
<1>3. CASE FindInterface
  BY <1>3, FoundStep, OpenFailStep, RetryStep
     DEF FindInterface, OpenLabels, Handles, HandlesAt, ClosedFrom
<1>4. CASE CreateInterfacePlugin
  BY <1>4, OpenedStep, OpenFailStep
     DEF CreateInterfacePlugin, OpenLabels, Handles, HandlesAt, ClosedFrom
<1>5. CASE USBInterfaceOpen
  BY <1>5, OpenedStep, OpenFailStep
     DEF USBInterfaceOpen, OpenLabels, Handles, HandlesAt, ClosedFrom
<1>6. CASE CreateInstance
  BY <1>6, CreatedStep, OpenFailStep
     DEF CreateInstance, LinkInstance, OpenLabels, Handles, HandlesAt, ClosedFrom
<1> QED
  BY <1>1, <1>2, <1>3, <1>4, <1>5, <1>6 DEF Open

LEMMA LoadDoneStep ==
    ASSUME IInv, LoadDone
    PROVE  IInv'
<1> USE DEF IInv, LoadDone, ioVars
<1>1. TypeOK'
  BY DEF TypeOK, Labels, OpenLabels
<1>2. SetupInv' /\ OpeningInv'
  BY DEF SetupInv, OpeningInv, SetupLabels, OpenLabels, HeldAt
<1>3. HandlesOwned' /\ FreshInv' /\ RemovalPending'
  BY DEF HandlesOwned, FreshInv, RemovalPending, OpenLabels
<1>4. AddedWake' /\ RemovedWake'
  BY DEF AddedWake, RemovedWake, Queued, OpenLabels
<1> QED
  BY <1>1, <1>2, <1>3, <1>4

-----------------------------------------------------------------------------
(* pongo_device_removed.                                                   *)

\* Destroying leaves no instance and no handle of the service, because it had
\* at most one instance and, while this handler runs, nothing is being opened.
LEMMA DestroyStep ==
    ASSUME IInv, pc = "next_removed", NEW s \in Services, Destroy(s)
    PROVE  /\ instances'[s] = 0 /\ usb'[s] = {}
           /\ \A t \in Services \ {s} :
                instances'[t] = instances[t] /\ usb'[t] = usb[t]
           /\ instances' \in [Services -> Nat]
           /\ usb' \in [Services -> SUBSET Handles]
  BY DEF IInv, TypeOK, HandlesOwned, OpenLabels, Destroy, Close

LEMMA NextRemovedStep ==
    ASSUME IInv, NextRemoved
    PROVE  IInv'
<1> USE DEF IInv
<1>1. CASE removedQ = {}
  <2> USE <1>1 DEF NextRemoved
  <2>1. TypeOK'
    BY DEF TypeOK, Labels, LoopLabels, OpenLabels
  <2>2. SetupInv' /\ OpeningInv'
    BY DEF SetupInv, OpeningInv, SetupLabels, OpenLabels, HeldAt
  <2>3. HandlesOwned' /\ FreshInv' /\ RemovalPending'
    BY DEF HandlesOwned, FreshInv, RemovalPending, OpenLabels
  <2>4. AddedWake'
    BY DEF AddedWake, Queued, OpenLabels
  <2>5. RemovedWake'
    BY DEF RemovedWake, TypeOK
  <2> QED
    BY <2>1, <2>2, <2>3, <2>4, <2>5
<1>2. CASE removedQ # {}
  <2>1. PICK s \in removedQ :
          /\ pc = "next_removed"
          /\ removedQ' = removedQ \ {s}
          /\ Destroy(s)
          /\ UNCHANGED <<pc, removedArmed, phase, addedQ, addedArmed, msgs,
                         caller, cur, try, held>>
    BY <1>2 DEF NextRemoved
  <2>2. s \in Services
    BY <2>1 DEF TypeOK
  <2> USE <2>1, <2>2
  <2>3. /\ instances'[s] = 0 /\ usb'[s] = {}
        /\ \A t \in Services \ {s} :
             instances'[t] = instances[t] /\ usb'[t] = usb[t]
        /\ instances' \in [Services -> Nat]
        /\ usb' \in [Services -> SUBSET Handles]
    BY DestroyStep
  <2>4. TypeOK'
    BY <2>3 DEF TypeOK
  <2>5. SetupInv' /\ OpeningInv'
    BY DEF SetupInv, OpeningInv, SetupLabels, OpenLabels
  <2>6. HandlesOwned'
    BY <2>3 DEF HandlesOwned, OpenLabels
  <2>7. FreshInv'
    BY <2>3 DEF FreshInv
  <2>8. RemovalPending'
    BY <2>3 DEF RemovalPending
  <2>9. AddedWake' /\ RemovedWake'
    BY DEF AddedWake, RemovedWake, Queued
  <2> QED
    BY <2>4, <2>5, <2>6, <2>7, <2>8, <2>9
<1> QED
  BY <1>1, <1>2

-----------------------------------------------------------------------------
(* The main loop.                                                          *)

\* kevent returned an event, or the port was drained.
LEMMA LoopStep ==
    ASSUME IInv, WaitKevent \/ DrainEnd
    PROVE  IInv'
<1> USE DEF IInv, WaitKevent, DrainEnd, ioVars, openVars
<1>1. TypeOK'
  BY DEF TypeOK, Labels, LoopLabels, OpenLabels
<1>2. SetupInv' /\ OpeningInv'
  BY DEF SetupInv, OpeningInv, SetupLabels, OpenLabels, HeldAt
<1>3. HandlesOwned' /\ FreshInv' /\ RemovalPending'
  BY DEF HandlesOwned, FreshInv, RemovalPending, OpenLabels
<1>4. AddedWake' /\ RemovedWake'
  BY DEF AddedWake, RemovedWake, Queued, OpenLabels
<1> QED
  BY <1>1, <1>2, <1>3, <1>4

LEMMA DispatchStep ==
    ASSUME IInv, Dispatch
    PROVE  IInv'
<1> USE DEF IInv, Dispatch, openVars
<1>0. /\ msgs \in Seq(Kinds) /\ msgs # <<>>
      /\ msgs' = Tail(msgs)
  BY DEF TypeOK
<1>1. /\ Head(msgs) \in Kinds
      /\ msgs' \in Seq(Kinds)
      /\ \A k \in Kinds \ {Head(msgs)} : Queued(k) => Queued(k)'
  BY <1>0, TailQueued DEF Queued
<1>2. TypeOK'
  BY <1>1 DEF TypeOK, Labels, OpenLabels
<1>3. SetupInv' /\ OpeningInv'
  BY DEF SetupInv, OpeningInv, SetupLabels, OpenLabels, HeldAt
<1>4. HandlesOwned' /\ FreshInv' /\ RemovalPending'
  BY DEF HandlesOwned, FreshInv, RemovalPending, OpenLabels
<1>5. AddedWake'
  BY <1>1 DEF AddedWake, OpenLabels, Kinds
<1>6. RemovedWake'
  BY <1>1 DEF RemovedWake, OpenLabels, Kinds
<1> QED
  BY <1>2, <1>3, <1>4, <1>5, <1>6

-----------------------------------------------------------------------------
(* The cable.                                                              *)

\* What an arrival does to the notification port.
LEMMA ArrivalQueued ==
    ASSUME msgs \in Seq(Kinds), NEW kind \in Kinds, NEW armed \in BOOLEAN,
           msgs' = Arrival(kind, armed)
    PROVE  /\ msgs' \in Seq(Kinds)
           /\ \A k \in Kinds : Queued(k) => Queued(k)'
           /\ armed => Queued(kind)'
<1>1. CASE armed
  <2>1. msgs' = Append(msgs, kind)
    BY <1>1 DEF Arrival
  <2>2. /\ msgs' \in Seq(Kinds)
        /\ \E i \in DOMAIN msgs' : msgs'[i] = kind
        /\ \A k \in Kinds : (\E i \in DOMAIN msgs : msgs[i] = k)
                            => \E i \in DOMAIN msgs' : msgs'[i] = k
    BY ONLY <2>1, msgs \in Seq(Kinds), kind \in Kinds, AppendQueued, Zenon
  <2> QED
    BY <2>2 DEF Queued
<1>2. CASE ~armed
  <2>1. msgs' = msgs
    BY <1>2 DEF Arrival
  <2> QED
    BY <1>2, <2>1 DEF Queued
<1> QED
  BY <1>1, <1>2

LEMMA AttachStep ==
    ASSUME IInv, NEW s \in Services, Attach(s)
    PROVE  IInv'
<1> USE DEF IInv, openVars
<1>1. /\ phase' = [phase EXCEPT ![s] = "attached"]
      /\ phase[s] = "absent"
      /\ UNCHANGED <<removedQ, removedArmed, pc, caller, cur, try, usb,
                     instances, held>>
      /\ addedQ' \subseteq addedQ \cup {s}
      /\ "added_iter" \notin held => UNCHANGED <<addedQ, addedArmed, msgs>>
      /\ "added_iter" \in held => ~addedArmed'
      /\ addedArmed' \in BOOLEAN
  BY DEF Attach, TypeOK
<1>2. /\ msgs' \in Seq(Kinds)
      /\ \A k \in Kinds : Queued(k) => Queued(k)'
      /\ "added_iter" \in held /\ addedArmed => Queued("added")'
  <2>1. CASE "added_iter" \in held
    <3>1. msgs' = Arrival("added", addedArmed)
      BY <2>1 DEF Attach
    <3> QED
      BY <3>1, ArrivalQueued DEF TypeOK, Kinds
  <2>2. CASE "added_iter" \notin held
    BY <1>1, <2>2 DEF Queued, TypeOK
  <2> QED
    BY <2>1, <2>2
<1>3. phase'[s] = "attached" /\ \A t \in Services \ {s} : phase'[t] = phase[t]
  BY <1>1 DEF TypeOK
<1>4. TypeOK'
  BY <1>1, <1>2 DEF TypeOK, Phases
<1>5. SetupInv'
  BY <1>1 DEF SetupInv, SetupLabels, HeldAt
<1>6. OpeningInv' /\ HandlesOwned'
  BY <1>1, <1>3 DEF OpeningInv, HandlesOwned, TypeOK
<1>7. FreshInv' /\ RemovalPending'
  BY <1>1, <1>3 DEF FreshInv, RemovalPending
<1>8. AddedWake'
  BY <1>1, <1>2 DEF AddedWake, Kinds
<1>9. RemovedWake'
  BY <1>1, <1>2 DEF RemovedWake, Kinds
<1> QED
  BY <1>4, <1>5, <1>6, <1>7, <1>8, <1>9

LEMMA DetachStep ==
    ASSUME IInv, NEW s \in Services, Detach(s)
    PROVE  IInv'
<1> USE DEF IInv, openVars
<1>1. /\ phase' = [phase EXCEPT ![s] = "gone"]
      /\ phase[s] = "attached"
      /\ UNCHANGED <<addedQ, addedArmed, pc, caller, cur, try, usb,
                     instances, held>>
      /\ "removed_iter" \in held => removedQ' = removedQ \cup {s}
      /\ "removed_iter" \notin held => UNCHANGED <<removedQ, removedArmed, msgs>>
      /\ "removed_iter" \in held => ~removedArmed'
      /\ removedArmed' \in BOOLEAN
  BY DEF Detach, TypeOK
<1>2. /\ msgs' \in Seq(Kinds)
      /\ \A k \in Kinds : Queued(k) => Queued(k)'
      /\ "removed_iter" \in held /\ removedArmed => Queued("removed")'
  <2>1. CASE "removed_iter" \in held
    <3>1. msgs' = Arrival("removed", removedArmed)
      BY <2>1 DEF Detach
    <3> QED
      BY <3>1, ArrivalQueued DEF TypeOK, Kinds
  <2>2. CASE "removed_iter" \notin held
    BY <1>1, <2>2 DEF Queued, TypeOK
  <2> QED
    BY <2>1, <2>2
<1>3. phase'[s] = "gone" /\ \A t \in Services \ {s} : phase'[t] = phase[t]
  BY <1>1 DEF TypeOK
<1>4. TypeOK'
  BY <1>1, <1>2 DEF TypeOK, Phases
<1>5. SetupInv'
  BY <1>1 DEF SetupInv, SetupLabels, HeldAt
<1>6. OpeningInv' /\ HandlesOwned'
  BY <1>1, <1>3 DEF OpeningInv, HandlesOwned, TypeOK
<1>7. FreshInv'
  BY <1>1, <1>3 DEF FreshInv
<1>8. RemovalPending'
  <2>1. CASE "removed_iter" \in held
    BY <1>1, <1>3, <2>1 DEF RemovalPending
  <2>2. CASE "removed_iter" \notin held
    <3>1. pc \in SetupLabels \cup {"exit"}
      BY <2>2 DEF SetupInv, HeldAt, Resources, SetupLabels
    <3>2. pc # "exit" => instances[s] = 0 /\ usb[s] = {}
      BY <3>1 DEF SetupInv, HandlesOwned, SetupLabels, OpenLabels
    <3> QED
      BY <1>1, <1>3, <2>2, <3>2 DEF RemovalPending
  <2> QED
    BY <2>1, <2>2
<1>9. AddedWake'
  BY <1>1, <1>2 DEF AddedWake, Kinds
<1>10. RemovedWake'
  BY <1>1, <1>2 DEF RemovedWake, Kinds
<1> QED
  BY <1>4, <1>5, <1>6, <1>7, <1>8, <1>9, <1>10

-----------------------------------------------------------------------------
(* The theorems.                                                           *)

LEMMA InitIInv == Init => IInv
<1> SUFFICES ASSUME Init PROVE IInv
  OBVIOUS
<1> USE DEF Init
<1>1. TypeOK
  <2>1. msgs \in Seq(Kinds) /\ try \in 0..MaxTries
    BY MaxTriesAssumption
  <2>2. addedArmed \in BOOLEAN /\ removedArmed \in BOOLEAN
    OBVIOUS
  <2> QED
    BY <2>1, <2>2
       DEF TypeOK, Phases, Labels, SetupLabels, OpenLabels
<1>2. SetupInv /\ OpeningInv
  BY DEF SetupInv, HeldAt, OpeningInv, OpenLabels
<1>3. HandlesOwned /\ FreshInv /\ RemovalPending
  BY DEF HandlesOwned, FreshInv, RemovalPending
<1>4. AddedWake /\ RemovedWake
  BY DEF AddedWake, RemovedWake
<1> QED
  BY <1>1, <1>2, <1>3, <1>4 DEF IInv

\* A step that changes nothing.
LEMMA StutterStep ==
    ASSUME IInv, UNCHANGED vars
    PROVE  IInv'
<1> USE DEF IInv, vars, ioVars, openVars
<1>1. TypeOK'
  BY DEF TypeOK
<1>2. SetupInv' /\ OpeningInv' /\ HandlesOwned' /\ FreshInv' /\ RemovalPending'
  BY DEF SetupInv, OpeningInv, HandlesOwned, FreshInv, RemovalPending
<1>3. AddedWake' /\ RemovedWake'
  BY DEF AddedWake, RemovedWake, Queued
<1> QED
  BY <1>1, <1>2, <1>3

\* Every step of the loader and of the cable preserves the invariant.
LEMMA NextIInv == IInv /\ [Next]_vars => IInv'
<1> SUFFICES ASSUME IInv, [Next]_vars PROVE IInv'
  OBVIOUS
<1>1. CASE Loader
  BY <1>1, SetupStep, NextAddedStep, OpenStep, LoadDoneStep, NextRemovedStep,
     LoopStep, DispatchStep DEF Loader
<1>2. CASE KeventFails
  <2>1. /\ pc = "kevent" /\ held \in SUBSET ReleasedFrom(5)
        /\ Fail(5, held)
    BY <1>2 DEF KeventFails, IInv, TypeOK, ReleasedFrom, Resources
  <2> QED
    BY <2>1, FailStep DEF OpenLabels
<1>3. CASE Environment
  BY <1>3, AttachStep, DetachStep DEF Environment
<1>4. CASE UNCHANGED vars
  BY <1>4, StutterStep
<1> QED
  BY <1>1, <1>2, <1>3, <1>4 DEF Next

\* The inductive invariant holds in every reachable state of kext_loader.
THEOREM Invariance == Spec => []IInv
  BY InitIInv, NextIInv, PTL DEF Spec

\* The type invariant of kext_loader: in particular no retry loop of
\* pongo_usb_open counts beyond PONGO_USB_OPEN_MAX_TRIES.
THEOREM TypeCorrect == Spec => []TypeOK
<1>1. IInv => TypeOK
  BY DEF IInv
<1> QED
  BY <1>1, Invariance, PTL

\* pongo_device_removed never misses a device: one that went away while it was
\* tracked or open is still to be handed to the removal handler.
THEOREM NoRemovalLost == Spec => []RemovalPending
<1>1. IInv => RemovalPending
  BY DEF IInv
<1> QED
  BY <1>1, Invariance, PTL

\* The error ladder of pongo_usb_open and pongo_usb_close leak no handle, and
\* a device never has two instances.
THEOREM NoHandleLeaked == Spec => []HandlesOwned
<1>1. IInv => HandlesOwned
  BY DEF IInv
<1> QED
  BY <1>1, Invariance, PTL

\* handle_notification_message never leaves services in an iterator that no
\* later message or running handler would drain.
THEOREM NoWakeupLost == Spec => []WakeupPending
<1>1. IInv => WakeupPending
  BY DEF IInv, TypeOK, AddedWake, RemovedWake, WakeupPending
<1> QED
  BY <1>1, Invariance, PTL

\* The clean-up ladder of pongo_usb_kext_loader matches its set-up, and leaves
\* open what it does not close: the devices that are tracked when kevent fails.
THEOREM CleanExit == Spec => ExitLeavesTracked
<1> DEFINE Left(s) ==
             /\ pc \notin SetupLabels
             /\ instances'[s] = 1 /\ usb'[s] = Handles
             /\ phase[s] = "gone" => s \in removedQ
<1>1. IInv /\ IInv' /\ [Next]_vars =>
        (pc # "exit" /\ pc' = "exit" =>
            held' = {} /\ \A s \in Services : usb'[s] # {} => Left(s))
  <2> SUFFICES ASSUME IInv, IInv', [Next]_vars, pc # "exit", pc' = "exit"
               PROVE  held' = {} /\ \A s \in Services : usb'[s] # {} => Left(s)
    OBVIOUS
  <2>1. held' = {}
    BY DEF IInv, SetupInv, HeldAt
  <2>2. UNCHANGED openVars /\ pc \in SetupLabels \cup {"kevent"}
    <3>1. CASE Setup \/ KeventFails
      BY <3>1
         DEF Setup, OpenKqueue, AllocatePortSet, AddPortSetToKqueue, Acquire,
             CreateNotifyPort, MatchAdded, MatchRemoved, KeventFails, Fail,
             SetupLabels
    <3>2. CASE Open
      BY <3>2
         DEF Open, CreateDevicePlugin, USBDeviceOpen, FindInterface, RetryOr,
             CreateInterfacePlugin, USBInterfaceOpen, CreateInstance, Opened,
             OpenFail, OpenLabels
    <3>3. CASE \/ NextAdded \/ LoadDone \/ NextRemoved \/ WaitKevent \/ Dispatch
               \/ DrainEnd \/ Environment \/ UNCHANGED vars
      BY <3>3
         DEF NextAdded, LoadDone, NextRemoved, WaitKevent, Dispatch, DrainEnd,
             Environment, Attach, Detach, vars
    <3> QED
      BY <3>1, <3>2, <3>3 DEF Next, Loader
  <2>3. ASSUME NEW s \in Services, usb'[s] # {}
        PROVE  Left(s)
    <3>1. usb[s] # {} /\ usb' = usb /\ instances' = instances
      BY <2>2, <2>3 DEF openVars
    <3>2. instances[s] = 1 /\ usb[s] = Handles
      BY <2>2, <3>1 DEF IInv, HandlesOwned, SetupLabels, OpenLabels
    <3>3. pc \notin SetupLabels
      BY <3>2 DEF IInv, SetupInv
    <3>4. phase[s] = "gone" => s \in removedQ
      BY <3>2 DEF IInv, RemovalPending
    <3> QED
      BY <3>1, <3>2, <3>3, <3>4
  <2> QED
    BY <2>1, <2>3
<1> QED
  BY <1>1, Invariance, PTL DEF Spec, ExitLeavesTracked

\* An instance is destroyed, and the handles of a tracked device closed, only
\* by pongo_device_removed and only for a device that has gone away.
THEOREM DestroyOnlyGone == Spec => DestroyedOnlyWhenGone
<1> DEFINE Destroyed(s) ==
             instances[s] > 0
               /\ (instances'[s] < instances[s] \/ usb'[s] # usb[s])
<1>1. IInv /\ [Next]_vars => \A s \in Services : Destroyed(s) => phase[s] = "gone"
  <2> SUFFICES ASSUME IInv, [Next]_vars, NEW s \in Services, Destroyed(s)
               PROVE  phase[s] = "gone"
    OBVIOUS
  <2>1. ~(cur = s /\ pc \in OpenLabels)
    BY DEF IInv, OpeningInv
  <2>2. instances[s] = 1
    BY DEF IInv, HandlesOwned, TypeOK
  <2>3. ~(usb' = usb /\ instances' = instances)
    BY <2>2
  <2>4. CASE NextRemoved
    <3>1. PICK t \in removedQ : Destroy(t)
      BY <2>3, <2>4 DEF NextRemoved
    <3>2. t = s
      BY <2>2, <3>1 DEF Destroy, Close, IInv, TypeOK
    <3> QED
      BY <3>1, <3>2 DEF IInv, FreshInv
  <2>5. CASE Open
    <3>1. pc \in OpenLabels /\ cur \in Services /\ cur # s
      BY <2>1, <2>5
         DEF Open, CreateDevicePlugin, USBDeviceOpen, FindInterface,
             CreateInterfacePlugin, USBInterfaceOpen, CreateInstance,
             OpenLabels, IInv, TypeOK
    <3>2. \/ usb' = usb
          \/ \E S : usb' = [usb EXCEPT ![cur] = S]
      BY <2>5
         DEF Open, CreateDevicePlugin, USBDeviceOpen, FindInterface,
             CreateInterfacePlugin, USBInterfaceOpen, CreateInstance,
             LinkInstance, Opened, OpenFail, RetryOr, openVars
    <3>3. \/ instances' = instances
          \/ \E n : instances' = [instances EXCEPT ![cur] = n]
      BY <2>5
         DEF Open, CreateDevicePlugin, USBDeviceOpen, FindInterface,
             CreateInterfacePlugin, USBInterfaceOpen, CreateInstance,
             LinkInstance, Opened, OpenFail, RetryOr, openVars
    <3> QED
      BY <2>2, <3>1, <3>2, <3>3 DEF IInv, TypeOK
  <2>6. CASE Setup
    BY <2>3, <2>6
       DEF Setup, OpenKqueue, AllocatePortSet, AddPortSetToKqueue,
           CreateNotifyPort, MatchAdded, MatchRemoved, Acquire, Fail, openVars
  <2>7. CASE NextAdded \/ LoadDone \/ WaitKevent \/ Dispatch \/ DrainEnd
    BY <2>3, <2>7
       DEF NextAdded, LoadDone, WaitKevent, Dispatch, DrainEnd, openVars
  <2>8. CASE KeventFails \/ Environment \/ UNCHANGED vars
    BY <2>3, <2>8
       DEF KeventFails, Fail, Environment, Attach, Detach, vars, openVars
  <2> QED
    BY <2>4, <2>5, <2>6, <2>7, <2>8 DEF Next, Loader
<1>2. IInv /\ [Next]_vars
        => [\A s \in Services : Destroyed(s) => phase[s] = "gone"]_vars
  BY <1>1
<1> QED
  BY <1>2, Invariance, PTL DEF Spec, DestroyedOnlyWhenGone

=============================================================================
