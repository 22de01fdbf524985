------------------------ MODULE KextLoaderRefinement ------------------------
(***************************************************************************)
(* The proof that KextLoader implements DeviceRegistry, for any number of  *)
(* attachments and any retry bound.  Most steps of the loader leave the    *)
(* status of every service alone; the lemmas below say what the others do. *)
(***************************************************************************)
EXTENDS KextLoaderProofs

\* A step that leaves every status, the cables and the program as they are.
Invisible ==
    /\ phase' = phase
    /\ \A s \in Services : StatusOf(s)' = StatusOf(s)
    /\ pc = "exit" <=> pc' = "exit"

LEMMA InvisibleStutters == ASSUME Invisible PROVE UNCHANGED Registry!vars
  BY DEF Invisible, Registry!vars, Status, Host

\* Only one status changes.
Becomes(s, v) == \A t \in Services : StatusOf(t)' = IF t = s THEN v ELSE StatusOf(t)

LEMMA BecomesSet ==
    ASSUME NEW s \in Services, NEW v, Becomes(s, v)
    PROVE  Registry!Set(s, v)
  BY DEF Becomes, Registry!Set, Status

LEMMA SameStatus ==
    ASSUME phase' = phase, instances' = instances, addedQ' = addedQ, cur' = cur,
           pc \in Unmatched <=> pc' \in Unmatched,
           pc \in OpenLabels <=> pc' \in OpenLabels,
           pc = "exit" <=> pc' = "exit"
    PROVE  Invisible
  BY DEF Invisible, StatusOf

\* goto fail_k of pongo_usb_kext_loader ends the program.
LEMMA FailLeaves ==
    ASSUME IInv, pc \in Labels \ (OpenLabels \cup {"exit"}), NEW k, NEW r, Fail(k, r)
    PROVE  Registry!Leave
<1>1. \A s \in Services :
        StatusOf(s)' = IF StatusOf(s) = "new" /\ phase[s] # "absent" THEN "closed" ELSE StatusOf(s)
  BY DEF Fail, openVars, StatusOf, Unmatched, SetupLabels, OpenLabels, IInv, FreshInv
<1>2. pc # "exit" /\ pc' = "exit" /\ phase' = phase
  BY DEF Fail
<1> QED
  BY <1>1, <1>2 DEF Registry!Leave, Status, Host

LEMMA SetupRefines == ASSUME IInv, Setup PROVE Registry!Next \/ UNCHANGED Registry!vars
<1> USE DEF OpenKqueue, AllocatePortSet, AddPortSetToKqueue, CreateNotifyPort,
            MatchAdded, MatchRemoved
<1>1. pc \in SetupLabels
  BY DEF Setup, Acquire, SetupLabels
<1>2. CASE pc' = "exit"
  <2>1. PICK k \in 0 .. 4, r \in SUBSET Resources : Fail(k, r)
    BY <1>2 DEF Setup, Acquire, IInv, TypeOK, Resources
  <2>2. pc \in Labels \ (OpenLabels \cup {"exit"})
    BY <1>1 DEF Labels, SetupLabels, OpenLabels
  <2> QED
    BY <2>1, <2>2, FailLeaves DEF Registry!Next
<1>3. CASE pc' # "exit" /\ pc # "match_added"
  <2>1. /\ phase' = phase /\ instances' = instances /\ addedQ' = addedQ /\ cur' = cur
        /\ pc \in Unmatched <=> pc' \in Unmatched
        /\ pc \notin OpenLabels /\ pc' \notin OpenLabels /\ pc # "exit"
    BY <1>3 DEF Setup, Acquire, Fail, ioVars, openVars, Unmatched, SetupLabels, OpenLabels
  <2> QED
    BY <1>3, <2>1, SameStatus, InvisibleStutters
<1>4. CASE pc' # "exit" /\ pc = "match_added"
  <2>1. /\ phase' = phase /\ instances' = instances /\ pc' = "match_removed"
        /\ addedQ' = {s \in Services : phase[s] = "attached"}
    BY <1>4 DEF Setup, Acquire, Fail, openVars
  <2>2. addedQ = {}
    BY <1>4 DEF IInv, AddedWake, SetupInv, HeldAt
  <2>3. Invisible
    BY <1>4, <2>1, <2>2 DEF Invisible, StatusOf, Unmatched, SetupLabels, OpenLabels
  <2> QED
    BY <2>3, InvisibleStutters
<1> QED
  BY <1>2, <1>3, <1>4

LEMMA NextAddedRefines ==
    ASSUME IInv, NextAdded PROVE Registry!Next \/ UNCHANGED Registry!vars
<1>1. Invisible
  BY DEF NextAdded, Invisible, StatusOf, Unmatched, SetupLabels, OpenLabels, IInv,
         FreshInv, TypeOK
<1> QED
  BY <1>1, InvisibleStutters

\* Giving up the device that is being opened.
LEMMA OpenFailRefines ==
    ASSUME IInv, pc \in OpenLabels, NEW k, OpenFail(k)
    PROVE  Registry!Next
<1>1. cur \in Services /\ phase[cur] # "absent" /\ StatusOf(cur) = "new" /\ pc # "exit"
  BY DEF IInv, TypeOK, OpeningInv, StatusOf, OpenLabels
<1>2. Becomes(cur, "closed")
  BY <1>1, NoServiceAssumption
     DEF Becomes, OpenFail, ioVars, StatusOf, IInv, OpeningInv, TypeOK, OpenLabels,
         Unmatched, SetupLabels
<1>3. Registry!Set(cur, "closed") /\ phase' = phase /\ pc' # "exit"
  BY <1>1, <1>2, BecomesSet DEF OpenFail
<1>4. Registry!TakeUp(cur)
  BY <1>1, <1>3 DEF Registry!TakeUp, Status, Host
<1> QED
  BY <1>1, <1>4 DEF Registry!Next

LEMMA OpenRefines == ASSUME IInv, Open PROVE Registry!Next \/ UNCHANGED Registry!vars
<1> USE DEF CreateDevicePlugin, USBDeviceOpen, FindInterface, CreateInterfacePlugin,
            USBInterfaceOpen, CreateInstance
<1>1. pc \in OpenLabels
  BY DEF Open, OpenLabels
<1>2. CASE \E k \in 0 .. 4 : OpenFail(k)
  BY <1>1, <1>2, OpenFailRefines
<1>3. CASE pc = "async_port" /\ LinkInstance(cur) /\ pc' = "load"
             /\ UNCHANGED <<phase, ioVars, caller, cur, try, usb, held>>
  <2>1. cur \in Services /\ phase[cur] # "absent" /\ StatusOf(cur) = "new" /\ pc # "exit"
    BY <1>1 DEF IInv, TypeOK, OpeningInv, StatusOf, OpenLabels
  <2>2. instances' = [instances EXCEPT ![cur] = 1]
    <3>1. instances[cur] = 0
      BY <1>1 DEF IInv, OpeningInv
    <3> QED
      BY <1>3, <3>1 DEF LinkInstance
  <2>3. Becomes(cur, "tracked")
    BY <1>3, <2>1, <2>2
       DEF Becomes, ioVars, StatusOf, IInv, TypeOK, OpenLabels, Unmatched, SetupLabels
  <2>4. Registry!TakeUp(cur)
    BY <1>3, <2>1, <2>3, BecomesSet DEF Registry!TakeUp, Status, Host
  <2> QED
    BY <2>1, <2>4 DEF Registry!Next
<1>4. CASE /\ phase' = phase /\ instances' = instances /\ addedQ' = addedQ
           /\ cur' = cur /\ pc' \in OpenLabels
  <2>1. pc \notin Unmatched /\ pc' \notin Unmatched /\ pc # "exit" /\ pc' # "exit"
    BY <1>1, <1>4 DEF OpenLabels, Unmatched, SetupLabels
  <2> QED
    BY <1>1, <1>4, <2>1, SameStatus, InvisibleStutters
<1> QED
  BY <1>1, <1>2, <1>3, <1>4 DEF Open, Opened, RetryOr, ioVars, openVars, OpenLabels

LEMMA NextRemovedRefines ==
    ASSUME IInv, NextRemoved PROVE Registry!Next \/ UNCHANGED Registry!vars
<1>1. pc = "next_removed" /\ pc' \in {"next_removed", "kevent", "drain"}
      /\ UNCHANGED <<phase, addedQ, cur>>
  BY DEF NextRemoved
<1>2. CASE instances' = instances
  BY <1>1, <1>2, SameStatus, InvisibleStutters DEF Unmatched, SetupLabels, OpenLabels
<1>3. CASE instances' # instances
  <2>1. PICK s \in removedQ : Destroy(s)
    BY <1>3 DEF NextRemoved
  <2>2. s \in Services /\ phase[s] = "gone" /\ instances[s] = 1
    BY <1>3, <2>1 DEF IInv, TypeOK, FreshInv, HandlesOwned, Destroy
  <2>3. instances' = [instances EXCEPT ![s] = 0]
    BY <2>1, <2>2 DEF Destroy
  <2>4. StatusOf(s) = "tracked" /\ s \notin addedQ
    BY <2>2 DEF StatusOf, IInv, FreshInv
  <2>5. Becomes(s, "closed")
    BY <1>1, <2>2, <2>3, <2>4
       DEF Becomes, StatusOf, IInv, TypeOK, OpenLabels, Unmatched, SetupLabels
  <2>6. Registry!Forget(s)
    BY <1>1, <2>2, <2>4, <2>5, BecomesSet DEF Registry!Forget, Status, Host
  <2> QED
    BY <2>2, <2>6 DEF Registry!Next
<1> QED
  BY <1>2, <1>3

LEMMA LoopRefines ==
    ASSUME IInv, LoadDone \/ WaitKevent \/ Dispatch \/ DrainEnd
    PROVE  UNCHANGED Registry!vars
<1>1. Invisible
  BY DEF LoadDone, WaitKevent, Dispatch, DrainEnd, Invisible, StatusOf, Unmatched,
         SetupLabels, OpenLabels, ioVars, openVars
<1> QED
  BY <1>1, InvisibleStutters

LEMMA AttachRefines ==
    ASSUME IInv, NEW s \in Services, Attach(s) PROVE Registry!Next
<1>1. /\ phase[s] = "absent" /\ phase' = [phase EXCEPT ![s] = "attached"]
      /\ UNCHANGED <<pc, cur, instances>> /\ phase \in [Services -> Phases]
      /\ addedQ' \in {addedQ, addedQ \cup {s}}
      /\ "added_iter" \in held => s \in addedQ'
      /\ "added_iter" \notin held => addedQ' = addedQ
  BY DEF Attach, openVars, IInv, TypeOK
<1>2. /\ instances[s] = 0 /\ s \notin addedQ /\ StatusOf(s) = "new"
      /\ ~(cur = s /\ pc \in OpenLabels)
  BY <1>1 DEF IInv, FreshInv, OpeningInv, StatusOf
<1>3. CASE pc = "exit"
  <2>1. "added_iter" \notin held
    BY <1>3 DEF IInv, SetupInv, HeldAt
  <2>2. Becomes(s, "closed")
    BY <1>1, <1>2, <1>3, <2>1 DEF Becomes, StatusOf, Unmatched, SetupLabels, OpenLabels
  <2>3. Registry!Attach(s)
    BY <1>1, <1>3, <2>2, BecomesSet DEF Registry!Attach, Host
  <2> QED
    BY <2>3 DEF Registry!Next
<1>4. CASE pc # "exit"
  <2>1. pc \notin Unmatched => "added_iter" \in held
    BY <1>4 DEF IInv, SetupInv, HeldAt, Unmatched, SetupLabels, Resources
  <2>2. \A t \in Services : StatusOf(t)' = StatusOf(t)
    BY <1>1, <1>2, <2>1 DEF StatusOf
  <2>3. Registry!Attach(s)
    BY <1>1, <1>4, <2>2 DEF Registry!Attach, Status, Host
  <2> QED
    BY <2>3 DEF Registry!Next
<1> QED
  BY <1>3, <1>4

LEMMA DetachRefines ==
    ASSUME IInv, NEW s \in Services, Detach(s) PROVE Registry!Next
<1>1. /\ phase[s] = "attached" /\ phase' = [phase EXCEPT ![s] = "gone"]
      /\ UNCHANGED <<pc, cur, instances, addedQ>> /\ phase \in [Services -> Phases]
  BY DEF Detach, openVars, IInv, TypeOK
<1>2. \A t \in Services \ {s} : StatusOf(t)' = StatusOf(t)
  BY <1>1 DEF StatusOf
<1>3. CASE StatusOf(s)' = StatusOf(s)
  <2>1. Registry!Detach(s)
    BY <1>1, <1>2, <1>3 DEF Registry!Detach, Status, Host
  <2> QED
    BY <2>1 DEF Registry!Next
<1>4. CASE StatusOf(s)' # StatusOf(s)
  <2>1. StatusOf(s) = "new" /\ Becomes(s, "closed")
    BY <1>1, <1>2, <1>4 DEF StatusOf, Becomes
  <2>2. Registry!Detach(s)
    BY <1>1, <2>1, BecomesSet DEF Registry!Detach, Status, Host
  <2> QED
    BY <2>2 DEF Registry!Next
<1> QED
  BY <1>3, <1>4

\* The loader implements the registry it is meant to be: every one of its steps
\* takes up, gives up or forgets one service as DeviceRegistry allows, or none.
THEOREM Refinement == Spec => ImplementsRegistry
<1>1. Init => Registry!Init
  BY DEF Init, Registry!Init, Status, StatusOf, Host
<1>2. IInv /\ [Next]_vars => [Registry!Next]_Registry!vars
  <2> SUFFICES ASSUME IInv, [Next]_vars
               PROVE  Registry!Next \/ UNCHANGED Registry!vars
    OBVIOUS
  <2>1. CASE KeventFails
    <3>1. Registry!Leave
      BY <2>1, FailLeaves DEF KeventFails, Labels, LoopLabels, OpenLabels
    <3> QED
      BY <3>1 DEF Registry!Next
  <2>2. CASE Environment
    BY <2>2, AttachRefines, DetachRefines DEF Environment
  <2>3. CASE UNCHANGED vars
    BY <2>3, SameStatus, InvisibleStutters DEF vars, ioVars, openVars
  <2>4. CASE Loader
    BY <2>4, SetupRefines, NextAddedRefines, OpenRefines, NextRemovedRefines, LoopRefines
       DEF Loader
  <2> QED
    BY <2>1, <2>2, <2>3, <2>4 DEF Next
<1> QED
  BY <1>1, <1>2, Invariance, PTL DEF Spec, ImplementsRegistry, Registry!Spec

=============================================================================
