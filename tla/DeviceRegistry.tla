--------------------------- MODULE DeviceRegistry ---------------------------
(***************************************************************************)
(* What kext_loader promises about the devices it is told of, without the  *)
(* iterators, messages, retries and handles it keeps the promise with:     *)
(* every attachment is taken up once, is then tracked or given up, and a   *)
(* tracked one is forgotten when, and only when, its device went away.     *)
(***************************************************************************)
CONSTANT Services     \* the attachments that may happen

VARIABLES
    phase,      \* [Services -> {"absent", "attached", "gone"}]
    status,     \* [Services -> {"new", "tracked", "closed"}]
    host        \* "running", or "left" when the program has ended

vars == <<phase, status, host>>

Set(s, v) == status' = [status EXCEPT ![s] = v]

\* A program that has ended takes nothing up any more.
Attach(s) ==
    /\ phase[s] = "absent"
    /\ phase' = [phase EXCEPT ![s] = "attached"]
    /\ IF host = "left" THEN Set(s, "closed") ELSE UNCHANGED status
    /\ UNCHANGED host

\* A device that leaves early enough is never heard of.
Detach(s) ==
    /\ phase[s] = "attached"
    /\ phase' = [phase EXCEPT ![s] = "gone"]
    /\ UNCHANGED status \/ (status[s] = "new" /\ Set(s, "closed"))
    /\ UNCHANGED host

\* pongo_device_added: the device is opened and gets its instance, or not.
TakeUp(s) ==
    /\ host = "running"
    /\ status[s] = "new"
    /\ phase[s] # "absent"
    /\ Set(s, "tracked") \/ Set(s, "closed")
    /\ UNCHANGED <<phase, host>>

\* pongo_device_removed.
Forget(s) ==
    /\ host = "running"
    /\ status[s] = "tracked"
    /\ phase[s] = "gone"
    /\ Set(s, "closed")
    /\ UNCHANGED <<phase, host>>

\* The program ends; what it has not taken up it never will.
Leave ==
    /\ host = "running"
    /\ host' = "left"
    /\ status' = [s \in Services |->
                    IF status[s] = "new" /\ phase[s] # "absent" THEN "closed" ELSE status[s]]
    /\ UNCHANGED phase

Init ==
    /\ phase = [s \in Services |-> "absent"]
    /\ status = [s \in Services |-> "new"]
    /\ host = "running"

Next ==
    \/ \E s \in Services : Attach(s) \/ Detach(s) \/ TakeUp(s) \/ Forget(s)
    \/ Leave

Spec == Init /\ [][Next]_vars

\* Every device that stays attached is taken up.
Served ==
    \A s \in Services :
        (phase[s] = "attached") ~> (status[s] # "new" \/ phase[s] = "gone" \/ host = "left")

\* Every tracked device that went away is forgotten.
Forgotten ==
    \A s \in Services :
        (status[s] = "tracked" /\ phase[s] = "gone") ~> (status[s] = "closed" \/ host = "left")

LiveSpec == Spec /\ Served /\ Forgotten
=============================================================================
