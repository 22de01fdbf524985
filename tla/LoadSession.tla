----------------------------- MODULE LoadSession -----------------------------
(***************************************************************************)
(* One load session: pongo_instance_load_kext on the host against one      *)
(* pongoOS device running the kextload module.                             *)
(*                                                                         *)
(* The host works through stages: the kextload module, the symbol table,   *)
(* each kernel extension, and the boot.  A stage uploads a payload into    *)
(* the device's bulk buffer, sends the command that consumes it and        *)
(* sleeps.  The device runs the commands on its own, and the handlers of   *)
(* the kextload module read the payload in place, in the bulk buffer.      *)
(*                                                                         *)
(* pongoOS (the USB stack, the command queue, modload, bootx) is external  *)
(* and modelled from how kext_loader.c and kextload.c use it.              *)
(***************************************************************************)
EXTENDS Naturals, Sequences

CONSTANTS
    NumKexts,       \* kext_path_count; main() refuses zero
    IdSpace,        \* values four hexadecimal digits can show
    HostFaults,     \* files may be unreadable and USB transfers may fail
    DeviceFaults,   \* the device may refuse a payload or run out of memory
    SleepCovers     \* each usleep() outlasts the command sent before it

ASSUME NumKextsAssumption == NumKexts \in Nat \ {0}
ASSUME IdSpaceAssumption == IdSpace \in Nat \ {0}
ASSUME SwitchAssumption ==
    HostFaults \in BOOLEAN /\ DeviceFaults \in BOOLEAN /\ SleepCovers \in BOOLEAN

VARIABLES
    stage,      \* the host's stage
    step,       \* the host's position in the stage
    result,     \* what pongo_instance_load_kext returned, if it did
    delivered,  \* history: stages whose upload and command got through
    sent,       \* history: this stage's upload got through
    recv,       \* loader_xfer_recv_data: the payload in the bulk buffer
    count,      \* loader_xfer_recv_count: 0, or 1 for a payload's size
    cmds,       \* commands the device has received and not yet run
    run,        \* the command handler that is running, and where it is
    size,       \* the size that handler took from loader_xfer_recv_count
    info,       \* kext_load_info: the payload each phase of a load read
    modLoaded,  \* module_entry() has run
    symLinked,  \* a symbol table for this kernelcache is in the chain
    inserted,   \* kernel extensions in __PRELINK_INFO, in order
    kextId,     \* kext_id
    booted      \* the device has left pongoOS for XNU

hostVars   == <<stage, step, result, delivered, sent>>
bufVars    == <<recv, count>>
moduleVars == <<modLoaded, symLinked, inserted, kextId>>
devVars    == <<run, size, info, moduleVars, booted>>
vars       == <<hostVars, bufVars, cmds, devVars>>

ModuleStage  == 0
SymbolsStage == 1
KextStages   == 2 .. NumKexts + 1
BootStage    == NumKexts + 2
Stages       == 0 .. NumKexts + 2

KextOf(n) == n - 1

Kinds    == {"none", "module", "symbols", "kext"}
Payload  == [kind : Kinds, kext : 0 .. NumKexts, whole : BOOLEAN]
Commands == {"xfb", "modload", "kernelcache-symbols", "kextload", "bootx"}
Phases   == {"idle", "symbols", "parse", "map", "link", "insert", "corrupted"}

\* The payload a stage uploads; a transfer that broke off leaves part of it.
PayloadOf(n, whole) ==
    [kind  |-> IF n = ModuleStage THEN "module"
               ELSE IF n = SymbolsStage THEN "symbols" ELSE "kext",
     kext  |-> IF n \in KextStages THEN KextOf(n) ELSE 0,
     whole |-> whole]

\* The command that ends a stage.
CommandOf(n) ==
    IF n = ModuleStage THEN "modload"
    ELSE IF n = SymbolsStage THEN "kernelcache-symbols"
    ELSE IF n \in KextStages THEN "kextload" ELSE "bootx"

-----------------------------------------------------------------------------
(* The host: pongo_kext_load_init, pongo_kext_load_symbols,                *)
(* pongo_kext_load and pongo_kext_boot_xnu.  Results of USB transfers are  *)
(* ignored, but for the discard after a failed upload.                     *)

\* map_file, or kernelcache_symbol_table_generate, which always has a result.
MapFile ==
    /\ result = "running"
    /\ step = "map"
    /\ \/ step' = (IF stage = ModuleStage THEN "xfb" ELSE "init")
          /\ UNCHANGED result
       \/ /\ HostFaults
          /\ stage # SymbolsStage
          /\ result' = "failed"
          /\ UNCHANGED step
    /\ sent' = FALSE
    /\ UNCHANGED <<stage, delivered, bufVars, cmds, devVars>>

\* pongo_usb_send_command of a given command.
Send(command) ==
    \/ cmds' = Append(cmds, command)
    \/ HostFaults /\ UNCHANGED cmds

\* "xfb": let XNU use the framebuffer.  No sleep follows.
SendXfb ==
    /\ result = "running"
    /\ step = "xfb"
    /\ Send("xfb")
    /\ step' = "init"
    /\ UNCHANGED <<stage, result, delivered, sent, bufVars, devVars>>

\* pongo_usb_init_bulk_upload.
InitBulkUpload ==
    /\ result = "running"
    /\ step = "init"
    /\ count' = 0 \/ (HostFaults /\ count' = count)
    /\ step' = "data"
    /\ UNCHANGED <<stage, result, delivered, sent, recv, cmds, devVars>>

\* pongo_usb_send_bulk_data: the upload gets through, or breaks off before or
\* after some of the payload has reached the buffer.
SendBulkData ==
    /\ result = "running"
    /\ step = "data"
    /\ \/ /\ recv' = PayloadOf(stage, TRUE)
          /\ count' = 1
          /\ sent' = TRUE
          /\ step' = "cmd"
       \/ /\ HostFaults
          /\ \/ UNCHANGED <<recv, count>>
             \/ recv' = PayloadOf(stage, FALSE) /\ count' = 1
          /\ sent' = FALSE
          /\ step' = "discard"
    /\ UNCHANGED <<stage, result, delivered, cmds, devVars>>

\* Mutant: a failed upload is retried until it succeeds.
Mut_DiscardBulkUpload ==
    /\ result = "running"
    /\ step = "discard"
    /\ count' = 0 \/ (HostFaults /\ count' = count)
    /\ step' = "init"
    /\ UNCHANGED <<stage, result, delivered, sent, recv, cmds, devVars>>

\* pongo_usb_discard_bulk_upload, after a failed upload.
DiscardBulkUpload ==
    /\ result = "running"
    /\ step = "discard"
    /\ count' = 0 \/ (HostFaults /\ count' = count)
    /\ step' = "cmd"
    /\ UNCHANGED <<stage, result, delivered, sent, recv, cmds, devVars>>

\* Mutant: the command is not followed by a sleep.
Mut_SendCommand ==
    /\ result = "running"
    /\ step = "cmd"
    /\ cmds' = Append(cmds, CommandOf(stage))
    /\ delivered' = IF sent THEN delivered \cup {stage} ELSE delivered
    /\ IF stage = BootStage
       THEN result' = "done" /\ UNCHANGED <<stage, step>>
       ELSE /\ stage' = stage + 1
            /\ step' = IF stage + 1 = BootStage THEN "cmd" ELSE "map"
            /\ UNCHANGED result
    /\ UNCHANGED <<sent, bufVars, devVars>>

\* The command that consumes the upload; bootx ends the session.
SendCommand ==
    /\ result = "running"
    /\ step = "cmd"
    /\ \/ /\ cmds' = Append(cmds, CommandOf(stage))
          /\ delivered' = IF sent THEN delivered \cup {stage} ELSE delivered
       \/ /\ HostFaults
          /\ UNCHANGED <<cmds, delivered>>
    /\ IF stage = BootStage
       THEN result' = "done" /\ UNCHANGED step
       ELSE step' = "sleep" /\ UNCHANGED result
    /\ UNCHANGED <<stage, sent, bufVars, devVars>>

DeviceIdle == cmds = <<>> /\ run = "idle"

\* Mutant: the boot stage starts with an upload of its own.
Mut_Sleep ==
    /\ result = "running"
    /\ step = "sleep"
    /\ SleepCovers => DeviceIdle
    /\ stage' = stage + 1
    /\ step' = "map"
    /\ sent' = FALSE
    /\ UNCHANGED <<result, delivered, bufVars, cmds, devVars>>

\* usleep(200 * 1000): nothing tells the host that the command has ended.
Sleep ==
    /\ result = "running"
    /\ step = "sleep"
    /\ SleepCovers => DeviceIdle
    /\ stage' = stage + 1
    /\ step' = IF stage + 1 = BootStage THEN "cmd" ELSE "map"
    /\ sent' = FALSE
    /\ UNCHANGED <<result, delivered, bufVars, cmds, devVars>>

Host ==
    \/ MapFile \/ SendXfb \/ InitBulkUpload \/ SendBulkData
    \/ DiscardBulkUpload \/ SendCommand \/ Sleep

-----------------------------------------------------------------------------
(* The device: pongoOS takes the next command from its queue.              *)

Take(command) ==
    /\ ~booted
    /\ run = "idle"
    /\ cmds # <<>>
    /\ Head(cmds) = command
    /\ cmds' = Tail(cmds)
    /\ UNCHANGED hostVars

\* xfb changes nothing modelled here; a command of the kextload module is
\* unknown, and ignored, before the module is loaded.
IgnoreCommand ==
    /\ \/ Take("xfb")
       \/ ~modLoaded /\ (Take("kernelcache-symbols") \/ Take("kextload"))
    /\ UNCHANGED <<bufVars, devVars>>

\* modload: the uploaded module is linked and its module_entry() runs.
Modload ==
    /\ Take("modload")
    /\ \/ /\ count = 1
          /\ recv.kind = "module"
          /\ modLoaded' = TRUE
       \/ /\ count = 0 \/ recv.kind # "module" \/ ~recv.whole \/ DeviceFaults
          /\ UNCHANGED modLoaded
    /\ count' = 0
    /\ UNCHANGED <<recv, run, size, info, symLinked, inserted, kextId, booted>>

\* bootx: the pre-boot hooks run and XNU starts.
Bootx ==
    /\ Take("bootx")
    /\ booted' = TRUE
    /\ UNCHANGED <<bufVars, run, size, info, moduleVars>>

\* A handler of the kextload module starts: it takes the size and resets the
\* shared counter.
Enter(command, phase) ==
    /\ modLoaded
    /\ Take(command)
    /\ size' = count
    /\ count' = 0
    /\ run' = phase
    /\ UNCHANGED <<recv, info, moduleVars, booted>>

\* Mutant: the handler leaves loader_xfer_recv_count as it found it.
Mut_StartKextload ==
    /\ modLoaded
    /\ Take("kextload")
    /\ size' = count
    /\ run' = "parse"
    /\ UNCHANGED <<bufVars, info, moduleVars, booted>>

StartSymbols  == Enter("kernelcache-symbols", "symbols")
StartKextload == Enter("kextload", "parse")

\* The rest of command_kernelcache_symbols: parse the blob in the buffer and
\* link the table in, or refuse it.
LinkSymbols ==
    /\ run = "symbols"
    /\ \/ /\ size = 1
          /\ recv.kind = "symbols"
          /\ symLinked' = TRUE
       \/ /\ size = 0 \/ recv.kind # "symbols" \/ ~recv.whole \/ DeviceFaults
          /\ UNCHANGED symLinked
    /\ run' = "idle"
    /\ UNCHANGED <<hostVars, bufVars, cmds, size, info, modLoaded, inserted,
                   kextId, booted>>

\* The size test, kext_parse and kext_alloc.  Without symbols the external
\* relocations do not resolve.
ParseKext ==
    /\ run = "parse"
    /\ \/ /\ size = 1
          /\ recv.kind = "kext"
          /\ symLinked
          /\ info' = [info EXCEPT !.parsed = recv.kext]
          /\ run' = "map"
       \/ /\ \/ size = 0 \/ recv.kind # "kext" \/ ~symLinked
             \/ ~recv.whole \/ DeviceFaults
          /\ run' = "idle"
          /\ UNCHANGED info
    /\ UNCHANGED <<hostVars, bufVars, cmds, size, moduleVars, booted>>

\* Another upload has replaced the kernel extension that was validated: its
\* offsets and sizes are used on other data, which may corrupt memory.
Replaced == recv.kext # info.parsed

\* kext_map copies the segments out of the buffer.
MapKext ==
    /\ run = "map"
    /\ \/ /\ info' = [info EXCEPT !.mapped = recv.kext]
          /\ run' = "link"
       \/ /\ Replaced
          /\ run' = "corrupted"
          /\ UNCHANGED info
    /\ UNCHANGED <<hostVars, bufVars, cmds, size, moduleVars, booted>>

\* kext_relocate and kext_link read relocations and names from the buffer.
LinkKext ==
    /\ run = "link"
    /\ \/ /\ info' = [info EXCEPT !.linked = recv.kext]
          /\ run' = "insert"
       \/ /\ Replaced
          /\ run' = "corrupted"
          /\ UNCHANGED info
    /\ UNCHANGED <<hostVars, bufVars, cmds, size, moduleVars, booted>>

\* Mutant: kext_id is not advanced.
Mut_InsertKext ==
    /\ run = "insert"
    /\ inserted' = Append(inserted, [parsed |-> info.parsed, mapped |-> info.mapped,
                                 linked |-> info.linked,
                                 id |-> kextId % IdSpace])
    /\ run' = "idle"
    /\ UNCHANGED <<hostVars, bufVars, cmds, size, info, modLoaded, symLinked,
                   kextId, booted>>

\* Mutant: the new entry overwrites the dictionary instead of extending it.
Mut_InsertKextOver ==
    /\ run = "insert"
    /\ inserted' = <<[parsed |-> info.parsed, mapped |-> info.mapped,
                      linked |-> info.linked, id |-> kextId % IdSpace]>>
    /\ kextId' = kextId + 1
    /\ run' = "idle"
    /\ UNCHANGED <<hostVars, bufVars, cmds, size, info, modLoaded, symLinked,
                   booted>>

\* kext_insert: the bundle ID shows kext_id in four hexadecimal digits.  It
\* gives up silently when the end of the dictionary is not found.
InsertKext ==
    /\ run = "insert"
    /\ \/ /\ inserted' = Append(inserted,
                                [parsed |-> info.parsed, mapped |-> info.mapped,
                                 linked |-> info.linked,
                                 id |-> kextId % IdSpace])
          /\ kextId' = kextId + 1
       \/ DeviceFaults /\ UNCHANGED <<inserted, kextId>>
    /\ run' = "idle"
    /\ UNCHANGED <<hostVars, bufVars, cmds, size, info, modLoaded, symLinked,
                   booted>>

Device ==
    \/ IgnoreCommand \/ Modload \/ Bootx \/ StartSymbols \/ StartKextload
    \/ LinkSymbols \/ ParseKext \/ MapKext \/ LinkKext \/ InsertKext

-----------------------------------------------------------------------------
Init ==
    /\ stage = ModuleStage
    /\ step = "map"
    /\ result = "running"
    /\ delivered = {}
    /\ sent = FALSE
    /\ recv = [kind |-> "none", kext |-> 0, whole |-> FALSE]
    /\ count = 0
    /\ cmds = <<>>
    /\ run = "idle"
    /\ size = 0
    /\ info = [parsed |-> 0, mapped |-> 0, linked |-> 0]
    /\ modLoaded = FALSE
    /\ symLinked = FALSE
    /\ inserted = <<>>
    /\ kextId = 0
    /\ booted = FALSE

\* The session is over and the device has nothing left to do, or nothing is
\* known of what it does.
Finished ==
    /\ result # "running"
    /\ DeviceIdle \/ booted \/ run = "corrupted"
    /\ UNCHANGED vars

Next == Host \/ Device \/ Finished

\* Both programs keep running.
Fairness == WF_vars(Host) /\ WF_vars(Device)

Spec == Init /\ [][Next]_vars

FairSpec == Spec /\ Fairness

-----------------------------------------------------------------------------
(* Properties.                                                             *)

TypeOK ==
    /\ stage \in Stages
    /\ step \in {"map", "xfb", "init", "data", "discard", "cmd", "sleep"}
    /\ stage = BootStage => step = "cmd"
    /\ result \in {"running", "failed", "done"}
    /\ delivered \subseteq Stages
    /\ sent \in BOOLEAN
    /\ recv \in Payload
    /\ count \in {0, 1}
    /\ cmds \in Seq(Commands)
    /\ run \in Phases
    /\ size \in {0, 1}
    /\ info \in [parsed : 0..NumKexts, mapped : 0..NumKexts, linked : 0..NumKexts]
    /\ modLoaded \in BOOLEAN
    /\ symLinked \in BOOLEAN
    /\ inserted \in Seq([parsed : 0..NumKexts, mapped : 0..NumKexts,
                         linked : 0..NumKexts, id : 0..IdSpace-1])
    /\ kextId \in Nat
    /\ booted \in BOOLEAN

\* A kernel extension is inserted at most once, and in the order given on the
\* command line, whatever USB transfers fail: a handler consumes the counter
\* of the bulk buffer, so no later command finds the same upload again.
InsertedInOrder ==
    \A i, j \in DOMAIN inserted :
        i < j => inserted[i].parsed < inserted[j].parsed

\* What kext_map and kext_link read from the bulk buffer is the kernel
\* extension that kext_parse validated there.
InsertedIntact ==
    \A i \in DOMAIN inserted :
        /\ inserted[i].mapped = inserted[i].parsed
        /\ inserted[i].linked = inserted[i].parsed

\* Bundle IDs in __PRELINK_INFO are unique as long as four digits can tell the
\* kernel extensions of one session apart and no upload that overlapped a command
\* has corrupted the device's memory: a session loads no more of them than it was
\* given, whatever transfers fail, and each one that is inserted takes its number.
BundleIdsUnique ==
    NumKexts <= IdSpace /\ run # "corrupted" =>
        \A i, j \in DOMAIN inserted : i # j => inserted[i].id # inserted[j].id

\* Failures stay local: when the module and the symbol table got through, each
\* kernel extension whose own upload and command got through is in the kernel
\* once the device is idle, whatever happened to the others.
FailureIsolated ==
    (DeviceIdle /\ {ModuleStage, SymbolsStage} \subseteq delivered) =>
        \A n \in delivered \cap KextStages :
            \E i \in DOMAIN inserted : inserted[i].parsed = KextOf(n)

\* kext_loader promises to boot the device with its kernel extensions.
BootedWithAll == booted => Len(inserted) = NumKexts

\* The session always comes to an end on the host.
SessionEnds == <>(result # "running")

\* A bootx command that got through brings the device into XNU, and with all of
\* its kernel extensions when no request before it failed.
BootsWithDelivered ==
    (\E i \in DOMAIN cmds : cmds[i] = "bootx") ~>
        (booted /\ ((Stages \ {BootStage}) \subseteq delivered => Len(inserted) = NumKexts))

=============================================================================
