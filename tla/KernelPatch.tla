----------------------------- MODULE KernelPatch -----------------------------
(***************************************************************************)
(* The boot-time patch of kextload.c: the chain of pre-boot hooks, and the *)
(* three patches that kextload_patch applies to the kernel's code while    *)
(* pongoOS's pattern finder scans it.                                      *)
(*                                                                         *)
(* An instruction is the class that the masks of the patterns can tell     *)
(* apart.  "ADRP_PBP" is an ADRP whose ADRP/ADD pair points to             *)
(* "_PrelinkBundlePath"; the masks admit only pairs through X1, so         *)
(* RESOLVE_ADRP_ADD always has a result.  The pattern finder, xnu_pf, is   *)
(* external: it offers every position in order to every enabled patch, and *)
(* stops the boot when a required patch never fired.                       *)
(***************************************************************************)
EXTENDS Integers, Sequences

CONSTANTS
    Texts,       \* the kernels' __TEXT_EXEC segments
    MaxSearch,   \* MAX_SEARCH
    MaxCopies    \* bound on modload commands before the boot

Lockdown == {"STR", "MSR3", "MSR4", "MSR2"}
MovX2    == {"MOV_Xn_X2", "MOV_X0_X2"}
MovX0    == {"MOV_X0_Xn", "MOV_X0_X2", "MOV_X0_XZR"}
Prologue == {"SUB_SP", "STP_X28_X27"}
Kinds    == Lockdown \cup MovX2 \cup MovX0 \cup Prologue
              \cup {"ISB", "NOP", "LDR_0", "LDR_n", "ADRP", "ADRP_PBP", "ADD", "BLR",
                    "MOV_Xn_XZR", "OTHER"}
Patches  == {"mmu", "amcc", "init"}

ASSUME TextsAssumption == Texts \subseteq Seq(Kinds)
ASSUME BoundsAssumption == MaxSearch \in Nat /\ MaxCopies \in Nat \ {0}

VARIABLES
    orig,       \* the kernel as it was loaded
    text,       \* the kernel's code
    pc,         \* where the boot is
    copies,     \* copies of the module that were loaded
    depth,      \* the copy whose hook is running
    pos,        \* where the pattern finder is
    active,     \* the patches that are enabled
    fired       \* the patches whose callback returned true

vars == <<orig, text, pc, copies, depth, pos, active, fired>>

-----------------------------------------------------------------------------
(* The module and its pre-boot hook.                                       *)

\* module_entry: the hook of this copy goes in front of the chain.
ModuleEntry ==
    /\ pc = "pongo"
    /\ copies < MaxCopies
    /\ copies' = copies + 1
    /\ UNCHANGED <<orig, text, pc, depth, pos, active, fired>>

\* pongoOS calls the head of the chain.
Bootx ==
    /\ pc = "pongo"
    /\ copies > 0
    /\ pc' = "hook"
    /\ depth' = copies
    /\ UNCHANGED <<orig, text, copies, pos, active, fired>>

\* Mutant: the hook patches at once and never calls the next one.
Mut_CallNextHook ==
    /\ pc = "hook"
    /\ depth' = depth - 1
    /\ pc' = "patch"
    /\ UNCHANGED <<orig, text, copies, pos, active, fired>>

\* kextload_preboot_hook calls the next hook before it patches.  The last one
\* is checkra1n's, whose own patches are not modelled.  This is the default build;
\* with DISABLE_CHECKRA1N_KERNEL_PATCHES the next hook is not called at all.
CallNextHook ==
    /\ pc = "hook"
    /\ depth' = depth - 1
    /\ pc' = IF depth = 1 THEN "patch" ELSE "hook"
    /\ UNCHANGED <<orig, text, copies, pos, active, fired>>

\* kextload_patch makes a new patchset and starts the pattern finder.
CreatePatchset ==
    /\ pc = "patch"
    /\ depth' = depth + 1
    /\ pos' = 1
    /\ active' = Patches
    /\ fired' = {}
    /\ pc' = "scan"
    /\ UNCHANGED <<orig, text, copies>>

-----------------------------------------------------------------------------
(* The patterns and their callbacks.                                       *)

\* MSR, any, MSR, any, MSR.
MmuAt(t, i) ==
    /\ {i, i + 4} \subseteq DOMAIN t
    /\ t[i] = "MSR3" /\ t[i + 2] = "MSR4" /\ t[i + 4] = "MSR2"

\* STR, ISB, and the three MSR without anything between them.
AmccAt(t, i) ==
    /\ {i, i + 4} \subseteq DOMAIN t
    /\ t[i] = "STR" /\ t[i + 1] = "ISB"
    /\ t[i + 2] = "MSR3" /\ t[i + 3] = "MSR4" /\ t[i + 4] = "MSR2"

\* A virtual call with a string as its argument.
InitAt(t, i) ==
    /\ {i, i + 5} \subseteq DOMAIN t
    /\ t[i] = "LDR_0" /\ t[i + 1] \in {"LDR_0", "LDR_n"}
    /\ t[i + 2] \in {"ADRP", "ADRP_PBP"} /\ t[i + 3] = "ADD"
    /\ t[i + 4] \in MovX0 /\ t[i + 5] = "BLR"

Nops(t, S) == [i \in DOMAIN t |-> IF i \in S THEN "NOP" ELSE t[i]]

\* Mutant: the instructions between the MSR are overwritten.
Mut_ktrr_mmu_patch ==
    /\ MmuAt(text, pos)
    /\ text' = Nops(text, {pos + 1, pos + 3})
    /\ fired' = fired \cup {"mmu"}
    /\ UNCHANGED active

ktrr_mmu_patch ==
    /\ MmuAt(text, pos)
    /\ text' = Nops(text, {pos, pos + 2, pos + 4})
    /\ fired' = fired \cup {"mmu"}
    /\ UNCHANGED active

ktrr_amcc_patch ==
    /\ AmccAt(text, pos)
    /\ text' = Nops(text, {pos, pos + 2, pos + 3, pos + 4})
    /\ fired' = fired \cup {"amcc"}
    /\ UNCHANGED active

\* Mutant: the search ends one instruction early.
Mut_IsPrologue(t, i, p) ==
    /\ p \in DOMAIN t /\ p <= i /\ i - p < MaxSearch
    /\ t[p] \in Prologue
    /\ \A j \in p + 1 .. i : t[j] \notin Prologue

\* The prologue is the nearest one, if the search gets that far.  A search that
\* comes to the start of the text ends there, where the code reads on.
IsPrologue(t, i, p) ==
    /\ p \in DOMAIN t /\ p <= i /\ i - p <= MaxSearch
    /\ t[p] \in Prologue
    /\ \A j \in p + 1 .. i : t[j] \notin Prologue

\* Mutant: the search keeps the first MOV Xn, X2 it meets.
Mut_IsX2Insn(t, i, p, m) ==
    /\ m \in p + 1 .. i /\ t[m] \in MovX2
    /\ \A j \in m + 1 .. i : t[j] \notin MovX2

\* The instruction that was recorded last, going backwards.
IsX2Insn(t, i, p, m) ==
    /\ m \in p + 1 .. i /\ t[m] \in MovX2
    /\ \A j \in p + 1 .. m - 1 : t[j] \notin MovX2

\* insn |= 0x001F0000
WithXZR(k) == IF k = "MOV_X0_X2" THEN "MOV_X0_XZR" ELSE "MOV_Xn_XZR"

\* The call at position i passes "_PrelinkBundlePath", and m is the instruction
\* that its function saves X2 with.
ClearsAt(t, i, m) ==
    /\ InitAt(t, i)
    /\ t[i + 2] = "ADRP_PBP"
    /\ \E p \in DOMAIN t : IsPrologue(t, i, p) /\ IsX2Insn(t, i, p, m)

\* The callback changes the one instruction and disables itself.
OSKext_init_patch ==
    /\ "init" \in active
    /\ \E m \in DOMAIN text :
         /\ ClearsAt(text, pos, m)
         /\ text' = [text EXCEPT ![m] = WithXZR(@)]
    /\ active' = active \ {"init"}
    /\ fired' = fired \cup {"init"}

\* No pattern matches, or the callback returns false.
NoPatch ==
    /\ ~MmuAt(text, pos)
    /\ ~AmccAt(text, pos)
    /\ ~("init" \in active /\ \E m \in DOMAIN text : ClearsAt(text, pos, m))
    /\ UNCHANGED <<text, active, fired>>

\* The pattern finder offers one position to the patches.  No position matches
\* two patterns: they differ in their first instruction.
Scan ==
    /\ pc = "scan"
    /\ pos \in DOMAIN text
    /\ ktrr_mmu_patch \/ ktrr_amcc_patch \/ OSKext_init_patch \/ NoPatch
    /\ pos' = pos + 1
    /\ UNCHANGED <<orig, pc, copies, depth>>

\* Mutant: the last hook patches once more.
Mut_EndScan ==
    /\ pc = "scan"
    /\ pos \notin DOMAIN text
    /\ pc' = IF fired # Patches THEN "missing"
             ELSE IF depth <= copies THEN "patch" ELSE "xnu"
    /\ UNCHANGED <<orig, text, copies, depth, pos, active, fired>>

\* The end of xnu_pf_apply; the hook returns to the copy that called it.
EndScan ==
    /\ pc = "scan"
    /\ pos \notin DOMAIN text
    /\ pc' = IF fired # Patches THEN "missing"
             ELSE IF depth < copies THEN "patch" ELSE "xnu"
    /\ UNCHANGED <<orig, text, copies, depth, pos, active, fired>>

Init ==
    /\ orig \in Texts
    /\ text = orig
    /\ pc = "pongo"
    /\ copies = 0
    /\ depth = 0
    /\ pos = 1
    /\ active = {}
    /\ fired = {}

Done == pc \in {"xnu", "missing"} /\ UNCHANGED vars

Next ==
    \/ ModuleEntry \/ Bootx \/ CallNextHook \/ CreatePatchset
    \/ Scan \/ EndScan \/ Done

Spec == Init /\ [][Next]_vars

-----------------------------------------------------------------------------
(* Properties.                                                             *)

TypeOK ==
    /\ orig \in Seq(Kinds)
    /\ text \in [DOMAIN orig -> Kinds]
    /\ pc \in {"pongo", "hook", "patch", "scan", "missing", "xnu"}
    /\ copies \in 0 .. MaxCopies
    /\ depth \in 0 .. copies
    /\ pos \in 1 .. Len(orig) + 1
    /\ active \subseteq Patches
    /\ fired \subseteq Patches

\* No KTRR lockdown sequence survives a scan, wherever it is and however the
\* sequences of the two patterns and the patched instructions overlap.
NoLockdownSurvives ==
    pc \in {"missing", "xnu"} =>
        \A i \in DOMAIN text : ~MmuAt(text, i) /\ ~AmccAt(text, i)

\* Where a lockdown sequence of the original kernel has its instructions.
LockdownAt(i) ==
    \/ \E k \in {0, 2, 4} : MmuAt(orig, i - k)
    \/ \E k \in {0, 2, 3, 4} : AmccAt(orig, i - k)

\* The instruction that saves doCoalesedSlides: the first MOV Xn, X2 of a
\* function that passes "_PrelinkBundlePath" to a virtual call.
SavesSlides(m) ==
    /\ orig[m] \in MovX2
    /\ \E p \in DOMAIN orig :
         /\ p < m
         /\ orig[p] \in Prologue
         /\ \A j \in p + 1 .. m - 1 : orig[j] \notin MovX2
         /\ \E i \in DOMAIN orig :
              /\ m <= i /\ i - p <= MaxSearch
              /\ InitAt(orig, i) /\ orig[i + 2] = "ADRP_PBP"
              /\ \A j \in p + 1 .. i : orig[j] \notin Prologue

\* XNU starts with every lockdown sequence taken out, with doCoalesedSlides
\* cleared in one place, and with every other instruction as it was.
BootsAsIntended ==
    pc = "xnu" =>
        LET changed == {i \in DOMAIN text : text[i] # orig[i]} IN
        /\ {i \in changed : orig[i] \in Lockdown} = {i \in DOMAIN orig : LockdownAt(i)}
        /\ \E m \in changed :
             /\ SavesSlides(m)
             /\ text[m] = WithXZR(orig[m])
             /\ changed \ {m} \subseteq {i \in DOMAIN orig : LockdownAt(i)}

\* A module that was loaded once boots every kernel that has the three places
\* it looks for: no patch takes away what another one has to find.
MissingMeansAbsent ==
    (pc = "missing" /\ depth = 1) =>
        \/ \A i \in DOMAIN orig : ~MmuAt(orig, i)
        \/ \A i \in DOMAIN orig : ~AmccAt(orig, i)
        \/ \A m \in DOMAIN orig : ~SavesSlides(m)

\* The patches are applied after the rest of the chain of hooks has run, and
\* by every copy of the module in the order in which the copies were loaded.
\* A second copy finds nothing left to patch, so XNU only boots with one.
BootsWithOneCopy == pc = "xnu" => copies = 1 /\ depth = 1

=============================================================================
