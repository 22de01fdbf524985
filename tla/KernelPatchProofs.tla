-------------------------- MODULE KernelPatchProofs --------------------------
(***************************************************************************)
(* Proofs about KernelPatch, for every kernel, however long and however    *)
(* its instructions overlap.  Patches only write instructions that no      *)
(* lockdown pattern looks for, so a position that does not match, because  *)
(* it never did or because it was patched, never matches again.            *)
(***************************************************************************)
EXTENDS KernelPatch, TLAPS

\* What the patches write.
Written == {"NOP", "MOV_X0_XZR", "MOV_Xn_XZR"}

Clean(t, i) == ~MmuAt(t, i) /\ ~AmccAt(t, i)

\* How far the scan that is running, or the last one, has cleaned the kernel.
ScanInv ==
    /\ pc = "scan" => \A i \in DOMAIN text : i < pos => Clean(text, i)
    /\ pc \in {"missing", "xnu"} => \A i \in DOMAIN text : Clean(text, i)

\* After the first copy there is nothing left for the next one.
SecondInv ==
    /\ pc = "hook" => depth > 0
    /\ pc \in {"scan", "missing", "xnu"} => depth > 0
    /\ pc = "patch" => depth < copies
    /\ pc = "patch" /\ depth > 0 => \A i \in DOMAIN text : Clean(text, i)
    /\ pc = "scan" /\ depth > 1 => "mmu" \notin fired /\ \A i \in DOMAIN text : Clean(text, i)
    /\ pc \in {"hook", "patch", "scan", "xnu"} => copies > 0

IInv == TypeOK /\ ScanInv /\ SecondInv /\ BootsWithOneCopy

LEMMA InitIInv == Init => IInv
  BY TextsAssumption, BoundsAssumption
     DEF Init, IInv, TypeOK, ScanInv, SecondInv, BootsWithOneCopy, Patches

\* A patch does not make a position match.
LEMMA StaysClean ==
    ASSUME TypeOK, NEW i \in DOMAIN text, Clean(text, i), DOMAIN text' = DOMAIN text,
           \A j \in DOMAIN text : text'[j] = text[j] \/ text'[j] \in Written
    PROVE  Clean(text', i)
<1>1. DOMAIN text = 1 .. Len(orig) /\ Len(orig) \in Nat
  BY DEF TypeOK
<1>2. \A k \in 0 .. 4 : i + 4 \in DOMAIN text => i + k \in DOMAIN text
  BY <1>1
<1>3. i + 4 \in DOMAIN text =>
        /\ text[i] = text'[i] \/ text'[i] \in Written
        /\ text[i + 1] = text'[i + 1] \/ text'[i + 1] \in Written
        /\ text[i + 2] = text'[i + 2] \/ text'[i + 2] \in Written
        /\ text[i + 3] = text'[i + 3] \/ text'[i + 3] \in Written
        /\ text[i + 4] = text'[i + 4] \/ text'[i + 4] \in Written
  BY <1>2
<1> QED
  BY <1>3 DEF Clean, MmuAt, AmccAt, Written

\* What one position of the scan does, whichever patch takes it.
LEMMA ScanEffect ==
    ASSUME IInv, Scan
    PROVE  /\ text' \in [DOMAIN orig -> Kinds]
           /\ \A j \in DOMAIN text : text'[j] = text[j] \/ text'[j] \in Written
           /\ active' \subseteq Patches /\ fired' \subseteq Patches
           /\ Clean(text', pos)
           /\ "mmu" \in fired' => "mmu" \in fired \/ MmuAt(text, pos)
<1>1. /\ text \in [DOMAIN orig -> Kinds] /\ pos \in DOMAIN text /\ pos' = pos + 1
      /\ active \subseteq Patches /\ fired \subseteq Patches
      /\ DOMAIN text = DOMAIN orig /\ DOMAIN text = 1 .. Len(orig) /\ Len(orig) \in Nat
  BY DEF IInv, TypeOK, Scan
<1>2. ASSUME NEW S, text' = Nops(text, S)
      PROVE  /\ text' \in [DOMAIN orig -> Kinds]
             /\ \A j \in DOMAIN text : text'[j] = text[j] \/ text'[j] \in Written
             /\ \A j \in S \cap DOMAIN text : text'[j] = "NOP"
  BY <1>1, <1>2 DEF Nops, Written, Kinds
<1>3. CASE ktrr_mmu_patch
  <2>1. text' = Nops(text, {pos, pos + 2, pos + 4})
    BY <1>3 DEF ktrr_mmu_patch
  <2>2. text'[pos] = "NOP"
    BY <1>1, <1>2, <2>1
  <2>3. Clean(text', pos)
    BY <2>2 DEF Clean, MmuAt, AmccAt
  <2> QED
    BY <1>1, <1>2, <1>3, <2>1, <2>3 DEF ktrr_mmu_patch, Patches
<1>4. CASE ktrr_amcc_patch
  <2>1. text' = Nops(text, {pos, pos + 2, pos + 3, pos + 4})
    BY <1>4 DEF ktrr_amcc_patch
  <2>2. text'[pos] = "NOP"
    BY <1>1, <1>2, <2>1
  <2>3. Clean(text', pos)
    BY <2>2 DEF Clean, MmuAt, AmccAt
  <2> QED
    BY <1>1, <1>2, <1>4, <2>1, <2>3 DEF ktrr_amcc_patch, Patches
<1>5. CASE OSKext_init_patch
  <2>1. PICK m \in DOMAIN text :
          ClearsAt(text, pos, m) /\ text' = [text EXCEPT ![m] = WithXZR(text[m])]
    BY <1>5 DEF OSKext_init_patch
  <2>2. WithXZR(text[m]) \in Written /\ Written \subseteq Kinds
    BY DEF WithXZR, Written, Kinds, MovX0
  <2>3. /\ text' \in [DOMAIN orig -> Kinds]
        /\ \A j \in DOMAIN text : text'[j] = text[j] \/ text'[j] \in Written
    BY <1>1, <2>1, <2>2
  <2>4. text[pos] = "LDR_0"
    BY <2>1 DEF ClearsAt, InitAt
  <2>5. Clean(text', pos)
    BY <1>1, <2>3, <2>4 DEF Clean, MmuAt, AmccAt, Written
  <2> QED
    BY <1>1, <1>5, <2>3, <2>5 DEF OSKext_init_patch, Patches
<1>6. CASE NoPatch
  BY <1>1, <1>6 DEF NoPatch, Clean, MmuAt, AmccAt
<1> QED
  BY <1>3, <1>4, <1>5, <1>6 DEF Scan

LEMMA ScanStep == ASSUME IInv, Scan PROVE IInv'
<1>1. /\ pc = "scan" /\ pc' = pc /\ pos' = pos + 1 /\ pos \in DOMAIN text
      /\ UNCHANGED <<orig, copies, depth>>
      /\ DOMAIN text = DOMAIN orig /\ DOMAIN text = 1 .. Len(orig) /\ Len(orig) \in Nat
  BY DEF Scan, IInv, TypeOK
<1>2. DOMAIN text' = DOMAIN text
  BY <1>1, ScanEffect
<1>3. TypeOK'
  BY <1>1, ScanEffect DEF IInv, TypeOK
<1>4. \A i \in DOMAIN text : Clean(text, i) => Clean(text', i)
  BY <1>2, ScanEffect, StaysClean DEF IInv
<1>5. ScanInv'
  BY <1>1, <1>2, <1>4, ScanEffect DEF IInv, ScanInv
<1>6. SecondInv'
  BY <1>1, <1>2, <1>4, ScanEffect DEF IInv, SecondInv, Clean
<1> QED
  BY <1>1, <1>3, <1>5, <1>6 DEF IInv, BootsWithOneCopy

LEMMA EndScanStep == ASSUME IInv, EndScan PROVE IInv'
<1>1. /\ pc = "scan" /\ pos \notin DOMAIN text
      /\ UNCHANGED <<orig, text, copies, depth, pos, active, fired>>
      /\ pos \in 1 .. Len(orig) + 1 /\ Len(orig) \in Nat /\ DOMAIN text = 1 .. Len(orig)
      /\ depth \in 0 .. copies /\ copies \in Nat
  BY BoundsAssumption DEF EndScan, IInv, TypeOK
<1>2. \A i \in DOMAIN text : Clean(text, i)
  <2>1. \A i \in DOMAIN text : i < pos
    BY <1>1
  <2> QED
    BY <1>1, <2>1 DEF IInv, ScanInv
<1>3. /\ pc' = "xnu" => fired = Patches /\ depth = copies
      /\ pc' = "patch" => depth < copies
      /\ pc' \in {"xnu", "patch", "missing"}
  BY <1>1 DEF EndScan
<1>4. TypeOK'
  BY <1>1, <1>3 DEF IInv, TypeOK
<1>5. BootsWithOneCopy'
  BY <1>1, <1>3 DEF IInv, SecondInv, BootsWithOneCopy, Patches
<1>6. ScanInv' /\ SecondInv'
  BY <1>1, <1>2, <1>3 DEF IInv, ScanInv, SecondInv
<1> QED
  BY <1>4, <1>5, <1>6 DEF IInv

\* The steps that leave the kernel alone.
LEMMA HookStep ==
    ASSUME IInv, ModuleEntry \/ Bootx \/ CallNextHook \/ CreatePatchset
    PROVE  IInv'
<1> USE DEF ModuleEntry, Bootx, CallNextHook, CreatePatchset
<1>1. text' = text /\ orig' = orig
  OBVIOUS
<1>2. TypeOK'
  BY BoundsAssumption DEF IInv, TypeOK, SecondInv
<1>3. SecondInv'
  BY BoundsAssumption DEF IInv, TypeOK, SecondInv
<1>4. ScanInv'
  <2>1. \A i \in DOMAIN text : ~(i < 1)
    BY DEF IInv, TypeOK
  <2> QED
    BY <1>1, <2>1 DEF IInv, ScanInv
<1> QED
  BY <1>2, <1>3, <1>4 DEF IInv, BootsWithOneCopy

LEMMA StutterStep == ASSUME IInv, UNCHANGED vars PROVE IInv'
  BY DEF IInv, vars, TypeOK, ScanInv, SecondInv, BootsWithOneCopy

\* The inductive invariant: the positions behind the scan are clean and stay so,
\* and what one copy of the module has cleaned no other copy finds again.
THEOREM Invariance == Spec => []IInv
<1>1. IInv /\ [Next]_vars => IInv'
  BY HookStep, ScanStep, EndScanStep, StutterStep DEF Next, Done
<1> QED
  BY <1>1, InitIInv, PTL DEF Spec

\* The patcher's state keeps its type, and the kernel's code its length.
THEOREM TypeCorrect == Spec => []TypeOK
<1>1. IInv => TypeOK
  BY DEF IInv
<1> QED
  BY <1>1, Invariance, PTL

\* Whatever the kernel's code is, no KTRR lockdown sequence is left in it when
\* the patcher is done.
THEOREM LockdownGone == Spec => []NoLockdownSurvives
<1>1. IInv => NoLockdownSurvives
  BY DEF IInv, ScanInv, Clean, NoLockdownSurvives
<1> QED
  BY <1>1, Invariance, PTL

\* Whatever the kernel's code is, a device that loaded the module twice does not
\* get past the second copy's required patches.
THEOREM OneCopyBoots == Spec => []BootsWithOneCopy
<1>1. IInv => BootsWithOneCopy
  BY DEF IInv
<1> QED
  BY <1>1, Invariance, PTL

-----------------------------------------------------------------------------
(* What the first copy of the module does to the kernel.  The instructions *)
(* of two lockdown sequences never coincide, and no patch writes over what *)
(* another one looks for, so each patch finds the kernel as if the others  *)
(* had not run.                                                            *)

\* Instruction j belongs to a lockdown sequence that begins before q.
LockedBefore(j, q) ==
    \/ \E k \in {0, 2, 4} : j - k < q /\ MmuAt(orig, j - k)
    \/ \E k \in {0, 2, 3, 4} : j - k < q /\ AmccAt(orig, j - k)

\* Instruction j when the lockdown sequences before pos are taken out.
Unlocked(j) == IF LockedBefore(j, pos) THEN "NOP" ELSE orig[j]

FirstCopy == depth = 1 /\ pc \in {"scan", "missing", "xnu"}

FiredInv ==
    /\ "mmu" \in fired <=> \E i \in DOMAIN orig : i < pos /\ MmuAt(orig, i)
    /\ "amcc" \in fired <=> \E i \in DOMAIN orig : i < pos /\ AmccAt(orig, i)
    /\ "init" \in fired <=> "init" \notin active
    /\ "init" \notin fired =>
         \A i, m \in DOMAIN orig : i < pos => ~ClearsAt(orig, i, m)

TextInv ==
    /\ "init" \notin fired => \A j \in DOMAIN orig : text[j] = Unlocked(j)
    /\ "init" \in fired =>
         \E m \in DOMAIN orig :
            /\ SavesSlides(m)
            /\ text[m] = WithXZR(orig[m])
            /\ \A j \in DOMAIN orig \ {m} : text[j] = Unlocked(j)

FirstInv ==
    /\ pc \in {"pongo", "hook"} \/ (pc = "patch" /\ depth = 0) => text = orig
    /\ pc \in {"missing", "xnu"} => pos = Len(orig) + 1
    /\ pc = "xnu" => fired = Patches
    /\ pc = "missing" => fired # Patches
    /\ FirstCopy => FiredInv /\ TextInv

FullInv == IInv /\ FirstInv

\* A lockdown sequence's instructions are of its own kinds.
LEMMA LockedKinds ==
    ASSUME TypeOK, NEW j \in DOMAIN orig, NEW q \in Int, LockedBefore(j, q)
    PROVE  orig[j] \in Lockdown
  BY DEF TypeOK, LockedBefore, MmuAt, AmccAt, Lockdown

\* A lockdown sequence shares no instruction with one that begins before it.
LEMMA MmuApart ==
    ASSUME TypeOK, NEW i \in DOMAIN orig, MmuAt(orig, i), NEW j \in {i, i + 2, i + 4}
    PROVE  ~LockedBefore(j, i)
<1> SUFFICES ASSUME LockedBefore(j, i) PROVE FALSE
  OBVIOUS
<1>1. i \in Int /\ orig[i] = "MSR3" /\ orig[i + 2] = "MSR4" /\ orig[i + 4] = "MSR2"
  BY DEF TypeOK, MmuAt
<1>2. CASE \E l \in {0, 2, 4} : j - l < i /\ MmuAt(orig, j - l)
  BY <1>1, <1>2 DEF MmuAt
<1>3. CASE \E l \in {0, 2, 3, 4} : j - l < i /\ AmccAt(orig, j - l)
  BY <1>1, <1>3 DEF AmccAt
<1> QED
  BY <1>2, <1>3 DEF LockedBefore

LEMMA AmccApart ==
    ASSUME TypeOK, NEW i \in DOMAIN orig, AmccAt(orig, i), NEW j \in {i, i + 1, i + 2, i + 3, i + 4}
    PROVE  ~LockedBefore(j, i)
<1> SUFFICES ASSUME LockedBefore(j, i) PROVE FALSE
  OBVIOUS
<1>1. /\ i \in Int /\ orig[i] = "STR" /\ orig[i + 1] = "ISB" /\ orig[i + 2] = "MSR3"
      /\ orig[i + 3] = "MSR4" /\ orig[i + 4] = "MSR2"
  BY DEF TypeOK, AmccAt
<1>2. CASE \E l \in {0, 2, 4} : j - l < i /\ MmuAt(orig, j - l)
  BY <1>1, <1>2 DEF MmuAt
<1>3. CASE \E l \in {0, 2, 3, 4} : j - l < i /\ AmccAt(orig, j - l)
  BY <1>1, <1>3 DEF AmccAt
<1> QED
  BY <1>2, <1>3 DEF LockedBefore

\* As far as the callback of the third patch can tell, instructions a and b are
\* the same.
Alike(a, b) == a = b \/ (a = "NOP" /\ b \in Lockdown)

\* That callback searches a kernel with lockdown sequences taken out as it would
\* search the kernel they are in.
LEMMA AlikeClears ==
    ASSUME TypeOK, \A j \in DOMAIN orig : Alike(text[j], orig[j]),
           NEW i \in DOMAIN orig, NEW m \in DOMAIN orig
    PROVE  ClearsAt(text, i, m) <=> ClearsAt(orig, i, m)
<1>1. /\ DOMAIN text = DOMAIN orig /\ DOMAIN orig = 1 .. Len(orig) /\ Len(orig) \in Nat
      /\ i \in Nat /\ m \in Nat
  BY DEF TypeOK
<1>2. \A j \in DOMAIN orig :
        /\ text[j] \in Prologue <=> orig[j] \in Prologue
        /\ text[j] \in MovX2 <=> orig[j] \in MovX2
        /\ text[j] \in MovX0 <=> orig[j] \in MovX0
        /\ \A k \in {"LDR_0", "LDR_n", "ADRP", "ADRP_PBP", "ADD", "BLR"} :
             text[j] = k <=> orig[j] = k
  BY DEF Alike, Lockdown, Prologue, MovX2, MovX0
<1>3. InitAt(text, i) /\ text[i + 2] = "ADRP_PBP"
        <=> InitAt(orig, i) /\ orig[i + 2] = "ADRP_PBP"
  <2>1. i + 5 \in DOMAIN orig =>
          {i + 1, i + 2, i + 3, i + 4} \subseteq DOMAIN orig
    BY <1>1
  <2> QED
    BY <1>1, <1>2, <2>1 DEF InitAt
<1>4. ASSUME NEW p \in DOMAIN orig
      PROVE  /\ IsPrologue(text, i, p) <=> IsPrologue(orig, i, p)
             /\ IsX2Insn(text, i, p, m) <=> IsX2Insn(orig, i, p, m)
  <2>1. p + 1 .. i \subseteq DOMAIN orig /\ p + 1 .. m - 1 \subseteq DOMAIN orig
    BY <1>1
  <2>2. IsPrologue(text, i, p) <=> IsPrologue(orig, i, p)
    BY <1>1, <1>2, <2>1 DEF IsPrologue
  <2>3. IsX2Insn(text, i, p, m) <=> IsX2Insn(orig, i, p, m)
    BY <1>1, <1>2, <2>1 DEF IsX2Insn
  <2> QED
    BY <2>2, <2>3
<1> QED
  BY <1>1, <1>3, <1>4 DEF ClearsAt

\* What the callback changes is the instruction that saves doCoalesedSlides.
LEMMA ClearsSaves ==
    ASSUME TypeOK, NEW m \in DOMAIN orig
    PROVE  SavesSlides(m) <=> \E i \in DOMAIN orig : ClearsAt(orig, i, m)
<1>1. DOMAIN orig = 1 .. Len(orig) /\ Len(orig) \in Nat /\ MaxSearch \in Nat
  BY BoundsAssumption DEF TypeOK
<1>2. ASSUME NEW i \in DOMAIN orig, ClearsAt(orig, i, m)
      PROVE  SavesSlides(m)
  <2>1. PICK p \in DOMAIN orig : IsPrologue(orig, i, p) /\ IsX2Insn(orig, i, p, m)
    BY <1>2 DEF ClearsAt
  <2> QED
    BY <1>1, <1>2, <2>1 DEF ClearsAt, IsPrologue, IsX2Insn, SavesSlides
<1>3. ASSUME SavesSlides(m)
      PROVE  \E i \in DOMAIN orig : ClearsAt(orig, i, m)
  <2>1. PICK p \in DOMAIN orig, i \in DOMAIN orig :
          /\ p < m /\ orig[p] \in Prologue /\ \A j \in p + 1 .. m - 1 : orig[j] \notin MovX2
          /\ m <= i /\ i - p <= MaxSearch
          /\ InitAt(orig, i) /\ orig[i + 2] = "ADRP_PBP"
          /\ \A j \in p + 1 .. i : orig[j] \notin Prologue
          /\ orig[m] \in MovX2
    BY <1>3 DEF SavesSlides
  <2>2. IsPrologue(orig, i, p) /\ IsX2Insn(orig, i, p, m)
    BY <1>1, <2>1 DEF IsPrologue, IsX2Insn
  <2> QED
    BY <2>1, <2>2 DEF ClearsAt
<1> QED
  BY <1>2, <1>3

\* In its first scan the pattern finder sees at pos what the kernel had there.
LEMMA SeesOriginal ==
    ASSUME IInv, TextInv, NEW i \in DOMAIN orig, i = pos
    PROVE  /\ MmuAt(text, i) <=> MmuAt(orig, i)
           /\ AmccAt(text, i) <=> AmccAt(orig, i)
           /\ "init" \notin fired =>
                \A m \in DOMAIN orig : ClearsAt(text, i, m) <=> ClearsAt(orig, i, m)
<1>1. /\ TypeOK /\ DOMAIN text = DOMAIN orig /\ DOMAIN orig = 1 .. Len(orig)
      /\ Len(orig) \in Nat /\ i \in Int
  BY DEF IInv, TypeOK
<1>2. ASSUME NEW j \in DOMAIN orig
      PROVE  \/ text[j] = Unlocked(j)
             \/ text[j] \in {"MOV_X0_XZR", "MOV_Xn_XZR"} /\ orig[j] \in MovX2
  <2>1. CASE "init" \notin fired
    BY <2>1 DEF TextInv
  <2>2. CASE "init" \in fired
    <3>1. PICK m \in DOMAIN orig :
            /\ SavesSlides(m) /\ text[m] = WithXZR(orig[m])
            /\ \A l \in DOMAIN orig \ {m} : text[l] = Unlocked(l)
      BY <2>2 DEF TextInv
    <3> QED
      BY <3>1 DEF SavesSlides, WithXZR
  <2> QED
    BY <2>1, <2>2
<1>3. ASSUME NEW j \in DOMAIN orig, text[j] \in Lockdown \cup {"ISB"}
      PROVE  text[j] = orig[j]
  BY <1>2, <1>3 DEF Unlocked, Lockdown
<1>4. ASSUME NEW j \in DOMAIN orig, orig[j] \in Lockdown \cup {"ISB"}, ~LockedBefore(j, pos)
      PROVE  text[j] = orig[j]
  BY <1>2, <1>4 DEF Unlocked, Lockdown, MovX2
<1>5. i + 4 \in DOMAIN orig => {i + 1, i + 2, i + 3} \subseteq DOMAIN orig
  BY <1>1
<1>6. MmuAt(text, i) <=> MmuAt(orig, i)
  <2>1. ASSUME MmuAt(text, i) PROVE MmuAt(orig, i)
    BY <1>1, <1>3, <1>5, <2>1 DEF MmuAt, Lockdown
  <2>2. ASSUME MmuAt(orig, i) PROVE MmuAt(text, i)
    <3>1. ~LockedBefore(i, i) /\ ~LockedBefore(i + 2, i) /\ ~LockedBefore(i + 4, i)
      BY <1>1, <2>2, MmuApart
    <3> QED
      BY <1>1, <1>4, <1>5, <2>2, <3>1 DEF MmuAt, Lockdown
  <2> QED
    BY <2>1, <2>2
<1>7. AmccAt(text, i) <=> AmccAt(orig, i)
  <2>1. ASSUME AmccAt(text, i) PROVE AmccAt(orig, i)
    BY <1>1, <1>3, <1>5, <2>1 DEF AmccAt, Lockdown
  <2>2. ASSUME AmccAt(orig, i) PROVE AmccAt(text, i)
    <3>1. /\ ~LockedBefore(i, i) /\ ~LockedBefore(i + 1, i) /\ ~LockedBefore(i + 2, i)
          /\ ~LockedBefore(i + 3, i) /\ ~LockedBefore(i + 4, i)
      BY <1>1, <2>2, AmccApart
    <3> QED
      BY <1>1, <1>4, <1>5, <2>2, <3>1 DEF AmccAt, Lockdown
  <2> QED
    BY <2>1, <2>2
<1>8. ASSUME "init" \notin fired, NEW m \in DOMAIN orig
      PROVE  ClearsAt(text, i, m) <=> ClearsAt(orig, i, m)
  <2>1. \A j \in DOMAIN orig : text[j] = Unlocked(j)
    BY <1>8 DEF TextInv
  <2>2. pos \in Int
    BY DEF IInv, TypeOK
  <2>3. \A j \in DOMAIN orig : Alike(text[j], orig[j])
    BY <1>1, <2>1, <2>2, LockedKinds DEF Unlocked, Alike
  <2> QED
    BY <1>1, <2>3, AlikeClears
<1> QED
  BY <1>6, <1>7, <1>8

\* One position further, the sequences that begin at this position are added.
LEMMA LockedNext ==
    ASSUME TypeOK, NEW j \in DOMAIN orig, NEW q \in DOMAIN orig
    PROVE  LockedBefore(j, q + 1) <=>
             \/ LockedBefore(j, q)
             \/ MmuAt(orig, q) /\ j \in {q, q + 2, q + 4}
             \/ AmccAt(orig, q) /\ j \in {q, q + 2, q + 3, q + 4}
<1>1. j \in Int /\ q \in Int
  BY DEF TypeOK
<1>2. \A k \in {0, 2, 3, 4} : j - k < q + 1 <=> j - k < q \/ j - k = q
  BY <1>1
<1>3. \A k \in {0, 2, 3, 4} : j - k = q <=> j = q + k
  BY <1>1
<1>4. /\ q + 0 = q
      /\ j \in {q, q + 2, q + 4} <=> \E k \in {0, 2, 4} : j = q + k
      /\ j \in {q, q + 2, q + 3, q + 4} <=> \E k \in {0, 2, 3, 4} : j = q + k
  BY <1>1
<1>5. (\E k \in {0, 2, 4} : j - k < q + 1 /\ MmuAt(orig, j - k)) <=>
        \/ \E k \in {0, 2, 4} : j - k < q /\ MmuAt(orig, j - k)
        \/ MmuAt(orig, q) /\ \E k \in {0, 2, 4} : j = q + k
  BY <1>2, <1>3
<1>6. (\E k \in {0, 2, 3, 4} : j - k < q + 1 /\ AmccAt(orig, j - k)) <=>
        \/ \E k \in {0, 2, 3, 4} : j - k < q /\ AmccAt(orig, j - k)
        \/ AmccAt(orig, q) /\ \E k \in {0, 2, 3, 4} : j = q + k
  BY <1>2, <1>3
<1> QED
  BY <1>4, <1>5, <1>6 DEF LockedBefore

\* A lockdown patch takes out the instructions S of a sequence that begins here.
LEMMA NopsStep ==
    ASSUME IInv, TextInv, pos \in DOMAIN orig, NEW S \in SUBSET DOMAIN orig,
           \A j \in S : orig[j] \in Lockdown,
           \A j \in DOMAIN orig : LockedBefore(j, pos + 1) <=> LockedBefore(j, pos) \/ j \in S,
           text' = Nops(text, S), orig' = orig, pos' = pos + 1,
           "init" \in fired' <=> "init" \in fired
    PROVE  TextInv'
<1>1. TypeOK /\ DOMAIN text = DOMAIN orig
  BY DEF IInv, TypeOK
<1>2. \A j \in DOMAIN orig : text'[j] = IF j \in S THEN "NOP" ELSE text[j]
  BY <1>1 DEF Nops
<1>3. \A j \in DOMAIN orig : LockedBefore(j, pos)' <=> LockedBefore(j, pos + 1)
  BY DEF LockedBefore
<1>4. \A j \in DOMAIN orig : Unlocked(j)' = IF j \in S THEN "NOP" ELSE Unlocked(j)
  BY <1>3 DEF Unlocked
<1>5. CASE "init" \notin fired
  BY <1>2, <1>4, <1>5 DEF TextInv
<1>6. CASE "init" \in fired
  <2>1. PICK m \in DOMAIN orig :
          /\ SavesSlides(m) /\ text[m] = WithXZR(orig[m])
          /\ \A j \in DOMAIN orig \ {m} : text[j] = Unlocked(j)
    BY <1>6 DEF TextInv
  <2>2. m \notin S
    BY <2>1 DEF SavesSlides, MovX2, Lockdown
  <2>3. SavesSlides(m)'
    BY <2>1 DEF SavesSlides
  <2> QED
    BY <1>2, <1>4, <1>6, <2>1, <2>2, <2>3 DEF TextInv
<1> QED
  BY <1>5, <1>6

\* The first copy's scan, one position at a time.
LEMMA FirstScanStep == ASSUME FullInv, Scan PROVE FirstInv'
<1>1. /\ IInv /\ TypeOK /\ pc = "scan" /\ pc' = "scan" /\ pos \in DOMAIN orig
      /\ pos' = pos + 1 /\ orig' = orig /\ depth' = depth
      /\ DOMAIN text = DOMAIN orig /\ DOMAIN orig = 1 .. Len(orig) /\ Len(orig) \in Nat
      /\ pos \in Nat
  BY DEF FullInv, Scan, IInv, TypeOK
<1>2. CASE depth # 1
  BY <1>1, <1>2 DEF FirstInv, FirstCopy
<1>3. CASE depth = 1
  <2>1. FiredInv /\ TextInv
    BY <1>1, <1>3 DEF FullInv, FirstInv, FirstCopy
  <2>2. /\ MmuAt(text, pos) <=> MmuAt(orig, pos)
        /\ AmccAt(text, pos) <=> AmccAt(orig, pos)
        /\ "init" \notin fired =>
             \A m \in DOMAIN orig : ClearsAt(text, pos, m) <=> ClearsAt(orig, pos, m)
    BY <1>1, <2>1, SeesOriginal
  <2>3. \A i \in DOMAIN orig : i < pos + 1 <=> i < pos \/ i = pos
    BY <1>1
  <2>4. /\ (\E i \in DOMAIN orig' : i < pos' /\ MmuAt(orig', i))
             <=> (\E i \in DOMAIN orig : i < pos /\ MmuAt(orig, i)) \/ MmuAt(orig, pos)
        /\ (\E i \in DOMAIN orig' : i < pos' /\ AmccAt(orig', i))
             <=> (\E i \in DOMAIN orig : i < pos /\ AmccAt(orig, i)) \/ AmccAt(orig, pos)
        /\ (\A i, m \in DOMAIN orig' : i < pos' => ~ClearsAt(orig', i, m))
             <=> /\ \A i, m \in DOMAIN orig : i < pos => ~ClearsAt(orig, i, m)
                 /\ \A m \in DOMAIN orig : ~ClearsAt(orig, pos, m)
    BY <1>1, <2>3
  <2>5. /\ MmuAt(orig, pos) => ~AmccAt(orig, pos)
        /\ MmuAt(orig, pos) \/ AmccAt(orig, pos) => \A m \in DOMAIN orig : ~ClearsAt(orig, pos, m)
    BY DEF MmuAt, AmccAt, ClearsAt, InitAt
  <2>6. FiredInv' /\ TextInv'
    <3>1. CASE ktrr_mmu_patch
      <4> DEFINE S == {pos, pos + 2, pos + 4}
      <4>1. /\ MmuAt(orig, pos) /\ text' = Nops(text, S) /\ fired' = fired \cup {"mmu"}
            /\ active' = active
        BY <2>2, <3>1 DEF ktrr_mmu_patch
      <4>2. S \in SUBSET DOMAIN orig /\ \A j \in S : orig[j] \in Lockdown
        BY <1>1, <4>1 DEF MmuAt, Lockdown
      <4>3. \A j \in DOMAIN orig : LockedBefore(j, pos + 1) <=> LockedBefore(j, pos) \/ j \in S
        BY <1>1, <2>5, <4>1, LockedNext
      <4>4. FiredInv'
        BY <2>1, <2>4, <2>5, <4>1 DEF FiredInv
      <4>5. "init" \in fired' <=> "init" \in fired
        BY <4>1
      <4> HIDE DEF S
      <4> QED
        BY <1>1, <2>1, <4>1, <4>2, <4>3, <4>4, <4>5, NopsStep
    <3>2. CASE ktrr_amcc_patch
      <4> DEFINE S == {pos, pos + 2, pos + 3, pos + 4}
      <4>1. /\ AmccAt(orig, pos) /\ text' = Nops(text, S) /\ fired' = fired \cup {"amcc"}
            /\ active' = active
        BY <2>2, <3>2 DEF ktrr_amcc_patch
      <4>2. S \in SUBSET DOMAIN orig /\ \A j \in S : orig[j] \in Lockdown
        BY <1>1, <4>1 DEF AmccAt, Lockdown
      <4>3. \A j \in DOMAIN orig : LockedBefore(j, pos + 1) <=> LockedBefore(j, pos) \/ j \in S
        BY <1>1, <2>5, <4>1, LockedNext
      <4>4. FiredInv'
        BY <2>1, <2>4, <2>5, <4>1 DEF FiredInv
      <4>5. "init" \in fired' <=> "init" \in fired
        BY <4>1
      <4> HIDE DEF S
      <4> QED
        BY <1>1, <2>1, <4>1, <4>2, <4>3, <4>4, <4>5, NopsStep
    <3>3. CASE OSKext_init_patch
      <4>1. PICK m \in DOMAIN orig :
              ClearsAt(text, pos, m) /\ text' = [text EXCEPT ![m] = WithXZR(text[m])]
        BY <1>1, <3>3 DEF OSKext_init_patch
      <4>2. /\ "init" \notin fired /\ active' = active \ {"init"} /\ fired' = fired \cup {"init"}
        BY <2>1, <3>3 DEF OSKext_init_patch, FiredInv
      <4>3. ClearsAt(orig, pos, m) /\ ~MmuAt(orig, pos) /\ ~AmccAt(orig, pos)
        BY <2>2, <2>5, <4>1, <4>2
      <4>4. SavesSlides(m)
        BY <1>1, <4>3, ClearsSaves
      <4>5. \A j \in DOMAIN orig : text[j] = Unlocked(j)
        BY <2>1, <4>2 DEF TextInv
      <4>6. text[m] = orig[m]
        <5>1. orig[m] \notin Lockdown
          BY <4>4 DEF SavesSlides, MovX2, Lockdown
        <5> QED
          BY <1>1, <4>5, <5>1, LockedKinds DEF Unlocked
      <4>7. \A j \in DOMAIN orig : Unlocked(j)' = Unlocked(j)
        <5>1. \A j \in DOMAIN orig : LockedBefore(j, pos)' <=> LockedBefore(j, pos + 1)
          BY <1>1 DEF LockedBefore
        <5>2. \A j \in DOMAIN orig : LockedBefore(j, pos + 1) <=> LockedBefore(j, pos)
          BY <1>1, <4>3, LockedNext
        <5> QED
          BY <1>1, <5>1, <5>2 DEF Unlocked
      <4>8. SavesSlides(m)'
        BY <1>1, <4>4 DEF SavesSlides
      <4>9. TextInv'
        BY <1>1, <4>1, <4>2, <4>5, <4>6, <4>7, <4>8 DEF TextInv
      <4>10. FiredInv'
        BY <2>1, <2>4, <4>2, <4>3 DEF FiredInv
      <4> QED
        BY <4>9, <4>10
    <3>4. CASE NoPatch
      <4>1. /\ ~MmuAt(orig, pos) /\ ~AmccAt(orig, pos)
            /\ text' = text /\ active' = active /\ fired' = fired
            /\ "init" \notin fired => \A m \in DOMAIN orig : ~ClearsAt(orig, pos, m)
        BY <1>1, <2>1, <2>2, <3>4 DEF NoPatch, FiredInv
      <4>2. \A j \in DOMAIN orig : Unlocked(j)' = Unlocked(j)
        <5>1. \A j \in DOMAIN orig : LockedBefore(j, pos)' <=> LockedBefore(j, pos + 1)
          BY <1>1 DEF LockedBefore
        <5>2. \A j \in DOMAIN orig : LockedBefore(j, pos + 1) <=> LockedBefore(j, pos)
          BY <1>1, <4>1, LockedNext
        <5> QED
          BY <1>1, <5>1, <5>2 DEF Unlocked
      <4>3. TextInv'
        <5>1. \A m \in DOMAIN orig : SavesSlides(m)' <=> SavesSlides(m)
          BY <1>1 DEF SavesSlides
        <5> QED
          BY <1>1, <2>1, <4>1, <4>2, <5>1 DEF TextInv
      <4>4. FiredInv'
        BY <2>1, <2>4, <4>1 DEF FiredInv
      <4> QED
        BY <4>3, <4>4
    <3> QED
      BY <3>1, <3>2, <3>3, <3>4 DEF Scan
  <2> QED
    BY <1>1, <2>6 DEF FirstInv, FirstCopy
<1> QED
  BY <1>2, <1>3

\* The other steps of the boot.
LEMMA FirstOtherStep ==
    ASSUME FullInv, ModuleEntry \/ Bootx \/ CallNextHook \/ CreatePatchset \/ EndScan
                      \/ UNCHANGED vars
    PROVE  FirstInv'
<1>1. /\ IInv /\ TypeOK /\ FirstInv /\ DOMAIN orig = 1 .. Len(orig) /\ Len(orig) \in Nat
      /\ pos \in 1 .. Len(orig) + 1 /\ DOMAIN text = DOMAIN orig /\ depth \in Nat
  BY BoundsAssumption DEF FullInv, IInv, TypeOK
<1>2. CASE ModuleEntry
  BY <1>1, <1>2 DEF ModuleEntry, FirstInv, FirstCopy
<1>3. CASE Bootx
  BY <1>1, <1>3 DEF Bootx, FirstInv, FirstCopy
<1>4. CASE CallNextHook
  BY <1>1, <1>4 DEF CallNextHook, FirstInv, FirstCopy
<1>5. CASE CreatePatchset
  <2>1. /\ pc' = "scan" /\ pos' = 1 /\ fired' = {} /\ active' = Patches /\ depth' = depth + 1
        /\ text' = text /\ orig' = orig
        /\ depth' = 1 => text = orig
    BY <1>1, <1>5 DEF CreatePatchset, FirstInv
  <2>2. \A i \in DOMAIN orig : ~(i < 1)
    BY <1>1
  <2>3. FiredInv'
    BY <2>1, <2>2 DEF FiredInv, Patches
  <2>4. \A j \in DOMAIN orig : ~LockedBefore(j, 1)
    <3>1. \A i \in Int : i < 1 => ~MmuAt(orig, i) /\ ~AmccAt(orig, i)
      BY <1>1 DEF MmuAt, AmccAt
    <3>2. \A j \in DOMAIN orig : \A k \in {0, 2, 3, 4} : j - k \in Int
      BY <1>1
    <3> QED
      BY <3>1, <3>2 DEF LockedBefore
  <2>5. \A j \in DOMAIN orig : LockedBefore(j, pos)' <=> LockedBefore(j, 1)
    BY <2>1 DEF LockedBefore
  <2>6. text = orig => TextInv'
    BY <2>1, <2>4, <2>5 DEF TextInv, Unlocked
  <2> QED
    BY <2>1, <2>3, <2>6 DEF FirstInv, FirstCopy
<1>6. CASE EndScan
  <2>1. /\ pc = "scan" /\ pos = Len(orig) + 1 /\ pc' \in {"missing", "patch", "xnu"}
        /\ pc' = "xnu" => fired = Patches
        /\ pc' = "missing" => fired # Patches
        /\ UNCHANGED <<orig, text, copies, depth, pos, active, fired>>
    BY <1>1, <1>6 DEF EndScan
  <2>2. depth > 0
    BY <2>1 DEF FullInv, IInv, SecondInv
  <2>3. FiredInv' <=> FiredInv
    BY <2>1 DEF FiredInv
  <2>4. TextInv' <=> TextInv
    BY <2>1 DEF TextInv, Unlocked, LockedBefore, SavesSlides
  <2> QED
    BY <1>1, <2>1, <2>2, <2>3, <2>4 DEF FirstInv, FirstCopy
<1>7. CASE UNCHANGED vars
  <2>1. FiredInv' <=> FiredInv
    BY <1>7 DEF vars, FiredInv
  <2>2. TextInv' <=> TextInv
    BY <1>7 DEF vars, TextInv, Unlocked, LockedBefore, SavesSlides
  <2> QED
    BY <1>1, <1>7, <2>1, <2>2 DEF vars, FirstInv, FirstCopy
<1> QED
  BY <1>2, <1>3, <1>4, <1>5, <1>6, <1>7

\* The kernel the first copy leaves is known instruction by instruction.
THEOREM FullInvariance == Spec => []FullInv
<1>1. Init => FullInv
  BY InitIInv DEF Init, FullInv, FirstInv, FirstCopy
<1>2. FullInv /\ [Next]_vars => FullInv'
  <2>1. FullInv /\ [Next]_vars => FirstInv'
    BY FirstScanStep, FirstOtherStep DEF Next, Done
  <2>2. IInv /\ [Next]_vars => IInv'
    BY HookStep, ScanStep, EndScanStep, StutterStep DEF Next, Done
  <2> QED
    BY <2>1, <2>2 DEF FullInv
<1> QED
  BY <1>1, <1>2, PTL DEF Spec

\* Whatever the kernel's code is, XNU starts with exactly the lockdown sequences
\* taken out and doCoalesedSlides cleared in one place, and not one instruction
\* else changed: neither pattern's callback reaches into what the others patch.
THEOREM BootsIntended == Spec => []BootsAsIntended
<1>1. FullInv => BootsAsIntended
  <2> SUFFICES ASSUME FullInv, pc = "xnu" PROVE BootsAsIntended
    BY DEF BootsAsIntended
  <2> DEFINE changed == {i \in DOMAIN text : text[i] # orig[i]}
             locked  == {i \in DOMAIN orig : LockdownAt(i)}
  <2>1. /\ TypeOK /\ depth = 1 /\ pos = Len(orig) + 1 /\ "init" \in fired /\ TextInv
        /\ DOMAIN text = DOMAIN orig /\ DOMAIN orig = 1 .. Len(orig) /\ Len(orig) \in Nat
    BY DEF FullInv, FirstInv, FirstCopy, IInv, TypeOK, BootsWithOneCopy, Patches
  <2>2. \A j \in DOMAIN orig : LockedBefore(j, pos) <=> LockdownAt(j)
    <3>1. \A j \in DOMAIN orig : \A k \in {0, 2, 3, 4} : j - k < pos
      BY <2>1
    <3> QED
      BY <3>1 DEF LockedBefore, LockdownAt
  <2>3. \A j \in DOMAIN orig : LockdownAt(j) => orig[j] \in Lockdown
    BY <2>1, <2>2, LockedKinds
  <2>4. PICK m \in DOMAIN orig :
          /\ SavesSlides(m) /\ text[m] = WithXZR(orig[m])
          /\ \A j \in DOMAIN orig \ {m} : text[j] = Unlocked(j)
    BY <2>1 DEF TextInv
  <2>5. orig[m] \in MovX2 /\ m \in changed /\ m \notin locked
    BY <2>1, <2>3, <2>4 DEF SavesSlides, WithXZR, MovX2, Lockdown
  <2>6. \A j \in DOMAIN orig \ {m} : text[j] # orig[j] <=> LockdownAt(j)
    BY <2>2, <2>3, <2>4 DEF Unlocked, Lockdown
  <2>7. {i \in changed : orig[i] \in Lockdown} = locked
    BY <2>1, <2>3, <2>5, <2>6 DEF MovX2, Lockdown
  <2>8. changed \ {m} \subseteq locked
    BY <2>1, <2>6
  <2> QED
    BY <2>4, <2>5, <2>7, <2>8 DEF BootsAsIntended
<1> QED
  BY <1>1, FullInvariance, PTL

\* Whatever the kernel's code is, the first copy of the module reports a missing
\* patch only when the kernel never had the place for it.
THEOREM MissingAbsent == Spec => []MissingMeansAbsent
<1>1. FullInv => MissingMeansAbsent
  <2> SUFFICES ASSUME FullInv, pc = "missing", depth = 1 PROVE MissingMeansAbsent
    BY DEF MissingMeansAbsent
  <2>1. /\ TypeOK /\ pos = Len(orig) + 1 /\ fired # Patches /\ fired \subseteq Patches /\ FiredInv
        /\ DOMAIN orig = 1 .. Len(orig) /\ Len(orig) \in Nat
    BY DEF FullInv, FirstInv, FirstCopy, IInv, TypeOK
  <2>2. \A i \in DOMAIN orig : i < pos
    BY <2>1
  <2>3. "mmu" \notin fired \/ "amcc" \notin fired \/ "init" \notin fired
    BY <2>1 DEF Patches
  <2>4. "init" \notin fired => \A m \in DOMAIN orig : ~SavesSlides(m)
    BY <2>1, <2>2, ClearsSaves DEF FiredInv
  <2> QED
    BY <2>1, <2>2, <2>3, <2>4 DEF MissingMeansAbsent, FiredInv
<1> QED
  BY <1>1, FullInvariance, PTL

=============================================================================
