-------------------------- MODULE LoadSessionProofs --------------------------
(***************************************************************************)
(* Proofs about LoadSession, for every number of kernel extensions and     *)
(* whatever USB requests fail.  The order and the contents of what is      *)
(* inserted rest on one assumption about time, SleepCovers: a command is   *)
(* over before the host wakes up from the sleep that follows it.  That     *)
(* bundle IDs are unique needs less: that no overlap of a command and an   *)
(* upload has corrupted the device's memory.                               *)
(***************************************************************************)
EXTENDS LoadSession, FiniteSetTheorems, SequenceTheorems, TLAPS

Entry == [parsed : 0 .. NumKexts, mapped : 0 .. NumKexts,
          linked : 0 .. NumKexts, id : 0 .. IdSpace - 1]

Reading == {"map", "link", "insert"}

\* kext_id counts the insertions, and each one shows its own.
IdInv ==
    /\ kextId = Len(inserted)
    /\ \A i \in DOMAIN inserted : inserted[i].id = (i - 1) % IdSpace

\* The kextload commands in a queue, whether one is being run, and how many of
\* its stages the host has sent one for.
PendingIn(q) == {i \in 1 .. Len(q) : q[i] = "kextload"}
Busy         == IF run \in {"parse"} \cup Reading THEN 1 ELSE 0
LoadsSent    == IF stage < 2 THEN 0 ELSE IF step = "sleep" THEN stage - 1 ELSE stage - 2

\* Every insertion answers a kextload command of its own, however late it is.
LoadsInv == Len(inserted) + Busy + Cardinality(PendingIn(cmds)) <= LoadsSent

\* While the host is not asleep, the device runs nothing of the module.
QuietInv ==
    step # "sleep" =>
        /\ run = "idle"
        /\ \A i \in DOMAIN cmds : cmds[i] \in {"xfb", "bootx"}

\* A load that is under way has read one upload so far, and it is still there.
ReadInv ==
    /\ run # "idle" => count = 0
    /\ run \in Reading => recv.kind = "kext" /\ info.parsed = recv.kext
    /\ run \in {"link", "insert"} => info.mapped = recv.kext
    /\ run = "insert" => info.linked = recv.kext

\* The upload in the buffer is newer than anything inserted, as long as a handler
\* can still take it; what is inserted belongs to stages that are over.
Takeable ==
    \/ recv.kind = "kext" /\ (count = 1 \/ (run = "parse" /\ size = 1))
    \/ run \in Reading

OrderInv ==
    /\ recv.kind = "kext" => 0 < recv.kext /\ recv.kext < stage
    /\ Takeable => \A i \in DOMAIN inserted : inserted[i].parsed < recv.kext
    /\ \A i \in DOMAIN inserted : inserted[i].parsed < stage
    /\ step # "sleep" => \A i \in DOMAIN inserted : inserted[i].parsed < stage - 1
    /\ \A i \in DOMAIN inserted : i <= inserted[i].parsed

SleptInv == QuietInv /\ ReadInv /\ OrderInv /\ InsertedIntact /\ InsertedInOrder

\* The whole upload of this stage is in the buffer, and consumable.
Uploaded == recv = PayloadOf(stage, TRUE) /\ count = 1

\* The command of this stage is queued, behind at most xfb, or being run.
UnderWay ==
    /\ step = "sleep"
    /\ recv = PayloadOf(stage, TRUE)
    /\ \/ /\ run = "idle" /\ count = 1 /\ cmds # <<>>
          /\ cmds[Len(cmds)] = CommandOf(stage)
          /\ \A i \in 1 .. Len(cmds) - 1 : cmds[i] = "xfb"
       \/ run # "idle" /\ size = 1

\* What a stage brings about on the device.
Effect(n) ==
    /\ n = ModuleStage => modLoaded
    /\ n = SymbolsStage /\ modLoaded => symLinked
    /\ n \in KextStages /\ modLoaded /\ symLinked =>
         \E i \in DOMAIN inserted : inserted[i].parsed = KextOf(n)

\* The commands and handlers of a stage do not outlive it.
StageInv ==
    /\ \A i \in DOMAIN cmds : cmds[i] \in {"xfb", "bootx", CommandOf(stage)}
    /\ result = "running" /\ step # "sleep" => \A i \in DOMAIN cmds : cmds[i] = "xfb"
    /\ run = "symbols" => stage = SymbolsStage
    /\ run \in {"parse"} \cup Reading => stage \in KextStages
    /\ run # "idle" => modLoaded
    /\ run \in Reading => symLinked

DeliveredInv ==
    /\ \A n \in delivered : n <= stage /\ (n = stage => step = "sleep")
    /\ \A n \in delivered : Effect(n) \/ (n = stage /\ UnderWay)
    /\ sent /\ step # "sleep" => step = "cmd" /\ Uploaded /\ stage # BootStage

IInv ==
    /\ TypeOK
    /\ IdInv
    /\ LoadsInv
    /\ SleepCovers => SleptInv
    /\ SleepCovers => StageInv
    /\ SleepCovers /\ ~DeviceFaults => DeliveredInv

LEMMA SmallModulo ==
    ASSUME NEW x \in Nat, NEW y \in Nat, x < y
    PROVE  x % y = x
  OBVIOUS

-----------------------------------------------------------------------------
(* Type correctness.                                                       *)

\* An upload of a stage before the boot is a payload.
LEMMA PayloadTyped ==
    ASSUME NEW n \in Stages, n # BootStage, NEW w \in BOOLEAN
    PROVE  PayloadOf(n, w) \in Payload
<1> DEFINE kind == IF n = ModuleStage THEN "module"
                   ELSE IF n = SymbolsStage THEN "symbols" ELSE "kext"
           kext == IF n \in KextStages THEN KextOf(n) ELSE 0
<1>1. kind \in Kinds
  BY DEF Kinds
<1>2. kext \in 0 .. NumKexts
  BY NumKextsAssumption DEF Stages, BootStage, KextStages, KextOf
<1>3. PayloadOf(n, w) = [kind |-> kind, kext |-> kext, whole |-> w]
  BY DEF PayloadOf
<1> HIDE DEF kind, kext
<1> QED
  BY <1>1, <1>2, <1>3 DEF Payload

\* The host's steps keep the types.
LEMMA HostTyped ==
    ASSUME TypeOK, Host
    PROVE  TypeOK'
<1>0. /\ stage \in Nat /\ stage <= NumKexts + 2 /\ NumKexts \in Nat /\ cmds \in Seq(Commands)
  BY NumKextsAssumption DEF TypeOK, Stages
<1>1. CASE MapFile
  BY <1>1 DEF MapFile, TypeOK, devVars, moduleVars, bufVars
<1>2. CASE SendXfb
  <2>1. cmds' \in Seq(Commands)
    BY <1>0, <1>2 DEF SendXfb, Send, Commands
  <2> QED
    BY <1>2, <2>1 DEF SendXfb, TypeOK, devVars, moduleVars, bufVars
<1>3. CASE InitBulkUpload
  BY <1>3 DEF InitBulkUpload, TypeOK, devVars, moduleVars
<1>4. CASE SendBulkData
  <2>1. stage # BootStage /\ stage \in Stages
    BY <1>4 DEF SendBulkData, TypeOK
  <2>2. recv' \in Payload /\ count' \in {0, 1}
    BY <1>4, <2>1, PayloadTyped DEF SendBulkData, TypeOK
  <2>3. sent' \in BOOLEAN
    BY <1>4 DEF SendBulkData
  <2>4. step' \in {"cmd", "discard"}
    BY <1>4 DEF SendBulkData
  <2> QED
    BY <1>4, <2>1, <2>2, <2>3, <2>4 DEF SendBulkData, TypeOK, devVars, moduleVars
<1>5. CASE DiscardBulkUpload
  BY <1>5 DEF DiscardBulkUpload, TypeOK, devVars, moduleVars
<1>6. CASE SendCommand
  <2>1. CommandOf(stage) \in Commands
    BY DEF CommandOf, Commands
  <2>2. cmds' \in Seq(Commands)
    BY <1>0, <1>6, <2>1 DEF SendCommand
  <2>3. delivered' \subseteq Stages
    BY <1>6 DEF SendCommand, TypeOK
  <2>4. step' \in {"cmd", "sleep"} /\ result' \in {"running", "done"} /\ (stage = BootStage => step' = "cmd")
    BY <1>6 DEF SendCommand
  <2> QED
    BY <1>6, <2>2, <2>3, <2>4 DEF SendCommand, TypeOK, devVars, moduleVars, bufVars
<1>7. CASE Sleep
  <2>1. stage # BootStage
    BY <1>7 DEF Sleep, TypeOK
  <2>2. stage' \in Stages
    BY <1>0, <1>7, <2>1 DEF Sleep, BootStage, Stages
  <2>3. step' \in {"cmd", "map"} /\ (stage' = BootStage => step' = "cmd")
    BY <1>7 DEF Sleep
  <2>4. sent' = FALSE
    BY <1>7 DEF Sleep
  <2> QED
    BY <1>7, <2>2, <2>3, <2>4 DEF Sleep, TypeOK, devVars, moduleVars, bufVars
<1> QED
  BY <1>1, <1>2, <1>3, <1>4, <1>5, <1>6, <1>7 DEF Host

\* Taking a command leaves a shorter queue.
LEMMA TakeTyped ==
    ASSUME TypeOK, NEW c, Take(c)
    PROVE  /\ cmds' \in Seq(Commands) /\ cmds # <<>> /\ Head(cmds) = c
           /\ Len(cmds) \in Nat \ {0} /\ Len(cmds') = Len(cmds) - 1
           /\ DOMAIN cmds = 1 .. Len(cmds) /\ DOMAIN cmds' = 1 .. Len(cmds')
           /\ \A i \in DOMAIN cmds' : i + 1 \in DOMAIN cmds /\ cmds'[i] = cmds[i + 1]
           /\ cmds[1] = c
  BY DEF Take, TypeOK

\* The device's steps keep the types.
LEMMA DeviceTyped ==
    ASSUME TypeOK, Device
    PROVE  TypeOK'
<1>1. CASE IgnoreCommand
  <2>1. cmds' \in Seq(Commands) /\ UNCHANGED hostVars
    BY <1>1, TakeTyped DEF IgnoreCommand, Take
  <2> QED
    BY <1>1, <2>1 DEF IgnoreCommand, TypeOK, hostVars, devVars, moduleVars, bufVars
<1>2. CASE Modload
  <2>1. cmds' \in Seq(Commands) /\ UNCHANGED hostVars
    BY <1>2, TakeTyped DEF Modload, Take
  <2>2. modLoaded' \in BOOLEAN
    BY <1>2 DEF Modload, TypeOK
  <2> QED
    BY <1>2, <2>1, <2>2 DEF Modload, TypeOK, hostVars
<1>3. CASE Bootx
  <2>1. cmds' \in Seq(Commands) /\ UNCHANGED hostVars
    BY <1>3, TakeTyped DEF Bootx, Take
  <2>2. booted' \in BOOLEAN
    BY <1>3 DEF Bootx
  <2> QED
    BY <1>3, <2>1, <2>2 DEF Bootx, TypeOK, hostVars, moduleVars, bufVars
<1>4. CASE StartSymbols \/ StartKextload
  <2>1. PICK c \in Commands, ph \in {"symbols", "parse"} : Enter(c, ph)
    BY <1>4 DEF StartSymbols, StartKextload, Commands
  <2>2. cmds' \in Seq(Commands) /\ UNCHANGED hostVars
    BY <2>1, TakeTyped DEF Enter, Take
  <2>3. run' \in Phases /\ size' \in {0, 1} /\ count' = 0
    BY <2>1 DEF Enter, TypeOK, Phases
  <2> QED
    BY <2>1, <2>2, <2>3 DEF Enter, TypeOK, hostVars, moduleVars
<1>5. CASE LinkSymbols
  <2>1. symLinked' \in BOOLEAN
    BY <1>5 DEF LinkSymbols, TypeOK
  <2> QED
    BY <1>5, <2>1 DEF LinkSymbols, TypeOK, Phases, hostVars, bufVars
<1>6. CASE ParseKext \/ MapKext \/ LinkKext
  <2>1. recv.kext \in 0 .. NumKexts
    BY DEF TypeOK, Payload
  <2>2. info' \in [parsed : 0..NumKexts, mapped : 0..NumKexts, linked : 0..NumKexts]
    BY <1>6, <2>1 DEF ParseKext, MapKext, LinkKext, TypeOK
  <2>3. run' \in Phases
    BY <1>6 DEF ParseKext, MapKext, LinkKext, Phases
  <2> QED
    BY <1>6, <2>2, <2>3 DEF ParseKext, MapKext, LinkKext, TypeOK, hostVars, bufVars, moduleVars
<1>7. CASE InsertKext
  <2>1. kextId % IdSpace \in 0 .. IdSpace - 1
    BY IdSpaceAssumption DEF TypeOK
  <2> DEFINE new == [parsed |-> info.parsed, mapped |-> info.mapped,
                     linked |-> info.linked, id |-> kextId % IdSpace]
  <2>2. new \in Entry /\ inserted \in Seq(Entry)
    BY <2>1 DEF TypeOK, Entry
  <2> HIDE DEF new
  <2>3. inserted' \in Seq(Entry)
    <3>1. inserted' = Append(inserted, new) \/ inserted' = inserted
      BY <1>7 DEF InsertKext, new
    <3> QED
      BY <2>2, <3>1, AppendProperties
  <2>4. kextId' \in Nat
    BY <1>7 DEF InsertKext, TypeOK
  <2> QED
    BY <1>7, <2>3, <2>4 DEF InsertKext, TypeOK, Entry, Phases, hostVars, bufVars
<1> QED
  BY <1>1, <1>2, <1>3, <1>4, <1>5, <1>6, <1>7 DEF Device

-----------------------------------------------------------------------------
(* The invariant.                                                          *)

\* What the type invariant says of the inserted entries.
LEMMA InsertedFacts ==
    ASSUME TypeOK
    PROVE  /\ inserted \in Seq(Entry) /\ Len(inserted) \in Nat
           /\ DOMAIN inserted = 1 .. Len(inserted)
           /\ \A i \in DOMAIN inserted :
                inserted[i] \in Entry /\ inserted[i].parsed \in 0 .. NumKexts
           /\ recv.kext \in 0 .. NumKexts /\ info.parsed \in 0 .. NumKexts
           /\ stage \in Nat /\ NumKexts \in Nat /\ kextId \in Nat
<1>1. inserted \in Seq(Entry)
  BY DEF TypeOK, Entry
<1>2. Len(inserted) \in Nat /\ DOMAIN inserted = 1 .. Len(inserted)
  BY <1>1, LenProperties
<1>3. \A i \in DOMAIN inserted : inserted[i] \in Entry
  BY <1>1, <1>2, ElementOfSeq
<1>4. \A i \in DOMAIN inserted : inserted[i].parsed \in 0 .. NumKexts
  BY <1>3 DEF Entry
<1>5. recv.kext \in 0 .. NumKexts /\ info.parsed \in 0 .. NumKexts /\ kextId \in Nat
  BY DEF TypeOK, Payload
<1>6. stage \in Nat /\ NumKexts \in Nat
  BY NumKextsAssumption DEF TypeOK, Stages
<1> QED
  BY <1>1, <1>2, <1>3, <1>4, <1>5, <1>6

\* kext_insert appends one entry, or gives up.
LEMMA InsertKextEffect ==
    ASSUME TypeOK, InsertKext
    PROVE  \/ /\ inserted' \in Seq(Entry) /\ Len(inserted') = Len(inserted) + 1
              /\ DOMAIN inserted' = 1 .. Len(inserted) + 1
              /\ \A i \in DOMAIN inserted : inserted'[i] = inserted[i]
              /\ inserted'[Len(inserted) + 1].parsed = info.parsed
              /\ inserted'[Len(inserted) + 1].mapped = info.mapped
              /\ inserted'[Len(inserted) + 1].linked = info.linked
              /\ inserted'[Len(inserted) + 1].id = kextId % IdSpace
              /\ kextId' = kextId + 1
           \/ /\ DeviceFaults
              /\ UNCHANGED <<inserted, kextId>>
<1> DEFINE new == [parsed |-> info.parsed, mapped |-> info.mapped,
                   linked |-> info.linked, id |-> kextId % IdSpace]
<1>1. new \in Entry
  <2>1. kextId % IdSpace \in 0 .. IdSpace - 1
    BY IdSpaceAssumption DEF TypeOK
  <2> QED
    BY <2>1 DEF TypeOK, Entry
<1>2. /\ new.parsed = info.parsed /\ new.mapped = info.mapped
      /\ new.linked = info.linked /\ new.id = kextId % IdSpace
  OBVIOUS
<1>3. \/ inserted' = Append(inserted, new) /\ kextId' = kextId + 1
      \/ DeviceFaults /\ UNCHANGED <<inserted, kextId>>
  BY DEF InsertKext
<1> HIDE DEF new
<1>4. CASE inserted' = Append(inserted, new) /\ kextId' = kextId + 1
  <2>1. /\ inserted' \in Seq(Entry) /\ Len(inserted') = Len(inserted) + 1
        /\ \A i \in 1 .. Len(inserted) : inserted'[i] = inserted[i]
        /\ inserted'[Len(inserted) + 1] = new
    BY <1>1, <1>4, InsertedFacts, AppendProperties
  <2>2. DOMAIN inserted' = 1 .. Len(inserted) + 1
    BY <2>1, LenProperties
  <2> QED
    BY <1>2, <1>4, <2>1, <2>2, InsertedFacts
<1> QED
  BY <1>3, <1>4

\* kext_id and the entries change together.
LEMMA IdStep ==
    ASSUME TypeOK, IdInv, [Next]_vars
    PROVE  IdInv'
<1>1. CASE InsertKext
  <2>0. /\ Len(inserted) \in Nat /\ DOMAIN inserted = 1 .. Len(inserted) /\ kextId = Len(inserted)
    BY InsertedFacts DEF IdInv
  <2>1. CASE UNCHANGED <<inserted, kextId>>
    BY <2>1 DEF IdInv
  <2>2. CASE ~UNCHANGED <<inserted, kextId>>
    <3>1. /\ Len(inserted') = Len(inserted) + 1 /\ DOMAIN inserted' = 1 .. Len(inserted) + 1
          /\ \A i \in DOMAIN inserted : inserted'[i] = inserted[i]
          /\ inserted'[Len(inserted) + 1].id = kextId % IdSpace /\ kextId' = kextId + 1
      BY <1>1, <2>2, InsertKextEffect
    <3>2. (Len(inserted) + 1) - 1 = kextId
      BY <2>0
    <3>3. ASSUME NEW i \in DOMAIN inserted' PROVE inserted'[i].id = (i - 1) % IdSpace
      <4>1. CASE i \in DOMAIN inserted
        BY <3>1, <4>1 DEF IdInv
      <4>2. CASE i = Len(inserted) + 1
        BY <3>1, <3>2, <4>2
      <4> QED
        BY <2>0, <3>1, <4>1, <4>2
    <3> QED
      BY <2>0, <3>1, <3>3 DEF IdInv
  <2> QED
    BY <2>1, <2>2
<1>2. CASE ~InsertKext
  <2>1. UNCHANGED <<inserted, kextId>>
    BY <1>2 DEF Next, Host, Device, Finished, vars, MapFile, SendXfb, InitBulkUpload,
         SendBulkData, DiscardBulkUpload, SendCommand, Sleep, IgnoreCommand, Modload, Bootx,
         StartSymbols, StartKextload, Enter, LinkSymbols, ParseKext, MapKext, LinkKext,
         devVars, moduleVars
  <2> QED
    BY <2>1 DEF IdInv
<1> QED
  BY <1>1, <1>2

-----------------------------------------------------------------------------
(* Counting the loads.                                                     *)

\* A queue holds finitely many commands.
LEMMA PendingFinite ==
    ASSUME NEW q \in Seq(Commands)
    PROVE  IsFiniteSet(PendingIn(q)) /\ Cardinality(PendingIn(q)) \in Nat
<1>1. Len(q) \in Nat
  BY LenProperties
<1>2. IsFiniteSet(1 .. Len(q)) /\ PendingIn(q) \in SUBSET (1 .. Len(q))
  BY <1>1, FS_Interval DEF PendingIn
<1>3. IsFiniteSet(PendingIn(q))
  BY <1>2, FS_Subset
<1> QED
  BY <1>3, FS_CardinalityType

\* A command is put into the queue.
LEMMA PendingAppend ==
    ASSUME NEW q \in Seq(Commands), NEW c \in Commands
    PROVE  Cardinality(PendingIn(Append(q, c))) =
             Cardinality(PendingIn(q)) + (IF c = "kextload" THEN 1 ELSE 0)
<1>1. PICK n : n = Len(q)
  OBVIOUS
<1>2. PICK a : a = Append(q, c)
  OBVIOUS
<1>3. n \in Nat /\ Len(a) = n + 1 /\ a[n + 1] = c /\ \A i \in 1 .. n : a[i] = q[i]
  BY <1>1, <1>2, LenProperties, AppendProperties
<1>4. IsFiniteSet(PendingIn(q)) /\ Cardinality(PendingIn(q)) \in Nat
  BY PendingFinite
<1>5. n + 1 \notin PendingIn(q)
  BY <1>1, <1>3 DEF PendingIn
<1>6. 1 .. n + 1 = (1 .. n) \cup {n + 1}
  BY <1>3
<1>7. CASE c = "kextload"
  <2>1. PendingIn(a) = PendingIn(q) \cup {n + 1}
    BY <1>1, <1>3, <1>6, <1>7 DEF PendingIn
  <2>2. Cardinality(PendingIn(a)) = Cardinality(PendingIn(q)) + 1
    BY <1>4, <1>5, <2>1, FS_AddElement
  <2> QED
    BY <1>2, <1>7, <2>2
<1>8. CASE c # "kextload"
  <2>1. PendingIn(a) = PendingIn(q)
    BY <1>1, <1>3, <1>6, <1>8 DEF PendingIn
  <2> QED
    BY <1>2, <1>4, <1>8, <2>1
<1> QED
  BY <1>7, <1>8

\* The first command is taken from the queue.
LEMMA PendingTail ==
    ASSUME NEW q \in Seq(Commands), q # <<>>
    PROVE  Cardinality(PendingIn(Tail(q))) + (IF Head(q) = "kextload" THEN 1 ELSE 0)
             <= Cardinality(PendingIn(q))
<1>1. PICK n : n = Len(q)
  OBVIOUS
<1>2. PICK r : r = Tail(q)
  OBVIOUS
<1>3. /\ n \in Nat \ {0} /\ r \in Seq(Commands) /\ Len(r) = n - 1 /\ Head(q) = q[1]
      /\ \A i \in 1 .. n - 1 : r[i] = q[i + 1]
  BY <1>1, <1>2, LenProperties, EmptySeq, HeadTailProperties
<1> DEFINE S == PendingIn(r)
           V == PendingIn(q) \ {1}
           f == [i \in S |-> i + 1]
<1>4. f \in Injection(S, V)
  <2>1. ASSUME NEW i \in S PROVE i + 1 \in V
    <3>1. i \in 1 .. n - 1 /\ r[i] = "kextload"
      BY <1>3 DEF PendingIn
    <3>2. i + 1 \in 1 .. n /\ i + 1 # 1
      BY <1>3, <3>1
    <3> QED
      BY <1>1, <1>3, <3>1, <3>2 DEF PendingIn
  <2>2. f \in [S -> V]
    BY <2>1
  <2>3. ASSUME NEW i \in S, NEW j \in S, f[i] = f[j] PROVE i = j
    <3>1. i \in Nat /\ j \in Nat /\ i + 1 = j + 1
      BY <2>3 DEF PendingIn
    <3> QED
      BY <3>1
  <2> HIDE DEF f, S, V
  <2> QED
    BY <2>2, <2>3 DEF Injection, IsInjective
<1>5. IsFiniteSet(PendingIn(q)) /\ Cardinality(PendingIn(q)) \in Nat /\ Cardinality(S) \in Nat
  BY <1>3, PendingFinite
<1>6. /\ IsFiniteSet(V)
      /\ Cardinality(V) = IF 1 \in PendingIn(q) THEN Cardinality(PendingIn(q)) - 1
                          ELSE Cardinality(PendingIn(q))
  BY <1>5, FS_RemoveElement
<1>7. Cardinality(S) <= Cardinality(V)
  <2> HIDE DEF f, S, V
  <2> QED
    BY <1>4, <1>6, FS_Injection
<1>8. Head(q) = "kextload" => 1 \in PendingIn(q)
  BY <1>1, <1>3 DEF PendingIn
<1>9. PICK s : s = Cardinality(S)
  OBVIOUS
<1>10. PICK p : p = Cardinality(PendingIn(q))
  OBVIOUS
<1>11. s \in Nat /\ p \in Nat /\ s <= IF 1 \in PendingIn(q) THEN p - 1 ELSE p
  BY <1>5, <1>6, <1>7, <1>9, <1>10
<1>12. s + (IF Head(q) = "kextload" THEN 1 ELSE 0) <= p
  BY <1>8, <1>11
<1> QED
  BY <1>2, <1>9, <1>10, <1>12

\* A step that changes none of the counts.
LEMMA LoadsSame ==
    ASSUME LoadsInv, Cardinality(PendingIn(cmds')) = Cardinality(PendingIn(cmds)),
           Len(inserted') = Len(inserted), Busy' = Busy, LoadsSent' = LoadsSent
    PROVE  LoadsInv'
  BY DEF LoadsInv

\* The host sends one kextload for each of its stages.
LEMMA HostLoads ==
    ASSUME TypeOK, LoadsInv, Host
    PROVE  LoadsInv'
<1>1. UNCHANGED <<inserted, run>>
  BY DEF Host, MapFile, SendXfb, InitBulkUpload, SendBulkData, DiscardBulkUpload, SendCommand,
       Sleep, devVars, moduleVars
<1>2. Len(inserted') = Len(inserted) /\ Busy' = Busy
  BY <1>1 DEF Busy
<1>3. stage \in 0 .. NumKexts + 2 /\ stage \in Nat /\ NumKexts \in Nat /\ cmds \in Seq(Commands)
  BY NumKextsAssumption DEF TypeOK, Stages
<1>4. CASE MapFile \/ InitBulkUpload \/ SendBulkData \/ DiscardBulkUpload
  <2>1. cmds' = cmds /\ stage' = stage /\ step # "sleep" /\ step' # "sleep"
    BY <1>4 DEF MapFile, InitBulkUpload, SendBulkData, DiscardBulkUpload
  <2>2. LoadsSent' = LoadsSent
    BY <2>1 DEF LoadsSent
  <2> QED
    BY <1>2, <2>1, <2>2, LoadsSame
<1>5. CASE SendXfb
  <2>1. stage' = stage /\ step # "sleep" /\ step' # "sleep"
    BY <1>5 DEF SendXfb
  <2>2. LoadsSent' = LoadsSent
    BY <2>1 DEF LoadsSent
  <2>3. cmds' = Append(cmds, "xfb") \/ cmds' = cmds
    BY <1>5 DEF SendXfb, Send
  <2>4. Cardinality(PendingIn(cmds')) = Cardinality(PendingIn(cmds))
    <3>1. "xfb" \in Commands /\ "xfb" # "kextload"
      BY DEF Commands
    <3> QED
      <4>1. CASE cmds' = cmds
        BY <4>1
      <4>2. CASE cmds' = Append(cmds, "xfb")
        <5>1. Cardinality(PendingIn(Append(cmds, "xfb"))) =
                Cardinality(PendingIn(cmds)) + (IF "xfb" = "kextload" THEN 1 ELSE 0)
          BY <1>3, <3>1, PendingAppend
        <5>2. Cardinality(PendingIn(cmds)) \in Nat
          BY <1>3, PendingFinite
        <5> QED
          BY <3>1, <4>2, <5>1, <5>2
      <4> QED
        BY <2>3, <4>1, <4>2
  <2> QED
    BY <1>2, <2>2, <2>4, LoadsSame
<1>6. CASE SendCommand
  <2>1. PICK n : n = Cardinality(PendingIn(cmds))
    OBVIOUS
  <2>2. PICK m : m = Cardinality(PendingIn(cmds'))
    OBVIOUS
  <2>3. PICK c : c = CommandOf(stage)
    OBVIOUS
  <2>4. c \in Commands /\ (c = "kextload" => stage \in KextStages)
    BY <2>3 DEF CommandOf, Commands
  <2>5. n \in Nat /\ (m = n \/ (m = n + 1 /\ stage \in KextStages))
    <3>1. n \in Nat
      BY <1>3, <2>1, PendingFinite
    <3>2. cmds' = cmds \/ cmds' = Append(cmds, c)
      BY <1>6, <2>3 DEF SendCommand
    <3>3. ASSUME cmds' = Append(cmds, c) PROVE m = n + (IF c = "kextload" THEN 1 ELSE 0)
      BY <1>3, <2>1, <2>2, <2>4, <3>3, PendingAppend
    <3> QED
      BY <2>1, <2>2, <2>4, <3>1, <3>2, <3>3
  <2>6. /\ stage' = stage /\ step = "cmd"
        /\ stage # BootStage => step' = "sleep"
        /\ stage = BootStage => step' = "cmd"
    BY <1>6 DEF SendCommand
  <2>7. LoadsSent \in Nat /\ LoadsSent' \in Nat /\ LoadsSent' >= LoadsSent
    BY <1>3, <2>6 DEF LoadsSent
  <2>8. stage \in KextStages => LoadsSent' = LoadsSent + 1
    BY <1>3, <2>6 DEF LoadsSent, KextStages, BootStage
  <2>9. Len(inserted) \in Nat /\ Busy \in Nat /\ Len(inserted) + Busy + n <= LoadsSent
    BY <2>1, InsertedFacts DEF LoadsInv, Busy
  <2>10. Len(inserted) + Busy + m <= LoadsSent'
    BY <2>5, <2>7, <2>8, <2>9
  <2> QED
    BY <1>2, <2>2, <2>10 DEF LoadsInv
<1>7. CASE Sleep
  <2>1. /\ cmds' = cmds /\ stage' = stage + 1 /\ step = "sleep" /\ step' # "sleep"
    BY <1>7 DEF Sleep
  <2>2. LoadsSent' = LoadsSent
    BY <1>3, <2>1 DEF LoadsSent
  <2> QED
    BY <1>2, <2>1, <2>2, LoadsSame
<1> QED
  BY <1>4, <1>5, <1>6, <1>7 DEF Host

\* A load that the device runs was in its queue, and what it inserts was a load
\* that it ran.
LEMMA DeviceLoads ==
    ASSUME TypeOK, LoadsInv, Device
    PROVE  LoadsInv'
<1>1. PICK n : n = Cardinality(PendingIn(cmds))
  OBVIOUS
<1>2. PICK m : m = Cardinality(PendingIn(cmds'))
  OBVIOUS
<1>3. PICK l : l = Len(inserted)
  OBVIOUS
<1>4. /\ n \in Nat /\ l \in Nat /\ Busy \in {0, 1} /\ LoadsSent \in Nat
      /\ l + Busy + n <= LoadsSent
  <2>1. cmds \in Seq(Commands) /\ stage \in Nat
    BY InsertedFacts DEF TypeOK
  <2>2. LoadsSent \in Nat
    BY <2>1 DEF LoadsSent
  <2> QED
    BY <1>1, <1>3, <2>1, <2>2, PendingFinite, InsertedFacts DEF LoadsInv, Busy
<1>5. LoadsSent' = LoadsSent
  BY DEF LoadsSent, hostVars, Device, IgnoreCommand, Modload, Bootx, StartSymbols, StartKextload,
       Enter, Take, LinkSymbols, ParseKext, MapKext, LinkKext, InsertKext
<1>6. ASSUME NEW c, Take(c)
      PROVE  m \in Nat /\ m + (IF c = "kextload" THEN 1 ELSE 0) <= n
  <2>1. cmds \in Seq(Commands) /\ cmds # <<>> /\ Head(cmds) = c /\ cmds' = Tail(cmds)
    BY <1>6 DEF TypeOK, Take
  <2>2. m \in Nat
    BY <1>2, <1>6, TakeTyped, PendingFinite
  <2> QED
    BY <1>1, <1>2, <2>1, <2>2, PendingTail
<1>7. ASSUME Len(inserted') + Busy' <= l + Busy, Len(inserted') \in Nat, Busy' \in {0, 1},
             m \in Nat, m <= n
      PROVE  LoadsInv'
  BY <1>2, <1>4, <1>5, <1>7 DEF LoadsInv
<1>8. CASE IgnoreCommand \/ Modload \/ Bootx \/ StartSymbols
  <2>1. PICK c : Take(c)
    BY <1>8 DEF IgnoreCommand, Modload, Bootx, StartSymbols, Enter
  <2>2. m \in Nat /\ m <= n
    BY <1>4, <1>6, <2>1
  <2>3. inserted' = inserted /\ run = "idle" /\ run' \in {"idle", "symbols"}
    BY <1>8 DEF IgnoreCommand, Modload, Bootx, StartSymbols, Enter, Take, devVars, moduleVars
  <2>4. Len(inserted') = l /\ Busy = 0 /\ Busy' = 0
    BY <1>3, <2>3 DEF Busy, Reading
  <2> QED
    BY <1>4, <1>7, <2>2, <2>4
<1>9. CASE StartKextload
  <2>1. m \in Nat /\ m + 1 <= n
    BY <1>6, <1>9 DEF StartKextload, Enter
  <2>2. inserted' = inserted /\ run = "idle" /\ run' = "parse"
    BY <1>9 DEF StartKextload, Enter, Take, moduleVars
  <2>3. Len(inserted') = l /\ Busy = 0 /\ Busy' = 1
    BY <1>3, <2>2 DEF Busy, Reading
  <2>4. l + 1 + m <= LoadsSent
    BY <1>4, <2>1, <2>3
  <2> QED
    BY <1>2, <1>5, <2>3, <2>4 DEF LoadsInv
<1>10. CASE LinkSymbols \/ ParseKext \/ MapKext \/ LinkKext
  <2>1. /\ cmds' = cmds /\ inserted' = inserted
        /\ Busy' <= Busy /\ Busy' \in {0, 1}
    <3>1. cmds' = cmds /\ inserted' = inserted
      BY <1>10 DEF LinkSymbols, ParseKext, MapKext, LinkKext, moduleVars
    <3>2. \/ run = "symbols" /\ run' = "idle"
          \/ /\ run \in {"parse", "map", "link"}
             /\ run' \in {"idle", "map", "link", "insert", "corrupted"}
      BY <1>10 DEF LinkSymbols, ParseKext, MapKext, LinkKext
    <3> QED
      BY <3>1, <3>2 DEF Busy, Reading
  <2>2. m = n /\ Len(inserted') = l
    BY <1>1, <1>2, <1>3, <2>1
  <2>3. Len(inserted') + Busy' <= l + Busy /\ Len(inserted') \in Nat /\ m \in Nat /\ m <= n
    <3>1. PICK b : b = Busy
      OBVIOUS
    <3>2. PICK c : c = Busy'
      OBVIOUS
    <3>3. b \in {0, 1} /\ c \in {0, 1} /\ c <= b
      BY <1>4, <2>1, <3>1, <3>2
    <3>4. l + c <= l + b
      BY <1>4, <3>3
    <3> QED
      BY <1>4, <2>2, <3>1, <3>2, <3>4
  <2> QED
    BY <1>7, <2>1, <2>3
<1>11. CASE InsertKext
  <2>1. cmds' = cmds /\ Busy = 1 /\ Busy' = 0
    BY <1>11 DEF InsertKext, Busy, Reading
  <2>2. Len(inserted') = l + 1 \/ Len(inserted') = l
    BY <1>3, <1>11, InsertKextEffect
  <2>3. m = n
    BY <1>1, <1>2, <2>1
  <2> QED
    BY <1>4, <1>7, <2>1, <2>2, <2>3
<1> QED
  BY <1>8, <1>9, <1>10, <1>11 DEF Device

-----------------------------------------------------------------------------
(* The order and the contents of what is inserted.                         *)

\* While the host sends, nothing of the module runs; a new upload is newer than
\* what is inserted.
LEMMA HostSlept ==
    ASSUME TypeOK, SleepCovers, SleptInv, Host
    PROVE  SleptInv'
<1> USE DEF SleptInv
<1>0. /\ UNCHANGED <<run, size, info, inserted>> /\ UNCHANGED devVars
  BY DEF Host, MapFile, SendXfb, InitBulkUpload, SendBulkData, DiscardBulkUpload, SendCommand,
       Sleep, devVars, moduleVars
<1>1. InsertedIntact' /\ InsertedInOrder'
  BY <1>0 DEF InsertedIntact, InsertedInOrder
<1>2. CASE MapFile \/ InitBulkUpload \/ DiscardBulkUpload
  <2>1. /\ UNCHANGED <<recv, stage, cmds>> /\ count' \in {0, count} /\ step # "sleep"
        /\ step' # "sleep" /\ count \in {0, 1}
    BY <1>2 DEF MapFile, InitBulkUpload, DiscardBulkUpload, bufVars, TypeOK
  <2> QED
    BY <1>0, <1>1, <2>1 DEF QuietInv, ReadInv, OrderInv, Takeable
<1>3. CASE SendXfb
  <2>1. UNCHANGED <<recv, count, stage>> /\ step # "sleep" /\ step' # "sleep"
    BY <1>3 DEF SendXfb, bufVars
  <2>2. QuietInv'
    <3>1. cmds' = cmds \/ cmds' = Append(cmds, "xfb")
      BY <1>3 DEF SendXfb, Send
    <3>2. cmds \in Seq(Commands) /\ "xfb" \in Commands
      BY DEF TypeOK, Commands
    <3> QED
      BY <1>0, <2>1, <3>1, <3>2 DEF QuietInv
  <2> QED
    BY <1>0, <1>1, <2>1, <2>2 DEF ReadInv, OrderInv, Takeable
<1>4. CASE SendBulkData
  <2>1. /\ step = "data" /\ step' # "sleep" /\ stage # BootStage /\ UNCHANGED <<stage, cmds>>
    BY <1>4 DEF SendBulkData, TypeOK
  <2>2. run = "idle"
    BY <2>1 DEF QuietInv
  <2>3. CASE UNCHANGED recv /\ UNCHANGED count
    BY <1>0, <1>1, <2>1, <2>3 DEF QuietInv, ReadInv, OrderInv, Takeable
  <2>4. CASE \E w \in BOOLEAN : recv' = PayloadOf(stage, w)
    <3>1. recv'.kind = "kext" => recv'.kext = stage - 1 /\ stage > 1
      BY <2>1, <2>4, NumKextsAssumption
         DEF PayloadOf, KextOf, KextStages, BootStage, ModuleStage, SymbolsStage, TypeOK, Stages
    <3>2. QuietInv' /\ ReadInv'
      BY <1>0, <2>1, <2>2 DEF QuietInv, ReadInv, Reading
    <3>3. OrderInv'
      <4>1. recv'.kind = "kext" => 0 < recv'.kext /\ recv'.kext < stage
        BY <3>1, InsertedFacts
      <4>2. Takeable' => recv'.kind = "kext"
        BY <1>0, <2>2 DEF Takeable, Reading
      <4>3. \A i \in DOMAIN inserted : inserted[i].parsed < stage - 1
        BY <2>1 DEF OrderInv
      <4> QED
        BY <1>0, <2>1, <3>1, <4>1, <4>2, <4>3 DEF OrderInv
    <3> QED
      BY <1>1, <3>2, <3>3
  <2> QED
    BY <1>4, <2>3, <2>4 DEF SendBulkData
<1>5. CASE SendCommand
  <2>1. UNCHANGED <<recv, count, stage>> /\ step = "cmd"
    BY <1>5 DEF SendCommand, bufVars
  <2>2. QuietInv'
    <3>1. CASE stage # BootStage
      BY <1>5, <3>1 DEF SendCommand, QuietInv
    <3>2. CASE stage = BootStage
      <4>1. CommandOf(stage) = "bootx"
        BY <3>2, NumKextsAssumption
           DEF CommandOf, BootStage, ModuleStage, SymbolsStage, KextStages
      <4>2. cmds' = cmds \/ cmds' = Append(cmds, "bootx")
        BY <1>5, <4>1 DEF SendCommand
      <4>3. cmds \in Seq(Commands) /\ "bootx" \in Commands
        BY DEF TypeOK, Commands
      <4> QED
        BY <1>0, <2>1, <4>2, <4>3 DEF QuietInv
    <3> QED
      BY <3>1, <3>2
  <2> QED
    BY <1>0, <1>1, <2>1, <2>2 DEF ReadInv, OrderInv, Takeable
<1>6. CASE Sleep
  <2>1. /\ UNCHANGED <<recv, count, cmds>> /\ stage' = stage + 1 /\ run = "idle" /\ cmds = <<>>
    BY <1>6 DEF Sleep, bufVars, DeviceIdle
  <2>2. QuietInv' /\ ReadInv'
    BY <1>0, <2>1 DEF QuietInv, ReadInv, Reading
  <2>3. OrderInv'
    <3>1. \A i \in DOMAIN inserted : inserted[i].parsed < stage /\ i <= inserted[i].parsed
      BY DEF OrderInv
    <3>2. Takeable' => Takeable
      BY <1>0, <2>1 DEF Takeable
    <3>3. /\ Takeable => \A i \in DOMAIN inserted : inserted[i].parsed < recv.kext
          /\ recv.kind = "kext" => 0 < recv.kext /\ recv.kext < stage
      BY DEF OrderInv
    <3> QED
      BY <1>0, <2>1, <3>1, <3>2, <3>3, InsertedFacts DEF OrderInv
  <2> QED
    BY <1>1, <2>2, <2>3
<1> QED
  BY <1>2, <1>3, <1>4, <1>5, <1>6 DEF Host

\* The device takes an upload once, and reads the same one to the end.
LEMMA DeviceSlept ==
    ASSUME TypeOK, SleepCovers, SleptInv, Device
    PROVE  SleptInv'
<1> USE DEF SleptInv
<1>0. UNCHANGED <<step, stage, recv>>
  BY DEF Device, IgnoreCommand, Modload, Bootx, StartSymbols, StartKextload, Enter, LinkSymbols,
       ParseKext, MapKext, LinkKext, InsertKext, Take, hostVars, bufVars
<1>1. CASE \E c \in {"xfb", "kernelcache-symbols", "kextload", "modload", "bootx"} :
             Take(c) /\ UNCHANGED <<run, size, info, inserted>> /\ count' \in {0, count}
  <2>1. PICK c \in Commands : Take(c)
    BY <1>1 DEF Commands
  <2>2. QuietInv'
    BY <1>0, <1>1, <2>1, TakeTyped DEF QuietInv
  <2>3. ReadInv' /\ OrderInv' /\ InsertedIntact' /\ InsertedInOrder'
    <3>1. count \in {0, 1}
      BY DEF TypeOK
    <3> QED
      BY <1>0, <1>1, <3>1 DEF ReadInv, OrderInv, Takeable, InsertedIntact, InsertedInOrder
  <2> QED
    BY <2>2, <2>3
<1>2. CASE StartSymbols \/ StartKextload
  <2>1. PICK c \in {"kernelcache-symbols", "kextload"}, ph \in {"symbols", "parse"} : Enter(c, ph)
    BY <1>2 DEF StartSymbols, StartKextload
  <2>2. Take(c) /\ run = "idle" /\ run' = ph /\ size' = count /\ count' = 0 /\ UNCHANGED <<info, inserted>>
    BY <2>1 DEF Enter, Take, moduleVars
  <2>3. step = "sleep"
    BY <2>2, TakeTyped DEF QuietInv
  <2>4. QuietInv'
    BY <1>0, <2>3 DEF QuietInv
  <2>5. ReadInv'
    BY <2>2 DEF ReadInv, Reading
  <2>6. OrderInv'
    <3>1. Takeable' => Takeable
      BY <1>0, <2>2 DEF Takeable, Reading
    <3> QED
      BY <1>0, <2>2, <3>1 DEF OrderInv
  <2> QED
    BY <2>2, <2>4, <2>5, <2>6 DEF InsertedIntact, InsertedInOrder
<1>3. CASE LinkSymbols \/ ParseKext \/ MapKext \/ LinkKext
  <2>1. /\ run # "idle" /\ UNCHANGED <<cmds, count, size, inserted>>
    BY <1>3 DEF LinkSymbols, ParseKext, MapKext, LinkKext, bufVars, moduleVars
  <2>2. step = "sleep"
    BY <2>1 DEF QuietInv
  <2>3. QuietInv'
    BY <1>0, <2>2 DEF QuietInv
  <2>4. info \in [parsed : 0..NumKexts, mapped : 0..NumKexts, linked : 0..NumKexts]
    BY DEF TypeOK
  <2>5. ReadInv' /\ (Takeable' => Takeable)
    <3>1. CASE LinkSymbols
      BY <1>0, <2>1, <3>1 DEF LinkSymbols, ReadInv, Takeable, Reading
    <3>2. CASE ParseKext
      BY <1>0, <2>1, <2>4, <3>2 DEF ParseKext, ReadInv, Takeable, Reading
    <3>3. CASE MapKext
      BY <1>0, <2>1, <2>4, <3>3 DEF MapKext, ReadInv, Takeable, Reading
    <3>4. CASE LinkKext
      BY <1>0, <2>1, <2>4, <3>4 DEF LinkKext, ReadInv, Takeable, Reading
    <3> QED
      BY <1>3, <3>1, <3>2, <3>3, <3>4
  <2>6. OrderInv'
    BY <1>0, <2>1, <2>5 DEF OrderInv
  <2> QED
    BY <2>1, <2>3, <2>5, <2>6 DEF InsertedIntact, InsertedInOrder
<1>4. CASE InsertKext
  <2>1. run = "insert" /\ run' = "idle" /\ UNCHANGED <<cmds, count, size, info>>
    BY <1>4 DEF InsertKext, bufVars
  <2>2. /\ step = "sleep" /\ count = 0 /\ recv.kind = "kext"
        /\ info.parsed = recv.kext /\ info.mapped = recv.kext /\ info.linked = recv.kext
    BY <2>1 DEF QuietInv, ReadInv, Reading
  <2>3. QuietInv' /\ ReadInv' /\ ~Takeable'
    BY <1>0, <2>1, <2>2 DEF QuietInv, ReadInv, Takeable, Reading
  <2>4. /\ \A i \in DOMAIN inserted : inserted[i].parsed < recv.kext /\ i <= inserted[i].parsed
        /\ 0 < recv.kext /\ recv.kext < stage
        /\ \A i \in DOMAIN inserted : inserted[i].parsed < stage
    BY <2>1, <2>2 DEF OrderInv, Takeable, Reading
  <2>5. CASE UNCHANGED inserted
    BY <1>0, <2>2, <2>3, <2>4, <2>5 DEF OrderInv, InsertedIntact, InsertedInOrder
  <2>6. CASE ~UNCHANGED inserted
    <3> DEFINE n == Len(inserted) + 1
    <3>1. /\ DOMAIN inserted' = 1 .. n /\ DOMAIN inserted = 1 .. n - 1 /\ n \in Nat \ {0}
          /\ \A i \in DOMAIN inserted : inserted'[i] = inserted[i]
          /\ inserted'[n].parsed = recv.kext /\ inserted'[n].mapped = recv.kext
          /\ inserted'[n].linked = recv.kext
      BY <1>4, <2>2, <2>6, InsertKextEffect, InsertedFacts
    <3> HIDE DEF n
    <3>2. n <= recv.kext
      <4>1. CASE n = 1
        BY <4>1, <2>4, InsertedFacts
      <4>2. CASE n # 1
        <5>1. n - 1 \in DOMAIN inserted
          BY <3>1, <4>2
        <5>2. n - 1 <= inserted[n - 1].parsed /\ inserted[n - 1].parsed < recv.kext
          BY <5>1, <2>4
        <5>3. inserted[n - 1].parsed \in Nat /\ recv.kext \in Nat
          BY <5>1, InsertedFacts
        <5> QED
          BY <5>2, <5>3, <3>1
      <4> QED
        BY <4>1, <4>2
    <3>3. \A i \in DOMAIN inserted' : i = n \/ i \in DOMAIN inserted
      BY <3>1
    <3>4. OrderInv'
      BY <1>0, <2>2, <2>3, <2>4, <3>1, <3>2, <3>3 DEF OrderInv
    <3>5. InsertedIntact'
      BY <3>1, <3>3 DEF InsertedIntact
    <3>6. InsertedInOrder'
      <4> SUFFICES ASSUME NEW i \in DOMAIN inserted', NEW j \in DOMAIN inserted', i < j
                   PROVE  inserted'[i].parsed < inserted'[j].parsed
        BY DEF InsertedInOrder
      <4>1. i \in DOMAIN inserted
        BY <3>1
      <4>2. CASE j = n
        BY <4>1, <4>2, <2>4, <3>1
      <4>3. CASE j # n
        BY <4>1, <4>3, <3>1, <3>3 DEF InsertedInOrder
      <4> QED
        BY <4>2, <4>3
    <3> QED
      BY <2>3, <3>4, <3>5, <3>6
  <2> QED
    BY <2>5, <2>6
<1>5. (IgnoreCommand \/ Modload \/ Bootx) =>
        \E c \in {"xfb", "kernelcache-symbols", "kextload", "modload", "bootx"} :
             Take(c) /\ UNCHANGED <<run, size, info, inserted>> /\ count' \in {0, count}
  BY DEF IgnoreCommand, Modload, Bootx, devVars, moduleVars, bufVars
<1> QED
  BY <1>1, <1>2, <1>3, <1>4, <1>5 DEF Device

\* The stages' commands differ.
LEMMA StageCommands ==
    ASSUME NEW n \in Stages
    PROVE  /\ CommandOf(n) = "modload" => n = ModuleStage
           /\ CommandOf(n) = "kernelcache-symbols" => n = SymbolsStage
           /\ CommandOf(n) = "kextload" => n \in KextStages
           /\ n # BootStage => CommandOf(n) # "bootx" /\ CommandOf(n) # "xfb"
  BY NumKextsAssumption DEF CommandOf, Stages, ModuleStage, SymbolsStage, KextStages, BootStage

\* The queue only ever holds what the current stage put there.
LEMMA StageStep ==
    ASSUME TypeOK, SleepCovers, SleptInv, StageInv, Host \/ Device
    PROVE  StageInv'
<1>0. cmds \in Seq(Commands) /\ stage \in Stages /\ DOMAIN cmds = 1 .. Len(cmds)
  BY DEF TypeOK
<1>1. CASE Host
  <2>0. UNCHANGED <<run, modLoaded, symLinked>>
    BY <1>1 DEF Host, MapFile, SendXfb, InitBulkUpload, SendBulkData, DiscardBulkUpload,
         SendCommand, Sleep, devVars, moduleVars
  <2>1. CASE MapFile \/ InitBulkUpload \/ SendBulkData \/ DiscardBulkUpload
    <3>1. UNCHANGED <<cmds, stage>> /\ step # "sleep" /\ (result' = "running" => result = "running")
      BY <2>1 DEF MapFile, InitBulkUpload, SendBulkData, DiscardBulkUpload
    <3> QED
      BY <2>0, <3>1 DEF StageInv
  <2>2. CASE SendXfb
    <3>1. UNCHANGED <<stage, result>> /\ step # "sleep" /\ (cmds' = cmds \/ cmds' = Append(cmds, "xfb"))
      BY <2>2 DEF SendXfb, Send
    <3>2. "xfb" \in Commands
      BY DEF Commands
    <3> QED
      BY <1>0, <2>0, <3>1, <3>2 DEF StageInv
  <2>3. CASE SendCommand
    <3>1. /\ UNCHANGED stage /\ (cmds' = cmds \/ cmds' = Append(cmds, CommandOf(stage)))
          /\ result' = "running" => step' = "sleep"
      BY <2>3 DEF SendCommand
    <3>2. CommandOf(stage) \in Commands
      BY DEF CommandOf, Commands
    <3>3. \A i \in DOMAIN cmds' : cmds'[i] \in {"xfb", "bootx", CommandOf(stage)}
      BY <1>0, <3>1, <3>2 DEF StageInv
    <3> QED
      BY <2>0, <3>1, <3>3 DEF StageInv
  <2>4. CASE Sleep
    <3>1. cmds' = <<>> /\ run = "idle"
      BY <2>4 DEF Sleep, DeviceIdle
    <3> QED
      BY <2>0, <3>1 DEF StageInv, Reading
  <2> QED
    BY <1>1, <2>1, <2>2, <2>3, <2>4 DEF Host
<1>2. CASE Device
  <2>0. UNCHANGED <<step, stage, result>>
    BY <1>2 DEF Device, IgnoreCommand, Modload, Bootx, StartSymbols, StartKextload, Enter,
         LinkSymbols, ParseKext, MapKext, LinkKext, InsertKext, Take, hostVars
  <2>1. CASE IgnoreCommand \/ Modload \/ Bootx
    <3>1. PICK c \in Commands : Take(c)
      BY <2>1 DEF IgnoreCommand, Modload, Bootx, Commands
    <3>2. UNCHANGED <<run, symLinked>> /\ run = "idle"
      BY <2>1, <3>1 DEF IgnoreCommand, Modload, Bootx, Take, devVars, moduleVars
    <3> QED
      BY <2>0, <3>1, <3>2, TakeTyped DEF StageInv, Reading
  <2>2. CASE StartSymbols
    <3>1. /\ Take("kernelcache-symbols") /\ run' = "symbols" /\ modLoaded
          /\ UNCHANGED <<modLoaded, symLinked>>
      BY <2>2 DEF StartSymbols, Enter, moduleVars
    <3>2. stage = SymbolsStage
      <4>1. 1 \in DOMAIN cmds /\ cmds[1] = "kernelcache-symbols"
        BY <3>1, TakeTyped
      <4>2. CommandOf(stage) = "kernelcache-symbols"
        BY <4>1 DEF StageInv
      <4> QED
        BY <1>0, <4>2, StageCommands
    <3> QED
      BY <2>0, <3>1, <3>2, TakeTyped DEF StageInv, Reading
  <2>3. CASE StartKextload
    <3>1. /\ Take("kextload") /\ run' = "parse" /\ modLoaded /\ UNCHANGED <<modLoaded, symLinked>>
      BY <2>3 DEF StartKextload, Enter, moduleVars
    <3>2. stage \in KextStages
      <4>1. 1 \in DOMAIN cmds /\ cmds[1] = "kextload"
        BY <3>1, TakeTyped
      <4>2. CommandOf(stage) = "kextload"
        BY <4>1 DEF StageInv
      <4> QED
        BY <1>0, <4>2, StageCommands
    <3> QED
      BY <2>0, <3>1, <3>2, TakeTyped DEF StageInv, Reading
  <2>4. CASE LinkSymbols \/ InsertKext
    <3>1. run' = "idle" /\ UNCHANGED cmds
      BY <2>4 DEF LinkSymbols, InsertKext
    <3> QED
      BY <2>0, <3>1 DEF StageInv, Reading
  <2>5. CASE ParseKext \/ MapKext \/ LinkKext
    <3>1. /\ run \in {"parse", "map", "link"} /\ UNCHANGED <<cmds, modLoaded, symLinked>>
          /\ \/ run' = "idle"
             \/ run' \in Reading /\ (run \in Reading \/ symLinked)
      <4>1. run \in Reading => ~Replaced
        BY DEF SleptInv, ReadInv, Replaced
      <4> QED
        BY <2>5, <4>1 DEF ParseKext, MapKext, LinkKext, Reading, moduleVars
    <3> QED
      BY <2>0, <3>1 DEF StageInv, Reading
  <2> QED
    BY <1>2, <2>1, <2>2, <2>3, <2>4, <2>5 DEF Device
<1> QED
  BY <1>1, <1>2

\* The host's steps: a stage is delivered with its upload in the buffer, and is
\* over before the next one begins.
LEMMA HostDelivers ==
    ASSUME TypeOK, SleepCovers, SleptInv, StageInv, DeliveredInv, Host
    PROVE  DeliveredInv'
<1>0. /\ UNCHANGED <<run, size, modLoaded, symLinked, inserted>> /\ stage \in Nat /\ delivered \subseteq Nat
  <2>1. UNCHANGED <<run, size, modLoaded, symLinked, inserted>>
    BY DEF Host, MapFile, SendXfb, InitBulkUpload, SendBulkData, DiscardBulkUpload, SendCommand,
         Sleep, devVars, moduleVars
  <2>2. Stages \subseteq Nat
    BY NumKextsAssumption DEF Stages
  <2> QED
    BY <2>1, <2>2 DEF TypeOK
<1>1. \A n : Effect(n)' <=> Effect(n)
  BY <1>0 DEF Effect
<1>2. CASE step \notin {"cmd", "sleep"}
  <2>1. /\ UNCHANGED <<stage, delivered>> /\ step' # "sleep" /\ ~sent
    BY <1>2 DEF Host, MapFile, SendXfb, InitBulkUpload, SendBulkData, DiscardBulkUpload,
         SendCommand, Sleep, DeliveredInv
  <2>2. \A n \in delivered : Effect(n) /\ n <= stage /\ n # stage
    BY <1>2 DEF DeliveredInv, UnderWay
  <2>3. sent' => step' = "cmd" /\ recv' = PayloadOf(stage, TRUE) /\ count' = 1 /\ stage # BootStage
    <3>1. CASE SendBulkData
      BY <3>1 DEF SendBulkData, TypeOK
    <3>2. CASE ~SendBulkData
      <4>1. sent' = FALSE \/ sent' = sent
        BY <1>2, <3>2 DEF Host, MapFile, SendXfb, InitBulkUpload, DiscardBulkUpload, SendCommand, Sleep
      <4> QED
        BY <2>1, <4>1
    <3> QED
      BY <3>1, <3>2
  <2> QED
    BY <1>1, <2>1, <2>2, <2>3 DEF DeliveredInv, Uploaded
<1>3. CASE SendCommand
  <2>1. /\ step = "cmd" /\ UNCHANGED <<stage, sent, recv, count>> /\ result = "running"
        /\ stage # BootStage => step' = "sleep"
        /\ stage = BootStage => step' = "cmd"
    BY <1>3 DEF SendCommand, bufVars
  <2>2. \A n \in delivered : Effect(n) /\ n <= stage /\ n # stage
    BY <2>1 DEF DeliveredInv, UnderWay
  <2>3. sent => Uploaded /\ stage # BootStage
    BY <2>1 DEF DeliveredInv
  <2>4. CASE delivered' = delivered
    BY <1>1, <2>1, <2>2, <2>3, <2>4 DEF DeliveredInv, Uploaded
  <2>5. CASE delivered' # delivered
    <3>1. sent /\ delivered' = delivered \cup {stage} /\ cmds' = Append(cmds, CommandOf(stage))
      BY <1>3, <2>5 DEF SendCommand
    <3>2. run = "idle"
      BY <2>1 DEF SleptInv, QuietInv
    <3>3. \A i \in DOMAIN cmds : cmds[i] = "xfb"
      BY <2>1 DEF StageInv
    <3>4. CommandOf(stage) \in Commands /\ cmds \in Seq(Commands)
      BY DEF CommandOf, Commands, TypeOK
    <3>5. /\ cmds' # <<>> /\ cmds'[Len(cmds')] = CommandOf(stage)
          /\ \A i \in 1 .. Len(cmds') - 1 : cmds'[i] = "xfb"
      BY <3>1, <3>3, <3>4
    <3>6. UnderWay'
      BY <1>0, <2>1, <2>3, <3>1, <3>2, <3>5 DEF UnderWay, Uploaded
    <3> QED
      BY <1>0, <1>1, <2>1, <2>2, <2>3, <3>1, <3>6 DEF DeliveredInv
  <2> QED
    BY <2>4, <2>5
<1>4. CASE Sleep
  <2>1. /\ run = "idle" /\ cmds = <<>> /\ stage' = stage + 1 /\ UNCHANGED delivered /\ sent' = FALSE
    BY <1>4 DEF Sleep, DeviceIdle
  <2>2. \A n \in delivered : Effect(n) /\ n <= stage
    BY <2>1 DEF DeliveredInv, UnderWay
  <2> QED
    BY <1>0, <1>1, <2>1, <2>2 DEF DeliveredInv
<1>5. step \in {"cmd", "sleep"} => SendCommand \/ Sleep
  BY DEF Host, MapFile, SendXfb, InitBulkUpload, SendBulkData, DiscardBulkUpload
<1> QED
  BY <1>2, <1>3, <1>4, <1>5

\* What an upload of a stage is.
LEMMA UploadKinds ==
    ASSUME NEW n \in Stages, recv = PayloadOf(n, TRUE)
    PROVE  /\ recv.whole
           /\ n = ModuleStage => recv.kind = "module"
           /\ n = SymbolsStage => recv.kind = "symbols"
           /\ n \in KextStages => recv.kind = "kext" /\ recv.kext = KextOf(n)
  BY NumKextsAssumption DEF PayloadOf, ModuleStage, SymbolsStage, KextStages, Stages

\* The device's steps: without faults of its own, the device carries out the
\* command of a stage that was delivered.
LEMMA DeviceDelivers ==
    ASSUME TypeOK, SleepCovers, ~DeviceFaults, SleptInv, StageInv, DeliveredInv, Device
    PROVE  DeliveredInv'
<1>0. /\ UNCHANGED <<stage, step, result, delivered, sent, recv>>
      /\ stage \in Stages /\ Stages \subseteq Nat /\ delivered \subseteq Stages
  <2>1. UNCHANGED <<stage, step, result, delivered, sent, recv>>
    BY DEF Device, IgnoreCommand, Modload, Bootx, StartSymbols, StartKextload, Enter,
         LinkSymbols, ParseKext, MapKext, LinkKext, InsertKext, Take, hostVars, bufVars
  <2>2. Stages \subseteq Nat
    BY NumKextsAssumption DEF Stages
  <2> QED
    BY <2>1, <2>2 DEF TypeOK
<1>1. sent /\ step # "sleep" => count' = count
  <2> SUFFICES ASSUME step # "sleep" PROVE count' = count
    OBVIOUS
  <2>1. run = "idle" /\ \A i \in DOMAIN cmds : cmds[i] \in {"xfb", "bootx"}
    BY DEF SleptInv, QuietInv
  <2>2. ~Modload /\ ~StartSymbols /\ ~StartKextload
    BY <2>1, TakeTyped DEF Modload, StartSymbols, StartKextload, Enter
  <2> QED
    BY <2>1, <2>2 DEF Device, IgnoreCommand, Bootx, LinkSymbols, ParseKext, MapKext, LinkKext,
         InsertKext, bufVars
<1>2. SUFFICES ASSUME NEW n \in delivered
               PROVE  Effect(n)' \/ (n = stage /\ UnderWay')
  BY <1>0, <1>1 DEF DeliveredInv, Uploaded
<1>3. n \in Stages /\ n <= stage
  BY <1>0 DEF DeliveredInv
<1>4. CASE Effect(n)
  <2>1. CASE Modload
    <3>1. 1 \in DOMAIN cmds /\ cmds[1] = "modload"
      BY <2>1, TakeTyped DEF Modload
    <3>2. CommandOf(stage) = "modload"
      BY <3>1 DEF StageInv
    <3>3. n = ModuleStage
      BY <1>0, <1>3, <3>2, StageCommands DEF ModuleStage
    <3>4. modLoaded
      BY <1>4, <3>3 DEF Effect
    <3>5. modLoaded'
      BY <2>1, <3>4 DEF Modload
    <3> QED
      BY <3>3, <3>5 DEF Effect, ModuleStage, SymbolsStage, KextStages
  <2>2. CASE LinkSymbols
    <3>1. /\ run = "symbols" /\ UNCHANGED <<modLoaded, inserted>>
          /\ (symLinked' = TRUE \/ symLinked' = symLinked)
      BY <2>2 DEF LinkSymbols
    <3>2. n \notin KextStages
      BY <1>0, <1>3, <3>1 DEF StageInv, KextStages, SymbolsStage
    <3> QED
      BY <1>4, <3>1, <3>2 DEF Effect
  <2>3. CASE InsertKext
    <3>1. UNCHANGED <<modLoaded, symLinked>>
      BY <2>3 DEF InsertKext
    <3>2. \A i \in DOMAIN inserted : i \in DOMAIN inserted' /\ inserted'[i] = inserted[i]
      BY <2>3, InsertKextEffect, InsertedFacts
    <3> QED
      BY <1>4, <3>1, <3>2 DEF Effect
  <2>4. CASE ~Modload /\ ~LinkSymbols /\ ~InsertKext
    <3>1. UNCHANGED <<modLoaded, symLinked, inserted>>
      BY <2>4 DEF Device, IgnoreCommand, Bootx, StartSymbols, StartKextload, Enter,
           ParseKext, MapKext, LinkKext, devVars, moduleVars
    <3> QED
      BY <1>4, <3>1 DEF Effect
  <2> QED
    BY <2>1, <2>2, <2>3, <2>4
<1>5. CASE n = stage /\ UnderWay
  <2>0. /\ step = "sleep" /\ recv = PayloadOf(stage, TRUE) /\ stage # BootStage
        /\ run = "idle" => /\ count = 1 /\ cmds # <<>> /\ cmds[Len(cmds)] = CommandOf(stage)
                           /\ \A i \in 1 .. Len(cmds) - 1 : cmds[i] = "xfb"
        /\ run # "idle" => size = 1
    BY <1>5 DEF UnderWay, TypeOK
  <2>1. CASE \E c \in Commands : Take(c)
    <3>1. PICK c \in Commands : Take(c)
      BY <2>1
    <3>2. run = "idle"
      BY <3>1 DEF Take
    <3>3. /\ Len(cmds) \in Nat \ {0} /\ cmds[1] = c /\ Len(cmds') = Len(cmds) - 1
          /\ cmds' \in Seq(Commands)
          /\ \A i \in 1 .. Len(cmds) - 1 : cmds'[i] = cmds[i + 1]
      BY <3>1, TakeTyped
    <3>4. CASE Len(cmds) > 1
      <4>1. c = "xfb"
        BY <2>0, <3>2, <3>3, <3>4
      <4>2. IgnoreCommand
        BY <3>1, <3>2, <4>1 DEF Device, Take, Modload, Bootx, StartSymbols, StartKextload, Enter,
             LinkSymbols, ParseKext, MapKext, LinkKext, InsertKext
      <4>3. UNCHANGED <<run, count>>
        BY <4>2 DEF IgnoreCommand, devVars, bufVars
      <4>4. /\ cmds' # <<>> /\ cmds'[Len(cmds')] = CommandOf(stage)
            /\ \A i \in 1 .. Len(cmds') - 1 : cmds'[i] = "xfb"
        <5>1. Len(cmds') \in Nat \ {0} /\ Len(cmds') + 1 = Len(cmds)
          BY <3>3, <3>4
        <5>2. cmds'[Len(cmds')] = cmds[Len(cmds)]
          BY <3>3, <5>1
        <5>3. cmds' # <<>>
          BY <5>1, EmptySeq
        <5>4. \A i \in 1 .. Len(cmds') - 1 : cmds'[i] = "xfb"
          <6> TAKE i \in 1 .. Len(cmds') - 1
          <6>1. i + 1 \in 1 .. Len(cmds) - 1 /\ i \in 1 .. Len(cmds) - 1
            BY <5>1
          <6> QED
            BY <2>0, <3>2, <3>3, <6>1
        <5> QED
          BY <2>0, <3>2, <5>2, <5>3, <5>4
      <4> QED
        BY <1>0, <1>5, <2>0, <3>2, <4>3, <4>4 DEF UnderWay
    <3>5. CASE Len(cmds) = 1
      <4>1. c = CommandOf(stage) /\ count = 1
        BY <2>0, <3>2, <3>3, <3>5
      <4>2. Head(cmds) = c /\ c # "bootx" /\ c # "xfb"
        BY <1>0, <2>0, <3>1, <4>1, TakeTyped, StageCommands
      <4>3. CASE IgnoreCommand
        <5>1. ~modLoaded /\ c # "modload" /\ UNCHANGED <<modLoaded, symLinked, inserted>>
          BY <4>2, <4>3 DEF IgnoreCommand, Take, devVars, moduleVars
        <5>2. stage # ModuleStage
          BY <4>1, <5>1 DEF CommandOf
        <5> QED
          BY <1>5, <5>1, <5>2 DEF Effect
      <4>4. CASE Modload
        <5>1. c = "modload"
          BY <4>2, <4>4 DEF Modload, Take
        <5>2. stage = ModuleStage
          BY <1>0, <4>1, <5>1, StageCommands
        <5>3. recv.kind = "module" /\ recv.whole
          BY <1>0, <2>0, <5>2, UploadKinds
        <5>4. modLoaded'
          BY <4>1, <4>4, <5>3 DEF Modload
        <5> QED
          BY <1>5, <5>2, <5>4 DEF Effect, ModuleStage, SymbolsStage, KextStages
      <4>5. CASE StartSymbols \/ StartKextload
        <5>1. run' # "idle" /\ size' = 1
          BY <4>1, <4>5 DEF StartSymbols, StartKextload, Enter
        <5> QED
          BY <1>0, <1>5, <2>0, <5>1 DEF UnderWay
      <4>6. ~Bootx /\ ~LinkSymbols /\ ~ParseKext /\ ~MapKext /\ ~LinkKext /\ ~InsertKext
        BY <3>2, <4>2 DEF Bootx, Take, LinkSymbols, ParseKext, MapKext, LinkKext, InsertKext
      <4> QED
        BY <4>3, <4>4, <4>5, <4>6 DEF Device
    <3> QED
      BY <3>3, <3>4, <3>5
  <2>2. CASE LinkSymbols
    <3>1. stage = SymbolsStage /\ size = 1
      BY <2>0, <2>2 DEF LinkSymbols, StageInv
    <3>2. recv.kind = "symbols" /\ recv.whole
      BY <1>0, <2>0, <3>1, UploadKinds
    <3>3. symLinked'
      BY <2>2, <3>1, <3>2 DEF LinkSymbols
    <3> QED
      BY <1>5, <3>1, <3>3 DEF Effect, ModuleStage, SymbolsStage, KextStages
  <2>3. CASE ParseKext
    <3>1. stage \in KextStages /\ size = 1 /\ UNCHANGED <<size, modLoaded, symLinked, inserted>>
      BY <2>0, <2>3 DEF ParseKext, StageInv, moduleVars
    <3>2. recv.kind = "kext" /\ recv.whole
      BY <1>0, <2>0, <3>1, UploadKinds
    <3>3. CASE symLinked
      <4>1. run' = "map"
        BY <2>3, <3>1, <3>2, <3>3 DEF ParseKext
      <4> QED
        BY <1>0, <1>5, <2>0, <3>1, <4>1 DEF UnderWay
    <3>4. CASE ~symLinked
      BY <1>5, <3>1, <3>4 DEF Effect, ModuleStage, SymbolsStage, KextStages
    <3> QED
      BY <3>3, <3>4
  <2>4. CASE MapKext \/ LinkKext
    <3>1. run # "idle" /\ run' # "idle" /\ UNCHANGED size
      BY <2>4 DEF MapKext, LinkKext
    <3> QED
      BY <1>0, <1>5, <2>0, <3>1 DEF UnderWay
  <2>5. CASE InsertKext
    <3>1. stage \in KextStages
      BY <2>5 DEF InsertKext, StageInv, Reading
    <3>2. recv.kext = KextOf(stage)
      BY <1>0, <2>0, <3>1, UploadKinds
    <3>3. info.parsed = recv.kext
      BY <2>5 DEF InsertKext, SleptInv, ReadInv, Reading
    <3>4. /\ Len(inserted) + 1 \in DOMAIN inserted'
          /\ inserted'[Len(inserted) + 1].parsed = info.parsed
      BY <2>5, InsertKextEffect, InsertedFacts
    <3> QED
      BY <1>5, <3>1, <3>2, <3>3, <3>4 DEF Effect, ModuleStage, SymbolsStage, KextStages
  <2>6. IgnoreCommand \/ Modload \/ Bootx \/ StartSymbols \/ StartKextload
            => \E c \in Commands : Take(c)
    BY DEF IgnoreCommand, Modload, Bootx, StartSymbols, StartKextload, Enter, Commands
  <2> QED
    BY <2>1, <2>2, <2>3, <2>4, <2>5, <2>6 DEF Device
<1> QED
  BY <1>4, <1>5 DEF DeliveredInv

-----------------------------------------------------------------------------
(* The theorems.                                                           *)

\* Initially the invariant holds.
LEMMA InitInv == Init => IInv
<1> SUFFICES ASSUME Init PROVE IInv
  OBVIOUS
<1>0. NumKexts \in Nat \ {0}
  BY NumKextsAssumption
<1>1. recv \in Payload /\ info \in [parsed : 0..NumKexts, mapped : 0..NumKexts, linked : 0..NumKexts]
  BY <1>0 DEF Init, Payload, Kinds
<1>2. cmds \in Seq(Commands) /\ inserted \in Seq(Entry) /\ DOMAIN inserted = {} /\ DOMAIN cmds = {}
  BY EmptySeq DEF Init
<1>3. /\ sent \in BOOLEAN /\ modLoaded \in BOOLEAN /\ symLinked \in BOOLEAN /\ booted \in BOOLEAN
  BY DEF Init
<1>4. stage \in Stages /\ stage # BootStage
  BY <1>0 DEF Init, Stages, BootStage, ModuleStage
<1>5. TypeOK
  BY <1>1, <1>2, <1>3, <1>4 DEF Init, TypeOK, Entry, Phases
<1>6. IdInv
  BY <1>2 DEF Init, IdInv
<1>7. SleptInv
  BY <1>2 DEF Init, SleptInv, QuietInv, ReadInv, OrderInv, Takeable, Reading, InsertedIntact, InsertedInOrder
<1>8. StageInv /\ DeliveredInv
  BY <1>2 DEF Init, StageInv, DeliveredInv, Reading
<1>9. LoadsInv
  <2>1. PendingIn(cmds) = {}
    BY <1>2 DEF Init, PendingIn
  <2>2. Busy = 0 /\ LoadsSent = 0
    BY DEF Init, Busy, LoadsSent, Reading, ModuleStage
  <2>3. Len(inserted) = 0 /\ Cardinality(PendingIn(cmds)) = 0
    BY <1>2, <2>1, FS_EmptySet DEF Init
  <2> QED
    BY <2>2, <2>3 DEF LoadsInv
<1> QED
  BY <1>5, <1>6, <1>7, <1>8, <1>9 DEF IInv

\* Every step keeps the invariant.
LEMMA NextInv ==
    ASSUME IInv, [Next]_vars
    PROVE  IInv'
<1>1. CASE Host \/ Device
  <2>1. TypeOK'
    BY <1>1, HostTyped, DeviceTyped DEF IInv
  <2>2. IdInv'
    BY IdStep DEF IInv
  <2>3. SleepCovers => SleptInv'
    BY <1>1, HostSlept, DeviceSlept DEF IInv
  <2>4. SleepCovers => StageInv'
    BY <1>1, StageStep DEF IInv
  <2>5. SleepCovers /\ ~DeviceFaults => DeliveredInv'
    BY <1>1, HostDelivers, DeviceDelivers DEF IInv
  <2>6. LoadsInv'
    BY <1>1, HostLoads, DeviceLoads DEF IInv
  <2> QED
    BY <2>1, <2>2, <2>3, <2>4, <2>5, <2>6 DEF IInv
<1>2. CASE UNCHANGED vars
  <2> USE <1>2 DEF vars, hostVars, bufVars, devVars, moduleVars
  <2>1. TypeOK' <=> TypeOK
    BY DEF TypeOK
  <2>2. IdInv' <=> IdInv
    BY DEF IdInv
  <2>3. SleptInv' <=> SleptInv
    BY DEF SleptInv, QuietInv, ReadInv, OrderInv, Takeable, InsertedIntact, InsertedInOrder
  <2>4. StageInv' <=> StageInv
    BY DEF StageInv
  <2>5. DeliveredInv' <=> DeliveredInv
    BY DEF DeliveredInv, UnderWay, Uploaded, Effect
  <2>6. LoadsInv' <=> LoadsInv
    BY DEF LoadsInv, PendingIn, Busy, LoadsSent
  <2> QED
    BY <2>1, <2>2, <2>3, <2>4, <2>5, <2>6 DEF IInv
<1> QED
  BY <1>1, <1>2 DEF Next, Finished

\* The invariant holds in every reachable state.
THEOREM Invariance == Spec => []IInv
<1> QED
  BY InitInv, NextInv, PTL DEF Spec

\* Host and device are well typed, for any number of kernel extensions, whatever
\* fails and however long the commands take.
THEOREM TypeCorrect == Spec => []TypeOK
<1>1. IInv => TypeOK
  BY DEF IInv
<1> QED
  BY <1>1, Invariance, PTL

\* When the sleeps outlast the commands, each kernel extension in the kernel was
\* read from one upload, whatever requests fail.
THEOREM Intact == ASSUME SleepCovers PROVE Spec => []InsertedIntact
<1>1. IInv => InsertedIntact
  BY DEF IInv, SleptInv
<1> QED
  BY <1>1, Invariance, PTL

\* When the sleeps outlast the commands, kernel extensions are inserted at most
\* once and in order, whatever requests fail.
THEOREM InOrder == ASSUME SleepCovers PROVE Spec => []InsertedInOrder
<1>1. IInv => InsertedInOrder
  BY DEF IInv, SleptInv
<1> QED
  BY <1>1, Invariance, PTL

\* No two kernel extensions of a session share a bundle ID, as long as the digits
\* suffice for all of them and no command that outlasted its sleep has corrupted
\* the device's memory, whatever else fails.
THEOREM IdsUnique == Spec => []BundleIdsUnique
<1>1. IInv => BundleIdsUnique
  <2> SUFFICES ASSUME IInv, NumKexts <= IdSpace,
                      NEW i \in DOMAIN inserted, NEW j \in DOMAIN inserted, i # j
               PROVE  inserted[i].id # inserted[j].id
    BY DEF BundleIdsUnique
  <2>1. /\ i \in Nat \ {0} /\ j \in Nat \ {0} /\ i <= NumKexts /\ j <= NumKexts
    <3>1. PICK l : l = Len(inserted)
      OBVIOUS
    <3>2. PICK n : n = Cardinality(PendingIn(cmds))
      OBVIOUS
    <3>3. l \in Nat /\ DOMAIN inserted = 1 .. l
      BY <3>1, InsertedFacts DEF IInv
    <3>4. n \in Nat /\ Busy \in Nat /\ l + Busy + n <= LoadsSent
      BY <3>1, <3>2, PendingFinite DEF IInv, LoadsInv, TypeOK, Busy
    <3>5. LoadsSent <= NumKexts /\ LoadsSent \in Nat
      <4>1. stage \in 0 .. NumKexts + 2 /\ NumKexts \in Nat
        BY NumKextsAssumption DEF IInv, TypeOK, Stages
      <4>2. stage = NumKexts + 2 => step # "sleep"
        BY DEF IInv, TypeOK, BootStage
      <4> QED
        BY <4>1, <4>2 DEF LoadsSent
    <3>6. l <= NumKexts /\ NumKexts \in Nat
      BY <3>3, <3>4, <3>5, NumKextsAssumption
    <3> QED
      BY <3>3, <3>6
  <2>2. i - 1 \in Nat /\ j - 1 \in Nat /\ i - 1 < IdSpace /\ j - 1 < IdSpace /\ IdSpace \in Nat
    BY <2>1, NumKextsAssumption, IdSpaceAssumption
  <2>3. (i - 1) % IdSpace = i - 1 /\ (j - 1) % IdSpace = j - 1
    BY <2>2, SmallModulo
  <2>4. inserted[i].id = i - 1 /\ inserted[j].id = j - 1
    BY <2>3 DEF IInv, IdInv
  <2> QED
    BY <2>1, <2>4
<1> QED
  BY <1>1, Invariance, PTL

\* When the sleeps outlast the commands and the device itself does not fail, a
\* lost request costs the kernel extension it was for and no other.
THEOREM Isolated == ASSUME SleepCovers, ~DeviceFaults PROVE Spec => []FailureIsolated
<1>1. IInv => FailureIsolated
  <2> SUFFICES ASSUME IInv, DeviceIdle, {ModuleStage, SymbolsStage} \subseteq delivered,
                      NEW n \in delivered \cap KextStages
               PROVE  \E i \in DOMAIN inserted : inserted[i].parsed = KextOf(n)
    BY DEF FailureIsolated
  <2>1. \A k \in delivered : Effect(k)
    BY DEF IInv, DeliveredInv, UnderWay, DeviceIdle
  <2>2. modLoaded
    BY <2>1 DEF Effect
  <2>3. symLinked
    BY <2>1, <2>2 DEF Effect
  <2> QED
    BY <2>1, <2>2, <2>3 DEF Effect
<1> QED
  BY <1>1, Invariance, PTL

-----------------------------------------------------------------------------
(* The boot.                                                               *)

\* bootx is sent by the last stage only, and nothing follows that stage.
BootInv ==
    booted \/ (\E i \in DOMAIN cmds : cmds[i] = "bootx") => stage = BootStage

\* A session none of whose uploads and commands before bootx was lost brings up
\* XNU with all of its kernel extensions in it, and with no other entry.
BootedComplete ==
    booted /\ (Stages \ {BootStage}) \subseteq delivered => Len(inserted) = NumKexts

\* No step sends or runs bootx before the last stage.
LEMMA BootStep ==
    ASSUME TypeOK, BootInv, [Next]_vars
    PROVE  BootInv'
<1> DEFINE InQueue == \E i \in DOMAIN cmds : cmds[i] = "bootx"
<1>1. /\ cmds \in Seq(Commands) /\ DOMAIN cmds = 1 .. Len(cmds) /\ Len(cmds) \in Nat
      /\ stage \in Stages
  BY LenProperties DEF TypeOK
<1>2. CASE UNCHANGED vars
  BY <1>2 DEF vars, hostVars, devVars, BootInv
<1>3. CASE Host
  <2>1. booted' = booted
    BY <1>3 DEF Host, MapFile, SendXfb, InitBulkUpload, SendBulkData, DiscardBulkUpload,
         SendCommand, Sleep, devVars
  <2>2. CASE Sleep
    <3>1. cmds' = cmds /\ stage # BootStage
      BY <2>2 DEF Sleep, TypeOK
    <3> QED
      BY <2>1, <3>1 DEF BootInv
  <2>3. CASE ~Sleep
    <3>1. /\ stage' = stage
          /\ \/ cmds' = cmds \/ cmds' = Append(cmds, "xfb")
             \/ cmds' = Append(cmds, CommandOf(stage))
      BY <1>3, <2>3 DEF Host, MapFile, SendXfb, Send, InitBulkUpload, SendBulkData,
           DiscardBulkUpload, SendCommand
    <3>2. \A c \in Commands :
            /\ DOMAIN Append(cmds, c) = 1 .. Len(cmds) + 1
            /\ Append(cmds, c)[Len(cmds) + 1] = c
            /\ \A i \in DOMAIN cmds : Append(cmds, c)[i] = cmds[i]
      BY <1>1
    <3>3. \A c \in Commands : cmds' = Append(cmds, c) /\ c # "bootx" =>
            (InQueue' => InQueue)
      <4> SUFFICES ASSUME NEW c \in Commands, cmds' = Append(cmds, c), c # "bootx",
                          NEW i \in DOMAIN cmds', cmds'[i] = "bootx"
                   PROVE  InQueue
        OBVIOUS
      <4>1. i \in 1 .. Len(cmds) + 1 /\ i # Len(cmds) + 1
        BY <3>2
      <4>2. i \in DOMAIN cmds
        BY <1>1, <4>1
      <4> QED
        BY <3>2, <4>2
    <3>4. CASE stage = BootStage
      BY <3>1, <3>4 DEF BootInv, BootStage
    <3>5. CASE stage # BootStage
      <4>1. "xfb" \in Commands /\ CommandOf(stage) \in Commands /\ CommandOf(stage) # "bootx"
        BY <1>1, <3>5, StageCommands DEF CommandOf, Commands
      <4>2. InQueue' => InQueue
        BY <3>1, <3>3, <4>1
      <4> QED
        BY <2>1, <3>1, <4>2 DEF BootInv, BootStage
    <3> QED
      BY <3>4, <3>5
  <2> QED
    BY <2>2, <2>3
<1>4. CASE Device
  <2>1. stage' = stage
    BY <1>4 DEF hostVars, Device, IgnoreCommand, Modload, Bootx, StartSymbols, StartKextload,
         Enter, Take, LinkSymbols, ParseKext, MapKext, LinkKext, InsertKext
  <2>2. cmds' = cmds \/ \E c : Take(c)
    BY <1>4 DEF Device, IgnoreCommand, Modload, Bootx, StartSymbols, StartKextload,
         Enter, LinkSymbols, ParseKext, MapKext, LinkKext, InsertKext
  <2>3. InQueue' => InQueue
    <3>1. ASSUME NEW c, Take(c) PROVE InQueue' => InQueue
      BY <3>1, TakeTyped
    <3> QED
      BY <2>2, <3>1
  <2>4. booted' = booted \/ InQueue
    <3>1. CASE Bootx
      <4>1. cmds[1] = "bootx" /\ 1 \in DOMAIN cmds
        BY <3>1, TakeTyped DEF Bootx
      <4> QED
        BY <4>1
    <3>2. CASE ~Bootx
      BY <1>4, <3>2 DEF Device, IgnoreCommand, Modload, StartSymbols, StartKextload,
           Enter, LinkSymbols, ParseKext, MapKext, LinkKext, InsertKext, devVars
    <3> QED
      BY <3>1, <3>2
  <2> QED
    BY <2>1, <2>3, <2>4 DEF BootInv, BootStage
<1> QED
  BY <1>2, <1>3, <1>4 DEF Next, Finished

\* The device starts XNU only after the host has come to its last stage.
THEOREM BootLast == Spec => []BootInv
<1>1. Init => BootInv
  BY DEF Init, BootInv
<1>2. IInv /\ BootInv /\ [Next]_vars => BootInv'
  BY BootStep DEF IInv
<1> QED
  BY <1>1, <1>2, Invariance, PTL DEF Spec

\* When the sleeps outlast the commands and the device does not fail, a session
\* that lost nothing boots XNU with exactly the kernel extensions it was given,
\* however many they are.
THEOREM BootsComplete == ASSUME SleepCovers, ~DeviceFaults PROVE Spec => []BootedComplete
<1>1. IInv /\ BootInv => BootedComplete
  <2> SUFFICES ASSUME IInv, BootInv, booted, (Stages \ {BootStage}) \subseteq delivered
               PROVE  Len(inserted) = NumKexts
    BY DEF BootedComplete
  <2>1. PICK l : l = Len(inserted)
    OBVIOUS
  <2>2. l \in Nat /\ DOMAIN inserted = 1 .. l /\ NumKexts \in Nat \ {0}
    BY <2>1, InsertedFacts, NumKextsAssumption DEF IInv
  <2>3. stage = BootStage
    BY DEF BootInv
  <2>4. l <= NumKexts
    <3>1. PICK n : n = Cardinality(PendingIn(cmds))
      OBVIOUS
    <3>2. n \in Nat /\ Busy \in Nat /\ l + Busy + n <= LoadsSent
      BY <2>1, <3>1, PendingFinite DEF IInv, LoadsInv, TypeOK, Busy
    <3>3. LoadsSent = NumKexts
      <4>1. step # "sleep" /\ stage = NumKexts + 2
        BY <2>3 DEF IInv, TypeOK, BootStage
      <4> QED
        BY <2>2, <4>1 DEF LoadsSent
    <3> QED
      BY <2>2, <3>2, <3>3
  <2>5. \A n \in Stages \ {BootStage} : Effect(n)
    BY <2>3 DEF IInv, DeliveredInv
  <2>6. modLoaded /\ symLinked
    <3>1. ModuleStage \in Stages \ {BootStage} /\ SymbolsStage \in Stages \ {BootStage}
      BY <2>2 DEF Stages, BootStage, ModuleStage, SymbolsStage
    <3>2. modLoaded
      BY <2>5, <3>1 DEF Effect
    <3> QED
      BY <2>5, <3>1, <3>2 DEF Effect
  <2>7. ASSUME NEW k \in 1 .. NumKexts PROVE \E i \in 1 .. l : inserted[i].parsed = k
    <3>1. k + 1 \in Stages \ {BootStage} /\ k + 1 \in KextStages /\ KextOf(k + 1) = k
      BY <2>2 DEF Stages, BootStage, KextStages, KextOf
    <3> QED
      BY <2>2, <2>5, <2>6, <3>1 DEF Effect
  <2>8. NumKexts <= l
    <3> DEFINE f == [k \in 1 .. NumKexts |-> CHOOSE i \in 1 .. l : inserted[i].parsed = k]
    <3>1. \A k \in 1 .. NumKexts : f[k] \in 1 .. l /\ inserted[f[k]].parsed = k
      BY <2>7
    <3>2. f \in [1 .. NumKexts -> 1 .. l]
      BY <3>1
    <3> HIDE DEF f
    <3>3. f \in Injection(1 .. NumKexts, 1 .. l)
      <4>1. \A a, b \in 1 .. NumKexts : f[a] = f[b] => a = b
        BY <3>1
      <4> QED
        BY <3>2, <4>1 DEF Injection, IsInjective
    <3>4. IsFiniteSet(1 .. l) /\ Cardinality(1 .. l) = l /\ Cardinality(1 .. NumKexts) = NumKexts
      BY <2>2, FS_Interval
    <3>5. Cardinality(1 .. NumKexts) <= Cardinality(1 .. l)
      BY <3>3, <3>4, FS_Injection
    <3> QED
      BY <3>4, <3>5
  <2> QED
    BY <2>1, <2>2, <2>4, <2>8
<1> QED
  BY <1>1, Invariance, BootLast, PTL

=============================================================================
