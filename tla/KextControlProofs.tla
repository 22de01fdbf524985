-------------------------- MODULE KextControlProofs --------------------------
(***************************************************************************)
(* Proofs about KextControl, for any set of clients and any options.  The  *)
(* invariants follow from what holds at each point of a call: which buffer *)
(* the handler has, and what it knows of kernproc.                         *)
(***************************************************************************)
EXTENDS KextControl, TLAPS

\* Points of a client before its call.
BeforeCall == {"socket", "getctlid", "connect", "setsockopt"}

\* The thread assigns kernproc last, after the control is registered.
ThreadInv ==
    /\ ctlref = "ref" <=> thread \in {"assign", "done"}
    /\ kernproc = "proc" <=> thread = "done"
    /\ thread # "none" => module # "loaded"

\* Which handler can be at which point, and whether it has its buffer there.
HandlerAt(c) ==
    /\ pc[c] \in {"sopt", "copy"} => opt[c] \in Copying
    /\ pc[c] \in {"malloc", "free"} => opt[c] \in Allocating
    /\ pc[c] = "check" => opt[c] = "DOUBLE_FETCH"

HasBuffer(c) ==
    \/ pc[c] \in {"check", "free"}
    \/ pc[c] = "copy" /\ opt[c] \in Allocating
    \/ pc[c] = "sopt" /\ opt[c] = "DOUBLE_FETCH"

BufferInv == \A c \in Clients : HandlerAt(c) /\ (bufs[c] = 1 <=> HasBuffer(c))

\* A call that entered with kernproc assigned has read it as assigned.
SnapshotInv ==
    \A c \in Clients :
        /\ pc[c] \in BeforeCall => route[c] = "none"
        /\ entered[c] = "proc" =>
             /\ kernproc = "proc"
             /\ pc[c] = "copy" \/ (pc[c] = "malloc" /\ opt[c] # "DOUBLE_FETCH")
                  => sopt_p[c] = "proc"

\* A handler that copies has a result to report only after its copy.
CopiedInv ==
    \A c \in Clients :
        /\ exit[c] = "ok" => res[c] = "success"
        /\ res[c] # "none" => pc[c] \in {"return", "done"}
        /\ (/\ entered[c] = "proc"
            /\ opt[c] \in Copying \ {"INFO_LEAK"}
            /\ pc[c] = "free" \/ res[c] = "success")
               => route[c] = "bcopy"

IInv ==
    /\ TypeOK
    /\ ThreadInv
    /\ BufferInv
    /\ SnapshotInv
    /\ CopiedInv
    /\ LateCallsUseBcopy

LEMMA InitIInv == Init => IInv
  BY OptsAssumption
     DEF Init, IInv, TypeOK, ThreadInv, BufferInv, HandlerAt, HasBuffer,
         SnapshotInv, CopiedInv, LateCallsUseBcopy, ProgramLabels, KernelLabels,
         Opts, Copying, Allocating, BeforeCall

LEMMA ModuleStep ==
    ASSUME IInv, ModuleStart \/ ModuleStop \/ RegisterControl \/ AssignKernproc
    PROVE  IInv'
<1> USE DEF IInv, kextVars, clientVars, callVars, Panic
<1>1. TypeOK'
  BY DEF ModuleStart, ModuleStop, RegisterControl, AssignKernproc, TypeOK
<1>2. ThreadInv'
  BY DEF ModuleStart, ModuleStop, RegisterControl, AssignKernproc, TypeOK, ThreadInv
<1>3. BufferInv' /\ LateCallsUseBcopy'
  BY DEF ModuleStart, ModuleStop, RegisterControl, AssignKernproc, BufferInv,
         HandlerAt, HasBuffer, LateCallsUseBcopy
<1>4. SnapshotInv' /\ CopiedInv'
  BY DEF ModuleStart, ModuleStop, RegisterControl, AssignKernproc, SnapshotInv,
         CopiedInv
<1> QED
  BY <1>1, <1>2, <1>3, <1>4

\* The steps of the client's own program.
LEMMA ProgramStep ==
    ASSUME IInv, NEW c \in Clients,
           OpenSocket(c) \/ GetCtlId(c) \/ Connect(c) \/ EnterSetOpt(c) \/ Return(c)
    PROVE  IInv'
<1> USE DEF IInv, kextVars, clientVars, callVars, Step, Exit
<1>1. TypeOK'
  BY OptsAssumption
     DEF OpenSocket, GetCtlId, Connect, EnterSetOpt, Return, TypeOK,
         ProgramLabels, KernelLabels
<1>2. ThreadInv'
  BY DEF OpenSocket, GetCtlId, Connect, EnterSetOpt, Return, ThreadInv
<1>3. BufferInv'
  BY DEF OpenSocket, GetCtlId, Connect, EnterSetOpt, Return, TypeOK, BufferInv,
         HandlerAt, HasBuffer
<1>4. SnapshotInv' /\ LateCallsUseBcopy'
  BY DEF OpenSocket, GetCtlId, Connect, EnterSetOpt, Return, TypeOK, SnapshotInv,
         LateCallsUseBcopy, BeforeCall
<1>5. CopiedInv'
  BY DEF OpenSocket, GetCtlId, Connect, EnterSetOpt, Return, TypeOK, CopiedInv
<1> QED
  BY <1>1, <1>2, <1>3, <1>4, <1>5

\* The steps of setopt and its handlers.
LEMMA HandlerStep ==
    ASSUME IInv, NEW c \in Clients,
           \/ SetOpt(c) \/ FillSopt(c) \/ Malloc(c) \/ CheckSize(c)
           \/ Copy(c) \/ Free(c)
    PROVE  IInv'
<1> USE DEF IInv, kextVars, clientVars, callVars, Step, Result, Panic
<1>1. TypeOK'
  BY DEF SetOpt, FillSopt, Malloc, CheckSize, Copy, Free, TypeOK, BufferInv,
         HandlerAt, HasBuffer, ProgramLabels, KernelLabels, Copying, Allocating
<1>2. ThreadInv'
  BY DEF SetOpt, FillSopt, Malloc, CheckSize, Copy, Free, ThreadInv
<1>3. BufferInv'
  BY DEF SetOpt, FillSopt, Malloc, CheckSize, Copy, Free, TypeOK, BufferInv,
         HandlerAt, HasBuffer, Copying, Allocating
<1>4. SnapshotInv' /\ LateCallsUseBcopy'
  BY DEF SetOpt, FillSopt, Malloc, CheckSize, Copy, Free, TypeOK, SnapshotInv,
         LateCallsUseBcopy, BeforeCall, BufferInv, HandlerAt, HasBuffer,
         Copying, Allocating
<1>5. CopiedInv'
  BY DEF SetOpt, FillSopt, Malloc, CheckSize, Copy, Free, TypeOK, SnapshotInv,
         CopiedInv, BufferInv, HandlerAt, HasBuffer, Copying, Allocating
<1> QED
  BY <1>1, <1>2, <1>3, <1>4, <1>5

LEMMA NextIInv == IInv /\ [Next]_vars => IInv'
<1> SUFFICES ASSUME IInv, [Next]_vars PROVE IInv'
  OBVIOUS
<1>1. CASE ModuleStart \/ ModuleStop \/ Thread
  BY <1>1, ModuleStep DEF Thread
<1>2. CASE \E c \in Clients : Client(c)
  BY <1>2, ProgramStep, HandlerStep DEF Client
<1>3. CASE UNCHANGED vars
  BY <1>3
     DEF vars, kextVars, clientVars, callVars, IInv, TypeOK, ThreadInv, BufferInv,
         HandlerAt, HasBuffer, SnapshotInv, CopiedInv, LateCallsUseBcopy
<1> QED
  BY <1>1, <1>2, <1>3 DEF Next

\* The inductive invariant holds in every reachable state of the kext and its
\* clients.
THEOREM Invariance == Spec => []IInv
  BY InitIInv, NextIInv, PTL DEF Spec

\* The type invariant; in particular no handler of setopt ever has two buffers
\* or frees one it does not have.
THEOREM TypeCorrect == Spec => []TypeOK
<1>1. IInv => TypeOK
  BY DEF IInv
<1> QED
  BY <1>1, Invariance, PTL

\* No path through setopt's handlers leaks its M_TEMP buffer, for any number of
\* concurrent calls.
THEOREM NoLeak == Spec => []NoBufferLeaked
<1>1. IInv => NoBufferLeaked
  BY DEF IInv, TypeOK, BufferInv, HasBuffer, NoBufferLeaked, ProgramLabels
<1> QED
  BY <1>1, Invariance, PTL

\* Once insert_vuln_ctl has assigned kernproc, no call that enters setopt is
\* copied through the routines for user addresses.
THEOREM LateCallsSafe == Spec => []LateCallsUseBcopy
<1>1. IInv => LateCallsUseBcopy
  BY DEF IInv
<1> QED
  BY <1>1, Invariance, PTL

\* A kext_client that calls setopt after insert_vuln_ctl has assigned kernproc
\* reports success only when the handler has copied its data, although neither
\* the failure of connect nor that of the copy is tested.
THEOREM SuccessTrue == Spec => []SuccessMeansCopied
<1>1. IInv => SuccessMeansCopied
  BY DEF IInv, CopiedInv, SuccessMeansCopied
<1> QED
  BY <1>1, Invariance, PTL

=============================================================================
