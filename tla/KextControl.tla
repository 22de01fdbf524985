----------------------------- MODULE KextControl -----------------------------
(***************************************************************************)
(* The running kernel extension: its start and stop routines, the kernel   *)
(* thread that registers the control, the setopt callback with the control *)
(* flow of its handlers, and client processes that use the control as      *)
(* kext_client does.                                                       *)
(*                                                                         *)
(* Client calls and the registering thread run concurrently in the kernel. *)
(* They share kernproc, which the thread assigns only after the control is *)
(* registered and which a handler reads twice: into sopt_p, and again in   *)
(* the copy routine.  A handler is therefore several steps: between them   *)
(* it may wait for memory.                                                 *)
(*                                                                         *)
(* The handlers are wrong on purpose in what they do to memory.  Memory is *)
(* not modelled; what is modelled is which calls they make, in which       *)
(* order, and what they allocate and release.                              *)
(***************************************************************************)
EXTENDS Naturals

CONSTANTS
    Clients,     \* processes that use the control
    OptsUsed     \* the options they pass to setsockopt

Opts == {"CRASH", "HEAP_OVERFLOW", "INFO_LEAK", "BUFFER_OVERFLOW",
         "USE_AFTER_FREE", "INTEGER_OVERFLOW", "DOUBLE_FETCH",
         "ARBITRARY_WRITE", "OTHER"}

ASSUME OptsAssumption == OptsUsed \subseteq Opts

VARIABLES
    kernel,     \* "up", or "panic" after which nothing happens
    module,     \* what the module's start and stop routines have done
    thread,     \* where insert_vuln_ctl is
    ctlref,     \* "ref" once the control is registered
    kernproc,   \* the global: "null" until it is assigned
    pc,         \* where each client is, in the program or in the kernel
    sock,       \* each client's socket: "none", "zero" or "other"
    conn,       \* "yes" while the client's socket is connected
    opt,        \* the option of the client's call
    sopt_p,     \* the call's copy of kernproc
    bufs,       \* M_TEMP buffers that the call has allocated and not freed
    route,      \* how the call copied: not yet, "copyuser" or "bcopy"
    res,        \* what setopt returned
    exit,       \* how the client ended
    entered     \* history: kernproc when setopt was entered

kextVars   == <<module, thread, ctlref, kernproc>>
clientVars == <<sock, conn, exit>>
callVars   == <<opt, sopt_p, bufs, route, res, entered>>
vars       == <<kernel, kextVars, pc, clientVars, callVars>>

ProgramLabels == {"socket", "getctlid", "connect", "setsockopt", "done"}
KernelLabels  == {"setopt", "sopt", "malloc", "check", "copy", "free", "return"}

\* Handlers that fill in a sockopt and copy, and those that allocate.
Copying    == {"HEAP_OVERFLOW", "INFO_LEAK", "BUFFER_OVERFLOW",
               "ARBITRARY_WRITE", "DOUBLE_FETCH"}
Allocating == {"HEAP_OVERFLOW", "INFO_LEAK", "DOUBLE_FETCH"}

\* panic(), or a jump to a bad address.
Panic == kernel' = "panic" /\ UNCHANGED <<kextVars, pc, clientVars, callVars>>

-----------------------------------------------------------------------------
(* The module and its thread.                                              *)

\* fuzzing_science_module_start: start the thread, or fail.
ModuleStart ==
    /\ kernel = "up"
    /\ module = "loaded"
    /\ \/ module' = "started" /\ thread' = "delay"
       \/ module' = "failed" /\ UNCHANGED thread
    /\ UNCHANGED <<kernel, ctlref, kernproc, pc, clientVars, callVars>>

\* fuzzing_science_module_stop does nothing at all.
ModuleStop ==
    /\ kernel = "up"
    /\ module = "started"
    /\ module' = "stopped"
    /\ UNCHANGED <<kernel, thread, ctlref, kernproc, pc, clientVars, callVars>>

\* Mutant: the thread gives up quietly when the registration fails.
Mut_RegisterControl ==
    /\ kernel = "up"
    /\ thread = "delay"
    /\ \/ ctlref' = "ref" /\ thread' = "assign"
       \/ thread' = "done" /\ UNCHANGED ctlref
    /\ UNCHANGED <<kernel, module, kernproc, pc, clientVars, callVars>>

\* After the activation delay, register the control or panic.
RegisterControl ==
    /\ kernel = "up"
    /\ thread = "delay"
    /\ \/ /\ ctlref' = "ref"
          /\ thread' = "assign"
          /\ UNCHANGED <<kernel, module, kernproc, pc, clientVars, callVars>>
       \/ Panic

AssignKernproc ==
    /\ kernel = "up"
    /\ thread = "assign"
    /\ kernproc' = "proc"
    /\ thread' = "done"
    /\ UNCHANGED <<kernel, module, ctlref, pc, clientVars, callVars>>

-----------------------------------------------------------------------------
(* The client program.                                                     *)

\* The client is here, and goes there next.
Step(c, from, to) ==
    /\ kernel = "up"
    /\ pc[c] = from
    /\ pc' = [pc EXCEPT ![c] = to]
    /\ UNCHANGED <<kernel, kextVars>>

\* main returns, or exit() is called; the descriptor is closed and with it the
\* connection.
Exit(c, how) ==
    /\ exit' = [exit EXCEPT ![c] = how]
    /\ conn' = [conn EXCEPT ![c] = "no"]

OpenSocket(c) ==
    /\ \/ /\ Step(c, "socket", "getctlid")
          /\ \E s \in {"zero", "other"} : sock' = [sock EXCEPT ![c] = s]
          /\ UNCHANGED <<conn, exit>>
       \/ Step(c, "socket", "done") /\ Exit(c, "not_found") /\ UNCHANGED sock
    /\ UNCHANGED callVars

\* getctlidbybame: the ioctl finds the control; or it fails, for want of the
\* control or otherwise, and the program exits; or the ID is 0, which main takes
\* for a failure.
GetCtlId(c) ==
    /\ \/ /\ ctlref = "ref"
          /\ Step(c, "getctlid", "connect")
          /\ UNCHANGED <<conn, exit>>
       \/ /\ ctlref = "ref"
          /\ Step(c, "getctlid", "done")
          /\ Exit(c, "not_found")
       \/ /\ Step(c, "getctlid", "done")
          /\ Exit(c, "no_id")
    /\ UNCHANGED <<sock, callVars>>

\* connect may fail, which is only reported.  A socket with descriptor 0 is
\* taken for a failure by main.
Connect(c) ==
    /\ \E made \in {"yes", "no"} :
        \/ /\ sock[c] # "zero"
           /\ Step(c, "connect", "setsockopt")
           /\ conn' = [conn EXCEPT ![c] = made]
           /\ UNCHANGED exit
        \/ /\ sock[c] = "zero"
           /\ Step(c, "connect", "done")
           /\ Exit(c, "not_found")
    /\ UNCHANGED <<sock, callVars>>

\* setsockopt enters the callback of a connected socket; it fails on one that
\* is not connected, and when the kernel cannot copy the argument in.
EnterSetOpt(c) ==
    /\ \/ /\ conn[c] = "yes"
          /\ Step(c, "setsockopt", "setopt")
          /\ \E o \in OptsUsed : opt' = [opt EXCEPT ![c] = o]
          /\ entered' = [entered EXCEPT ![c] = kernproc]
          /\ UNCHANGED <<conn, exit>>
       \/ /\ Step(c, "setsockopt", "done")
          /\ Exit(c, "error")
          /\ UNCHANGED <<opt, entered>>
    /\ UNCHANGED <<sock, sopt_p, bufs, route, res>>

\* Mutant: the result of setsockopt is not tested.
Mut_Return(c) ==
    /\ Step(c, "return", "done")
    /\ Exit(c, "ok")
    /\ UNCHANGED <<sock, callVars>>

\* setopt has returned; the client tests the result and closes the socket.
Return(c) ==
    /\ Step(c, "return", "done")
    /\ Exit(c, IF res[c] = "success" THEN "ok" ELSE "error")
    /\ UNCHANGED <<sock, callVars>>

-----------------------------------------------------------------------------
(* setopt and the handlers.                                                *)

\* A handler, or setopt itself, has its result.
Result(c, r) == res' = [res EXCEPT ![c] = r]

\* The dispatch.  Options without a handler, and handlers that are still to be
\* written, succeed at once; DOUBLE_FETCH allocates first; CRASH never returns.
SetOpt(c) ==
    \/ /\ opt[c] = "CRASH"
       /\ kernel = "up"
       /\ pc[c] = "setopt"
       /\ Panic
    \/ /\ opt[c] \in Copying
       /\ Step(c, "setopt", IF opt[c] = "DOUBLE_FETCH" THEN "malloc" ELSE "sopt")
       /\ UNCHANGED <<clientVars, callVars>>
    \/ /\ opt[c] \notin Copying \cup {"CRASH"}
       /\ Step(c, "setopt", "return")
       /\ Result(c, "success")
       /\ UNCHANGED <<clientVars, opt, sopt_p, bufs, route, entered>>

\* Mutant: sopt_p keeps the zero that bzero gave it.
Mut_FillSopt(c) ==
    /\ Step(c, "sopt", IF opt[c] \in Allocating /\ bufs[c] = 0
                       THEN "malloc" ELSE "copy")
    /\ UNCHANGED <<clientVars, callVars>>

\* Mutant: every handler that allocates does so after filling in the sockopt,
\* also the one that has its buffer already.
Mut_FillSoptAgain(c) ==
    /\ Step(c, "sopt", IF opt[c] \in Allocating THEN "malloc" ELSE "copy")
    /\ sopt_p' = [sopt_p EXCEPT ![c] = kernproc]
    /\ UNCHANGED <<clientVars, opt, bufs, route, res, entered>>

\* Fill in the sockopt: sopt_p is what kernproc is now.
FillSopt(c) ==
    /\ Step(c, "sopt", IF opt[c] \in Allocating /\ bufs[c] = 0
                       THEN "malloc" ELSE "copy")
    /\ sopt_p' = [sopt_p EXCEPT ![c] = kernproc]
    /\ UNCHANGED <<clientVars, opt, bufs, route, res, entered>>

\* MALLOC; a handler that gets no buffer panics.
Malloc(c) ==
    \/ /\ Step(c, "malloc", IF opt[c] = "DOUBLE_FETCH" THEN "check" ELSE "copy")
       /\ bufs' = [bufs EXCEPT ![c] = @ + 1]
       /\ UNCHANGED <<clientVars, opt, sopt_p, route, res, entered>>
    \/ /\ kernel = "up"
       /\ pc[c] = "malloc"
       /\ Panic

\* Mutant: the early return of trigger_double_fetch forgets the buffer.
Mut_CheckSize(c) ==
    \/ /\ Step(c, "check", "sopt")
       /\ UNCHANGED <<clientVars, callVars>>
    \/ /\ Step(c, "check", "return")
       /\ Result(c, "failure")
       /\ UNCHANGED <<clientVars, opt, sopt_p, bufs, route, entered>>

\* trigger_double_fetch: a size it accepts, or free the buffer and fail.
CheckSize(c) ==
    \/ /\ Step(c, "check", "sopt")
       /\ UNCHANGED <<clientVars, callVars>>
    \/ /\ Step(c, "check", "return")
       /\ bufs' = [bufs EXCEPT ![c] = @ - 1]
       /\ Result(c, "failure")
       /\ UNCHANGED <<clientVars, opt, sopt_p, route, entered>>

\* sooptcopyin or sooptcopyout.  The lengths passed are all sopt_valsize, so
\* that neither EINVAL nor the clamp can occur; errors are ignored by the
\* handlers.  sooptcopyout copies nothing to a null address.
Copy(c) ==
    /\ Step(c, "copy", IF opt[c] \in Allocating THEN "free" ELSE "return")
    /\ \/ route' = [route EXCEPT ![c] =
                      IF sopt_p[c] # kernproc THEN "copyuser" ELSE "bcopy"]
       \/ opt[c] = "INFO_LEAK" /\ UNCHANGED route
    /\ IF opt[c] \in Allocating THEN UNCHANGED res ELSE Result(c, "success")
    /\ UNCHANGED <<clientVars, opt, sopt_p, bufs, entered>>

Free(c) ==
    /\ Step(c, "free", "return")
    /\ bufs' = [bufs EXCEPT ![c] = @ - 1]
    /\ Result(c, "success")
    /\ UNCHANGED <<clientVars, opt, sopt_p, route, entered>>

-----------------------------------------------------------------------------
Init ==
    /\ kernel = "up"
    /\ module = "loaded"
    /\ thread = "none"
    /\ ctlref = "none"
    /\ kernproc = "null"
    /\ pc = [c \in Clients |-> "socket"]
    /\ sock = [c \in Clients |-> "none"]
    /\ conn = [c \in Clients |-> "no"]
    /\ opt = [c \in Clients |-> "OTHER"]
    /\ sopt_p = [c \in Clients |-> "null"]
    /\ bufs = [c \in Clients |-> 0]
    /\ route = [c \in Clients |-> "none"]
    /\ res = [c \in Clients |-> "none"]
    /\ exit = [c \in Clients |-> "running"]
    /\ entered = [c \in Clients |-> "null"]

Thread == RegisterControl \/ AssignKernproc

Client(c) ==
    \/ OpenSocket(c) \/ GetCtlId(c) \/ Connect(c) \/ EnterSetOpt(c) \/ Return(c)
    \/ SetOpt(c) \/ FillSopt(c) \/ Malloc(c) \/ CheckSize(c) \/ Copy(c) \/ Free(c)

Next == ModuleStart \/ ModuleStop \/ Thread \/ \E c \in Clients : Client(c)

Spec == Init /\ [][Next]_vars

\* The kernel starts the module and schedules its thread.  Clients may stop, and
\* nobody has to stop the module.
Fairness == WF_vars(ModuleStart) /\ WF_vars(Thread)

FairSpec == Spec /\ Fairness

-----------------------------------------------------------------------------
(* Properties.                                                             *)

TypeOK ==
    /\ kernel \in {"up", "panic"}
    /\ module \in {"loaded", "started", "failed", "stopped"}
    /\ thread \in {"none", "delay", "assign", "done"}
    /\ ctlref \in {"none", "ref"}
    /\ kernproc \in {"null", "proc"}
    /\ pc \in [Clients -> ProgramLabels \cup KernelLabels]
    /\ sock \in [Clients -> {"none", "zero", "other"}]
    /\ conn \in [Clients -> {"yes", "no"}]
    /\ opt \in [Clients -> Opts]
    /\ sopt_p \in [Clients -> {"null", "proc"}]
    /\ bufs \in [Clients -> 0 .. 1]
    /\ route \in [Clients -> {"none", "copyuser", "bcopy"}]
    /\ res \in [Clients -> {"none", "success", "failure"}]
    /\ exit \in [Clients -> {"running", "ok", "error", "no_id", "not_found"}]
    /\ entered \in [Clients -> {"null", "proc"}]

\* Every buffer a handler allocates is freed on every one of its paths: none is
\* left when the call has returned, early or not, whatever order the handler
\* allocates and reads kernproc in.
NoBufferLeaked ==
    \A c \in Clients : pc[c] \in ProgramLabels \cup {"return"} => bufs[c] = 0

\* The window in which kernproc is unset is harmless for everyone who comes
\* after it: a call that entered setopt with kernproc assigned copies kernel
\* memory as kernel memory, never through the routines for user addresses.
LateCallsUseBcopy ==
    \A c \in Clients : entered[c] = "proc" => route[c] # "copyuser"

\* Success reported by a client that came after the window means that its data
\* went through: it has connected, the handler of its option refused nothing, and
\* the copy was the one that cannot fail.  Three results are ignored on the way:
\* that of connect, and those of sooptcopyin and sooptcopyout, which in the window
\* may be an error of the copy from a user address.  An INFO_LEAK call to a null
\* address copies nothing, and the options without a copy have none to report.
SuccessMeansCopied ==
    \A c \in Clients :
        (exit[c] = "ok" /\ entered[c] = "proc" /\ opt[c] \in Copying \ {"INFO_LEAK"})
            => route[c] = "bcopy"

\* A module that was started comes to have its control registered and kernproc
\* assigned, also when it is stopped meanwhile and whatever its clients do,
\* unless the kernel panics.
RegistrationHappens ==
    module = "started" ~> (ctlref = "ref" /\ kernproc = "proc") \/ kernel = "panic"

\* The declaration of sopt_p says that null stands for the kernel: such a call
\* must not be copied as one from a user process.
NullMeansKernel ==
    \A c \in Clients : route[c] = "copyuser" => sopt_p[c] # "null"

=============================================================================
