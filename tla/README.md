# TLA+ models of Vulnerable-Kext

This directory holds TLA+ models of the programs of this repository, the TLC
configurations that check them on small instances, and proofs checked by TLAPS.
File and line references are to `src/`.

## 1. The system

Vulnerable-Kext is an intentionally vulnerable iOS kernel extension together
with what is needed to get it into a kernel. Four programs work together:

| Part | Source | State it keeps | Operations |
|---|---|---|---|
| `kext_loader`, event loop | `kext_loader/kext_loader.c` | kqueue, port set, notification port, two IOKit iterators, the list of `pongo_instance` records, USB handles | set-up, `pongo_device_added`, `pongo_usb_open`, `pongo_instance_load_kext`, `pongo_device_removed`, clean-up |
| `kext_loader`, load session | same file | how far it is with one device | map files, generate the symbol table, bulk uploads, shell commands, sleeps |
| `kextload` module | `pongo_module/kextload.c` | symbol table chain, UUID, `kext_id`, the kernelcache in memory; shares the bulk buffer with pongoOS | `kernelcache-symbols`, `kextload`, pre-boot hook that patches the kernel |
| the kext | `vulnerable_kext/*.c` | `kernproc`, the kernel control | module start and stop, thread that registers the control, `setopt` and its handlers |
| `kext_client` | `kext_client/kext_client.c` | a socket | find the control, connect, one `setsockopt` |

pongoOS (its shell, USB stack, `modload`, `bootx`; declared in
`pongo_module/pongo.h`), IOKit and XNU are external. They are modelled only as far
as the code in `src/` uses them and marked external in the map.

How the parts interact: IOKit notifications call the loader's handlers; the loader
drives the device by USB control requests (commands) and a bulk pipe (payloads)
and gets no completion back, only fixed sleeps; the device's handlers read
payloads in place in the buffer that the USB stack fills; the symbol table is a
binary format written by one program and parsed by another; the kext is found by
XNU at boot because of what `kext_insert` wrote; the client talks to the kext
through a kernel control.

What is hard here, and so what the properties are about:

* a device can be unplugged at any moment: before, during or after it is opened,
  in the middle of a load, and during the loader's own set-up;
* IOKit's iterators must be read to their end or they stay silent;
* two ladders of `goto fail_k` must match what has been acquired;
* USB results are ignored, so stale or partial payloads meet later commands;
* sleeps stand for completion, so uploads and commands can overlap;
* string storage is shared between symbols, and a short upload can still parse;
* sizes are checked with sums that wrap around, and cut to 32 bits;
* the kernel is patched in one pass by three patches that overwrite each other's
  matches, possibly by two copies of the module;
* the kext's control is reachable before the kext has finished to start.

The weaknesses in `vulnerable_kext/vulnerabilities.c` are there on purpose. They
are not treated as findings, and nothing here describes how to use them.

`PROJECT.json` lists the hazards line by line with the properties that cover them.

## 2. Modules

| Module | Models |
|---|---|
| `KextLoader` | the event loop, IOKit notifications, opening and closing, instance list |
| `DeviceRegistry` | what the event loop promises about devices, abstractly |
| `LoadSession` | one load session, host against device |
| `SymbolTable` | symbol files, blob, device parser, lookup |
| `KextImage` | `kext_parse`, `kext_alloc`, `kext_map`, `kext_relocate`, `kext_link` on Mach-O images |
| `PrelinkInfo` | `kext_insert` on the `__PRELINK_INFO` text |
| `KernelPatch` | the chain of pre-boot hooks and the three kernel patches |
| `KextControl` | the running kext: start thread, registration, `setopt`, handlers, clients |
| `MCSymbolTable`, `MCKextImage`, `MCPrelinkInfo`, `MCKernelPatch` | the inputs TLC enumerates |
| `KextLoaderProofs`, `KextLoaderRefinement`, `LoadSessionProofs`, `SymbolTableProofs`, `KextImageProofs`, `PrelinkInfoProofs`, `KernelPatchProofs`, `KextControlProofs` | inductive invariants and theorems |

How they fit together: `KextLoader` treats a load as one state of its loop, whose
inside is `LoadSession`; the steps of `LoadSession` on the device that read a
symbol blob or a kernel extension are `SymbolTable`, and `KextImage` followed by
`PrelinkInfo`, in detail; its `bootx` is `KernelPatch`; and once XNU runs, the
kext is `KextControl`.

Every module keeps the names of the code. Operators named `Mut_...` are mutated
forms of the definition that follows them: each property is shown to fail when
one of them takes that definition's place. They are not part of any
specification.

### KextLoader

A *service* is one attachment of a device: unplugged and plugged in again it is
another service, as it is for IOKit. `phase` says what the cable did. `addedQ`
and `removedQ` are the services waiting in the two iterators, `addedArmed` and
`removedArmed` say whether an arrival sends a message, `msgs` is the notification
port. `pc` runs through the code of `pongo_usb_kext_loader`, of the handlers and of
`pongo_usb_open`; `caller` tells whether a handler was called directly to arm its
iterator (lines 1167-1168) or from a message. `usb` holds the handles of each
device, `instances` counts its records, `held` is what the clean-up ladder must
release. Every call that can fail does so nondeterministically; `USBDeviceOpen` and
`USBInterfaceOpen` can succeed only while the device is attached. The retry loops test
their bound after a failed try, so they make `MaxTries + 1` tries (`kext_loader.c:105`,
where the comment at line 73 speaks of the maximum number of tries).

`ReleasedFrom(k)` and `ClosedFrom(k)` are the two ladders read from label `fail_k`
down. A load is one state of the loop (`pc = "load"`), during which anything can
happen to the cables.

Abstractions: services have ideal identities (the loader compares IOKit handles and
releases them once too often, see the hazards); matching dictionaries, logging and
the asynchronous receive code under `#if 0` are left out; on exit the queues of
the released iterators are dropped. No label of the ladder closes the devices that
are tracked when `kevent` fails (lines 1174-1207): `Fail` leaves their instances and
handles as they are, to be cleaned up by the end of the process, and
`ExitLeavesTracked` says exactly what may be left: nothing of the ladder's own
resources, nothing at all after a failed set-up, and after a failed `kevent` only
devices that are tracked, none of which went away unless its removal was waiting.

### DeviceRegistry

The promise without the mechanism: an attachment is *new*, then *tracked* or
*closed*; it is taken up once, a tracked one is forgotten only when its device went
away, and (in `LiveSpec`) every device that stays is taken up and every tracked one
that vanishes is forgotten. `KextLoader` instantiates it with `status <- Status`: a
service is tracked while it has an instance; it is new until the handler that
opens it has linked its instance or given it up, and closed afterwards. Services
that left before the program could hear of them are closed as well.
`ImplementsRegistry` is the safety part, `ServesRegistry` the whole of `LiveSpec`.

### LoadSession

The host's `stage` counts the module, the symbol table, each kernel extension and
the boot; `step` is the position inside a stage: map the file, start the upload,
send the data, discard it after a failure, send the command, sleep. The device has
the bulk buffer (`recv`, `count`), a queue of commands and one running handler
(`run`). `command_kextload` is four steps, because it reads the buffer four times:
parse, map, link, insert; `info` records which payload each pass saw. A payload is
its kind, its kernel extension, and whether it is whole.

Three switches select the environment. `HostFaults`: any file may be unreadable and
any USB request may fail. `DeviceFaults`: the device may run out of memory or
refuse a payload. `SleepCovers`: each sleep outlasts the command sent before it,
which is what the comments on the sleeps intend and nothing guarantees. Without it an
upload may replace the one a handler has validated (`Replaced`); the comment at
`kextload.c:862-864` says that this leads to memory corruption. `MapKext` and `LinkKext`
then either go on with the other payload or end in `corrupted`, after which the model
knows nothing of the device and no property claims anything about it.

`sent` and `delivered` are history variables used by `FailureIsolated`.

### SymbolTable

The host reads files in the order `readdir` returns them, adds each symbol to its
kernelcache and its name to the string blob unless `memmem` finds the name there
(`InsertSymbol`), sizes and writes the binary blob one kernelcache at a time, and
uploads it; any prefix of it may arrive (`Upload`). The device looks for its UUID,
checks sizes and the final terminator, and links a table (`LinkTable`). `Lookup` is
`kernelcache_symbol_table_lookup`. Names are sequences of characters, because
sharing of suffixes is what could go wrong; offsets and sizes are in bytes as in
the code, while the blob's content stays structured. The text syntax of the files
(`tp_*`, `parse_*`) is abstracted to headers and lines that parse or do not.

The reference is `AddressInFiles`: the first line, in reading order, that defines
the name for this kernelcache and has no bad line above it in its file.

Sizes on the device wrap at `SizeSpace`: an upload that ends before the strings
makes `symbol_strings_size` (`kextload.c:194`) almost as large as a `size_t` can be,
and the sum passed to `malloc` wraps back to less than the table needs. The symbols,
addresses and strings are never stored into such an allocation, because `addr()` at
line 210 refuses the upload first. But `count`, `symbol` and `address` are stored before
that (lines 205-207), and the allocation can be smaller than these fields: with a
second kernelcache behind the device's own in the blob, an upload that ends shortly
after the device's symbol count makes `malloc` get for instance 20 bytes. `SpoilHeap` is
that undefined behaviour. `StoresFit` says how far it goes: the fields are inside
when the kernelcache is the last one or the strings' offset has arrived, and
everything else is inside always.

On the host no result of `realloc` or `malloc` is checked (`kext_loader.c:721`, 746, 759
and 826): each allocation is at most `HostMemory`, or the host ends in `crashed`
(`HostCrash`). Offsets are cut to 32 bits (`% Space32`; lines 755, 761, 835 and 851); the
asserts at 762 and 831 guard two of these casts, nothing the last. `BlobFits` says that no cut changes a value; it holds,
like everything else about blobs, because `HostMemoryAssumption` bounds an allocation
by 4 GiB. A larger blob would be mangled at line 851 without being noticed.

### KextImage

One upload from `kext_parse` to XNU's use of the result. Addresses and sizes count
8-byte words; 64-bit sums wrap at `Space` and the allocation's size is cut at
`Space32`. An upload is a list of load commands, symbols and relocations with the
fields that the checks read; `ok` and `str` stand for the range checks of tables
and names in the file, which do not interact with anything else. Memory (`mem`) is
a function of offsets from the allocation, so that a write outside of it is seen
as a change of a *foreign* word; a word remembers where it came from and how often
it was slid. `alloc_static` is assumed to return zeroed memory: `kext_map` clears
nothing, `pongo.h:252` does not promise it, and the words of a segment behind its file
data are zero in `LoadedAsLinked` only because of it. `Map`, `Relocate` and `Link`
change memory and the counts of the mapped header (`hdr`). `SlidePrelinked` is external: the part of
`OSKext::slidePrelinkedExecutable` that the comments at lines 595-599, 647-648 and
709-710 describe.

`InBounds` is the bounds check as it stands, which compares an address with a
size, and `RelocOff` subtracts the base that `InBounds` adds. For images linked at
address 0, which is what the kext's build produces, all of this agrees; the
properties about relocations say so in their statement (`vm_base = 0`).

The reference linker is `ReferenceWord`: the file word or zero, with the number of
relocations at its offset, or the last symbol linked there.

### PrelinkInfo

`mem` is memory from the start of the `__info` section on, cell by cell: a cell is
one of the pieces of text that `kext_insert` handles as a whole. `FirstTry` and
`IsPlace` are the two backward loops, `strcpy` copies a string with its terminator,
`Patch` is `memmem` and `format_hex`. `Digits`, `IdDigits` and `Base` are 16, 4 and 16
in the code. The assumption the code states, enough space behind the text, is
`SectionsAssumption`; so are a text without a terminator inside, one directly behind
it and no other closing tags behind that, without which the section is not what
`kext_insert` expects. `PowersAssumption` states the defining equations of `^`, which
the prover does not know. The third assumption in its comment (`kextload.c:805-806`, "Only one kext
is being inserted into the kernelcache") is out of date: the code keeps `kext_id`,
and `TextHasAll` shows that several can be inserted.

### KernelPatch

An instruction is the class that the patterns' masks and `MATCH` tell apart.
`ModuleEntry` puts a hook in front of the chain; the hooks run from the last copy
to the first, and patch on the way back (`depth`). This is the default build: with
`DISABLE_CHECKRA1N_KERNEL_PATCHES = 1` in the top `Makefile` a hook does not call the next
one (`kextload.c:1085-1087`), so that only the last copy patches; that build is not
modelled. `Scan` offers one position to the
three callbacks, which are actions named as in the code. `IsPrologue` and
`IsX2Insn` describe the result of the backward search declaratively: the nearest
prologue within `MAX_SEARCH`, and the move from X2 closest to it. A search that comes
to the start of the text without a prologue ends there in the model, while the code
reads on below `__TEXT_EXEC` (lines 969-977). xnu_pf is external;
that it stops the boot when a patch marked required never fired is how
`kextload_patch` uses it (its sixth argument, `pongo.h:175-178`).

### KextControl

`ModuleStart` starts the thread (`thread`): the delay and `ctl_register` are one
step, the assignment of `kernproc` another. A client walks through `kext_client`'s
calls and, inside `setsockopt`, through the handler of its option: fill in the
`struct sockopt` (a first read of `kernproc`), allocate, check, copy (a second read),
free. `trigger_double_fetch` allocates first and can return early; the stubs and
unknown options succeed at once; `trigger_crash` and a failed allocation end the
kernel (`Panic`). What the handlers do to memory, which is wrong on purpose, is not
modelled: `CheckSize` chooses its outcome, and `Copy` only records which routine
was used. The handlers ignore the errors of `sooptcopyin` and `sooptcopyout`, and
`kext_client` that of `connect`, so a success need not mean that anything was done:
unknown options and the stubs succeed too, and in the window before `kernproc` is
assigned a copy can fail unnoticed. `SuccessMeansCopied` says when it does mean
something. `entered` is a history variable.

## 3. Runs

| Run | Instance | Shows |
|---|---|---|
| `loader_all` | 3 services, 2 retries, fair | `TypeOK`, `RemovalPending`, `WakeupPending`, `HandlesOwned`, `ImplementsRegistry`, `ExitLeavesTracked`, `DestroyedOnlyWhenGone`, `GoneForgotten`, `ServesRegistry` |
| `session_faults` | 3 kexts, host failures, fair | `TypeOK`, `InsertedInOrder`, `InsertedIntact`, `FailureIsolated`, `SessionEnds`, `BootsWithDelivered` |
| `session_overlap` | 3 kexts, all failures, sleeps too short | `BundleIdsUnique`, until memory is corrupted |
| `session_unslept` | 2 kexts, no failure but short sleeps | `InsertedIntact` fails |
| `session_lost` | 1 kext, host failures | `BootedWithAll` fails |
| `symbols_roundtrip` | directories of at most 2 files of at most 2 lines over 3 names, all prefixes of the blob | `TypeOK`, `LookupMatchesFiles`, `WholeBlobAccepted`, `BlobFits`, `StoresFit` |
| `image_load` | four families of images, linked at 0 and at 5 | `TypeOK`, `CopiesInBounds`, `ForeignIntact`, `LoadedAsLinked`, `UsableByXNU` |
| `image_based` | images with one local relocation, not linked at 0 | `SlidWhereDocumented` fails |
| `prelink_insert` | 3 insertions, 2-digit numbers, 1-digit IDs | `TypeOK`, `TextHasAll`, `NeverGivesUp` |
| `patch_boot` | kernels of up to 30 instructions, 1 or 2 copies | `TypeOK`, `NoLockdownSurvives`, `BootsAsIntended`, `MissingMeansAbsent`, `BootsWithOneCopy` |
| `control_safety` | 2 clients, all options, fair | `TypeOK`, `NoBufferLeaked`, `LateCallsUseBcopy`, `SuccessMeansCopied`, `RegistrationHappens` |
| `control_window` | 1 client as `kext_client` is | `NullMeansKernel` fails |

Bounds. Three services are enough for one to be opened while a second waits to be
added and a third waits to be removed; two retries give a first, a middle and a
last try. Three kernel extensions give a first, a middle and a last one, so that a
stale payload can come from the previous stage, and a failure can have successes
on both sides. The three names of
`symbols_roundtrip` are a name, one that ends with it and one that starts with it;
two files give every combination of the same and different UUIDs, and the device
may have a third. `Space32 = 128` is above `HostMemory = 110`, which is above all but the
largest blobs, so that allocations succeed and fail; `SizeSpace` is well above their
sums. `image_load` has 16 addresses, of which 8 fit in "32 bits", and
pages of 2 words: enough for a segment whose file range wraps, for a size that is cut,
and for an image that lies behind its own size; its families vary the segments,
the commands, the symbols and the relocations each in full. `prelink_insert` lets a
third insertion repeat a one-digit ID. The kernels of `patch_boot` have lockdown
sequences next to each other, interleaved and cut short, and functions with no, one
or two moves from X2 on either side of `MaxSearch`. Two clients are enough for
`control_safety`: calls share nothing but `kernproc`. Message and command queues are
finite because of the loop's own structure.

Deadlock checking is off for `KextLoader` (the loader may leave its loop, and the
attachments of an instance come to an end), for `KextControl` (clients end, and a
panic stops everything) and for `PrelinkInfo` (no further load need follow).

Fairness. `KextLoader` assumes that the single thread keeps running
(`WF_vars(Loader)`) and that `mach_msg` does not fail for ever while a message waits
(`SF_vars(Dispatch)`; the code retries from `kevent`, which reports the message
again). Nothing is assumed of the cables, nor of `kevent` failing. Retry
loops and loads end because their code is bounded. `LoadSession` assumes that both
programs keep running (`WF_vars(Host)`, `WF_vars(Device)`). `KextControl` assumes that
XNU starts the module and schedules its thread; clients may stop anywhere, and nobody
has to stop the module.

### What the failing runs say

* `session_unslept`: "Sleep awhile to let the command process before executing the
  next command." (`kext_loader.c:955`) is a hope. When the device is slower, the next
  upload replaces the buffer between two passes of `command_kextload`, and the
  inserted kernel extension is parsed from one upload and copied from another.
  `kextload.c:862` knows of it.
* `session_lost`: "Boot the kernel with the kernel extension(s)."
  (`kext_loader.c:964`) also happens when an upload or its command failed.
* `control_window`: "calling process or null if kernel" (`vulnerabilities.c:29`). A call
  that fills in its `sopt_p` before `kernproc` is assigned (`vulnerable_kext.c:120`) has
  a null there and copies after the assignment: the copy routines compare with
  `kernproc` (lines 59 and 86), not with null, and take kernel memory for a user's.
* `image_based`: "r_address is the offset from the first segment's vmaddr to the vmaddr
  of the pointer." (`kextload.c:661-662`), but line 663 subtracts the base from it. For an
  image that is not linked at 0 another word is slid.

## 4. Proofs

Every theorem holds for all values of the constants that satisfy the named
assumptions.

| Module | Theorem | Statement |
|---|---|---|
| `KextLoaderProofs` | `TypeCorrect`, `NoRemovalLost`, `NoHandleLeaked`, `NoWakeupLost` | `Spec =>` always `TypeOK`, `RemovalPending`, `HandlesOwned`, `WakeupPending` |
| | `DestroyOnlyGone`, `CleanExit` | `Spec => DestroyedOnlyWhenGone`, `Spec => ExitLeavesTracked` |
| `KextLoaderRefinement` | `Refinement` | `Spec => ImplementsRegistry` |
| `LoadSessionProofs` | `TypeCorrect` | `Spec =>` always `TypeOK` |
| | `IdsUnique` | `BundleIdsUnique`; without `SleepCovers` until memory is corrupted |
| | `Intact`, `InOrder` | under `SleepCovers`: `InsertedIntact`, `InsertedInOrder` |
| | `Isolated`, `BootsComplete` | under `SleepCovers` and without `DeviceFaults`: `FailureIsolated`, `BootedComplete` |
| `SymbolTableProofs` | `TypeCorrect`, `GeneratorFits`, `RoundTrip` | `TypeOK`, `BlobFits`, `WholeBlobAccepted` |
| | `StoresStayInside`, `LookupRight` | `StoresFit`, `LookupMatchesFiles` |
| `KextImageProofs` | `TypeCorrect`, `CopiesSafe`, `ForeignSafe` | `TypeOK`, `CopiesInBounds`, `ForeignIntact` |
| | `LoadsAsLinked`, `AlwaysUsable` | `LoadedAsLinked`, `UsableByXNU` |
| `PrelinkInfoProofs` | `TypeCorrect`, `TextComplete`, `AlwaysInserts` | `TypeOK`, `TextHasAll`, `NeverGivesUp` |
| `KernelPatchProofs` | `TypeCorrect`, `LockdownGone`, `OneCopyBoots` | `TypeOK`, `NoLockdownSurvives`, `BootsWithOneCopy` |
| | `BootsIntended`, `MissingAbsent` | `BootsAsIntended`, `MissingMeansAbsent` |
| `KextControlProofs` | `TypeCorrect`, `NoLeak`, `LateCallsSafe`, `SuccessTrue` | `TypeOK`, `NoBufferLeaked`, `LateCallsUseBcopy`, `SuccessMeansCopied` |

### The event loop

Assumptions: `MaxTries` is a natural number and `NoService` is not a service. None of
the invariants is inductive alone. `IInv` adds to them:

* `SetupInv`: at each point of the set-up exactly `HeldAt(pc)` is held, so that the
  label a failure jumps to releases all of it;
* `OpeningInv`: the device being opened holds exactly `HandlesAt(pc)`, has no
  instance and has left the queue, so that the inner ladder closes all of it and
  the instance that is created is its first;
* `FreshInv`: a service that waits to be added, or was never attached, has no
  instance, and a service that waits to be removed has gone: so an attachment is
  opened at most once, and only instances of vanished devices are destroyed;
* `AddedWake`, `RemovedWake`: an armed iterator is empty, and one that is not armed
  has a message waiting or a handler that is still going to read it to its end.

`RemovalPending` then follows step by step: a device that vanishes while it holds an
open handle enters the termination iterator at once, because the handle can only
have been opened after the iterator was registered; and `pongo_device_removed` takes
it out only while nothing is being opened, so that destroying its at most one
instance leaves nothing behind. There is one lemma per action, and one for
each of the shapes that several actions share (`FailStep`, `OpenFailStep`,
`OpenedStep`, `RetryStep`, `AcquiredStep`).

`Refinement` rests on the same invariant. Most steps leave every status as it is
(`Invisible`); `LinkInstance` and the failures of `pongo_usb_open` are `TakeUp`,
`NextRemoved` is `Forget` or nothing, a failed set-up call or a failed `kevent` is
`Leave`.

### The load session

`IInv` has a part without conditions. `kext_id` counts the insertions (`IdInv`), and every
insertion answers a `kextload` command of its own (`LoadsInv`): the insertions, the
command that is being run and those in the queue are together no more than the stages
the host has sent one for. So there are at most `NumKexts` insertions, and
`BundleIdsUnique` holds, whatever fails, as long as no overlap has corrupted the
device's memory. Two lemmas about the set
of `kextload` commands in a queue, when one is appended and when the first is taken, do
the counting.

The other parts hold when the sleeps outlast the commands. `SleptInv`: while the host
is not asleep the device runs nothing of the module (`QuietInv`), so a handler that
is in the middle of its passes still has the upload it began with (`ReadInv`), and
what can still be taken is newer than anything inserted (`OrderInv`). `StageInv`: no
command outlives its stage. `DeliveredInv`, also without faults of the device: each
delivered stage has had its effect or is under way. `BootInv` adds that `bootx` comes
last, and with the count this gives `BootedComplete`, the safety part of
`BootsWithDelivered`: a session that lost no request boots with exactly its kernel
extensions. Without `SleepCovers` the run `session_unslept` shows `InsertedIntact` to be
false.

### The symbol table

`CountsInv` says that `maxsymcnt` bounds every list but the one that is growing,
`RoomInv` that what is left of the allocation has room for the longest list for every
kernelcache still to be written: together they give `BlobFits`. `StringsInv` (every
offset lies in the strings, which end in a terminator), `FilesInv` and `WrittenInv`
(descriptors and arrays are those of the kernelcaches, and lie before the strings) give
`WholeBlobAccepted`. All three rest on `HostMemoryAssumption` (lemma `BlobBelow`): whatever was
allocated is below 4 GiB, so that the cuts to 32 bits change nothing and no sum in a
whole blob wraps. For `StoresFit`, lemma `NoWrap`: an upload that passes the check of its
strings is not shorter than their offset, so that neither `symbol_strings_size` nor the
size passed to `malloc` wraps; and lemma `FieldsFitLast`: for the last kernelcache the
upload that has its symbol count misses at most its symbols, 12 bytes each, for which
`malloc` is asked 16 bytes each.

`LookupInv` is for `LookupMatchesFiles`. `MatchInv` compares, for every UUID and name, the
first symbol of that name collected so far with the first line that defines it among
the lines read so far: both are missing, or their addresses agree. A symbol's name is
what `StringAt` reads at its offset, and the string lemmas (`StringIs`, `StringSame`,
`StringStored`) say that it stays the same when strings are appended, that it is the name
that was stored or found by `memmem`, even inside of another one, and that a shorter
upload that still has the terminator yields it too. `UniqueInv` (one kernelcache per
UUID), `LineInv` (no bad line above) and `TableInv` (the table is that of the device's
kernelcache, with a prefix of the strings that covers all offsets) carry this to the
lookup.

### The image

`LoopInv` carries for every parsed segment that it lies between `vm_base` and the
running `vmaddr`; `AllocInv` that the allocation is not smaller than the image. The
file range is checked with a sum that can wrap (`kextload.c:352`). That it does not
wrap for what is copied follows only later: the segment's `filesize` is at most its
`vmsize`, that at most the image's, that at most the allocation's 32-bit size, and an
upload is more than 32 bits away from the end of the address space
(`ImagesAssumption`). `ForeignIntact` needs in addition that `kmod_info` lies in the
image (`KmodInv`) and that relocations were checked (`RelocInv`).

`FullInv` adds what is in memory. `TileInv`: the segments passed so far hold each address
of the image exactly once, so that the order in which they are copied does not matter.
`MemInv` then gives each word at each stage (copied, slid as often as there are
relocations for it, linked), and `HdrInv` the counts that `kext_relocate` and `kext_link`
leave in the mapped header; because they are zero, XNU's own pass changes nothing.

### The dictionaries

`IInv` is the layout of memory after any number of insertions: the old text without its
closing tags (`BeforeInv`), a dictionary per loaded kernel extension (`LoadedInv`), the
closing tags, a NUL, and what was there before (`BehindInv`). Two facts make it
inductive. The backward search meets those closing tags first (`PlaceIfClosed`): its
start is not before them, because the section grows with every insertion, and no
others follow. And when the text does not end in closing tags, there is no place at all
(`NoPlaceIfOpen`), because those inside are not followed by a NUL; so either all
insertions happen or none (`OutcomeInv`, which gives `NeverGivesUp`). `InsertedFacts`
follows the seven writes of `kext_insert` cell by cell. `TextHasAll` also needs that the
numbers XNU reads are those that were written: `ValueOfDigits` shows that reading the `n`
digits of `format_hex` yields the value modulo `Base ^ n`, from lemmas about division with
remainder (`DivisionTwice`, `ModuloTwice`). Its induction over the digits is done with the
least counterexample, as the library's induction theorems cannot be used here.

### The kernel patch

`ScanInv`: the positions behind the scan are clean. Lemma `StaysClean` is why they
remain so: patches write only instructions that occur in no lockdown pattern.
`SecondInv`: after one copy has scanned, the kernel is clean, so the MMU patch of
another copy never fires, and xnu_pf stops the boot.

`FirstInv` says what the first copy has done so far: the text is the original with the
lockdown sequences before the scan's position taken out, and with one move from X2
replaced once the third patch has fired (`TextInv`); a patch has fired exactly if the
original has something for it before that position (`FiredInv`). This is inductive
because each patch sees the kernel as if the others had not run: two lockdown sequences
never share an instruction (`MmuApart` and its like), and what the third patch looks for
is of other classes. `BootsAsIntended` and `MissingMeansAbsent` are the two ends of a scan.

### The kext

`BufferInv` says at which points of which handler the call has a buffer; `SnapshotInv`
that a call that entered after the assignment has it in `sopt_p`; `ThreadInv` that
`kernproc` is not assigned twice; `CopiedInv` that a handler has a result to report only
after its copy, which for such a call was `bcopy`.

### Only model-checked

Every invariant and every action property that the passing runs check is also a
theorem. What is left to TLC is liveness, which is out of reach of the prover:
`GoneForgotten`, `ServesRegistry`, `SessionEnds`, `BootsWithDelivered` and
`RegistrationHappens`.

## 5. What could follow

1. The safety part of `ServesRegistry` is proved (`Refinement`); lemmas about what is
   enabled could bring the liveness part closer, but not all the way.
2. `KextLoader` and `LoadSession` composed. They share only the moment at which the
   device vanishes, after which every USB request fails; `HostFaults` includes that.

## 6. Not modelled

* Command line and path handling (`kext_loader.c:1211-1305`): sequential string
  handling; that there is at least one kernel extension is an assumption.
* The text tokenizer below the level of a line (`kext_loader.c:392-530`), USB request
  encoding, logging, the receive code under `#if 0`.
* A loader that is restarted against a device that is still in pongoOS: what pongoOS
  does when commands of the same names are registered twice is outside the repository.
  The part that is inside, two copies in the chain of hooks, is in `KernelPatch`.
* Reference counts of IOKit handles (`kext_loader.c:219` and 1065), which are kept
  inside IOKit; and what XNU does with a stopped module's code: the stop routine leaves
  the control registered and the thread running, which is harmful only once that code
  is unmapped, and no property is about it.
* The build with `DISABLE_CHECKRA1N_KERNEL_PATCHES = 1` (see KernelPatch).
* `pongo.h` and the vendored XNU headers are declarations; the symbol files are data.
* The memory effects of the kext's intentional weaknesses, for good.

## 7. Running

    tlc -config KextLoader_all.cfg KextLoader
    tlc -config LoadSession_faults.cfg LoadSession
    tlc -config SymbolTable_roundtrip.cfg MCSymbolTable
    tlc -config KextImage_load.cfg MCKextImage
    tlc -config PrelinkInfo_insert.cfg MCPrelinkInfo
    tlc -config KernelPatch_boot.cfg MCKernelPatch
    tlc -config KextControl_safety.cfg KextControl
    tlapm KextLoaderProofs.tla
    tlapm PrelinkInfoProofs.tla

Every run ends within minutes; `PROJECT.json` lists them all, with the map from
definitions to source lines, the hazards, and the mutants that break each property.
