# TLA+ verification of QQGlassBar-Zygisk

## 1. The system

QQGlassBar is a Zygisk module. It stages a hook engine and a payload in the
data directory of QQ or TIM, loads them into the host process, initialises the
engine (LSPlant on top of Dobby) and lets the payload attach a bar to the
current activity.

| Part | State | Operations | Hard behaviour |
|---|---|---|---|
| Zygisk module, `zygisk/src/module.cpp` | flags and descriptors of one process; the staged files, shared by all processes of the app | `preAppSpecialize`, `postAppSpecialize`, `run`, `stageCore`, `stageFile`, `loadAndStart` | several host processes stage the same files through one temporary name; a process can be killed between any two system calls |
| Core engine, `core/src/mq/core` | `registry` of Holders (entries, token), `nativeOk` | `ensureNative`, `add`, `unhook`, `invokeOriginal`, `dispatch` | host threads enter a hooked method while other threads hook and unhook it; callbacks run outside the monitor |
| JNI glue, `native/glue.cpp` | `gArt` tables, `gCache`, `gLsplantReady` | `mapArtTables` (once), `ResolveArtSymbol`, `nativeInitialize`, `nativeHookMethod`, `nativeUnhookMethod`, ... | one-time initialisation against retries of the caller |
| LSPlant, `native/lsplant_jni` | `hooked_methods_`, `hooked_classes_`, `deoptimized_*`, `jit_movements_`, trampoline pool, Java-debuggable counter | `Init`, `Hook`, `UnHook`, `Deoptimize`, `GenerateTrampolineFor`, class-initialisation and JIT hooks | lock-free trampoline allocation, a three-state atomic counter, maps that are updated one after another |
| Payload, `payload/.../GlassBarEntry.java` | `attached`, `tries` | `startWithCore`, `waitHostAppReady`, `ensureEngineReady`, `scheduleAttach` | bounded retries against a host that becomes ready at any time |
| Web UI, `module-template/webroot/app.js` | settings object, form, settings file | `load`, `save`, `parse`, `serialize` | asynchronous load against user input |
| Dobby, `native/dobby` | interceptor entries, arenas of code memory, the patched text | `DobbyHook`, `DobbyInstrument`, `DobbyDestroy`, the near branch plugin; relocators, assemblers, closure bridges | threads execute what is being patched; instructions that depend on their address are rewritten for another one |
| JNI helper, `lsplant_jni/include/utils` | local references and pinned buffers owned by C++ objects | constructors, moves, assignments, `reset`, `release`, destructors, `JNI_SafeInvoke` | long sequences of legal moves; a handle that was deleted is given out again |
| dex_builder, parallel_hashmap | - | library code used by LSPlant | third party |

Who calls whom: Zygisk forks the app process and calls the module; the module's
thread stages the files, makes the two class loaders and calls
`GlassBarEntry.startWithCore`; the payload calls `CoreEngineImpl.ensureInit`,
which loads `libmq-core.so` and calls `nativeInitialize`; glue resolves ART's
symbols and calls `lsplant::Init`, which installs inline hooks through Dobby.
From then on host threads that call a hooked method run LSPlant's stub, which
calls `LsplantCoreToken.callback` and so `CoreEngineImpl.dispatch`.

### What makes each part correct

| Part | Correct when | Hard to test because |
|---|---|---|
| Hook registry | entries, token and the code ART runs agree; a call runs every callback that is registered during all of it; a call under a stable hook never meets a missing or dead backup; a callback is gone once its unhook has returned | dispatch reads without the monitor what add and unhook write one field after another |
| Dispatch | one call runs the original at most once; callbacks pair up whatever one of them throws; the host sees no exception of a BEFORE or AFTER | what happens depends on the order in which several callbacks use one shared parameter object |
| Start-up | nobody uses a half-initialised engine; inline hooks are installed once; the payload thread ends and tells the truth | one-time initialisation, an unsynchronised first test, a host that becomes ready at any time |
| Trampoline pool | no slot is given out twice or outside the pool's pages; every call returns | a lock-free word that mixes an address and a count |
| Debuggable guard | the runtime is debuggable while a guard lives and is switched back afterwards | joins and departures race with the two switches |
| Zygisk module | a process loads whole files of its own version; a staged file is replaced whole and never written to | several processes, kills, and an update share one directory |
| Hooks inside ART | a hook stays in force, a backup and an unhooked method are the original | ART rewrites entry points behind the engine's back |
| `lsplant::Init` | when it succeeds, all that is used later was found; when it fails, something needed is missing | every API level has other functions, under other names, in other tables |
| Method layout and hook stubs | a method is changed only where it is meant to be; a call reaches the callback with its arguments and comes back | the layout is measured on the device; wide arguments take two registers; five processors |
| JNI helper | each handle and buffer has one owner that gives it back once | mistakes show as leaks and double deletes far from their cause |
| Inline hooking | calls run the instructions of their function; a destroyed hook leaves nothing behind; code memory is handed out once | threads may be anywhere while a patch is written; memory is searched in a map of the process that is already old |
| Generated code | a relocated instruction does what it did; a trampoline arrives; a callback sees and changes the registers of its thread | fields of many widths and units, right for all short distances if one is wrong |
| Glass bar attachment | the bar is attached to the activity in front, and the attempts end | activities come and go while a Runnable retries |
| Web UI | what was saved is read back, and a save changes only what was touched | load and save are asynchronous and overlap |

## 2. Plan

The order follows the weight of the behaviour: first the registry every hook
goes through, then what one call of it does, then start-up, then the lock-free
parts of LSPlant, the files shared by processes, the hooks inside ART, the code
that is generated for them, and the two user interfaces.

| Module | Models | Status |
|---|---|---|
| `CoreEngine`, `CoreEngineProofs` | hook registry | checked, proved |
| `Dispatch`, `DispatchProofs` | one dispatch | checked, safety proved |
| `EngineInit`, `EngineInitProofs` | start-up | checked, safety proved |
| `TrampolinePool`, `TrampolinePoolProofs` | `GenerateTrampolineFor` | checked, proved |
| `DebugState` | abstract specification of the guard | - |
| `DebuggableGuard`, `DebuggableGuardProofs` | `JavaDebuggableGuard` | refinement of `DebugState` checked and proved |
| `Staging` | Zygisk module | checked, safety proved (`ModuleFilesProofs`) |
| `ArtHooks` | `Hook`, `UnHook`, `Deoptimize`, class initialisation, instrumentation, JIT | checked, proved (`LsplantProofs`) |
| `LsplantInit`, `ArtMethod`, `HookStub`, `JniRefs` | what `Init` finds, the layout of a method, the code of a hook, the wrappers of references | checked, proved but for the calls of `HookStub` |
| `Lsplant`, `LsplantProofs` | composes these four with `ArtHooks` | checked |
| `GlassBar` | `scheduleAttach` and the status file | checked |
| `WebUI` | `webroot/app.js` | checked, safety proved (`ModuleFilesProofs`) |
| `ModuleFilesProofs` | proofs about the files of the module: `Staging` and `WebUI` | - |
| `CodeMemory`, `InlineHooks`, `InlineHooksProofs` | Dobby's arenas; its interceptor, routings and patches | checked, proved |
| `MachineCode`, `Relocation` | the ARM processors; trampolines and relocation on them | checked |
| `ClosureBridge`, `Assembler`, `X86Relocation` | the bridge of instrumented code, the ARM assemblers, decoder and relocators of x86 | checked |
| `GeneratedCode` | composes `Relocation` with these three | checked |
| `MC*` | instances for TLC | - |

An `MC` module only extends what it instantiates and defines a constant or a
symmetry set where a `.cfg` cannot. Three of them extend two modules that share no
variable: `MCCoreEngine` (`CoreEngine`, `Dispatch`), `MCPayload` (`EngineInit`,
`GlassBar`) and `MCModuleFiles` (`Staging`, `WebUI`). Their variable `part` says
which of the two a behaviour follows; the other one stays in an initial state.

Not done: an abstract specification of the registry (a set of active callbacks
per member, a call runs those active throughout) with `CoreEngine` as its
implementation. What it would say of one call is `NoMissedCallback`.

The modules do not share variables; they meet at calls. `CoreEngine` takes the
native hook and unhook as single steps that change `code`; `ArtHooks` is what
happens inside them, and relies on the monitor that `CoreEngine` models
(`HolderFree`). `Dispatch` is what happens between `DispatchCopy` and `Return`
of `CoreEngine`. `EngineInit` is the precondition of all of them; `LsplantInit`
looks into its stages. `HookStub` is the path from a trampoline to `dispatch`,
`InlineHooks` what a stage does to libart, and `GeneratedCode` what `InlineHooks`
takes for granted: that relocated instructions do what they did.

## 3. The modules

### CoreEngine

State: `entries` and `token` are the fields of a `Holder`, `owner` the monitor
of its list, `backupSet` the tokens whose `backup` field is set, `code` what ART
runs for the member. Per thread `pc`, the member, the entry, the token its call
came through and the snapshot. `handles` are the `CoreHook` objects clients hold.
`active` and `must` are history: handles nobody has called `unhook()` on, and,
for each call, those active during all of it.

| Actions | Code |
|---|---|
| `AddCall`, `AddEnter`, `AddNativeHook`, `AddNativeFail`, `AddSetBackup`, `AddSetToken`, `AddInsert` | `add`: one step per write another thread can see; the sort is part of `AddInsert` |
| `UnhookCall`, `UnhookKeep`, `UnhookEmpty`, `UnhookNative`, `UnhookToken` | `CoreHookImpl.unhook` |
| `HostCall`, `Callback`, `DispatchCopy`, `DispatchSkip`, `DispatchInvoke`, `Return` | a host thread enters a hooked method: `LsplantCoreToken.callback`, `dispatch` |
| `InvokeOriginal`, `InvokeTestToken`, `InvokeTestBackup`, `InvokeLoad`, `InvokeBackup`, `InvokeReflect` | `invokeOriginal`: three separate reads of `h.token` |

A callback that itself hooks, unhooks or calls holds no monitor, so it behaves
like a call of another thread in the middle of the dispatch and needs no action
of its own. `Null` is Java's null; entries are numbered in the order of `add`,
and the token made for a Holder carries the number of the entry it was made for.

### Dispatch

One call of `dispatch` on any snapshot of the three kinds. `param` is the
`ParamImpl` all callbacks share; a running callback may call `setResult`,
`setThrowable` (null included), `proceed` any number of times and then return
or throw. The history variables record what was run. Values are the number of
the callback that supplied them, so that the model tells results apart without
knowing types; `cast` is kept because it replaces the result of void members.
`Filter` is the loop over the snapshot, a recursive function of the entries seen.

### EngineInit

The payload thread (`waitHostAppReady`, `ensureEngineReady` with its sleeps
counted by `budget`), and clients that reach `ensureNative` through `hookXxx` or
go to the native method directly through `deoptimize`. `nativeOk` is tested
before the monitor of the engine is taken, and again inside it. `artTables` is
the result of `std::call_once`, `kInit` the function-local static of
`lsplant::Init`, `ready` is `gLsplantReady`. `InitNative` is a sequence of
`Stages` steps; each installs its hooks (`installed` counts how often) or fails.
The environment makes libart visible and the Application ready at any time.

### TrampolinePool

`trampoline_pool` as a pair of page number and count with the carry of the
addition, `trampoline_lock`, the two fallback flags of `AllocateMemory` and the
regions it has mapped. One action per atomic operation of
`GenerateTrampolineFor`: `FetchAdd`, `TestAndSet`, the wait, the allocation in
its three outcomes (dual mapping of a memfd or ashmem region, plain mapping,
failure), `Store`, `Clear`, `Write`.
Page numbers in the instance leave room for the writable twin of a dual
mapping. In the engine the callers run under `ScopedSuspendAll`; the model also
allows them to interleave, as the code of the pool is written to.

### DebugState and DebuggableGuard

`DebugState` says: the state is switched only while nobody is inside, and a
thread enters only while it is on. `DebuggableGuard` has one action per atomic
operation of constructor and destructor; `Holders`, the threads that count as
inside, is the refinement mapping. The wait in the destructor is an action too,
although `DestructorNeverWaits` shows that it is never reached: only a thread
that finds `count = 2`, so itself the last one, can set it to 1.

### Staging

One data directory, with the staged files and the temporary files as inodes so
that `rename`, `O_TRUNC` and writes at an offset behave as on a file system.
Actions follow `preAppSpecialize` (which processes are entered), `run`,
`stageCore`, `stageFile` (stat, compare, open, one action per block, rename; a stat,
an open or a read that fails leaves `need` true, so a settled file may be staged
again; a rename whose source is there is taken to succeed) and
`loadAndStart` (the read of what is staged). `Kill`, I/O errors, missing module
files and module updates come from the environment. Files are blocks of one
version; `HeadOf` says which versions start alike, as `stageFile` compares only
size and head. The loaders' results are represented by what was read. A new
file needs a free inode; opening a temporary file that is there does not.

### ArtHooks

Per `ArtMethod` an entry point, a native function and the private flag; the maps
of `common.cxx` (`hooked`/`hookedBy`: the two directions of `hooked_methods_`);
`saved` for `backup_methods_`. A stub has the name of its backup; the trampoline
is that name used as an entry point.

| Actions | Code |
|---|---|
| `Hook`, `DoHook`, `DoHookFails`, `RecordHookedClass`, `RecordHookedMethod`, `RecordBackupClass`, `RecordBackup` | `lsplant::Hook`, `DoHook`, `RecordHooked`, `RecordDeoptimized` |
| `UnHook`, `EraseBackup`, `EraseClass`, `DoUnHook` | `lsplant::UnHook`, `DoUnHook` |
| `Deoptimize`, `DeoptSet`, `DeoptRead`, `DeoptWrite` | `lsplant::Deoptimize` |
| `BackupHooked`, `BackupDeoptimized`, `FixupStaticTrampolines`, `RestoreBackup`, `Initialized` | `BackupClassMethods`, ART's own fixup, `RestoreBackup` |
| `RegisterNative`, `ReinitializeMethodsCode` | the interceptors of the same names |

`JitCompile` and `GarbageCollectCache` are the hooks of `jit.cxx` and
`jit_code_cache.cxx`: a compile task of a hooked method goes to its backup, and
a collection moves code back and forth around ART's own. `jit` is the entry
point they move.

`DoHook` and `DoUnHook` run with all threads suspended, so they are single steps
that wait for class initialisations to reach a safepoint; each map operation
around them is a step of its own. These gaps are real: when a class is
initialised, or a `Deoptimize` of the same method runs, between `DoHook` and
`RecordHooked` or in the middle of `UnHook`, the hook can be lost or an unhooked
method can keep a trampoline (the code has a FIXME there). The properties are
therefore about methods whose operations have not overlapped; `disturbed`
records the others. `MapsAgree` holds without this condition.
Native methods that were deoptimized are left out of `BackupIsOriginal` and
`UnhookedIsOriginal`: `Deoptimize` records them but leaves their entry point,
and `RestoreBackup` then does not pass on the code ART has found.

### LsplantInit, ArtMethod, HookStub, JniRefs and Lsplant

`LsplantInit` has one action per component that `Init` initialises, in the
order of `InitJNI` and `InitNative`. A `phone` is an API level, with the functions
of one family of libart's, each by itself, in any of the places a symbol can be in
(dynamic table, full table, only under a longer name, nowhere, there but refused by
Dobby), at most one Java item missing, and a runtime that is up or not. `known`
collects what was found; `InitComplete` compares it with what the rest of the
library uses.

`ArtMethod` has the memory of three methods in words. `InitSize`, `InitOffsets`,
`InitFlags`, `InitBridge` find a layout on every device the code distinguishes
(the real one is `Real(device)`); `DoHook`, `DoUnHook` and `MakeClassInheritable`
then write through it.

`HookStub` builds the trampoline's bytes for five processors, with their
execution, and the class `BuildDex` asks dex_builder for, whose methods are
executed on registers.

`JniRefs` has every operation of the wrappers of `jni_helper.hpp` on a small
number of C++ variables (`wrap`), over a virtual machine that hands deleted
handles out again (`vm`). `raw` are handles the client took with `release`;
`lost` records what the array and string wrappers are known to drop. An array of
objects may be null; its size is then not initialised, and an index is past its end
or `GetObjectArrayElement` aborts the process, so `ElementAt` follows the first.

These four and `ArtHooks` share no variable. `Lsplant` puts them in one
specification whose variable `part` says which of them a behaviour follows.

### GlassBar

The Runnable of `scheduleAttach` and the life of the host's activities, which
are callbacks of one main thread, and the status file, which every process of
the app opens with truncation and then writes. `records` is `mActivities` in the
order of its values, `life` what the host has done to each activity, `posted`
and `tries` the state of the Runnable. `Run` is one turn of it, with
`currentActivity` and `attachToCurrentActivity` inside; `RunThrows` is a turn in
which one of them throws, before or after the bar was added, which counts as a try.
`threw` is history: the last turn threw.

### WebUI

The script is single threaded, so `load` and `save` are cut at `await` and
nowhere else: `CatReads`, `LoadContinues`, `Save`, `JobEnds`. `jobs` are the
shells that write the file; they outlive the page (`Reopen`) and end in any
order. `box` are the switches on the screen, `state` the script's object; the two
differ because targets are shown by their state and switches by their boxes.
`touched`, `dirty`, `early` and `clean` are history: what the user touched, and
whether a page was saved before its load ended or saves overlapped.

### CodeMemory and InlineHooks

`CodeMemory` defines, without variables, what the allocators do to a process
`[page, perm, arenas]`. `InlineHooks` runs one call of Dobby at a time, as
`lsplant::Init` does, with the steps other threads can tell apart: `BuildRouting`,
`NearMapped` (between reading the map of the process and `MAP_FIXED`),
`GenerateRelocatedCode`, `Commit`, `Add`, `Removed`. `mem` holds one word per
instruction; `patch` is the range being written, in which every word is fetched
old or new. Threads `Call`, `Execute` word by word, and leave through a
`Replacement`. `ForeignMap` is the rest of the process. `limits` records the
situations the code does not handle (overlapping hooks, some of them
destroyed in the wrong order, a mapping made by the rest of the process in the gap
that was already found, a range or a block that ends with its page); each property
names those it excludes. `mmap` succeeds as long as the kernel has a place: when it
fails, the arena begins at address 0 and the copy into it faults on arm64; on 32-bit
ARM `GenRelocateCode` returns without code, and `DispatchRouting` ignores that
`GenerateRelocatedCode` has failed. With memory the relocated code is never empty,
since it ends in a branch.

### MachineCode, Relocation, ClosureBridge, Assembler, X86Relocation and GeneratedCode

`MachineCode` executes instruction records on a processor in the ARM64, ARM or
Thumb state. In `Relocation` a program is relocated one instruction per
`RelocateInsn` (or aborts, `Unimplemented`, on what `Rejected` names), followed by `BranchBack` and
`RelocBind`; then three processors run the trampoline, the relocated code and the
original. `Limited` lists the instructions the relocators do not treat right.

`ClosureBridge` executes the code `get_closure_bridge` and
`CreateClosureTrampoline` emit, one action per kind of instruction, on a stack;
`Handler` reads the context and may overwrite any field of it.

`Assembler` has the calls of the two ARM assemblers, each with the bits it puts
in the buffer, and the processors' reading of these bits; `Misread` lists exactly
the calls where they differ.

`X86Relocation` has the decoder's tables as sets of opcodes, `RelocateInsn`,
`Abort`, `Finish`, `TryAgain` (the buffer was too small) and processors for both
byte strings. `Misread` and `Unfaithful` list exactly the instructions whose
length is found wrong and those that do something else where they are put, the
short conditional jumps of x64 apart (`ShortJccAgrees`, section 6).

`UNIMPLEMENTED`, `UNREACHABLE` and `FATAL` are `assert(0)` in `logging.h`, so an abort
stands for a build with assertions. `native/build.sh` makes a release build, which
goes on with whatever was emitted so far; no property is about these runs.

`GeneratedCode` composes them: a behaviour follows the ARM generators (there the
bridge leads into the relocated code), the assemblers, or x86.

## 4. The runs

Each definition that mutates another one ("Fault: ..." in the modules) is a
plausible mistake in the code it stands next to. It is no part of the
specification; every property of a passing run is violated by one of them.

| Run | Instance | Distinct states | Shows |
|---|---|---|---|
| `core_engine` | 2 threads, 1 member, 2 priorities, 3 registrations; all snapshots of up to 4 entries | about 267 000 | registry and ART agree (`RegistryMatchesNative`); snapshots are ordered (`SnapshotOrdered`); callbacks are not missed (`NoMissedCallback`); calls under a stable hook are safe (`StableHookSafe`); an unhooked callback is in the list no longer than its `unhook` waits for the monitor (`UnhookTakesEffect`). Of one call: the original runs at most once (`OriginalAtMostOnce`); callbacks pair up and their exceptions stay inside (`CallbacksPaired`); the original's exception reaches the host (`OriginalExceptionKept`) |
| `core_dead_backup` | 2 threads, 2 registrations | violation | finding 1 of section 6 |
| `core_first_replace` | snapshots of up to 3 entries | violation | finding 2 |
| `payload` | payload and 2 clients, 3 stages, budget 3; 2 processes, 2 activities, 3 tries | about 81 000 | nothing uses or reports a half-initialised engine (`HookOnlyAfterFullInit`); hooks are installed once (`HooksInstalledOnce`); `startWithCore` ends (`PayloadFinishes`); an activity that stays alone in front gets its bar unless every turn throws (`SoleActivityGetsBar`); the Runnable ends (`RunnableEnds`) |
| `payload_retry` | payload alone, 1 stage | violation | finding 3 |
| `pool` | 2 threads, pages 1, 3, 5, 2 slots per page, count below 8, 7 calls | about 248 000 | slots are distinct (`SlotsDistinct`), the count runs over only after failed allocations (`CarryNeedsFailures`), calls return (`CallsReturn`) |
| `guard` | 4 threads | about 268 000 | refinement of `DebugState` (`AbstractSpec`), no change stays unfinished (`ChangeEnds`) |
| `module_files` | 2 processes, 2 starts, 3 versions, 2 blocks, failures; 2 switches, 1 target, 2 saves, 2 pages | about 2 510 000 | whole files are loaded unless two processes write one temporary file at once (`LoadsWholeUnlessShared`); no staged file is written to, and the current version, once staged, is what readers find (`StagedStays`); what was saved is shown (`SwitchesReadBack`), a successful save is on disk (`SavedIsOnDisk`), untouched switches are kept (`UntouchedKept`) |
| `art_hooks` | 1 target, 2 stubs, 2 threads, 1 registration; devices of every API level; 2 wrappers, 3 handles, 2 buffers | about 1 600 000 | hooks stay in force (`HookEffective`), backups and unhooked methods are the original (`BackupIsOriginal`, `UnhookedIsOriginal`), the maps agree (`MapsAgree`); `InitComplete`; `MethodIntact`; `CallReachesCallback`; `RefsOwnedOnce` |
| `inline_hooks` | 7 pages of 4 instructions, 2 functions (one Thumb), trampolines of 2 words, branches of 7, 1 thread, 3 operations, 1 foreign mapping | about 2 314 000 | calls run their function (`CallsSound`), text and entries agree (`TextMatchesEntries`), relocated code is intact (`RelocatedIntact`), foreign pages are left alone (`ForeignKept`) |
| `generated_code` | see below | about 602 000 | relocated code agrees (`RelocatedAgrees`, `X86RelocatedAgrees`), trampolines arrive (`TrampolineReaches`), the bridge is transparent (`BridgeTransparent`), words mean what was asked for (`WordsMeanCalls`) |
| `x64_short_jcc` | the two jumps of `test_insn_relo_x64.cpp` | violation | finding 4 |

Why the bounds are enough:

- *Registry.* Two threads produce every pair of overlapping operations, three
  registrations two priorities and a tie. Holders do not influence each other,
  so one member is enough; the proofs cover any number of all of them.
- *Dispatch.* With four entries each kind occurs before, between and after
  others. Callbacks are nondeterministic, so longer lists repeat the cases.
- *Start-up.* Three stages have a first, a middle and a last one to fail in; a
  budget of 3 with sleeps of one or two units ends on and beyond the deadline.
  A third thread lets one wait for the monitor while the other two race.
- *Pool.* Three pages of two slots are used up within seven calls, and a count
  range of 8 lets the addition carry after a few failed allocations.
- *Guard.* Four threads: one switching, one joining, one quitting, one waiting.
- *Staging.* Versions 1 and 2 start alike and 3 does not, so an update meets both
  outcomes of the comparison; two blocks are a head and a tail; two starts are a process
  beside or after another that was killed. Inodes never run out.
- *ArtHooks.* Two stubs: a method can be hooked again after an unhook. `FollowAll
  = FALSE` ends the exploration behind an overlap (no new operation starts, the
  running ones end), since most properties say nothing of such a method any more.
  Threads and stubs are symmetric. The other parts of `Lsplant` are followed by
  the same run. A device differs from a complete one in one family at a time,
  because each family is looked up by calls of its own; within it each symbol has a
  place of its own, so that also one of a pair can be missing. Two wrappers and three
  handles are enough for every pair of a source and a target, with one handle
  left to be given out again.
- *Glass bar.* Two activities are one in front and one that is finishing or still
  to come; three tries can be used up by each of the reasons (no application, no
  activity, an exception), and by all of them.
- *Web UI.* Two switches are one touched and one not, a target is the other kind
  of setting; two saves and two pages produce every overlap of a save with a
  save, a load and a reload.
- *Inline hooks.* Two functions on neighbouring pages, with a free page below the
  first, so that a block can end exactly where a function starts; free pages lie
  in and out of reach of a branch, and instrumented points overlap. Three
  operations are enough to hook, destroy and hook again, or to stack two hooks.
  One thread is enough: threads do not influence each other, only Dobby
  influences them.
- *Generated code.* Every kind of instruction, with immediates at both ends of
  their fields and pointing into the rewritten range, in front of one of every
  other kind; both alignments of Thumb code. The page and the reach of adrp are
  scaled down (`PageBits`, `AdrpBits`), so that distances around their ends stay
  within TLC's integers. For the assemblers every call with numbers around the ends
  of its fields. For x86 every opcode of the one-byte and two-byte maps, behind
  prefixes, with each form of operand, except the inputs listed in section 7.

Deadlock is checked in the core, payload, pool and guard runs. In the
others the system may stop: processes end or are killed, stubs and clicks are
used up, a generated piece of code has been run.

### Fairness

- `TrampolinePool`: weak fairness of every thread inside an operation. It runs
  native code the scheduler lets continue; nothing makes a thread start an
  operation.
- `DebuggableGuard`: also of the destructor, since a guard is a local object of
  a function that returns.
- `EngineInit`: weak fairness of the payload and of threads in `ensureNative`;
  strong fairness of entering its monitor, which other threads release after a
  bounded number of steps. Without it a thread could be overtaken for ever, but
  only by a client that calls for ever.
- `GlassBar`: weak fairness of a turn of the Runnable (`Run` or `RunThrows`), since
  the main looper delivers a message that is due. No turn is assumed not to throw. Nothing makes the host launch or lay out an activity, and
  nothing makes a process write its status.
- The others have no fairness; only safety is checked.

## 5. The proofs

All theorems hold for every value of the constants that the named assumptions
allow.

**CoreEngineProofs** (`PrioritiesAssumption`, `NullAssumption`,
`MaxEntriesAssumption`): `Invariance`, `TypeCorrect`, `RegistryCorrect`,
`SnapshotsOrdered`, `CallbacksNotMissed`, `StableHooksSafe`, `UnhooksTakeEffect`, `ActiveRegistered`. None of these
properties is inductive: what a call may rely on depends on what the thread in
the monitor is doing. `IInv` adds to the types
`MonitorInv` (who is inside which monitor, read off `pc`),
`HolderInv` (what entries, token, backup and ART's code are at each step of add
and unhook),
`IdInv` (numbers of entries and tokens are fresh),
`OrderInv` (lists and snapshots are sorted),
`ActiveInv` (an active handle is in its list, or is just being inserted) and
`CallInv` (a call with a stable handle came through the token that is still in
force). `AddInsertInv` and the two unhook lemmas rest on `SortedInsertProps` and
`RemoveEntryProps`, which say what the stable sort and `remove(Object)` keep;
there is one lemma per action.

**DispatchProofs** (`MaxListAssumption`): `AtMostOnce` and `ExceptionKept`, from
`CountInv` (the flag `proceeded` and the phase bound the number of calls of the
original) and `ExceptionInv` (a throwable of the original stays in the parameter
until somebody calls `setThrowable(null)`). `Paired` is about snapshots of any
length. `PairInv` says that what has run and what is left in the queue make up
the list the loop was given (`LoopInv`), that `skip` is what a BEFORE has set
(`SkipInv`), and that the replace loop went on only after a `proceed` (`ChainInv`):
so a first replace that does not call it is the last. Of later ones this is not true
(finding 2).
`FilterCorrect` says what the loop of `filter` returns: exactly the entries of one
kind, in their order. It needs induction over the snapshot. The library's
induction rules cannot be used, so the lemma takes the least number of turns for
which the claim fails (`LeastNat`, from the well-foundedness of `<`) and refutes
it by the turn before. `FilterExists` shows in the same way that the recursive
definition has a solution.

**EngineInitProofs** (`ThreadAssumption`, `StagesAssumption`, `BudgetAssumption`):
`FullInit`, `InstalledOnce`. `nativeOk` is read without the monitor, so `IInv`
says what it vouches for (`Relied`), who is in the monitor (`Monitor`) and how far
that thread has come (`Chain`), and that exactly the stages below `stage` have
been installed, once (`InOrder`). The last holds because a failed stage leaves
`kInit` false for ever.

**TrampolinePoolProofs** (`PageAssumption`, `SlotAssumption`, `CallAssumption`,
`ThreadsAssumption`): `Invariance`, `TypeCorrect`, `SlotsNeverShared`,
`SlotsInPages`, `CarriesAfterFailures`. `IInv` says that the lock has one owner,
that as long as the count has not run over into the page number all slots given
out of the current page lie below its count, and that a page which is about to be
stored is not in use by anybody. `CarryInv` counts: a thread that adds to a
used-up page is then `Stopped` until the lock is released, so the additions beyond
the page's slots are at most one per thread and release (`Surplus`), and all
releases but two since the last new page are failed allocations.

**ModuleFilesProofs**, about `Staging` (`BlockAssumption`, `NoneAssumption`):
`StaysStaged`, `LoadsWhole`. Both hold although any check of `stageFile` may fail and
a file be staged again: what is staged is only ever replaced by a rename. `FsInv` says that no inode ever serves two files and that the staged
and the temporary name never share one (`Separate`); a process of this boot has
the module's version (`Current`). `LoadInv` adds, for files no two processes have
written at once, that the temporary file holds the blocks its one writer has
written (`Written`), that what is staged is whole (`Complete`), and of a version
that starts like that of every process which has come past it (`Ready`).

About `WebUI` (`KeysAssumption`): `ReadBack`, `OnDisk`, `Untouched`. `IInv` says
what a page that loaded in peace knows of the file (`Known`), what the save under
way will write (`Shown`, `Touches`), and that without overlap there is only that
one (`OneSave`, `OwnSaves`).

**LsplantProofs**, about `ArtHooks` (`NamesAssumption`), in three layers. `MapsAgreeing`: the maps
of `common.cxx` are changed one at a time, so `MapsInv` says for every step of
`Hook` and `UnHook` which of them already know the stub (`Progress`), and that only
one thread is at a method (`OneHolder`); it holds whatever overlaps. `HookStays`:
`EntryInv` follows the trampoline of an undisturbed target through class
initialisation, where it is in the `ArtMethod` or in `backup_methods_`.
`BackupsOriginal` and `UnhookedOriginal`: `OriginalInv` names the `ArtMethod` that
stands for the original at every step (`StandsFor`), and says that its entry point
fits (`Fit`: live code, the interpreter's bridge once the method was deoptimized,
the resolution stub only before the class is initialised), or that a saved value
which fits will come back, or that `RestoreBackup` will move the code ART has
written over the trampoline (`Moving`). `CopyInv` (a stub is a copy of one target
for ever) and `RecordInv` (what the sets of `common.cxx` hold after each step)
carry it. Operations that overlap are excluded by the history `disturbed`, as in
the properties; there is one lemma per action.

About `JniRefs` (`HandlesAssumption`: null is no handle, and no handle is a
buffer): `RefsOwned`. `JniInv` says that what a wrapper or a raw variable holds is
alive, that no two of them hold the same (`Unshared`), that what is alive is held
or recorded as lost (`Traced`), and what a wrapper of each kind looks like
(`Fits`). It needs the last because a destructor gives back what the fields say,
whatever the wrapper went through before. There is one lemma per operation of a
wrapper and, below them, one per JNI function.

About `ArtMethod` (`SdksAssumption`: API levels from 21 on, the oldest that LSPlant
supports): `MethodsIntact`. `MethodInv` says what `Init` knows of the layout at each
of its steps (`MethodLaid`) and, once the layout is used, how target and backup
differ from what they were (`MethodDone`). `HookFlags` is the arithmetic of the
access flags: the bits of a version are apart from each other and from the
modifiers.

About `LsplantInit` (`SdksAssumption`): `InitsComplete`. `InitInv` goes along the
fourteen stages: what the stages passed so far have looked up was found (`Facts`),
and if `Init` gave up, the device lacks something that it needs (`Excused`). Nothing
is assumed of which symbols occur together. One lemma per stage.

About `HookStub` (no assumption): `TrampolinesLoad`, one clause of
`CallReachesCallback`, for every offset instead of those of real devices.
`StubInv` says that the entry of a hooked method is the trampoline of the
processor with the offset put in by `UpdateTrampoline`; one lemma per processor
executes these bytes, up to the offset 255, on x86 and x86-64 up to 127, where the
displacement is a signed byte.

**InlineHooksProofs** (`PageAssumption`, `FunctionsAssumption`, `LowAssumption`,
`TextAssumption`, `BoundsAssumption`, `CodeAssumption`): `ForeignPagesKept`,
`TextRestored`, `RelocatedKept`, `CallsStaySound`. `DobbyInv` says that text,
arenas and foreign mappings lie on different pages and blocks are handed out once
(`Standing`), that the text is the linked one but where an entry covers it
(`Matched`), and what the operation under way has built so far (`Underway`).
`ThreadInv` adds that patched sites lead through trampoline, replacement or closure
into relocated code and from there behind the patch (`Network`), that trampolines
not yet committed will do so (`Aimed`), and that every thread is on its way to the
instruction its function has next (`Fares`). A thread is followed through a
patch that is written, restored and written again while it runs. That no
trampoline reaches into the function behind its own is assumed: Dobby does not know
where a function ends, so this is up to its caller.

`ForeignPagesKept` does not look at what Dobby's own steps do wrong. The only
behaviours it leaves out are those in which the rest of the process has mapped a
page into the gap Dobby was about to use (`ForeignMap` records that as "stale", before
`MAP_FIXED` is called). In all others a foreign page is as it was, or it is the page
behind memory that is full to its end (`Filled`, which looks only at arenas and
functions): `DobbyCodePatch` protects the page at which a range ends, also when
nothing of the range is on it. `Tidy` is the inductive form; it needs that the gap
under way holds no foreign page (`Vacant`) and that free pages are not foreign. TLC
finds a violation when either exception is dropped.

**DebuggableGuardProofs** (`ThreadsFinite`): `Invariance`,
`GuardImplementsDebugState`, `RestoredAtTheEnd`, `DestructorsDoNotWait`. `CountMeans` says that `count`
is 0 with nobody inside, 1 while exactly one thread switches, and one more than
the number of guards otherwise; `LocalsMean` bounds the stale values in
`expected`. The refinement maps `inside` to `Holders`; every step of the guard
is a step of `DebugState` or leaves its variables alone. The safety part is
proved, which is all that `DebugState` says.

`ActiveRegistered`, `SlotsInPages`, `RestoredAtTheEnd` and `DestructorsDoNotWait`
are proved and not checked by a run of their own.

The bounds of the models are constants of the theorems: `FollowAll`, `MaxRegs`,
`MaxCalls`, `Budget`, `MaxEntries` and `MaxList` may be as large as one likes.

Only model-checked:

- every liveness property (`PayloadFinishes`, `CallsReturn`, `ChangeEnds`,
  `SoleActivityGetsBar`, `RunnableEnds`), because liveness under
  fairness is beyond the prover; with it `GlassBar`, whose properties are about
  what must happen;
- `CallReachesCallback` but for its trampolines: the stub's methods move argument
  lists of any length through registers, so what they compute is an induction over
  data;
- `RelocatedAgrees`, `TrampolineReaches`, `X86RelocatedAgrees`, `BridgeTransparent` and
  `WordsMeanCalls`: code is a sequence that is folded over and executed, and what
  the fold yields for a sequence of any length is again an induction over data.

## 6. Findings

1. *A dispatch calls a dead backup* (`core_dead_backup`). `dispatch` takes its
backup and its snapshot, runs callbacks, and calls the backup without any
protection against `unhook`. `lsplant.hpp` calls that undefined behaviour.
`StableHookSafe` bounds the damage: it takes the removal of the last handle.

2. *A replace that does not call `proceed` may lose* (`core_first_replace`). The
replaces share one `proceeded` flag that is never reset: after one has proceeded,
dispatch goes on past replaces that did not and returns what the last one returned.
The comment at `CoreEngineImpl.java:253` says that the first one that does not call
`proceed` wins, and `CoreApi.java:38` that its value is the result.

3. *A retry of the start-up cannot succeed* (`payload_retry`). When libart is not
visible in the first attempt, `call_once` in `glue.cpp` and the static `kInit` keep
that failure, and all later attempts fail although libart is there. The comment at
`GlassBarEntry.java:72` says that they are made until it is visible.

4. *A short conditional jump is relocated wrong on x64* (`x64_short_jcc`; not in the
shipped library). `0x80 | cc`, the second byte of a near jump, is emitted as the opcode
of a short one. `test_insn_relo_x64.cpp:10-15` expects the jump to arrive.

The following were met while modelling. They are limits of the code, written into
the properties as the cases they exclude, or visible in the models; no line of the
repository was found that says otherwise.

- *Dispatch.* `setThrowable(null)` hides an exception of the original, and the
  sentinel for "no result" may be returned.
- *Pool.* Every call on a used-up page adds one to the word, so enough failed
  allocations make the count run over into the page address;
  `CarryNeedsFailures` says how many it takes.
- *Staging.* Two processes that stage at the same time write through one
  temporary name (`O_TRUNC`, no `O_EXCL`) and can publish a file with a hole.
  `mkdir` of `libs` fails without its parent and the result is ignored.
- *ART hooks.* `Deoptimize` records native methods but does not change them; a
  pair in `jit_movements_` outlives the hook.
- *Init and layout.* Only the first function found of the three of
  `Instrumentation` is intercepted; two pairs of alternatives share one symbol;
  `resolveInTable` would return the load bias for an undefined symbol. Constructor
  and destructor of `ScopedSuspendAll` are looked up one by one, each with an older
  alternative, and need not match. Below API
  26 `DoHook` sets the backup's data to itself. The displacement in the x86
  trampolines holds offsets below 128.
- *JNI helper.* Array wrappers clear their reference before they release the
  elements, so these stay pinned; their assignment leaks, and to itself clears
  them; the size is not initialised from null; a moved-from `JUTFString` keeps
  its string.
- *Glass bar.* `attached` stays true when the activity with the bar is
  destroyed. The processes of the app share one status file, which shows the last
  write or a mixture.
- *Web UI.* `serialize` writes `pkg:NAME=`, `parse` looks `NAME` up: a choice of
  apps is not read back. Overlapping saves end in either order.
- *Inline hooks.* An overlap with another hook's trampoline is only noticed when
  the addresses are equal; `MAP_FIXED` trusts regions read earlier; a range that
  ends with its page changes the protection of the next one.
- *ARM64 relocation.* Literal loads that are not 64-bit loads of a general
  register, conditions 14 and 15 of a conditional branch, references into the
  overwritten bytes; x17 is used as scratch. The adrp trampoline wraps when the
  hook is exactly 2^20 pages above.
- *ARM and Thumb relocation.* The condition of a literal load or adr, byte and
  halfword literals, the half-word bit of BLX, ARM instructions that read pc as a
  register (copied verbatim: `movpc` stands for mov, add and loads from pc and a
  register); Thumb conditional branches, ADR.W, ADR and LDR.W at addresses that are
  no multiple of 4, LDR.W to pc, BLX beyond 2^23, jumps by a register or a table
  (add to pc, TBB, TBH; copied verbatim). UDF and SVC in Thumb code are taken for
  branches on condition 14 and 15 and end in `UNREACHABLE`. `RelocLabelFixup` never
  applies.
- *Closure bridge.* On ARM64 the context's lr is the bridge's own return address,
  and writing it derails the thread; flags and registers without a field are not
  kept; a write to the context's sp is ignored.
- *Assemblers.* Register 0 as a logical operand is encoded as an immediate; the
  distance of a literal is not scaled, the one to a bound label is wrong and lacks
  the pc's bias on ARM; ldr and str are always 64-bit; on ARM add and sub ignore
  register operands and mov of an immediate lacks its bit. The generators avoid
  these calls.
- *x86* (not shipped). `Misread` and `Unfaithful` of `X86Relocation`; a jmp or call
  behind a prefix fails an assertion; memory near an instruction is not given back when the relocation is repeated.

## 7. Not modelled

- *dex_builder, parallel_hashmap*: third-party code. Map operations are atomic, as
  the sharded maps with locks of phmap make them; dex_builder encodes what it is
  asked for.
- *Parts of Dobby that are not built or not called*: the x86 assemblers and closure
  bridges, the deprecated and the SSE tables, the Darwin and Windows back ends,
  the plug-ins (import table, linker utilities, monitors; the symbol resolver is
  compiled but nothing calls it).
- *Parts of what is modelled*: data arenas and the form of the forward trampoline
  for more than 4 GiB in `InlineHooks`, and there a process without memory (section 3);
  on x86 the VEX, EVEX and XOP encodings,
  three-byte opcodes, 3DNow, 0F 20 to 27, the address-size prefix on ia32 and the
  targets of jumps with 16-bit offsets; on ARM instructions that do not use pc, which
  are all one "plain" instruction, and the forms that do so in more than one operand.
- *JNI glue*: reading the ELF headers of libart, logging, and
  `nativeIsMethodHooked`, which only reads. The symbol tables are in
  `LsplantInit`.
- *Contents*: arguments and receivers in `CoreEngine` and `Dispatch`, the views of
  the glass bar, the Web UI's diagnosis. No property depends on them.
- *Packaging*: build and installation scripts.
