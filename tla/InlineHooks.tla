---------------------------- MODULE InlineHooks ----------------------------
(***************************************************************************)
(* Inline hooking by Dobby: DobbyHook, DobbyInstrument and DobbyDestroy    *)
(* run by one thread, as lsplant::Init runs them, while the other threads  *)
(* of the process execute the functions that are being patched.            *)
(*                                                                         *)
(* Code is memory of one word per instruction.  Insn(a) is the instruction *)
(* the library was linked with at a, whose effect is the same in place and *)
(* relocated (GeneratedCode looks into that); the last one of a function   *)
(* returns.  A trampoline is a sequence of words that only jumps when it   *)
(* is executed from its first to its last one.  While DobbyCodePatch is at *)
(* work every word of the range is fetched old or new, which covers any    *)
(* order of the copy and a stale instruction cache.  A single word is      *)
(* written at once.                                                        *)
(***************************************************************************)
EXTENDS CodeMemory, SequencesExt

CONSTANTS
    Functions,   \* first instructions of the functions
    LastOf,        \* last instruction of each function
    Points,      \* instructions that may be instrumented
    Thumb,       \* functions whose address is passed with the Thumb bit
    TextPages,   \* pages of the library that holds the functions
    LowPages,    \* pages of the process below it
    TrampSize,   \* words of a normal trampoline
    BranchRange, \* reach of the instruction b, ARM64_B_XXX_RANGE
    Replacements,\* address of replacement 1; the others follow
    Threads,     \* threads that call the functions
    MaxOps,      \* calls of Dobby
    MaxForeign   \* mappings made by the rest of the process

ForwardSize == 3  \* adrp, add, br

ASSUME FunctionsAssumption ==
    \A f \in Functions : LastOf[f] - f + 1 >= TrampSize
ASSUME LowAssumption == 0 \in LowPages

VARIABLES
    mm,       \* mappings and arenas, see CodeMemory
    mem,      \* the word at each address
    entries,  \* Interceptor::entries
    plugin,   \* RoutingPluginManager::near_branch_trampoline is set
    op,       \* the call of Dobby in progress
    patch,    \* the range DobbyCodePatch is writing, <<>> for none
    backup,   \* per call: the value stored in *origin_func
    thread,   \* the threads that execute code
    foreign,  \* pages mapped by the rest of the process, data
    calls,    \* calls of Dobby so far
    limits    \* limits of the implementation that were met

dobbyVars == <<entries, plugin, op, backup, calls>>
vars == <<mm, mem, patch, thread, foreign, limits, dobbyVars>>

-----------------------------------------------------------------------------
(* Words and ranges                                                        *)

Insn(a) == [k |-> "insn", at |-> a]
Jump(to, i, n) == [k |-> "jump", to |-> to, i |-> i, n |-> n]
Closure(id) == [k |-> "closure", id |-> id]
NoWord == [k |-> "none"]
Trampoline(to, n) == [i \in 1..n |-> Jump(to, i, n)]

Text == {a \in Addresses : PageOf(a) \in TextPages}

\* The library and the rest of the process share no page, and a trampoline
\* covers instructions of the library only.
ASSUME TextAssumption ==
    /\ TextPages \subseteq PageIds /\ LowPages \subseteq PageIds /\ TextPages \cap LowPages = {}
    /\ Functions \cup Points \subseteq Text
    /\ \A a \in Functions \cup Points : Span(a, TrampSize) \subseteq Text
ASSUME BoundsAssumption ==
    TrampSize \in Nat \ {0} /\ BranchRange \in Nat /\ MaxOps \in Nat /\ Replacements \in Nat

\* Functions lie in the library and replacements outside of what is modelled, and
\* no trampoline reaches into the function behind its own.
ASSUME CodeAssumption ==
    /\ \A f \in Functions : LastOf[f] \in Nat /\ f..LastOf[f] \subseteq Text
    /\ \A a \in Functions \cup Points : Span(a + 1, TrampSize - 1) \cap Functions = {}
    /\ Replacements >= Pages * PageSize

Read(a, n) == [i \in 1..n |-> mem[a + i - 1]]
Written(a, ws) ==
    [b \in Addresses |-> IF b \in Span(a, Len(ws)) THEN ws[b - a + 1] ELSE mem[b]]
EntrySpan(e) == Span(e.addr, Len(e.origin))

Idle == [at |-> "idle"]
Caller == [pc |-> 0, next |-> 0, fn |-> 0, reg |-> <<0, 0>>, fate |-> "out", excused |-> FALSE]

Init ==
    /\ mm = [page |-> [p \in PageIds |-> IF p \in TextPages THEN "text"
                                         ELSE IF p \in LowPages THEN "foreign" ELSE "free"],
             perm |-> [p \in PageIds |-> IF p \in TextPages THEN "rx"
                                         ELSE IF p \in LowPages THEN "rw" ELSE "none"],
             arenas |-> <<>>]
    /\ mem = [a \in Addresses |-> IF a \in Text THEN Insn(a) ELSE NoWord]
    /\ entries = <<>>
    /\ plugin = FALSE
    /\ op = Idle
    /\ patch = <<>>
    /\ backup = [i \in 1..MaxOps |-> 0]
    /\ thread = [t \in Threads |-> Caller]
    /\ foreign = LowPages
    /\ calls = 0
    /\ limits = {}

-----------------------------------------------------------------------------
(* DobbyCodePatch                                                          *)

\* Fault: the page after the first one is always unprotected too.
PatchPagesBoth(a, n) == {PageOf(a), PageOf(a) + 1} \intersect PageIds

\* The page that holds the first word, and the page of the word after the last.
PatchPages(a, n) == {PageOf(a), PageOf(a + n)} \intersect PageIds

\* A page it does not own, touched because the range ends with the page before.
BeyondEnd(a, n) == IF PageOf(a + n) \in foreign THEN {"edge"} ELSE {}

\* Code nobody executes yet: the steps of the patch cannot be told apart.
Stored(m, a, ws) == Protect(m, PatchPages(a, Len(ws)), "rx")

\* Where a thread comes back to the function: behind the forward trampoline,
\* the replacement or the closure is relocated code, and behind that a branch.
BranchBack(pc) ==
    {mem[b].to : b \in {b \in Addresses : /\ b >= pc
                                          /\ mem[b].k = "jump" /\ mem[b].n = 1
                                          /\ \A c \in pc..(b - 1) : mem[c].k = "insn"}}
Forwarded(pc) ==
    IF pc \in Addresses \ Text /\ mem[pc].k = "jump" /\ mem[pc].n > 1 THEN mem[pc].to ELSE pc
RelocatedFor(pc) ==
    IF pc >= Replacements THEN backup[pc - Replacements + 1]
    ELSE IF mem[pc].k = "closure" THEN backup[mem[pc].id] ELSE pc
Resumes(pc) == IF pc \in Text THEN {pc} ELSE BranchBack(RelocatedFor(Forwarded(pc)))

\* A thread inside the range, or one that will return into it, runs parts of
\* the old and of the new code.
Inside(th, a, n) == th.fate = "in" /\ \E b \in Resumes(th.pc) : b \in Span(a + 1, n - 1)

PatchBegins(a, ws) ==
    /\ patch' = <<a, ws>>
    /\ mm' = Protect(mm, PatchPages(a, Len(ws)), "rwx")
    /\ thread' = [t \in Threads |->
                    [thread[t] EXCEPT !.excused = @ \/ Inside(thread[t], a, Len(ws))]]
    /\ limits' = limits \union BeyondEnd(a, Len(ws))

PatchEnds(met) ==
    /\ mem' = Written(patch[1], patch[2])
    /\ mm' = Protect(mm, PatchPages(patch[1], Len(patch[2])), "rx")
    /\ patch' = <<>>
    /\ limits' = limits \union met \union BeyondEnd(patch[1], Len(patch[2]))

-----------------------------------------------------------------------------
(* DobbyHook and DobbyInstrument                                           *)

\* Interceptor::find: the entry of the very same address; the entries are kept
\* without the Thumb bit, so an address with it is never found.
Find(a, thumb) == IF thumb THEN {} ELSE {i \in DOMAIN entries : entries[i].addr = a}

Overlap(a, n) ==
    IF \E i \in DOMAIN entries : EntrySpan(entries[i]) \intersect Span(a, n) # {}
    THEN {"overlap"} ELSE {}

\* The start of both calls.  It ends the call when the page cannot be made
\* readable or when the address is registered.
Enter(what, a) ==
    /\ op.at = "idle" /\ calls < MaxOps
    /\ calls' = calls + 1
    /\ \/ UNCHANGED <<mm, op>>
       \/ /\ mm' = Protect(mm, {PageOf(a)}, "rx")
          /\ op' = IF Find(a, a \in Thumb) # {} THEN op
                   ELSE [at |-> "route", what |-> what, addr |-> a, id |-> calls + 1]
    /\ UNCHANGED <<mem, entries, plugin, patch, backup, thread, foreign, limits>>

DobbyHook == \E f \in Functions : Enter("hook", f)
DobbyInstrument == \E a \in Points : Enter("instrument", a)

\* Routing continues with the trampoline tr.
Routed(o, tr) == [at |-> "relocate", what |-> o.what, addr |-> o.addr, id |-> o.id, tramp |-> tr]

\* BuildRouting and GenerateTrampolineBuffer(src, dst): a single b with the
\* plugin, through a forward trampoline when dst is out of reach, if memory is
\* found near src; the normal trampoline otherwise.  met: the limits met so far.
Dispatch(m, words, dst, met) ==
    IF ~plugin
    THEN /\ op' = Routed(op, Trampoline(dst, TrampSize))
         /\ mm' = m /\ mem' = words /\ limits' = met
    ELSE IF (dst - op.addr) \in (1 - BranchRange)..(BranchRange - 1)
    THEN /\ op' = Routed(op, Trampoline(dst, 1))
         /\ mm' = m /\ mem' = words /\ limits' = met
    ELSE LET arenas == NearFromArenas(m, ForwardSize, op.addr, BranchRange)
             gap == NearGap(m.page, ForwardSize, op.addr, BranchRange)
         IN \/ \E r \in arenas :
                 /\ op' = Routed(op, Trampoline(r.addr, 1))
                 /\ mm' = Stored(r.m, r.addr, Trampoline(dst, ForwardSize))
                 /\ mem' = [b \in Addresses |-> IF b \in Span(r.addr, ForwardSize)
                                THEN Trampoline(dst, ForwardSize)[b - r.addr + 1] ELSE words[b]]
                 /\ limits' = met \union BeyondEnd(r.addr, ForwardSize)
            \/ /\ arenas = {}
               /\ op' = IF gap = 0 THEN Routed(op, Trampoline(dst, TrampSize))
                        ELSE [at |-> "map", what |-> op.what, addr |-> op.addr, id |-> op.id,
                              gap |-> gap, dst |-> dst]
               /\ mm' = m /\ mem' = words /\ limits' = met

\* The target is the replacement, or a new closure trampoline that carries the
\* entry.
BuildRouting ==
    /\ op.at = "route"
    /\ \/ /\ op.what = "hook"
          /\ Dispatch(mm, mem, Replacements + op.id - 1, limits)
       \/ /\ op.what = "instrument"
          /\ \E r \in AllocateExec(mm, 1) :
                Dispatch(Stored(r.m, r.addr, <<Closure(op.id)>>), Written(r.addr, <<Closure(op.id)>>),
                         r.addr, limits \union BeyondEnd(r.addr, 1))
    /\ UNCHANGED <<patch, thread, foreign, entries, plugin, backup, calls>>

\* allocateNearBlockFromUnusedRegion once the regions have been read; without
\* the mapping the trampoline is a normal one.
NearMapped ==
    /\ op.at = "map"
    /\ LET at == op.gap
           hit == Span(PageFloor(at), NearArenaSize(at, ForwardSize))
           zeroed == [b \in Addresses |-> IF b \in hit THEN NoWord ELSE mem[b]]
           ws == Trampoline(op.dst, ForwardSize)
       IN \/ /\ op' = Routed(op, Trampoline(op.dst, TrampSize))
             /\ UNCHANGED <<mm, mem, limits>>
          \/ /\ mm' = Stored(NearFromGap(mm, at, ForwardSize), at, ws)
             /\ mem' = [b \in Addresses |-> IF b \in Span(at, ForwardSize)
                                            THEN ws[b - at + 1] ELSE zeroed[b]]
             /\ op' = Routed(op, Trampoline(at, 1))
             /\ limits' = limits \union BeyondEnd(at, ForwardSize)
                   \union (IF PageFloor(at + ForwardSize) = at + ForwardSize THEN {"edge"} ELSE {})
    /\ UNCHANGED <<patch, thread, foreign, entries, plugin, backup, calls>>

\* GenRelocateCodeAndBranch: as many instructions as the trampoline covers,
\* then a branch to the first one that stays.  There is always that branch, so
\* the relocated code has a size unless the memory for it could not be mapped.
Relocated(a, n) == Append(Read(a, n), Jump(a + n, 1, 1))

GenerateRelocatedCode ==
    /\ op.at = "relocate"
    /\ LET n == Len(op.tramp)
           ws == Relocated(op.addr, n)
       IN \E r \in AllocateExec(mm, n + 1) :
            /\ mm' = Stored(r.m, r.addr, ws)
            /\ mem' = Written(r.addr, ws)
            /\ op' = [at |-> "relocated", what |-> op.what, id |-> op.id, tramp |-> op.tramp,
                      addr |-> op.addr, origin |-> Read(op.addr, n), relocated |-> r.addr]
            /\ limits' = limits \union Overlap(op.addr, n) \union BeyondEnd(r.addr, n + 1)
    /\ UNCHANGED <<patch, thread, foreign, entries, plugin, backup, calls>>

\* Fault: the caller gets the address of the function it has hooked.
OriginFuncHooked(o) == o.addr

\* *origin_func = relocated_addr, before the trampoline can be reached.
OriginFunc(o) == o.relocated

\* *origin_func is stored, then Commit starts the patch.
Commit ==
    /\ op.at = "relocated"
    /\ backup' = [backup EXCEPT ![op.id] = OriginFunc(op)]
    /\ PatchBegins(op.addr, op.tramp)
    /\ op' = [op EXCEPT !.at = "committed"]
    /\ UNCHANGED <<mem, foreign, entries, plugin, calls>>

\* The patch is done and the entry registered.
Add ==
    /\ op.at = "committed"
    /\ PatchEnds({})
    /\ entries' = Append(entries, [id |-> op.id, addr |-> op.addr, origin |-> op.origin,
                                   relocated |-> op.relocated])
    /\ op' = Idle
    /\ UNCHANGED <<thread, foreign, plugin, backup, calls>>

-----------------------------------------------------------------------------
(* DobbyDestroy                                                            *)

\* Entries that were registered later and cover instructions of entry i.
Later(i) ==
    {j \in DOMAIN entries : j > i /\ EntrySpan(entries[j]) \intersect EntrySpan(entries[i]) # {}}

\* The Thumb bit is stripped before the look-up.
DobbyDestroy ==
    /\ op.at = "idle" /\ calls < MaxOps
    /\ calls' = calls + 1
    /\ \E a \in Functions \union Points :
        LET found == Find(a, FALSE)
            i == Min(found)
        IN \/ /\ found = {}
              /\ UNCHANGED <<op, patch, mm, thread, limits>>
           \/ /\ found # {}
              /\ PatchBegins(a, entries[i].origin)
              /\ op' = [at |-> "restore", entry |-> i, crossed |-> Later(i) # {}]
    /\ UNCHANGED <<mem, foreign, entries, plugin, backup>>

\* Fault: the entry is forgotten without its instructions being restored.
RemovedOnly ==
    /\ op.at = "restore"
    /\ mem' = mem /\ mm' = mm /\ patch' = <<>>
    /\ entries' = RemoveAt(entries, op.entry)
    /\ limits' = limits
    /\ op' = Idle
    /\ UNCHANGED <<thread, foreign, plugin, backup, calls>>

Removed ==
    /\ op.at = "restore"
    /\ PatchEnds(IF op.crossed THEN {"crossed"} ELSE {})
    /\ entries' = RemoveAt(entries, op.entry)
    /\ op' = Idle
    /\ UNCHANGED <<thread, foreign, plugin, backup, calls>>

\* dobby_enable_near_branch_trampoline and its counterpart.
TogglePlugin ==
    /\ op.at = "idle" /\ calls < MaxOps
    /\ plugin' = ~plugin
    /\ UNCHANGED <<mm, mem, patch, thread, foreign, limits, entries, op, backup, calls>>

-----------------------------------------------------------------------------
(* The rest of the process                                                 *)

\* A mapping anywhere: it is seen by a later reading of the regions only, so one
\* that takes the gap already found leaves Dobby with stale regions.
ForeignMap ==
    /\ Cardinality(foreign \ LowPages) < MaxForeign
    /\ \E p \in PageIds :
        /\ mm.page[p] = "free"
        /\ mm' = [mm EXCEPT !.page[p] = "foreign", !.perm[p] = "rw"]
        /\ foreign' = foreign \union {p}
        /\ limits' = limits \union
             (IF op.at = "map" /\ \E b \in Span(op.gap, ForwardSize) : PageOf(b) = p
              THEN {"stale"} ELSE {})
    /\ UNCHANGED <<mem, patch, thread, dobbyVars>>

Call(t) ==
    /\ thread[t].fate = "out"
    /\ \E f \in Functions :
        thread' = [thread EXCEPT ![t] = [Caller EXCEPT !.pc = f, !.next = f, !.fn = f, !.fate = "in"]]
    /\ UNCHANGED <<mm, mem, patch, foreign, limits, dobbyVars>>

InPatch(a) == patch # <<>> /\ a \in Span(patch[1], Len(patch[2]))
Fetch(a) == {mem[a]} \union (IF InPatch(a) THEN {patch[2][a - patch[1] + 1]} ELSE {})

\* The registers and the program counter after word w.
Ran(th, w) ==
    CASE w.k = "insn" /\ w.at = th.next ->
            IF w.at = LastOf[th.fn] THEN Caller
            ELSE [th EXCEPT !.pc = @ + 1, !.next = @ + 1, !.reg = <<0, 0>>]
      [] w.k = "jump" /\ (w.i = 1 \/ th.reg = <<w.to, w.i - 1>>) ->
            IF w.i = w.n THEN [th EXCEPT !.pc = w.to, !.reg = <<0, 0>>]
            ELSE [th EXCEPT !.pc = @ + 1, !.reg = <<w.to, w.i>>]
      [] w.k = "closure" -> [th EXCEPT !.pc = backup[w.id]]
      [] OTHER -> [th EXCEPT !.fate = "lost"]

\* One instruction.  Two words of a patch in progress may not belong together.
Execute(t) ==
    /\ thread[t].fate = "in" /\ thread[t].pc \in Addresses
    /\ \E w \in Fetch(thread[t].pc) :
        LET th == [thread[t] EXCEPT !.excused =
                     @ \/ (InPatch(thread[t].pc) /\ Len(patch[2]) > 1)]
        IN thread' = [thread EXCEPT ![t] =
             IF mm.perm[PageOf(th.pc)] \in {"rx", "rwx"} THEN Ran(th, w)
             ELSE [th EXCEPT !.fate = "lost"]]
    /\ UNCHANGED <<mm, mem, patch, foreign, limits, dobbyVars>>

\* A replacement returns, or calls the original through *origin_func.
Replacement(t) ==
    /\ thread[t].fate = "in" /\ thread[t].pc >= Replacements
    /\ LET r == thread[t].pc - Replacements + 1
       IN thread' = [thread EXCEPT ![t] = Caller]
          \/ thread' = [thread EXCEPT ![t].pc = backup[r]]
    /\ UNCHANGED <<mm, mem, patch, foreign, limits, dobbyVars>>

-----------------------------------------------------------------------------
Next ==
    \/ DobbyHook \/ DobbyInstrument \/ DobbyDestroy \/ TogglePlugin
    \/ BuildRouting \/ NearMapped \/ GenerateRelocatedCode \/ Commit \/ Add \/ Removed
    \/ ForeignMap
    \/ \E t \in Threads : Call(t) \/ Execute(t) \/ Replacement(t)

Spec == Init /\ [][Next]_vars

-----------------------------------------------------------------------------
(* Every call runs the instructions of its function in their order, with   *)
(* or without replacements and handlers in front of them, unless it was    *)
(* inside the range of a patch of several words, hooks overlap, or memory  *)
(* was mapped over.  In particular a single b can be patched at any time,  *)
(* and a replacement finds its original as soon as it can be reached.      *)
CallsSound ==
    limits = {} => \A t \in Threads : thread[t].fate = "lost" => thread[t].excused

(* Between calls of Dobby an instruction differs from the library exactly  *)
(* where an entry covers it: destroyed hooks leave nothing behind, unless  *)
(* overlapping hooks were not destroyed in the reverse order.              *)
TextMatchesEntries ==
    (op.at = "idle" /\ limits \intersect {"crossed", "edge"} = {}) =>
        \A a \in Text :
            mem[a] = Insn(a) <=> \A i \in DOMAIN entries : a \notin EntrySpan(entries[i])

(* Code is handed out once: the blocks the entries run through are inside  *)
(* the arenas and apart, and the entry's own relocated code is intact      *)
(* however many blocks were allocated after it.                            *)
RelocatedIntact ==
    limits = {} =>
        \A i \in DOMAIN entries :
            LET e == entries[i]
                n == Len(e.origin)
            IN /\ \A j \in 1..n : mem[e.relocated + j - 1] = e.origin[j]
               /\ mem[e.relocated + n] = Jump(e.addr + n, 1, 1)
               /\ \A b \in Span(e.relocated, n + 1) : mm.page[PageOf(b)] = "arena"

\* The page right behind code: a block has reached the end of an arena, or the
\* start of its last page, or a trampoline covers the last words before the page.
Filled(m, p) ==
    \/ \E i \in DOMAIN m.arenas :
          LET ar == m.arenas[i]
          IN /\ ar.addr < p * PageSize /\ p * PageSize <= ar.cursor
             /\ p * PageSize \in {ar.addr + ar.size, ar.addr + ar.size - PageSize}
    \/ \E a \in Functions \cup Points : p * PageSize = a + TrampSize

(* Whatever Dobby maps, stores and patches, a page of the rest of the      *)
(* process stays mapped and writable, also one mapped while Dobby searches *)
(* for memory, as long as nobody takes the gap it has found already.  What *)
(* is left is the page behind a block that ends with its own page.         *)
ForeignKept ==
    "stale" \notin limits =>
        \A p \in foreign : (mm.page[p] = "foreign" /\ mm.perm[p] = "rw") \/ Filled(mm, p)
=============================================================================
