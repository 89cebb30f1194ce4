----------------------------- MODULE CodeMemory -----------------------------
(***************************************************************************)
(* Executable memory of Dobby: the arenas of MemoryAllocator, the search   *)
(* for memory near an address of NearMemoryAllocator, and the mappings of  *)
(* the process they live in.                                               *)
(*                                                                         *)
(* An address counts instructions of four bytes.  The process is a record  *)
(* [page, perm, arenas]: what is mapped at each page, its protection, and  *)
(* code_arenas.  An allocation gives the set of its outcomes, because the  *)
(* kernel places an unfixed mapping anywhere.                              *)
(***************************************************************************)
EXTENDS Integers, Sequences, FiniteSets, FiniteSetsExt

CONSTANTS
    PageSize,   \* instructions per page
    Pages       \* pages of the address space

ASSUME PageAssumption == PageSize \in Nat \ {0} /\ Pages \in Nat \ {0}

PageIds == 0..(Pages - 1)
Addresses == 0..(Pages * PageSize - 1)
PageOf(a) == a \div PageSize
PageFloor(a) == PageOf(a) * PageSize
PageCeil(n) == PageFloor(n + PageSize - 1)
Span(a, n) == a..(a + n - 1)

\* mprotect: a page that is not mapped stays as it is.
Protect(m, ps, prot) ==
    [m EXCEPT !.perm = [p \in PageIds |->
        IF p \in ps /\ m.page[p] # "free" THEN prot ELSE m.perm[p]]]

\* mmap, with or without MAP_FIXED: it replaces whatever was there.
Map(m, a, n, prot) ==
    LET ps == {p \in PageIds : p * PageSize \in Span(a, n)}
    IN [m EXCEPT !.page = [p \in PageIds |-> IF p \in ps THEN "arena" ELSE m.page[p]],
                 !.perm = [p \in PageIds |-> IF p \in ps THEN prot ELSE m.perm[p]]]

-----------------------------------------------------------------------------
(* MemoryAllocator                                                         *)

\* allocMemBlock of a MemoryArena [addr, size, cursor].
HasRoom(ar, n) == ar.addr + ar.size - ar.cursor >= n

\* Fault: the last instruction of a block is not counted.
TakenShort(m, i, n) == [m EXCEPT !.arenas[i].cursor = @ + n - 1]

Taken(m, i, n) == [m EXCEPT !.arenas[i].cursor = @ + n]
NewArena(m, a, n, used) ==
    [m EXCEPT !.arenas = Append(@, [addr |-> a, size |-> n, cursor |-> a + used])]

\* The places where the kernel can put n unmapped instructions.
FreeRuns(m, n) ==
    {a \in {p * PageSize : p \in PageIds} :
        \A b \in Span(a, n) : b \in Addresses /\ m.page[PageOf(b)] = "free"}

\* allocateExecBlock: the first arena with room, else a new arena.  While the
\* kernel has a place, mmap succeeds; nothing is said of a process without one.
AllocateExec(m, n) ==
    LET fit == {i \in DOMAIN m.arenas : HasRoom(m.arenas[i], n)}
    IN IF fit # {}
       THEN LET i == Min(fit) IN {[m |-> Taken(m, i, n), addr |-> m.arenas[i].cursor]}
       ELSE {[m |-> NewArena(Map(m, a, PageCeil(n), "rx"), a, PageCeil(n), n), addr |-> a] :
                a \in FreeRuns(m, PageCeil(n))}

-----------------------------------------------------------------------------
(* NearMemoryAllocator                                                     *)

\* Where n instructions fit in the unused memory lo..hi within range of pos,
\* 0 for nowhere.
Unused(lo, hi, pos, range, n) ==
    LET start == Max({lo, pos - range})
        end == Min({hi, pos + range})
    IN IF hi < pos - range \/ lo > pos + range \/ start >= end \/ end - start < n
       THEN 0 ELSE start

\* allocateNearBlockFromDefaultAllocator: the first arena with room in range;
\* the instructions skipped before the block stay taken.
NearFromArenas(m, n, pos, range) ==
    LET at(i) == Unused(m.arenas[i].cursor, m.arenas[i].addr + m.arenas[i].size, pos, range, n)
        fit == {i \in DOMAIN m.arenas : at(i) # 0}
    IN IF fit = {} THEN {}
       ELSE LET i == Min(fit)
            IN {[m |-> Taken(m, i, at(i) - m.arenas[i].cursor + n), addr |-> at(i)]}

\* GetProcessMemoryLayout: the regions of /proc/self/maps by address.  Regions
\* that touch leave nothing between them, so a page counts as a region.
MemoryLayout(page) == {p \in PageIds : page[p] # "free"}

\* The search between two regions.
NearGap(page, n, pos, range) ==
    LET mapped == MemoryLayout(page)
        next(p) == Min({q \in mapped : q > p})
        at(p) == Unused((p + 1) * PageSize, next(p) * PageSize, pos, range, n)
        found == {p \in mapped : (\E q \in mapped : q > p) /\ at(p) # 0}
    IN IF found = {} THEN 0 ELSE at(Min(found))

\* The arena that is mapped, with MAP_FIXED, around the block found.
NearArenaSize(at, n) == PageFloor(at + n) - PageFloor(at) + PageSize

NearFromGap(m, at, n) ==
    LET a == PageFloor(at)
        size == NearArenaSize(at, n)
    IN NewArena(Map(m, a, size, "rx"), a, size, at - a + n)
=============================================================================
