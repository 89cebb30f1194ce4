--------------------------- MODULE TrampolinePool ---------------------------
(***************************************************************************)
(* GenerateTrampolineFor of lsplant.cc: a lock-free pool of trampolines.   *)
(*                                                                         *)
(* trampoline_pool is one word: the address of a page and, in its low      *)
(* bits, the number of slots of that page given out.  fetch_add hands out  *)
(* a slot; who finds the page used up takes trampoline_lock, allocates a   *)
(* page and stores it.  The word is modelled as a page number and a count  *)
(* below CountRange (4096 or 16384) with the carry of the addition.        *)
(***************************************************************************)
EXTENDS Integers, FiniteSets

CONSTANTS
    Threads,     \* threads in DoHook
    PageNumbers, \* page numbers the kernel can give out
    SlotsPerPage,\* kTrampolineNumPerPage
    CountRange,  \* 2^12 or 2^14
    MaxCalls     \* bound on the calls of GenerateTrampolineFor

ASSUME PageAssumption == PageNumbers \subseteq Nat \ {0}
ASSUME SlotAssumption ==
    /\ SlotsPerPage \in Nat \ {0}
    /\ CountRange \in Nat
    /\ SlotsPerPage < CountRange
ASSUME CallAssumption == MaxCalls \in Nat
ASSUME ThreadsAssumption == IsFiniteSet(Threads)

VARIABLES
    pool,      \* trampoline_pool: [page, count]
    lock,      \* trampoline_lock
    useMemfd,  \* use_memfd
    useAshmem, \* ashmem_device_path is not empty
    mapped,    \* page numbers the pool has mapped, the writable twins included
    dual,      \* dual_regions: pages whose writable twin is the next page
    plain,     \* mmap_regions: pages that are writable and executable
    written,   \* slots that hold the trampoline of a hook
    pc,        \* per thread
    tl,        \* per thread: page and count it works on
    calls,     \* calls so far
    fails,     \* history: failed allocations since the last new page, up to the carry
    carried    \* history: the count has run over into the page number

memVars == <<useMemfd, useAshmem, mapped, dual, plain>>
vars == <<pool, lock, memVars, written, pc, tl, calls, fails, carried>>

Words == [page : Nat, count : 0..(CountRange - 1)]

Init ==
    /\ pool = [page |-> 0, count |-> 0]
    /\ lock = FALSE
    /\ useMemfd \in BOOLEAN
    /\ useAshmem = ~useMemfd
    /\ mapped = {}
    /\ dual = {}
    /\ plain = {}
    /\ written = {}
    /\ pc = [t \in Threads |-> "idle"]
    /\ tl = [t \in Threads |-> pool]
    /\ calls = 0
    /\ fails = 0
    /\ carried = FALSE

Goto(t, label) == pc' = [pc EXCEPT ![t] = label]

\* Adding one to the word.
Carries(w) == w.count = CountRange - 1

Increment(w) ==
    IF Carries(w) THEN [page |-> w.page + 1, count |-> 0]
    ELSE [page |-> w.page, count |-> w.count + 1]

\* No page yet, or no slot left in it.
UsedUp(w) == w.page = 0 \/ w.count >= SlotsPerPage

Slot(w) == <<w.page, w.count>>

\* Where the bytes of a slot are written: the twin of a dual mapped page.
WritePage(w) == IF w.page \in dual THEN w.page + 1 ELSE w.page

-----------------------------------------------------------------------------
\* DoHook calls GenerateTrampolineFor.
Call(t) ==
    /\ pc[t] = "idle"
    /\ calls < MaxCalls
    /\ calls' = calls + 1
    /\ Goto(t, "fetch")
    /\ UNCHANGED <<pool, lock, memVars, written, tl, fails, carried>>

\* Fault: the word is read and written back later only when a slot is taken.
FetchAddUncounted(t) ==
    /\ pc[t] = "fetch"
    /\ tl' = [tl EXCEPT ![t] = pool]
    /\ pool' = IF UsedUp(pool) THEN Increment(pool) ELSE pool
    /\ carried' = (carried \/ (UsedUp(pool) /\ Carries(pool)))
    /\ Goto(t, IF UsedUp(pool) THEN "full" ELSE "write")
    /\ UNCHANGED <<lock, memVars, written, calls, fails>>

\* trampoline_pool.fetch_add(1)
FetchAdd(t) ==
    /\ pc[t] = "fetch"
    /\ tl' = [tl EXCEPT ![t] = pool]
    /\ pool' = Increment(pool)
    /\ carried' = (carried \/ Carries(pool))
    /\ Goto(t, IF UsedUp(pool) THEN "full" ELSE "write")
    /\ UNCHANGED <<lock, memVars, written, calls, fails>>

\* Fault: a thread that does not get the lock tries again at once.
TestAndSetSpin(t) ==
    /\ pc[t] = "full"
    /\ IF lock THEN Goto(t, "fetch") /\ UNCHANGED lock
       ELSE Goto(t, "alloc") /\ lock' = TRUE
    /\ UNCHANGED <<pool, memVars, written, tl, calls, fails, carried>>

\* trampoline_lock.test_and_set
TestAndSet(t) ==
    /\ pc[t] = "full"
    /\ IF lock THEN Goto(t, "wait") /\ UNCHANGED lock
       ELSE Goto(t, "alloc") /\ lock' = TRUE
    /\ UNCHANGED <<pool, memVars, written, tl, calls, fails, carried>>

\* trampoline_lock.wait(true); continue
Wait(t) ==
    /\ pc[t] = "wait"
    /\ ~lock
    /\ Goto(t, "fetch")
    /\ UNCHANGED <<pool, lock, memVars, written, tl, calls, fails, carried>>

NewPage(t, p) ==
    /\ tl' = [tl EXCEPT ![t] = [page |-> p, count |-> 0]]
    /\ Goto(t, "store")

\* AllocateMemoryFromMemfd, AllocateMemoryFromAshmem: two adjacent pages, the
\* second the writable twin of the first.
AllocateDual(t) ==
    /\ pc[t] = "alloc"
    /\ \E p \in PageNumbers :
          /\ mapped \cap {p, p + 1} = {}
          /\ mapped' = mapped \cup {p, p + 1}
          /\ dual' = dual \cup {p}
          /\ NewPage(t, p)
    /\ \/ useMemfd /\ UNCHANGED useMemfd
       \/ useAshmem /\ useMemfd' = FALSE
    /\ UNCHANGED <<pool, lock, useAshmem, plain, written, calls, fails, carried>>

\* The anonymous mapping, after the other way has failed; that one is given up
\* for good.
AllocateMmap(t) ==
    /\ pc[t] = "alloc"
    /\ \E p \in PageNumbers \ mapped :
          /\ mapped' = mapped \cup {p}
          /\ plain' = plain \cup {p}
          /\ NewPage(t, p)
    /\ useMemfd' = FALSE
    /\ useAshmem' = FALSE
    /\ UNCHANGED <<pool, lock, dual, written, calls, fails, carried>>

\* Fault: the lock is kept when no memory is left.
AllocateFailsHolding(t) ==
    /\ pc[t] = "alloc"
    /\ useMemfd' = FALSE
    /\ useAshmem' = FALSE
    /\ fails' = fails + 1
    /\ Goto(t, "idle")
    /\ UNCHANGED <<pool, lock, mapped, dual, plain, written, tl, calls, carried>>

\* Nothing could be mapped: clear the lock, return null.
AllocateFails(t) ==
    /\ pc[t] = "alloc"
    /\ useMemfd' = FALSE
    /\ useAshmem' = FALSE
    /\ lock' = FALSE
    /\ fails' = fails + 1
    /\ Goto(t, "idle")
    /\ UNCHANGED <<pool, mapped, dual, plain, written, tl, calls, carried>>

\* trampoline_pool.store: this thread keeps slot 0.
Store(t) ==
    /\ pc[t] = "store"
    /\ pool' = [page |-> tl[t].page, count |-> 1]
    /\ fails' = IF carried THEN fails ELSE 0
    /\ Goto(t, "clear")
    /\ UNCHANGED <<lock, memVars, written, tl, calls, carried>>

\* trampoline_lock.clear, notify_all
Clear(t) ==
    /\ pc[t] = "clear"
    /\ lock' = FALSE
    /\ Goto(t, "write")
    /\ UNCHANGED <<pool, memVars, written, tl, calls, fails, carried>>

\* memcpy, clear_cache, return the address.
Write(t) ==
    /\ pc[t] = "write"
    /\ written' = written \cup {Slot(tl[t])}
    /\ Goto(t, "idle")
    /\ UNCHANGED <<pool, lock, memVars, tl, calls, fails, carried>>

-----------------------------------------------------------------------------
Step(t) ==
    \/ FetchAdd(t) \/ TestAndSet(t) \/ Wait(t)
    \/ AllocateDual(t) \/ AllocateMmap(t) \/ AllocateFails(t)
    \/ Store(t) \/ Clear(t) \/ Write(t)

\* MaxCalls is a bound of the model: having reached it is not a deadlock.
Done == calls = MaxCalls /\ (\A t \in Threads : pc[t] = "idle") /\ UNCHANGED vars

Next == (\E t \in Threads : Call(t) \/ Step(t)) \/ Done

\* A thread in the middle of a call runs on.
Spec == Init /\ [][Next]_vars /\ \A t \in Threads : WF_vars(Step(t))

-----------------------------------------------------------------------------
(* Properties                                                              *)

HoldsLock == {"alloc", "store", "clear"}
HasSlot == {"clear", "write"}

\* Every variable has its type.
TypeOK ==
    /\ pool \in Words
    /\ lock \in BOOLEAN
    /\ useMemfd \in BOOLEAN
    /\ useAshmem \in BOOLEAN
    /\ mapped \subseteq Nat
    /\ dual \subseteq mapped
    /\ plain \subseteq mapped
    /\ written \subseteq Nat \X (0..(CountRange - 1))
    /\ pc \in [Threads -> {"idle", "fetch", "full", "wait", "alloc", "store", "clear", "write"}]
    /\ tl \in [Threads -> Words]
    /\ calls \in Nat
    /\ fails \in Nat
    /\ carried \in BOOLEAN

\* Two calls never get the same slot, whether both are about to write their
\* trampoline or one has written it before: no hook runs the code of another.
SlotsDistinct ==
    ~carried =>
        \A t \in Threads : pc[t] \in HasSlot =>
            /\ Slot(tl[t]) \notin written
            /\ \A u \in Threads \ {t} : pc[u] \in HasSlot => Slot(tl[u]) # Slot(tl[t])

\* A trampoline is written into a page the pool has mapped, through a page that
\* is writable, and inside that page.
SlotInOwnPage ==
    ~carried =>
        \A t \in Threads : pc[t] \in HasSlot =>
            /\ tl[t].page \in dual \cup plain
            /\ WritePage(tl[t]) \in mapped
            /\ tl[t].count < SlotsPerPage

\* The count can run over into the page number only after many failed
\* allocations: a thread that finds the page used up adds one and then waits
\* for the lock, so each release of the lock lets every thread add one at most,
\* and only two releases since the last new page are not failures.
CarryNeedsFailures ==
    carried => (fails + 2) * Cardinality(Threads) >= CountRange - SlotsPerPage

\* A call returns: nobody waits for ever for trampoline_lock.
CallsReturn == \A t \in Threads : pc[t] = "fetch" ~> pc[t] = "idle"

-----------------------------------------------------------------------------
(* The inductive invariant of TrampolinePoolProofs.                        *)

Pages == dual \cup plain

\* At most one thread allocates, and the lock tells.
LockOwned ==
    /\ \A t, u \in Threads : pc[t] \in HoldsLock /\ pc[u] \in HoldsLock => t = u
    /\ lock <=> \E t \in Threads : pc[t] \in HoldsLock

\* A dual mapped page has its twin.
TwinsMapped == \A p \in dual : p + 1 \in mapped

\* The word of the pool names a page, and all slots of that page which have been
\* given out lie below its count.
PoolSound ==
    /\ pool.page # 0 => pool.page \in Pages
    /\ \A s \in written : s[1] \in Pages /\ (s[1] = pool.page => s[2] < pool.count)
    /\ \A t \in Threads : pc[t] \in HasSlot =>
          /\ tl[t].page \in Pages
          /\ tl[t].count < SlotsPerPage
          /\ tl[t].page = pool.page => tl[t].count < pool.count

\* A new page is not in use before it is stored.
NewPageFresh ==
    \A t \in Threads : pc[t] = "store" =>
        /\ tl[t].page \in Pages
        /\ tl[t].count = 0
        /\ tl[t].page # pool.page
        /\ \A s \in written : s[1] # tl[t].page
        /\ \A u \in Threads : pc[u] \in HasSlot => tl[u].page # tl[t].page

IInv ==
    /\ TypeOK
    /\ LockOwned
    /\ TwinsMapped
    /\ ~carried => PoolSound /\ NewPageFresh
    /\ SlotsDistinct
=============================================================================
