------------------------ MODULE TrampolinePoolProofs ------------------------
(***************************************************************************)
(* Proofs about TrampolinePool, for any number of threads, pages, slots    *)
(* per page and calls.  IInv is inductive: the word of the pool bounds the *)
(* slots of its page that were given out, and a page that is not yet       *)
(* stored is known to its allocator only.                                  *)
(* CarryInv counts the additions to a page that is used up.                *)
(***************************************************************************)
EXTENDS TrampolinePool, FiniteSetTheorems, TLAPS

\* The initial state satisfies the invariant.
LEMMA InitIInv == Init => IInv
<1> SUFFICES ASSUME Init PROVE IInv
  OBVIOUS
<1> USE DEF Init
<1>1. pool \in Words
  BY SlotAssumption DEF Words
<1>2. useMemfd \in BOOLEAN /\ useAshmem \in BOOLEAN
  BY Zenon
<1>3. TypeOK
  BY <1>1, <1>2 DEF TypeOK
<1>4. LockOwned /\ TwinsMapped /\ PoolSound /\ NewPageFresh /\ SlotsDistinct
  BY DEF LockOwned, TwinsMapped, PoolSound, NewPageFresh, SlotsDistinct, HasSlot, HoldsLock
<1> QED BY <1>3, <1>4 DEF IInv

\* Adding one to the word yields a word, on the same page unless it carries.
LEMMA IncrementWord ==
    ASSUME NEW w \in Words
    PROVE  /\ Increment(w) \in Words
           /\ ~Carries(w) => Increment(w).page = w.page /\ Increment(w).count = w.count + 1
BY SlotAssumption DEF Words, Increment, Carries

\* FetchAdd gives the thread a slot nobody has.
LEMMA FetchAddIInv ==
    ASSUME IInv, NEW t \in Threads, FetchAdd(t)
    PROVE  IInv'
<1> USE DEF IInv, FetchAdd, Goto, memVars
<1>1. TypeOK'
  BY IncrementWord DEF TypeOK
<1>2. LockOwned'
  BY DEF LockOwned, TypeOK, HoldsLock
<1>3. TwinsMapped'
  BY DEF TwinsMapped
<1>4. ASSUME ~carried' PROVE PoolSound' /\ NewPageFresh' /\ SlotsDistinct'
  <2>1. ~carried /\ ~Carries(pool)
    BY <1>4
  <2>2. PoolSound /\ NewPageFresh /\ SlotsDistinct
    BY <2>1
  <2>3. pool'.page = pool.page /\ pool'.count = pool.count + 1 /\ pool.count \in Nat
    BY <2>1, IncrementWord DEF TypeOK, Words
  <2>4. tl'[t] = pool /\ \A u \in Threads \ {t} : tl'[u] = tl[u] /\ pc'[u] = pc[u]
    BY DEF TypeOK
  <2>5. pc'[t] \in HasSlot => pool.page # 0 /\ pool.count < SlotsPerPage
    BY SlotAssumption, <2>3 DEF TypeOK, HasSlot, UsedUp
  <2>6. PoolSound'
    BY <2>2, <2>3, <2>4, <2>5 DEF PoolSound, Pages, TypeOK, Words
  <2>7. NewPageFresh'
    <3>1. pc'[t] # "store"
      BY DEF TypeOK
    <3> QED BY <2>2, <2>3, <2>4, <2>5, <3>1 DEF NewPageFresh, PoolSound, Pages, TypeOK, Words
  <2>8. SlotsDistinct'
    BY <2>2, <2>3, <2>4, <2>5 DEF SlotsDistinct, Slot, PoolSound, TypeOK, Words
  <2> QED BY <2>6, <2>7, <2>8
<1>5. SlotsDistinct'
  BY <1>4 DEF SlotsDistinct
<1> QED BY <1>1, <1>2, <1>3, <1>4, <1>5

\* A newly mapped page is not one the pool knows.
LEMMA AllocateIInv ==
    ASSUME IInv, NEW t \in Threads, AllocateDual(t) \/ AllocateMmap(t)
    PROVE  IInv'
<1> USE DEF IInv, AllocateDual, AllocateMmap, NewPage, Goto, memVars
<1>1. PICK p \in PageNumbers :
        /\ p \notin mapped
        /\ mapped \cup {p} \subseteq mapped'
        /\ mapped' \subseteq mapped \cup {p, p + 1}
        /\ Pages' = Pages \cup {p}
        /\ dual' \subseteq dual \cup {p}
        /\ plain' \subseteq plain \cup {p}
        /\ p \in dual' => p + 1 \in mapped' \/ p \in dual
        /\ tl' = [tl EXCEPT ![t] = [page |-> p, count |-> 0]]
  <2>1. CASE AllocateDual(t)
    BY <2>1 DEF Pages
  <2>2. CASE AllocateMmap(t)
    BY <2>2 DEF Pages
  <2> QED BY <2>1, <2>2
<1>2. p \in Nat \ {0} /\ Pages \subseteq mapped
  BY PageAssumption DEF Pages, TypeOK
<1>3. pc[t] = "alloc" /\ pc' = [pc EXCEPT ![t] = "store"] /\ UNCHANGED <<pool, lock, written, calls, fails, carried>>
  OBVIOUS
<1>4. TypeOK'
  <2>1. mapped' \subseteq Nat
    BY <1>1, <1>2 DEF TypeOK
  <2>2. dual' \subseteq mapped' /\ plain' \subseteq mapped'
    BY <1>1 DEF TypeOK
  <2>3. tl' \in [Threads -> Words]
    BY <1>1, <1>2, SlotAssumption DEF TypeOK, Words
  <2> QED BY <1>3, <2>1, <2>2, <2>3 DEF TypeOK
<1>5. LockOwned'
  BY <1>3 DEF LockOwned, TypeOK, HoldsLock
<1>6. TwinsMapped'
  BY <1>1 DEF TwinsMapped
<1>7. ASSUME ~carried' PROVE PoolSound' /\ NewPageFresh'
  <2>1. PoolSound /\ NewPageFresh
    BY <1>3, <1>7
  <2>2. \A u \in Threads : pc'[u] \in HasSlot => u # t /\ pc[u] \in HasSlot /\ tl'[u] = tl[u]
    BY <1>1, <1>3 DEF TypeOK, HasSlot
  <2>3. PoolSound'
    BY <1>1, <1>3, <2>1, <2>2 DEF PoolSound
  <2>4. tl'[t].page = p /\ tl'[t].count = 0
    BY <1>1 DEF TypeOK
  <2>5. \A u \in Threads : pc'[u] = "store" => u = t
    BY <1>3 DEF LockOwned, HoldsLock, TypeOK
  <2>6. NewPageFresh'
    BY <1>1, <1>2, <1>3, <2>1, <2>2, <2>4, <2>5 DEF NewPageFresh, PoolSound
  <2> QED BY <2>3, <2>6
<1>8. SlotsDistinct'
  BY <1>1, <1>3 DEF SlotsDistinct, TypeOK, HasSlot, Slot
<1> QED BY <1>4, <1>5, <1>6, <1>7, <1>8

\* Storing the new page gives its first slot to the allocator only.
LEMMA StoreIInv ==
    ASSUME IInv, NEW t \in Threads, Store(t)
    PROVE  IInv'
<1> USE DEF IInv, Store, Goto, memVars
<1>1. TypeOK'
  BY SlotAssumption DEF TypeOK, Words
<1>2. LockOwned'
  BY DEF LockOwned, TypeOK, HoldsLock
<1>3. TwinsMapped'
  BY DEF TwinsMapped
<1>4. ASSUME ~carried' PROVE PoolSound' /\ NewPageFresh' /\ SlotsDistinct'
  <2>1. PoolSound /\ NewPageFresh /\ SlotsDistinct
    BY <1>4
  <2>2. pool'.page = tl[t].page /\ pool'.count = 1 /\ tl[t].count = 0 /\ tl[t].page \in Pages
    BY <2>1 DEF NewPageFresh
  <2>3. \A u \in Threads : pc'[u] \in HasSlot => u = t \/ (pc[u] \in HasSlot /\ tl[u].page # tl[t].page)
    BY <2>1 DEF NewPageFresh, TypeOK, HasSlot
  <2>4. \A u \in Threads : pc'[u] # "store"
    BY DEF LockOwned, HoldsLock, TypeOK
  <2>5. PoolSound'
    BY <2>1, <2>2, <2>3, SlotAssumption DEF PoolSound, NewPageFresh, Pages
  <2>6. NewPageFresh'
    BY <2>4 DEF NewPageFresh
  <2>7. SlotsDistinct'
    BY <2>1, <2>2, <2>3 DEF SlotsDistinct, NewPageFresh, Slot, TypeOK, HasSlot
  <2> QED BY <2>5, <2>6, <2>7
<1>5. SlotsDistinct'
  BY <1>4 DEF SlotsDistinct
<1> QED BY <1>1, <1>2, <1>3, <1>4, <1>5

\* Writing a trampoline uses up a slot nobody else has.
LEMMA WriteIInv ==
    ASSUME IInv, NEW t \in Threads, Write(t)
    PROVE  IInv'
<1> USE DEF IInv, Write, Goto, memVars
<1>1. TypeOK'
  BY DEF TypeOK, Slot, Words
<1>2. LockOwned'
  BY DEF LockOwned, TypeOK, HoldsLock
<1>3. TwinsMapped'
  BY DEF TwinsMapped
<1>4. ASSUME ~carried' PROVE PoolSound' /\ NewPageFresh' /\ SlotsDistinct'
  <2>1. PoolSound /\ NewPageFresh /\ SlotsDistinct
    BY <1>4
  <2>2. pc[t] \in HasSlot
    BY DEF HasSlot
  <2>3. \A u \in Threads : pc'[u] \in HasSlot \cup {"store"} => u # t /\ pc'[u] = pc[u]
    BY DEF TypeOK, HasSlot
  <2>4. PoolSound'
    BY <2>1, <2>2, <2>3 DEF PoolSound, Slot, Pages
  <2>5. NewPageFresh'
    BY <2>1, <2>2, <2>3 DEF NewPageFresh, Slot, Pages
  <2>6. SlotsDistinct'
    BY <1>4, <2>1, <2>2, <2>3 DEF SlotsDistinct, Slot
  <2> QED BY <2>4, <2>5, <2>6
<1>5. SlotsDistinct'
  BY <1>4 DEF SlotsDistinct
<1> QED BY <1>1, <1>2, <1>3, <1>4, <1>5

\* The steps that only move a thread or the lock.
LEMMA ControlIInv ==
    ASSUME IInv, NEW t \in Threads,
           Call(t) \/ TestAndSet(t) \/ Wait(t) \/ AllocateFails(t) \/ Clear(t)
    PROVE  IInv'
<1> USE DEF IInv, Call, TestAndSet, Wait, AllocateFails, Clear, Goto, memVars
<1>1. TypeOK'
  <2>1. pc' \in [Threads -> {"idle", "fetch", "full", "wait", "alloc", "store", "clear", "write"}]
    BY DEF TypeOK
  <2>2. lock' \in BOOLEAN /\ useMemfd' \in BOOLEAN /\ useAshmem' \in BOOLEAN
    BY Zenon DEF TypeOK
  <2>3. calls' \in Nat /\ fails' \in Nat
    BY DEF TypeOK
  <2> QED BY <2>1, <2>2, <2>3 DEF TypeOK
<1>2. LockOwned'
  BY DEF LockOwned, TypeOK, HoldsLock
<1>3. TwinsMapped'
  BY DEF TwinsMapped
<1>4. \A u \in Threads : pc'[u] \in HasSlot => pc[u] \in HasSlot
  BY DEF TypeOK, HasSlot
<1>5. \A u \in Threads : pc'[u] = "store" => pc[u] = "store"
  BY DEF TypeOK
<1>6. UNCHANGED <<pool, mapped, dual, plain, written, tl, carried>>
  OBVIOUS
<1>7. ~carried' => PoolSound' /\ NewPageFresh'
  BY <1>4, <1>5, <1>6 DEF PoolSound, NewPageFresh, Pages
<1>8. SlotsDistinct'
  BY <1>4, <1>6 DEF SlotsDistinct, Slot
<1> QED BY <1>1, <1>2, <1>3, <1>7, <1>8

\* Every step of the pool preserves the invariant.
LEMMA NextIInv == IInv /\ [Next]_vars => IInv'
<1> SUFFICES ASSUME IInv, [Next]_vars PROVE IInv'
  OBVIOUS
<1>1. CASE UNCHANGED vars
  BY <1>1 DEF vars, memVars, IInv, TypeOK, LockOwned, TwinsMapped, PoolSound, NewPageFresh,
      SlotsDistinct, Slot, Pages
<1>2. ASSUME NEW t \in Threads, Call(t) \/ Step(t) PROVE IInv'
  BY <1>2, FetchAddIInv, AllocateIInv, StoreIInv, WriteIInv, ControlIInv DEF Step
<1> QED BY <1>1, <1>2 DEF Next, Done

\* The inductive invariant holds in every reachable state.
THEOREM Invariance == Spec => []IInv
BY InitIInv, NextIInv, PTL DEF Spec

\* Type correctness.
THEOREM TypeCorrect == Spec => []TypeOK
<1>1. IInv => TypeOK
  BY DEF IInv
<1> QED BY <1>1, Invariance, PTL

\* GenerateTrampolineFor never hands out a slot twice, however its callers
\* interleave, as long as the count has not run over.
THEOREM SlotsNeverShared == Spec => []SlotsDistinct
<1>1. IInv => SlotsDistinct
  BY DEF IInv
<1> QED BY <1>1, Invariance, PTL

\* Every trampoline is written into a mapped page of the pool.
THEOREM SlotsInPages == Spec => []SlotInOwnPage
<1>1. IInv => SlotInOwnPage
  BY DEF IInv, SlotInOwnPage, PoolSound, TwinsMapped, WritePage, Pages, TypeOK
<1> QED BY <1>1, Invariance, PTL

-----------------------------------------------------------------------------
(* How far the count can run past the slots of its page.  Between two      *)
(* releases of the lock every thread adds one at most: after that it waits *)
(* or holds the lock.                                                      *)

\* Threads that have found the page used up and not tried the lock yet.
Refused == {t \in Threads : pc[t] = "full"}

\* The same, with the threads that wait for the lock or hold it.
Stopped == {t \in Threads : pc[t] \in {"full", "wait"} \cup HoldsLock}

Slots == IF pool.page = 0 THEN 0 ELSE SlotsPerPage

\* A new page starts a count of its own, and its release is the first; every
\* failed allocation is another one.
Releases == (fails + 1) * Cardinality(Threads)

\* Additions to a used-up page so far.
Surplus == IF \E t \in Threads : pc[t] = "clear" THEN Cardinality(Stopped)
           ELSE IF lock THEN Releases + Cardinality(Stopped)
           ELSE Releases + Cardinality(Refused)

CountBounded == ~carried => pool.count <= Slots + Surplus

CarryInv == IInv /\ CountBounded /\ CarryNeedsFailures

\* The sets are finite, and a release adds at most one for every thread.
LEMMA Counts ==
    ASSUME TypeOK
    PROVE  /\ Cardinality(Threads) \in Nat
           /\ Cardinality(Refused) \in Nat
           /\ Cardinality(Stopped) \in Nat
           /\ Cardinality(Refused) <= Cardinality(Stopped)
           /\ Cardinality(Stopped) <= Cardinality(Threads)
           /\ IsFiniteSet(Refused) /\ IsFiniteSet(Stopped)
           /\ Releases \in Nat
           /\ Releases + Cardinality(Threads) = (fails + 2) * Cardinality(Threads)
           /\ Releases >= Cardinality(Threads)
<1>1. Refused \subseteq Stopped /\ Stopped \subseteq Threads
  BY DEF Refused, Stopped
<1>2. IsFiniteSet(Stopped) /\ Cardinality(Stopped) <= Cardinality(Threads)
  BY <1>1, ThreadsAssumption, FS_Subset
<1>3. IsFiniteSet(Refused) /\ Cardinality(Refused) <= Cardinality(Stopped)
  BY <1>1, <1>2, FS_Subset
<1>4. /\ Cardinality(Threads) \in Nat
      /\ Cardinality(Refused) \in Nat
      /\ Cardinality(Stopped) \in Nat
  BY <1>2, <1>3, ThreadsAssumption, FS_CardinalityType
<1>5. ASSUME NEW n \in Nat, NEW f \in Nat
      PROVE  /\ (f + 1) * n \in Nat /\ (f + 1) * n + n = (f + 2) * n
             /\ (f + 1) * n >= n
  <2>1. f * n \in Nat /\ (f + 1) * n = f * n + n /\ (f + 2) * n = f * n + n + n
    OBVIOUS
  <2> QED  BY <2>1
<1>6. fails \in Nat
  BY DEF TypeOK
<1>7. /\ Releases \in Nat
      /\ Releases + Cardinality(Threads) = (fails + 2) * Cardinality(Threads)
      /\ Releases >= Cardinality(Threads)
  BY <1>4, <1>5, <1>6 DEF Releases
<1> QED  BY <1>2, <1>3, <1>4, <1>7

\* The pool's word, its slots and the bounds are numbers.
LEMMA PoolNumbers ==
    ASSUME TypeOK
    PROVE  pool.count \in Nat /\ pool.count < CountRange /\ Slots \in Nat /\ Slots <= SlotsPerPage
BY SlotAssumption DEF TypeOK, Words, Slots

\* An addition to a page that is used up stops the thread.
LEMMA FetchAddCarry ==
    ASSUME CarryInv, NEW t \in Threads, FetchAdd(t)
    PROVE  CarryInv'
<1> USE DEF CarryInv
<1>1. IInv' /\ TypeOK /\ TypeOK'
  BY FetchAddIInv DEF IInv
<1>2. /\ pc[t] = "fetch" /\ pool' = Increment(pool) /\ lock' = lock /\ fails' = fails
      /\ carried' = (carried \/ Carries(pool))
      /\ pc' = [pc EXCEPT ![t] = IF UsedUp(pool) THEN "full" ELSE "write"]
  BY DEF FetchAdd, Goto
<1>3. \A u \in Threads \ {t} : pc'[u] = pc[u]
  BY <1>1, <1>2 DEF TypeOK
<1>4. (\E u \in Threads : pc'[u] = "clear") <=> (\E u \in Threads : pc[u] = "clear")
  BY <1>1, <1>2, <1>3 DEF TypeOK
<1>5. t \notin Refused /\ t \notin Stopped
  BY <1>2 DEF Refused, Stopped, HoldsLock
<1>6. CASE carried
  BY <1>1, <1>2, <1>6, Zenon DEF CountBounded, CarryNeedsFailures
<1>7. CASE ~carried /\ Carries(pool)
  <2>1. pool.count = CountRange - 1 /\ pool.count <= Slots + Surplus
    BY <1>7 DEF Carries, CountBounded
  <2>2. Cardinality(Stopped) + 1 <= Cardinality(Threads)
    <3>1. IsFiniteSet(Stopped) /\ Stopped \cup {t} \subseteq Threads
      BY <1>1, Counts DEF Stopped
    <3>2. Cardinality(Stopped \cup {t}) = Cardinality(Stopped) + 1
      BY <3>1, <1>5, FS_AddElement
    <3> QED  BY <3>1, <3>2, ThreadsAssumption, FS_Subset
  <2>3. Surplus <= Releases + Cardinality(Stopped) /\ Surplus \in Nat
    BY <1>1, Counts DEF Surplus
  <2>4. CountRange - SlotsPerPage <= Releases + Cardinality(Threads)
    BY <1>1, <2>1, <2>2, <2>3, Counts, PoolNumbers, SlotAssumption
  <2>5. CountRange - SlotsPerPage <= (fails + 2) * Cardinality(Threads)
    BY <2>4, <1>1, Counts
  <2>6. CarryNeedsFailures'
    <3>1. (fails + 2) * Cardinality(Threads) \in Int
      BY <1>1, Counts DEF TypeOK
    <3> QED  BY <1>2, <2>5, <3>1, SlotAssumption DEF CarryNeedsFailures
  <2>7. CountBounded'
    BY <1>2, <1>7 DEF CountBounded
  <2> QED  BY <1>1, <2>6, <2>7
<1>8. CASE ~carried /\ ~Carries(pool)
  <2>1. pool'.page = pool.page /\ pool'.count = pool.count + 1 /\ Slots' = Slots
    BY <1>1, <1>2, <1>8, IncrementWord DEF TypeOK, Slots
  <2>2. Releases' = Releases
    BY <1>2 DEF Releases
  <2>3. Surplus' \in Nat /\ Surplus \in Nat
    <3>1. Surplus \in Nat
      BY <1>1, Counts DEF Surplus
    <3>2. Cardinality(Stopped') \in Nat /\ Cardinality(Refused') \in Nat /\ Releases' \in Nat
      <4>1. Stopped' \subseteq Threads /\ Refused' \subseteq Threads
        BY DEF Stopped, Refused
      <4> QED  BY <4>1, <2>2, <1>1, Counts, ThreadsAssumption, FS_Subset, FS_CardinalityType
    <3> QED  BY <3>1, <3>2 DEF Surplus
  <2>4. CASE UsedUp(pool)
    <3>1. Refused' = Refused \cup {t} /\ Stopped' = Stopped \cup {t}
      BY <1>1, <1>2, <1>3, <2>4 DEF Refused, Stopped, TypeOK
    <3>2. /\ Cardinality(Refused') = Cardinality(Refused) + 1
          /\ Cardinality(Stopped') = Cardinality(Stopped) + 1
      BY <3>1, <1>5, <1>1, Counts, FS_AddElement
    <3>3. Surplus' = Surplus + 1
      BY <1>1, <1>2, <1>4, <2>2, <3>2, Counts DEF Surplus
    <3>4. CountBounded'
      BY <1>1, <1>8, <2>1, <2>3, <3>3, PoolNumbers DEF CountBounded
    <3> QED  BY <1>1, <1>2, <1>8, <3>4 DEF CarryNeedsFailures
  <2>5. CASE ~UsedUp(pool)
    <3>1. Slots = SlotsPerPage /\ pool.count < SlotsPerPage
      BY <1>1, <2>5, PoolNumbers, SlotAssumption DEF UsedUp, Slots
    <3>2. CountBounded'
      BY <1>1, <2>1, <2>3, <3>1, PoolNumbers, SlotAssumption DEF CountBounded
    <3> QED  BY <1>1, <1>2, <1>8, <3>2 DEF CarryNeedsFailures
  <2> QED  BY <2>4, <2>5
<1> QED  BY <1>6, <1>7, <1>8

\* Storing a new page starts its count at one, with the storing thread stopped.
LEMMA StoreCarry ==
    ASSUME CarryInv, NEW t \in Threads, Store(t)
    PROVE  CarryInv'
<1> USE DEF CarryInv
<1>1. IInv' /\ TypeOK /\ TypeOK'
  BY StoreIInv DEF IInv
<1>2. /\ pool'.count = 1 /\ carried' = carried /\ (carried => fails' = fails)
      /\ pc' = [pc EXCEPT ![t] = "clear"]
  BY DEF Store, Goto
<1>3. CarryNeedsFailures'
  BY <1>2 DEF CarryNeedsFailures
<1>4. Surplus' = Cardinality(Stopped') /\ t \in Stopped'
  BY <1>1, <1>2 DEF Surplus, Stopped, TypeOK, HoldsLock
<1>5. Cardinality(Stopped') \in Nat /\ Cardinality(Stopped') # 0
  <2>1. Stopped' \subseteq Threads
    BY DEF Stopped
  <2>2. IsFiniteSet(Stopped')
    BY <2>1, ThreadsAssumption, FS_Subset
  <2> QED  BY <2>2, <1>4, FS_CardinalityType, FS_EmptySet
<1>6. Slots' \in Nat
  BY SlotAssumption DEF Slots
<1>7. CountBounded'
  BY <1>2, <1>4, <1>5, <1>6 DEF CountBounded
<1> QED  BY <1>1, <1>3, <1>7

\* A failed allocation is a release that counts.
LEMMA FailsCarry ==
    ASSUME CarryInv, NEW t \in Threads, AllocateFails(t)
    PROVE  CarryInv'
<1> USE DEF CarryInv
<1>1. IInv' /\ TypeOK /\ TypeOK'
  BY ControlIInv DEF IInv
<1>2. /\ pc[t] = "alloc" /\ pool' = pool /\ carried' = carried /\ fails' = fails + 1
      /\ ~lock' /\ pc' = [pc EXCEPT ![t] = "idle"]
  BY DEF AllocateFails, Goto
<1>3. lock /\ \A u \in Threads : pc[u] # "clear" /\ pc'[u] # "clear"
  BY <1>1, <1>2 DEF IInv, LockOwned, HoldsLock, TypeOK
<1>4. fails \in Nat /\ Cardinality(Threads) \in Nat
  BY <1>1, Counts DEF TypeOK
<1>5. Releases' = Releases + Cardinality(Threads)
  <2>1. Releases' = (fails + 2) * Cardinality(Threads)
    BY <1>2, <1>4 DEF Releases
  <2> QED  BY <2>1, <1>1, Counts
<1>6. CountBounded'
  <2>1. Slots' = Slots
    BY <1>2 DEF Slots
  <2>2. Surplus = Releases + Cardinality(Stopped)
    BY <1>3 DEF Surplus
  <2>3. Surplus' = Releases + Cardinality(Threads) + Cardinality(Refused')
    BY <1>2, <1>3, <1>5 DEF Surplus
  <2>4. Cardinality(Refused') \in Nat
    BY <1>1, Counts, ThreadsAssumption, FS_Subset, FS_CardinalityType DEF Refused
  <2>5. ~carried => pool.count <= Slots + Releases + Cardinality(Threads) + Cardinality(Refused')
    BY <1>1, <2>2, <2>4, Counts, PoolNumbers DEF CountBounded
  <2> QED  BY <1>1, <1>2, <2>1, <2>3, <2>4, <2>5, Counts, PoolNumbers DEF CountBounded
<1>7. CarryNeedsFailures'
  <2>1. (fails' + 2) * Cardinality(Threads) = (fails + 2) * Cardinality(Threads) + Cardinality(Threads)
    BY <1>2, <1>4
  <2>2. (fails + 2) * Cardinality(Threads) \in Nat
    BY <1>4
  <2> QED  BY <1>2, <1>4, <2>1, <2>2, SlotAssumption DEF CarryNeedsFailures
<1> QED  BY <1>1, <1>6, <1>7

\* The first release after a new page: whatever was added since then, every
\* thread has added once.
LEMMA ClearCarry ==
    ASSUME CarryInv, NEW t \in Threads, Clear(t)
    PROVE  CarryInv'
<1> USE DEF CarryInv
<1>1. IInv' /\ TypeOK /\ TypeOK'
  BY ControlIInv DEF IInv
<1>2. /\ pc[t] = "clear" /\ pool' = pool /\ carried' = carried /\ fails' = fails
      /\ ~lock' /\ pc' = [pc EXCEPT ![t] = "write"]
  BY DEF Clear, Goto
<1>3. \A u \in Threads : pc'[u] # "clear"
  BY <1>1, <1>2 DEF IInv, LockOwned, HoldsLock, TypeOK
<1>4. CarryNeedsFailures'
  BY <1>2 DEF CarryNeedsFailures
<1>5. Slots' = Slots /\ Releases' = Releases
  BY <1>2 DEF Slots, Releases
<1>6. Surplus = Cardinality(Stopped) /\ Surplus' = Releases + Cardinality(Refused')
  BY <1>2, <1>3, <1>5 DEF Surplus
<1>7. Cardinality(Refused') \in Nat
  BY <1>1, Counts, ThreadsAssumption, FS_Subset, FS_CardinalityType DEF Refused
<1>8. CountBounded'
  BY <1>1, <1>2, <1>5, <1>6, <1>7, Counts, PoolNumbers DEF CountBounded
<1> QED  BY <1>1, <1>4, <1>8

\* Taking the lock, or being refused it, leaves a thread stopped.
LEMMA TestAndSetCarry ==
    ASSUME CarryInv, NEW t \in Threads, TestAndSet(t)
    PROVE  CarryInv'
<1> USE DEF CarryInv
<1>1. IInv' /\ TypeOK /\ TypeOK'
  BY ControlIInv DEF IInv
<1>2. /\ pc[t] = "full" /\ pool' = pool /\ carried' = carried /\ fails' = fails
      /\ lock' = TRUE /\ pc' = [pc EXCEPT ![t] = IF lock THEN "wait" ELSE "alloc"]
  BY <1>1 DEF TestAndSet, Goto, TypeOK
<1>3. Stopped' = Stopped
  BY <1>1, <1>2 DEF Stopped, HoldsLock, TypeOK
<1>4. (\E u \in Threads : pc'[u] = "clear") <=> (\E u \in Threads : pc[u] = "clear")
  BY <1>1, <1>2 DEF TypeOK
<1>5. Slots' = Slots /\ Releases' = Releases
  BY <1>2 DEF Slots, Releases
<1>6. Surplus <= Surplus' /\ Surplus \in Nat /\ Surplus' \in Nat
  BY <1>1, <1>2, <1>3, <1>4, <1>5, Counts DEF Surplus
<1>7. CountBounded'
  BY <1>1, <1>2, <1>5, <1>6, PoolNumbers DEF CountBounded
<1> QED  BY <1>1, <1>2, <1>7 DEF CarryNeedsFailures

\* The other steps neither add nor release; a thread stops waiting only while
\* the lock is free, when it no longer counts.
LEMMA OtherCarry ==
    ASSUME CarryInv, NEW t \in Threads,
           Call(t) \/ Wait(t) \/ AllocateDual(t) \/ AllocateMmap(t) \/ Write(t)
    PROVE  CarryInv'
<1> USE DEF CarryInv
<1>1. IInv' /\ TypeOK /\ TypeOK'
  BY ControlIInv, AllocateIInv, WriteIInv DEF IInv
<1>2. /\ pool' = pool /\ carried' = carried /\ fails' = fails /\ lock' = lock
      /\ \/ ~lock /\ pc[t] = "wait" /\ pc' = [pc EXCEPT ![t] = "fetch"]
         \/ pc[t] = "alloc" /\ pc' = [pc EXCEPT ![t] = "store"]
         \/ pc[t] = "idle" /\ pc' = [pc EXCEPT ![t] = "fetch"]
         \/ pc[t] = "write" /\ pc' = [pc EXCEPT ![t] = "idle"]
  BY DEF Call, Wait, AllocateDual, AllocateMmap, Write, NewPage, Goto, memVars
<1>3. (\E u \in Threads : pc'[u] = "clear") <=> (\E u \in Threads : pc[u] = "clear")
  BY <1>1, <1>2 DEF TypeOK
<1>4. (\E u \in Threads : pc[u] = "clear") => lock
  BY DEF IInv, LockOwned, HoldsLock
<1>5. Refused' = Refused /\ (lock => Stopped' = Stopped)
  BY <1>1, <1>2 DEF Refused, Stopped, HoldsLock, TypeOK
<1>6. Slots' = Slots /\ Releases' = Releases
  BY <1>2 DEF Slots, Releases
<1>7. Surplus' = Surplus
  BY <1>2, <1>3, <1>4, <1>5, <1>6 DEF Surplus
<1> QED  BY <1>1, <1>2, <1>6, <1>7 DEF CountBounded, CarryNeedsFailures

\* The strengthened invariant holds in every reachable state.
THEOREM CarryInvariance == Spec => []CarryInv
<1>1. Init => CarryInv
  <2> SUFFICES ASSUME Init PROVE CarryInv
    OBVIOUS
  <2>1. IInv /\ TypeOK
    BY InitIInv DEF IInv
  <2>2. pool.count = 0 /\ ~carried /\ ~lock /\ \A t \in Threads : pc[t] # "clear"
    BY DEF Init
  <2>3. Surplus \in Nat /\ Slots \in Nat
    BY <2>1, Counts, PoolNumbers DEF Surplus
  <2> QED  BY <2>1, <2>2, <2>3 DEF CarryInv, CountBounded, CarryNeedsFailures
<1>2. CarryInv /\ [Next]_vars => CarryInv'
  <2> SUFFICES ASSUME CarryInv, [Next]_vars PROVE CarryInv'
    OBVIOUS
  <2>1. CASE UNCHANGED vars
    <3>1. IInv'
      BY NextIInv DEF CarryInv
    <3> QED
      BY <2>1, <3>1 DEF CarryInv, vars, CountBounded, CarryNeedsFailures, Slots, Surplus,
          Releases, Refused, Stopped
  <2>2. ASSUME NEW t \in Threads, Call(t) \/ Step(t) PROVE CarryInv'
    BY <2>2, FetchAddCarry, StoreCarry, FailsCarry, ClearCarry, TestAndSetCarry, OtherCarry DEF Step
  <2> QED  BY <2>1, <2>2 DEF Next, Done
<1> QED  BY <1>1, <1>2, PTL DEF Spec

\* However many threads ask for trampolines, the count of a page runs over into
\* its address only after so many failed allocations.
THEOREM CarriesAfterFailures == Spec => []CarryNeedsFailures
<1>1. CarryInv => CarryNeedsFailures
  BY DEF CarryInv
<1> QED  BY <1>1, CarryInvariance, PTL
=============================================================================
