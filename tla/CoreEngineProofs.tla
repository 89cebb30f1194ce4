-------------------------- MODULE CoreEngineProofs --------------------------
(***************************************************************************)
(* TLAPS proofs about CoreEngine, for any number of threads, members,      *)
(* priorities and registrations.                                           *)
(***************************************************************************)
EXTENDS CoreEngine, SequenceTheorems, WellFoundedInduction, TLAPS

-----------------------------------------------------------------------------
(* Lemmas about the list operations.                                       *)

\* The elements of a list after one insertion, and the order of InsertAt.
LEMMA InsertAtProps ==
    ASSUME NEW S, NEW s \in Seq(S), NEW e \in S, NEW k \in 1..(Len(s) + 1)
    PROVE  /\ InsertAt(s, k, e) \in Seq(S)
           /\ Len(InsertAt(s, k, e)) = Len(s) + 1
           /\ \A i \in 1..(Len(s) + 1) :
                InsertAt(s, k, e)[i] = IF i < k THEN s[i]
                                       ELSE IF i = k THEN e ELSE s[i - 1]
<1> DEFINE a == SubSeq(s, 1, k - 1)
           b == SubSeq(s, k, Len(s))
<1>1. a \in Seq(S) /\ Len(a) = k - 1 /\ \A i \in 1..(k - 1) : a[i] = s[i]
  BY SubSeqProperties
<1>2. /\ b \in Seq(S) /\ Len(b) = Len(s) - k + 1
      /\ \A i \in 1..(Len(s) - k + 1) : b[i] = s[k + i - 1]
  BY SubSeqProperties
<1>3. <<e>> \in Seq(S) /\ Len(<<e>>) = 1 /\ <<e>>[1] = e
  OBVIOUS
<1> HIDE DEF a, b
<1>4. /\ a \o <<e>> \in Seq(S)
      /\ Len(a \o <<e>>) = k
      /\ \A i \in 1..k : (a \o <<e>>)[i] = IF i < k THEN a[i] ELSE e
  BY <1>1, <1>3, ConcatProperties
<1> DEFINE c == a \o <<e>>
<1> HIDE DEF c
<1>5. /\ c \o b \in Seq(S)
      /\ Len(c \o b) = Len(s) + 1
      /\ \A i \in 1..(Len(s) + 1) : (c \o b)[i] = IF i <= k THEN c[i] ELSE b[i - k]
  <2>1. c \in Seq(S) /\ Len(c) = k
    BY <1>4 DEF c
  <2>2. Len(c) + Len(b) = Len(s) + 1
    BY <2>1, <1>2, LenProperties
  <2> QED  BY <2>1, <2>2, <1>2, ConcatProperties
<1>6. InsertAt(s, k, e) = c \o b
  BY DEF InsertAt, a, b, c
<1>7. ASSUME NEW i \in 1..(Len(s) + 1)
      PROVE  (c \o b)[i] = IF i < k THEN s[i] ELSE IF i = k THEN e ELSE s[i - 1]
  <2>1. CASE i <= k
    BY <2>1, <1>1, <1>4, <1>5 DEF c
  <2>2. CASE i > k
    <3>1. (c \o b)[i] = b[i - k]
      BY <2>2, <1>5
    <3>2. b[i - k] = s[i - 1]
      BY <2>2, <1>2
    <3> QED  BY <2>2, <3>1, <3>2
  <2>3. i <= k \/ i > k
    BY LenProperties
  <2> QED  BY <2>1, <2>2, <2>3, Zenon
<1> QED  BY <1>5, <1>6, <1>7

\* A list after RemoveAt: the elements in front stay, those behind move up.
LEMMA RemoveAtProps ==
    ASSUME NEW S, NEW s \in Seq(S), NEW k \in 1..Len(s)
    PROVE  /\ RemoveAt(s, k) \in Seq(S)
           /\ Len(RemoveAt(s, k)) = Len(s) - 1
           /\ \A i \in 1..(Len(s) - 1) :
                RemoveAt(s, k)[i] = IF i < k THEN s[i] ELSE s[i + 1]
<1> DEFINE a == SubSeq(s, 1, k - 1)
           b == SubSeq(s, k + 1, Len(s))
<1>1. a \in Seq(S) /\ Len(a) = k - 1 /\ \A i \in 1..(k - 1) : a[i] = s[i]
  BY SubSeqProperties
<1>2. /\ b \in Seq(S) /\ Len(b) = Len(s) - k
      /\ \A i \in 1..(Len(s) - k) : b[i] = s[k + i]
  BY SubSeqProperties
<1> HIDE DEF a, b
<1>3. /\ a \o b \in Seq(S)
      /\ Len(a \o b) = Len(s) - 1
      /\ \A i \in 1..(Len(s) - 1) : (a \o b)[i] = IF i <= k - 1 THEN a[i] ELSE b[i - (k - 1)]
  BY <1>1, <1>2, ConcatProperties
<1>4. RemoveAt(s, k) = a \o b
  BY DEF RemoveAt, a, b
<1>5. ASSUME NEW i \in 1..(Len(s) - 1)
      PROVE  (a \o b)[i] = IF i < k THEN s[i] ELSE s[i + 1]
  <2>1. CASE i < k
    BY <2>1, <1>1, <1>3
  <2>2. CASE i >= k
    <3>1. (a \o b)[i] = b[i - (k - 1)]
      BY <2>2, <1>3
    <3>2. b[i - (k - 1)] = s[i + 1]
      BY <2>2, <1>2
    <3> QED  BY <2>2, <3>1, <3>2
  <2>3. i < k \/ i >= k
    BY LenProperties
  <2> QED  BY <2>1, <2>2, <2>3, Zenon
<1> QED  BY <1>3, <1>4, <1>5

\* Least-number principle, for a set of numbers.
LEMMA LeastElement ==
    ASSUME NEW T \in SUBSET Nat, T # {}
    PROVE  \E k \in T : \A j \in T : k <= j
<1>1. PICK k \in T : \A j \in T : ~ (<<j, k>> \in OpToRel(<, Nat))
  BY NatLessThanWellFounded, WFMin
<1>2. ASSUME NEW j \in T PROVE k <= j
  <2>1. ~ (j < k)
    BY <1>1 DEF OpToRel
  <2> QED  BY <2>1
<1> QED  BY <1>2

\* SortedInsert adds exactly its argument and keeps the dispatch order.
LEMMA SortedInsertProps ==
    ASSUME NEW s \in Seq(Entry), NEW e \in Entry, Ordered(s),
           \A i \in DOMAIN s : s[i].id < e.id
    PROVE  /\ SortedInsert(s, e) \in Seq(Entry)
           /\ SortedInsert(s, e) # << >>
           /\ ToSet(SortedInsert(s, e)) = ToSet(s) \cup {e}
           /\ Ordered(SortedInsert(s, e))
<1> DEFINE Fits(n) == \A i \in 1..Len(s) : (s[i].prio >= e.prio) <=> (i <= n)
<1>0. Len(s) \in Nat /\ DOMAIN s = 1..Len(s) /\ \A i \in 1..Len(s) : s[i] \in Entry
  BY LenProperties, ElementOfSeq
<1>1. /\ Len(s) \in Nat /\ DOMAIN s = 1..Len(s)
      /\ \A i \in 1..Len(s) : s[i].prio \in Int
      /\ e.prio \in Int
  BY <1>0, PrioritiesAssumption DEF Entry
<1>2. \E n \in 0..Len(s) : Fits(n)
  <2> DEFINE K == {i \in 1..Len(s) : s[i].prio < e.prio}
  <2>1. CASE K = {}
    <3>1. ASSUME NEW i \in 1..Len(s) PROVE s[i].prio >= e.prio /\ i <= Len(s)
      <4>1. ~ (s[i].prio < e.prio)
        BY <2>1
      <4> QED  BY <4>1, <1>1
    <3>2. Fits(Len(s))
      BY <3>1
    <3>3. Len(s) \in 0..Len(s)
      BY <1>1
    <3> QED  BY <3>2, <3>3
  <2>2. CASE K # {}
    <3>1. PICK k \in K : \A j \in K : k <= j
      <4>1. K \in SUBSET Nat
        BY <1>1
      <4> HIDE DEF K
      <4> QED  BY <4>1, <2>2, LeastElement
    <3>2. ASSUME NEW i \in 1..Len(s) PROVE (s[i].prio >= e.prio) <=> (i <= k - 1)
      <4>1. CASE i < k
        <5>1. i \notin K
          BY <4>1, <3>1, <1>1
        <5>2. ~ (s[i].prio < e.prio)
          BY <5>1
        <5> QED  BY <5>2, <4>1, <1>1
      <4>2. CASE i = k
        <5>1. s[k].prio < e.prio
          BY <3>1
        <5> QED  BY <5>1, <4>2, <1>1
      <4>3. CASE i > k
        <5>1. s[k].prio > s[i].prio \/ s[k].prio = s[i].prio
          BY <4>3, <1>1 DEF Ordered
        <5>2. s[k].prio < e.prio /\ k \in 1..Len(s)
          BY <3>1
        <5>3. s[i].prio < e.prio
          BY <5>1, <5>2, <1>1
        <5> QED  BY <5>2, <5>3, <4>3, <1>1
      <4> QED  BY <4>1, <4>2, <4>3, <3>1, <1>1
    <3>3. k - 1 \in 0..Len(s)
      BY <3>1, <1>1
    <3> QED  BY <3>2, <3>3
  <2> QED  BY <2>1, <2>2
<1> DEFINE n == CHOOSE n \in 0..Len(s) : Fits(n)
           r == InsertAt(s, n + 1, e)
<1>3. n \in 0..Len(s) /\ Fits(n)
  BY <1>2
<1>4. SortedInsert(s, e) = r
  BY DEF SortedInsert
<1> HIDE DEF n
<1>5. /\ r \in Seq(Entry)
      /\ Len(r) = Len(s) + 1
      /\ \A i \in 1..(Len(s) + 1) :
            r[i] = IF i < n + 1 THEN s[i] ELSE IF i = n + 1 THEN e ELSE s[i - 1]
  <2>1. n + 1 \in 1..(Len(s) + 1)
    BY <1>1, <1>3
  <2> DEFINE k == n + 1
  <2>2. k \in 1..(Len(s) + 1) /\ k = n + 1
    BY <2>1
  <2> HIDE DEF k
  <2>3. /\ InsertAt(s, k, e) \in Seq(Entry)
        /\ Len(InsertAt(s, k, e)) = Len(s) + 1
        /\ \A i \in 1..(Len(s) + 1) :
              InsertAt(s, k, e)[i] = IF i < k THEN s[i] ELSE IF i = k THEN e ELSE s[i - 1]
    BY <2>2, InsertAtProps
  <2> QED  BY <2>2, <2>3 DEF r
<1> HIDE DEF r
<1>6. ToSet(r) = ToSet(s) \cup {e}
  <2>1. DOMAIN r = 1..(Len(s) + 1)
    BY <1>5, <1>1, LenProperties
  <2>2. ASSUME NEW i \in DOMAIN r PROVE r[i] \in ToSet(s) \cup {e}
    <3>1. CASE i < n + 1
      BY <3>1, <2>1, <1>5, <1>1, <1>3 DEF ToSet
    <3>2. CASE i = n + 1
      BY <3>2, <2>1, <1>5, <1>1, <1>3
    <3>3. CASE i > n + 1
      <4>1. i - 1 \in 1..Len(s)
        BY <3>3, <2>1, <1>1, <1>3
      <4>2. r[i] = s[i - 1]
        BY <3>3, <2>1, <1>5, <1>1, <1>3
      <4> QED  BY <4>1, <4>2, <1>1 DEF ToSet
    <3> QED  BY <3>1, <3>2, <3>3, <2>1, <1>1, <1>3
  <2>3. ASSUME NEW i \in DOMAIN s PROVE s[i] \in ToSet(r)
    <3>1. CASE i <= n
      <4>1. i \in 1..(Len(s) + 1) /\ r[i] = s[i]
        BY <3>1, <1>1, <1>3, <1>5
      <4> QED  BY <4>1, <2>1 DEF ToSet
    <3>2. CASE i > n
      <4>1. i + 1 \in 1..(Len(s) + 1) /\ r[i + 1] = s[i]
        BY <3>2, <1>1, <1>3, <1>5
      <4> QED  BY <4>1, <2>1 DEF ToSet
    <3> QED  BY <3>1, <3>2, <1>1, <1>3
  <2>4. n + 1 \in DOMAIN r /\ r[n + 1] = e
    BY <2>1, <1>1, <1>3, <1>5
  <2>5. e \in ToSet(r)
    BY <2>4 DEF ToSet
  <2> QED  BY <2>2, <2>3, <2>5 DEF ToSet
<1>7. Ordered(r)
  <2>1. DOMAIN r = 1..(Len(s) + 1)
    BY <1>5, <1>1, LenProperties
  <2> SUFFICES ASSUME NEW i \in 1..(Len(s) + 1), NEW j \in 1..(Len(s) + 1), i < j
               PROVE  \/ r[i].prio > r[j].prio
                      \/ r[i].prio = r[j].prio /\ r[i].id < r[j].id
    BY <2>1 DEF Ordered
  <2>2. CASE j < n + 1
    <3>1. r[i] = s[i] /\ r[j] = s[j] /\ i \in DOMAIN s /\ j \in DOMAIN s
      BY <2>2, <1>1, <1>3, <1>5
    <3> QED  BY <3>1 DEF Ordered
  <2>3. CASE j = n + 1
    <3>1. r[i] = s[i] /\ r[j] = e /\ i \in 1..Len(s) /\ i <= n
      BY <2>3, <1>1, <1>3, <1>5
    <3>2. s[i].prio >= e.prio /\ s[i].id < e.id
      BY <3>1, <1>1, <1>3
    <3>3. s[i].prio \in Int /\ e.prio \in Int
      BY <3>1, <1>1
    <3> QED  BY <3>1, <3>2, <3>3
  <2>4. CASE j > n + 1 /\ i < n + 1
    <3>1. r[i] = s[i] /\ r[j] = s[j - 1] /\ i \in DOMAIN s /\ j - 1 \in DOMAIN s /\ i < j - 1
      BY <2>4, <1>1, <1>3, <1>5
    <3> QED  BY <3>1 DEF Ordered
  <2>5. CASE j > n + 1 /\ i = n + 1
    <3>1. r[i] = e /\ r[j] = s[j - 1] /\ j - 1 \in 1..Len(s) /\ ~ (j - 1 <= n)
      BY <2>5, <1>1, <1>3, <1>5
    <3>2. ~ (s[j - 1].prio >= e.prio)
      BY <3>1, <1>3
    <3>3. s[j - 1].prio \in Int /\ e.prio \in Int
      BY <3>1, <1>1
    <3> QED  BY <3>1, <3>2, <3>3
  <2>6. CASE j > n + 1 /\ i > n + 1
    <3>1. /\ r[i] = s[i - 1] /\ r[j] = s[j - 1]
          /\ i - 1 \in DOMAIN s /\ j - 1 \in DOMAIN s /\ i - 1 < j - 1
      BY <2>6, <1>1, <1>3, <1>5
    <3> QED  BY <3>1 DEF Ordered
  <2>7. \/ j < n + 1
        \/ j = n + 1
        \/ j > n + 1 /\ i < n + 1
        \/ j > n + 1 /\ i = n + 1
        \/ j > n + 1 /\ i > n + 1
    <3>1. n \in Int /\ i \in Int /\ j \in Int
      BY <1>1, <1>3
    <3> QED  BY <3>1
  <2> QED  BY <2>2, <2>3, <2>4, <2>5, <2>6, <2>7, Zenon
<1>8. r # << >>
  BY <1>1, <1>5
<1> QED  BY <1>4, <1>5, <1>6, <1>7, <1>8

\* RemoveEntry loses nothing but its argument and keeps the dispatch order.
LEMMA RemoveEntryProps ==
    ASSUME NEW s \in Seq(Entry), NEW e, Ordered(s)
    PROVE  /\ RemoveEntry(s, e) \in Seq(Entry)
           /\ \A x \in ToSet(s) : x # e => x \in ToSet(RemoveEntry(s, e))
           /\ ToSet(RemoveEntry(s, e)) \subseteq ToSet(s)
           /\ Ordered(RemoveEntry(s, e))
           /\ e \notin ToSet(RemoveEntry(s, e))
<1>1. Len(s) \in Nat /\ DOMAIN s = 1..Len(s)
  BY LenProperties
<1>2. CASE ~ \E i \in DOMAIN s : s[i] = e
  BY <1>2 DEF RemoveEntry, ToSet
<1>3. CASE \E i \in DOMAIN s : s[i] = e
  <2> DEFINE k == CHOOSE i \in DOMAIN s : s[i] = e
             r == RemoveAt(s, k)
  <2>1. k \in 1..Len(s) /\ s[k] = e
    BY <1>3, <1>1
  <2>2. RemoveEntry(s, e) = r
    BY <1>3 DEF RemoveEntry
  <2> HIDE DEF k
  <2>3. /\ r \in Seq(Entry)
        /\ Len(r) = Len(s) - 1
        /\ \A i \in 1..(Len(s) - 1) : r[i] = IF i < k THEN s[i] ELSE s[i + 1]
    BY <2>1, RemoveAtProps
  <2> HIDE DEF r
  <2>4. DOMAIN r = 1..(Len(s) - 1)
    BY <2>3, LenProperties
  <2>5. ASSUME NEW i \in DOMAIN s, s[i] # e PROVE s[i] \in ToSet(r)
    <3>1. CASE i < k
      <4>1. i \in DOMAIN r /\ r[i] = s[i]
        BY <3>1, <1>1, <2>1, <2>3, <2>4
      <4> QED  BY <4>1 DEF ToSet
    <3>2. CASE i > k
      <4>1. i - 1 \in DOMAIN r /\ r[i - 1] = s[i]
        BY <3>2, <1>1, <2>1, <2>3, <2>4
      <4> QED  BY <4>1 DEF ToSet
    <3>3. i # k
      BY <2>1, <2>5
    <3> QED  BY <3>1, <3>2, <3>3, <1>1, <2>1
  <2>6. ASSUME NEW i \in DOMAIN r PROVE r[i] \in ToSet(s)
    <3>1. i \in DOMAIN s /\ i + 1 \in DOMAIN s /\ (r[i] = s[i] \/ r[i] = s[i + 1])
      BY <1>1, <2>1, <2>3, <2>4
    <3> QED  BY <3>1 DEF ToSet
  <2>7. Ordered(r)
    <3> SUFFICES ASSUME NEW i \in DOMAIN r, NEW j \in DOMAIN r, i < j
                 PROVE  \/ r[i].prio > r[j].prio
                        \/ r[i].prio = r[j].prio /\ r[i].id < r[j].id
      BY DEF Ordered
    <3> DEFINE a == IF i < k THEN i ELSE i + 1
               b == IF j < k THEN j ELSE j + 1
    <3>1. r[i] = s[a] /\ r[j] = s[b] /\ a \in DOMAIN s /\ b \in DOMAIN s /\ a < b
      BY <1>1, <2>1, <2>3, <2>4
    <3> HIDE DEF a, b
    <3> QED  BY <3>1 DEF Ordered
  <2>8. ASSUME NEW i \in DOMAIN r, r[i] = e PROVE FALSE
    <3> DEFINE a == IF i < k THEN i ELSE i + 1
    <3>1. a \in DOMAIN s /\ k \in DOMAIN s /\ a # k /\ s[a] = e /\ e \in Entry
      BY <1>1, <2>1, <2>3, <2>4, <2>8
    <3>2. e.prio \in Int /\ e.id \in Nat
      BY <3>1, PrioritiesAssumption DEF Entry
    <3> HIDE DEF a
    <3>3. a < k \/ k < a
      BY <1>1, <3>1
    <3> QED  BY <2>1, <3>1, <3>2, <3>3 DEF Ordered
  <2> QED  BY <2>2, <2>3, <2>5, <2>6, <2>7, <2>8 DEF ToSet
<1> QED  BY <1>2, <1>3

-----------------------------------------------------------------------------
(* Facts the steps below share.                                            *)

\* The fields of an entry, and an entry whose number is replaced.
LEMMA EntryFacts ==
    /\ \A x \in Entry : x.id \in Nat /\ x.prio \in Int /\ x.mem \in Members
    /\ \A x \in Entry \cup {NoEntry} : x.id \in Nat
    /\ \A x \in Entry, i \in Nat : [x EXCEPT !.id = i] \in Entry
    /\ \A m \in Members, p \in Priorities : [id |-> 0, prio |-> p, mem |-> m] \in Entry
    /\ << >> \in Seq(Entry)
  BY PrioritiesAssumption DEF Entry, NoEntry

\* An empty list is in order.
LEMMA OrderedEmpty == Ordered(<< >>)
  BY DEF Ordered

\* A member with an active handle is hooked, published and not being hooked or
\* unhooked.
LEMMA ActiveMember ==
    ASSUME IInv, NEW m \in Members, ActiveOn(m) # {}
    PROVE  /\ entries[m] # << >>
           /\ owner[m] # Null => pc[owner[m]] = "addInsert"
           /\ code[m] = token[m]
           /\ token[m] # Null
           /\ token[m] \in backupSet
<1>1. PICK e \in active : e.mem = m
  BY DEF ActiveOn
<1>2. entries[m] # << >>
  BY <1>1 DEF IInv, ActiveInv, ActiveStaysRegistered, ToSet
<1>3. owner[m] # Null => pc[owner[m]] = "addInsert"
  BY <1>2 DEF IInv, MonitorInv, HolderInv
<1> QED
  BY <1>2, <1>3 DEF IInv, HolderInv

\* The same for the member of a call that overlaps an active handle.
LEMMA StableMember ==
    ASSUME IInv, NEW t \in Threads, must[t] # {}
    PROVE  /\ mem[t] \in Members
           /\ entries[mem[t]] # << >>
           /\ owner[mem[t]] # Null => pc[owner[mem[t]]] = "addInsert"
           /\ code[mem[t]] = token[mem[t]]
           /\ token[mem[t]] # Null
           /\ token[mem[t]] \in backupSet
<1>1. PICK e \in must[t] : e \in active /\ e.mem = mem[t] /\ e \in Entry
  BY DEF IInv, ActiveInv, ActiveOn, TypeOK
<1>2. mem[t] \in Members /\ ActiveOn(mem[t]) # {}
  BY <1>1, EntryFacts DEF ActiveOn
<1> QED
  BY <1>2, ActiveMember

\* AddEnter preserves the invariant.
LEMMA AddEnterInv ==
    ASSUME IInv, NEW t \in Threads, AddEnter(t)
    PROVE  IInv'
<1> USE DEF IInv
<1>a. ent[t] \in Entry /\ mem[t] \in Members
  BY DEF AddEnter, IdInv, MonitorInv
<1>1. TypeOK'
  BY <1>a, EntryFacts DEF AddEnter, Goto, Begin, Finish, regVars, apiVars, locals, TypeOK, Labels
<1>2. MonitorInv'
  BY NullAssumption DEF AddEnter, Goto, Begin, Finish, regVars, apiVars, locals, TypeOK, MonitorInv, Critical, Adding
<1>3. HolderInv'
  BY NullAssumption DEF AddEnter, Goto, Begin, Finish, regVars, apiVars, locals, TypeOK, MonitorInv, HolderInv, Critical, Adding
<1>4. IdInv'
  BY EntryFacts, NullAssumption DEF AddEnter, Goto, Begin, Finish, regVars, apiVars, locals, TypeOK, MonitorInv, IdInv, Adding, Critical
<1>5. OrderInv'
  BY OrderedEmpty, NullAssumption DEF AddEnter, Goto, Begin, Finish, regVars, apiVars, locals, TypeOK, MonitorInv, OrderInv
<1>6. ActiveInv'
  BY NullAssumption DEF AddEnter, Goto, Begin, Finish, regVars, apiVars, locals, TypeOK, MonitorInv, HolderInv, IdInv, ActiveInv, ActiveStaysRegistered, ActiveOn, Critical, Adding
<1>7. CallInv'
  BY StableMember, NullAssumption DEF AddEnter, Goto, Begin, Finish, regVars, apiVars, locals, TypeOK, CallInv, MonitorInv
<1> QED  BY <1>1, <1>2, <1>3, <1>4, <1>5, <1>6, <1>7

\* AddNativeHook preserves the invariant.
LEMMA AddNativeHookInv ==
    ASSUME IInv, NEW t \in Threads, AddNativeHook(t)
    PROVE  IInv'
<1> USE DEF IInv
<1>1. TypeOK'
  BY EntryFacts, NullAssumption DEF AddNativeHook, Goto, Begin, Finish, regVars, apiVars, locals, TypeOK, MonitorInv, Labels
<1>2. MonitorInv'
  BY NullAssumption DEF AddNativeHook, Goto, Begin, Finish, regVars, apiVars, locals, TypeOK, MonitorInv, Critical, Adding
<1>3. HolderInv'
  BY NullAssumption DEF AddNativeHook, Goto, Begin, Finish, regVars, apiVars, locals, TypeOK, MonitorInv, HolderInv, Critical, Adding
<1>4. IdInv'
  BY EntryFacts, NullAssumption DEF AddNativeHook, Goto, Begin, Finish, regVars, apiVars, locals, TypeOK, MonitorInv, IdInv, Adding, Critical
<1>5. OrderInv'
  BY OrderedEmpty, NullAssumption DEF AddNativeHook, Goto, Begin, Finish, regVars, apiVars, locals, TypeOK, MonitorInv, OrderInv
<1>6. ActiveInv'
  BY NullAssumption DEF AddNativeHook, Goto, Begin, Finish, regVars, apiVars, locals, TypeOK, MonitorInv, HolderInv, IdInv, ActiveInv, ActiveStaysRegistered, ActiveOn, Critical, Adding
<1>7. CallInv'
  <2>1. ASSUME NEW u \in Threads, must[u] # {} PROVE mem[u] # mem[t]
    <3>1. owner[mem[t]] = t /\ pc[t] = "addNative" /\ t # Null
      BY NullAssumption DEF AddNativeHook, MonitorInv, Critical, Adding
    <3> QED  BY <2>1, <3>1, StableMember
  <2> QED  BY <2>1, StableMember DEF AddNativeHook, Goto, Begin, Finish, regVars, apiVars, locals, TypeOK, CallInv
<1> QED  BY <1>1, <1>2, <1>3, <1>4, <1>5, <1>6, <1>7

\* AddNativeFail preserves the invariant.
LEMMA AddNativeFailInv ==
    ASSUME IInv, NEW t \in Threads, AddNativeFail(t)
    PROVE  IInv'
<1> USE DEF IInv
<1>1. TypeOK'
  BY EntryFacts, NullAssumption DEF AddNativeFail, Goto, Begin, Finish, regVars, apiVars, locals, TypeOK, MonitorInv, Labels
<1>2. MonitorInv'
  BY NullAssumption DEF AddNativeFail, Goto, Begin, Finish, regVars, apiVars, locals, TypeOK, MonitorInv, Critical, Adding
<1>3. HolderInv'
  BY NullAssumption DEF AddNativeFail, Goto, Begin, Finish, regVars, apiVars, locals, TypeOK, MonitorInv, HolderInv, Critical, Adding
<1>4. IdInv'
  BY EntryFacts, NullAssumption DEF AddNativeFail, Goto, Begin, Finish, regVars, apiVars, locals, TypeOK, MonitorInv, IdInv, Adding, Critical
<1>5. OrderInv'
  BY OrderedEmpty, NullAssumption DEF AddNativeFail, Goto, Begin, Finish, regVars, apiVars, locals, TypeOK, MonitorInv, OrderInv
<1>6. ActiveInv'
  BY NullAssumption DEF AddNativeFail, Goto, Begin, Finish, regVars, apiVars, locals, TypeOK, MonitorInv, HolderInv, IdInv, ActiveInv, ActiveStaysRegistered, ActiveOn, Critical, Adding
<1>7. CallInv'
  BY StableMember, NullAssumption DEF AddNativeFail, Goto, Begin, Finish, regVars, apiVars, locals, TypeOK, CallInv, MonitorInv
<1> QED  BY <1>1, <1>2, <1>3, <1>4, <1>5, <1>6, <1>7

\* AddSetBackup preserves the invariant.
LEMMA AddSetBackupInv ==
    ASSUME IInv, NEW t \in Threads, AddSetBackup(t)
    PROVE  IInv'
<1> USE DEF IInv
<1>1. TypeOK'
  BY EntryFacts, NullAssumption DEF AddSetBackup, Goto, Begin, Finish, regVars, apiVars, locals, TypeOK, MonitorInv, Labels
<1>2. MonitorInv'
  BY NullAssumption DEF AddSetBackup, Goto, Begin, Finish, regVars, apiVars, locals, TypeOK, MonitorInv, Critical, Adding
<1>3. HolderInv'
  BY NullAssumption DEF AddSetBackup, Goto, Begin, Finish, regVars, apiVars, locals, TypeOK, MonitorInv, HolderInv, Critical, Adding
<1>4. IdInv'
  BY EntryFacts, NullAssumption DEF AddSetBackup, Goto, Begin, Finish, regVars, apiVars, locals, TypeOK, MonitorInv, IdInv, Adding, Critical
<1>5. OrderInv'
  BY OrderedEmpty, NullAssumption DEF AddSetBackup, Goto, Begin, Finish, regVars, apiVars, locals, TypeOK, MonitorInv, OrderInv
<1>6. ActiveInv'
  BY NullAssumption DEF AddSetBackup, Goto, Begin, Finish, regVars, apiVars, locals, TypeOK, MonitorInv, HolderInv, IdInv, ActiveInv, ActiveStaysRegistered, ActiveOn, Critical, Adding
<1>7. CallInv'
  BY StableMember, NullAssumption DEF AddSetBackup, Goto, Begin, Finish, regVars, apiVars, locals, TypeOK, CallInv, MonitorInv
<1> QED  BY <1>1, <1>2, <1>3, <1>4, <1>5, <1>6, <1>7

\* AddSetToken preserves the invariant.
LEMMA AddSetTokenInv ==
    ASSUME IInv, NEW t \in Threads, AddSetToken(t)
    PROVE  IInv'
<1> USE DEF IInv
<1>1. TypeOK'
  BY EntryFacts, NullAssumption DEF AddSetToken, Goto, Begin, Finish, regVars, apiVars, locals, TypeOK, MonitorInv, Labels
<1>2. MonitorInv'
  BY NullAssumption DEF AddSetToken, Goto, Begin, Finish, regVars, apiVars, locals, TypeOK, MonitorInv, Critical, Adding
<1>3. HolderInv'
  <2>1. /\ mem[t] \in Members /\ owner[mem[t]] = t /\ t # Null
        /\ pc[t] = "addToken" /\ ent[t].id \in Nat
    BY EntryFacts, NullAssumption DEF AddSetToken, TypeOK, MonitorInv, Critical, Adding
  <2>2. code[mem[t]] = ent[t].id /\ ent[t].id \in backupSet /\ ent[t].id # Null
    BY <2>1, NullAssumption DEF HolderInv
  <2> QED
    BY <2>1, <2>2 DEF AddSetToken, Goto, Begin, Finish, regVars, apiVars, locals, TypeOK, MonitorInv, HolderInv, Critical, Adding
<1>4. IdInv'
  BY EntryFacts, NullAssumption DEF AddSetToken, Goto, Begin, Finish, regVars, apiVars, locals, TypeOK, MonitorInv, IdInv, Adding, Critical
<1>5. OrderInv'
  BY OrderedEmpty, NullAssumption DEF AddSetToken, Goto, Begin, Finish, regVars, apiVars, locals, TypeOK, MonitorInv, OrderInv
<1>6. ActiveInv'
  BY NullAssumption DEF AddSetToken, Goto, Begin, Finish, regVars, apiVars, locals, TypeOK, MonitorInv, HolderInv, IdInv, ActiveInv, ActiveStaysRegistered, ActiveOn, Critical, Adding
<1>7. CallInv'
  BY StableMember, NullAssumption DEF AddSetToken, Goto, Begin, Finish, regVars, apiVars, locals, TypeOK, CallInv, MonitorInv
<1> QED  BY <1>1, <1>2, <1>3, <1>4, <1>5, <1>6, <1>7

\* AddInsert preserves the invariant.
LEMMA AddInsertInv ==
    ASSUME IInv, NEW t \in Threads, AddInsert(t)
    PROVE  IInv'
<1> USE DEF IInv
<1> DEFINE m == mem[t]
           r == SortedInsert(entries[m], ent[t])
<1>a. m \in Members /\ owner[m] = t /\ ent[t] \in Entry /\ ent[t].mem = m
  BY DEF AddInsert, MonitorInv, IdInv, Adding, Critical
<1>b. entries[m] \in Seq(Entry) /\ Ordered(entries[m])
  BY <1>a DEF TypeOK, OrderInv
<1>c. /\ r \in Seq(Entry) /\ r # << >> /\ Ordered(r)
      /\ ToSet(r) = ToSet(entries[m]) \cup {ent[t]}
  <2>1. \A i \in DOMAIN entries[m] : entries[m][i].id < ent[t].id
    BY DEF AddInsert, IdInv, Adding
  <2> QED  BY <1>a, <1>b, <2>1, SortedInsertProps
<1>d. entries' = [entries EXCEPT ![m] = r]
  BY DEF AddInsert
<1> HIDE DEF m, r
<1>e. m = mem[t]
  BY DEF m
<1>1. TypeOK'
  BY <1>a, <1>b, <1>c, <1>d, <1>e, EntryFacts, NullAssumption DEF AddInsert, Finish, apiVars, TypeOK, Labels
<1>2. MonitorInv'
  BY NullAssumption DEF AddInsert, Goto, Begin, Finish, regVars, apiVars, locals, TypeOK, MonitorInv, Critical, Adding
<1>3. HolderInv'
  BY <1>a, <1>b, <1>c, <1>d, <1>e, NullAssumption DEF AddInsert, Finish, TypeOK, MonitorInv, HolderInv, Critical, Adding
<1>4. IdInv'
  <2>1. \A i \in DOMAIN r : r[i].id < nextId
    <3>1. \A x \in ToSet(entries[m]) \cup {ent[t]} : x.id < nextId
      BY <1>a, <1>e DEF AddInsert, ToSet, IdInv, Adding
    <3> QED  BY <3>1, <1>c DEF ToSet
  <2>2. \A u \in Threads : pc[u] \in Adding /\ u # t => mem[u] # m
    BY <1>a DEF MonitorInv, Critical
  <2>3. pc[t] \in Adding
    BY DEF AddInsert, Adding
  <2> QED
    BY <1>a, <1>d, <1>e, <2>1, <2>2, <2>3 DEF AddInsert, Finish, TypeOK, MonitorInv, IdInv, Adding
<1>5. OrderInv'
  BY <1>a, <1>b, <1>c, <1>d, <1>e, OrderedEmpty DEF AddInsert, Finish, TypeOK, OrderInv
<1>6. ActiveInv'
  BY <1>a, <1>b, <1>c, <1>d, <1>e DEF AddInsert, Finish, TypeOK, MonitorInv, ActiveInv, ActiveStaysRegistered, ActiveOn
<1>7. CallInv'
  BY StableMember, NullAssumption DEF AddInsert, Goto, Begin, Finish, regVars, apiVars, locals, TypeOK, CallInv, MonitorInv
<1> QED  BY <1>1, <1>2, <1>3, <1>4, <1>5, <1>6, <1>7

\* UnhookKeep preserves the invariant.
LEMMA UnhookKeepInv ==
    ASSUME IInv, NEW t \in Threads, UnhookKeep(t)
    PROVE  IInv'
<1> USE DEF IInv
<1> DEFINE m == mem[t]
           r == RemoveEntry(entries[m], ent[t])
<1>a. /\ m \in Members /\ owner[m] = Null /\ ent[t] \notin active
  BY DEF UnhookKeep, MonitorInv, IdInv
<1>b. entries[m] \in Seq(Entry) /\ Ordered(entries[m])
  BY <1>a DEF TypeOK, OrderInv
<1>c. /\ r \in Seq(Entry) /\ Ordered(r)
      /\ \A x \in ToSet(entries[m]) : x # ent[t] => x \in ToSet(r)
      /\ ToSet(r) \subseteq ToSet(entries[m])
  BY <1>b, RemoveEntryProps
<1>d. entries' = [entries EXCEPT ![m] = r] /\ r # << >> /\ entries[m] # << >>
  <2>1. entries' = [entries EXCEPT ![m] = r] /\ r # << >>
    BY DEF UnhookKeep
  <2>2. CASE entries[m] = << >>
    BY <2>1, <2>2 DEF RemoveEntry
  <2> QED  BY <2>1, <2>2
<1> HIDE DEF m, r
<1>e. m = mem[t]
  BY DEF m
<1>1. TypeOK'
  BY <1>a, <1>b, <1>c, <1>d, <1>e, EntryFacts, NullAssumption DEF UnhookKeep, Finish, apiVars, TypeOK, Labels
<1>2. MonitorInv'
  BY NullAssumption DEF UnhookKeep, Goto, Begin, Finish, regVars, apiVars, locals, TypeOK, MonitorInv, Critical, Adding
<1>3. HolderInv'
  BY <1>a, <1>b, <1>c, <1>d, <1>e, NullAssumption DEF UnhookKeep, Finish, TypeOK, MonitorInv, HolderInv, Critical, Adding
<1>4. IdInv'
  <2>1. \A i \in DOMAIN r : r[i] \in ToSet(entries[m])
    BY <1>c DEF ToSet
  <2>2. \A i \in DOMAIN r : r[i].id < nextId
    BY <2>1, <1>a DEF ToSet, IdInv
  <2>3. \A u \in Threads : pc[u] \in Adding => mem[u] # m
    BY <1>a, NullAssumption DEF MonitorInv, Critical
  <2> QED
    BY <1>a, <1>d, <1>e, <2>2, <2>3 DEF UnhookKeep, Finish, apiVars, TypeOK, MonitorInv, IdInv, Adding
<1>5. OrderInv'
  BY <1>a, <1>b, <1>c, <1>d, <1>e, OrderedEmpty DEF UnhookKeep, Finish, TypeOK, OrderInv
<1>6. ActiveInv'
  BY <1>a, <1>b, <1>c, <1>d, <1>e DEF UnhookKeep, Finish, apiVars, TypeOK, MonitorInv, ActiveInv, ActiveStaysRegistered, ActiveOn
<1>7. CallInv'
  BY StableMember, NullAssumption DEF UnhookKeep, Goto, Begin, Finish, regVars, apiVars, locals, TypeOK, CallInv, MonitorInv
<1> QED  BY <1>1, <1>2, <1>3, <1>4, <1>5, <1>6, <1>7

\* UnhookEmpty preserves the invariant.
LEMMA UnhookEmptyInv ==
    ASSUME IInv, NEW t \in Threads, UnhookEmpty(t)
    PROVE  IInv'
<1> USE DEF IInv
<1>1. TypeOK'
  BY EntryFacts, NullAssumption DEF UnhookEmpty, Goto, Begin, Finish, regVars, apiVars, locals, TypeOK, MonitorInv, Labels
<1>2. MonitorInv'
  BY NullAssumption DEF UnhookEmpty, Goto, Begin, Finish, regVars, apiVars, locals, TypeOK, MonitorInv, Critical, Adding
<1>3. HolderInv'
  BY NullAssumption DEF UnhookEmpty, Goto, Begin, Finish, regVars, apiVars, locals, TypeOK, MonitorInv, HolderInv, Critical, Adding
<1>4. IdInv'
  BY EntryFacts, NullAssumption DEF UnhookEmpty, Goto, Begin, Finish, regVars, apiVars, locals, TypeOK, MonitorInv, IdInv, Adding, Critical
<1>5. OrderInv'
  BY OrderedEmpty, NullAssumption DEF UnhookEmpty, Goto, Begin, Finish, regVars, apiVars, locals, TypeOK, MonitorInv, OrderInv
<1>6. ActiveInv'
  <2>1. \A e \in active : e.mem # mem[t]
    <3>1. mem[t] \in Members /\ ent[t] \notin active
      BY DEF UnhookEmpty, MonitorInv, IdInv
    <3>2. \A x \in ToSet(entries[mem[t]]) : x # ent[t] => x \in ToSet(<< >>)
      BY <3>1, RemoveEntryProps DEF UnhookEmpty, TypeOK, OrderInv
    <3>3. ToSet(<< >>) = {}
      BY DEF ToSet
    <3> QED  BY <3>1, <3>2, <3>3 DEF ActiveInv, ActiveStaysRegistered
  <2> QED
    BY <2>1 DEF UnhookEmpty, Goto, Begin, Finish, regVars, apiVars, locals, TypeOK, MonitorInv, ActiveInv, ActiveStaysRegistered, ActiveOn
<1>7. CallInv'
  BY StableMember, NullAssumption DEF UnhookEmpty, Goto, Begin, Finish, regVars, apiVars, locals, TypeOK, CallInv, MonitorInv
<1> QED  BY <1>1, <1>2, <1>3, <1>4, <1>5, <1>6, <1>7

\* UnhookNative preserves the invariant.
LEMMA UnhookNativeInv ==
    ASSUME IInv, NEW t \in Threads, UnhookNative(t)
    PROVE  IInv'
<1> USE DEF IInv
<1>1. TypeOK'
  BY EntryFacts, NullAssumption DEF UnhookNative, Goto, Begin, Finish, regVars, apiVars, locals, TypeOK, MonitorInv, Labels
<1>2. MonitorInv'
  BY NullAssumption DEF UnhookNative, Goto, Begin, Finish, regVars, apiVars, locals, TypeOK, MonitorInv, Critical, Adding
<1>3. HolderInv'
  BY NullAssumption DEF UnhookNative, Goto, Begin, Finish, regVars, apiVars, locals, TypeOK, MonitorInv, HolderInv, Critical, Adding
<1>4. IdInv'
  BY EntryFacts, NullAssumption DEF UnhookNative, Goto, Begin, Finish, regVars, apiVars, locals, TypeOK, MonitorInv, IdInv, Adding, Critical
<1>5. OrderInv'
  BY OrderedEmpty, NullAssumption DEF UnhookNative, Goto, Begin, Finish, regVars, apiVars, locals, TypeOK, MonitorInv, OrderInv
<1>6. ActiveInv'
  BY NullAssumption DEF UnhookNative, Goto, Begin, Finish, regVars, apiVars, locals, TypeOK, MonitorInv, HolderInv, IdInv, ActiveInv, ActiveStaysRegistered, ActiveOn, Critical, Adding
<1>7. CallInv'
  <2>1. ASSUME NEW u \in Threads, must[u] # {} PROVE mem[u] # mem[t]
    <3>1. owner[mem[t]] = t /\ pc[t] = "unhookNative" /\ t # Null
      BY NullAssumption DEF UnhookNative, MonitorInv, Critical, Adding
    <3> QED  BY <2>1, <3>1, StableMember
  <2> QED  BY <2>1, StableMember DEF UnhookNative, Goto, Begin, Finish, regVars, apiVars, locals, TypeOK, CallInv
<1> QED  BY <1>1, <1>2, <1>3, <1>4, <1>5, <1>6, <1>7

\* UnhookToken preserves the invariant.
LEMMA UnhookTokenInv ==
    ASSUME IInv, NEW t \in Threads, UnhookToken(t)
    PROVE  IInv'
<1> USE DEF IInv
<1>1. TypeOK'
  BY EntryFacts, NullAssumption DEF UnhookToken, Goto, Begin, Finish, regVars, apiVars, locals, TypeOK, MonitorInv, Labels
<1>2. MonitorInv'
  BY NullAssumption DEF UnhookToken, Goto, Begin, Finish, regVars, apiVars, locals, TypeOK, MonitorInv, Critical, Adding
<1>3. HolderInv'
  BY NullAssumption DEF UnhookToken, Goto, Begin, Finish, regVars, apiVars, locals, TypeOK, MonitorInv, HolderInv, Critical, Adding
<1>4. IdInv'
  BY EntryFacts, NullAssumption DEF UnhookToken, Goto, Begin, Finish, regVars, apiVars, locals, TypeOK, MonitorInv, IdInv, Adding, Critical
<1>5. OrderInv'
  BY OrderedEmpty, NullAssumption DEF UnhookToken, Goto, Begin, Finish, regVars, apiVars, locals, TypeOK, MonitorInv, OrderInv
<1>6. ActiveInv'
  BY NullAssumption DEF UnhookToken, Goto, Begin, Finish, regVars, apiVars, locals, TypeOK, MonitorInv, HolderInv, IdInv, ActiveInv, ActiveStaysRegistered, ActiveOn, Critical, Adding
<1>7. CallInv'
  BY StableMember, NullAssumption DEF UnhookToken, Goto, Begin, Finish, regVars, apiVars, locals, TypeOK, CallInv, MonitorInv
<1> QED  BY <1>1, <1>2, <1>3, <1>4, <1>5, <1>6, <1>7

\* Callback preserves the invariant.
LEMMA CallbackInv ==
    ASSUME IInv, NEW t \in Threads, Callback(t)
    PROVE  IInv'
<1> USE DEF IInv
<1>1. TypeOK'
  BY EntryFacts, NullAssumption DEF Callback, Goto, Begin, Finish, regVars, apiVars, locals, TypeOK, MonitorInv, Labels
<1>2. MonitorInv'
  BY NullAssumption DEF Callback, Goto, Begin, Finish, regVars, apiVars, locals, TypeOK, MonitorInv, Critical, Adding
<1>3. HolderInv'
  BY NullAssumption DEF Callback, Goto, Begin, Finish, regVars, apiVars, locals, TypeOK, MonitorInv, HolderInv, Critical, Adding
<1>4. IdInv'
  BY EntryFacts, NullAssumption DEF Callback, Goto, Begin, Finish, regVars, apiVars, locals, TypeOK, MonitorInv, IdInv, Adding, Critical
<1>5. OrderInv'
  BY OrderedEmpty, NullAssumption DEF Callback, Goto, Begin, Finish, regVars, apiVars, locals, TypeOK, MonitorInv, OrderInv
<1>6. ActiveInv'
  BY NullAssumption DEF Callback, Goto, Begin, Finish, regVars, apiVars, locals, TypeOK, MonitorInv, HolderInv, IdInv, ActiveInv, ActiveStaysRegistered, ActiveOn, Critical, Adding
<1>7. CallInv'
  <2>1. pc[t] = "callback" /\ pc' = [pc EXCEPT ![t] = IF tok[t] \in backupSet THEN "copy" ELSE "backupNotSet"]
    BY DEF Callback, Goto
  <2>2. must[t] # {} => tok[t] = code[mem[t]] /\ tok[t] \in backupSet
    BY <2>1, StableMember DEF CallInv
  <2> QED  BY <2>1, <2>2 DEF Callback, Goto, Begin, Finish, regVars, apiVars, locals, TypeOK, CallInv
<1> QED  BY <1>1, <1>2, <1>3, <1>4, <1>5, <1>6, <1>7

\* DispatchCopy preserves the invariant.
LEMMA DispatchCopyInv ==
    ASSUME IInv, NEW t \in Threads, DispatchCopy(t)
    PROVE  IInv'
<1> USE DEF IInv
<1>1. TypeOK'
  BY EntryFacts, NullAssumption DEF DispatchCopy, Goto, Begin, Finish, regVars, apiVars, locals, TypeOK, MonitorInv, Labels
<1>2. MonitorInv'
  BY NullAssumption DEF DispatchCopy, Goto, Begin, Finish, regVars, apiVars, locals, TypeOK, MonitorInv, Critical, Adding
<1>3. HolderInv'
  BY NullAssumption DEF DispatchCopy, Goto, Begin, Finish, regVars, apiVars, locals, TypeOK, MonitorInv, HolderInv, Critical, Adding
<1>4. IdInv'
  BY EntryFacts, NullAssumption DEF DispatchCopy, Goto, Begin, Finish, regVars, apiVars, locals, TypeOK, MonitorInv, IdInv, Adding, Critical
<1>5. OrderInv'
  BY OrderedEmpty, NullAssumption DEF DispatchCopy, Goto, Begin, Finish, regVars, apiVars, locals, TypeOK, MonitorInv, OrderInv
<1>6. ActiveInv'
  BY NullAssumption DEF DispatchCopy, Goto, Begin, Finish, regVars, apiVars, locals, TypeOK, MonitorInv, HolderInv, IdInv, ActiveInv, ActiveStaysRegistered, ActiveOn, Critical, Adding
<1>7. CallInv'
  <2>1. must[t] \subseteq ToSet(entries[mem[t]])
    BY DEF ActiveInv, ActiveStaysRegistered, ActiveOn
  <2>2. must[t] # {} => tok[t] = code[mem[t]]
    BY DEF DispatchCopy, CallInv
  <2> QED  BY <2>1, <2>2 DEF DispatchCopy, Goto, Begin, Finish, regVars, apiVars, locals, TypeOK, CallInv
<1> QED  BY <1>1, <1>2, <1>3, <1>4, <1>5, <1>6, <1>7

\* DispatchSkip preserves the invariant.
LEMMA DispatchSkipInv ==
    ASSUME IInv, NEW t \in Threads, DispatchSkip(t)
    PROVE  IInv'
<1> USE DEF IInv
<1>1. TypeOK'
  BY EntryFacts, NullAssumption DEF DispatchSkip, Goto, Begin, Finish, regVars, apiVars, locals, TypeOK, MonitorInv, Labels
<1>2. MonitorInv'
  BY NullAssumption DEF DispatchSkip, Goto, Begin, Finish, regVars, apiVars, locals, TypeOK, MonitorInv, Critical, Adding
<1>3. HolderInv'
  BY NullAssumption DEF DispatchSkip, Goto, Begin, Finish, regVars, apiVars, locals, TypeOK, MonitorInv, HolderInv, Critical, Adding
<1>4. IdInv'
  BY EntryFacts, NullAssumption DEF DispatchSkip, Goto, Begin, Finish, regVars, apiVars, locals, TypeOK, MonitorInv, IdInv, Adding, Critical
<1>5. OrderInv'
  BY OrderedEmpty, NullAssumption DEF DispatchSkip, Goto, Begin, Finish, regVars, apiVars, locals, TypeOK, MonitorInv, OrderInv
<1>6. ActiveInv'
  BY NullAssumption DEF DispatchSkip, Goto, Begin, Finish, regVars, apiVars, locals, TypeOK, MonitorInv, HolderInv, IdInv, ActiveInv, ActiveStaysRegistered, ActiveOn, Critical, Adding
<1>7. CallInv'
  BY StableMember, NullAssumption DEF DispatchSkip, Goto, Begin, Finish, regVars, apiVars, locals, TypeOK, CallInv, MonitorInv
<1> QED  BY <1>1, <1>2, <1>3, <1>4, <1>5, <1>6, <1>7

\* DispatchInvoke preserves the invariant.
LEMMA DispatchInvokeInv ==
    ASSUME IInv, NEW t \in Threads, DispatchInvoke(t)
    PROVE  IInv'
<1> USE DEF IInv
<1>1. TypeOK'
  BY EntryFacts, NullAssumption DEF DispatchInvoke, Goto, Begin, Finish, regVars, apiVars, locals, BackupState, TypeOK, MonitorInv, Labels
<1>2. MonitorInv'
  BY NullAssumption DEF DispatchInvoke, Goto, Begin, Finish, regVars, apiVars, locals, BackupState, TypeOK, MonitorInv, Critical, Adding
<1>3. HolderInv'
  BY NullAssumption DEF DispatchInvoke, Goto, Begin, Finish, regVars, apiVars, locals, BackupState, TypeOK, MonitorInv, HolderInv, Critical, Adding
<1>4. IdInv'
  BY EntryFacts, NullAssumption DEF DispatchInvoke, Goto, Begin, Finish, regVars, apiVars, locals, BackupState, TypeOK, MonitorInv, IdInv, Adding, Critical
<1>5. OrderInv'
  BY OrderedEmpty, NullAssumption DEF DispatchInvoke, Goto, Begin, Finish, regVars, apiVars, locals, BackupState, TypeOK, MonitorInv, OrderInv
<1>6. ActiveInv'
  BY NullAssumption DEF DispatchInvoke, Goto, Begin, Finish, regVars, apiVars, locals, BackupState, TypeOK, MonitorInv, HolderInv, IdInv, ActiveInv, ActiveStaysRegistered, ActiveOn, Critical, Adding
<1>7. CallInv'
  BY StableMember, NullAssumption DEF DispatchInvoke, Goto, Begin, Finish, regVars, apiVars, locals, BackupState, TypeOK, CallInv, MonitorInv
<1> QED  BY <1>1, <1>2, <1>3, <1>4, <1>5, <1>6, <1>7

\* InvokeTestToken preserves the invariant.
LEMMA InvokeTestTokenInv ==
    ASSUME IInv, NEW t \in Threads, InvokeTestToken(t)
    PROVE  IInv'
<1> USE DEF IInv
<1>1. TypeOK'
  BY EntryFacts, NullAssumption DEF InvokeTestToken, Goto, Begin, Finish, regVars, apiVars, locals, TypeOK, MonitorInv, Labels
<1>2. MonitorInv'
  BY NullAssumption DEF InvokeTestToken, Goto, Begin, Finish, regVars, apiVars, locals, TypeOK, MonitorInv, Critical, Adding
<1>3. HolderInv'
  BY NullAssumption DEF InvokeTestToken, Goto, Begin, Finish, regVars, apiVars, locals, TypeOK, MonitorInv, HolderInv, Critical, Adding
<1>4. IdInv'
  BY EntryFacts, NullAssumption DEF InvokeTestToken, Goto, Begin, Finish, regVars, apiVars, locals, TypeOK, MonitorInv, IdInv, Adding, Critical
<1>5. OrderInv'
  BY OrderedEmpty, NullAssumption DEF InvokeTestToken, Goto, Begin, Finish, regVars, apiVars, locals, TypeOK, MonitorInv, OrderInv
<1>6. ActiveInv'
  BY NullAssumption DEF InvokeTestToken, Goto, Begin, Finish, regVars, apiVars, locals, TypeOK, MonitorInv, HolderInv, IdInv, ActiveInv, ActiveStaysRegistered, ActiveOn, Critical, Adding
<1>7. CallInv'
  BY StableMember, NullAssumption DEF InvokeTestToken, Goto, Begin, Finish, regVars, apiVars, locals, TypeOK, CallInv, MonitorInv
<1> QED  BY <1>1, <1>2, <1>3, <1>4, <1>5, <1>6, <1>7

\* InvokeTestBackup preserves the invariant.
LEMMA InvokeTestBackupInv ==
    ASSUME IInv, NEW t \in Threads, InvokeTestBackup(t)
    PROVE  IInv'
<1> USE DEF IInv
<1>1. TypeOK'
  BY EntryFacts, NullAssumption DEF InvokeTestBackup, Goto, Begin, Finish, regVars, apiVars, locals, TypeOK, MonitorInv, Labels
<1>2. MonitorInv'
  BY NullAssumption DEF InvokeTestBackup, Goto, Begin, Finish, regVars, apiVars, locals, TypeOK, MonitorInv, Critical, Adding
<1>3. HolderInv'
  BY NullAssumption DEF InvokeTestBackup, Goto, Begin, Finish, regVars, apiVars, locals, TypeOK, MonitorInv, HolderInv, Critical, Adding
<1>4. IdInv'
  BY EntryFacts, NullAssumption DEF InvokeTestBackup, Goto, Begin, Finish, regVars, apiVars, locals, TypeOK, MonitorInv, IdInv, Adding, Critical
<1>5. OrderInv'
  BY OrderedEmpty, NullAssumption DEF InvokeTestBackup, Goto, Begin, Finish, regVars, apiVars, locals, TypeOK, MonitorInv, OrderInv
<1>6. ActiveInv'
  BY NullAssumption DEF InvokeTestBackup, Goto, Begin, Finish, regVars, apiVars, locals, TypeOK, MonitorInv, HolderInv, IdInv, ActiveInv, ActiveStaysRegistered, ActiveOn, Critical, Adding
<1>7. CallInv'
  BY StableMember, NullAssumption DEF InvokeTestBackup, Goto, Begin, Finish, regVars, apiVars, locals, TypeOK, CallInv, MonitorInv
<1> QED  BY <1>1, <1>2, <1>3, <1>4, <1>5, <1>6, <1>7

\* InvokeLoad preserves the invariant.
LEMMA InvokeLoadInv ==
    ASSUME IInv, NEW t \in Threads, InvokeLoad(t)
    PROVE  IInv'
<1> USE DEF IInv
<1>1. TypeOK'
  BY EntryFacts, NullAssumption DEF InvokeLoad, Goto, Begin, Finish, regVars, apiVars, locals, TypeOK, MonitorInv, Labels
<1>2. MonitorInv'
  BY NullAssumption DEF InvokeLoad, Goto, Begin, Finish, regVars, apiVars, locals, TypeOK, MonitorInv, Critical, Adding
<1>3. HolderInv'
  BY NullAssumption DEF InvokeLoad, Goto, Begin, Finish, regVars, apiVars, locals, TypeOK, MonitorInv, HolderInv, Critical, Adding
<1>4. IdInv'
  BY EntryFacts, NullAssumption DEF InvokeLoad, Goto, Begin, Finish, regVars, apiVars, locals, TypeOK, MonitorInv, IdInv, Adding, Critical
<1>5. OrderInv'
  BY OrderedEmpty, NullAssumption DEF InvokeLoad, Goto, Begin, Finish, regVars, apiVars, locals, TypeOK, MonitorInv, OrderInv
<1>6. ActiveInv'
  BY NullAssumption DEF InvokeLoad, Goto, Begin, Finish, regVars, apiVars, locals, TypeOK, MonitorInv, HolderInv, IdInv, ActiveInv, ActiveStaysRegistered, ActiveOn, Critical, Adding
<1>7. CallInv'
  BY StableMember, NullAssumption DEF InvokeLoad, Goto, Begin, Finish, regVars, apiVars, locals, TypeOK, CallInv, MonitorInv
<1> QED  BY <1>1, <1>2, <1>3, <1>4, <1>5, <1>6, <1>7

\* InvokeBackup preserves the invariant.
LEMMA InvokeBackupInv ==
    ASSUME IInv, NEW t \in Threads, InvokeBackup(t)
    PROVE  IInv'
<1> USE DEF IInv
<1>1. TypeOK'
  BY EntryFacts, NullAssumption DEF InvokeBackup, Goto, Begin, Finish, regVars, apiVars, locals, BackupState, TypeOK, MonitorInv, Labels
<1>2. MonitorInv'
  BY NullAssumption DEF InvokeBackup, Goto, Begin, Finish, regVars, apiVars, locals, BackupState, TypeOK, MonitorInv, Critical, Adding
<1>3. HolderInv'
  BY NullAssumption DEF InvokeBackup, Goto, Begin, Finish, regVars, apiVars, locals, BackupState, TypeOK, MonitorInv, HolderInv, Critical, Adding
<1>4. IdInv'
  BY EntryFacts, NullAssumption DEF InvokeBackup, Goto, Begin, Finish, regVars, apiVars, locals, BackupState, TypeOK, MonitorInv, IdInv, Adding, Critical
<1>5. OrderInv'
  BY OrderedEmpty, NullAssumption DEF InvokeBackup, Goto, Begin, Finish, regVars, apiVars, locals, BackupState, TypeOK, MonitorInv, OrderInv
<1>6. ActiveInv'
  BY NullAssumption DEF InvokeBackup, Goto, Begin, Finish, regVars, apiVars, locals, BackupState, TypeOK, MonitorInv, HolderInv, IdInv, ActiveInv, ActiveStaysRegistered, ActiveOn, Critical, Adding
<1>7. CallInv'
  BY StableMember, NullAssumption DEF InvokeBackup, Goto, Begin, Finish, regVars, apiVars, locals, BackupState, TypeOK, CallInv, MonitorInv
<1> QED  BY <1>1, <1>2, <1>3, <1>4, <1>5, <1>6, <1>7

\* InvokeReflect preserves the invariant.
LEMMA InvokeReflectInv ==
    ASSUME IInv, NEW t \in Threads, InvokeReflect(t)
    PROVE  IInv'
<1> USE DEF IInv
<1>1. TypeOK'
  BY EntryFacts, NullAssumption DEF InvokeReflect, Goto, Begin, Finish, regVars, apiVars, locals, TypeOK, MonitorInv, Labels
<1>2. MonitorInv'
  BY NullAssumption DEF InvokeReflect, Goto, Begin, Finish, regVars, apiVars, locals, TypeOK, MonitorInv, Critical, Adding
<1>3. HolderInv'
  BY NullAssumption DEF InvokeReflect, Goto, Begin, Finish, regVars, apiVars, locals, TypeOK, MonitorInv, HolderInv, Critical, Adding
<1>4. IdInv'
  BY EntryFacts, NullAssumption DEF InvokeReflect, Goto, Begin, Finish, regVars, apiVars, locals, TypeOK, MonitorInv, IdInv, Adding, Critical
<1>5. OrderInv'
  BY OrderedEmpty, NullAssumption DEF InvokeReflect, Goto, Begin, Finish, regVars, apiVars, locals, TypeOK, MonitorInv, OrderInv
<1>6. ActiveInv'
  BY NullAssumption DEF InvokeReflect, Goto, Begin, Finish, regVars, apiVars, locals, TypeOK, MonitorInv, HolderInv, IdInv, ActiveInv, ActiveStaysRegistered, ActiveOn, Critical, Adding
<1>7. CallInv'
  BY StableMember, NullAssumption DEF InvokeReflect, Goto, Begin, Finish, regVars, apiVars, locals, TypeOK, CallInv, MonitorInv
<1> QED  BY <1>1, <1>2, <1>3, <1>4, <1>5, <1>6, <1>7

\* Return preserves the invariant.
LEMMA ReturnInv ==
    ASSUME IInv, NEW t \in Threads, Return(t)
    PROVE  IInv'
<1> USE DEF IInv
<1>1. TypeOK'
  BY EntryFacts, NullAssumption DEF Return, Goto, Begin, Finish, regVars, apiVars, locals, TypeOK, MonitorInv, Labels
<1>2. MonitorInv'
  BY NullAssumption DEF Return, Goto, Begin, Finish, regVars, apiVars, locals, TypeOK, MonitorInv, Critical, Adding
<1>3. HolderInv'
  BY NullAssumption DEF Return, Goto, Begin, Finish, regVars, apiVars, locals, TypeOK, MonitorInv, HolderInv, Critical, Adding
<1>4. IdInv'
  BY EntryFacts, NullAssumption DEF Return, Goto, Begin, Finish, regVars, apiVars, locals, TypeOK, MonitorInv, IdInv, Adding, Critical
<1>5. OrderInv'
  BY OrderedEmpty, NullAssumption DEF Return, Goto, Begin, Finish, regVars, apiVars, locals, TypeOK, MonitorInv, OrderInv
<1>6. ActiveInv'
  BY NullAssumption DEF Return, Goto, Begin, Finish, regVars, apiVars, locals, TypeOK, MonitorInv, HolderInv, IdInv, ActiveInv, ActiveStaysRegistered, ActiveOn, Critical, Adding
<1>7. CallInv'
  BY StableMember, NullAssumption DEF Return, Goto, Begin, Finish, regVars, apiVars, locals, TypeOK, CallInv, MonitorInv
<1> QED  BY <1>1, <1>2, <1>3, <1>4, <1>5, <1>6, <1>7

\* AddCall preserves the invariant.
LEMMA AddCallInv ==
    ASSUME IInv, NEW t \in Threads, NEW m \in Members, NEW p \in Priorities, AddCall(t, m, p)
    PROVE  IInv'
<1> USE DEF IInv
<1>1. TypeOK'
  BY EntryFacts, NullAssumption DEF AddCall, Goto, Begin, Finish, regVars, apiVars, locals, TypeOK, MonitorInv, Labels
<1>2. MonitorInv'
  BY NullAssumption DEF AddCall, Goto, Begin, Finish, regVars, apiVars, locals, TypeOK, MonitorInv, Critical, Adding
<1>3. HolderInv'
  BY NullAssumption DEF AddCall, Goto, Begin, Finish, regVars, apiVars, locals, TypeOK, MonitorInv, HolderInv, Critical, Adding
<1>4. IdInv'
  BY EntryFacts, NullAssumption DEF AddCall, Goto, Begin, Finish, regVars, apiVars, locals, TypeOK, MonitorInv, IdInv, Adding, Critical
<1>5. OrderInv'
  BY OrderedEmpty, NullAssumption DEF AddCall, Goto, Begin, Finish, regVars, apiVars, locals, TypeOK, MonitorInv, OrderInv
<1>6. ActiveInv'
  BY DEF AddCall, Goto, Begin, Finish, regVars, apiVars, locals, TypeOK, ActiveInv, ActiveStaysRegistered, ActiveOn
<1>7. CallInv'
  BY StableMember, NullAssumption DEF AddCall, Goto, Begin, Finish, regVars, apiVars, locals, TypeOK, CallInv, MonitorInv
<1> QED  BY <1>1, <1>2, <1>3, <1>4, <1>5, <1>6, <1>7

\* UnhookCall preserves the invariant.
LEMMA UnhookCallInv ==
    ASSUME IInv, NEW t \in Threads, NEW e \in handles, UnhookCall(t, e)
    PROVE  IInv'
<1> USE DEF IInv
<1>1. TypeOK'
  BY EntryFacts, NullAssumption DEF UnhookCall, Goto, Begin, Finish, regVars, apiVars, locals, TypeOK, MonitorInv, Labels
<1>2. MonitorInv'
  BY EntryFacts, NullAssumption DEF UnhookCall, Goto, Begin, Finish, regVars, apiVars, locals, TypeOK, MonitorInv, Critical, Adding
<1>3. HolderInv'
  BY NullAssumption DEF UnhookCall, Goto, Begin, Finish, regVars, apiVars, locals, TypeOK, MonitorInv, HolderInv, Critical, Adding
<1>4. IdInv'
  BY EntryFacts, NullAssumption DEF UnhookCall, Goto, Begin, Finish, regVars, apiVars, locals, TypeOK, MonitorInv, IdInv, Adding, Critical
<1>5. OrderInv'
  BY OrderedEmpty, NullAssumption DEF UnhookCall, Goto, Begin, Finish, regVars, apiVars, locals, TypeOK, MonitorInv, OrderInv
<1>6. ActiveInv'
  BY DEF UnhookCall, Goto, Begin, Finish, regVars, apiVars, locals, TypeOK, ActiveInv, ActiveStaysRegistered, ActiveOn
<1>7. CallInv'
  BY StableMember, NullAssumption DEF UnhookCall, Goto, Begin, Finish, regVars, apiVars, locals, TypeOK, CallInv, MonitorInv
<1> QED  BY <1>1, <1>2, <1>3, <1>4, <1>5, <1>6, <1>7

\* HostCall preserves the invariant.
LEMMA HostCallInv ==
    ASSUME IInv, NEW t \in Threads, NEW m \in Members, HostCall(t, m)
    PROVE  IInv'
<1> USE DEF IInv
<1>1. TypeOK'
  BY EntryFacts, NullAssumption DEF HostCall, Goto, Begin, Finish, regVars, apiVars, locals, ActiveOn, TypeOK, MonitorInv, Labels
<1>2. MonitorInv'
  BY NullAssumption DEF HostCall, Goto, Begin, Finish, regVars, apiVars, locals, ActiveOn, TypeOK, MonitorInv, Critical, Adding
<1>3. HolderInv'
  BY NullAssumption DEF HostCall, Goto, Begin, Finish, regVars, apiVars, locals, ActiveOn, TypeOK, MonitorInv, HolderInv, Critical, Adding
<1>4. IdInv'
  BY EntryFacts, NullAssumption DEF HostCall, Goto, Begin, Finish, regVars, apiVars, locals, ActiveOn, TypeOK, MonitorInv, IdInv, Adding, Critical
<1>5. OrderInv'
  BY OrderedEmpty, NullAssumption DEF HostCall, Goto, Begin, Finish, regVars, apiVars, locals, ActiveOn, TypeOK, MonitorInv, OrderInv
<1>6. ActiveInv'
  BY NullAssumption DEF HostCall, Goto, Begin, Finish, regVars, apiVars, locals, ActiveOn, TypeOK, MonitorInv, HolderInv, IdInv, ActiveInv, ActiveStaysRegistered, ActiveOn, Critical, Adding
<1>7. CallInv'
  <2>1. ActiveOn(m) # {} => code[m] # Null
    BY ActiveMember
  <2> QED  BY <2>1 DEF HostCall, Goto, Begin, Finish, regVars, apiVars, locals, TypeOK, CallInv
<1> QED  BY <1>1, <1>2, <1>3, <1>4, <1>5, <1>6, <1>7

\* InvokeOriginal preserves the invariant.
LEMMA InvokeOriginalInv ==
    ASSUME IInv, NEW t \in Threads, NEW m \in Members, InvokeOriginal(t, m)
    PROVE  IInv'
<1> USE DEF IInv
<1>1. TypeOK'
  BY EntryFacts, NullAssumption DEF InvokeOriginal, Goto, Begin, Finish, regVars, apiVars, locals, ActiveOn, TypeOK, MonitorInv, Labels
<1>2. MonitorInv'
  BY NullAssumption DEF InvokeOriginal, Goto, Begin, Finish, regVars, apiVars, locals, ActiveOn, TypeOK, MonitorInv, Critical, Adding
<1>3. HolderInv'
  BY NullAssumption DEF InvokeOriginal, Goto, Begin, Finish, regVars, apiVars, locals, ActiveOn, TypeOK, MonitorInv, HolderInv, Critical, Adding
<1>4. IdInv'
  BY EntryFacts, NullAssumption DEF InvokeOriginal, Goto, Begin, Finish, regVars, apiVars, locals, ActiveOn, TypeOK, MonitorInv, IdInv, Adding, Critical
<1>5. OrderInv'
  BY OrderedEmpty, NullAssumption DEF InvokeOriginal, Goto, Begin, Finish, regVars, apiVars, locals, ActiveOn, TypeOK, MonitorInv, OrderInv
<1>6. ActiveInv'
  BY DEF InvokeOriginal, Goto, Begin, Finish, regVars, apiVars, locals, TypeOK, ActiveInv, ActiveStaysRegistered, ActiveOn
<1>7. CallInv'
  BY StableMember, NullAssumption DEF InvokeOriginal, Goto, Begin, Finish, regVars, apiVars, locals, ActiveOn, TypeOK, CallInv, MonitorInv
<1> QED  BY <1>1, <1>2, <1>3, <1>4, <1>5, <1>6, <1>7

-----------------------------------------------------------------------------
(* The theorems.                                                           *)

\* The initial state satisfies the invariant.
LEMMA InitInv == Init => IInv
<1> SUFFICES ASSUME Init PROVE IInv
  OBVIOUS
<1>1. TypeOK
  BY EntryFacts DEF Init, TypeOK, Labels
<1>2. MonitorInv /\ HolderInv /\ IdInv
  BY DEF Init, MonitorInv, HolderInv, IdInv, Critical, Adding
<1>3. OrderInv
  BY OrderedEmpty DEF Init, OrderInv
<1>4. ActiveInv /\ CallInv
  BY DEF Init, ActiveInv, ActiveStaysRegistered, ActiveOn, CallInv
<1> QED  BY <1>1, <1>2, <1>3, <1>4 DEF IInv

\* Every step of a thread inside an operation preserves the invariant.
LEMMA StepInv ==
    ASSUME IInv, NEW t \in Threads, Step(t)
    PROVE  IInv'
  BY AddEnterInv, AddNativeHookInv, AddNativeFailInv, AddSetBackupInv,
     AddSetTokenInv, AddInsertInv, UnhookKeepInv, UnhookEmptyInv,
     UnhookNativeInv, UnhookTokenInv, CallbackInv, DispatchCopyInv,
     DispatchSkipInv, DispatchInvokeInv, InvokeTestTokenInv, InvokeTestBackupInv,
     InvokeLoadInv, InvokeBackupInv, InvokeReflectInv, ReturnInv DEF Step

\* Every step of the system preserves the invariant.
LEMMA NextInv == IInv /\ [Next]_vars => IInv'
<1> SUFFICES ASSUME IInv, [Next]_vars PROVE IInv'
  OBVIOUS
<1>1. CASE UNCHANGED vars
  BY <1>1 DEF vars, regVars, thrVars, apiVars, locals, IInv, TypeOK, MonitorInv, HolderInv,
              IdInv, OrderInv, ActiveInv, ActiveStaysRegistered, ActiveOn, CallInv
<1>2. CASE Next
  <2>1. PICK t \in Threads :
           \/ Step(t)
           \/ \E m \in Members, p \in Priorities : AddCall(t, m, p)
           \/ \E e \in handles : UnhookCall(t, e)
           \/ \E m \in Members : HostCall(t, m)
           \/ \E m \in Members : InvokeOriginal(t, m)
    BY <1>2 DEF Next
  <2>2. CASE Step(t)
    BY <2>2, StepInv
  <2>3. CASE \E m \in Members, p \in Priorities : AddCall(t, m, p)
    BY <2>3, AddCallInv
  <2>4. CASE \E e \in handles : UnhookCall(t, e)
    BY <2>4, UnhookCallInv
  <2>5. CASE \E m \in Members : HostCall(t, m)
    BY <2>5, HostCallInv
  <2>6. CASE \E m \in Members : InvokeOriginal(t, m)
    BY <2>6, InvokeOriginalInv
  <2> QED  BY <2>1, <2>2, <2>3, <2>4, <2>5, <2>6
<1> QED  BY <1>1, <1>2

\* The inductive invariant holds in every reachable state of the registry.
THEOREM Invariance == Spec => []IInv
  BY InitInv, NextInv, PTL DEF Spec

\* Every variable of the registry keeps its type.
THEOREM TypeCorrect == Spec => []TypeOK
<1>1. IInv => TypeOK
  BY DEF IInv
<1> QED  BY <1>1, Invariance, PTL

\* Outside the monitor the Holder, its token and ART's code agree.
THEOREM RegistryCorrect == Spec => []RegistryMatchesNative
<1>1. IInv => RegistryMatchesNative
  BY DEF IInv, HolderInv, RegistryMatchesNative
<1> QED  BY <1>1, Invariance, PTL

\* Every dispatch works on its entries in priority and registration order.
THEOREM SnapshotsOrdered == Spec => []SnapshotOrdered
<1>1. IInv => SnapshotOrdered
  BY DEF IInv, OrderInv, SnapshotOrdered
<1> QED  BY <1>1, Invariance, PTL

\* A call runs every callback that was registered during the whole call.
THEOREM CallbacksNotMissed == Spec => []NoMissedCallback
<1>1. IInv => NoMissedCallback
  BY DEF IInv, CallInv, NoMissedCallback
<1> QED  BY <1>1, Invariance, PTL

\* A call that overlaps an active handle neither fails nor calls a dead backup.
THEOREM StableHooksSafe == Spec => []StableHookSafe
<1>1. IInv => StableHookSafe
  BY DEF IInv, CallInv, StableHookSafe
<1> QED  BY <1>1, Invariance, PTL

\* unhook() never removes the entry of another handle.
THEOREM ActiveRegistered == Spec => []ActiveStaysRegistered
<1>1. IInv => ActiveStaysRegistered
  BY DEF IInv, ActiveInv
<1> QED  BY <1>1, Invariance, PTL

-----------------------------------------------------------------------------
(* unhook() takes effect.                                                  *)

\* The threads that wait in unhook() for the monitor.
Waiting(e) == {t \in Threads : pc[t] = "unhookEnter" /\ ent[t] = e}

\* Steps that leave the lists, the handles and the waiting threads alone.
LEMMA QuietEffect ==
    ASSUME UnhookTakesEffect, UNCHANGED <<entries, handles, active>>,
           \A e \in handles : Waiting(e) \subseteq Waiting(e)'
    PROVE  UnhookTakesEffect'
BY DEF UnhookTakesEffect, Waiting

\* A thread that is not waiting in unhook() goes on.
LEMMA OthersEffect ==
    ASSUME IInv, NEW t \in Threads, pc[t] # "unhookEnter", NEW e,
           \A u \in Threads \ {t} : pc'[u] = pc[u] /\ ent'[u] = ent[u]
    PROVE  Waiting(e) \subseteq Waiting(e)'
BY DEF Waiting

\* The steps inside an operation, but for the ones that change the list.
LEMMA StepEffect ==
    ASSUME IInv, UnhookTakesEffect, NEW t \in Threads, Step(t)
    PROVE  UnhookTakesEffect'
<1>1. TypeOK /\ IdInv /\ OrderInv
  BY DEF IInv
<1>2. CASE AddInsert(t)
  <2>1. /\ mem[t] \in Members /\ ent[t] \in Entry /\ ent[t].mem = mem[t]
        /\ \A e \in handles : e.id # ent[t].id
        /\ entries[mem[t]] \in Seq(Entry) /\ Ordered(entries[mem[t]])
        /\ \A i \in DOMAIN entries[mem[t]] : entries[mem[t]][i].id < ent[t].id
    BY <1>1, <1>2 DEF AddInsert, IdInv, OrderInv, TypeOK, IInv, MonitorInv, Adding
  <2>2. ToSet(SortedInsert(entries[mem[t]], ent[t])) \subseteq ToSet(entries[mem[t]]) \cup {ent[t]}
    BY <2>1, SortedInsertProps
  <2>3. /\ entries' = [entries EXCEPT ![mem[t]] = SortedInsert(@, ent[t])]
        /\ handles' = handles \cup {ent[t]} /\ active' = active \cup {ent[t]}
        /\ pc[t] = "addInsert"
        /\ \A u \in Threads \ {t} : pc'[u] = pc[u] /\ ent'[u] = ent[u]
    BY <1>1, <1>2 DEF AddInsert, Finish, TypeOK
  <2> SUFFICES ASSUME NEW e \in handles' \ active', e \in ToSet(entries'[e.mem])
               PROVE  \E u \in Threads : pc'[u] = "unhookEnter" /\ ent'[u] = e
    BY DEF UnhookTakesEffect
  <2>4. e \in handles \ active /\ e # ent[t] /\ e.mem \in Members
    BY <1>1, <2>3 DEF TypeOK, Entry
  <2>5. e \in ToSet(entries[e.mem])
    BY <1>1, <2>2, <2>3, <2>4 DEF TypeOK
  <2>6. PICK u \in Threads : pc[u] = "unhookEnter" /\ ent[u] = e
    BY <2>4, <2>5 DEF UnhookTakesEffect
  <2> QED BY <2>3, <2>6
<1>3. CASE UnhookKeep(t) \/ UnhookEmpty(t)
  <2>1. /\ pc[t] = "unhookEnter" /\ mem[t] \in Members /\ ent[t] \in Entry /\ ent[t].mem = mem[t]
        /\ entries[mem[t]] \in Seq(Entry) /\ Ordered(entries[mem[t]])
    BY <1>1, <1>3 DEF UnhookKeep, UnhookEmpty, IdInv, OrderInv, TypeOK, IInv, MonitorInv
  <2>2. /\ entries' = [entries EXCEPT ![mem[t]] = RemoveEntry(@, ent[t])]
        /\ handles' = handles /\ active' = active
        /\ \A u \in Threads \ {t} : pc'[u] = pc[u] /\ ent'[u] = ent[u]
    BY <1>1, <1>3 DEF UnhookKeep, UnhookEmpty, Finish, Goto, TypeOK, apiVars, locals
  <2>3. /\ ToSet(RemoveEntry(entries[mem[t]], ent[t])) \subseteq ToSet(entries[mem[t]])
        /\ ent[t] \notin ToSet(RemoveEntry(entries[mem[t]], ent[t]))
    BY <2>1, RemoveEntryProps
  <2> SUFFICES ASSUME NEW e \in handles \ active, e \in ToSet(entries'[e.mem])
               PROVE  \E u \in Threads : pc'[u] = "unhookEnter" /\ ent'[u] = e
    BY <2>2 DEF UnhookTakesEffect
  <2>4. e.mem \in Members
    BY <1>1 DEF TypeOK, Entry
  <2>5. e \in ToSet(entries[e.mem]) /\ e # ent[t]
    BY <1>1, <2>1, <2>2, <2>3, <2>4 DEF TypeOK
  <2>6. PICK u \in Threads : pc[u] = "unhookEnter" /\ ent[u] = e
    BY <2>5 DEF UnhookTakesEffect
  <2> QED BY <2>2, <2>5, <2>6
<1>4. ASSUME Step(t), ~AddInsert(t), ~UnhookKeep(t), ~UnhookEmpty(t)
      PROVE  /\ UNCHANGED <<entries, handles, active>> /\ pc[t] # "unhookEnter"
             /\ \A u \in Threads \ {t} : pc'[u] = pc[u] /\ ent'[u] = ent[u]
  <2>1. CASE AddEnter(t) \/ AddNativeHook(t) \/ AddNativeFail(t) \/ AddSetBackup(t) \/ AddSetToken(t)
    BY <1>1, <2>1 DEF AddEnter, AddNativeHook, AddNativeFail, AddSetBackup, AddSetToken,
                      Finish, Goto, TypeOK, apiVars, locals
  <2>2. CASE UnhookNative(t) \/ UnhookToken(t) \/ Callback(t) \/ DispatchCopy(t) \/ DispatchSkip(t)
    BY <1>1, <2>2 DEF UnhookNative, UnhookToken, Callback, DispatchCopy, DispatchSkip,
                      Finish, Goto, TypeOK, apiVars, locals, regVars
  <2>3. CASE DispatchInvoke(t) \/ InvokeTestToken(t) \/ InvokeTestBackup(t) \/ InvokeLoad(t)
    BY <1>1, <2>3 DEF DispatchInvoke, InvokeTestToken, InvokeTestBackup, InvokeLoad,
                      Finish, Goto, TypeOK, apiVars, locals, regVars
  <2>4. CASE InvokeBackup(t) \/ InvokeReflect(t) \/ Return(t)
    BY <1>1, <2>4 DEF InvokeBackup, InvokeReflect, Return, Finish, Goto, TypeOK, apiVars, locals, regVars
  <2> QED BY <1>4, <2>1, <2>2, <2>3, <2>4 DEF Step
<1>5. CASE ~AddInsert(t) /\ ~UnhookKeep(t) /\ ~UnhookEmpty(t)
  BY <1>4, <1>5, OthersEffect, QuietEffect
<1> QED BY <1>2, <1>3, <1>5

\* Calls that begin.
LEMMA CallEffect ==
    ASSUME IInv, UnhookTakesEffect, NEW t \in Threads,
           \/ \E m \in Members, p \in Priorities : AddCall(t, m, p)
           \/ \E e \in handles : UnhookCall(t, e)
           \/ \E m \in Members : HostCall(t, m) \/ InvokeOriginal(t, m)
    PROVE  UnhookTakesEffect'
<1>1. TypeOK
  BY DEF IInv
<1>2. /\ UNCHANGED <<entries, handles>> /\ pc[t] = "idle"
      /\ \A u \in Threads \ {t} : pc'[u] = pc[u] /\ ent'[u] = ent[u]
  BY <1>1 DEF AddCall, UnhookCall, HostCall, InvokeOriginal, Begin, TypeOK, regVars, apiVars
<1>3. CASE active' = active
  BY <1>2, <1>3, OthersEffect, QuietEffect
<1>4. ASSUME NEW e \in handles, UnhookCall(t, e) PROVE UnhookTakesEffect'
  <2>1. pc'[t] = "unhookEnter" /\ ent'[t] = e /\ active' = active \ {e}
    BY <1>1, <1>4 DEF UnhookCall, Begin, TypeOK
  <2> QED BY <1>2, <2>1 DEF UnhookTakesEffect
<1> QED BY <1>3, <1>4 DEF AddCall, HostCall, InvokeOriginal, apiVars

\* A callback whose unhook() has got the monitor is not in the list any more,
\* for any number of threads, members, priorities and registrations.
THEOREM UnhooksTakeEffect == Spec => []UnhookTakesEffect
<1>1. Init => UnhookTakesEffect
  BY DEF Init, UnhookTakesEffect
<1>2. IInv /\ UnhookTakesEffect /\ [Next]_vars => UnhookTakesEffect'
  <2> SUFFICES ASSUME IInv, UnhookTakesEffect, [Next]_vars PROVE UnhookTakesEffect'
    OBVIOUS
  <2>1. CASE UNCHANGED vars
    BY <2>1 DEF UnhookTakesEffect, vars, regVars, thrVars, apiVars, locals
  <2> QED BY <2>1, StepEffect, CallEffect DEF Next
<1> QED BY <1>1, <1>2, Invariance, PTL DEF Spec

=============================================================================
