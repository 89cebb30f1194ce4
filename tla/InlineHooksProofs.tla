-------------------------- MODULE InlineHooksProofs --------------------------
(***************************************************************************)
(* Proofs about InlineHooks, for every address space, page size, trampoline*)
(* size, set of functions and number of threads.                           *)
(*                                                                         *)
(* DobbyInv is about memory.  Text, arenas and foreign mappings lie on     *)
(* different pages, and blocks are handed out once (Standing); the text    *)
(* is the linked one but where an entry covers it (Matched); each entry's  *)
(* relocated code is in a block of its own.  While an operation is under   *)
(* way it says what was built so far (Underway).  Foreign pages stay       *)
(* writable (Tidy) but where a block fills its arena or a function its page*)
(* to the end, next to which DobbyCodePatch protects one page too many.    *)
(*                                                                         *)
(* ThreadInv adds where threads are.  Code is like a network: a patched    *)
(* site leads through its trampoline to the replacement or the closure, and*)
(* from there into relocated code that resumes behind the patch (Network). *)
(* A thread anywhere in it is on its way to the instruction that its       *)
(* function has next (Fares), and stays so when sites are patched and      *)
(* restored under it, unless a limit was met.                              *)
(***************************************************************************)
EXTENDS InlineHooks, WellFoundedInduction, TLAPS

-----------------------------------------------------------------------------
(* Pages and addresses.                                                    *)

\* Pages have a size.
LEMMA PageSizePositive == PageSize \in Nat /\ PageSize > 0 /\ PageSize \in Int /\ Pages \in Nat /\ Pages \in Int
BY PageAssumption

\* An address lies between the ends of its page.
LEMMA PageOfGives ==
    ASSUME NEW a \in Int
    PROVE  /\ PageOf(a) \in Int
           /\ PageOf(a) * PageSize \in Int
           /\ PageOf(a) * PageSize <= a /\ a < PageOf(a) * PageSize + PageSize
BY PageAssumption DEF PageOf

\* One page ends before the next begins.
LEMMA Order ==
    ASSUME NEW p \in Int, NEW q \in Int, p < q
    PROVE  p * PageSize \in Int /\ q * PageSize \in Int /\ p * PageSize + PageSize <= q * PageSize
BY PageAssumption

\* The page an address lies in is its page.
LEMMA PageUnique ==
    ASSUME NEW a \in Int, NEW p \in Int, p * PageSize <= a, a < p * PageSize + PageSize
    PROVE  PageOf(a) = p
<1>1. p * PageSize \in Int BY PageAssumption
<1>2. CASE PageOf(a) < p
  <2>1. PageOf(a) * PageSize + PageSize <= p * PageSize BY <1>2, PageOfGives, Order
  <2> QED BY <1>1, <2>1, PageOfGives, PageSizePositive
<1>3. CASE p < PageOf(a)
  <2>1. p * PageSize + PageSize <= PageOf(a) * PageSize BY <1>3, PageOfGives, Order
  <2> QED BY <1>1, <2>1, PageOfGives, PageSizePositive
<1> QED BY <1>2, <1>3, PageOfGives

\* Higher addresses lie on higher pages.
LEMMA PageOrder ==
    ASSUME NEW a \in Int, NEW b \in Int, a <= b
    PROVE  PageOf(a) <= PageOf(b)
<1>1. CASE PageOf(b) < PageOf(a)
  <2>1. PageOf(b) * PageSize + PageSize <= PageOf(a) * PageSize BY <1>1, PageOfGives, Order
  <2> QED BY <2>1, PageOfGives, PageSizePositive
<1> QED BY <1>1, PageOfGives

\* A page begins at a multiple of the page size.
LEMMA FirstOfPage ==
    ASSUME NEW p \in Int PROVE p * PageSize \in Int /\ PageOf(p * PageSize) = p
BY PageUnique, PageAssumption

\* The addresses are those of the pages.
LEMMA PageRange ==
    ASSUME NEW a \in Int PROVE a \in Addresses <=> PageOf(a) \in PageIds
<1>1. Pages * PageSize \in Int BY PageAssumption
<1>2. ASSUME a \in Addresses PROVE PageOf(a) \in PageIds
  <2>1. a >= 0 /\ a < Pages * PageSize BY <1>1, <1>2 DEF Addresses
  <2>2. CASE PageOf(a) < 0
    <3>1. PageOf(a) * PageSize + PageSize <= 0 * PageSize BY <2>2, PageOfGives, Order
    <3> QED BY <3>1, <2>1, PageOfGives, PageSizePositive
  <2>3. CASE PageOf(a) >= Pages
    <3>1. Pages * PageSize <= PageOf(a) * PageSize
      <4>1. CASE PageOf(a) = Pages BY <4>1, <1>1
      <4>2. CASE Pages < PageOf(a)
        <5>1. PageOf(a) \in Int /\ Pages \in Int BY PageOfGives, PageSizePositive
        <5>2. Pages * PageSize + PageSize <= PageOf(a) * PageSize BY <4>2, <5>1, Order
        <5> QED BY <1>1, <5>2, PageOfGives, PageSizePositive
      <4> QED BY <2>3, <4>1, <4>2, PageOfGives, PageSizePositive
    <3> QED BY <3>1, <2>1, <1>1, PageOfGives, PageSizePositive
  <2> QED BY <2>2, <2>3, PageOfGives, PageSizePositive DEF PageIds
<1>3. ASSUME PageOf(a) \in PageIds PROVE a \in Addresses
  <2>1. PageOf(a) >= 0 /\ PageOf(a) < Pages BY <1>3, PageSizePositive DEF PageIds
  <2>2. PageOf(a) * PageSize + PageSize <= Pages * PageSize BY <2>1, PageOfGives, Order, PageSizePositive
  <2>3. 0 <= PageOf(a) * PageSize
    <3>1. CASE PageOf(a) = 0 BY <3>1, PageSizePositive
    <3>2. CASE 0 < PageOf(a)
      <4>1. 0 * PageSize + PageSize <= PageOf(a) * PageSize BY <3>2, PageOfGives, Order
      <4> QED BY <4>1, PageSizePositive, PageOfGives
    <3> QED BY <2>1, <3>1, <3>2, PageOfGives
  <2> QED BY <1>1, <2>2, <2>3, PageOfGives, PageSizePositive DEF Addresses
<1> QED BY <1>2, <1>3

\* A set of naturals has a least element.
LEMMA Least ==
    ASSUME NEW S, S \subseteq Nat, S # {}
    PROVE  Min(S) \in S /\ \A y \in S : Min(S) <= y
<1>1. PICK x \in S : \A y \in S : ~(<<y, x>> \in OpToRel(<, Nat))
  BY NatLessThanWellFounded, WFMin
<1>2. ASSUME NEW y \in S, y < x PROVE FALSE
  <2>1. <<y, x>> \in OpToRel(<, Nat) BY <1>2 DEF OpToRel
  <2> QED BY <1>1, <2>1
<1>3. \A y \in S : x <= y BY <1>2
<1> QED BY <1>3 DEF Min

-----------------------------------------------------------------------------
(* Mappings and arenas.                                                    *)

PageUses == {"text", "foreign", "free", "arena"}
Perms == {"none", "rw", "rx", "rwx"}
Arenas == [addr : Nat, size : Nat, cursor : Nat]
Machines == [page : [PageIds -> PageUses], perm : [PageIds -> Perms], arenas : Seq(Arenas)]

\* The library is mapped; an arena lies on pages of its own and its cursor in it.
InArena(ar, b) == ar.addr <= b /\ b < ar.addr + ar.size
Laid(m) ==
    /\ \A p \in TextPages : m.page[p] = "text"
    /\ \A i \in DOMAIN m.arenas :
         /\ m.arenas[i].addr <= m.arenas[i].cursor
         /\ m.arenas[i].cursor <= m.arenas[i].addr + m.arenas[i].size
         /\ \A b \in Int : InArena(m.arenas[i], b) => b \in Addresses /\ m.page[PageOf(b)] = "arena"
    /\ \A i, j \in DOMAIN m.arenas : i # j => \A b \in Int : ~(InArena(m.arenas[i], b) /\ InArena(m.arenas[j], b))

\* Code can be executed, also while it is written.
Executable(m) == \A p \in PageIds : m.page[p] \in {"text", "arena"} => m.perm[p] \in {"rx", "rwx"}

\* Memory that was handed out.
Handed(m) ==
    {b \in Addresses : \E i \in DOMAIN m.arenas : m.arenas[i].addr <= b /\ b < m.arenas[i].cursor}

\* An arena ends with a page, and the pages of the rest of the process are as they
\* were but right behind code.
Tidy(m) ==
    /\ \A i \in DOMAIN m.arenas :
         /\ m.arenas[i].addr <= m.arenas[i].cursor
         /\ m.arenas[i].cursor <= m.arenas[i].addr + m.arenas[i].size
         /\ \E l \in Int : m.arenas[i].addr + m.arenas[i].size = l * PageSize
         /\ \A b \in Addresses : InArena(m.arenas[i], b) => m.page[PageOf(b)] = "arena"
    /\ \A p \in foreign : /\ p \in PageIds /\ m.page[p] # "free"
                          /\ (m.page[p] = "foreign" /\ m.perm[p] = "rw") \/ Filled(m, p)

\* A block of n words at a can be stored without touching other pages than those.
Storable(m, a, n) == \A p \in foreign : p \in PatchPages(a, n) => Filled(m, p)

\* mprotect changes the protection of the mapped pages it names and nothing else.
LEMMA ProtectGives ==
    ASSUME NEW m \in Machines, NEW ps, NEW prot \in Perms
    PROVE  LET n == Protect(m, ps, prot)
           IN /\ n \in Machines /\ n.page = m.page /\ n.arenas = m.arenas
              /\ \A p \in PageIds : n.perm[p] = IF p \in ps /\ m.page[p] # "free" THEN prot ELSE m.perm[p]
BY DEF Protect, Machines

\* Code stays executable under a protection that allows it.
LEMMA ProtectExecutable ==
    ASSUME NEW m \in Machines, NEW ps, NEW prot \in {"rx", "rwx"}, Executable(m)
    PROVE  Executable(Protect(m, ps, prot))
<1> DEFINE n == Protect(m, ps, prot)
<1>1. n.page = m.page /\ \A p \in PageIds : n.perm[p] = IF p \in ps /\ m.page[p] # "free" THEN prot ELSE m.perm[p]
  BY ProtectGives DEF Perms
<1> HIDE DEF n
<1>2. Executable(n) BY <1>1 DEF Executable
<1> QED BY <1>2 DEF n

\* Protection does not matter to the layout.
LEMMA LaidKept ==
    ASSUME NEW m, NEW n, n.page = m.page, n.arenas = m.arenas
    PROVE  (Laid(m) <=> Laid(n)) /\ Handed(n) = Handed(m)
BY DEF Laid, Handed

\* A change of protection spares the rest of the process when it only touches
\* pages right behind code.
LEMMA ProtectTidy ==
    ASSUME NEW m \in Machines, NEW ps, NEW prot \in Perms, Tidy(m), \A p \in foreign : p \in ps => Filled(m, p)
    PROVE  Tidy(Protect(m, ps, prot))
<1> DEFINE n == Protect(m, ps, prot)
<1>1. /\ n.page = m.page /\ n.arenas = m.arenas
      /\ \A p \in PageIds : n.perm[p] = IF p \in ps /\ m.page[p] # "free" THEN prot ELSE m.perm[p]
  BY ProtectGives
<1> HIDE DEF n
<1>2. \A p : Filled(n, p) <=> Filled(m, p) BY <1>1 DEF Filled
<1>3. Tidy(n) BY <1>1, <1>2 DEF Tidy
<1> QED BY <1>3 DEF n

\* A block of n words that was allocated.
Allocated(m, n, r) ==
    /\ r.m \in Machines /\ r.addr \in Nat /\ (Executable(m) => Executable(r.m))
    /\ \A p \in PageIds : m.page[p] # "free" => r.m.page[p] = m.page[p] /\ r.m.perm[p] = m.perm[p]
    /\ Laid(m) =>
         /\ Laid(r.m)
         /\ Handed(m) \subseteq Handed(r.m)
         /\ \A b \in Int : r.addr <= b /\ b < r.addr + n =>
                b \in Handed(r.m) \ Handed(m) /\ r.m.page[PageOf(b)] = "arena"
    /\ Tidy(m) => Tidy(r.m) /\ Storable(r.m, r.addr, n)

\* A block from arena i: k words are taken, of which the last n are the block.
LEMMA TakenGives ==
    ASSUME NEW m \in Machines, NEW i \in DOMAIN m.arenas, NEW n \in Nat, NEW k \in Nat, n > 0, n <= k,
           m.arenas[i].cursor + k <= m.arenas[i].addr + m.arenas[i].size
    PROVE  Allocated(m, n, [m |-> Taken(m, i, k), addr |-> m.arenas[i].cursor + k - n])
<1> DEFINE ar == m.arenas[i]
           u == Taken(m, i, k)
           r == [m |-> u, addr |-> ar.cursor + k - n]
<1>1. m.arenas \in Seq(Arenas) /\ ar \in Arenas BY DEF Machines
<1>2. ar.addr \in Nat /\ ar.size \in Nat /\ ar.cursor \in Nat BY <1>1 DEF Arenas
<1>3. u = [m EXCEPT !.arenas = [m.arenas EXCEPT ![i] = [ar EXCEPT !.cursor = ar.cursor + k]]]
  BY DEF Taken, Machines
<1> HIDE DEF ar
<1> DEFINE new == [ar EXCEPT !.cursor = ar.cursor + k]
<1>4. new \in Arenas /\ new.addr = ar.addr /\ new.size = ar.size /\ new.cursor = ar.cursor + k
  <2>1. ar \in Arenas /\ ar.cursor + k \in Nat BY <1>1, <1>2
  <2> QED BY ONLY <2>1 DEF Arenas
<1> HIDE DEF new, u
<1>5. [m.arenas EXCEPT ![i] = new] \in Seq(Arenas) BY <1>1, <1>4
<1>6. u \in Machines /\ u.page = m.page /\ u.perm = m.perm /\ u.arenas = [m.arenas EXCEPT ![i] = new]
  BY <1>3, <1>5 DEF Machines, new
<1>7. /\ DOMAIN u.arenas = DOMAIN m.arenas /\ u.arenas[i] = new
      /\ \A j \in DOMAIN m.arenas \ {i} : u.arenas[j] = m.arenas[j]
  BY <1>1, <1>6
<1>8. \A j \in DOMAIN m.arenas : u.arenas[j].addr = m.arenas[j].addr /\ u.arenas[j].size = m.arenas[j].size
  BY <1>4, <1>7 DEF ar
<1>9. ASSUME Laid(m)
      PROVE  /\ Laid(u) /\ Handed(m) \subseteq Handed(u)
             /\ \A b \in Int : r.addr <= b /\ b < r.addr + n =>
                    b \in Handed(u) \ Handed(m) /\ u.page[PageOf(b)] = "arena"
  <2>1. ar.addr <= ar.cursor BY <1>9 DEF Laid, ar
  <2>2. \A j \in DOMAIN m.arenas : \A b : InArena(u.arenas[j], b) <=> InArena(m.arenas[j], b)
    BY <1>8 DEF InArena
  <2>3. Laid(u)
    <3>1. \A j \in DOMAIN u.arenas :
             u.arenas[j].addr <= u.arenas[j].cursor /\ u.arenas[j].cursor <= u.arenas[j].addr + u.arenas[j].size
      BY <1>2, <1>4, <1>7, <1>9, <2>1 DEF Laid, ar
    <3>2. \A j \in DOMAIN u.arenas : \A b \in Int : InArena(u.arenas[j], b) => b \in Addresses /\ u.page[PageOf(b)] = "arena"
      BY <1>6, <1>7, <1>9, <2>2 DEF Laid
    <3>3. \A j, l \in DOMAIN u.arenas : j # l => \A b \in Int : ~(InArena(u.arenas[j], b) /\ InArena(u.arenas[l], b))
      BY <1>7, <1>9, <2>2 DEF Laid
    <3>4. \A p \in TextPages : u.page[p] = "text" BY <1>6, <1>9 DEF Laid
    <3> QED BY <3>1, <3>2, <3>3, <3>4 DEF Laid
  <2>4. \A j \in DOMAIN m.arenas :
           m.arenas[j].cursor \in Nat /\ u.arenas[j].cursor \in Nat /\ m.arenas[j].cursor <= u.arenas[j].cursor
    <3> SUFFICES ASSUME NEW j \in DOMAIN m.arenas
                 PROVE  m.arenas[j].cursor \in Nat /\ u.arenas[j].cursor \in Nat /\ m.arenas[j].cursor <= u.arenas[j].cursor
      OBVIOUS
    <3>1. m.arenas[j] \in Arenas BY <1>1
    <3>2. m.arenas[j].cursor \in Nat BY <3>1 DEF Arenas
    <3> QED BY <1>2, <1>4, <1>7, <3>2 DEF ar
  <2>5. Handed(m) \subseteq Handed(u)
    <3> SUFFICES ASSUME NEW b \in Handed(m) PROVE b \in Handed(u) OBVIOUS
    <3>1. PICK j \in DOMAIN m.arenas : m.arenas[j].addr <= b /\ b < m.arenas[j].cursor BY DEF Handed
    <3>2. b \in Int /\ b \in Addresses BY PageSizePositive DEF Handed, Addresses
    <3> QED BY <1>7, <1>8, <2>4, <3>1, <3>2 DEF Handed
  <2>6. ASSUME NEW b \in Int, r.addr <= b, b < r.addr + n
        PROVE  b \in Handed(u) \ Handed(m) /\ u.page[PageOf(b)] = "arena"
    <3>1. r.addr = ar.cursor + k - n OBVIOUS
    <3>2. ar.cursor <= b /\ b < ar.cursor + k BY <1>2, <2>6, <3>1
    <3>3. InArena(ar, b) BY <1>2, <2>1, <3>2 DEF InArena, ar
    <3>4. b \in Addresses /\ m.page[PageOf(b)] = "arena" BY <1>9, <3>3 DEF Laid, ar
    <3>5. b \in Handed(u) BY <1>2, <1>4, <1>7, <2>1, <3>2, <3>4 DEF Handed
    <3>6. ASSUME NEW j \in DOMAIN m.arenas, m.arenas[j].addr <= b, b < m.arenas[j].cursor PROVE FALSE
      <4>1. CASE j = i BY <1>2, <3>2, <3>6, <4>1 DEF ar
      <4>2. CASE j # i
        <5>1. m.arenas[j] \in Arenas BY <1>1
        <5>2. InArena(m.arenas[j], b) BY <1>9, <3>6, <5>1 DEF Laid, InArena, Arenas
        <5> QED BY <1>9, <3>3, <4>2, <5>2 DEF Laid, ar
      <4> QED BY <4>1, <4>2
    <3> QED BY <1>6, <3>4, <3>5, <3>6 DEF Handed
  <2> QED BY <2>3, <2>5, <2>6
<1>10. r.m = u /\ r.addr = ar.cursor + k - n /\ r.addr \in Nat BY <1>2
<1>t. ASSUME Tidy(m) PROVE Tidy(u) /\ Storable(u, r.addr, n)
  <2>1. \A j \in DOMAIN m.arenas : \A b : InArena(u.arenas[j], b) <=> InArena(m.arenas[j], b)
    BY <1>8 DEF InArena
  <2>2. \A j \in DOMAIN m.arenas :
           m.arenas[j].cursor \in Nat /\ u.arenas[j].cursor \in Nat /\ m.arenas[j].cursor <= u.arenas[j].cursor
    <3> SUFFICES ASSUME NEW j \in DOMAIN m.arenas
                 PROVE  m.arenas[j].cursor \in Nat /\ u.arenas[j].cursor \in Nat /\ m.arenas[j].cursor <= u.arenas[j].cursor
      OBVIOUS
    <3>1. m.arenas[j] \in Arenas BY <1>1
    <3>2. m.arenas[j].cursor \in Nat BY <3>1 DEF Arenas
    <3> QED BY <1>2, <1>4, <1>7, <3>2 DEF ar
  <2>3. \A p \in foreign : p \in PageIds /\ p \in Int /\ p * PageSize \in Int BY <1>t, FirstOfPage DEF Tidy, PageIds
  <2>4. \A p \in foreign : Filled(m, p) => Filled(u, p)
    <3> SUFFICES ASSUME NEW p \in foreign, NEW j \in DOMAIN m.arenas,
                        m.arenas[j].addr < p * PageSize, p * PageSize <= m.arenas[j].cursor,
                        p * PageSize \in {m.arenas[j].addr + m.arenas[j].size, m.arenas[j].addr + m.arenas[j].size - PageSize}
                 PROVE  Filled(u, p)
      BY DEF Filled
    <3>1. p * PageSize <= u.arenas[j].cursor BY <2>2, <2>3
    <3> QED BY <1>7, <1>8, <3>1 DEF Filled
  <2>5. \A j \in DOMAIN u.arenas :
           /\ u.arenas[j].addr <= u.arenas[j].cursor
           /\ u.arenas[j].cursor <= u.arenas[j].addr + u.arenas[j].size
    <3> SUFFICES ASSUME NEW j \in DOMAIN u.arenas
                 PROVE  u.arenas[j].addr <= u.arenas[j].cursor /\ u.arenas[j].cursor <= u.arenas[j].addr + u.arenas[j].size
      OBVIOUS
    <3>1. CASE j = i
      <4>1. ar.addr <= ar.cursor BY <1>t DEF Tidy, ar
      <4>2. ar.cursor + k <= ar.addr + ar.size BY DEF ar
      <4> QED BY <1>2, <1>4, <1>7, <3>1, <4>1, <4>2
    <3>2. CASE j # i BY <1>7, <1>t, <3>2 DEF Tidy
    <3> QED BY <3>1, <3>2
  <2>6. \A j \in DOMAIN u.arenas : \E l \in Int : u.arenas[j].addr + u.arenas[j].size = l * PageSize
    BY <1>7, <1>8, <1>t DEF Tidy
  <2>7. \A j \in DOMAIN u.arenas : \A b \in Addresses : InArena(u.arenas[j], b) => u.page[PageOf(b)] = "arena"
    BY <1>6, <1>7, <1>t, <2>1 DEF Tidy
  <2>8. Tidy(u) BY <1>6, <1>t, <2>4, <2>5, <2>6, <2>7 DEF Tidy
  <2>9. ASSUME NEW p \in foreign, p \in PatchPages(ar.cursor + k - n, n) PROVE Filled(u, p)
    <3>1. /\ ar.addr <= ar.cursor /\ ar.cursor + k <= ar.addr + ar.size
          /\ \A b \in Addresses : InArena(ar, b) => m.page[PageOf(b)] = "arena"
      BY <1>t DEF Tidy, ar
    <3>2. PICK l \in Int : ar.addr + ar.size = l * PageSize BY <1>t DEF Tidy, ar
    <3> DEFINE s == ar.cursor + k - n
               e == ar.cursor + k
    <3>3. s \in Int /\ e \in Int /\ s + n = e /\ ar.addr <= s /\ s < e /\ e <= ar.addr + ar.size BY <1>2, <3>1
    <3>4. p \in PageIds /\ (p = PageOf(s) \/ p = PageOf(e)) BY <2>9, <3>3 DEF PatchPages
    <3> HIDE DEF s, e
    <3>5. ASSUME NEW b \in Int, ar.addr <= b, b < ar.addr + ar.size, p = PageOf(b) PROVE Filled(u, p)
      <4>1. b \in Addresses BY <3>4, <3>5, PageRange
      <4>2. m.page[p] = "arena" BY <3>1, <3>5, <4>1 DEF InArena
      <4>3. Filled(m, p) BY <1>t, <4>2 DEF Tidy
      <4> QED BY <2>4, <4>3
    <3>6. CASE e = ar.addr + ar.size /\ p = PageOf(e)
      <4>1. p = l BY <3>2, <3>6, FirstOfPage
      <4>2. p * PageSize = ar.addr + ar.size /\ p * PageSize = e BY <3>2, <3>6, <4>1
      <4>3. new.cursor = e BY <1>4 DEF e
      <4>4. new.addr < p * PageSize /\ p * PageSize <= new.cursor /\ p * PageSize = new.addr + new.size
        BY <1>2, <1>4, <3>3, <4>2, <4>3
      <4> QED BY <1>7, <4>4 DEF Filled
    <3> QED BY <1>2, <3>3, <3>4, <3>5, <3>6
  <2>10. r.addr = ar.cursor + k - n OBVIOUS
  <2> QED BY <2>8, <2>9, <2>10 DEF Storable
<1> HIDE DEF r
<1>11. Allocated(m, n, r) BY <1>6, <1>9, <1>10, <1>t DEF Allocated, Executable
<1> QED BY <1>11 DEF r, u, ar

\* An arena that was mapped over pages that hold neither the library nor another
\* arena: a block of n words, k words behind its start.
NewBlock(m, q, z, a, size, n, r) ==
    /\ r.m \in Machines /\ r.addr \in Nat
    /\ \A p \in PageIds : q <= p /\ p < q + z => r.m.page[p] = "arena" /\ r.m.perm[p] = "rx"
    /\ \A p \in PageIds : ~(q <= p /\ p < q + z) => r.m.page[p] = m.page[p] /\ r.m.perm[p] = m.perm[p]
    /\ (\A p \in Int : q <= p /\ p < q + z => p \in PageIds /\ m.page[p] \notin {"text", "arena"}) /\ Laid(m) =>
         /\ Laid(r.m)
         /\ Handed(m) \subseteq Handed(r.m)
         /\ \A b \in Int : r.addr <= b /\ b < r.addr + n =>
                b \in Handed(r.m) \ Handed(m) /\ r.m.page[PageOf(b)] = "arena"
         /\ \A b \in Handed(m) : ~(a <= b /\ b < a + size)
    /\ Tidy(m) /\ (\A p \in foreign : q <= p /\ p < q + z => q < p /\ p = q + z - 1 /\ p * PageSize <= r.addr + n) =>
         Tidy(r.m) /\ Storable(r.m, r.addr, n)

\* A new arena is mapped where nothing was, and hands out its first block.
LEMMA NewArenaGives ==
    ASSUME NEW m \in Machines, NEW q \in Nat, NEW size \in Nat, NEW n \in Nat, n > 0, NEW k \in Nat, k + n <= size,
           NEW a, a = q * PageSize,
           NEW z \in Nat, size = z * PageSize
    PROVE  NewBlock(m, q, z, a, size, n, [m |-> NewArena(Map(m, a, size, "rx"), a, size, k + n), addr |-> a + k])
<1> DEFINE c == Map(m, a, size, "rx")
           ar == [addr |-> a, size |-> size, cursor |-> a + (k + n)]
           u == NewArena(c, a, size, k + n)
           r == [m |-> u, addr |-> a + k]
<1>1. a \in Nat /\ a + k \in Nat /\ a + size = (q + z) * PageSize /\ ar \in Arenas
  <2>1. a \in Nat BY PageSizePositive
  <2>2. a + size = (q + z) * PageSize BY PageSizePositive
  <2> QED BY <2>1, <2>2 DEF Arenas
<1>2. \A p \in Int : p * PageSize \in Span(a, size) <=> q <= p /\ p < q + z
  <2> SUFFICES ASSUME NEW p \in Int PROVE p * PageSize \in Span(a, size) <=> q <= p /\ p < q + z OBVIOUS
  <2>0. p * PageSize \in Int /\ q \in Int /\ q + z \in Int /\ (q + z) * PageSize \in Int BY FirstOfPage
  <2>1. p < q => p * PageSize + PageSize <= q * PageSize BY <2>0, Order
  <2>2. q < p => q * PageSize + PageSize <= p * PageSize BY <2>0, Order
  <2>3. p < q + z => p * PageSize + PageSize <= (q + z) * PageSize BY <2>0, Order
  <2>4. q + z < p => (q + z) * PageSize + PageSize <= p * PageSize BY <2>0, Order
  <2> QED BY <1>1, <2>0, <2>1, <2>2, <2>3, <2>4, PageSizePositive DEF Span
<1>3. /\ c \in Machines /\ c.arenas = m.arenas
      /\ \A p \in PageIds : q <= p /\ p < q + z => c.page[p] = "arena" /\ c.perm[p] = "rx"
      /\ \A p \in PageIds : ~(q <= p /\ p < q + z) => c.page[p] = m.page[p] /\ c.perm[p] = m.perm[p]
  <2> DEFINE ps == {p \in PageIds : p * PageSize \in Span(a, size)}
  <2>1. c = [m EXCEPT !.page = [p \in PageIds |-> IF p \in ps THEN "arena" ELSE m.page[p]],
                      !.perm = [p \in PageIds |-> IF p \in ps THEN "rx" ELSE m.perm[p]]]
    BY DEF Map
  <2>2. \A p \in PageIds : p \in ps <=> q <= p /\ p < q + z BY <1>2, PageSizePositive DEF PageIds
  <2> HIDE DEF ps, c
  <2>3. c \in Machines /\ c.arenas = m.arenas BY <2>1 DEF Machines, PageUses, Perms
  <2>4. c.page = [p \in PageIds |-> IF p \in ps THEN "arena" ELSE m.page[p]] BY <2>1 DEF Machines
  <2>5. c.perm = [p \in PageIds |-> IF p \in ps THEN "rx" ELSE m.perm[p]] BY <2>1 DEF Machines
  <2>6. \A p \in PageIds : p \in ps => c.page[p] = "arena" /\ c.perm[p] = "rx" BY <2>4, <2>5, Zenon
  <2>7. \A p \in PageIds : p \notin ps => c.page[p] = m.page[p] /\ c.perm[p] = m.perm[p] BY <2>4, <2>5, Zenon
  <2> QED BY <2>2, <2>3, <2>6, <2>7
<1>4. u = [c EXCEPT !.arenas = Append(c.arenas, ar)] BY DEF NewArena
<1>6. r.m = u /\ r.addr = a + k OBVIOUS
<1> HIDE DEF c, ar, u, r
<1>5. u \in Machines /\ u.arenas = Append(m.arenas, ar) /\ u.page = c.page /\ u.perm = c.perm
  <2>1. Append(m.arenas, ar) \in Seq(Arenas) BY <1>1 DEF Machines
  <2> QED BY <1>3, <1>4, <2>1 DEF Machines
<1>p. /\ \A p \in PageIds : q <= p /\ p < q + z => u.page[p] = "arena" /\ u.perm[p] = "rx"
      /\ \A p \in PageIds : ~(q <= p /\ p < q + z) => u.page[p] = m.page[p] /\ u.perm[p] = m.perm[p]
  BY <1>3, <1>5
<1>7. ASSUME \A p \in Int : q <= p /\ p < q + z => p \in PageIds /\ m.page[p] \notin {"text", "arena"}, Laid(m)
      PROVE  /\ Laid(u)
             /\ Handed(m) \subseteq Handed(u)
             /\ \A b \in Int : r.addr <= b /\ b < r.addr + n =>
                    b \in Handed(u) \ Handed(m) /\ u.page[PageOf(b)] = "arena"
             /\ \A b \in Handed(m) : ~(a <= b /\ b < a + size)
  <2> DEFINE l == Len(m.arenas) + 1
  <2>1. /\ DOMAIN u.arenas = DOMAIN m.arenas \cup {l} /\ l \notin DOMAIN m.arenas /\ u.arenas[l] = ar
        /\ \A j \in DOMAIN m.arenas : u.arenas[j] = m.arenas[j]
    BY <1>5 DEF Machines
  <2> HIDE DEF l
  <2>2. ar.addr = a /\ ar.size = size /\ ar.cursor = a + (k + n) BY DEF ar
  <2>3. ASSUME NEW b \in Int, a <= b, b < a + size
        PROVE  /\ b \in Addresses /\ PageOf(b) \in PageIds /\ u.page[PageOf(b)] = "arena"
               /\ m.page[PageOf(b)] \notin {"text", "arena"}
    <3>1. PageOf(b) \in Int BY PageOfGives
    <3>2. q <= PageOf(b) BY <2>3, <1>1, PageOrder, FirstOfPage
    <3>3. PageOf(b) < q + z
      <4>1. PageOf(b) * PageSize < (q + z) * PageSize BY <1>1, <2>3, PageOfGives, FirstOfPage
      <4>2. q + z < PageOf(b) => (q + z) * PageSize + PageSize <= PageOf(b) * PageSize BY <3>1, Order
      <4> QED BY <3>1, <4>1, <4>2, PageOfGives, FirstOfPage, PageSizePositive
    <3>4. PageOf(b) \in PageIds /\ m.page[PageOf(b)] \notin {"text", "arena"} BY <1>7, <3>1, <3>2, <3>3
    <3>5. b \in Addresses BY <3>4, PageRange
    <3> QED BY <1>3, <1>5, <3>2, <3>3, <3>4, <3>5
  <2>4. \A b \in Int : InArena(ar, b) <=> a <= b /\ b < a + size BY <2>2 DEF InArena
  <2>5. \A j \in DOMAIN m.arenas : \A b \in Int : InArena(m.arenas[j], b) =>
           b \in Addresses /\ PageOf(b) \in PageIds /\ m.page[PageOf(b)] = "arena" /\ u.page[PageOf(b)] = "arena"
    <3> SUFFICES ASSUME NEW j \in DOMAIN m.arenas, NEW b \in Int, InArena(m.arenas[j], b)
                 PROVE  b \in Addresses /\ PageOf(b) \in PageIds /\ m.page[PageOf(b)] = "arena" /\ u.page[PageOf(b)] = "arena"
      OBVIOUS
    <3>1. b \in Addresses /\ m.page[PageOf(b)] = "arena" BY <1>7 DEF Laid
    <3>2. PageOf(b) \in PageIds BY <3>1, PageRange
    <3> QED BY <1>p, <3>1, <3>2
  <2>6. Laid(u)
    <3>1. \A p \in TextPages : u.page[p] = "text"
      <4> SUFFICES ASSUME NEW p \in TextPages PROVE u.page[p] = "text" OBVIOUS
      <4>1. p \in PageIds /\ p \in Int /\ m.page[p] = "text" BY <1>7, TextAssumption, PageSizePositive DEF Laid, PageIds
      <4>2. ~(q <= p /\ p < q + z) BY <1>7, <4>1
      <4> QED BY <1>p, <4>1, <4>2
    <3>2. \A j \in DOMAIN u.arenas :
             u.arenas[j].addr <= u.arenas[j].cursor /\ u.arenas[j].cursor <= u.arenas[j].addr + u.arenas[j].size
      <4>1. ar.addr <= ar.cursor /\ ar.cursor <= ar.addr + ar.size BY <1>1, <2>2
      <4> QED BY <1>7, <2>1, <4>1 DEF Laid
    <3>3. \A j \in DOMAIN u.arenas : \A b \in Int : InArena(u.arenas[j], b) => b \in Addresses /\ u.page[PageOf(b)] = "arena"
      BY <2>1, <2>3, <2>4, <2>5
    <3>4. \A i, j \in DOMAIN u.arenas : i # j => \A b \in Int : ~(InArena(u.arenas[i], b) /\ InArena(u.arenas[j], b))
      <4>1. \A i \in DOMAIN m.arenas : \A b \in Int : ~(InArena(u.arenas[i], b) /\ InArena(ar, b))
        BY <2>1, <2>3, <2>4, <2>5
      <4>2. \A i, j \in DOMAIN m.arenas : i # j => \A b \in Int : ~(InArena(u.arenas[i], b) /\ InArena(u.arenas[j], b))
        BY <1>7, <2>1 DEF Laid
      <4> QED BY <2>1, <4>1, <4>2
    <3> QED BY <3>1, <3>2, <3>3, <3>4 DEF Laid
  <2>7. Handed(m) \subseteq Handed(u) BY <2>1 DEF Handed
  <2>8. \A b \in Handed(m) : b \in Int /\ \E j \in DOMAIN m.arenas : InArena(m.arenas[j], b)
    <3> SUFFICES ASSUME NEW b \in Handed(m) PROVE b \in Int /\ \E j \in DOMAIN m.arenas : InArena(m.arenas[j], b)
      OBVIOUS
    <3>1. PICK j \in DOMAIN m.arenas : m.arenas[j].addr <= b /\ b < m.arenas[j].cursor BY DEF Handed
    <3>2. b \in Int BY FirstOfPage, PageSizePositive DEF Handed, Addresses
    <3>3. m.arenas[j] \in Arenas BY DEF Machines
    <3>4. InArena(m.arenas[j], b) BY <1>7, <3>1, <3>2, <3>3 DEF Laid, InArena, Arenas
    <3> QED BY <3>2, <3>4
  <2>9. \A b \in Handed(m) : ~(a <= b /\ b < a + size) BY <2>3, <2>5, <2>8
  <2>10. ASSUME NEW b \in Int, r.addr <= b, b < r.addr + n
         PROVE  b \in Handed(u) \ Handed(m) /\ u.page[PageOf(b)] = "arena"
    <3>1. a <= b /\ b < a + size /\ b < a + (k + n) BY <1>1, <1>6, <2>10
    <3>2. b \in Addresses /\ u.page[PageOf(b)] = "arena" BY <2>3, <3>1
    <3> QED BY <2>1, <2>2, <2>9, <3>1, <3>2 DEF Handed
  <2> QED BY <2>6, <2>7, <2>9, <2>10
<1>t. ASSUME Tidy(m), \A p \in foreign : q <= p /\ p < q + z => q < p /\ p = q + z - 1 /\ p * PageSize <= r.addr + n
      PROVE  Tidy(u) /\ Storable(u, r.addr, n)
  <2> DEFINE l == Len(m.arenas) + 1
  <2>1. /\ DOMAIN u.arenas = DOMAIN m.arenas \cup {l} /\ u.arenas[l] = ar
        /\ \A j \in DOMAIN m.arenas : u.arenas[j] = m.arenas[j]
    BY <1>5 DEF Machines
  <2> HIDE DEF l
  <2>2. ar.addr = a /\ ar.size = size /\ ar.cursor = r.addr + n /\ r.addr + n \in Int /\ a <= r.addr
        /\ r.addr + n <= a + size
    BY <1>1, <1>6 DEF ar
  <2>3. \A p \in foreign : p \in PageIds /\ p \in Int /\ p * PageSize \in Int BY <1>t, FirstOfPage DEF Tidy, PageIds
  <2>4. \A p \in foreign : Filled(m, p) => Filled(u, p) BY <2>1 DEF Filled
  <2>5. ASSUME NEW p \in foreign, q <= p, p < q + z PROVE Filled(u, p)
    <3>1. q < p /\ p = q + z - 1 /\ p * PageSize <= r.addr + n /\ p \in Int /\ p * PageSize \in Int
      BY <1>t, <2>3, <2>5
    <3>2. q * PageSize + PageSize <= p * PageSize BY <3>1, Order
    <3>3. p * PageSize = (q + z) * PageSize - PageSize BY <3>1, PageSizePositive
    <3>4. ar.addr < p * PageSize /\ p * PageSize <= ar.cursor /\ p * PageSize = ar.addr + ar.size - PageSize
      BY <1>1, <2>2, <3>1, <3>2, <3>3, PageSizePositive
    <3> QED BY <2>1, <3>4 DEF Filled
  <2>6. \A b \in Int : a <= b /\ b < a + size => PageOf(b) \in Int /\ q <= PageOf(b) /\ PageOf(b) < q + z
    <3> SUFFICES ASSUME NEW b \in Int, a <= b, b < a + size
                 PROVE  PageOf(b) \in Int /\ q <= PageOf(b) /\ PageOf(b) < q + z
      OBVIOUS
    <3>1. PageOf(b) \in Int BY PageOfGives
    <3>2. q <= PageOf(b) BY <1>1, PageOrder, FirstOfPage
    <3>3. PageOf(b) * PageSize < (q + z) * PageSize BY <1>1, PageOfGives, FirstOfPage
    <3>4. q + z < PageOf(b) => (q + z) * PageSize + PageSize <= PageOf(b) * PageSize BY <3>1, Order
    <3> QED BY <3>1, <3>2, <3>3, <3>4, PageOfGives, FirstOfPage, PageSizePositive
  <2>7. \A j \in DOMAIN u.arenas : \A b \in Addresses : InArena(u.arenas[j], b) => u.page[PageOf(b)] = "arena"
    <3> SUFFICES ASSUME NEW j \in DOMAIN u.arenas, NEW b \in Addresses, InArena(u.arenas[j], b)
                 PROVE  u.page[PageOf(b)] = "arena"
      OBVIOUS
    <3>1. b \in Int
      <4>1. Pages * PageSize \in Int BY PageSizePositive
      <4> QED BY <4>1 DEF Addresses
    <3>2. PageOf(b) \in PageIds BY <3>1, PageRange
    <3>3. CASE j = l
      <4>1. a <= b /\ b < a + size BY <2>1, <2>2, <3>3 DEF InArena
      <4> QED BY <1>p, <2>6, <3>1, <3>2, <4>1
    <3>4. CASE j \in DOMAIN m.arenas
      <4>1. m.page[PageOf(b)] = "arena" BY <1>t, <2>1, <3>4 DEF Tidy
      <4> QED BY <1>p, <3>2, <4>1
    <3> QED BY <2>1, <3>3, <3>4
  <2>8. \A j \in DOMAIN u.arenas :
           /\ u.arenas[j].addr <= u.arenas[j].cursor
           /\ u.arenas[j].cursor <= u.arenas[j].addr + u.arenas[j].size
           /\ \E i \in Int : u.arenas[j].addr + u.arenas[j].size = i * PageSize
    <3>1. q + z \in Int /\ ar.addr + ar.size = (q + z) * PageSize BY <1>1, <2>2
    <3>2. ar.addr <= ar.cursor /\ ar.cursor <= ar.addr + ar.size BY <1>1, <1>6, <2>2
    <3> QED BY <1>t, <2>1, <3>1, <3>2 DEF Tidy
  <2>9. ASSUME NEW p \in foreign
        PROVE  p \in PageIds /\ u.page[p] # "free" /\ ((u.page[p] = "foreign" /\ u.perm[p] = "rw") \/ Filled(u, p))
    <3>1. CASE q <= p /\ p < q + z BY <1>p, <2>3, <2>5, <3>1
    <3>2. CASE ~(q <= p /\ p < q + z) BY <1>p, <1>t, <2>3, <2>4, <3>2 DEF Tidy
    <3> QED BY <3>1, <3>2
  <2>10. Tidy(u) BY <2>7, <2>8, <2>9 DEF Tidy
  <2>11. ASSUME NEW p \in foreign, p \in PatchPages(r.addr, n) PROVE Filled(u, p)
    <3>1. r.addr \in Int /\ r.addr < r.addr + n BY <1>1, <1>6
    <3>2. p = PageOf(r.addr) \/ p = PageOf(r.addr + n) BY <2>11 DEF PatchPages
    <3>3. CASE p = PageOf(r.addr) BY <2>2, <2>5, <2>6, <3>1, <3>3
    <3>4. CASE p = PageOf(r.addr + n) /\ r.addr + n < a + size BY <1>1, <2>2, <2>5, <2>6, <3>1, <3>4
    <3>5. CASE p = PageOf(r.addr + n) /\ r.addr + n = a + size
      <4>1. p = q + z BY <1>1, <3>5, FirstOfPage
      <4>2. ar.addr < p * PageSize /\ p * PageSize <= ar.cursor /\ p * PageSize = ar.addr + ar.size
        BY <1>1, <2>2, <3>1, <3>5, <4>1
      <4> QED BY <2>1, <4>2 DEF Filled
    <3>6. r.addr + n < a + size \/ r.addr + n = a + size
      <4>1. a + size \in Int /\ r.addr + n \in Int /\ r.addr + n <= a + size BY <1>1, <2>2
      <4> QED BY ONLY <4>1
    <3> QED BY <3>2, <3>3, <3>4, <3>5, <3>6, Zenon
  <2> QED BY <2>10, <2>11 DEF Storable
<1>8. NewBlock(m, q, z, a, size, n, r) BY <1>1, <1>5, <1>6, <1>7, <1>p, <1>t DEF NewBlock
<1> QED BY <1>8 DEF r, u, c

\* MemoryAllocator: a block that was handed out before is handed out no more.
LEMMA AllocateGives ==
    ASSUME NEW m \in Machines, NEW n \in Nat, n > 0, NEW r \in AllocateExec(m, n)
    PROVE  Allocated(m, n, r)
<1> DEFINE fit == {i \in DOMAIN m.arenas : HasRoom(m.arenas[i], n)}
<1>1. CASE fit # {}
  <2> DEFINE i == Min(fit)
  <2>1. fit \subseteq Nat BY DEF Machines
  <2>2. i \in fit BY <1>1, <2>1, Least
  <2>3. r = [m |-> Taken(m, i, n), addr |-> m.arenas[i].cursor] BY <1>1 DEF AllocateExec
  <2> HIDE DEF i
  <2>4. m.arenas[i] \in Arenas BY <2>2 DEF Machines
  <2>5. /\ m.arenas[i].addr \in Nat /\ m.arenas[i].size \in Nat /\ m.arenas[i].cursor \in Nat
        /\ m.arenas[i].addr + m.arenas[i].size - m.arenas[i].cursor >= n
    BY <2>2, <2>4 DEF Arenas, HasRoom
  <2>6. m.arenas[i].cursor + n <= m.arenas[i].addr + m.arenas[i].size BY <2>5
  <2>7. m.arenas[i].cursor + n - n = m.arenas[i].cursor BY <2>5
  <2>8. i \in DOMAIN m.arenas /\ n <= n BY <2>2
  <2> HIDE DEF fit
  <2>9. Allocated(m, n, [m |-> Taken(m, i, n), addr |-> m.arenas[i].cursor + n - n]) BY <2>6, <2>8, TakenGives
  <2> QED BY <2>3, <2>7, <2>9
<1>2. CASE fit = {}
  <2> DEFINE size == PageCeil(n)
             z == PageOf(n + PageSize - 1)
  <2>1. PICK a \in FreeRuns(m, size) : r = [m |-> NewArena(Map(m, a, size, "rx"), a, size, n), addr |-> a]
    BY <1>2 DEF AllocateExec
  <2>2. PICK q \in PageIds : a = q * PageSize BY DEF FreeRuns
  <2>3. \A b \in Span(a, size) : b \in Addresses /\ m.page[PageOf(b)] = "free" BY DEF FreeRuns
  <2>4. z \in Nat /\ size = z * PageSize /\ n <= size /\ size \in Nat
    <3>1. n + PageSize - 1 \in Int BY PageSizePositive
    <3>2. /\ z \in Int /\ z * PageSize \in Int /\ n + PageSize - 1 < z * PageSize + PageSize
      BY <3>1, PageOfGives
    <3>3. size = z * PageSize BY DEF PageCeil, PageFloor
    <3>4. n <= z * PageSize BY <3>2, PageSizePositive
    <3>5. z < 0 => z * PageSize + PageSize <= 0 * PageSize BY <3>2, Order
    <3> HIDE DEF z
    <3>6. z \in Nat BY <3>2, <3>4, <3>5, PageSizePositive
    <3> QED BY <3>2, <3>3, <3>4, <3>6
  <2> HIDE DEF size, z
  <2>5. q \in Nat /\ 0 + n <= size /\ a + 0 = a /\ 0 + n = n /\ 0 \in Nat
    BY <2>2, <2>4, PageSizePositive DEF PageIds
  <2>6. r = [m |-> NewArena(Map(m, a, size, "rx"), a, size, 0 + n), addr |-> a + 0] BY <2>1, <2>5
  <2>7. \A p \in Int : q <= p /\ p < q + z => p \in PageIds /\ m.page[p] = "free"
    <3> SUFFICES ASSUME NEW p \in Int, q <= p, p < q + z PROVE p \in PageIds /\ m.page[p] = "free" OBVIOUS
    <3>1. p * PageSize \in Int /\ PageOf(p * PageSize) = p BY FirstOfPage
    <3>2. q < p => q * PageSize + PageSize <= p * PageSize BY <2>5, Order
    <3>3. p * PageSize + PageSize <= (q + z) * PageSize BY <2>4, <2>5, Order
    <3>4. a + size = (q + z) * PageSize BY <2>2, <2>4, <2>5, PageSizePositive
    <3>5. a \in Int BY <2>2, <2>5, FirstOfPage
    <3>6. p * PageSize \in Span(a, size)
      BY <2>2, <2>4, <2>5, <3>1, <3>2, <3>3, <3>4, <3>5, PageSizePositive DEF Span
    <3>7. p * PageSize \in Addresses /\ m.page[p] = "free" BY <2>3, <3>1, <3>6
    <3> QED BY <3>1, <3>7, PageRange
  <2>8. NewBlock(m, q, z, a, size, n, r) BY <2>2, <2>4, <2>5, <2>6, NewArenaGives
  <2>9. \A p \in PageIds : m.page[p] # "free" => r.m.page[p] = m.page[p] /\ r.m.perm[p] = m.perm[p]
    BY <2>7, <2>8, PageSizePositive DEF PageIds, NewBlock
  <2>10. \A p \in Int : q <= p /\ p < q + z => p \in PageIds /\ m.page[p] \notin {"text", "arena"} BY <2>7
  <2>11. Executable(m) => Executable(r.m) BY <2>8 DEF NewBlock, Executable
  <2>12. Tidy(m) => \A p \in foreign : ~(q <= p /\ p < q + z) BY <2>7, PageSizePositive DEF Tidy, PageIds
  <2>13. Tidy(m) => Tidy(r.m) /\ Storable(r.m, r.addr, n) BY <2>8, <2>12 DEF NewBlock
  <2> QED BY <2>8, <2>9, <2>10, <2>11, <2>13 DEF Allocated, NewBlock
<1> QED BY <1>1, <1>2

\* The block found in unused memory lies in it.
LEMMA UnusedGives ==
    ASSUME NEW lo \in Int, NEW hi \in Int, NEW pos \in Int, NEW range \in Int, NEW n \in Nat,
           Unused(lo, hi, pos, range, n) # 0
    PROVE  LET u == Unused(lo, hi, pos, range, n) IN u \in Int /\ lo <= u /\ u + n <= hi
<1> DEFINE u == Unused(lo, hi, pos, range, n)
<1> DEFINE start == Max({lo, pos - range})
           end == Min({hi, pos + range})
<1>1. pos - range \in Int /\ pos + range \in Int OBVIOUS
<1>2. start \in Int /\ lo <= start
  <2>1. \E x \in {lo, pos - range} : \A y \in {lo, pos - range} : x >= y BY <1>1
  <2>2. start \in {lo, pos - range} /\ \A y \in {lo, pos - range} : start >= y BY <2>1 DEF Max
  <2> QED BY <1>1, <2>2
<1>3. end \in Int /\ end <= hi
  <2>1. \E x \in {hi, pos + range} : \A y \in {hi, pos + range} : x <= y BY <1>1
  <2>2. end \in {hi, pos + range} /\ \A y \in {hi, pos + range} : end <= y BY <2>1 DEF Min
  <2> QED BY <1>1, <2>2
<1>4. u = IF hi < pos - range \/ lo > pos + range \/ start >= end \/ end - start < n THEN 0 ELSE start
  BY DEF Unused
<1>5. u # 0 OBVIOUS
<1> HIDE DEF start, end, u
<1>6. u \in Int /\ lo <= u /\ u + n <= hi BY <1>2, <1>3, <1>4, <1>5
<1> QED BY <1>6 DEF u

\* NearMemoryAllocator, from an arena in reach: the block is new.
LEMMA NearArenasGives ==
    ASSUME NEW m \in Machines, NEW n \in Nat, n > 0, NEW pos \in Int, NEW range \in Int,
           NEW r \in NearFromArenas(m, n, pos, range)
    PROVE  Allocated(m, n, r)
<1> DEFINE at(i) == Unused(m.arenas[i].cursor, m.arenas[i].addr + m.arenas[i].size, pos, range, n)
           fit == {i \in DOMAIN m.arenas : at(i) # 0}
           i == Min(fit)
<1>1. fit # {} /\ r = [m |-> Taken(m, i, at(i) - m.arenas[i].cursor + n), addr |-> at(i)]
  BY DEF NearFromArenas
<1>2. i \in fit
  <2>1. fit \subseteq Nat BY DEF Machines
  <2> QED BY <1>1, <2>1, Least
<1>3. i \in DOMAIN m.arenas /\ at(i) # 0 BY <1>2
<1> HIDE DEF i, fit
<1>4. m.arenas[i] \in Arenas BY <1>3 DEF Machines
<1>5. m.arenas[i].addr \in Nat /\ m.arenas[i].size \in Nat /\ m.arenas[i].cursor \in Nat BY <1>4 DEF Arenas
<1>6. at(i) \in Int /\ m.arenas[i].cursor <= at(i) /\ at(i) + n <= m.arenas[i].addr + m.arenas[i].size
  <2>1. m.arenas[i].cursor \in Int /\ m.arenas[i].addr + m.arenas[i].size \in Int BY <1>5
  <2> QED BY <1>3, <2>1, UnusedGives
<1> HIDE DEF at
<1> DEFINE k == at(i) - m.arenas[i].cursor + n
<1>7. k \in Nat /\ n <= k /\ m.arenas[i].cursor + k <= m.arenas[i].addr + m.arenas[i].size
      /\ m.arenas[i].cursor + k - n = at(i)
  BY <1>5, <1>6
<1>8. r = [m |-> Taken(m, i, k), addr |-> at(i)] BY <1>1
<1> HIDE DEF k
<1>9. Allocated(m, n, [m |-> Taken(m, i, k), addr |-> m.arenas[i].cursor + k - n]) BY <1>3, <1>7, TakenGives
<1> QED BY <1>7, <1>8, <1>9

\* The gap found between two regions is free.
LEMMA GapGives ==
    ASSUME NEW page, NEW n \in Nat, n > 0, NEW pos \in Int, NEW range \in Int,
           NEW g, g = NearGap(page, n, pos, range), g # 0
    PROVE  g \in Nat /\ \A b \in Int : g <= b /\ b < g + n => b \in Addresses /\ page[PageOf(b)] = "free"
<1> DEFINE mapped == MemoryLayout(page)
           next(p) == Min({q \in mapped : q > p})
           at(p) == Unused((p + 1) * PageSize, next(p) * PageSize, pos, range, n)
           found == {p \in mapped : (\E q \in mapped : q > p) /\ at(p) # 0}
           f == Min(found)
           l == next(f)
<1>1. found # {} /\ g = at(f) BY DEF NearGap
<1>2. mapped \subseteq PageIds /\ mapped \subseteq Nat BY PageSizePositive DEF MemoryLayout, PageIds
<1>3. f \in found BY <1>1, <1>2, Least
<1>4. f \in mapped /\ (\E q \in mapped : q > f) /\ g # 0 BY <1>3
<1> HIDE DEF f, found
<1>5. l \in mapped /\ l > f /\ \A q \in mapped : q > f => l <= q
  <2> DEFINE S == {q \in mapped : q > f}
  <2>1. S # {} /\ S \subseteq Nat BY <1>2, <1>4
  <2>2. l \in S /\ \A y \in S : l <= y BY <2>1, Least
  <2> QED BY <2>2
<1>6. g = Unused((f + 1) * PageSize, l * PageSize, pos, range, n) BY <1>1
<1> HIDE DEF l, at, next
<1>7. f \in Int /\ l \in Int /\ f + 1 \in Int /\ f >= 0 /\ l < Pages BY <1>2, <1>4, <1>5, PageSizePositive DEF PageIds
<1>8. (f + 1) * PageSize \in Int /\ l * PageSize \in Int BY <1>7, FirstOfPage
<1>9. g \in Int /\ (f + 1) * PageSize <= g /\ g + n <= l * PageSize
  BY <1>4, <1>6, <1>8, UnusedGives
<1>10. g \in Nat
  <2>1. 0 * PageSize + PageSize <= (f + 1) * PageSize BY <1>7, Order
  <2> QED BY <1>8, <1>9, <2>1, PageSizePositive
<1>11. ASSUME NEW b \in Int, g <= b, b < g + n PROVE b \in Addresses /\ page[PageOf(b)] = "free"
  <2>1. (f + 1) * PageSize <= b /\ b < l * PageSize BY <1>8, <1>9, <1>11
  <2>2. f + 1 <= PageOf(b) BY <1>7, <1>8, <2>1, PageOrder, FirstOfPage
  <2>3. PageOf(b) < l
    <3>1. l <= PageOf(b) => l * PageSize <= PageOf(b) * PageSize
      <4> PageOf(b) \in Int /\ PageOf(b) * PageSize \in Int BY PageOfGives
      <4>1. CASE l = PageOf(b) BY <4>1, <1>8
      <4>2. CASE l < PageOf(b)
        <5>1. l * PageSize + PageSize <= PageOf(b) * PageSize BY <4>2, <1>7, PageOfGives, Order
        <5> QED BY <5>1, <1>8, PageOfGives, PageSizePositive
      <4> QED BY <4>1, <4>2, <1>7
    <3> QED BY <1>7, <1>8, <2>1, <3>1, PageOfGives
  <2>4. PageOf(b) \in PageIds BY <1>7, <2>2, <2>3, PageOfGives, PageSizePositive DEF PageIds
  <2>5. PageOf(b) \notin mapped BY <1>5, <1>7, <2>2, <2>3, <2>4, PageOfGives
  <2> QED BY <2>4, <2>5, PageRange DEF MemoryLayout
<1> QED BY <1>10, <1>11

\* The arena mapped around the gap, when the block does not end with a page.
GapArena(m, g, n, u) ==
    /\ u \in Machines /\ (Executable(m) => Executable(u))
    /\ \A p \in PageIds : ~(PageOf(g) <= p /\ p <= PageOf(g + n)) => u.page[p] = m.page[p] /\ u.perm[p] = m.perm[p]
    /\ \A p \in PageIds : PageOf(g) <= p /\ p <= PageOf(g + n) => u.page[p] = "arena"
    /\ \A b \in Int : b \in Span(PageFloor(g), NearArenaSize(g, n)) <=> PageOf(g) <= PageOf(b) /\ PageOf(b) <= PageOf(g + n)
    /\ (\A b \in Int : g <= b /\ b < g + n => b \in Addresses /\ m.page[PageOf(b)] \notin {"text", "arena"})
       /\ PageFloor(g + n) # g + n /\ Laid(m) =>
         /\ \A p \in Int : PageOf(g) <= p /\ p <= PageOf(g + n) => p \in PageIds /\ m.page[p] \notin {"text", "arena"}
         /\ Laid(u)
         /\ Handed(m) \subseteq Handed(u)
         /\ \A b \in Int : g <= b /\ b < g + n => b \in Handed(u) \ Handed(m) /\ u.page[PageOf(b)] = "arena"
         /\ \A b \in Handed(m) : b \notin Span(PageFloor(g), NearArenaSize(g, n))
    /\ Tidy(m) /\ (\A b \in Int : g <= b /\ b < g + n => PageOf(b) \notin foreign) => Tidy(u) /\ Storable(u, g, n)

\* NearMemoryAllocator, from a gap of the address space: the arena is new.
LEMMA GapArenaGives ==
    ASSUME NEW m \in Machines, NEW g \in Nat, NEW n \in Nat, n > 0, NEW u, u = NearFromGap(m, g, n)
    PROVE  GapArena(m, g, n, u)
<1> DEFINE q == PageOf(g)
           l == PageOf(g + n)
           z == l - q + 1
           a == PageFloor(g)
           size == NearArenaSize(g, n)
           k == g - a
           r == [m |-> NewArena(Map(m, a, size, "rx"), a, size, k + n), addr |-> a + k]
<1>1. g \in Int /\ g + n \in Int /\ g <= g + n OBVIOUS
<1>2. q \in Int /\ l \in Int /\ q <= l BY <1>1, PageOfGives, PageOrder
<1>3. /\ a = q * PageSize /\ a \in Int /\ a <= g /\ g < a + PageSize
      /\ l * PageSize \in Int /\ l * PageSize <= g + n /\ g + n < l * PageSize + PageSize
  BY <1>1, PageOfGives DEF PageFloor
<1>4. q \in Nat
  <2>1. q < 0 => q * PageSize + PageSize <= 0 * PageSize BY <1>2, Order
  <2> QED BY <1>2, <1>3, <2>1, PageSizePositive
<1>5. size = l * PageSize - a + PageSize BY DEF NearArenaSize, PageFloor
<1>6. z \in Nat /\ size = z * PageSize /\ size \in Nat
  <2>1. z \in Nat BY <1>2
  <2>2. size = z * PageSize BY <1>2, <1>3, <1>5, PageSizePositive
  <2> QED BY <1>3, <1>5, <2>1, <2>2, PageSizePositive
<1>7. k \in Nat /\ k + n <= size /\ a + k = g BY <1>1, <1>3, <1>5, PageSizePositive
<1>8. u = NewArena(Map(m, a, size, "rx"), a, size, k + n) BY DEF NearFromGap
<1>9. q + z = l + 1 BY <1>2
<1>10. r.m = u /\ r.addr = g BY <1>7, <1>8
<1> HIDE DEF q, l, z, a, size, k
<1>11. NewBlock(m, q, z, a, size, n, r) BY <1>3, <1>4, <1>6, <1>7, NewArenaGives
<1> HIDE DEF r
<1>12. \A p \in Int : q <= p /\ p < q + z <=> q <= p /\ p <= l BY <1>2, <1>9
<1>13. \A b \in Int : b \in Span(a, size) <=> q <= PageOf(b) /\ PageOf(b) <= l
  <2> SUFFICES ASSUME NEW b \in Int PROVE b \in Span(a, size) <=> q <= PageOf(b) /\ PageOf(b) <= l OBVIOUS
  <2>1. b \in Span(a, size) <=> q * PageSize <= b /\ b < l * PageSize + PageSize
    BY <1>3, <1>5, <1>6, PageSizePositive DEF Span
  <2>2. /\ PageOf(b) \in Int /\ PageOf(b) * PageSize \in Int
        /\ PageOf(b) * PageSize <= b /\ b < PageOf(b) * PageSize + PageSize
    BY PageOfGives
  <2>3. q < PageOf(b) => q * PageSize + PageSize <= PageOf(b) * PageSize BY <1>2, <2>2, Order
  <2>4. PageOf(b) < q => PageOf(b) * PageSize + PageSize <= q * PageSize BY <1>2, <2>2, Order
  <2>5. l < PageOf(b) => l * PageSize + PageSize <= PageOf(b) * PageSize BY <1>2, <2>2, Order
  <2>6. PageOf(b) < l => PageOf(b) * PageSize + PageSize <= l * PageSize BY <1>2, <2>2, Order
  <2> QED BY <1>2, <1>3, <2>1, <2>2, <2>3, <2>4, <2>5, <2>6, PageSizePositive
<1>14. ASSUME \A b \in Int : g <= b /\ b < g + n => b \in Addresses /\ m.page[PageOf(b)] \notin {"text", "arena"},
              PageFloor(g + n) # g + n
       PROVE  \A p \in Int : q <= p /\ p <= l => p \in PageIds /\ m.page[p] \notin {"text", "arena"}
  <2> SUFFICES ASSUME NEW p \in Int, q <= p, p <= l PROVE p \in PageIds /\ m.page[p] \notin {"text", "arena"} OBVIOUS
  <2>1. l * PageSize < g + n BY <1>3, <1>14 DEF PageFloor, l
  <2>2. CASE p = q
    <3>1. g \in Addresses /\ m.page[PageOf(g)] \notin {"text", "arena"} BY <1>1, <1>14
    <3> QED BY <2>2, <3>1, PageRange DEF q
  <2>3. CASE p # q
    <3>1. p * PageSize \in Int /\ PageOf(p * PageSize) = p BY FirstOfPage
    <3>2. q < p BY <1>2, <2>3
    <3>3. q * PageSize + PageSize <= p * PageSize BY <1>2, <3>2, Order
    <3>4. p < l => p * PageSize + PageSize <= l * PageSize BY <1>2, Order
    <3>5. g <= p * PageSize /\ p * PageSize < g + n
      BY <1>2, <1>3, <2>1, <3>1, <3>3, <3>4, PageSizePositive
    <3>6. p * PageSize \in Addresses /\ m.page[p] \notin {"text", "arena"} BY <1>14, <3>1, <3>5
    <3> QED BY <3>1, <3>6, PageRange
  <2> QED BY <2>2, <2>3
<1>15. \A b \in Handed(m) : b \in Int BY FirstOfPage, PageSizePositive DEF Handed, Addresses
<1>16. \A p \in PageIds : p \in Int BY DEF PageIds
<1>17. \A p \in PageIds : ~(q <= p /\ p <= l) => u.page[p] = m.page[p] /\ u.perm[p] = m.perm[p]
  BY <1>10, <1>11, <1>12, <1>16 DEF NewBlock
<1>18. \A p \in PageIds : q <= p /\ p <= l => u.page[p] = "arena" BY <1>10, <1>11, <1>12, <1>16 DEF NewBlock
<1>19. ASSUME \A b \in Int : g <= b /\ b < g + n => b \in Addresses /\ m.page[PageOf(b)] \notin {"text", "arena"},
              PageFloor(g + n) # g + n, Laid(m)
       PROVE  /\ Laid(u)
              /\ Handed(m) \subseteq Handed(u)
              /\ \A b \in Int : g <= b /\ b < g + n => b \in Handed(u) \ Handed(m) /\ u.page[PageOf(b)] = "arena"
              /\ \A b \in Handed(m) : b \notin Span(a, size)
  <2>1. \A p \in Int : q <= p /\ p < q + z => p \in PageIds /\ m.page[p] \notin {"text", "arena"} BY <1>12, <1>14, <1>19
  <2>2. \A b \in Handed(m) : ~(a <= b /\ b < a + size) BY <1>11, <1>19, <2>1 DEF NewBlock
  <2>3. \A b \in Handed(m) : b \notin Span(a, size) BY <1>3, <1>6, <1>15, <2>2 DEF Span
  <2> QED BY <1>10, <1>11, <1>19, <2>1, <2>3 DEF NewBlock
<1>20. u \in Machines /\ (Executable(m) => Executable(u))
  <2>1. u \in Machines BY <1>10, <1>11 DEF NewBlock
  <2>2. Executable(m) => Executable(u) BY <1>10, <1>11 DEF NewBlock, Executable
  <2> QED BY <2>1, <2>2
<1>21. ASSUME Tidy(m), \A b \in Int : g <= b /\ b < g + n => PageOf(b) \notin foreign
       PROVE  Tidy(u) /\ Storable(u, g, n)
  <2>1. ASSUME NEW p \in foreign, q <= p, p < q + z PROVE q < p /\ p = q + z - 1 /\ p * PageSize <= r.addr + n
    <3>1. p \in Int /\ p * PageSize \in Int /\ PageOf(p * PageSize) = p /\ p <= l
      <4>1. p \in PageIds BY <1>21, <2>1 DEF Tidy
      <4>2. p \in Int BY <1>16, <4>1
      <4> QED BY <1>12, <2>1, <4>2, FirstOfPage
    <3>2. q \notin foreign BY <1>1, <1>21 DEF q
    <3>3. q < p BY <1>2, <2>1, <3>1, <3>2
    <3>4. q * PageSize + PageSize <= p * PageSize BY <1>2, <3>1, <3>3, Order
    <3>5. ~(p * PageSize < g + n)
      <4>0. a + PageSize <= p * PageSize /\ g < a + PageSize /\ a \in Int BY <1>3, <3>4
      <4>1. g <= p * PageSize BY ONLY <1>1, <3>1, <4>0, PageSizePositive
      <4> QED BY <1>21, <2>1, <3>1, <4>1
    <3>6. p < l => p * PageSize + PageSize <= l * PageSize BY <1>2, <3>1, Order
    <3>7. p = l BY <1>1, <1>2, <1>3, <3>1, <3>5, <3>6, PageSizePositive
    <3>8. p = q + z - 1
      <4>1. z \in Int BY <1>6
      <4> QED BY ONLY <1>2, <1>9, <3>1, <3>7, <4>1
    <3>9. p * PageSize <= r.addr + n BY <1>3, <1>10, <3>7
    <3> QED BY <3>3, <3>8, <3>9
  <2> QED BY <1>10, <1>11, <1>21, <2>1 DEF NewBlock
<1> QED BY <1>13, <1>14, <1>17, <1>18, <1>19, <1>20, <1>21 DEF q, l, a, size, GapArena

-----------------------------------------------------------------------------
(* Words, and steps that allocate and store code.                          *)

Words ==
    [k : {"insn"}, at : Int] \cup [k : {"jump"}, to : Int, i : Int, n : Int]
    \cup [k : {"closure"}, id : Int] \cup {NoWord}
Code == [Addresses -> Words]
Sites == Functions \cup Points

\* Addresses are numbers.
LEMMA AddressesNat == \A b \in Addresses : b \in Nat /\ b \in Int
BY FirstOfPage, PageSizePositive DEF Addresses

\* What the assumptions say of the bounds and of the text.
LEMMA Constants ==
    /\ TrampSize \in Nat /\ TrampSize >= 1 /\ BranchRange \in Nat /\ MaxOps \in Nat /\ Replacements \in Nat
    /\ ForwardSize = 3 /\ Text \subseteq Addresses /\ Addresses \subseteq Nat
    /\ Sites \subseteq Text /\ Sites \subseteq Nat
    /\ \A a \in Sites : \A b \in Int : a <= b /\ b < a + TrampSize => b \in Text
<1>1. Addresses \subseteq Nat /\ Text \subseteq Addresses BY FirstOfPage, PageSizePositive DEF Addresses, Text
<1>2. \A a \in Sites : \A b \in Int : a <= b /\ b < a + TrampSize => b \in Text
  <2> SUFFICES ASSUME NEW a \in Sites, NEW b \in Int, a <= b, b < a + TrampSize PROVE b \in Text OBVIOUS
  <2>0. a \in Text BY TextAssumption DEF Sites
  <2>1. a \in Int /\ TrampSize \in Int BY <1>1, <2>0, BoundsAssumption
  <2>2. b \in Span(a, TrampSize) BY <2>1 DEF Span
  <2> QED BY <2>2, TextAssumption DEF Sites
<1>3. Sites \subseteq Text BY TextAssumption DEF Sites
<1> QED BY <1>1, <1>2, <1>3, BoundsAssumption DEF ForwardSize

\* A site lies in the text.
LEMMA SitesGive == \A a \in Sites : a \in Nat /\ a \in Int /\ a \in Text
BY Constants

\* What is known of a page of the library.
LEMMA TextPage == ASSUME NEW a \in Text PROVE a \in Int /\ PageOf(a) \in TextPages /\ PageOf(a) \in PageIds
BY Constants, TextAssumption DEF Text

\* The words of a trampoline.
LEMMA TrampolineGives ==
    ASSUME NEW to \in Int, NEW n \in Nat
    PROVE  /\ Trampoline(to, n) \in Seq(Words) /\ Len(Trampoline(to, n)) = n
           /\ \A i \in 1..n : Trampoline(to, n)[i] = Jump(to, i, n)
<1>1. \A i \in 1..n : Jump(to, i, n) \in Words BY DEF Jump, Words
<1>2. Trampoline(to, n) = [i \in 1..n |-> Jump(to, i, n)] BY DEF Trampoline
<1> QED BY <1>1, <1>2

\* The memory w with ws at a.
Stamped(w, a, ws) == [b \in Addresses |-> IF b \in Span(a, Len(ws)) THEN ws[b - a + 1] ELSE w[b]]

\* Writing words to memory changes those words only.
LEMMA StampedGives ==
    ASSUME NEW w \in Code, NEW a \in Int, NEW ws \in Seq(Words)
    PROVE  /\ Stamped(w, a, ws) \in Code
           /\ \A b \in Addresses : ~(a <= b /\ b < a + Len(ws)) => Stamped(w, a, ws)[b] = w[b]
           /\ \A j \in 1..Len(ws) : a + j - 1 \in Addresses => Stamped(w, a, ws)[a + j - 1] = ws[j]
<1> DEFINE x == Stamped(w, a, ws)
<1>1. Len(ws) \in Nat OBVIOUS
<1>2. \A b \in Addresses : b \in Int /\ (b \in Span(a, Len(ws)) <=> a <= b /\ b < a + Len(ws))
  BY <1>1, Constants DEF Span
<1>3. \A b \in Addresses : b \in Span(a, Len(ws)) => b - a + 1 \in 1..Len(ws) /\ ws[b - a + 1] \in Words
  BY <1>1, <1>2
<1>4. x = [b \in Addresses |-> IF b \in Span(a, Len(ws)) THEN ws[b - a + 1] ELSE w[b]] BY DEF Stamped
<1>5. \A b \in Addresses : (IF b \in Span(a, Len(ws)) THEN ws[b - a + 1] ELSE w[b]) \in Words BY <1>3 DEF Code
<1>6. x \in Code BY <1>4, <1>5 DEF Code
<1>7. \A b \in Addresses : ~(a <= b /\ b < a + Len(ws)) => x[b] = w[b] BY <1>2, <1>4
<1>8. ASSUME NEW j \in 1..Len(ws), a + j - 1 \in Addresses PROVE x[a + j - 1] = ws[j]
  <2>1. a + j - 1 \in Span(a, Len(ws)) /\ a + j - 1 - a + 1 = j BY <1>1, <1>2, <1>8
  <2> QED BY <1>4, <1>8, <2>1
<1> QED BY <1>6, <1>7, <1>8

\* From m, w and the limits L to n, x and K code was allocated and written: what
\* was handed out before, and the library, are as they were.
Grown(m, w, L, n, x, K) ==
    /\ n \in Machines /\ x \in Code /\ L \subseteq K /\ (Executable(m) => Executable(n))
    /\ \A p \in PageIds : m.page[p] # "free" => n.page[p] # "free"
    /\ "edge" \notin K /\ Laid(m) =>
         Laid(n) /\ Handed(m) \subseteq Handed(n) /\ \A b \in Text \cup Handed(m) : x[b] = w[b]
    /\ "stale" \notin K /\ Tidy(m) => Tidy(n)

\* Two steps that only add blocks are one.
LEMMA GrownTwice ==
    ASSUME NEW m, NEW w, NEW L, NEW n, NEW x, NEW K, NEW o, NEW y, NEW J,
           Grown(m, w, L, n, x, K), Grown(n, x, K, o, y, J)
    PROVE  Grown(m, w, L, o, y, J)
<1>1. o \in Machines /\ y \in Code /\ L \subseteq J /\ (Executable(m) => Executable(o)) BY DEF Grown
<1>2. \A p \in PageIds : m.page[p] # "free" => o.page[p] # "free" BY DEF Grown
<1>3. ASSUME "edge" \notin J, Laid(m)
      PROVE  Laid(n) /\ Laid(o) /\ Handed(m) \subseteq Handed(o) /\ \A b \in Text \cup Handed(m) : y[b] = w[b]
  <2>1. "edge" \notin K BY <1>3 DEF Grown
  <2>2. Laid(n) /\ Handed(m) \subseteq Handed(n) /\ \A b \in Text \cup Handed(m) : x[b] = w[b]
    BY <1>3, <2>1 DEF Grown
  <2>3. Laid(o) /\ Handed(n) \subseteq Handed(o) /\ \A b \in Text \cup Handed(n) : y[b] = x[b]
    BY <1>3, <2>2 DEF Grown
  <2> QED BY <2>2, <2>3
<1>4. "stale" \notin J /\ Tidy(m) => Tidy(o) BY DEF Grown
<1> QED BY <1>1, <1>2, <1>3, <1>4 DEF Grown

\* The block of n words at a was handed out and holds ws.
Holds(u, x, a, n, ws) ==
    /\ \A j \in 1..n : x[a + j - 1] = ws[j]
    /\ \A b \in Int : a <= b /\ b < a + n => b \in Handed(u)

\* A block is allocated and written.
LEMMA StoreGrown ==
    ASSUME NEW m, NEW w \in Code, NEW L, NEW ws \in Seq(Words), NEW n \in Nat, Len(ws) = n, n > 0,
           NEW r, Allocated(m, n, r), NEW u, u = Stored(r.m, r.addr, ws), NEW x, x = Stamped(w, r.addr, ws)
    PROVE  /\ Grown(m, w, L, u, x, L \cup BeyondEnd(r.addr, n))
           /\ Laid(m) => Holds(u, x, r.addr, n, ws)
<1>1. r.m \in Machines /\ r.addr \in Nat BY DEF Allocated
<1>2. /\ u \in Machines /\ u.page = r.m.page /\ u.arenas = r.m.arenas
      /\ \A p \in PageIds :
            u.perm[p] = IF p \in PatchPages(r.addr, n) /\ r.m.page[p] # "free" THEN "rx" ELSE r.m.perm[p]
  BY <1>1, ProtectGives DEF Stored, Perms
<1>3. (Laid(r.m) <=> Laid(u)) /\ Handed(u) = Handed(r.m) BY <1>2, LaidKept
<1>4. /\ x \in Code
      /\ \A b \in Addresses : ~(r.addr <= b /\ b < r.addr + n) => x[b] = w[b]
      /\ \A j \in 1..n : r.addr + j - 1 \in Addresses => x[r.addr + j - 1] = ws[j]
  BY <1>1, StampedGives
<1>5. ASSUME Laid(m)
      PROVE  /\ Laid(u) /\ Handed(m) \subseteq Handed(u) /\ \A b \in Text \cup Handed(m) : x[b] = w[b]
             /\ \A b \in Int : r.addr <= b /\ b < r.addr + n =>
                    b \in Addresses /\ b \in Handed(u) /\ r.m.page[PageOf(b)] = "arena"
  <2>1. /\ Laid(r.m) /\ Handed(m) \subseteq Handed(r.m)
        /\ \A b \in Int : r.addr <= b /\ b < r.addr + n =>
               b \in Handed(r.m) \ Handed(m) /\ r.m.page[PageOf(b)] = "arena"
    BY <1>5 DEF Allocated
  <2>2. \A b \in Text : r.m.page[PageOf(b)] = "text" /\ b \in Int /\ b \in Addresses BY <2>1, TextPage DEF Laid, Text
  <2>3. \A b \in Handed(m) : b \in Addresses /\ b \in Int
    <3>1. \A b \in Handed(m) : b \in Addresses BY DEF Handed
    <3> QED BY <3>1, AddressesNat
  <2>4. \A b \in Text \cup Handed(m) : ~(r.addr <= b /\ b < r.addr + n) BY <2>1, <2>2, <2>3
  <2>5. \A b \in Text \cup Handed(m) : x[b] = w[b] BY <1>4, <2>2, <2>3, <2>4
  <2> QED BY <1>3, <2>1, <2>5 DEF Handed
<1>6. \A p \in PageIds : m.page[p] # "free" => u.page[p] # "free" BY <1>2 DEF Allocated
<1>7. ASSUME Tidy(m) PROVE Tidy(u)
  <2>1. Tidy(r.m) /\ \A p \in foreign : p \in PatchPages(r.addr, n) => Filled(r.m, p) BY <1>7 DEF Allocated, Storable
  <2> QED BY <1>1, <2>1, ProtectTidy DEF Stored, Perms
<1>e. Executable(m) => Executable(u) BY <1>1, ProtectExecutable DEF Stored, Allocated
<1>8. Grown(m, w, L, u, x, L \cup BeyondEnd(r.addr, n)) BY <1>2, <1>4, <1>5, <1>6, <1>7, <1>e DEF Grown
<1>9. ASSUME Laid(m) PROVE \A j \in 1..n : x[r.addr + j - 1] = ws[j]
  <2> SUFFICES ASSUME NEW j \in 1..n PROVE x[r.addr + j - 1] = ws[j] OBVIOUS
  <2>1. r.addr + j - 1 \in Int /\ r.addr <= r.addr + j - 1 /\ r.addr + j - 1 < r.addr + n BY <1>1
  <2>2. r.addr + j - 1 \in Addresses BY <1>5, <1>9, <2>1
  <2> QED BY <1>4, <2>2
<1> QED BY <1>5, <1>8, <1>9 DEF Holds
\* Nothing was allocated.
LEMMA GrownNone == ASSUME NEW m \in Machines, NEW w \in Code, NEW L PROVE Grown(m, w, L, m, w, L)
BY DEF Grown

\* An arena is mapped with MAP_FIXED over the gap g and a block written to it.
LEMMA GapGrown ==
    ASSUME NEW m \in Machines, NEW w \in Code, NEW L, NEW g \in Nat, NEW ws \in Seq(Words), Len(ws) = ForwardSize,
           \A b \in Int : g <= b /\ b < g + ForwardSize => b \in Addresses /\ m.page[PageOf(b)] \notin {"text", "arena"},
           NEW u, u = Stored(NearFromGap(m, g, ForwardSize), g, ws),
           NEW hit, hit = Span(PageFloor(g), NearArenaSize(g, ForwardSize)),
           NEW y, y = [b \in Addresses |-> IF b \in hit THEN NoWord ELSE w[b]],
           NEW x, x = Stamped(y, g, ws),
           NEW K, L \subseteq K, BeyondEnd(g, ForwardSize) \subseteq K,
           PageFloor(g + ForwardSize) = g + ForwardSize => "edge" \in K,
           "stale" \notin K => \A b \in Int : g <= b /\ b < g + ForwardSize => PageOf(b) \notin foreign
    PROVE  /\ Grown(m, w, L, u, x, K)
           /\ "edge" \notin K /\ Laid(m) => Holds(u, x, g, ForwardSize, ws)
<1> DEFINE n == ForwardSize
           v == NearFromGap(m, g, n)
<1>0. n \in Nat /\ n > 0 /\ g \in Int /\ g + n \in Int /\ g <= g + n BY Constants
<1> HIDE DEF n
<1>g. GapArena(m, g, n, v) BY <1>0, GapArenaGives
<1> HIDE DEF v
<1>1. /\ v \in Machines
      /\ \A p \in PageIds : ~(PageOf(g) <= p /\ p <= PageOf(g + n)) => v.page[p] = m.page[p] /\ v.perm[p] = m.perm[p]
      /\ \A p \in PageIds : PageOf(g) <= p /\ p <= PageOf(g + n) => v.page[p] = "arena"
      /\ \A b \in Int : b \in hit <=> PageOf(g) <= PageOf(b) /\ PageOf(b) <= PageOf(g + n)
  BY <1>g DEF n, GapArena
<1>2. ASSUME PageFloor(g + n) # g + n, Laid(m)
      PROVE  /\ \A p \in Int : PageOf(g) <= p /\ p <= PageOf(g + n) => p \in PageIds /\ m.page[p] \notin {"text", "arena"}
             /\ Laid(v) /\ Handed(m) \subseteq Handed(v)
             /\ \A b \in Int : g <= b /\ b < g + n => b \in Handed(v) \ Handed(m) /\ v.page[PageOf(b)] = "arena"
             /\ \A b \in Handed(m) : b \notin hit
  BY <1>2, <1>g DEF n, GapArena
<1>3. /\ u \in Machines /\ u.page = v.page /\ u.arenas = v.arenas
      /\ \A p \in PageIds : u.perm[p] = IF p \in PatchPages(g, n) /\ v.page[p] # "free" THEN "rx" ELSE v.perm[p]
  BY <1>1, ProtectGives DEF Stored, Perms, n, v
<1>4. (Laid(v) <=> Laid(u)) /\ Handed(u) = Handed(v) BY <1>3, LaidKept
<1>5. y \in Code BY DEF Code, Words
<1>6. /\ x \in Code /\ \A b \in Addresses : ~(g <= b /\ b < g + n) => x[b] = y[b]
      /\ \A j \in 1..n : g + j - 1 \in Addresses => x[g + j - 1] = ws[j]
  <2>1. Len(ws) = n BY DEF n
  <2>2. ws \in Seq(Words) /\ x = Stamped(y, g, ws) OBVIOUS
  <2> QED BY ONLY <1>0, <1>5, <2>1, <2>2, StampedGives
<1>7. \A p \in PageIds : m.page[p] # "free" => u.page[p] # "free" BY <1>1, <1>3
<1>8. ASSUME "edge" \notin K, Laid(m)
      PROVE  Laid(u) /\ Handed(m) \subseteq Handed(u) /\ \A b \in Text \cup Handed(m) : x[b] = w[b]
  <2>1. PageFloor(g + n) # g + n BY <1>8 DEF n
  <2>2. ASSUME NEW b \in Text PROVE b \in Addresses /\ b \in Int /\ b \notin hit /\ ~(g <= b /\ b < g + n)
    <3>1. b \in Int /\ b \in Addresses /\ PageOf(b) \in TextPages BY TextPage DEF Text
    <3>2. m.page[PageOf(b)] = "text" BY <1>8, <3>1 DEF Laid
    <3>3. PageOf(b) \in Int BY <3>1, PageOfGives
    <3>4. b \notin hit BY <1>1, <1>2, <1>8, <2>1, <3>1, <3>2, <3>3
    <3>5. ~(g <= b /\ b < g + n) BY <3>1, <3>2 DEF n
    <3> QED BY <3>1, <3>4, <3>5
  <2>3. ASSUME NEW b \in Handed(m) PROVE b \in Addresses /\ b \in Int /\ b \notin hit /\ ~(g <= b /\ b < g + n)
    <3>1. b \in Addresses BY DEF Handed
    <3>2. b \in Int BY <3>1, Constants
    <3> QED BY <1>2, <1>8, <2>1, <3>1, <3>2
  <2>4. \A b \in Text \cup Handed(m) : x[b] = w[b] BY <1>6, <2>2, <2>3
  <2> QED BY <1>2, <1>4, <1>8, <2>1, <2>4
<1>9. ASSUME "stale" \notin K, Tidy(m) PROVE Tidy(u)
  <2>1. Tidy(v) /\ \A p \in foreign : p \in PatchPages(g, n) => Filled(v, p) BY <1>9, <1>g DEF GapArena, Storable, n
  <2> QED BY <1>1, <2>1, ProtectTidy DEF Stored, Perms, n, v
<1>e. Executable(m) => Executable(u)
  <2>1. Executable(m) => Executable(v) BY <1>g DEF GapArena
  <2> QED BY <1>1, <2>1, ProtectExecutable DEF Stored, n, v
<1>h. ASSUME "edge" \notin K, Laid(m) PROVE Holds(u, x, g, n, ws)
  <2>1. PageFloor(g + n) # g + n BY <1>h DEF n
  <2>2. \A b \in Int : g <= b /\ b < g + n => b \in Handed(u) BY <1>2, <1>4, <1>h, <2>1
  <2>3. ASSUME NEW j \in 1..n PROVE x[g + j - 1] = ws[j]
    <3>1. g + j - 1 \in Int /\ g <= g + j - 1 /\ g + j - 1 < g + n BY <1>0
    <3>2. g + j - 1 \in Addresses BY <3>1 DEF n
    <3> QED BY <1>6, <3>2
  <2> QED BY <2>2, <2>3 DEF Holds
<1> QED BY <1>3, <1>6, <1>7, <1>8, <1>9, <1>e, <1>h DEF Grown, n

\* A protection that was changed.
LEMMA ProtectGrown ==
    ASSUME NEW m \in Machines, NEW w \in Code, NEW L, NEW K, L \subseteq K, NEW ps, NEW prot \in {"rx", "rwx"},
           \A p \in foreign : p \in ps => Filled(m, p)
    PROVE  Grown(m, w, L, Protect(m, ps, prot), w, K)
<1> DEFINE u == Protect(m, ps, prot)
<1>1. /\ u \in Machines /\ u.page = m.page /\ u.arenas = m.arenas
      /\ \A p \in PageIds : u.perm[p] = IF p \in ps /\ m.page[p] # "free" THEN prot ELSE m.perm[p]
  BY ProtectGives DEF Perms
<1>e. Executable(m) => Executable(u) BY ProtectExecutable
<1>t. Tidy(m) => Tidy(u) BY ProtectTidy DEF Perms
<1> HIDE DEF u
<1>2. (Laid(m) <=> Laid(u)) /\ Handed(u) = Handed(m) BY <1>1, LaidKept
<1>4. Grown(m, w, L, u, w, K) BY <1>1, <1>2, <1>e, <1>t DEF Grown
<1> QED BY <1>4 DEF u

\* Such as the pages of a patch of the library: the word behind the patch is in the
\* library too, unless the longest trampoline ends with the last page.
LEMMA PatchGrown ==
    ASSUME NEW m \in Machines, NEW w \in Code, NEW L, NEW K, NEW a \in Sites, NEW n \in 1..TrampSize,
           NEW prot \in {"rx", "rwx"}, foreign \subseteq PageIds, foreign \cap TextPages = {}, L \subseteq K
    PROVE  Grown(m, w, L, Protect(m, PatchPages(a, n), prot), w, K)
<1>1. a \in Int /\ a \in Text /\ PageOf(a) \in TextPages BY SitesGive, TextPage
<1>2. n \in Int /\ n >= 1 /\ n <= TrampSize /\ TrampSize \in Int BY Constants
<1>3. ASSUME NEW p \in foreign, p \in PatchPages(a, n) PROVE Filled(m, p)
  <2>1. p = PageOf(a + n) /\ p \notin TextPages /\ p \in Int /\ p * PageSize \in Int
    <3>1. p \in Int BY <1>3 DEF PageIds
    <3> QED BY <1>1, <1>3, <3>1, FirstOfPage DEF PatchPages
  <2>2. a + n \in Int /\ a + n - 1 \in Int BY <1>1, <1>2
  <2>3. a + n \notin Text BY <2>1, TextPage
  <2>4. n = TrampSize
    <3>1. n < TrampSize => a + n \in Text BY <1>1, <1>2, <2>2, Constants
    <3> QED BY <1>2, <2>3, <3>1
  <2>5. a + n - 1 \in Text BY <1>1, <1>2, <2>2, Constants
  <2>6. PageOf(a + n - 1) \in Int /\ PageOf(a + n - 1) <= p /\ PageOf(a + n - 1) # p
    <3>1. a + n - 1 <= a + n BY <1>1, <1>2
    <3>2. PageOf(a + n - 1) <= PageOf(a + n) BY <2>2, <3>1, PageOrder
    <3>3. PageOf(a + n - 1) \in Int /\ PageOf(a + n - 1) \in TextPages BY <2>2, <2>5, PageOfGives, TextPage
    <3> QED BY <2>1, <3>2, <3>3
  <2>7. PageOf(a + n - 1) * PageSize + PageSize <= p * PageSize BY <2>1, <2>6, Order
  <2>8. a + n - 1 < p * PageSize /\ p * PageSize <= a + n BY <2>1, <2>2, <2>7, PageOfGives, PageSizePositive
  <2>9. p * PageSize = a + TrampSize BY <1>1, <1>2, <2>1, <2>4, <2>8
  <2> QED BY <2>9 DEF Filled, Sites
<1> QED BY <1>3, ProtectGrown

-----------------------------------------------------------------------------
(* The invariant.                                                          *)

Entries ==
    {e \in [id : Nat, addr : Sites, origin : Seq(Words), relocated : Nat] : Len(e.origin) \in 1..TrampSize}

\* The relocated code of e, an entry or the call in progress: its instructions
\* and the branch to the first one that stays.
Block(m, w, e) ==
    /\ \A b \in Int : e.relocated <= b /\ b <= e.relocated + Len(e.origin) => b \in Handed(m)
    /\ \A j \in 1..Len(e.origin) : w[e.relocated + j - 1] = e.origin[j]
    /\ w[e.relocated + Len(e.origin)] = Jump(e.addr + Len(e.origin), 1, 1)

Covers(e, a) == e.addr <= a /\ a < e.addr + Len(e.origin)

\* The library differs from what was linked where entries cover it, and an entry
\* saved an instruction of the library where no earlier entry covers it.
Matched(w, es) ==
    /\ \A a \in Text : w[a] = Insn(a) <=> \A i \in DOMAIN es : ~Covers(es[i], a)
    /\ \A i \in DOMAIN es : \A a \in Text : Covers(es[i], a) =>
         (es[i].origin[a - es[i].addr + 1] = Insn(a) <=> \A j \in DOMAIN es : j < i => ~Covers(es[j], a))

Typed ==
    /\ mm \in Machines /\ mem \in Code /\ entries \in Seq(Entries)
    /\ foreign \subseteq PageIds /\ calls \in 0..MaxOps

Standing ==
    /\ foreign \cap TextPages = {}
    /\ \A p \in TextPages \cup foreign : mm.page[p] # "free"
    /\ "edge" \notin limits => Laid(mm) /\ \A i \in DOMAIN entries : Block(mm, mem, entries[i])
    /\ "stale" \notin limits => Tidy(mm)
    /\ {"crossed", "edge"} \cap limits = {} => Matched(mem, entries)

\* The gap that will be mapped, and that nobody has taken; the words of a trampoline; an entry none of whose
\* instructions a later entry covers.
Gap(m, g) ==
    g \in Nat /\ \A b \in Int : g <= b /\ b < g + ForwardSize =>
                    b \in Addresses /\ m.page[PageOf(b)] \notin {"text", "arena"}
Vacant(g) == \A b \in Int : g <= b /\ b < g + ForwardSize => PageOf(b) \notin foreign
Jumps(tr) == tr \in Seq(Words) /\ Len(tr) \in 1..TrampSize /\ \A j \in 1..Len(tr) : tr[j].k = "jump"
Uncrossed(es, i) == \A j \in DOMAIN es : j > i => \A a \in Text : ~(Covers(es[j], a) /\ Covers(es[i], a))

\* What the call in progress has done so far.
Saved(m, w, o) == Block(m, w, o) /\ \A j \in 1..Len(o.origin) : o.origin[j] = w[o.addr + j - 1]
Underway ==
    /\ op.at \in {"idle", "route", "map", "relocate", "relocated", "committed", "restore"}
    /\ op.at \in {"route", "map", "relocate", "relocated", "committed"} => op.addr \in Sites /\ op.id \in Nat
    /\ op.at = "map" => Gap(mm, op.gap) /\ op.dst \in Int /\ ("stale" \notin limits => Vacant(op.gap))
    /\ op.at \in {"relocate", "relocated", "committed"} => Jumps(op.tramp)
    /\ op.at \in {"relocated", "committed"} =>
         /\ op.relocated \in Nat /\ op.origin \in Seq(Words) /\ Len(op.origin) = Len(op.tramp)
         /\ "edge" \notin limits => Saved(mm, mem, op)
    /\ op.at = "committed" => patch = <<op.addr, op.tramp>>
    /\ op.at = "restore" =>
         /\ op.entry \in DOMAIN entries
         /\ patch = <<entries[op.entry].addr, entries[op.entry].origin>>
         /\ ~op.crossed => Uncrossed(entries, op.entry)

DobbyInv == Typed /\ Standing /\ Underway

\* What an entry of the Interceptor is: a site, its words, and where they were relocated to.
LEMMA EntryGives ==
    ASSUME NEW e \in Entries
    PROVE  /\ e.id \in Nat /\ e.addr \in Sites /\ e.addr \in Text /\ e.addr \in Nat
           /\ e.relocated \in Nat /\ e.origin \in Seq(Words)
           /\ Len(e.origin) \in Nat /\ Len(e.origin) >= 1 /\ Len(e.origin) <= TrampSize
           /\ \A b \in Int : b \in EntrySpan(e) <=> Covers(e, b)
           /\ \A b \in Int : Covers(e, b) => b \in Text
<1>1. e.id \in Nat /\ e.addr \in Sites /\ e.relocated \in Nat /\ e.origin \in Seq(Words) /\ Len(e.origin) \in 1..TrampSize
  BY DEF Entries
<1>2. e.addr \in Text /\ e.addr \in Nat BY <1>1, Constants
<1>3. Len(e.origin) \in Nat /\ Len(e.origin) >= 1 /\ Len(e.origin) <= TrampSize BY <1>1, Constants
<1>4. \A b \in Int : b \in EntrySpan(e) <=> Covers(e, b) BY <1>2, <1>3 DEF EntrySpan, Span, Covers
<1>5. \A b \in Int : Covers(e, b) => b \in Text
  <2> SUFFICES ASSUME NEW b \in Int, Covers(e, b) PROVE b \in Text OBVIOUS
  <2>1. e.addr <= b /\ b < e.addr + TrampSize BY <1>2, <1>3, Constants DEF Covers
  <2> QED BY <1>1, <2>1, Constants
<1> QED BY <1>1, <1>2, <1>3, <1>4, <1>5

\* A relocated block stays as it is while handed-out memory does.
LEMMA BlockKept ==
    ASSUME NEW m, NEW w, NEW e, e.relocated \in Nat, Len(e.origin) \in Nat, Block(m, w, e),
           NEW n, NEW x, Handed(m) \subseteq Handed(n), \A b \in Handed(m) : x[b] = w[b]
    PROVE  Block(n, x, e)
<1> DEFINE l == Len(e.origin)
<1>1. \A b \in Int : e.relocated <= b /\ b <= e.relocated + l => b \in Handed(m) /\ x[b] = w[b] BY DEF Block
<1>2. \A j \in 1..l : w[e.relocated + j - 1] = e.origin[j] BY DEF Block
<1>3. \A j \in 1..l : x[e.relocated + j - 1] = w[e.relocated + j - 1]
  <2> SUFFICES ASSUME NEW j \in 1..l PROVE x[e.relocated + j - 1] = w[e.relocated + j - 1] OBVIOUS
  <2>1. e.relocated + j - 1 \in Int /\ e.relocated <= e.relocated + j - 1 /\ e.relocated + j - 1 <= e.relocated + l OBVIOUS
  <2> QED BY <1>1, <2>1
<1>4. x[e.relocated + l] = w[e.relocated + l] BY <1>1
<1> QED BY <1>1, <1>2, <1>3, <1>4 DEF Block

\* Text that does not change still matches the entries.
LEMMA MatchedKept ==
    ASSUME NEW w, NEW x, NEW es, Matched(w, es), \A a \in Text : x[a] = w[a] PROVE Matched(x, es)
BY DEF Matched

\* A step that only allocates, stores and protects.
LEMMA GrownStep ==
    ASSUME Typed, Standing, Grown(mm, mem, limits, mm', mem', limits'),
           UNCHANGED <<foreign, entries>>, calls' \in 0..MaxOps
    PROVE  Typed' /\ Standing'
<1>1. Typed' BY DEF Typed, Grown
<1>2. limits \subseteq limits' BY DEF Grown
<1>3. (foreign \cap TextPages = {})' BY DEF Standing
<1>4. (\A p \in TextPages \cup foreign : mm.page[p] # "free")'
  <2>1. \A p \in TextPages \cup foreign : p \in PageIds /\ mm.page[p] # "free" BY TextAssumption DEF Typed, Standing
  <2> QED BY <2>1 DEF Grown
<1>5. ASSUME "edge" \notin limits'
      PROVE  Laid(mm) /\ Laid(mm') /\ \A i \in DOMAIN entries' : Block(mm', mem', entries'[i])
  <2>1. Laid(mm) /\ \A i \in DOMAIN entries : Block(mm, mem, entries[i]) BY <1>2, <1>5 DEF Standing
  <2>2. Laid(mm') /\ Handed(mm) \subseteq Handed(mm') /\ \A b \in Handed(mm) : mem'[b] = mem[b] BY <1>5, <2>1 DEF Grown
  <2>3. ASSUME NEW i \in DOMAIN entries PROVE Block(mm', mem', entries[i])
    <3>1. entries[i] \in Entries BY DEF Typed
    <3> QED BY <2>1, <2>2, <3>1, EntryGives, BlockKept
  <2> QED BY <2>1, <2>2, <2>3
<1>6. ASSUME "stale" \notin limits' PROVE Tidy(mm)'
  <2>1. Tidy(mm) BY <1>2, <1>6 DEF Standing
  <2>2. Tidy(mm') BY <1>6, <2>1 DEF Grown
  <2> QED BY <2>2 DEF Tidy
<1>7. ASSUME {"crossed", "edge"} \cap limits' = {} PROVE Matched(mem', entries')
  <2>1. {"crossed", "edge"} \cap limits = {} /\ "edge" \notin limits' BY <1>2, <1>7
  <2>2. Matched(mem, entries) BY <2>1 DEF Standing
  <2>3. \A a \in Text : mem'[a] = mem[a] BY <1>5, <2>1 DEF Grown
  <2> QED BY <2>2, <2>3, MatchedKept
<1>8. Standing' BY <1>3, <1>4, <1>5, <1>6, <1>7 DEF Standing
<1> QED BY <1>1, <1>8

\* Nothing is hooked at first.
LEMMA DobbyInit == ASSUME Init PROVE DobbyInv
<1>1. mm \in Machines /\ mm.arenas = <<>>
  <2>1. mm.arenas \in Seq(Arenas) /\ mm.arenas = <<>> BY DEF Init
  <2> QED BY <2>1 DEF Init, Machines, PageUses, Perms
<1>2. \A p \in TextPages : p \in PageIds /\ mm.page[p] = "text" BY TextAssumption DEF Init
<1>3. \A p \in LowPages : p \in PageIds /\ p \notin TextPages /\ mm.page[p] = "foreign" /\ mm.perm[p] = "rw"
  BY TextAssumption DEF Init
<1>4. mem \in Code /\ \A a \in Text : mem[a] = Insn(a)
  <2>1. \A a \in Addresses : Insn(a) \in Words /\ NoWord \in Words BY AddressesNat DEF Insn, Words
  <2> QED BY <2>1, Constants DEF Init, Code
<1>5. entries = <<>> /\ entries \in Seq(Entries) /\ DOMAIN entries = {} BY DEF Init
<1>6. Typed BY <1>1, <1>4, <1>5, TextAssumption, BoundsAssumption DEF Init, Typed
<1>7. Laid(mm) BY <1>1, <1>2 DEF Laid
<1>8. Matched(mem, entries) BY <1>4, <1>5 DEF Matched
<1>9. foreign = LowPages BY DEF Init
<1>t. Tidy(mm) BY <1>1, <1>3, <1>9 DEF Tidy
<1>10. Standing BY <1>2, <1>3, <1>5, <1>7, <1>8, <1>9, <1>t DEF Standing
<1>11. Underway BY DEF Init, Idle, Underway
<1> QED BY <1>6, <1>10, <1>11 DEF DobbyInv

-----------------------------------------------------------------------------
(* Routing.                                                                *)

Unmapped(m, g) == \A b \in Int : g <= b /\ b < g + ForwardSize => m.page[PageOf(b)] = "free"

\* The routing is complete, or waits for the mapping of a gap.
Ready(m, o) == \/ o.at = "relocate" /\ Jumps(o.tramp)
               \/ o.at = "map" /\ Gap(m, o.gap) /\ Unmapped(m, o.gap) /\ o.dst \in Int

\* A trampoline is made of the words of one jump.
LEMMA TrampolineJumps ==
    ASSUME NEW to \in Int, NEW n \in {1, TrampSize} PROVE Jumps(Trampoline(to, n))
<1>1. n \in Nat /\ n \in 1..TrampSize BY Constants
<1>2. /\ Trampoline(to, n) \in Seq(Words) /\ Len(Trampoline(to, n)) = n
      /\ \A i \in 1..n : Trampoline(to, n)[i] = Jump(to, i, n)
  BY <1>1, TrampolineGives
<1> QED BY <1>1, <1>2 DEF Jumps, Jump

\* A routing with a trampoline is ready to be committed.
LEMMA RoutedReady ==
    ASSUME NEW o, NEW m, NEW to \in Int, NEW n \in {1, TrampSize}, NEW q, q = Routed(o, Trampoline(to, n))
    PROVE  Ready(m, q) /\ q.addr = o.addr /\ q.id = o.id
<1>1. q.at = "relocate" /\ q.tramp = Trampoline(to, n) /\ q.addr = o.addr /\ q.id = o.id BY DEF Routed
<1> QED BY <1>1, TrampolineJumps DEF Ready

\* Choosing a trampoline, near or far, only adds memory and makes the routing ready.
LEMMA DispatchGrown ==
    ASSUME NEW m \in Machines, NEW w \in Code, NEW dst \in Int, NEW L, op.addr \in Int, Dispatch(m, w, dst, L)
    PROVE  Grown(m, w, L, mm', mem', limits') /\ Ready(mm', op') /\ op'.addr = op.addr /\ op'.id = op.id
<1> DEFINE arenas == NearFromArenas(m, ForwardSize, op.addr, BranchRange)
           gap == NearGap(m.page, ForwardSize, op.addr, BranchRange)
           ws == Trampoline(dst, ForwardSize)
<1>1. ForwardSize \in Nat /\ ForwardSize > 0 /\ BranchRange \in Int BY Constants
<1>2. ASSUME op' = Routed(op, Trampoline(dst, TrampSize)) \/ op' = Routed(op, Trampoline(dst, 1)),
             mm' = m, mem' = w, limits' = L
      PROVE  Grown(m, w, L, mm', mem', limits') /\ Ready(mm', op') /\ op'.addr = op.addr /\ op'.id = op.id
  <2> HIDE DEF arenas, gap, ws
  <2>1. Grown(m, w, L, mm', mem', limits') BY <1>2, GrownNone
  <2>2. PICK n \in {1, TrampSize} : op' = Routed(op, Trampoline(dst, n)) BY <1>2
  <2>3. Ready(mm', op') /\ op'.addr = op.addr /\ op'.id = op.id BY <2>2, RoutedReady
  <2> QED BY <2>1, <2>3
<1>3. ASSUME NEW r \in arenas, op' = Routed(op, Trampoline(r.addr, 1)), mm' = Stored(r.m, r.addr, ws),
             mem' = [b \in Addresses |-> IF b \in Span(r.addr, ForwardSize) THEN ws[b - r.addr + 1] ELSE w[b]],
             limits' = L \union BeyondEnd(r.addr, ForwardSize)
      PROVE  Grown(m, w, L, mm', mem', limits') /\ Ready(mm', op') /\ op'.addr = op.addr /\ op'.id = op.id
  <2>1. Allocated(m, ForwardSize, r) BY <1>1, <1>3, NearArenasGives
  <2>2. r.addr \in Int BY <2>1 DEF Allocated
  <2>3. ws \in Seq(Words) /\ Len(ws) = ForwardSize BY <1>1, TrampolineGives
  <2> HIDE DEF ws, arenas
  <2>4. mem' = Stamped(w, r.addr, ws) BY <1>3, <2>3 DEF Stamped
  <2>5. Grown(m, w, L, mm', mem', limits') BY <1>1, <1>3, <2>1, <2>3, <2>4, StoreGrown
  <2> QED BY <1>3, <2>2, <2>5, RoutedReady
<1>4. ASSUME gap # 0, op' = [at |-> "map", what |-> op.what, addr |-> op.addr, id |-> op.id, gap |-> gap, dst |-> dst],
             mm' = m, mem' = w, limits' = L
      PROVE  Grown(m, w, L, mm', mem', limits') /\ Ready(mm', op') /\ op'.addr = op.addr /\ op'.id = op.id
  <2>1. gap \in Nat /\ \A b \in Int : gap <= b /\ b < gap + ForwardSize => b \in Addresses /\ m.page[PageOf(b)] = "free"
    BY <1>1, <1>4, GapGives
  <2> HIDE DEF gap
  <2>2. Gap(m, gap) /\ Unmapped(m, gap) BY <2>1 DEF Gap, Unmapped
  <2>3. op'.at = "map" /\ op'.addr = op.addr /\ op'.id = op.id /\ op'.gap = gap /\ op'.dst = dst BY <1>4
  <2> QED BY <1>4, <2>2, <2>3, GrownNone DEF Ready
<1>5. \/ /\ op' = Routed(op, Trampoline(dst, TrampSize)) \/ op' = Routed(op, Trampoline(dst, 1))
         /\ mm' = m /\ mem' = w /\ limits' = L
      \/ \E r \in arenas :
            /\ op' = Routed(op, Trampoline(r.addr, 1)) /\ mm' = Stored(r.m, r.addr, ws)
            /\ mem' = [b \in Addresses |-> IF b \in Span(r.addr, ForwardSize) THEN ws[b - r.addr + 1] ELSE w[b]]
            /\ limits' = L \union BeyondEnd(r.addr, ForwardSize)
      \/ /\ gap # 0 /\ op' = [at |-> "map", what |-> op.what, addr |-> op.addr, id |-> op.id, gap |-> gap, dst |-> dst]
         /\ mm' = m /\ mem' = w /\ limits' = L
  BY DEF Dispatch
<1> HIDE DEF arenas, gap, ws
<1> QED BY <1>2, <1>3, <1>4, <1>5

\* A step that ends the routing or leaves it waiting.
LEMMA RoutingDone ==
    ASSUME DobbyInv, Grown(mm, mem, limits, mm', mem', limits'), UNCHANGED <<foreign, entries, calls>>,
           op'.addr \in Sites, op'.id \in Nat, Ready(mm', op')
    PROVE  DobbyInv'
<1>1. Typed' /\ Standing' BY GrownStep DEF DobbyInv, Typed
<1>v. op'.at = "map" => Vacant(op.gap)'
  <2>1. \A p \in foreign' : mm'.page[p] # "free" BY <1>1 DEF Standing
  <2> QED BY <2>1 DEF Ready, Unmapped, Vacant
<1>2. Underway' BY <1>v DEF Underway, Ready
<1> QED BY <1>1, <1>2 DEF DobbyInv

\* BuildRouting keeps the invariant: what it writes is in new blocks.
LEMMA StepBuildRouting == ASSUME DobbyInv, BuildRouting PROVE DobbyInv'
<1>1. /\ op.at = "route" /\ op.addr \in Sites /\ op.addr \in Int /\ op.id \in Nat
      /\ mm \in Machines /\ mem \in Code /\ UNCHANGED <<foreign, entries, calls>>
  <2>1. op.at = "route" /\ UNCHANGED <<foreign, entries, calls>> BY DEF BuildRouting
  <2>2. op.addr \in Sites /\ op.id \in Nat BY <2>1 DEF DobbyInv, Underway
  <2>3. mm \in Machines /\ mem \in Code BY DEF DobbyInv, Typed
  <2>5. op.addr \in Int BY <2>2, SitesGive
  <2> QED BY <2>1, <2>2, <2>3, <2>5
<1>2. CASE Dispatch(mm, mem, Replacements + op.id - 1, limits)
  <2>1. Replacements + op.id - 1 \in Int BY <1>1, Constants
  <2>2. Grown(mm, mem, limits, mm', mem', limits') /\ Ready(mm', op') /\ op'.addr = op.addr /\ op'.id = op.id
    BY <1>1, <1>2, <2>1, DispatchGrown
  <2> QED BY <1>1, <2>2, RoutingDone
<1>3. ASSUME NEW r \in AllocateExec(mm, 1),
             Dispatch(Stored(r.m, r.addr, <<Closure(op.id)>>), Written(r.addr, <<Closure(op.id)>>),
                      r.addr, limits \union BeyondEnd(r.addr, 1))
      PROVE  DobbyInv'
  <2> DEFINE ws == <<Closure(op.id)>>
             u == Stored(r.m, r.addr, ws)
             x == Written(r.addr, ws)
             K == limits \union BeyondEnd(r.addr, 1)
  <2>1. Allocated(mm, 1, r) BY <1>1, AllocateGives
  <2>2. r.addr \in Int BY <2>1 DEF Allocated
  <2>3. ws \in Seq(Words) /\ Len(ws) = 1
    <3>1. Closure(op.id) \in Words BY <1>1 DEF Closure, Words
    <3> QED BY <3>1
  <2> HIDE DEF ws
  <2>4. x = Stamped(mem, r.addr, ws) BY DEF Stamped, Written
  <2> HIDE DEF x
  <2>5. Grown(mm, mem, limits, u, x, K)
    <3>1. u = Stored(r.m, r.addr, ws) /\ K = limits \union BeyondEnd(r.addr, 1) /\ 1 \in Nat /\ 1 > 0 /\ mem \in Code
      BY <1>1
    <3> HIDE DEF u, K
    <3> QED BY ONLY <2>1, <2>3, <2>4, <3>1, StoreGrown
  <2>6. u \in Machines /\ x \in Code BY <2>5 DEF Grown
  <2>d. Dispatch(u, x, r.addr, K) BY <1>3 DEF ws, x
  <2> HIDE DEF u, K
  <2>7. Grown(u, x, K, mm', mem', limits') /\ Ready(mm', op') /\ op'.addr = op.addr /\ op'.id = op.id
    BY <1>1, <2>2, <2>6, <2>d, DispatchGrown
  <2>8. Grown(mm, mem, limits, mm', mem', limits') BY <2>5, <2>7, GrownTwice
  <2> QED BY <1>1, <2>7, <2>8, RoutingDone
<1> QED BY <1>2, <1>3 DEF BuildRouting

\* A near arena that was mapped keeps the invariant.
LEMMA StepNearMapped == ASSUME DobbyInv, NearMapped PROVE DobbyInv'
<1> DEFINE g == op.gap
           hit == Span(PageFloor(g), NearArenaSize(g, ForwardSize))
           zeroed == [b \in Addresses |-> IF b \in hit THEN NoWord ELSE mem[b]]
           ws == Trampoline(op.dst, ForwardSize)
           edge == IF PageFloor(g + ForwardSize) = g + ForwardSize THEN {"edge"} ELSE {}
<1>1. /\ op.at = "map" /\ op.addr \in Sites /\ op.id \in Nat /\ op.dst \in Int /\ Gap(mm, g)
      /\ ("stale" \notin limits => Vacant(g))
      /\ mm \in Machines /\ mem \in Code /\ UNCHANGED <<foreign, entries, calls>>
  BY DEF DobbyInv, Typed, Underway, NearMapped
<1>2. CASE op' = Routed(op, Trampoline(op.dst, TrampSize)) /\ UNCHANGED <<mm, mem, limits>>
  <2>1. Ready(mm', op') /\ op'.addr = op.addr /\ op'.id = op.id BY <1>1, <1>2, RoutedReady
  <2>2. Grown(mm, mem, limits, mm', mem', limits') BY <1>1, <1>2, GrownNone
  <2> QED BY <1>1, <2>1, <2>2, RoutingDone
<1>3. CASE /\ mm' = Stored(NearFromGap(mm, g, ForwardSize), g, ws)
           /\ mem' = [b \in Addresses |-> IF b \in Span(g, ForwardSize) THEN ws[b - g + 1] ELSE zeroed[b]]
           /\ op' = Routed(op, Trampoline(g, 1))
           /\ limits' = limits \union BeyondEnd(g, ForwardSize) \union edge
  <2>1. g \in Nat /\ g \in Int
        /\ \A b \in Int : g <= b /\ b < g + ForwardSize => b \in Addresses /\ mm.page[PageOf(b)] \notin {"text", "arena"}
    BY <1>1 DEF Gap
  <2>2. ws \in Seq(Words) /\ Len(ws) = ForwardSize BY <1>1, Constants, TrampolineGives
  <2>3. limits \subseteq limits' /\ BeyondEnd(g, ForwardSize) \subseteq limits' BY <1>3
  <2>4. PageFloor(g + ForwardSize) = g + ForwardSize => "edge" \in limits' BY <1>3
  <2>5. "stale" \notin limits' => \A b \in Int : g <= b /\ b < g + ForwardSize => PageOf(b) \notin foreign
    BY <1>1, <2>3 DEF Vacant
  <2> HIDE DEF ws, edge
  <2>6. mem' = Stamped(zeroed, g, ws) BY <1>3, <2>2 DEF Stamped
  <2> HIDE DEF hit, g
  <2>7. Grown(mm, mem, limits, mm', mem', limits')
    <3>1. mm \in Machines /\ mem \in Code /\ mm' = Stored(NearFromGap(mm, g, ForwardSize), g, ws) BY <1>1, <1>3
    <3>2. hit = Span(PageFloor(g), NearArenaSize(g, ForwardSize)) BY DEF hit
    <3>3. zeroed = [b \in Addresses |-> IF b \in hit THEN NoWord ELSE mem[b]] OBVIOUS
    <3> HIDE DEF zeroed
    <3> QED BY ONLY <2>1, <2>2, <2>3, <2>4, <2>5, <2>6, <3>1, <3>2, <3>3, GapGrown
  <2>8. Ready(mm', op') /\ op'.addr = op.addr /\ op'.id = op.id BY <1>3, <2>1, RoutedReady
  <2> QED BY <1>1, <2>7, <2>8, RoutingDone
<1> QED BY <1>2, <1>3 DEF NearMapped

-----------------------------------------------------------------------------
(* Relocation, the patch and the entries.                                  *)

\* The instructions a trampoline covers, as they are read.
LEMMA ReadGives ==
    ASSUME mem \in Code, NEW a \in Sites, NEW n \in 1..TrampSize
    PROVE  /\ a \in Nat /\ n \in Nat /\ n >= 1
           /\ Read(a, n) \in Seq(Words) /\ Len(Read(a, n)) = n
           /\ \A j \in 1..n : Read(a, n)[j] = mem[a + j - 1] /\ a + j - 1 \in Text
           /\ \A b \in Int : a <= b /\ b < a + n => b \in Text
<1>1. a \in Nat /\ a \in Int /\ n \in Nat /\ n >= 1 /\ n <= TrampSize /\ TrampSize \in Int
  <2>1. Sites \subseteq Nat /\ TrampSize \in Nat BY Constants
  <2> QED BY <2>1
<1>2. \A b \in Int : a <= b /\ b < a + n => b \in Text
  <2> SUFFICES ASSUME NEW b \in Int, a <= b, b < a + n PROVE b \in Text OBVIOUS
  <2>1. b < a + TrampSize BY <1>1
  <2> QED BY <2>1, Constants
<1>3. \A j \in 1..n : a + j - 1 \in Text
  <2> SUFFICES ASSUME NEW j \in 1..n PROVE a + j - 1 \in Text OBVIOUS
  <2>1. a + j - 1 \in Int /\ a <= a + j - 1 /\ a + j - 1 < a + n BY <1>1
  <2> QED BY <1>2, <2>1
<1>4. Text \subseteq Addresses BY Constants
<1>5. \A j \in 1..n : mem[a + j - 1] \in Words BY <1>3, <1>4 DEF Code
<1>6. Read(a, n) = [j \in 1..n |-> mem[a + j - 1]] BY DEF Read
<1> QED BY <1>1, <1>2, <1>3, <1>5, <1>6

\* GenerateRelocatedCode copies the words of the site into a new block.
LEMMA StepGenerateRelocatedCode == ASSUME DobbyInv, GenerateRelocatedCode PROVE DobbyInv'
<1> DEFINE n == Len(op.tramp)
           ws == Relocated(op.addr, n)
           or == Read(op.addr, n)
<1>1. op.at = "relocate" /\ foreign' = foreign /\ entries' = entries /\ calls' = calls
  BY DEF GenerateRelocatedCode
<1>2. op.addr \in Sites /\ op.id \in Nat /\ Jumps(op.tramp) BY <1>1 DEF DobbyInv, Underway
<1>3. mm \in Machines /\ mem \in Code /\ calls \in 0..MaxOps BY DEF DobbyInv, Typed
<1>4. n \in 1..TrampSize BY <1>2 DEF Jumps
<1>5. PICK r \in AllocateExec(mm, n + 1) :
        /\ mm' = Stored(r.m, r.addr, ws) /\ mem' = Written(r.addr, ws)
        /\ op' = [at |-> "relocated", what |-> op.what, id |-> op.id, tramp |-> op.tramp,
                  addr |-> op.addr, origin |-> or, relocated |-> r.addr]
        /\ limits' = limits \union Overlap(op.addr, n) \union BeyondEnd(r.addr, n + 1)
  BY DEF GenerateRelocatedCode
<1>6. /\ op'.at = "relocated" /\ op'.id = op.id /\ op'.tramp = op.tramp /\ op'.addr = op.addr
      /\ op'.origin = or /\ op'.relocated = r.addr
  BY <1>5
<1> HIDE DEF n
<1>7. /\ op.addr \in Nat /\ n \in Nat /\ n >= 1 /\ or \in Seq(Words) /\ Len(or) = n
      /\ \A j \in 1..n : or[j] = mem[op.addr + j - 1] /\ op.addr + j - 1 \in Text
  BY <1>2, <1>3, <1>4, ReadGives
<1>8. /\ ws \in Seq(Words) /\ Len(ws) = n + 1 /\ \A j \in 1..n : ws[j] = or[j]
      /\ ws[n + 1] = Jump(op.addr + n, 1, 1)
  <2>1. Jump(op.addr + n, 1, 1) \in Words BY <1>7 DEF Jump, Words
  <2>2. ws = Append(or, Jump(op.addr + n, 1, 1)) BY DEF Relocated
  <2> HIDE DEF or, ws
  <2> QED BY <1>7, <2>1, <2>2
<1> HIDE DEF or, ws
<1> DEFINE L == limits \union Overlap(op.addr, n)
<1>9. Allocated(mm, n + 1, r) BY <1>3, <1>5, <1>7, AllocateGives
<1>10. r.addr \in Nat BY <1>9 DEF Allocated
<1>11. mem' = Stamped(mem, r.addr, ws) BY <1>5 DEF Stamped, Written
<1>12. /\ Grown(mm, mem, L, mm', mem', limits')
       /\ Laid(mm) => Holds(mm', mem', r.addr, n + 1, ws)
  <2>1. limits' = L \cup BeyondEnd(r.addr, n + 1) /\ mm' = Stored(r.m, r.addr, ws) BY <1>5
  <2>2. n + 1 \in Nat /\ n + 1 > 0 BY <1>7
  <2> HIDE DEF L
  <2> QED BY ONLY <1>3, <1>8, <1>9, <1>11, <2>1, <2>2, StoreGrown
<1>13. Grown(mm, mem, limits, mm', mem', limits')
  <2>1. Grown(mm, mem, limits, mm, mem, L) BY <1>3 DEF Grown
  <2> HIDE DEF L
  <2> QED BY <1>12, <2>1, GrownTwice
<1> HIDE DEF L
<1>14. Typed' /\ Standing'
  <2>1. UNCHANGED <<foreign, entries>> /\ calls' \in 0..MaxOps BY <1>1, <1>3
  <2> QED BY <1>13, <2>1, GrownStep DEF DobbyInv
<1>15. ASSUME "edge" \notin limits' PROVE Saved(mm', mem', op')
  <2>1. "edge" \notin limits BY <1>13, <1>15 DEF Grown
  <2>2. Laid(mm) BY <2>1 DEF DobbyInv, Standing
  <2>3. /\ \A j \in 1..(n + 1) : mem'[r.addr + j - 1] = ws[j]
        /\ \A b \in Int : r.addr <= b /\ b < r.addr + (n + 1) => b \in Handed(mm')
    BY <1>12, <2>2 DEF Holds
  <2>4. \A j \in 1..n : mem'[r.addr + j - 1] = or[j] BY <1>7, <1>8, <2>3
  <2>5. mem'[r.addr + n] = Jump(op.addr + n, 1, 1)
    <3>1. n + 1 \in 1..(n + 1) /\ r.addr + (n + 1) - 1 = r.addr + n BY <1>7, <1>10
    <3>2. mem'[r.addr + (n + 1) - 1] = ws[n + 1] BY <2>3, <3>1
    <3> QED BY <1>8, <3>1, <3>2
  <2>6. \A b \in Int : r.addr <= b /\ b <= r.addr + n => b \in Handed(mm') BY <1>7, <1>10, <2>3
  <2>7. Block(mm', mem', op') BY <1>6, <1>7, <2>4, <2>5, <2>6 DEF Block
  <2>8. \A a \in Text : mem'[a] = mem[a] BY <1>13, <1>15, <2>2 DEF Grown
  <2>9. \A j \in 1..n : or[j] = mem'[op.addr + j - 1] BY <1>7, <2>8
  <2> QED BY <1>6, <1>7, <2>7, <2>9 DEF Saved
<1>16. Underway'
  <2>1. Len(op'.origin) = Len(op'.tramp) BY <1>6, <1>7 DEF n
  <2> QED BY <1>2, <1>6, <1>7, <1>10, <1>15, <2>1 DEF Underway
<1> QED BY <1>14, <1>16 DEF DobbyInv

\* A trampoline or an entry's instructions are about to be written.
LEMMA PatchBeginsGives ==
    ASSUME DobbyInv, NEW a \in Sites, NEW ws, Len(ws) \in 1..TrampSize, PatchBegins(a, ws), UNCHANGED <<mem, foreign, entries>>,
           calls' \in 0..MaxOps
    PROVE  Typed' /\ Standing' /\ Grown(mm, mem, limits, mm', mem', limits') /\ patch' = <<a, ws>>
<1>1. /\ mm' = Protect(mm, PatchPages(a, Len(ws)), "rwx") /\ limits' = limits \union BeyondEnd(a, Len(ws))
      /\ patch' = <<a, ws>>
  BY DEF PatchBegins
<1>2. mm \in Machines /\ mem \in Code /\ foreign \subseteq PageIds /\ foreign \cap TextPages = {}
  BY DEF DobbyInv, Typed, Standing
<1>3. limits \subseteq limits' BY <1>1
<1>4. Grown(mm, mem, limits, Protect(mm, PatchPages(a, Len(ws)), "rwx"), mem, limits')
  BY <1>2, <1>3, PatchGrown DEF Perms
<1>5. Grown(mm, mem, limits, mm', mem', limits') BY <1>1, <1>4
<1> QED BY <1>1, <1>5, GrownStep DEF DobbyInv

\* Commit starts the patch of the site.
LEMMA StepCommit == ASSUME DobbyInv, Commit PROVE DobbyInv'
<1>1. /\ op.at = "relocated" /\ PatchBegins(op.addr, op.tramp) /\ op' = [op EXCEPT !.at = "committed"]
      /\ mem' = mem /\ foreign' = foreign /\ entries' = entries /\ calls' = calls
  BY DEF Commit
<1>2. /\ op.addr \in Sites /\ op.id \in Nat /\ Jumps(op.tramp) /\ op.relocated \in Nat /\ op.origin \in Seq(Words)
      /\ Len(op.origin) = Len(op.tramp) /\ ("edge" \notin limits => Saved(mm, mem, op))
  BY <1>1 DEF DobbyInv, Underway
<1>3. op.addr \in Text /\ Len(op.tramp) \in Nat /\ Len(op.tramp) \in 1..TrampSize
  <2>1. Sites \subseteq Text BY Constants
  <2> QED BY <1>2, <2>1 DEF Jumps
<1>4. Typed' /\ Standing' /\ Grown(mm, mem, limits, mm', mem', limits') /\ patch' = <<op.addr, op.tramp>>
  <2>1. calls' \in 0..MaxOps BY <1>1 DEF DobbyInv, Typed
  <2> QED BY <1>1, <1>2, <1>3, <2>1, PatchBeginsGives
<1>5. /\ op'.at = "committed" /\ op'.addr = op.addr /\ op'.id = op.id /\ op'.tramp = op.tramp
      /\ op'.origin = op.origin /\ op'.relocated = op.relocated
  BY <1>1
<1>6. ASSUME "edge" \notin limits' PROVE Saved(mm', mem', op')
  <2>1. "edge" \notin limits BY <1>4, <1>6 DEF Grown
  <2>2. Laid(mm) BY <2>1 DEF DobbyInv, Standing
  <2>3. Handed(mm) \subseteq Handed(mm') /\ \A b \in Handed(mm) : mem'[b] = mem[b] BY <1>1, <1>4, <1>6, <2>2 DEF Grown
  <2>4. Block(mm', mem', op) /\ \A j \in 1..Len(op.origin) : op.origin[j] = mem'[op.addr + j - 1]
    BY <1>1, <1>2, <1>3, <2>1, <2>3, BlockKept DEF Saved
  <2> QED BY <1>5, <2>4 DEF Saved, Block
<1>7. Underway' BY <1>2, <1>4, <1>5, <1>6 DEF Underway
<1> QED BY <1>4, <1>7 DEF DobbyInv

\* t is s without its element i.
Without(S, s, i, t) ==
    /\ t \in Seq(S) /\ Len(t) = Len(s) - 1
    /\ \A j \in 1..(Len(s) - 1) : (j < i => t[j] = s[j]) /\ (j >= i => t[j] = s[j + 1])

\* A sequence without its i-th element.
LEMMA RemoveAtGives ==
    ASSUME NEW S, NEW s \in Seq(S), NEW i \in 1..Len(s), NEW t, t = RemoveAt(s, i)
    PROVE  Without(S, s, i, t)
<1>1. t = SubSeq(s, 1, i - 1) \o SubSeq(s, i + 1, Len(s)) BY DEF RemoveAt
<1> DEFINE u == SubSeq(s, 1, i - 1)
           v == SubSeq(s, i + 1, Len(s))
<1>2. u \in Seq(S) /\ Len(u) = i - 1 /\ \A j \in 1..(i - 1) : u[j] = s[j] OBVIOUS
<1>3. v \in Seq(S) /\ Len(v) = Len(s) - i /\ \A j \in 1..(Len(s) - i) : v[j] = s[i + j]
  <2>1. v \in Seq(S) /\ Len(v) = Len(s) - i OBVIOUS
  <2>2. ASSUME NEW j \in 1..(Len(s) - i) PROVE v[j] = s[i + j]
    <3>1. v[j] = s[(i + 1) + j - 1] /\ (i + 1) + j - 1 = i + j OBVIOUS
    <3> QED BY <3>1
  <2> QED BY <2>1, <2>2
<1> HIDE DEF u, v
<1>4. t = u \o v BY <1>1 DEF u, v
<1>5. t \in Seq(S) /\ Len(t) = Len(s) - 1 BY <1>2, <1>3, <1>4
<1>6. ASSUME NEW j \in 1..(Len(s) - 1), j < i PROVE t[j] = s[j] BY <1>2, <1>3, <1>4, <1>6
<1>7. ASSUME NEW j \in 1..(Len(s) - 1), j >= i PROVE t[j] = s[j + 1]
  <2>1. t[j] = v[j - (i - 1)] BY <1>2, <1>3, <1>4, <1>7
  <2>2. j - (i - 1) \in 1..(Len(s) - i) /\ i + (j - (i - 1)) = j + 1 BY <1>7
  <2> QED BY <1>3, <2>1, <2>2
<1> QED BY <1>5, <1>6, <1>7 DEF Without

\* Text patched for a new entry matches the entries with it.
LEMMA MatchedAdded ==
    ASSUME NEW w, NEW x, NEW es \in Seq(Entries), NEW e \in Entries, Matched(w, es),
           \A a \in Text : ~Covers(e, a) => x[a] = w[a],
           \A a \in Text : Covers(e, a) => x[a] # Insn(a) /\ e.origin[a - e.addr + 1] = w[a]
    PROVE  Matched(x, Append(es, e))
<1> DEFINE fs == Append(es, e)
           l == Len(es) + 1
<1>1. /\ DOMAIN fs = DOMAIN es \cup {l} /\ fs[l] = e /\ l \notin DOMAIN es
      /\ \A i \in DOMAIN es : fs[i] = es[i] /\ i < l /\ i \in Nat
  OBVIOUS
<1> HIDE DEF fs, l
<1>2. ASSUME NEW a \in Text PROVE x[a] = Insn(a) <=> \A i \in DOMAIN fs : ~Covers(fs[i], a)
  BY <1>1 DEF Matched
<1>3. ASSUME NEW i \in DOMAIN fs, NEW a \in Text, Covers(fs[i], a)
      PROVE  fs[i].origin[a - fs[i].addr + 1] = Insn(a) <=> \A j \in DOMAIN fs : j < i => ~Covers(fs[j], a)
  <2>1. CASE i = l
    <3>1. fs[i].origin[a - fs[i].addr + 1] = w[a] BY <1>1, <1>3, <2>1
    <3>2. \A j \in DOMAIN fs : j < i <=> j \in DOMAIN es
      <4>1. l \in Nat BY DEF l
      <4> QED BY <1>1, <2>1, <4>1
    <3>3. w[a] = Insn(a) <=> \A j \in DOMAIN es : ~Covers(es[j], a) BY DEF Matched
    <3> QED BY <1>1, <3>1, <3>2, <3>3
  <2>2. CASE i # l
    <3>1. i \in DOMAIN es /\ fs[i] = es[i] BY <1>1, <2>2
    <3>2. es[i].origin[a - es[i].addr + 1] = Insn(a) <=> \A j \in DOMAIN es : j < i => ~Covers(es[j], a)
      BY <1>3, <3>1 DEF Matched
    <3>3. ~(l < i)
      <4>1. l \in Nat BY DEF l
      <4> QED BY <1>1, <3>1, <4>1
    <3> QED BY <1>1, <3>1, <3>2, <3>3
  <2> QED BY <2>1, <2>2
<1>4. Matched(x, fs) BY <1>2, <1>3 DEF Matched
<1> QED BY <1>4 DEF fs

\* Text restored for an entry that no later one crosses matches the entries without it.
LEMMA MatchedRemoved ==
    ASSUME NEW w, NEW x, NEW es \in Seq(Entries), NEW i \in DOMAIN es, Matched(w, es), Uncrossed(es, i),
           \A a \in Text : ~Covers(es[i], a) => x[a] = w[a],
           \A a \in Text : Covers(es[i], a) => x[a] = es[i].origin[a - es[i].addr + 1]
    PROVE  Matched(x, RemoveAt(es, i))
<1> DEFINE fs == RemoveAt(es, i)
           old(j) == IF j < i THEN j ELSE j + 1
<1>1. i \in 1..Len(es) /\ DOMAIN es = 1..Len(es) /\ Len(es) \in Nat /\ i \in Nat OBVIOUS
<1>2. /\ fs \in Seq(Entries) /\ Len(fs) = Len(es) - 1
      /\ \A j \in 1..(Len(es) - 1) : (j < i => fs[j] = es[j]) /\ (j >= i => fs[j] = es[j + 1])
  <2>1. Without(Entries, es, i, fs) BY <1>1, RemoveAtGives
  <2> QED BY <2>1 DEF Without
<1> HIDE DEF fs
<1>3. DOMAIN fs = 1..(Len(es) - 1) BY <1>2
<1>4. \A j \in DOMAIN fs : old(j) \in DOMAIN es /\ old(j) # i /\ fs[j] = es[old(j)] /\ old(j) \in Nat /\ j \in Nat
  BY <1>1, <1>2, <1>3
<1>5. \A j, k \in DOMAIN fs : j < k <=> old(j) < old(k) BY <1>1, <1>3
<1>6. \A k \in DOMAIN es : k # i => \E j \in DOMAIN fs : old(j) = k
  <2> SUFFICES ASSUME NEW k \in DOMAIN es, k # i PROVE \E j \in DOMAIN fs : old(j) = k OBVIOUS
  <2>1. CASE k < i
    <3>1. k \in DOMAIN fs /\ old(k) = k BY <1>1, <1>3, <2>1
    <3> QED BY <3>1
  <2>2. CASE k > i
    <3>1. k - 1 \in DOMAIN fs /\ old(k - 1) = k BY <1>1, <1>3, <2>2
    <3> QED BY <3>1
  <2> QED BY <1>1, <2>1, <2>2
<1> HIDE DEF old
<1>7. ASSUME NEW a \in Text PROVE x[a] = Insn(a) <=> \A j \in DOMAIN fs : ~Covers(fs[j], a)
  <2>1. (\A j \in DOMAIN fs : ~Covers(fs[j], a)) <=> \A k \in DOMAIN es : k # i => ~Covers(es[k], a) BY <1>4, <1>6
  <2>2. CASE Covers(es[i], a)
    <3>1. x[a] = Insn(a) <=> \A k \in DOMAIN es : k < i => ~Covers(es[k], a) BY <2>2 DEF Matched
    <3>2. \A k \in DOMAIN es : k > i => ~Covers(es[k], a) BY <2>2 DEF Uncrossed
    <3>3. \A k \in DOMAIN es : k # i <=> k < i \/ k > i BY <1>1
    <3> QED BY <2>1, <3>1, <3>2, <3>3
  <2>3. CASE ~Covers(es[i], a)
    <3>1. x[a] = Insn(a) <=> \A k \in DOMAIN es : ~Covers(es[k], a) BY <2>3 DEF Matched
    <3> QED BY <2>1, <2>3, <3>1
  <2> QED BY <2>2, <2>3
<1>8. ASSUME NEW k \in DOMAIN fs, NEW a \in Text, Covers(fs[k], a)
      PROVE  fs[k].origin[a - fs[k].addr + 1] = Insn(a) <=> \A j \in DOMAIN fs : j < k => ~Covers(fs[j], a)
  <2> DEFINE m == old(k)
  <2>1. m \in DOMAIN es /\ m # i /\ fs[k] = es[m] /\ m \in Nat BY <1>4
  <2>2. es[m].origin[a - es[m].addr + 1] = Insn(a) <=> \A j \in DOMAIN es : j < m => ~Covers(es[j], a)
    BY <1>8, <2>1 DEF Matched
  <2>3. i < m => ~Covers(es[i], a) BY <1>1, <1>8, <2>1 DEF Uncrossed
  <2>4. (\A j \in DOMAIN fs : j < k => ~Covers(fs[j], a)) <=> \A j \in DOMAIN es : j < m => ~Covers(es[j], a)
    <3>1. ASSUME \A j \in DOMAIN fs : j < k => ~Covers(fs[j], a), NEW j \in DOMAIN es, j < m PROVE ~Covers(es[j], a)
      <4>1. CASE j = i BY <2>3, <3>1, <4>1
      <4>2. CASE j # i
        <5>1. PICK h \in DOMAIN fs : old(h) = j BY <1>6, <4>2
        <5>2. h < k /\ fs[h] = es[j] BY <1>4, <1>5, <3>1, <5>1
        <5> QED BY <3>1, <5>2
      <4> QED BY <4>1, <4>2
    <3>2. ASSUME \A j \in DOMAIN es : j < m => ~Covers(es[j], a), NEW j \in DOMAIN fs, j < k PROVE ~Covers(fs[j], a)
      BY <1>4, <1>5, <3>2
    <3> QED BY <3>1, <3>2
  <2> HIDE DEF m
  <2> QED BY <2>1, <2>2, <2>4
<1>9. Matched(x, fs) BY <1>7, <1>8 DEF Matched
<1> QED BY <1>9 DEF fs

\* Code that was handed out stays.
Kept(m, w, n, x) == Handed(m) \subseteq Handed(n) /\ \A b \in Handed(m) : x[b] = w[b]

\* What writing ws to the site a does.
Patched(a, ws, met) ==
    /\ mm' \in Machines /\ mem' \in Code /\ limits \cup met \subseteq limits' /\ (Executable(mm) => Executable(mm'))
    /\ \A p \in TextPages \cup foreign : mm'.page[p] # "free"
    /\ "edge" \notin limits' =>
         /\ Laid(mm') /\ Kept(mm, mem, mm', mem')
         /\ \A e : e.relocated \in Nat /\ Len(e.origin) \in Nat /\ Block(mm, mem, e) => Block(mm', mem', e)
    /\ "stale" \notin limits' => Tidy(mm')
    /\ \A b \in Text : ~(a <= b /\ b < a + Len(ws)) => mem'[b] = mem[b]
    /\ \A b \in Text : a <= b /\ b < a + Len(ws) => mem'[b] = ws[b - a + 1] /\ b - a + 1 \in 1..Len(ws)

\* The end of DobbyCodePatch: the words are written, the protection is what it was.
LEMMA PatchEndsGives ==
    ASSUME DobbyInv, NEW a \in Sites, NEW ws \in Seq(Words), Len(ws) \in 1..TrampSize, NEW met,
           patch = <<a, ws>>, PatchEnds(met)
    PROVE  Patched(a, ws, met)
<1>1. /\ mem' = Stamped(mem, a, ws) /\ mm' = Protect(mm, PatchPages(a, Len(ws)), "rx")
      /\ limits' = limits \union met \union BeyondEnd(a, Len(ws))
  BY DEF PatchEnds, Written, Stamped
<1>2. mm \in Machines /\ mem \in Code /\ foreign \subseteq PageIds /\ foreign \cap TextPages = {}
  BY DEF DobbyInv, Typed, Standing
<1>3. a \in Nat /\ a \in Int /\ a \in Text /\ Len(ws) \in Nat BY SitesGive
<1>4. /\ mem' \in Code
      /\ \A b \in Addresses : ~(a <= b /\ b < a + Len(ws)) => mem'[b] = mem[b]
      /\ \A j \in 1..Len(ws) : a + j - 1 \in Addresses => mem'[a + j - 1] = ws[j]
  BY <1>1, <1>2, <1>3, StampedGives
<1>5. Grown(mm, mem, limits, mm', mem, limits')
  <2>1. limits \subseteq limits' BY <1>1
  <2>2. Grown(mm, mem, limits, Protect(mm, PatchPages(a, Len(ws)), "rx"), mem, limits')
    BY <1>2, <1>3, <2>1, PatchGrown DEF Perms
  <2> QED BY <1>1, <2>2
<1>6. \A b \in Text : b \in Addresses /\ b \in Int BY Constants, AddressesNat
<1>7. \A b \in Text : ~(a <= b /\ b < a + Len(ws)) => mem'[b] = mem[b] BY <1>4, <1>6
<1>8. ASSUME NEW b \in Text, a <= b, b < a + Len(ws) PROVE mem'[b] = ws[b - a + 1] /\ b - a + 1 \in 1..Len(ws)
  <2>1. b \in Int /\ b \in Addresses BY <1>6
  <2>2. b - a + 1 \in 1..Len(ws) /\ a + (b - a + 1) - 1 = b BY <1>3, <1>8, <2>1
  <2> QED BY <1>4, <2>1, <2>2
<1>9. ASSUME "edge" \notin limits'
      PROVE  /\ Laid(mm) /\ Laid(mm') /\ Kept(mm, mem, mm', mem')
             /\ \A e : e.relocated \in Nat /\ Len(e.origin) \in Nat /\ Block(mm, mem, e) => Block(mm', mem', e)
  <2>1. "edge" \notin limits BY <1>1, <1>9
  <2>2. Laid(mm) BY <2>1 DEF DobbyInv, Standing
  <2>3. Laid(mm') /\ Handed(mm) \subseteq Handed(mm') BY <1>5, <1>9, <2>2 DEF Grown
  <2>4. ASSUME NEW b \in Handed(mm) PROVE mem'[b] = mem[b]
    <3>1. b \in Addresses /\ b \in Int
      <4>1. b \in Addresses BY DEF Handed
      <4> QED BY <4>1, AddressesNat
    <3>2. PICK i \in DOMAIN mm.arenas : mm.arenas[i].addr <= b /\ b < mm.arenas[i].cursor BY DEF Handed
    <3>3. mm.arenas[i] \in Arenas BY <1>2 DEF Machines
    <3>4. InArena(mm.arenas[i], b) BY <2>2, <3>1, <3>2, <3>3 DEF Laid, InArena, Arenas
    <3>5. mm.page[PageOf(b)] = "arena" BY <2>2, <3>1, <3>4 DEF Laid
    <3>6. PageOf(b) \notin TextPages BY <2>2, <3>5 DEF Laid
    <3>7. b \notin Text BY <3>6 DEF Text
    <3>8. ~(a <= b /\ b < a + Len(ws)) BY <1>2, <3>1, <3>7, ReadGives
    <3> QED BY <1>4, <3>1, <3>8
  <2>5. ASSUME NEW e, e.relocated \in Nat, Len(e.origin) \in Nat, Block(mm, mem, e) PROVE Block(mm', mem', e)
    BY <2>3, <2>4, <2>5, BlockKept
  <2>6. Kept(mm, mem, mm', mem') BY <2>3, <2>4 DEF Kept
  <2> QED BY <2>2, <2>3, <2>5, <2>6
<1>10. \A p \in TextPages \cup foreign : mm'.page[p] # "free"
  <2>1. \A p \in TextPages \cup foreign : p \in PageIds /\ mm.page[p] # "free"
    BY TextAssumption DEF DobbyInv, Typed, Standing
  <2> QED BY <1>5, <2>1 DEF Grown
<1>11. ASSUME "stale" \notin limits' PROVE Tidy(mm')
  <2>1. Tidy(mm) BY <1>1, <1>11 DEF DobbyInv, Standing
  <2> QED BY <1>5, <1>11, <2>1 DEF Grown
<1>12. mm' \in Machines /\ limits \cup met \subseteq limits' /\ (Executable(mm) => Executable(mm')) BY <1>1, <1>5 DEF Grown
<1> QED BY <1>4, <1>7, <1>8, <1>9, <1>10, <1>11, <1>12 DEF Patched

\* The end of a hook: the entry is added once its patch is written.
LEMMA StepAdd == ASSUME DobbyInv, Add PROVE DobbyInv'
<1> DEFINE e == [id |-> op.id, addr |-> op.addr, origin |-> op.origin, relocated |-> op.relocated]
<1>1. /\ op.at = "committed" /\ PatchEnds({}) /\ entries' = Append(entries, e) /\ op' = Idle
      /\ foreign' = foreign /\ calls' = calls
  BY DEF Add
<1>2. /\ op.addr \in Sites /\ op.id \in Nat /\ Jumps(op.tramp) /\ op.relocated \in Nat /\ op.origin \in Seq(Words)
      /\ Len(op.origin) = Len(op.tramp) /\ ("edge" \notin limits => Saved(mm, mem, op))
      /\ patch = <<op.addr, op.tramp>>
  BY <1>1 DEF DobbyInv, Underway
<1>3. op.tramp \in Seq(Words) /\ Len(op.tramp) \in 1..TrampSize /\ \A j \in 1..Len(op.tramp) : op.tramp[j].k = "jump"
  BY <1>2 DEF Jumps
<1>4. Patched(op.addr, op.tramp, {}) BY <1>1, <1>2, <1>3, PatchEndsGives
<1>5. e.id = op.id /\ e.addr = op.addr /\ e.origin = op.origin /\ e.relocated = op.relocated OBVIOUS
<1>6. e \in Entries BY <1>2, <1>3 DEF Entries
<1> HIDE DEF e
<1>7. entries \in Seq(Entries) /\ calls \in 0..MaxOps /\ foreign \subseteq PageIds /\ foreign \cap TextPages = {}
  BY DEF DobbyInv, Typed, Standing
<1> DEFINE l == Len(entries) + 1
<1>8. /\ entries' \in Seq(Entries) /\ DOMAIN entries' = DOMAIN entries \cup {l} /\ entries'[l] = e
      /\ \A i \in DOMAIN entries : entries'[i] = entries[i]
  BY <1>1, <1>6, <1>7
<1> HIDE DEF l
<1>9. Typed' BY <1>1, <1>4, <1>7, <1>8 DEF Typed, Patched
<1>10. ASSUME "edge" \notin limits' PROVE Laid(mm') /\ \A i \in DOMAIN entries' : Block(mm', mem', entries'[i])
  <2>1. "edge" \notin limits BY <1>4, <1>10 DEF Patched
  <2>2. /\ Laid(mm')
        /\ \A d : d.relocated \in Nat /\ Len(d.origin) \in Nat /\ Block(mm, mem, d) => Block(mm', mem', d)
    BY <1>4, <1>10 DEF Patched
  <2>3. ASSUME NEW i \in DOMAIN entries PROVE Block(mm', mem', entries[i])
    <3>1. entries[i] \in Entries /\ Block(mm, mem, entries[i]) BY <1>7, <2>1 DEF DobbyInv, Standing
    <3> QED BY <2>2, <3>1, EntryGives
  <2>4. Block(mm', mem', e)
    <3>1. Block(mm, mem, e) BY <1>2, <1>5, <2>1 DEF Saved, Block
    <3> QED BY <1>6, <2>2, <3>1, EntryGives
  <2> QED BY <1>8, <2>2, <2>3, <2>4
<1>11. ASSUME {"crossed", "edge"} \cap limits' = {} PROVE Matched(mem', entries')
  <2>1. {"crossed", "edge"} \cap limits = {} BY <1>4, <1>11 DEF Patched
  <2>2. Matched(mem, entries) /\ Saved(mm, mem, op) BY <1>2, <2>1 DEF DobbyInv, Standing
  <2>3. \A a \in Text : Covers(e, a) <=> op.addr <= a /\ a < op.addr + Len(op.tramp) BY <1>2, <1>5 DEF Covers
  <2>4. \A a \in Text : ~Covers(e, a) => mem'[a] = mem[a] BY <1>4, <2>3 DEF Patched
  <2>5. ASSUME NEW a \in Text, Covers(e, a) PROVE mem'[a] # Insn(a) /\ e.origin[a - e.addr + 1] = mem[a]
    <3>1. mem'[a] = op.tramp[a - op.addr + 1] /\ a - op.addr + 1 \in 1..Len(op.tramp) BY <1>4, <2>3, <2>5 DEF Patched
    <3>2. mem'[a].k = "jump" /\ Insn(a).k = "insn" BY <1>3, <3>1 DEF Insn
    <3>3. a \in Int /\ op.addr \in Int BY <1>2, SitesGive, TextPage
    <3>4. op.addr + (a - op.addr + 1) - 1 = a BY <3>3
    <3>5. op.origin[a - op.addr + 1] = mem[op.addr + (a - op.addr + 1) - 1] BY <1>2, <2>2, <3>1 DEF Saved
    <3> QED BY <1>5, <3>2, <3>4, <3>5
  <2> QED BY <1>1, <1>6, <1>7, <2>2, <2>4, <2>5, MatchedAdded
<1>12. Standing'
  <2>1. \A p \in TextPages \cup foreign : mm'.page[p] # "free" BY <1>4 DEF Patched
  <2>2. ASSUME "stale" \notin limits' PROVE Tidy(mm)'
    <3>1. Tidy(mm') BY <1>4, <2>2 DEF Patched
    <3> QED BY <1>1, <3>1 DEF Tidy
  <2> QED BY <1>1, <1>7, <1>10, <1>11, <2>1, <2>2 DEF Standing
<1>13. Underway' BY <1>1 DEF Underway, Idle
<1> QED BY <1>9, <1>12, <1>13 DEF DobbyInv

\* The end of DobbyDestroy: the entry goes once its words are back.
LEMMA StepRemoved == ASSUME DobbyInv, Removed PROVE DobbyInv'
<1> DEFINE i == op.entry
           e == entries[i]
           met == IF op.crossed THEN {"crossed"} ELSE {}
<1>1. /\ op.at = "restore" /\ PatchEnds(met) /\ entries' = RemoveAt(entries, i) /\ op' = Idle
      /\ foreign' = foreign /\ calls' = calls
  BY DEF Removed
<1>2. i \in DOMAIN entries /\ patch = <<e.addr, e.origin>> /\ (~op.crossed => Uncrossed(entries, i))
  BY <1>1 DEF DobbyInv, Underway
<1>3. entries \in Seq(Entries) /\ calls \in 0..MaxOps /\ foreign \subseteq PageIds /\ foreign \cap TextPages = {}
  BY DEF DobbyInv, Typed, Standing
<1>4. e \in Entries BY <1>2, <1>3
<1>5. op.crossed => "crossed" \in met OBVIOUS
<1> HIDE DEF i, e, met
<1>6. e.addr \in Sites /\ e.origin \in Seq(Words) /\ Len(e.origin) \in 1..TrampSize BY <1>4 DEF Entries
<1>7. Patched(e.addr, e.origin, met) BY <1>1, <1>2, <1>6, PatchEndsGives
<1>8. Without(Entries, entries, i, entries')
  <2>1. i \in 1..Len(entries) BY <1>2, <1>3
  <2> QED BY <1>1, <1>3, <2>1, RemoveAtGives
<1>9. Typed' BY <1>1, <1>3, <1>7, <1>8 DEF Typed, Patched, Without
<1>10. ASSUME "edge" \notin limits' PROVE Laid(mm') /\ \A j \in DOMAIN entries' : Block(mm', mem', entries'[j])
  <2>1. "edge" \notin limits BY <1>7, <1>10 DEF Patched
  <2>2. /\ Laid(mm')
        /\ \A d : d.relocated \in Nat /\ Len(d.origin) \in Nat /\ Block(mm, mem, d) => Block(mm', mem', d)
    BY <1>7, <1>10 DEF Patched
  <2>3. ASSUME NEW j \in DOMAIN entries PROVE Block(mm', mem', entries[j])
    <3>1. entries[j] \in Entries /\ Block(mm, mem, entries[j]) BY <1>3, <2>1 DEF DobbyInv, Standing
    <3> QED BY <2>2, <3>1, EntryGives
  <2>4. \A j \in DOMAIN entries' : \E k \in DOMAIN entries : entries'[j] = entries[k]
    <3> SUFFICES ASSUME NEW j \in DOMAIN entries' PROVE \E k \in DOMAIN entries : entries'[j] = entries[k] OBVIOUS
    <3>1. j \in 1..(Len(entries) - 1) /\ j \in DOMAIN entries /\ j + 1 \in DOMAIN entries BY <1>3, <1>8 DEF Without
    <3>2. i \in Int /\ j \in Int BY <1>2, <1>3, <3>1
    <3> QED BY <1>8, <3>1, <3>2 DEF Without
  <2> QED BY <2>2, <2>3, <2>4
<1>11. ASSUME {"crossed", "edge"} \cap limits' = {} PROVE Matched(mem', entries')
  <2>1. {"crossed", "edge"} \cap limits = {} /\ "crossed" \notin met BY <1>7, <1>11 DEF Patched
  <2>2. Matched(mem, entries) BY <2>1 DEF DobbyInv, Standing
  <2>3. Uncrossed(entries, i) BY <1>2, <1>5, <2>1
  <2>4. \A a \in Text : ~Covers(e, a) => mem'[a] = mem[a] BY <1>7 DEF Patched, Covers
  <2>5. \A a \in Text : Covers(e, a) => mem'[a] = e.origin[a - e.addr + 1] BY <1>7 DEF Patched, Covers
  <2> QED BY <1>1, <1>2, <1>3, <2>2, <2>3, <2>4, <2>5, MatchedRemoved DEF e
<1>12. Standing'
  <2>1. \A p \in TextPages \cup foreign : mm'.page[p] # "free" BY <1>7 DEF Patched
  <2>2. ASSUME "stale" \notin limits' PROVE Tidy(mm)'
    <3>1. Tidy(mm') BY <1>7, <2>2 DEF Patched
    <3> QED BY <1>1, <3>1 DEF Tidy
  <2> QED BY <1>1, <1>3, <1>10, <1>11, <2>1, <2>2 DEF Standing
<1>13. Underway' BY <1>1 DEF Underway, Idle
<1> QED BY <1>9, <1>12, <1>13 DEF DobbyInv

-----------------------------------------------------------------------------
(* The start of the calls, and the rest of the process.                    *)

\* A call of DobbyHook or DobbyInstrument that begins, or that finds the site taken.
LEMMA StepEnter == ASSUME DobbyInv, NEW what, NEW a \in Sites, Enter(what, a) PROVE DobbyInv'
<1>1. /\ op.at = "idle" /\ calls < MaxOps /\ calls' = calls + 1 /\ mem' = mem /\ entries' = entries
      /\ foreign' = foreign /\ limits' = limits
  BY DEF Enter
<1>2. /\ mm \in Machines /\ mem \in Code /\ calls \in 0..MaxOps /\ foreign \cap TextPages = {} /\ MaxOps \in Nat
  BY Constants DEF DobbyInv, Typed, Standing
<1>3. a \in Text /\ PageOf(a) \in TextPages BY SitesGive, TextPage
<1>4. calls' \in 0..MaxOps /\ calls + 1 \in Nat BY <1>1, <1>2
<1>5. Grown(mm, mem, limits, mm', mem', limits')
  <2>1. CASE mm' = mm BY <1>1, <1>2, <2>1, GrownNone
  <2>2. CASE mm' = Protect(mm, {PageOf(a)}, "rx")
    <3>1. \A p \in foreign : p \notin {PageOf(a)} BY <1>2, <1>3
    <3>2. Grown(mm, mem, limits, Protect(mm, {PageOf(a)}, "rx"), mem, limits) BY <1>2, <3>1, ProtectGrown DEF Perms
    <3> QED BY <1>1, <2>2, <3>2
  <2> QED BY <2>1, <2>2 DEF Enter
<1>6. Typed' /\ Standing' BY <1>1, <1>4, <1>5, GrownStep DEF DobbyInv
<1>7. op' = op \/ op' = [at |-> "route", what |-> what, addr |-> a, id |-> calls + 1] BY DEF Enter
<1>8. op'.at = "idle" \/ (op'.at = "route" /\ op'.addr = a /\ op'.id = calls + 1) BY <1>1, <1>7
<1>9. Underway' BY <1>4, <1>8 DEF Underway
<1> QED BY <1>6, <1>9 DEF DobbyInv

\* DobbyDestroy starts to write the words of the entry back.
LEMMA StepDobbyDestroy == ASSUME DobbyInv, DobbyDestroy PROVE DobbyInv'
<1>1. /\ op.at = "idle" /\ calls < MaxOps /\ calls' = calls + 1 /\ mem' = mem /\ entries' = entries
      /\ foreign' = foreign
  BY DEF DobbyDestroy
<1>2. /\ mm \in Machines /\ mem \in Code /\ calls \in 0..MaxOps /\ entries \in Seq(Entries) /\ MaxOps \in Nat
  BY Constants DEF DobbyInv, Typed
<1>3. calls' \in 0..MaxOps BY <1>1, <1>2
<1>4. CASE UNCHANGED <<op, patch, mm, thread, limits>>
  <2>1. Grown(mm, mem, limits, mm', mem', limits') BY <1>1, <1>2, <1>4, GrownNone
  <2>2. Typed' /\ Standing' BY <1>1, <1>3, <2>1, GrownStep DEF DobbyInv
  <2>3. Underway' BY <1>1, <1>4 DEF Underway
  <2> QED BY <2>2, <2>3 DEF DobbyInv
<1>5. ASSUME NEW a \in Functions \union Points, Find(a, FALSE) # {},
             PatchBegins(a, entries[Min(Find(a, FALSE))].origin),
             op' = [at |-> "restore", entry |-> Min(Find(a, FALSE)), crossed |-> Later(Min(Find(a, FALSE))) # {}]
      PROVE  DobbyInv'
  <2> DEFINE i == Min(Find(a, FALSE))
             e == entries[i]
  <2>1. i \in DOMAIN entries /\ e.addr = a
    <3>1. Find(a, FALSE) = {j \in DOMAIN entries : entries[j].addr = a} BY DEF Find
    <3>d. DOMAIN entries \subseteq Nat BY <1>2
    <3>2. Find(a, FALSE) \subseteq Nat BY <3>1, <3>d, Zenon
    <3>3. i \in Find(a, FALSE) BY <1>5, <3>2, Least
    <3> QED BY <3>1, <3>3
  <2>2. op'.at = "restore" /\ op'.entry = i BY <1>5
  <2>3. op'.crossed = (Later(i) # {}) BY <1>5
  <2> HIDE DEF i
  <2>4. e \in Entries BY <1>2, <2>1
  <2>5. a \in Sites /\ Len(e.origin) \in 1..TrampSize BY <2>4 DEF Entries, Sites
  <2>6. Typed' /\ Standing' /\ patch' = <<a, e.origin>>
    <3>1. PatchBegins(a, e.origin) BY <1>5 DEF i
    <3> QED BY <1>1, <1>3, <2>5, <3>1, PatchBeginsGives
  <2>7. ASSUME Later(i) = {} PROVE Uncrossed(entries, i)
    <3> SUFFICES ASSUME NEW j \in DOMAIN entries, j > i, NEW b \in Text, Covers(entries[j], b), Covers(entries[i], b)
                 PROVE  FALSE
      BY DEF Uncrossed
    <3>1. b \in Int /\ entries[j] \in Entries BY <1>2, TextPage
    <3>2. b \in EntrySpan(entries[j]) /\ b \in EntrySpan(entries[i]) BY <2>4, <3>1, EntryGives
    <3> QED BY <2>7, <3>2 DEF Later
  <2>8. ~op'.crossed => Uncrossed(entries', op'.entry) BY <1>1, <2>2, <2>3, <2>7, Zenon
  <2>9. patch' = <<entries'[op'.entry].addr, entries'[op'.entry].origin>> BY <1>1, <2>1, <2>2, <2>6
  <2>10. Underway' BY <1>1, <2>1, <2>2, <2>8, <2>9 DEF Underway
  <2> QED BY <2>6, <2>10 DEF DobbyInv
<1> QED BY <1>4, <1>5 DEF DobbyDestroy

\* Another library's mapping takes pages that are free.
LEMMA StepForeignMap == ASSUME DobbyInv, ForeignMap PROVE DobbyInv'
<1>1. PICK p \in PageIds : /\ mm.page[p] = "free"
                           /\ mm' = [mm EXCEPT !.page[p] = "foreign", !.perm[p] = "rw"]
                           /\ foreign' = foreign \union {p}
                           /\ limits' = limits \union
                                (IF op.at = "map" /\ \E b \in Span(op.gap, ForwardSize) : PageOf(b) = p
                                 THEN {"stale"} ELSE {})
  BY DEF ForeignMap
<1>2. mem' = mem /\ patch' = patch /\ entries' = entries /\ op' = op /\ calls' = calls
  BY DEF ForeignMap, dobbyVars
<1>l. limits \subseteq limits' /\ ("edge" \in limits' <=> "edge" \in limits) BY <1>1
<1>c. "crossed" \in limits' <=> "crossed" \in limits BY <1>1
<1>3. mm \in Machines /\ foreign \subseteq PageIds BY DEF DobbyInv, Typed
<1>4. /\ mm' \in Machines /\ mm'.arenas = mm.arenas /\ mm'.page[p] = "foreign" /\ mm'.perm[p] = "rw"
      /\ \A q \in PageIds \ {p} : mm'.page[q] = mm.page[q] /\ mm'.perm[q] = mm.perm[q]
  BY <1>1, <1>3 DEF Machines, PageUses, Perms
<1>5. Typed' BY <1>1, <1>2, <1>4 DEF DobbyInv, Typed
<1>6. p \notin TextPages /\ p \notin foreign BY <1>1 DEF DobbyInv, Standing
<1>7. Handed(mm') = Handed(mm) BY <1>4 DEF Handed
<1>8. Laid(mm) => Laid(mm')
  <2> SUFFICES ASSUME Laid(mm) PROVE Laid(mm') OBVIOUS
  <2>1. \A q \in TextPages : mm'.page[q] = "text" BY <1>4, <1>6, TextAssumption DEF Laid
  <2>2. ASSUME NEW i \in DOMAIN mm.arenas, NEW b \in Int, InArena(mm.arenas[i], b)
        PROVE  b \in Addresses /\ mm'.page[PageOf(b)] = "arena"
    <3>1. b \in Addresses /\ mm.page[PageOf(b)] = "arena" BY <2>2 DEF Laid
    <3>2. PageOf(b) \in PageIds /\ PageOf(b) # p BY <1>1, <2>2, <3>1, PageRange
    <3> QED BY <1>4, <3>1, <3>2
  <2> QED BY <1>4, <2>1, <2>2 DEF Laid
<1>9. \A e : Block(mm, mem, e) <=> Block(mm', mem', e) BY <1>2, <1>7 DEF Block
<1>10. Standing'
  <2>1. foreign' \cap TextPages = {} BY <1>1, <1>6 DEF DobbyInv, Standing
  <2>2. \A q \in TextPages \cup foreign' : mm'.page[q] # "free"
    <3>1. \A q \in TextPages \cup foreign : q \in PageIds /\ mm.page[q] # "free"
      BY TextAssumption DEF DobbyInv, Typed, Standing
    <3> QED BY <1>1, <1>4, <3>1
  <2>3. ASSUME "stale" \notin limits' PROVE Tidy(mm)'
    <3>1. Tidy(mm) BY <1>l, <2>3 DEF DobbyInv, Standing
    <3>2. \A q : Filled(mm', q) <=> Filled(mm, q) BY <1>4 DEF Filled
    <3>3. ASSUME NEW i \in DOMAIN mm.arenas, NEW b \in Addresses, InArena(mm.arenas[i], b)
          PROVE  mm'.page[PageOf(b)] = "arena"
      <4>1. mm.page[PageOf(b)] = "arena" BY <3>1, <3>3 DEF Tidy
      <4>2. PageOf(b) \in PageIds /\ PageOf(b) # p BY <1>1, <4>1, AddressesNat, PageRange
      <4> QED BY <1>4, <4>1, <4>2
    <3>4. ASSUME NEW q \in foreign'
          PROVE  q \in PageIds /\ mm'.page[q] # "free" /\ ((mm'.page[q] = "foreign" /\ mm'.perm[q] = "rw") \/ Filled(mm', q))
      <4>1. CASE q = p BY <1>4, <4>1
      <4>2. CASE q # p
        <5>1. q \in foreign /\ q \in PageIds \ {p} BY <1>1, <1>3, <3>4, <4>2
        <5> QED BY <1>4, <3>1, <3>2, <5>1 DEF Tidy
      <4> QED BY <4>1, <4>2
    <3> QED BY <1>4, <3>1, <3>3, <3>4 DEF Tidy
  <2>4. "edge" \notin limits' => Laid(mm') /\ \A i \in DOMAIN entries' : Block(mm', mem', entries'[i])
    BY <1>2, <1>8, <1>9, <1>l DEF DobbyInv, Standing
  <2>5. {"crossed", "edge"} \cap limits' = {} => Matched(mem', entries') BY <1>2, <1>c, <1>l DEF DobbyInv, Standing
  <2> QED BY <2>1, <2>2, <2>3, <2>4, <2>5 DEF Standing
<1>11. ASSUME op.at = "map" PROVE Gap(mm', op.gap)
  <2>1. Gap(mm, op.gap) BY <1>11 DEF DobbyInv, Underway
  <2>2. \A b \in Addresses : b \in Int /\ PageOf(b) \in PageIds BY AddressesNat, PageRange
  <2>3. \A q \in PageIds : mm.page[q] \notin {"text", "arena"} => mm'.page[q] \notin {"text", "arena"} BY <1>4
  <2> QED BY <2>1, <2>2, <2>3 DEF Gap
<1>12. \A e : Saved(mm, mem, e) <=> Saved(mm', mem', e) BY <1>2, <1>9 DEF Saved
<1>14. ASSUME op.at = "map", "stale" \notin limits' PROVE Vacant(op.gap)'
  <2>1. Vacant(op.gap) /\ op.gap \in Nat BY <1>l, <1>14 DEF DobbyInv, Underway, Gap
  <2>2. \A b \in Span(op.gap, ForwardSize) : PageOf(b) # p BY <1>1, <1>14
  <2>3. \A b \in Int : op.gap <= b /\ b < op.gap + ForwardSize => PageOf(b) # p BY <2>1, <2>2, Constants DEF Span
  <2> QED BY <1>1, <1>2, <2>1, <2>3 DEF Vacant
<1>13. Underway' BY <1>2, <1>11, <1>12, <1>14, <1>l DEF DobbyInv, Underway
<1> QED BY <1>5, <1>10, <1>13 DEF DobbyInv

\* Steps of threads, and of the plugin.
LEMMA StepOthers == ASSUME DobbyInv, UNCHANGED <<mm, mem, patch, foreign, limits, entries, op, calls>> PROVE DobbyInv'
<1>1. Typed' BY DEF DobbyInv, Typed
<1>t. (Tidy(mm)' <=> Tidy(mm)) /\ (Vacant(op.gap)' <=> Vacant(op.gap)) BY DEF Tidy, Vacant
<1>2. Standing' BY <1>t DEF DobbyInv, Standing
<1>3. Underway' BY <1>t DEF DobbyInv, Underway
<1> QED BY <1>1, <1>2, <1>3 DEF DobbyInv

\* Every step keeps the invariant.
LEMMA DobbyStep == ASSUME DobbyInv, [Next]_vars PROVE DobbyInv'
<1>1. CASE DobbyHook
  <2>1. PICK f \in Functions : Enter("hook", f) BY <1>1 DEF DobbyHook
  <2> QED BY <2>1, StepEnter DEF Sites
<1>2. CASE DobbyInstrument
  <2>1. PICK a \in Points : Enter("instrument", a) BY <1>2 DEF DobbyInstrument
  <2> QED BY <2>1, StepEnter DEF Sites
<1>3. CASE DobbyDestroy BY <1>3, StepDobbyDestroy
<1>4. CASE TogglePlugin BY <1>4, StepOthers DEF TogglePlugin
<1>5. CASE BuildRouting BY <1>5, StepBuildRouting
<1>6. CASE NearMapped BY <1>6, StepNearMapped
<1>7. CASE GenerateRelocatedCode BY <1>7, StepGenerateRelocatedCode
<1>8. CASE Commit BY <1>8, StepCommit
<1>9. CASE Add BY <1>9, StepAdd
<1>10. CASE Removed BY <1>10, StepRemoved
<1>11. CASE ForeignMap BY <1>11, StepForeignMap
<1>12. ASSUME NEW t \in Threads, Call(t) \/ Execute(t) \/ Replacement(t) PROVE DobbyInv'
  BY <1>12, StepOthers DEF Call, Execute, Replacement, dobbyVars
<1>13. CASE UNCHANGED vars BY <1>13, StepOthers DEF vars, dobbyVars
<1> QED BY <1>1, <1>2, <1>3, <1>4, <1>5, <1>6, <1>7, <1>8, <1>9, <1>10, <1>11, <1>12, <1>13 DEF Next

\* The invariant of the hooks and of the memory holds always.
LEMMA DobbyAlways == Spec => []DobbyInv
BY DobbyInit, DobbyStep, PTL DEF Spec

-----------------------------------------------------------------------------
(* The properties.                                                         *)

\* However Dobby allocates, stores and patches code, a page of the rest of the
\* process stays mapped and writable: the gap read from /proc/self/maps holds none
\* of them while nobody takes it (Vacant), and a block out of an arena or a patch of
\* the library reaches one only when it ends exactly where that page begins (Tidy).
THEOREM ForeignPagesKept == Spec => []ForeignKept
<1>1. ASSUME DobbyInv PROVE ForeignKept BY <1>1 DEF DobbyInv, Standing, ForeignKept, Tidy
<1> QED BY <1>1, DobbyAlways, PTL

\* The words Commit and DobbyDestroy leave in the library are the linked ones
\* exactly where no entry of the Interceptor covers them.
THEOREM TextRestored == Spec => []TextMatchesEntries
<1>1. ASSUME DobbyInv PROVE TextMatchesEntries
  <2> SUFFICES ASSUME limits \intersect {"crossed", "edge"} = {}, NEW a \in Text
               PROVE  mem[a] = Insn(a) <=> \A i \in DOMAIN entries : a \notin EntrySpan(entries[i])
    BY DEF TextMatchesEntries
  <2>1. Matched(mem, entries) BY <1>1 DEF DobbyInv, Standing
  <2>2. entries \in Seq(Entries) /\ a \in Int BY <1>1, TextPage DEF DobbyInv, Typed
  <2>3. \A i \in DOMAIN entries : a \in EntrySpan(entries[i]) <=> Covers(entries[i], a) BY <2>2, EntryGives
  <2> QED BY <2>1, <2>3 DEF Matched
<1> QED BY <1>1, DobbyAlways, PTL

\* The block allocateExecBlock gave to GenerateRelocatedCode holds the saved
\* instructions and the branch back as long as the entry is registered.
THEOREM RelocatedKept == Spec => []RelocatedIntact
<1>1. ASSUME DobbyInv PROVE RelocatedIntact
  <2> SUFFICES ASSUME limits = {}, NEW i \in DOMAIN entries
               PROVE  LET e == entries[i]
                          n == Len(e.origin)
                      IN /\ \A j \in 1..n : mem[e.relocated + j - 1] = e.origin[j]
                         /\ mem[e.relocated + n] = Jump(e.addr + n, 1, 1)
                         /\ \A b \in Span(e.relocated, n + 1) : mm.page[PageOf(b)] = "arena"
    BY DEF RelocatedIntact
  <2> DEFINE e == entries[i]
             n == Len(e.origin)
  <2>1. Laid(mm) /\ Block(mm, mem, e) BY <1>1 DEF DobbyInv, Standing
  <2>2. e \in Entries /\ mm \in Machines BY <1>1 DEF DobbyInv, Typed
  <2>3. e.relocated \in Nat /\ n \in Nat BY <2>2, EntryGives
  <2>4. ASSUME NEW b \in Span(e.relocated, n + 1) PROVE mm.page[PageOf(b)] = "arena"
    <3>1. b \in Int /\ e.relocated <= b /\ b <= e.relocated + n BY <2>3 DEF Span
    <3>2. b \in Handed(mm) BY <2>1, <3>1 DEF Block
    <3>3. PICK k \in DOMAIN mm.arenas : mm.arenas[k].addr <= b /\ b < mm.arenas[k].cursor BY <3>2 DEF Handed
    <3>4. mm.arenas[k] \in Arenas BY <2>2 DEF Machines
    <3>5. InArena(mm.arenas[k], b) BY <2>1, <3>1, <3>3, <3>4 DEF Laid, InArena, Arenas
    <3> QED BY <2>1, <3>1, <3>5 DEF Laid
  <2> QED BY <2>1, <2>4 DEF Block
<1> QED BY <1>1, DobbyAlways, PTL

-----------------------------------------------------------------------------
(* Threads that execute the functions.                                     *)

\* Relocated code at p: k instructions from a on, then the branch back.
Runs(m, w, p, a, k) ==
    /\ p \in Nat /\ \A b \in Int : p <= b /\ b <= p + k => b \in Handed(m)
    /\ \A j \in 0..(k - 1) : w[p + j] = Insn(a + j)
    /\ w[p + k] = Jump(a + k, 1, 1)

\* At p is the replacement or the closure trampoline of call id.
Serves(m, w, p, id) == p = Replacements + id - 1 \/ (p \in Handed(m) /\ w[p] = Closure(id))

\* At p is the forward trampoline, from its word i + 1 on.
Forward(m, w, p, i) ==
    p \in Nat /\ \A j \in 0..(2 - i) : p + j \in Handed(m) /\ w[p + j] = Jump(w[p].to, i + j + 1, 3)

Reaches(m, w, to, id) == Serves(m, w, to, id) \/ (Forward(m, w, to, 0) /\ Serves(m, w, w[to].to, id))

\* Behind the first of n words from a on.
Within(a, n, r) == a < r /\ r < a + n

\* A thread can come back to r: no trampoline that is there or is being written
\* has r behind its first word.
Outside(r, es, pt) ==
    /\ \A i \in DOMAIN es : ~Within(es[i].addr, Len(es[i].origin), r)
    /\ pt # <<>> => ~Within(pt[1], Len(pt[2]), r)

\* A thread is on its way to its next instruction: there, inside the trampoline
\* of an entry that is not being destroyed, or away from the library with the
\* branch that brings it back in front of it.
InPlace(th, es, pt) == th.pc = th.next /\ Outside(th.next, es, pt)
Midway(th, w, es, h) ==
    \E i \in DOMAIN es : /\ i # h /\ th.next = es[i].addr /\ Within(es[i].addr, Len(es[i].origin), th.pc)
                         /\ th.reg = <<w[th.next].to, th.pc - th.next>>
Towards(pc, reg, m, w, id) ==
    \/ Serves(m, w, pc, id)
    \/ \E i \in 0..2 : /\ Forward(m, w, pc, i) /\ Serves(m, w, w[pc].to, id)
                       /\ i # 0 => reg = <<w[pc].to, i>>
Away(th, m, w, bk, k) ==
    \/ Runs(m, w, th.pc, th.next, k)
    \/ \E id \in 1..MaxOps : Runs(m, w, bk[id], th.next, k) /\ Towards(th.pc, th.reg, m, w, id)
OnItsWay(th, m, w, bk, es, pt, h) ==
    /\ th.fn \in Functions /\ th.next \in th.fn..LastOf[th.fn] /\ th.pc \in Nat
    /\ \/ InPlace(th, es, pt)
       \/ Midway(th, w, es, h)
       \/ \E k \in 0..TrampSize : Outside(th.next + k, es, pt) /\ Away(th, m, w, bk, k)

\* An entry is wired: its trampoline leads to its replacement or closure, and
\* that to its relocated code.
Wired(e, m, w, bk) ==
    /\ e.id \in 1..MaxOps /\ bk[e.id] = e.relocated /\ Reaches(m, w, w[e.addr].to, e.id) /\ w[e.addr].to \in Int
    /\ \A j \in 0..(Len(e.origin) - 1) : w[e.addr + j] = Jump(w[e.addr].to, j + 1, Len(e.origin))
Apart(e, d) == e.addr + Len(e.origin) <= d.addr \/ d.addr + Len(d.origin) <= e.addr
Network(m, w, bk, es) ==
    /\ \A i \in DOMAIN es : Wired(es[i], m, w, bk)
    /\ \A i, j \in DOMAIN es : i # j => Apart(es[i], es[j])

Held == IF op.at = "restore" THEN op.entry ELSE 0
Whole(th) == th = [pc |-> th.pc, next |-> th.next, fn |-> th.fn, reg |-> th.reg, fate |-> th.fate, excused |-> th.excused]

\* What holds whatever limits were met.
Prepared ==
    /\ Executable(mm) /\ backup \in [1..MaxOps -> Nat] /\ LowPages \subseteq foreign
    /\ thread = [t \in Threads |-> thread[t]] /\ \A t \in Threads : Whole(thread[t])
    /\ \A i \in 1..MaxOps : i > calls => backup[i] = 0
    /\ op.at \in {"route", "map", "relocate", "relocated", "committed"} => op.id \in 1..MaxOps /\ op.id = calls
    /\ op.at \in {"route", "map", "relocate", "relocated"} => backup[op.id] = 0
    /\ op.at = "committed" => backup[op.id] = op.relocated
    /\ op.at \in {"idle", "route", "map", "relocate", "relocated"} => patch = <<>>

\* The trampoline of the call in progress leads to its replacement or closure.
Aimed ==
    /\ op.at = "map" => Serves(mm, mem, op.dst, op.id)
    /\ op.at \in {"relocate", "relocated", "committed"} =>
         /\ Reaches(mm, mem, op.tramp[1].to, op.id) /\ op.tramp[1].to \in Int
         /\ \A j \in 1..Len(op.tramp) : op.tramp[j] = Jump(op.tramp[1].to, j, Len(op.tramp))
    /\ op.at \in {"relocated", "committed"} => \A i \in DOMAIN entries : Apart(entries[i], op)

Fares(th) ==
    /\ th.fate = "in" => th.excused \/ OnItsWay(th, mm, mem, backup, entries, patch, Held)
    /\ th.fate = "lost" => th.excused

ThreadInv ==
    /\ DobbyInv /\ Prepared
    /\ limits = {} => Network(mm, mem, backup, entries) /\ Aimed /\ \A t \in Threads : Fares(thread[t])

\* Code in handed-out memory does what it did when more is handed out.
LEMMA CodeKept ==
    ASSUME NEW m, NEW w, NEW n, NEW x, Kept(m, w, n, x)
    PROVE  /\ \A p, a, k : k \in Nat /\ Runs(m, w, p, a, k) => Runs(n, x, p, a, k)
           /\ \A p, id : Serves(m, w, p, id) => Serves(n, x, p, id)
           /\ \A p, i : i \in 0..2 /\ Forward(m, w, p, i) => Forward(n, x, p, i) /\ x[p].to = w[p].to
           /\ \A to, id : Reaches(m, w, to, id) => Reaches(n, x, to, id)
<1>1. ASSUME NEW p, NEW a, NEW k \in Nat, Runs(m, w, p, a, k) PROVE Runs(n, x, p, a, k)
  <2>1. p \in Nat /\ \A b \in Int : p <= b /\ b <= p + k => b \in Handed(m) /\ b \in Handed(n) /\ x[b] = w[b]
    BY <1>1 DEF Runs, Kept
  <2>2. \A j \in 0..k : x[p + j] = w[p + j]
    <3> SUFFICES ASSUME NEW j \in 0..k PROVE x[p + j] = w[p + j] OBVIOUS
    <3>1. p + j \in Int /\ p <= p + j /\ p + j <= p + k BY <2>1
    <3> QED BY <2>1, <3>1
  <2>3. x[p + k] = w[p + k] /\ \A j \in 0..(k - 1) : x[p + j] = w[p + j] BY <2>2
  <2> QED BY <1>1, <2>1, <2>3 DEF Runs
<1>2. ASSUME NEW p, NEW id, Serves(m, w, p, id) PROVE Serves(n, x, p, id) BY <1>2 DEF Serves, Kept
<1>3. ASSUME NEW p, NEW i \in 0..2, Forward(m, w, p, i) PROVE Forward(n, x, p, i) /\ x[p].to = w[p].to
  <2>1. p \in Nat /\ 0 \in 0..(2 - i) /\ p + 0 = p BY <1>3 DEF Forward
  <2>2. p \in Handed(m) BY <1>3, <2>1 DEF Forward
  <2>3. x[p] = w[p] BY <2>2 DEF Kept
  <2> QED BY <1>3, <2>3 DEF Forward, Kept
<1>4. ASSUME NEW to, NEW id, Reaches(m, w, to, id) PROVE Reaches(n, x, to, id)
  BY <1>2, <1>3, <1>4 DEF Reaches
<1> QED BY <1>1, <1>2, <1>3, <1>4

\* Memory that was handed out is executable, is not part of the library, and
\* does not begin at the null pointer.
LEMMA HandedGives ==
    ASSUME DobbyInv, Prepared, limits = {}, NEW b \in Handed(mm)
    PROVE  /\ b \in Addresses /\ b \in Nat /\ b \notin Text /\ b < Replacements /\ b # 0
           /\ mm.perm[PageOf(b)] \in {"rx", "rwx"}
<1>1. b \in Addresses BY DEF Handed
<1>2. b \in Nat /\ b \in Int BY <1>1, AddressesNat
<1>3. b < Replacements
  <2>1. Pages * PageSize \in Int /\ Replacements \in Int BY PageSizePositive, Constants
  <2>2. b <= Pages * PageSize - 1 BY <1>1, <2>1 DEF Addresses
  <2> QED BY <1>2, <2>1, <2>2, CodeAssumption
<1>4. mm \in Machines /\ Laid(mm) /\ LowPages \subseteq foreign BY DEF DobbyInv, Typed, Standing, Prepared
<1>5. PICK i \in DOMAIN mm.arenas : mm.arenas[i].addr <= b /\ b < mm.arenas[i].cursor BY DEF Handed
<1>6. mm.arenas[i] \in Arenas BY <1>4 DEF Machines
<1>7. InArena(mm.arenas[i], b) BY <1>2, <1>4, <1>5, <1>6 DEF Laid, InArena, Arenas
<1>8. mm.page[PageOf(b)] = "arena" BY <1>2, <1>4, <1>7 DEF Laid
<1>9. b \notin Text BY <1>4, <1>8 DEF Laid, Text
<1>10. b # 0
  <2>1. PageOf(0) = 0
    <3>1. 0 * PageSize = 0 BY PageSizePositive
    <3> QED BY <3>1, FirstOfPage
  <2>2. mm.page[0] = "foreign"
    <3>1. 0 \in foreign /\ Tidy(mm) BY <1>4, LowAssumption DEF DobbyInv, Standing
    <3>2. 0 * PageSize = 0 BY PageSizePositive
    <3>3. \A j \in DOMAIN mm.arenas : ~(mm.arenas[j].addr < 0)
      <4> SUFFICES ASSUME NEW j \in DOMAIN mm.arenas PROVE ~(mm.arenas[j].addr < 0) OBVIOUS
      <4>1. mm.arenas[j] \in Arenas BY <1>4 DEF Machines
      <4> QED BY <4>1 DEF Arenas
    <3>4. \A a \in Functions \cup Points : 0 # a + TrampSize
      <4>1. \A a \in Sites : a \in Nat BY SitesGive
      <4> QED BY <4>1, Constants DEF Sites
    <3>5. ~Filled(mm, 0) BY <3>2, <3>3, <3>4 DEF Filled
    <3> QED BY <3>1, <3>5 DEF Tidy
  <2> QED BY <1>8, <2>1, <2>2
<1>11. mm.perm[PageOf(b)] \in {"rx", "rwx"}
  <2>1. PageOf(b) \in PageIds BY <1>1, <1>2, PageRange
  <2> QED BY <1>8, <2>1 DEF Prepared, Executable
<1> QED BY <1>1, <1>2, <1>3, <1>9, <1>10, <1>11

-----------------------------------------------------------------------------
(* What a thread fetches, and where it goes.                               *)

\* The thread th has become r.
Moved(th, r, pc, next, reg) ==
    /\ r.pc = pc /\ r.next = next /\ r.reg = reg /\ r.fn = th.fn /\ r.fate = th.fate /\ r.excused = th.excused
    /\ Whole(r)

\* The fields of a thread after an instruction.
LEMMA Updated ==
    ASSUME NEW x, NEW y, NEW th, Whole(th)
    PROVE  /\ Moved(th, [th EXCEPT !.pc = @ + 1, !.next = @ + 1, !.reg = y], th.pc + 1, th.next + 1, y)
           /\ Moved(th, [th EXCEPT !.pc = @ + 1, !.reg = y], th.pc + 1, th.next, y)
           /\ Moved(th, [th EXCEPT !.pc = x, !.reg = y], x, th.next, y)
<1>1. ASSUME NEW r, r = [th EXCEPT !.pc = @ + 1, !.next = @ + 1, !.reg = y]
      PROVE  Moved(th, r, th.pc + 1, th.next + 1, y)
  <2>1. r.pc = th.pc + 1 BY <1>1 DEF Whole
  <2>2. r.next = th.next + 1 BY <1>1 DEF Whole
  <2>3. r.reg = y BY <1>1 DEF Whole
  <2>4. r.fn = th.fn BY <1>1 DEF Whole
  <2>5. r.fate = th.fate BY <1>1 DEF Whole
  <2>6. r.excused = th.excused BY <1>1 DEF Whole
  <2>7. Whole(r) BY <1>1 DEF Whole
  <2> QED BY <2>1, <2>2, <2>3, <2>4, <2>5, <2>6, <2>7 DEF Moved
<1>2. ASSUME NEW r, r = [th EXCEPT !.pc = @ + 1, !.reg = y]
      PROVE  Moved(th, r, th.pc + 1, th.next, y)
  <2>1. r.pc = th.pc + 1 BY <1>2 DEF Whole
  <2>2. r.next = th.next BY <1>2 DEF Whole
  <2>3. r.reg = y BY <1>2 DEF Whole
  <2>4. r.fn = th.fn BY <1>2 DEF Whole
  <2>5. r.fate = th.fate BY <1>2 DEF Whole
  <2>6. r.excused = th.excused BY <1>2 DEF Whole
  <2>7. Whole(r) BY <1>2 DEF Whole
  <2> QED BY <2>1, <2>2, <2>3, <2>4, <2>5, <2>6, <2>7 DEF Moved
<1>3. ASSUME NEW r, r = [th EXCEPT !.pc = x, !.reg = y]
      PROVE  Moved(th, r, x, th.next, y)
  <2>1. r.pc = x BY <1>3 DEF Whole
  <2>2. r.next = th.next BY <1>3 DEF Whole
  <2>3. r.reg = y BY <1>3 DEF Whole
  <2>4. r.fn = th.fn BY <1>3 DEF Whole
  <2>5. r.fate = th.fate BY <1>3 DEF Whole
  <2>6. r.excused = th.excused BY <1>3 DEF Whole
  <2>7. Whole(r) BY <1>3 DEF Whole
  <2> QED BY <2>1, <2>2, <2>3, <2>4, <2>5, <2>6, <2>7 DEF Moved
<1> QED BY <1>1, <1>2, <1>3

\* A relocated or original instruction: the next one, or the return.
LEMMA RanInsn ==
    ASSUME NEW th, Whole(th), NEW w, w = Insn(th.next)
    PROVE  \/ Ran(th, w) = Caller
           \/ th.next # LastOf[th.fn] /\ Moved(th, Ran(th, w), th.pc + 1, th.next + 1, <<0, 0>>)
<1>1. w.k = "insn" /\ w.at = th.next BY DEF Insn
<1>2. Ran(th, w) = IF w.at = LastOf[th.fn] THEN Caller
                   ELSE [th EXCEPT !.pc = @ + 1, !.next = @ + 1, !.reg = <<0, 0>>]
  BY <1>1 DEF Ran
<1>3. CASE th.next # LastOf[th.fn]
  <2> DEFINE r == [th EXCEPT !.pc = @ + 1, !.next = @ + 1, !.reg = <<0, 0>>]
  <2>1. Moved(th, r, th.pc + 1, th.next + 1, <<0, 0>>) BY Updated
  <2> QED BY <1>1, <1>2, <1>3, <2>1
<1> QED BY <1>1, <1>2, <1>3

\* A word of a jump: the next one, or the arrival.
LEMMA RanJump ==
    ASSUME NEW th, Whole(th), NEW to, NEW i, NEW n, NEW w, w = Jump(to, i, n), i = 1 \/ th.reg = <<to, i - 1>>
    PROVE  /\ i = n => Moved(th, Ran(th, w), to, th.next, <<0, 0>>)
           /\ i # n => Moved(th, Ran(th, w), th.pc + 1, th.next, <<to, i>>)
<1>1. w.k = "jump" /\ w.to = to /\ w.i = i /\ w.n = n BY DEF Jump
<1>2. Ran(th, w) = IF w.i = w.n THEN [th EXCEPT !.pc = w.to, !.reg = <<0, 0>>]
                   ELSE [th EXCEPT !.pc = @ + 1, !.reg = <<w.to, w.i>>]
  BY <1>1 DEF Ran
<1>3. Moved(th, [th EXCEPT !.pc = w.to, !.reg = <<0, 0>>], to, th.next, <<0, 0>>) BY <1>1, Updated
<1>4. Moved(th, [th EXCEPT !.pc = @ + 1, !.reg = <<w.to, w.i>>], th.pc + 1, th.next, <<to, i>>) BY <1>1, Updated
<1> QED BY <1>1, <1>2, <1>3, <1>4

\* The closure of an instrumented site leads to its relocated code.
LEMMA RanClosure ==
    ASSUME NEW th, Whole(th), NEW id, NEW w, w = Closure(id)
    PROVE  Moved(th, Ran(th, w), backup[id], th.next, th.reg)
<1>1. w.k = "closure" /\ w.id = id BY DEF Closure
<1>2. Ran(th, w) = [th EXCEPT !.pc = backup[id]] BY <1>1 DEF Ran
<1>3. Moved(th, [th EXCEPT !.pc = backup[id]], backup[id], th.next, th.reg) BY DEF Whole, Moved
<1> QED BY <1>2, <1>3

\* Whatever is executed, the thread returns or keeps its excuse.
LEMMA RanKeeps ==
    ASSUME NEW th, Whole(th), NEW w
    PROVE  Ran(th, w) = Caller \/ (Whole(Ran(th, w)) /\ Ran(th, w).excused = th.excused)
<1>1. \/ Ran(th, w) = Caller
      \/ Ran(th, w) = [th EXCEPT !.pc = @ + 1, !.next = @ + 1, !.reg = <<0, 0>>]
      \/ Ran(th, w) = [th EXCEPT !.pc = w.to, !.reg = <<0, 0>>]
      \/ Ran(th, w) = [th EXCEPT !.pc = @ + 1, !.reg = <<w.to, w.i>>]
      \/ Ran(th, w) = [th EXCEPT !.pc = backup[w.id]]
      \/ Ran(th, w) = [th EXCEPT !.fate = "lost"]
  BY DEF Ran
<1>2. CASE Ran(th, w) = [th EXCEPT !.pc = @ + 1, !.next = @ + 1, !.reg = <<0, 0>>] BY <1>2 DEF Whole
<1>3. CASE Ran(th, w) = [th EXCEPT !.pc = w.to, !.reg = <<0, 0>>] BY <1>3 DEF Whole
<1>4. CASE Ran(th, w) = [th EXCEPT !.pc = @ + 1, !.reg = <<w.to, w.i>>] BY <1>4 DEF Whole
<1>5. CASE Ran(th, w) = [th EXCEPT !.pc = backup[w.id]] BY <1>5 DEF Whole
<1>6. CASE Ran(th, w) = [th EXCEPT !.fate = "lost"] BY <1>6 DEF Whole
<1> QED BY <1>1, <1>2, <1>3, <1>4, <1>5, <1>6

\* What a patch in progress writes, and where.
LEMMA PatchSite ==
    ASSUME DobbyInv, Prepared, patch # <<>>
    PROVE  /\ patch[1] \in Sites /\ patch[2] \in Seq(Words) /\ Len(patch[2]) \in 1..TrampSize
           /\ \/ op.at = "committed" /\ patch[1] = op.addr /\ patch[2] = op.tramp /\ Len(op.origin) = Len(op.tramp)
                 /\ op.origin \in Seq(Words)
              \/ /\ op.at = "restore" /\ op.entry \in DOMAIN entries /\ patch[1] = entries[op.entry].addr
                 /\ patch[2] = entries[op.entry].origin
<1>1. op.at \in {"committed", "restore"} BY DEF DobbyInv, Underway, Prepared
<1>2. CASE op.at = "committed"
  <2>1. patch = <<op.addr, op.tramp>> /\ op.addr \in Sites /\ Jumps(op.tramp) /\ Len(op.origin) = Len(op.tramp)
        /\ op.origin \in Seq(Words)
    BY <1>2 DEF DobbyInv, Underway
  <2> QED BY <1>2, <2>1 DEF Jumps
<1>3. CASE op.at = "restore"
  <2>1. op.entry \in DOMAIN entries /\ patch = <<entries[op.entry].addr, entries[op.entry].origin>>
    BY <1>3 DEF DobbyInv, Underway
  <2>2. entries[op.entry] \in Entries BY <2>1 DEF DobbyInv, Typed
  <2> QED BY <1>3, <2>1, <2>2 DEF Entries
<1> QED BY <1>1, <1>2, <1>3

\* A trampoline of n words at a, there or being written, that goes to the code of
\* call id; behind it a thread can come back.
Leads(a, n, to, id) ==
    /\ n \in 1..TrampSize /\ id \in 1..MaxOps /\ to \in Int
    /\ Reaches(mm, mem, to, id) /\ Runs(mm, mem, backup[id], a, n) /\ Outside(a + n, entries, patch)

\* The words of a block, from its first on.
LEMMA BlockRuns ==
    ASSUME NEW m, NEW w, NEW e, e.relocated \in Nat, e.addr \in Nat, Len(e.origin) \in Nat, Block(m, w, e),
           \A j \in 1..Len(e.origin) : e.origin[j] = Insn(e.addr + j - 1)
    PROVE  Runs(m, w, e.relocated, e.addr, Len(e.origin))
<1> DEFINE n == Len(e.origin)
           p == e.relocated
<1>1. \A b \in Int : p <= b /\ b <= p + n => b \in Handed(m) BY DEF Block
<1>2. w[p + n] = Jump(e.addr + n, 1, 1) BY DEF Block
<1>3. ASSUME NEW j \in 0..(n - 1) PROVE w[p + j] = Insn(e.addr + j)
  <2>1. j + 1 \in 1..n /\ p + (j + 1) - 1 = p + j /\ e.addr + (j + 1) - 1 = e.addr + j OBVIOUS
  <2>2. w[p + (j + 1) - 1] = e.origin[j + 1] BY <2>1 DEF Block
  <2>3. e.origin[j + 1] = Insn(e.addr + (j + 1) - 1) BY <2>1
  <2> QED BY <2>1, <2>2, <2>3
<1> QED BY <1>1, <1>2, <1>3 DEF Runs

\* A patched site leads to what its hook reaches, and its original words are kept.
LEMMA EntryLeads ==
    ASSUME ThreadInv, limits = {}, NEW i \in DOMAIN entries, NEW e, e = entries[i]
    PROVE  /\ e \in Entries /\ Leads(e.addr, Len(e.origin), mem[e.addr].to, e.id)
           /\ \A j \in 1..Len(e.origin) : e.origin[j] = Insn(e.addr + j - 1)
<1>1. DobbyInv /\ Prepared /\ Network(mm, mem, backup, entries) /\ Aimed BY DEF ThreadInv
<1>2. /\ entries \in Seq(Entries) /\ e \in Entries /\ Block(mm, mem, e) /\ Matched(mem, entries)
  BY <1>1 DEF DobbyInv, Typed, Standing
<1>3. /\ e.addr \in Nat /\ e.addr \in Text /\ e.relocated \in Nat /\ Len(e.origin) \in Nat /\ Len(e.origin) \in 1..TrampSize
      /\ Len(e.origin) >= 1
  BY <1>2, EntryGives DEF Entries
<1>4. Wired(e, mm, mem, backup) /\ \A j \in DOMAIN entries : j # i => Apart(entries[j], e) BY <1>1 DEF Network
<1>5. \A j \in DOMAIN entries : entries[j] \in Entries /\ entries[j].addr \in Nat /\ Len(entries[j].origin) \in Nat
  BY <1>2, EntryGives
<1>6. ASSUME NEW a \in Int, Covers(e, a), NEW j \in DOMAIN entries, j # i PROVE ~Covers(entries[j], a)
  BY <1>3, <1>4, <1>5, <1>6 DEF Apart, Covers
<1>7. ASSUME NEW j \in 1..Len(e.origin) PROVE e.origin[j] = Insn(e.addr + j - 1)
  <2>1. e.addr + j - 1 \in Int /\ Covers(e, e.addr + j - 1) /\ (e.addr + j - 1) - e.addr + 1 = j BY <1>3 DEF Covers
  <2>2. e.addr + j - 1 \in Text BY <1>2, <2>1, EntryGives
  <2>3. \A k \in DOMAIN entries : k < i => ~Covers(entries[k], e.addr + j - 1)
    <3>1. \A k \in DOMAIN entries : k < i => k # i BY <1>2
    <3> QED BY <1>6, <2>1, <3>1
  <2>4. e.origin[(e.addr + j - 1) - e.addr + 1] = Insn(e.addr + j - 1) BY <1>2, <2>1, <2>2, <2>3 DEF Matched
  <2> QED BY <2>1, <2>4
<1>8. Runs(mm, mem, backup[e.id], e.addr, Len(e.origin)) BY <1>2, <1>3, <1>4, <1>7, BlockRuns DEF Wired
<1>9. ASSUME NEW j \in DOMAIN entries PROVE ~Within(entries[j].addr, Len(entries[j].origin), e.addr + Len(e.origin))
  <2>1. CASE j = i BY <1>3, <2>1 DEF Within
  <2>2. CASE j # i BY <1>3, <1>4, <1>5, <2>2 DEF Within, Apart
  <2> QED BY <2>1, <2>2
<1>10. ASSUME patch # <<>> PROVE ~Within(patch[1], Len(patch[2]), e.addr + Len(e.origin))
  <2>1. CASE op.at = "committed" /\ patch[1] = op.addr /\ patch[2] = op.tramp /\ Len(op.origin) = Len(op.tramp)
    <3>1. Apart(e, op) BY <1>1, <2>1 DEF Aimed
    <3>2. op.addr \in Nat /\ Len(op.origin) \in Nat BY <1>1, <1>10, <2>1, PatchSite, SitesGive
    <3> QED BY <1>3, <2>1, <3>1, <3>2 DEF Within, Apart
  <2>2. CASE /\ op.at = "restore" /\ op.entry \in DOMAIN entries /\ patch[1] = entries[op.entry].addr
             /\ patch[2] = entries[op.entry].origin
    BY <1>9, <2>2
  <2> QED BY <1>1, <1>10, <2>1, <2>2, PatchSite
<1>11. Outside(e.addr + Len(e.origin), entries, patch) BY <1>9, <1>10 DEF Outside
<1> QED BY <1>2, <1>3, <1>4, <1>7, <1>8, <1>11 DEF Leads, Wired

\* A trampoline that was not committed yet leads to what its hook reaches.
LEMMA CallLeads ==
    ASSUME ThreadInv, limits = {}, op.at = "committed"
    PROVE  /\ Leads(op.addr, Len(op.tramp), op.tramp[1].to, op.id) /\ Len(op.origin) = Len(op.tramp)
           /\ \A j \in 1..Len(op.tramp) : mem[op.addr + j - 1] = Insn(op.addr + j - 1)
<1>1. DobbyInv /\ Prepared /\ Network(mm, mem, backup, entries) /\ Aimed BY DEF ThreadInv
<1>2. /\ op.addr \in Sites /\ Jumps(op.tramp) /\ op.relocated \in Nat /\ Len(op.origin) = Len(op.tramp)
      /\ op.origin \in Seq(Words) /\ Saved(mm, mem, op) /\ patch = <<op.addr, op.tramp>>
  BY <1>1 DEF DobbyInv, Underway
<1> DEFINE n == Len(op.tramp)
<1>3. op.addr \in Nat /\ n \in Nat /\ n \in 1..TrampSize /\ n >= 1 BY <1>2, SitesGive DEF Jumps
<1>4. /\ Reaches(mm, mem, op.tramp[1].to, op.id) /\ op.tramp[1].to \in Int /\ \A i \in DOMAIN entries : Apart(entries[i], op)
  BY <1>1 DEF Aimed
<1>5. op.id \in 1..MaxOps /\ backup[op.id] = op.relocated BY <1>1 DEF Prepared
<1>6. entries \in Seq(Entries) /\ Matched(mem, entries) /\ mem \in Code BY <1>1 DEF DobbyInv, Typed, Standing
<1>7. \A i \in DOMAIN entries : entries[i] \in Entries /\ entries[i].addr \in Nat /\ Len(entries[i].origin) \in Nat
  BY <1>6, EntryGives
<1>8. ASSUME NEW j \in 1..n PROVE op.origin[j] = Insn(op.addr + j - 1) /\ mem[op.addr + j - 1] = Insn(op.addr + j - 1)
  <2>1. op.addr + j - 1 \in Text BY <1>2, <1>3, <1>6, ReadGives
  <2>2. op.addr <= op.addr + j - 1 /\ op.addr + j - 1 < op.addr + n /\ op.addr + j - 1 \in Int BY <1>3
  <2>3. \A i \in DOMAIN entries : ~Covers(entries[i], op.addr + j - 1)
    <3> SUFFICES ASSUME NEW i \in DOMAIN entries PROVE ~Covers(entries[i], op.addr + j - 1) OBVIOUS
    <3>1. entries[i].addr \in Nat /\ Len(entries[i].origin) \in Nat /\ Apart(entries[i], op) BY <1>4, <1>7
    <3>2. entries[i].addr + Len(entries[i].origin) <= op.addr \/ op.addr + n <= entries[i].addr
      BY <1>2, <3>1 DEF Apart
    <3> QED BY <1>3, <2>2, <3>1, <3>2 DEF Covers
  <2>4. mem[op.addr + j - 1] = Insn(op.addr + j - 1) BY <1>6, <2>1, <2>3 DEF Matched
  <2>5. op.origin[j] = mem[op.addr + j - 1] BY <1>2 DEF Saved
  <2> QED BY <2>4, <2>5
<1>9. Runs(mm, mem, backup[op.id], op.addr, n)
  <2>1. Runs(mm, mem, op.relocated, op.addr, Len(op.origin)) BY <1>2, <1>3, <1>8, BlockRuns DEF Saved
  <2> QED BY <1>2, <1>5, <2>1
<1>10. Outside(op.addr + n, entries, patch)
  <2>1. ASSUME NEW i \in DOMAIN entries PROVE ~Within(entries[i].addr, Len(entries[i].origin), op.addr + n)
    BY <1>2, <1>3, <1>4, <1>7 DEF Within, Apart
  <2>2. ~Within(patch[1], Len(patch[2]), op.addr + n) BY <1>2, <1>3 DEF Within
  <2> QED BY <2>1, <2>2 DEF Outside
<1> QED BY <1>2, <1>3, <1>4, <1>5, <1>8, <1>9, <1>10 DEF Leads

-----------------------------------------------------------------------------
(* One instruction.                                                        *)

\* Text stays executable and is nobody else's memory.
LEMMA TextGives ==
    ASSUME DobbyInv, Prepared, limits = {}, NEW a \in Text
    PROVE  a \in Addresses /\ a \in Nat /\ a < Replacements /\ a \notin Handed(mm) /\ mm.perm[PageOf(a)] \in {"rx", "rwx"}
<1>1. a \in Addresses /\ a \in Nat BY AddressesNat, Constants
<1>2. a < Replacements
  <2>1. Pages * PageSize \in Int /\ Replacements \in Int BY PageSizePositive, Constants
  <2>2. a <= Pages * PageSize - 1 BY <1>1, <2>1 DEF Addresses
  <2> QED BY <1>1, <2>1, <2>2, CodeAssumption
<1>3. Laid(mm) BY DEF DobbyInv, Standing
<1>4. PageOf(a) \in TextPages /\ PageOf(a) \in PageIds BY TextPage
<1>5. mm.page[PageOf(a)] = "text" BY <1>3, <1>4 DEF Laid
<1>6. mm.perm[PageOf(a)] \in {"rx", "rwx"} BY <1>4, <1>5 DEF Prepared, Executable
<1>7. a \notin Handed(mm) BY HandedGives
<1> QED BY <1>1, <1>2, <1>6, <1>7

\* What is fetched outside of a patch of several words: a patch of a single word
\* begins with that word.
LEMMA FetchGives ==
    ASSUME DobbyInv, Prepared, NEW a \in Nat, ~(InPatch(a) /\ Len(patch[2]) > 1), NEW w \in Fetch(a)
    PROVE  \/ w = mem[a]
           \/ patch # <<>> /\ patch[1] = a /\ Len(patch[2]) = 1 /\ w = patch[2][1]
<1>1. CASE InPatch(a)
  <2>1. patch # <<>> /\ a \in Span(patch[1], Len(patch[2])) BY <1>1 DEF InPatch
  <2>2. patch[1] \in Sites /\ Len(patch[2]) \in 1..TrampSize BY <2>1, PatchSite
  <2>3. patch[1] \in Nat /\ Len(patch[2]) \in Nat /\ Len(patch[2]) >= 1 BY <2>2, SitesGive
  <2>a. ~(Len(patch[2]) > 1) BY <1>1, Zenon
  <2>4. Len(patch[2]) = 1
    <3> DEFINE l == Len(patch[2])
    <3>1. l \in Nat /\ l >= 1 /\ ~(l > 1) BY <2>3, <2>a
    <3> HIDE DEF l
    <3>2. l = 1 BY <3>1
    <3> QED BY <3>2 DEF l
  <2>5. patch[1] = a BY <2>1, <2>3, <2>4 DEF Span
  <2>6. a - patch[1] + 1 = 1 BY <2>5
  <2>7. w = mem[a] \/ w = patch[2][a - patch[1] + 1] BY <1>1 DEF Fetch
  <2> QED BY <2>1, <2>4, <2>5, <2>6, <2>7
<1>2. CASE ~InPatch(a) BY <1>2 DEF Fetch
<1> QED BY <1>1, <1>2

\* Memory that was handed out is not patched.
LEMMA FetchHanded ==
    ASSUME DobbyInv, Prepared, limits = {}, NEW a \in Handed(mm), ~(InPatch(a) /\ Len(patch[2]) > 1), NEW w \in Fetch(a)
    PROVE  w = mem[a]
<1>1. a \in Nat /\ a \notin Text BY HandedGives
<1>2. ASSUME patch # <<>> PROVE patch[1] # a BY <1>1, <1>2, PatchSite, SitesGive
<1> QED BY <1>1, <1>2, FetchGives

\* A patch in progress that begins where an entry has its instructions is that
\* entry's own.
LEMMA PatchOwn ==
    ASSUME ThreadInv, limits = {}, patch # <<>>, NEW i \in DOMAIN entries, Covers(entries[i], patch[1])
    PROVE  op.at = "restore" /\ op.entry = i /\ patch[2] = entries[i].origin /\ patch[1] = entries[i].addr
<1>1. DobbyInv /\ Prepared /\ Network(mm, mem, backup, entries) /\ Aimed BY DEF ThreadInv
<1>2. entries[i] \in Entries BY <1>1 DEF DobbyInv, Typed
<1>3. entries[i].addr \in Nat /\ Len(entries[i].origin) \in Nat BY <1>2, EntryGives
<1>4. patch[1] \in Nat /\ Len(patch[2]) \in Nat /\ Len(patch[2]) >= 1 BY <1>1, PatchSite, SitesGive
<1>5. CASE op.at = "committed" /\ patch[1] = op.addr /\ patch[2] = op.tramp /\ Len(op.origin) = Len(op.tramp)
  <2>1. Apart(entries[i], op) BY <1>1, <1>5 DEF Aimed
  <2>2. entries[i].addr + Len(entries[i].origin) <= patch[1] \/ patch[1] + Len(patch[2]) <= entries[i].addr
    BY <1>5, <2>1 DEF Apart
  <2> QED BY <1>3, <1>4, <2>2 DEF Covers
<1>6. CASE /\ op.at = "restore" /\ op.entry \in DOMAIN entries /\ patch[1] = entries[op.entry].addr
           /\ patch[2] = entries[op.entry].origin
  <2>1. CASE op.entry = i BY <1>6, <2>1
  <2>2. CASE op.entry # i
    <3>1. Apart(entries[i], entries[op.entry]) BY <1>1, <1>6, <2>2 DEF Network
    <3>2. entries[i].addr + Len(entries[i].origin) <= patch[1] \/ patch[1] + Len(patch[2]) <= entries[i].addr
      BY <1>6, <3>1 DEF Apart
    <3> QED BY <1>3, <1>4, <3>2 DEF Covers
  <2> QED BY <2>1, <2>2
<1> QED BY <1>1, <1>5, <1>6, PatchSite

\* What a thread in place finds: its instruction, with nothing in the way of the
\* next one, or the first word of a trampoline.
Enters(a, w) ==
    \E n \in 1..TrampSize, id \in 1..MaxOps, to \in Int :
        /\ w = Jump(to, 1, n) /\ Leads(a, n, to, id)
        /\ n # 1 => \E i \in DOMAIN entries : i # Held /\ entries[i].addr = a /\ Len(entries[i].origin) = n /\ mem[a].to = to

\* A thread in the text sees the original instruction, or the whole of a trampoline.
LEMMA FetchInPlace ==
    ASSUME ThreadInv, limits = {}, NEW a \in Text, Outside(a, entries, patch),
           ~(InPatch(a) /\ Len(patch[2]) > 1), NEW w \in Fetch(a)
    PROVE  (w = Insn(a) /\ Outside(a + 1, entries, patch)) \/ Enters(a, w)
<1>1. DobbyInv /\ Prepared /\ Network(mm, mem, backup, entries) /\ Aimed BY DEF ThreadInv
<1>2. a \in Nat BY AddressesNat, Constants
<1>3. entries \in Seq(Entries) /\ Matched(mem, entries) BY <1>1 DEF DobbyInv, Typed, Standing
<1>4. \A i \in DOMAIN entries : /\ entries[i] \in Entries /\ entries[i].addr \in Nat /\ Len(entries[i].origin) \in Nat
                                /\ Len(entries[i].origin) >= 1
  BY <1>3, EntryGives
<1>5. ASSUME patch # <<>> PROVE ~Within(patch[1], Len(patch[2]), a + 1)
  <2>1. patch[1] \in Nat /\ Len(patch[2]) \in Nat /\ Len(patch[2]) >= 1 BY <1>1, <1>5, PatchSite, SitesGive
  <2>2. SUFFICES ASSUME patch[1] < a + 1, a + 1 < patch[1] + Len(patch[2]) PROVE FALSE BY DEF Within
  <2>3. a \in Span(patch[1], Len(patch[2])) /\ Len(patch[2]) > 1 BY <1>2, <2>1, <2>2 DEF Span
  <2> QED BY <1>5, <2>3 DEF InPatch
<1>6. CASE \E i \in DOMAIN entries : entries[i].addr = a
  <2>1. PICK i \in DOMAIN entries : entries[i].addr = a BY <1>6
  <2> DEFINE e == entries[i]
             n == Len(e.origin)
  <2>2. Leads(e.addr, n, mem[e.addr].to, e.id) /\ \A j \in 1..n : e.origin[j] = Insn(e.addr + j - 1)
    BY EntryLeads
  <2>3. n \in Nat /\ n >= 1 /\ n \in 1..TrampSize /\ Wired(e, mm, mem, backup)
    <3>1. n \in 1..TrampSize BY <1>4 DEF Entries
    <3> QED BY <1>1, <1>4, <3>1 DEF Network
  <2>4. CASE w = mem[a]
    <3>1. w = Jump(mem[a].to, 1, n)
      <4>1. 0 \in 0..(n - 1) /\ a + 0 = a BY <1>2, <2>3
      <4>2. mem[a + 0] = Jump(mem[a].to, 0 + 1, n) BY <2>1, <2>3, <4>1 DEF Wired
      <4> QED BY <2>4, <4>1, <4>2
    <3>2. ASSUME n # 1 PROVE i # Held
      <4>1. SUFFICES ASSUME i = Held PROVE FALSE OBVIOUS
      <4>2. op.at = "restore" /\ op.entry = i BY <1>3, <4>1 DEF Held
      <4>3. patch = <<e.addr, e.origin>> BY <1>1, <4>2 DEF DobbyInv, Underway
      <4>n. n > 1
        <5> HIDE DEF n
        <5> QED BY <2>3, <3>2
      <4>4. patch # <<>> /\ patch[1] = a /\ Len(patch[2]) = n /\ n > 1
        <5>1. patch # <<>> /\ patch[1] = e.addr /\ patch[2] = e.origin BY <4>3
        <5> QED BY <2>1, <4>n, <5>1, Zenon
      <4>5. a \in Span(patch[1], Len(patch[2])) BY <1>2, <2>3, <4>4 DEF Span
      <4> QED BY <4>4, <4>5 DEF InPatch
    <3>3. mem[a].to \in Int /\ e.id \in 1..MaxOps BY <2>1, <2>3 DEF Wired
    <3> QED BY <2>1, <2>2, <2>3, <3>1, <3>2, <3>3 DEF Enters
  <2>5. CASE patch # <<>> /\ patch[1] = a /\ Len(patch[2]) = 1 /\ w = patch[2][1]
    <3>1. Covers(e, patch[1]) BY <1>2, <2>1, <2>3, <2>5 DEF Covers
    <3>2. op.at = "restore" /\ op.entry = i /\ patch[2] = e.origin BY <2>5, <3>1, PatchOwn
    <3>3. n = 1 /\ w = Insn(e.addr + 1 - 1) BY <2>2, <2>3, <2>5, <3>2
    <3>4. w = Insn(a) BY <1>2, <2>1, <3>3
    <3>5. Outside(a + 1, entries, patch) BY <2>1, <2>2, <3>3 DEF Leads
    <3> QED BY <3>4, <3>5
  <2> QED BY <1>1, <1>2, <2>4, <2>5, FetchGives
<1>7. CASE \A i \in DOMAIN entries : entries[i].addr # a
  <2>1. \A i \in DOMAIN entries : ~Covers(entries[i], a) BY <1>2, <1>4, <1>7 DEF Outside, Within, Covers
  <2>2. \A i \in DOMAIN entries : ~Within(entries[i].addr, Len(entries[i].origin), a + 1)
    BY <1>2, <1>4, <2>1 DEF Within, Covers
  <2>3. CASE w = mem[a]
    <3>1. w = Insn(a) BY <1>3, <2>1, <2>3 DEF Matched
    <3> QED BY <1>5, <2>2, <3>1 DEF Outside
  <2>4. CASE patch # <<>> /\ patch[1] = a /\ Len(patch[2]) = 1 /\ w = patch[2][1]
    <3>1. op.at = "committed" /\ patch[1] = op.addr /\ patch[2] = op.tramp
      <4>1. ASSUME op.at = "restore", op.entry \in DOMAIN entries, patch[1] = entries[op.entry].addr PROVE FALSE
        BY <1>7, <2>4, <4>1
      <4> QED BY <1>1, <2>4, <4>1, PatchSite
    <3>2. Leads(op.addr, Len(op.tramp), op.tramp[1].to, op.id) BY <3>1, CallLeads
    <3>3. Len(op.tramp) = 1 /\ op.addr = a /\ w = op.tramp[1] BY <2>4, <3>1
    <3>4. 1 \in 1..Len(op.tramp) BY <3>3
    <3>5. op.tramp[1] = Jump(op.tramp[1].to, 1, Len(op.tramp)) /\ op.tramp[1].to \in Int BY <1>1, <3>1, <3>4 DEF Aimed
    <3>6. op.id \in 1..MaxOps /\ 1 \in 1..TrampSize BY <3>2, <3>3 DEF Leads
    <3> QED BY <3>2, <3>3, <3>5, <3>6 DEF Enters
  <2> QED BY <1>1, <1>2, <2>3, <2>4, FetchGives
<1> QED BY <1>6, <1>7

\* A thread that goes on: it has returned, or is on its way again.
Goes(r) == r = Caller \/ (r.fate = "in" /\ Whole(r) /\ OnItsWay(r, mm, mem, backup, entries, patch, Held))

\* A thread that is on its way keeps its function and stays inside of it.
LEMMA NextGives ==
    ASSUME NEW f \in Functions, NEW a \in f..LastOf[f]
    PROVE  /\ f \in Nat /\ LastOf[f] \in Nat /\ a \in Nat /\ a \in Text
           /\ a # LastOf[f] => a + 1 \in f..LastOf[f]
<1>1. LastOf[f] \in Nat /\ f..LastOf[f] \subseteq Text BY CodeAssumption
<1>2. f \in Nat BY SitesGive DEF Sites
<1>3. a \in Nat /\ a \in Text BY <1>1, <1>2
<1>4. a # LastOf[f] => a + 1 \in f..LastOf[f] BY <1>1, <1>2, <1>3
<1> QED BY <1>1, <1>2, <1>3, <1>4

\* Code that leads to call id is somewhere.
LEMMA ServesNat ==
    ASSUME NEW id \in 1..MaxOps, NEW to
    PROVE  (Serves(mm, mem, to, id) => to \in Nat) /\ (Reaches(mm, mem, to, id) => to \in Nat)
<1>1. Replacements + id - 1 \in Nat
  <2>1. Replacements \in Nat /\ MaxOps \in Nat BY Constants
  <2> QED BY <2>1
<1>2. Serves(mm, mem, to, id) => to \in Nat BY <1>1, AddressesNat DEF Serves, Handed
<1> QED BY <1>2 DEF Reaches, Forward

\* From the end of a trampoline a thread goes to the code of its call.
LEMMA GoesAway ==
    ASSUME ThreadInv, limits = {}, NEW th, Whole(th), th.fate = "in", th.fn \in Functions, th.next \in th.fn..LastOf[th.fn],
           NEW n, NEW to, NEW id, Leads(th.next, n, to, id), NEW r, Moved(th, r, to, th.next, <<0, 0>>)
    PROVE  Goes(r)
<1>1. r.pc = to /\ r.next = th.next /\ r.reg = <<0, 0>> /\ r.fn = th.fn /\ r.fate = "in" /\ Whole(r) BY DEF Moved
<1>2. n \in 0..TrampSize /\ id \in 1..MaxOps /\ Reaches(mm, mem, to, id)
      /\ Runs(mm, mem, backup[id], th.next, n) /\ Outside(th.next + n, entries, patch)
  <2>1. TrampSize \in Nat BY Constants
  <2> QED BY <2>1 DEF Leads
<1>3. to \in Nat BY <1>2, ServesNat
<1>4. Towards(to, r.reg, mm, mem, id) BY <1>2 DEF Reaches, Towards
<1>5. Away(r, mm, mem, backup, n) BY <1>1, <1>2, <1>4 DEF Away
<1>6. OnItsWay(r, mm, mem, backup, entries, patch, Held) BY <1>1, <1>2, <1>3, <1>5 DEF OnItsWay
<1> QED BY <1>1, <1>6 DEF Goes

\* A thread in the text goes on.
LEMMA AdvanceInPlace ==
    ASSUME ThreadInv, limits = {}, NEW th, Whole(th), th.fate = "in", th.fn \in Functions, th.next \in th.fn..LastOf[th.fn],
           InPlace(th, entries, patch), ~(InPatch(th.pc) /\ Len(patch[2]) > 1), NEW w \in Fetch(th.pc)
    PROVE  mm.perm[PageOf(th.pc)] \in {"rx", "rwx"} /\ Goes(Ran(th, w))
<1> DEFINE r == Ran(th, w)
<1>1. DobbyInv /\ Prepared BY DEF ThreadInv
<1>2. th.pc = th.next /\ th.next \in Nat /\ th.next \in Text /\ (th.next # LastOf[th.fn] => th.next + 1 \in th.fn..LastOf[th.fn])
  BY NextGives DEF InPlace
<1>3. mm.perm[PageOf(th.pc)] \in {"rx", "rwx"} BY <1>1, <1>2, TextGives
<1>4. ASSUME w = Insn(th.pc), Outside(th.pc + 1, entries, patch) PROVE Goes(r)
  <2>1. r = Caller \/ (th.next # LastOf[th.fn] /\ Moved(th, r, th.pc + 1, th.next + 1, <<0, 0>>))
    BY <1>2, <1>4, RanInsn
  <2> HIDE DEF r
  <2>2. CASE th.next # LastOf[th.fn] /\ Moved(th, r, th.pc + 1, th.next + 1, <<0, 0>>)
    <3>1. r.pc = th.pc + 1 /\ r.next = th.next + 1 /\ r.fn = th.fn /\ r.fate = "in" /\ Whole(r) BY <2>2 DEF Moved
    <3>2. InPlace(r, entries, patch) BY <1>2, <1>4, <3>1 DEF InPlace
    <3>3. OnItsWay(r, mm, mem, backup, entries, patch, Held) BY <1>2, <2>2, <3>1, <3>2 DEF OnItsWay
    <3> QED BY <3>1, <3>3 DEF Goes
  <2> QED BY <2>1, <2>2 DEF Goes
<1>5. ASSUME Enters(th.pc, w) PROVE Goes(r)
  <2>1. PICK n \in 1..TrampSize, id \in 1..MaxOps, to \in Int :
          /\ w = Jump(to, 1, n) /\ Leads(th.pc, n, to, id)
          /\ n # 1 => \E i \in DOMAIN entries : i # Held /\ entries[i].addr = th.pc /\ Len(entries[i].origin) = n
                                                /\ mem[th.pc].to = to
    BY <1>5 DEF Enters
  <2>2. /\ 1 = n => Moved(th, r, to, th.next, <<0, 0>>)
        /\ 1 # n => Moved(th, r, th.pc + 1, th.next, <<to, 1>>)
    BY <2>1, RanJump
  <2> HIDE DEF r
  <2>3. CASE n = 1 BY <1>2, <2>1, <2>2, <2>3, GoesAway
  <2>4. CASE n # 1
    <3>1. r.pc = th.pc + 1 /\ r.next = th.next /\ r.reg = <<to, 1>> /\ r.fn = th.fn /\ r.fate = "in" /\ Whole(r)
      BY <2>2, <2>4 DEF Moved
    <3>2. PICK i \in DOMAIN entries : i # Held /\ entries[i].addr = th.pc /\ Len(entries[i].origin) = n /\ mem[th.pc].to = to
      BY <2>1, <2>4
    <3>3. Within(entries[i].addr, Len(entries[i].origin), r.pc)
      <4>1. n \in Nat /\ n > 1
        <5>1. TrampSize \in Nat BY Constants
        <5> QED BY <2>4, <5>1
      <4> QED BY <1>2, <3>1, <3>2, <4>1 DEF Within
    <3>4. r.reg = <<mem[r.next].to, r.pc - r.next>> BY <1>2, <3>1, <3>2
    <3>5. Midway(r, mem, entries, Held) BY <1>2, <3>1, <3>2, <3>3, <3>4 DEF Midway
    <3>6. r.pc \in Nat BY <1>2, <3>1
    <3>7. OnItsWay(r, mm, mem, backup, entries, patch, Held) BY <3>1, <3>5, <3>6 DEF OnItsWay
    <3> QED BY <3>1, <3>7 DEF Goes
  <2> QED BY <2>3, <2>4
<1> HIDE DEF r
<1>6. Goes(r)
  <2>1. Outside(th.pc, entries, patch) BY <1>2 DEF InPlace
  <2> QED BY <1>2, <1>4, <1>5, <2>1, FetchInPlace
<1> QED BY <1>3, <1>6 DEF r

\* A thread inside a trampoline goes on, although the hook may be removed.
LEMMA AdvanceMidway ==
    ASSUME ThreadInv, limits = {}, NEW th, Whole(th), th.fate = "in", th.fn \in Functions, th.next \in th.fn..LastOf[th.fn],
           th.pc \in Nat, Midway(th, mem, entries, Held), ~(InPatch(th.pc) /\ Len(patch[2]) > 1), NEW w \in Fetch(th.pc)
    PROVE  mm.perm[PageOf(th.pc)] \in {"rx", "rwx"} /\ Goes(Ran(th, w))
<1> DEFINE r == Ran(th, w)
<1>1. DobbyInv /\ Prepared /\ Network(mm, mem, backup, entries) BY DEF ThreadInv
<1>2. PICK i \in DOMAIN entries :
        /\ i # Held /\ th.next = entries[i].addr /\ Within(entries[i].addr, Len(entries[i].origin), th.pc)
        /\ th.reg = <<mem[th.next].to, th.pc - th.next>>
  BY DEF Midway
<1> DEFINE e == entries[i]
           n == Len(e.origin)
           to == mem[th.next].to
           k == th.pc - th.next + 1
<1>3. e \in Entries /\ Wired(e, mm, mem, backup) /\ Leads(e.addr, n, mem[e.addr].to, e.id)
  <2>1. Leads(e.addr, n, mem[e.addr].to, e.id) BY EntryLeads
  <2> QED BY <1>1, <2>1 DEF Network, DobbyInv, Typed
<1>4. th.next \in Nat /\ n \in Nat /\ th.next < th.pc /\ th.pc < th.next + n
  BY <1>2, <1>3, EntryGives DEF Within
<1>5. Covers(e, th.pc) BY <1>2, <1>4 DEF Covers
<1>6. th.pc \in Text BY <1>3, <1>5, EntryGives
<1>7. mm.perm[PageOf(th.pc)] \in {"rx", "rwx"} BY <1>1, <1>6, TextGives
<1>8. w = mem[th.pc]
  <2>1. ASSUME patch # <<>>, patch[1] = th.pc PROVE FALSE
    <3>1. patch[1] = e.addr BY <1>5, <2>1, PatchOwn
    <3> QED BY <1>2, <1>4, <2>1, <3>1
  <2> QED BY <1>1, <2>1, FetchGives
<1>9. w = Jump(to, k, n) /\ k \in Nat /\ k # 1 /\ k <= n
  <2>1. th.pc - th.next \in 0..(n - 1) /\ th.next + (th.pc - th.next) = th.pc BY <1>4
  <2>2. mem[e.addr + (th.pc - th.next)] = Jump(mem[e.addr].to, (th.pc - th.next) + 1, n) BY <1>3, <2>1 DEF Wired
  <2> QED BY <1>2, <1>4, <1>8, <2>1, <2>2
<1>10. th.reg = <<to, k - 1>> BY <1>2, <1>4
<1> HIDE DEF k, to
<1>11. /\ k = n => Moved(th, r, to, th.next, <<0, 0>>)
       /\ k # n => Moved(th, r, th.pc + 1, th.next, <<to, k>>)
  BY <1>9, <1>10, RanJump
<1> HIDE DEF r, n
<1>12. ASSUME k = n PROVE Goes(r) BY <1>2, <1>3, <1>11, <1>12, GoesAway DEF to
<1>13. ASSUME k # n PROVE Goes(r)
  <2>1. r.pc = th.pc + 1 /\ r.next = th.next /\ r.reg = <<to, k>> /\ r.fn = th.fn /\ r.fate = "in" /\ Whole(r)
    BY <1>11, <1>13 DEF Moved
  <2>2. k < n BY <1>4, <1>9, <1>13
  <2>3. e.addr < r.pc /\ r.pc < e.addr + n BY <1>2, <1>4, <2>1, <2>2 DEF k
  <2>4. Within(e.addr, Len(e.origin), r.pc) BY <2>3 DEF Within, n
  <2>5. r.reg = <<mem[r.next].to, r.pc - r.next>>
    <3>1. r.pc - r.next = k BY <1>4, <2>1 DEF k
    <3> QED BY <2>1, <3>1 DEF to
  <2>6. Midway(r, mem, entries, Held) BY <1>2, <2>1, <2>4, <2>5 DEF Midway
  <2>7. r.pc \in Nat BY <2>1
  <2>8. OnItsWay(r, mm, mem, backup, entries, patch, Held) BY <2>1, <2>6, <2>7 DEF OnItsWay
  <2> QED BY <2>1, <2>8 DEF Goes
<1> QED BY <1>7, <1>12, <1>13 DEF r

\* Relocated code, from its first word on.
LEMMA AdvanceRelocated ==
    ASSUME ThreadInv, limits = {}, NEW th, Whole(th), th.fate = "in", th.fn \in Functions, th.next \in th.fn..LastOf[th.fn],
           NEW k \in 0..TrampSize, Outside(th.next + k, entries, patch), Runs(mm, mem, th.pc, th.next, k),
           ~(InPatch(th.pc) /\ Len(patch[2]) > 1), NEW w \in Fetch(th.pc)
    PROVE  mm.perm[PageOf(th.pc)] \in {"rx", "rwx"} /\ Goes(Ran(th, w))
<1> DEFINE r == Ran(th, w)
<1>1. DobbyInv /\ Prepared BY DEF ThreadInv
<1>2. th.next \in Nat /\ (th.next # LastOf[th.fn] => th.next + 1 \in th.fn..LastOf[th.fn]) BY NextGives
<1>3. k \in Nat /\ TrampSize \in Nat /\ k <= TrampSize BY Constants
<1>4. /\ th.pc \in Nat /\ \A b \in Int : th.pc <= b /\ b <= th.pc + k => b \in Handed(mm)
      /\ \A j \in 0..(k - 1) : mem[th.pc + j] = Insn(th.next + j)
      /\ mem[th.pc + k] = Jump(th.next + k, 1, 1)
  BY DEF Runs
<1>5. th.pc \in Handed(mm) BY <1>3, <1>4
<1>6. w = mem[th.pc] BY <1>1, <1>5, FetchHanded
<1>7. mm.perm[PageOf(th.pc)] \in {"rx", "rwx"} BY <1>1, <1>5, HandedGives
<1>8. ASSUME k = 0 PROVE Goes(r)
  <2>1. th.pc + k = th.pc /\ th.next + k = th.next BY <1>2, <1>4, <1>8
  <2>2. w = Jump(th.next, 1, 1) BY <1>4, <1>6, <2>1
  <2>3. Moved(th, r, th.next, th.next, <<0, 0>>) BY <2>2, RanJump
  <2> HIDE DEF r
  <2>4. r.pc = th.next /\ r.next = th.next /\ r.fn = th.fn /\ r.fate = "in" /\ Whole(r) BY <2>3 DEF Moved
  <2>5. InPlace(r, entries, patch) BY <2>1, <2>4 DEF InPlace
  <2>6. OnItsWay(r, mm, mem, backup, entries, patch, Held) BY <1>2, <2>4, <2>5 DEF OnItsWay
  <2> QED BY <2>4, <2>6 DEF Goes
<1>9. ASSUME k # 0 PROVE Goes(r)
  <2>1. 0 \in 0..(k - 1) /\ th.pc + 0 = th.pc /\ th.next + 0 = th.next BY <1>2, <1>3, <1>4, <1>9
  <2>2. w = Insn(th.next) BY <1>4, <1>6, <2>1
  <2>3. r = Caller \/ (th.next # LastOf[th.fn] /\ Moved(th, r, th.pc + 1, th.next + 1, <<0, 0>>)) BY <2>2, RanInsn
  <2> HIDE DEF r
  <2>4. ASSUME th.next # LastOf[th.fn], Moved(th, r, th.pc + 1, th.next + 1, <<0, 0>>) PROVE Goes(r)
    <3>1. r.pc = th.pc + 1 /\ r.next = th.next + 1 /\ r.fn = th.fn /\ r.fate = "in" /\ Whole(r) BY <2>4 DEF Moved
    <3>2. Runs(mm, mem, th.pc + 1, th.next + 1, k - 1)
      <4>1. th.pc + 1 \in Nat /\ k - 1 \in Nat /\ th.pc + 1 + (k - 1) = th.pc + k /\ th.next + 1 + (k - 1) = th.next + k
        BY <1>2, <1>3, <1>4, <1>9
      <4>0. th.pc \in Nat BY <1>4
      <4>2. ASSUME NEW b \in Int, th.pc + 1 <= b, b <= th.pc + 1 + (k - 1) PROVE b \in Handed(mm)
        <5>1. th.pc <= b /\ b <= th.pc + k BY <1>3, <4>0, <4>2
        <5> QED BY <1>4, <5>1
      <4>3. ASSUME NEW j \in 0..(k - 1 - 1) PROVE mem[th.pc + 1 + j] = Insn(th.next + 1 + j)
        <5>1. j + 1 \in 0..(k - 1) /\ th.pc + (j + 1) = th.pc + 1 + j /\ th.next + (j + 1) = th.next + 1 + j
          BY <1>2, <1>3, <4>0
        <5>2. mem[th.pc + (j + 1)] = Insn(th.next + (j + 1)) BY <1>4, <5>1
        <5> QED BY <5>1, <5>2
      <4>4. mem[th.pc + 1 + (k - 1)] = Jump(th.next + 1 + (k - 1), 1, 1) BY <1>4, <4>1
      <4> QED BY <4>1, <4>2, <4>3, <4>4 DEF Runs
    <3>3. k - 1 \in 0..TrampSize /\ r.next + (k - 1) = th.next + k /\ r.pc \in Nat BY <1>2, <1>3, <1>4, <1>9, <3>1
    <3>4. Away(r, mm, mem, backup, k - 1) BY <3>1, <3>2 DEF Away
    <3>5. OnItsWay(r, mm, mem, backup, entries, patch, Held) BY <1>2, <2>4, <3>1, <3>3, <3>4 DEF OnItsWay
    <3> QED BY <3>1, <3>5 DEF Goes
  <2> QED BY <2>3, <2>4 DEF Goes
<1> QED BY <1>7, <1>8, <1>9

\* A forward trampoline or a closure in front of the relocated code.
LEMMA AdvanceTowards ==
    ASSUME ThreadInv, limits = {}, NEW th, Whole(th), th.fate = "in", th.fn \in Functions, th.next \in th.fn..LastOf[th.fn],
           NEW k \in 0..TrampSize, Outside(th.next + k, entries, patch), NEW id \in 1..MaxOps,
           Runs(mm, mem, backup[id], th.next, k), Towards(th.pc, th.reg, mm, mem, id), th.pc \in Addresses,
           ~(InPatch(th.pc) /\ Len(patch[2]) > 1), NEW w \in Fetch(th.pc)
    PROVE  mm.perm[PageOf(th.pc)] \in {"rx", "rwx"} /\ Goes(Ran(th, w))
<1> DEFINE r == Ran(th, w)
           to == mem[th.pc].to
<1>1. DobbyInv /\ Prepared BY DEF ThreadInv
<1>2. th.pc \in Nat BY AddressesNat
<1>3. ASSUME Serves(mm, mem, th.pc, id) PROVE mm.perm[PageOf(th.pc)] \in {"rx", "rwx"} /\ Goes(r)
  <2>1. th.pc # Replacements + id - 1
    <3>1. Pages * PageSize \in Int /\ Replacements \in Int /\ MaxOps \in Int BY PageSizePositive, Constants
    <3>2. th.pc <= Pages * PageSize - 1 BY <3>1 DEF Addresses
    <3> QED BY <1>2, <3>1, <3>2, CodeAssumption
  <2>2. th.pc \in Handed(mm) /\ mem[th.pc] = Closure(id) BY <1>3, <2>1 DEF Serves
  <2>3. w = Closure(id) BY <1>1, <2>2, FetchHanded
  <2>4. Moved(th, r, backup[id], th.next, th.reg) BY <2>3, RanClosure
  <2> HIDE DEF r
  <2>5. r.pc = backup[id] /\ r.next = th.next /\ r.fn = th.fn /\ r.fate = "in" /\ Whole(r) BY <2>4 DEF Moved
  <2>6. Away(r, mm, mem, backup, k) BY <2>5 DEF Away
  <2>7. r.pc \in Nat BY <2>5 DEF Runs
  <2>8. OnItsWay(r, mm, mem, backup, entries, patch, Held) BY <2>5, <2>6, <2>7 DEF OnItsWay
  <2> QED BY <1>1, <2>2, <2>5, <2>8, HandedGives DEF Goes
<1>4. ASSUME NEW i \in 0..2, Forward(mm, mem, th.pc, i), Serves(mm, mem, to, id), i # 0 => th.reg = <<to, i>>
      PROVE  mm.perm[PageOf(th.pc)] \in {"rx", "rwx"} /\ Goes(r)
  <2>1. \A j \in 0..(2 - i) : th.pc + j \in Handed(mm) /\ mem[th.pc + j] = Jump(to, i + j + 1, 3) BY <1>4 DEF Forward
  <2>2. 0 \in 0..(2 - i) /\ th.pc + 0 = th.pc /\ i + 0 + 1 = i + 1 BY <1>2
  <2>3. th.pc \in Handed(mm) /\ mem[th.pc] = Jump(to, i + 1, 3) BY <2>1, <2>2
  <2>4. w = Jump(to, i + 1, 3) BY <1>1, <2>3, FetchHanded
  <2>5. mm.perm[PageOf(th.pc)] \in {"rx", "rwx"} BY <1>1, <2>3, HandedGives
  <2>6. i + 1 = 1 \/ th.reg = <<to, i + 1 - 1>>
    <3>1. CASE i = 0 BY <3>1
    <3>2. CASE i # 0
      <4>1. i + 1 - 1 = i OBVIOUS
      <4> QED BY <1>4, <3>2, <4>1
    <3> QED BY <3>1, <3>2
  <2> HIDE DEF to
  <2>7. /\ i + 1 = 3 => Moved(th, r, to, th.next, <<0, 0>>)
        /\ i + 1 # 3 => Moved(th, r, th.pc + 1, th.next, <<to, i + 1>>)
    BY <2>4, <2>6, RanJump
  <2> HIDE DEF r
  <2>8. ASSUME i = 2 PROVE Goes(r)
    <3>1. r.pc = to /\ r.next = th.next /\ r.fn = th.fn /\ r.fate = "in" /\ Whole(r) BY <2>7, <2>8 DEF Moved
    <3>2. Towards(r.pc, r.reg, mm, mem, id) BY <1>4, <3>1 DEF Towards
    <3>3. Away(r, mm, mem, backup, k) BY <3>1, <3>2 DEF Away
    <3>4. r.pc \in Nat BY <1>4, <3>1, ServesNat
    <3>5. OnItsWay(r, mm, mem, backup, entries, patch, Held) BY <3>1, <3>3, <3>4 DEF OnItsWay
    <3> QED BY <3>1, <3>5 DEF Goes
  <2>9. ASSUME i # 2 PROVE Goes(r)
    <3>1. /\ r.pc = th.pc + 1 /\ r.next = th.next /\ r.reg = <<to, i + 1>> /\ r.fn = th.fn /\ r.fate = "in" /\ Whole(r)
      BY <2>7, <2>9 DEF Moved
    <3>2. mem[th.pc + 1].to = to
      <4>1. 1 \in 0..(2 - i) BY <2>9
      <4>2. mem[th.pc + 1] = Jump(to, i + 1 + 1, 3) BY <2>1, <4>1
      <4> QED BY <4>2 DEF Jump
    <3>3. ASSUME NEW j \in 0..(2 - (i + 1))
          PROVE  th.pc + 1 + j \in Handed(mm) /\ mem[th.pc + 1 + j] = Jump(to, (i + 1) + j + 1, 3)
      <4>1. j + 1 \in 0..(2 - i) /\ th.pc + (j + 1) = th.pc + 1 + j /\ i + (j + 1) + 1 = (i + 1) + j + 1 BY <1>2
      <4>2. th.pc + (j + 1) \in Handed(mm) /\ mem[th.pc + (j + 1)] = Jump(to, i + (j + 1) + 1, 3) BY <2>1, <4>1
      <4> QED BY <4>1, <4>2
    <3>4. r.pc \in Nat /\ i + 1 \in 0..2 BY <1>2, <2>9, <3>1
    <3>5. Forward(mm, mem, r.pc, i + 1) BY <3>1, <3>2, <3>3, <3>4 DEF Forward
    <3>6. Towards(r.pc, r.reg, mm, mem, id) BY <1>4, <3>1, <3>2, <3>4, <3>5 DEF Towards
    <3>7. Away(r, mm, mem, backup, k) BY <3>1, <3>6 DEF Away
    <3>8. OnItsWay(r, mm, mem, backup, entries, patch, Held) BY <3>1, <3>4, <3>7 DEF OnItsWay
    <3> QED BY <3>1, <3>8 DEF Goes
  <2> QED BY <2>5, <2>8, <2>9
<1> HIDE DEF r
<1>5. mm.perm[PageOf(th.pc)] \in {"rx", "rwx"} /\ Goes(r) BY <1>3, <1>4 DEF Towards
<1> QED BY <1>5 DEF r

\* A thread on its way stays on its way, wherever it is.
LEMMA Advance ==
    ASSUME ThreadInv, limits = {}, NEW th, Whole(th), th.fate = "in", th.pc \in Addresses,
           OnItsWay(th, mm, mem, backup, entries, patch, Held), ~(InPatch(th.pc) /\ Len(patch[2]) > 1), NEW w \in Fetch(th.pc)
    PROVE  mm.perm[PageOf(th.pc)] \in {"rx", "rwx"} /\ Goes(Ran(th, w))
<1>1. th.fn \in Functions /\ th.next \in th.fn..LastOf[th.fn] /\ th.pc \in Nat BY DEF OnItsWay
<1>2. CASE InPlace(th, entries, patch) BY <1>1, <1>2, AdvanceInPlace
<1>3. CASE Midway(th, mem, entries, Held) BY <1>1, <1>3, AdvanceMidway
<1>4. ASSUME NEW k \in 0..TrampSize, Outside(th.next + k, entries, patch), Away(th, mm, mem, backup, k)
      PROVE  mm.perm[PageOf(th.pc)] \in {"rx", "rwx"} /\ Goes(Ran(th, w))
  <2>1. CASE Runs(mm, mem, th.pc, th.next, k) BY <1>1, <1>4, <2>1, AdvanceRelocated
  <2>2. ASSUME NEW id \in 1..MaxOps, Runs(mm, mem, backup[id], th.next, k), Towards(th.pc, th.reg, mm, mem, id)
        PROVE  mm.perm[PageOf(th.pc)] \in {"rx", "rwx"} /\ Goes(Ran(th, w))
    BY <1>1, <1>4, <2>2, AdvanceTowards
  <2> QED BY <1>4, <2>1, <2>2 DEF Away
<1> QED BY <1>2, <1>3, <1>4 DEF OnItsWay

-----------------------------------------------------------------------------
(* The steps of threads.                                                   *)

\* A thread outside is at its caller.
LEMMA CallerWhole == Whole(Caller) /\ Caller.fate = "out" BY DEF Caller, Whole

\* A thread takes a step, and the code stays as it is.
LEMMA ThreadStep ==
    ASSUME ThreadInv, UNCHANGED <<mm, mem, patch, foreign, limits, dobbyVars>>, NEW t \in Threads, NEW r,
           thread' = [thread EXCEPT ![t] = r], Whole(r), limits = {} => Fares(r)
    PROVE  ThreadInv'
<1>1. UNCHANGED <<mm, mem, patch, foreign, limits, entries, plugin, op, backup, calls>> BY DEF dobbyVars
<1>2. DobbyInv' BY <1>1, StepOthers DEF ThreadInv
<1>3. Prepared BY DEF ThreadInv
<1>4. thread = [s \in Threads |-> thread[s]] /\ \A s \in Threads : Whole(thread[s]) BY <1>3 DEF Prepared
<1>5. thread' = [s \in Threads |-> IF s = t THEN r ELSE thread[s]] BY <1>4
<1>6. thread'[t] = r /\ \A s \in Threads : s # t => thread'[s] = thread[s] BY <1>5
<1>7. thread' = [s \in Threads |-> thread'[s]] BY <1>5
<1>8. \A s \in Threads : Whole(thread'[s]) BY <1>4, <1>6
<1>9. Prepared'
  <2>1. (\A s \in Threads : Whole(thread[s]))' BY <1>8 DEF Whole
  <2> QED BY <1>1, <1>3, <1>7, <2>1 DEF Prepared
<1>10. ASSUME limits' = {} PROVE (Network(mm, mem, backup, entries) /\ Aimed /\ \A s \in Threads : Fares(thread[s]))'
  <2>1. Network(mm, mem, backup, entries) /\ Aimed /\ \A s \in Threads : Fares(thread[s]) BY <1>1, <1>10 DEF ThreadInv
  <2>2. Network(mm, mem, backup, entries)' BY <1>1, <2>1
  <2>3. Aimed' BY <1>1, <2>1 DEF Aimed
  <2>4. Held' = Held BY <1>1 DEF Held
  <2>5. ASSUME NEW s \in Threads PROVE Fares(thread[s])'
    <3>1. Fares(thread'[s]) BY <1>1, <1>6, <1>10, <2>1
    <3> QED BY <1>1, <2>4, <3>1 DEF Fares
  <2> QED BY <2>2, <2>3, <2>5
<1> QED BY <1>2, <1>9, <1>10 DEF ThreadInv

\* A thread that calls a function is at its entry.
LEMMA CalledWhole ==
    ASSUME NEW th, Whole(th), NEW f
    PROVE  Whole([th EXCEPT !.pc = f, !.next = f, !.fn = f, !.fate = "in"])
<1>1. ASSUME NEW r, r = [th EXCEPT !.pc = f, !.next = f, !.fn = f, !.fate = "in"] PROVE Whole(r) BY <1>1 DEF Whole
<1> QED BY <1>1

\* A call of a function.
LEMMA StepCall == ASSUME ThreadInv, NEW t \in Threads, Call(t) PROVE ThreadInv'
<1>1. PICK f \in Functions :
        thread' = [thread EXCEPT ![t] = [Caller EXCEPT !.pc = f, !.next = f, !.fn = f, !.fate = "in"]]
  BY DEF Call
<1> DEFINE r == [Caller EXCEPT !.pc = f, !.next = f, !.fn = f, !.fate = "in"]
<1>2. r.pc = f /\ r.next = f /\ r.fn = f /\ r.fate = "in" BY DEF Caller
<1>3. Whole(r) BY CallerWhole, CalledWhole
<1>4. thread' = [thread EXCEPT ![t] = r] BY <1>1
<1> HIDE DEF r
<1>5. f \in Sites /\ f \in Nat BY SitesGive DEF Sites
<1>6. f \in f..LastOf[f]
  <2>1. LastOf[f] \in Nat BY CodeAssumption
  <2>2. TrampSize \in Nat /\ TrampSize >= 1 BY Constants
  <2>3. LastOf[f] - f + 1 >= TrampSize BY FunctionsAssumption
  <2> QED BY <1>5, <2>1, <2>2, <2>3
<1>7. ASSUME NEW a \in Sites, NEW n \in 1..TrampSize PROVE ~Within(a, n, f)
  <2>1. SUFFICES ASSUME a < f, f < a + n PROVE FALSE BY DEF Within
  <2>2. a \in Nat /\ TrampSize \in Nat /\ n \in Nat /\ n <= TrampSize
    <3>1. a \in Nat BY SitesGive
    <3>2. TrampSize \in Nat BY Constants
    <3> QED BY <3>1, <3>2
  <2>3. f \in Span(a + 1, TrampSize - 1) BY <1>5, <2>1, <2>2 DEF Span
  <2> QED BY <2>3, CodeAssumption DEF Sites
<1>8. Outside(f, entries, patch)
  <2>1. DobbyInv /\ Prepared BY DEF ThreadInv
  <2>2. ASSUME NEW i \in DOMAIN entries PROVE ~Within(entries[i].addr, Len(entries[i].origin), f)
    <3>1. entries[i] \in Entries BY <2>1 DEF DobbyInv, Typed
    <3>2. entries[i].addr \in Sites /\ Len(entries[i].origin) \in 1..TrampSize BY <3>1 DEF Entries
    <3> QED BY <1>7, <3>2
  <2>3. ASSUME patch # <<>> PROVE ~Within(patch[1], Len(patch[2]), f) BY <1>7, <2>1, <2>3, PatchSite
  <2> QED BY <2>2, <2>3 DEF Outside
<1>9. OnItsWay(r, mm, mem, backup, entries, patch, Held) BY <1>2, <1>5, <1>6, <1>8 DEF OnItsWay, InPlace
<1>10. Fares(r) BY <1>2, <1>9 DEF Fares
<1>11. UNCHANGED <<mm, mem, patch, foreign, limits, dobbyVars>> BY DEF Call
<1> QED BY <1>3, <1>4, <1>10, <1>11, ThreadStep

\* Where a thread is does not depend on its excuse.
LEMMA OnItsWayExcused ==
    ASSUME NEW th, NEW r, r.pc = th.pc, r.next = th.next, r.reg = th.reg, r.fn = th.fn,
           NEW m, NEW w, NEW bk, NEW es, NEW pt, NEW h, OnItsWay(th, m, w, bk, es, pt, h)
    PROVE  OnItsWay(r, m, w, bk, es, pt, h)
<1>1. InPlace(th, es, pt) => InPlace(r, es, pt) BY DEF InPlace
<1>2. Midway(th, w, es, h) => Midway(r, w, es, h) BY DEF Midway
<1>3. \A k : Away(th, m, w, bk, k) => Away(r, m, w, bk, k) BY DEF Away
<1> QED BY <1>1, <1>2, <1>3 DEF OnItsWay

\* An instruction is executed.
LEMMA StepExecute == ASSUME ThreadInv, NEW t \in Threads, Execute(t) PROVE ThreadInv'
<1> DEFINE X == InPatch(thread[t].pc) /\ Len(patch[2]) > 1
           th == [thread[t] EXCEPT !.excused = @ \/ X]
<1>1. /\ thread[t].fate = "in" /\ thread[t].pc \in Addresses
      /\ UNCHANGED <<mm, mem, patch, foreign, limits, dobbyVars>>
  BY DEF Execute
<1>2. PICK w \in Fetch(thread[t].pc) :
        thread' = [thread EXCEPT ![t] = IF mm.perm[PageOf(th.pc)] \in {"rx", "rwx"} THEN Ran(th, w)
                                        ELSE [th EXCEPT !.fate = "lost"]]
  BY DEF Execute
<1>3. Whole(thread[t]) BY DEF ThreadInv, Prepared
<1>4. /\ Whole(th) /\ th.pc = thread[t].pc /\ th.next = thread[t].next /\ th.reg = thread[t].reg /\ th.fn = thread[t].fn
      /\ th.fate = "in" /\ (th.excused <=> thread[t].excused \/ X)
  <2>1. th = [thread[t] EXCEPT !.excused = @ \/ X] OBVIOUS
  <2> HIDE DEF th, X
  <2>2. /\ Whole(th) /\ th.pc = thread[t].pc /\ th.next = thread[t].next /\ th.reg = thread[t].reg
        /\ th.fn = thread[t].fn /\ th.fate = thread[t].fate /\ (th.excused <=> thread[t].excused \/ X)
    <3> DEFINE u == thread[t]
    <3>1. Whole(u) /\ th = [u EXCEPT !.excused = @ \/ X] BY <1>3, <2>1
    <3> HIDE DEF u
    <3>2. th.excused = (u.excused \/ X) BY <3>1 DEF Whole
    <3>3. Whole(th) BY <3>1 DEF Whole
    <3>4. th.pc = u.pc /\ th.next = u.next /\ th.reg = u.reg /\ th.fn = u.fn /\ th.fate = u.fate BY <3>1 DEF Whole
    <3> QED BY <3>2, <3>3, <3>4, Zenon DEF u
  <2> QED BY <1>1, <2>2, Zenon
<1> HIDE DEF th
<1> DEFINE lost == [th EXCEPT !.fate = "lost"]
           r == IF mm.perm[PageOf(th.pc)] \in {"rx", "rwx"} THEN Ran(th, w) ELSE lost
<1>5. Whole(lost) BY <1>4 DEF Whole
<1>6. lost.excused = th.excused BY <1>4 DEF Whole
<1>7. Ran(th, w) = Caller \/ (Whole(Ran(th, w)) /\ Ran(th, w).excused = th.excused) BY <1>4, RanKeeps
<1>8. thread' = [thread EXCEPT ![t] = r] BY <1>2
<1> HIDE DEF lost
<1>9. Whole(r) BY <1>5, <1>7, CallerWhole
<1>10. ASSUME limits = {} PROVE Fares(r)
  <2>1. CASE th.excused
    <3>1. r = Caller \/ r.excused = th.excused BY <1>6, <1>7
    <3> HIDE DEF r
    <3>2. r = Caller \/ r.excused BY <2>1, <3>1, Zenon
    <3> QED BY <3>2, CallerWhole DEF Fares
  <2>2. CASE ~th.excused
    <3>1. ~thread[t].excused /\ ~X BY <1>4, <2>2, Zenon
    <3>2. Fares(thread[t]) BY <1>10 DEF ThreadInv
    <3>3. OnItsWay(thread[t], mm, mem, backup, entries, patch, Held) BY <1>1, <3>1, <3>2, Zenon DEF Fares
    <3>4. OnItsWay(th, mm, mem, backup, entries, patch, Held) BY <1>4, <3>3, OnItsWayExcused
    <3>5. mm.perm[PageOf(th.pc)] \in {"rx", "rwx"} /\ Goes(Ran(th, w))
      <4>1. ~(InPatch(th.pc) /\ Len(patch[2]) > 1) BY <1>4, <3>1, Zenon
      <4>2. w \in Fetch(th.pc) /\ th.pc \in Addresses BY <1>1, <1>4
      <4> QED BY <1>4, <1>10, <3>4, <4>1, <4>2, Advance
    <3>6. Goes(r) BY <3>5
    <3> HIDE DEF r
    <3> QED BY <3>6, CallerWhole DEF Goes, Fares
  <2> QED BY <2>1, <2>2
<1> HIDE DEF r
<1> QED BY <1>1, <1>8, <1>9, <1>10, ThreadStep

\* A replacement calls the original or returns.
LEMMA StepReplacement == ASSUME ThreadInv, NEW t \in Threads, Replacement(t) PROVE ThreadInv'
<1>1. /\ thread[t].fate = "in" /\ thread[t].pc >= Replacements
      /\ UNCHANGED <<mm, mem, patch, foreign, limits, dobbyVars>>
  BY DEF Replacement
<1>2. CASE thread' = [thread EXCEPT ![t] = Caller]
  <2>1. Fares(Caller) BY CallerWhole DEF Fares
  <2> QED BY <1>1, <1>2, <2>1, CallerWhole, ThreadStep
<1> DEFINE th == thread[t]
           p == backup[th.pc - Replacements + 1]
           r == [th EXCEPT !.pc = p]
<1>3. CASE thread' = [thread EXCEPT ![t].pc = p]
  <2>1. Whole(th) /\ DobbyInv /\ Prepared BY DEF ThreadInv, Prepared
  <2>2. thread' = [thread EXCEPT ![t] = r] BY <1>3
  <2> HIDE DEF th, p
  <2>3. Moved(th, r, p, th.next, th.reg) BY <2>1 DEF Whole, Moved
  <2>4. r.pc = p /\ r.next = th.next /\ r.reg = th.reg /\ r.fn = th.fn /\ r.fate = th.fate /\ Whole(r)
        /\ r.excused = th.excused
    BY <2>3 DEF Moved
  <2> HIDE DEF r
  <2>5. ASSUME limits = {} PROVE Fares(r)
    <3>1. CASE th.excused
      <4>1. r.excused BY <2>4, <3>1, Zenon
      <4> QED BY <4>1 DEF Fares
    <3>2. CASE ~th.excused
      <4>1. OnItsWay(th, mm, mem, backup, entries, patch, Held) BY <1>1, <2>5, <3>2, Zenon DEF ThreadInv, Fares, th
      <4>2. th.fn \in Functions /\ th.next \in th.fn..LastOf[th.fn] /\ th.pc \in Nat BY <4>1 DEF OnItsWay
      <4>3. Replacements \in Nat /\ th.pc >= Replacements /\ th.pc \notin Handed(mm) /\ th.pc \notin Text
        <5>1. Replacements \in Nat BY Constants
        <5>2. th.pc >= Replacements BY <1>1 DEF th
        <5>3. th.pc \notin Handed(mm) BY <2>1, <2>5, <4>2, <5>1, <5>2, HandedGives
        <5>4. th.pc \notin Text BY <2>1, <2>5, <4>2, <5>1, <5>2, TextGives
        <5> QED BY <5>1, <5>2, <5>3, <5>4
      <4>4. ~InPlace(th, entries, patch) BY <4>2, <4>3, NextGives DEF InPlace
      <4>5. ~Midway(th, mem, entries, Held)
        <5>1. SUFFICES ASSUME NEW i \in DOMAIN entries, Within(entries[i].addr, Len(entries[i].origin), th.pc) PROVE FALSE
          BY DEF Midway
        <5>2. entries[i] \in Entries BY <2>1 DEF DobbyInv, Typed
        <5>3. Covers(entries[i], th.pc) BY <4>2, <5>1, <5>2, EntryGives DEF Within, Covers
        <5> QED BY <4>2, <4>3, <5>2, <5>3, EntryGives
      <4>6. PICK k \in 0..TrampSize : Outside(th.next + k, entries, patch) /\ Away(th, mm, mem, backup, k)
        BY <4>1, <4>4, <4>5 DEF OnItsWay
      <4>7. ~Runs(mm, mem, th.pc, th.next, k)
        <5>1. k \in Nat
          <6>1. TrampSize \in Nat BY Constants
          <6> QED BY <6>1
        <5> QED BY <4>2, <4>3, <5>1 DEF Runs
      <4>8. PICK id \in 1..MaxOps : Runs(mm, mem, backup[id], th.next, k) /\ Towards(th.pc, th.reg, mm, mem, id)
        BY <4>6, <4>7 DEF Away
      <4>9. \A i \in 0..2 : ~Forward(mm, mem, th.pc, i)
        <5>1. SUFFICES ASSUME NEW i \in 0..2, Forward(mm, mem, th.pc, i) PROVE FALSE OBVIOUS
        <5>2. 0 \in 0..(2 - i) /\ th.pc + 0 = th.pc BY <4>2
        <5> QED BY <4>3, <5>1, <5>2 DEF Forward
      <4>10. th.pc = Replacements + id - 1 BY <4>3, <4>8, <4>9 DEF Towards, Serves
      <4>11. p = backup[id]
        <5>1. th.pc - Replacements + 1 = id
          <6>1. MaxOps \in Nat BY Constants
          <6> QED BY <4>3, <4>10, <6>1
        <5> QED BY <5>1 DEF p
      <4>12. Away(r, mm, mem, backup, k) BY <2>4, <4>8, <4>11 DEF Away
      <4>13. r.pc \in Nat BY <2>4, <4>8, <4>11 DEF Runs
      <4>14. OnItsWay(r, mm, mem, backup, entries, patch, Held) BY <2>4, <4>2, <4>6, <4>12, <4>13 DEF OnItsWay
      <4>15. r.fate = "in" BY <1>1, <2>4 DEF th
      <4> QED BY <4>14, <4>15 DEF Fares
    <3> QED BY <3>1, <3>2
  <2> QED BY <1>1, <2>2, <2>4, <2>5, ThreadStep
<1> QED BY <1>2, <1>3 DEF Replacement

-----------------------------------------------------------------------------
(* Steps that allocate and store code, as threads see them.                *)

\* The stored backups of code that was handed out.
Backed(m, bk, ck) == \A id \in 1..MaxOps : bk[id] \in Handed(m) => ck[id] = bk[id]

\* A thread in generated code stays on its way while that code does.
LEMMA AwayKept ==
    ASSUME NEW m, NEW w, NEW n, NEW x, Kept(m, w, n, x), NEW bk, NEW ck, Backed(m, bk, ck),
           NEW th, NEW k \in Nat, Away(th, m, w, bk, k)
    PROVE  Away(th, n, x, ck, k)
<1>1. CASE Runs(m, w, th.pc, th.next, k) BY <1>1, CodeKept DEF Away
<1>2. ASSUME NEW id \in 1..MaxOps, Runs(m, w, bk[id], th.next, k), Towards(th.pc, th.reg, m, w, id) PROVE Away(th, n, x, ck, k)
  <2>1. bk[id] \in Handed(m) BY <1>2 DEF Runs
  <2>2. Runs(n, x, ck[id], th.next, k) BY <1>2, <2>1, CodeKept DEF Backed
  <2>3. Towards(th.pc, th.reg, n, x, id)
    <3>1. CASE Serves(m, w, th.pc, id) BY <3>1, CodeKept DEF Towards
    <3>2. ASSUME NEW i \in 0..2, Forward(m, w, th.pc, i), Serves(m, w, w[th.pc].to, id), i # 0 => th.reg = <<w[th.pc].to, i>>
          PROVE  Towards(th.pc, th.reg, n, x, id)
      <4>1. Forward(n, x, th.pc, i) /\ x[th.pc].to = w[th.pc].to BY <3>2, CodeKept
      <4>2. Serves(n, x, x[th.pc].to, id) BY <3>2, <4>1, CodeKept
      <4> QED BY <3>2, <4>1, <4>2 DEF Towards
    <3> QED BY <1>2, <3>1, <3>2 DEF Towards
  <2> QED BY <2>2, <2>3 DEF Away
<1> QED BY <1>1, <1>2 DEF Away

\* A thread stays on its way while the text and the generated code do.
LEMMA OnItsWayKept ==
    ASSUME NEW m, NEW w, NEW n, NEW x, Kept(m, w, n, x), NEW bk, NEW ck, Backed(m, bk, ck), \A a \in Text : x[a] = w[a],
           NEW es \in Seq(Entries), NEW th, NEW pt, NEW h, OnItsWay(th, m, w, bk, es, pt, h)
    PROVE  OnItsWay(th, n, x, ck, es, pt, h)
<1>1. \A k \in 0..TrampSize : Away(th, m, w, bk, k) => Away(th, n, x, ck, k)
  <2>1. 0..TrampSize \subseteq Nat BY Constants
  <2> QED BY <2>1, AwayKept
<1>2. Midway(th, w, es, h) => Midway(th, x, es, h)
  <2>1. \A i \in DOMAIN es : es[i].addr \in Text BY EntryGives
  <2> QED BY <2>1 DEF Midway
<1> QED BY <1>1, <1>2 DEF OnItsWay

\* Hooked sites stay wired while the text and the generated code do.
LEMMA NetworkKept ==
    ASSUME NEW m, NEW w, NEW n, NEW x, Kept(m, w, n, x), NEW bk, NEW ck, Backed(m, bk, ck), \A a \in Text : x[a] = w[a],
           NEW es \in Seq(Entries), \A i \in DOMAIN es : Block(m, w, es[i]), Network(m, w, bk, es)
    PROVE  Network(n, x, ck, es)
<1>1. ASSUME NEW i \in DOMAIN es PROVE Wired(es[i], n, x, ck)
  <2> DEFINE e == es[i]
  <2>1. e \in Entries /\ Wired(e, m, w, bk) BY DEF Network
  <2>2. /\ e.addr \in Text /\ e.addr \in Nat /\ e.relocated \in Nat /\ Len(e.origin) \in Nat
        /\ \A b \in Int : Covers(e, b) => b \in Text
    BY <2>1, EntryGives
  <2>3. bk[e.id] \in Handed(m)
    <3>1. e.relocated \in Int /\ e.relocated <= e.relocated + Len(e.origin) BY <2>2
    <3> QED BY <2>1, <3>1 DEF Block, Wired
  <2>4. ck[e.id] = e.relocated BY <2>1, <2>3 DEF Wired, Backed
  <2>5. x[e.addr] = w[e.addr] BY <2>2
  <2>6. \A j \in 0..(Len(e.origin) - 1) : x[e.addr + j] = w[e.addr + j] BY <2>2 DEF Covers
  <2>7. Reaches(n, x, x[e.addr].to, e.id) BY <2>1, <2>5, CodeKept DEF Wired
  <2> QED BY <2>1, <2>4, <2>5, <2>6, <2>7 DEF Wired
<1> QED BY <1>1 DEF Network

\* A step that allocates, stores and protects keeps what threads rely on.
LEMMA GrownKept ==
    ASSUME ThreadInv, limits' = {}, Grown(mm, mem, limits, mm', mem', limits')
    PROVE  /\ limits = {} /\ Laid(mm) /\ Kept(mm, mem, mm', mem') /\ (\A a \in Text : mem'[a] = mem[a])
           /\ entries \in Seq(Entries) /\ (\A i \in DOMAIN entries : Block(mm, mem, entries[i]))
           /\ Network(mm, mem, backup, entries) /\ Aimed /\ \A t \in Threads : Fares(thread[t])
<1>1. limits = {} BY DEF Grown
<1>2. Laid(mm) /\ entries \in Seq(Entries) /\ (\A i \in DOMAIN entries : Block(mm, mem, entries[i]))
  BY <1>1 DEF ThreadInv, DobbyInv, Typed, Standing
<1>3. Handed(mm) \subseteq Handed(mm') /\ \A b \in Text \cup Handed(mm) : mem'[b] = mem[b] BY <1>2 DEF Grown
<1> QED BY <1>1, <1>2, <1>3 DEF Kept, ThreadInv

\* Code that was handed out, the library and the entries are as they were.
LEMMA ThreadsStay ==
    ASSUME ThreadInv, limits = {}, Kept(mm, mem, mm', mem'), \A a \in Text : mem'[a] = mem[a],
           UNCHANGED <<thread, entries, patch, backup>>, Held' = Held
    PROVE  Network(mm', mem', backup', entries') /\ (\A t \in Threads : Fares(thread[t]))'
<1>1. /\ entries \in Seq(Entries) /\ (\A i \in DOMAIN entries : Block(mm, mem, entries[i]))
      /\ Network(mm, mem, backup, entries) /\ \A t \in Threads : Fares(thread[t])
  BY DEF ThreadInv, DobbyInv, Typed, Standing
<1>2. Backed(mm, backup, backup) BY DEF Backed
<1>3. Network(mm', mem', backup', entries') BY <1>1, <1>2, NetworkKept
<1>4. ASSUME NEW t \in Threads PROVE Fares(thread[t])'
  <2>1. Fares(thread[t]) BY <1>1
  <2>2. OnItsWay(thread[t], mm, mem, backup, entries, patch, Held) => OnItsWay(thread[t], mm', mem', backup, entries, patch, Held)
    BY <1>1, <1>2, OnItsWayKept
  <2> QED BY <2>1, <2>2 DEF Fares
<1> QED BY <1>3, <1>4

\* Threads and hooks are not disturbed by memory that is added.
LEMMA ThreadsKept ==
    ASSUME ThreadInv, limits' = {}, Grown(mm, mem, limits, mm', mem', limits'),
           UNCHANGED <<thread, entries, patch, backup>>, Held' = Held
    PROVE  Network(mm', mem', backup', entries') /\ (\A t \in Threads : Fares(thread[t]))'
BY GrownKept, ThreadsStay

\* The part of the invariant that no limit touches, for a step that leaves
\* the threads and the backups alone.
LEMMA PreparedKept ==
    ASSUME ThreadInv, Grown(mm, mem, limits, mm', mem', limits'), UNCHANGED <<thread, backup, calls, foreign, patch>>,
           patch = <<>>, op'.at \in {"map", "relocate", "relocated"}, op'.id = op.id, op.at \in {"route", "map", "relocate"}
    PROVE  Prepared'
<1>1. Prepared BY DEF ThreadInv
<1>2. Executable(mm') BY <1>1 DEF Prepared, Grown
<1>3. op.id \in 1..MaxOps /\ op.id = calls /\ backup[op.id] = 0 BY <1>1 DEF Prepared
<1>4. (\A t \in Threads : Whole(thread[t]))' BY <1>1 DEF Prepared, Whole
<1> QED BY <1>1, <1>2, <1>3, <1>4 DEF Prepared

-----------------------------------------------------------------------------
(* Routing, as threads see it.                                             *)

\* The trampoline leads to the code of its call, or will once a gap is mapped.
Aims(m, w, o) ==
    \/ o.at = "map" /\ Serves(m, w, o.dst, o.id)
    \/ /\ o.at = "relocate" /\ Reaches(m, w, o.tramp[1].to, o.id) /\ o.tramp[1].to \in Int
       /\ \A j \in 1..Len(o.tramp) : o.tramp[j] = Jump(o.tramp[1].to, j, Len(o.tramp))

\* A trampoline aims at what the routing reaches.
LEMMA RoutedAims ==
    ASSUME NEW m, NEW w, NEW o, NEW to \in Int, NEW n \in {1, TrampSize}, NEW q, q = Routed(o, Trampoline(to, n)),
           Reaches(m, w, to, o.id)
    PROVE  Aims(m, w, q)
<1>1. q.at = "relocate" /\ q.tramp = Trampoline(to, n) /\ q.id = o.id BY DEF Routed
<1>2. n \in Nat /\ n >= 1 BY Constants
<1>3. Len(q.tramp) = n /\ \A i \in 1..n : q.tramp[i] = Jump(to, i, n) BY <1>1, <1>2, TrampolineGives
<1>4. q.tramp[1].to = to
  <2>1. q.tramp[1] = Jump(to, 1, n) BY <1>2, <1>3
  <2> QED BY <2>1 DEF Jump
<1> QED BY <1>1, <1>3, <1>4 DEF Aims

\* A forward trampoline that was stored.
LEMMA HeldForward ==
    ASSUME NEW m, NEW w, NEW a \in Nat, NEW dst \in Int, Holds(m, w, a, ForwardSize, Trampoline(dst, ForwardSize)),
           NEW id, Serves(m, w, dst, id)
    PROVE  Reaches(m, w, a, id)
<1>1. ForwardSize = 3 BY DEF ForwardSize
<1>2. \A i \in 1..3 : Trampoline(dst, 3)[i] = Jump(dst, i, 3) BY TrampolineGives
<1>3. (\A j \in 1..3 : w[a + j - 1] = Trampoline(dst, 3)[j]) /\ \A b \in Int : a <= b /\ b < a + 3 => b \in Handed(m)
  BY <1>1 DEF Holds
<1>4. ASSUME NEW j \in 0..(2 - 0) PROVE a + j \in Handed(m) /\ w[a + j] = Jump(dst, 0 + j + 1, 3)
  <2>1. a + j \in Int /\ a <= a + j /\ a + j < a + 3 /\ j + 1 \in 1..3 /\ a + (j + 1) - 1 = a + j /\ 0 + j + 1 = j + 1 OBVIOUS
  <2>2. w[a + (j + 1) - 1] = Trampoline(dst, 3)[j + 1] BY <1>3, <2>1
  <2> QED BY <1>2, <1>3, <2>1, <2>2
<1>5. w[a].to = dst
  <2>1. 0 \in 0..(2 - 0) /\ a + 0 = a OBVIOUS
  <2>2. w[a] = Jump(dst, 0 + 0 + 1, 3) BY <1>4, <2>1
  <2> QED BY <2>2 DEF Jump
<1>6. Forward(m, w, a, 0) BY <1>4, <1>5 DEF Forward
<1> QED BY <1>5, <1>6 DEF Reaches

\* A trampoline, near or far, aims at the replacement or the closure.
LEMMA DispatchAims ==
    ASSUME NEW m \in Machines, NEW w \in Code, NEW dst \in Int, NEW L, op.addr \in Int, Dispatch(m, w, dst, L),
           Laid(m), limits' = {}, Serves(m, w, dst, op.id)
    PROVE  Aims(mm', mem', op')
<1> DEFINE arenas == NearFromArenas(m, ForwardSize, op.addr, BranchRange)
           gap == NearGap(m.page, ForwardSize, op.addr, BranchRange)
           ws == Trampoline(dst, ForwardSize)
<1>1. ForwardSize \in Nat /\ ForwardSize > 0 /\ BranchRange \in Int BY Constants
<1>2. ASSUME op' = Routed(op, Trampoline(dst, TrampSize)) \/ op' = Routed(op, Trampoline(dst, 1)), mm' = m, mem' = w
      PROVE  Aims(mm', mem', op')
  <2>1. Reaches(m, w, dst, op.id) BY DEF Reaches
  <2>2. Aims(m, w, op') BY <1>2, <2>1, RoutedAims
  <2> QED BY <1>2, <2>2
<1>3. ASSUME NEW r \in arenas, op' = Routed(op, Trampoline(r.addr, 1)), mm' = Stored(r.m, r.addr, ws),
             mem' = [b \in Addresses |-> IF b \in Span(r.addr, ForwardSize) THEN ws[b - r.addr + 1] ELSE w[b]],
             limits' = L \union BeyondEnd(r.addr, ForwardSize)
      PROVE  Aims(mm', mem', op')
  <2>1. Allocated(m, ForwardSize, r) BY <1>1, <1>3, NearArenasGives
  <2>2. r.addr \in Nat /\ r.addr \in Int BY <2>1 DEF Allocated
  <2>3. ws \in Seq(Words) /\ Len(ws) = ForwardSize BY <1>1, TrampolineGives
  <2> HIDE DEF ws, arenas
  <2>4. mem' = Stamped(w, r.addr, ws) BY <1>3, <2>3 DEF Stamped
  <2>5. Grown(m, w, L, mm', mem', limits') /\ Holds(mm', mem', r.addr, ForwardSize, ws)
    <3>1. w \in Code /\ Laid(m) /\ mm' = Stored(r.m, r.addr, ws) /\ limits' = L \union BeyondEnd(r.addr, ForwardSize) BY <1>3
    <3> QED BY ONLY <1>1, <2>1, <2>3, <2>4, <3>1, StoreGrown
  <2>6. Kept(m, w, mm', mem') BY <2>5 DEF Grown, Kept
  <2>7. Serves(mm', mem', dst, op.id) BY <2>6, CodeKept
  <2>8. Reaches(mm', mem', r.addr, op.id) BY <2>2, <2>5, <2>7, HeldForward DEF ws
  <2> QED BY <1>3, <2>2, <2>8, RoutedAims
<1>4. ASSUME op' = [at |-> "map", what |-> op.what, addr |-> op.addr, id |-> op.id, gap |-> gap, dst |-> dst],
             mm' = m, mem' = w
      PROVE  Aims(mm', mem', op')
  <2> HIDE DEF gap
  <2>1. op'.at = "map" /\ op'.id = op.id /\ op'.dst = dst BY <1>4
  <2> QED BY <1>4, <2>1 DEF Aims
<1>5. \/ /\ op' = Routed(op, Trampoline(dst, TrampSize)) \/ op' = Routed(op, Trampoline(dst, 1))
         /\ mm' = m /\ mem' = w /\ limits' = L
      \/ \E r \in arenas :
            /\ op' = Routed(op, Trampoline(r.addr, 1)) /\ mm' = Stored(r.m, r.addr, ws)
            /\ mem' = [b \in Addresses |-> IF b \in Span(r.addr, ForwardSize) THEN ws[b - r.addr + 1] ELSE w[b]]
            /\ limits' = L \union BeyondEnd(r.addr, ForwardSize)
      \/ /\ op' = [at |-> "map", what |-> op.what, addr |-> op.addr, id |-> op.id, gap |-> gap, dst |-> dst]
         /\ mm' = m /\ mem' = w /\ limits' = L
  BY DEF Dispatch
<1> HIDE DEF arenas, gap, ws
<1> QED BY <1>2, <1>3, <1>4, <1>5

\* The routing goes on.
LEMMA RoutingKept ==
    ASSUME ThreadInv, DobbyInv', Grown(mm, mem, limits, mm', mem', limits'), UNCHANGED <<patch, thread, foreign, entries, plugin, backup, calls>>,
           op.at \in {"route", "map"}, op'.at \in {"map", "relocate"}, op'.id = op.id, limits' = {} => Aims(mm', mem', op')
    PROVE  ThreadInv'
<1>1. patch = <<>> BY DEF ThreadInv, Prepared
<1>2. Prepared' BY <1>1, PreparedKept
<1>3. Held' = Held BY DEF Held
<1>4. ASSUME limits' = {} PROVE Aimed'
  <2>1. Aims(mm', mem', op') BY <1>4
  <2> QED BY <2>1 DEF Aims, Aimed
<1>5. ASSUME limits' = {} PROVE Network(mm', mem', backup', entries') /\ (\A t \in Threads : Fares(thread[t]))'
  BY <1>3, <1>5, ThreadsKept
<1> QED BY <1>2, <1>4, <1>5 DEF ThreadInv

\* BuildRouting disturbs no thread.
LEMMA ThreadBuildRouting == ASSUME ThreadInv, BuildRouting PROVE ThreadInv'
<1>0. DobbyInv /\ Prepared /\ DobbyInv' BY StepBuildRouting DEF ThreadInv
<1>1. /\ op.at = "route" /\ op.addr \in Sites /\ op.addr \in Int /\ op.id \in Nat
      /\ mm \in Machines /\ mem \in Code /\ UNCHANGED <<patch, thread, foreign, entries, plugin, backup, calls>>
  <2>1. op.at = "route" /\ UNCHANGED <<patch, thread, foreign, entries, plugin, backup, calls>> BY DEF BuildRouting
  <2>2. op.addr \in Sites /\ op.id \in Nat BY <1>0, <2>1 DEF DobbyInv, Underway
  <2>3. mm \in Machines /\ mem \in Code BY <1>0 DEF DobbyInv, Typed
  <2>5. op.addr \in Int BY <2>2, SitesGive
  <2> QED BY <2>1, <2>2, <2>3, <2>5
<1>2. ASSUME NEW m, NEW w, NEW o, Ready(m, o) PROVE o.at \in {"map", "relocate"} BY <1>2 DEF Ready
<1>3. CASE Dispatch(mm, mem, Replacements + op.id - 1, limits)
  <2>1. Replacements + op.id - 1 \in Int BY <1>1, Constants
  <2>2. Grown(mm, mem, limits, mm', mem', limits') /\ Ready(mm', op') /\ op'.addr = op.addr /\ op'.id = op.id
    BY <1>1, <1>3, <2>1, DispatchGrown
  <2>3. ASSUME limits' = {} PROVE Aims(mm', mem', op')
    <3>1. Laid(mm) BY <2>2, <2>3, GrownKept
    <3>2. Serves(mm, mem, Replacements + op.id - 1, op.id) BY DEF Serves
    <3> QED BY <1>1, <1>3, <2>1, <2>3, <3>1, <3>2, DispatchAims
  <2>4. op'.at \in {"map", "relocate"} BY <2>2 DEF Ready
  <2> QED BY <1>0, <1>1, <2>2, <2>3, <2>4, RoutingKept
<1>4. ASSUME NEW r \in AllocateExec(mm, 1),
             Dispatch(Stored(r.m, r.addr, <<Closure(op.id)>>), Written(r.addr, <<Closure(op.id)>>),
                      r.addr, limits \union BeyondEnd(r.addr, 1))
      PROVE  ThreadInv'
  <2> DEFINE ws == <<Closure(op.id)>>
             u == Stored(r.m, r.addr, ws)
             x == Written(r.addr, ws)
             K == limits \union BeyondEnd(r.addr, 1)
  <2>1. Allocated(mm, 1, r) BY <1>1, AllocateGives
  <2>2. r.addr \in Nat /\ r.addr \in Int BY <2>1 DEF Allocated
  <2>3. ws \in Seq(Words) /\ Len(ws) = 1 /\ ws[1] = Closure(op.id)
    <3>1. Closure(op.id) \in Words BY <1>1 DEF Closure, Words
    <3> QED BY <3>1
  <2> HIDE DEF ws
  <2>4. x = Stamped(mem, r.addr, ws) BY DEF Stamped, Written
  <2> HIDE DEF x
  <2>5. Grown(mm, mem, limits, u, x, K) /\ (Laid(mm) => Holds(u, x, r.addr, 1, ws))
    <3>1. u = Stored(r.m, r.addr, ws) /\ K = limits \union BeyondEnd(r.addr, 1) /\ 1 \in Nat /\ 1 > 0 /\ mem \in Code
      BY <1>1
    <3> HIDE DEF u, K
    <3> QED BY ONLY <2>1, <2>3, <2>4, <3>1, StoreGrown
  <2>6. u \in Machines /\ x \in Code BY <2>5 DEF Grown
  <2>d. Dispatch(u, x, r.addr, K) BY <1>4 DEF ws, x
  <2> HIDE DEF u, K
  <2>7. Grown(u, x, K, mm', mem', limits') /\ Ready(mm', op') /\ op'.addr = op.addr /\ op'.id = op.id
    BY <1>1, <2>2, <2>6, <2>d, DispatchGrown
  <2>8. Grown(mm, mem, limits, mm', mem', limits') BY <2>5, <2>7, GrownTwice
  <2>9. ASSUME limits' = {} PROVE Aims(mm', mem', op')
    <3>1. Laid(mm) BY <2>8, <2>9, GrownKept
    <3>2. Holds(u, x, r.addr, 1, ws) BY <2>5, <3>1
    <3>3. K = {} BY <2>7, <2>9 DEF Grown
    <3>4. Laid(u) BY <2>5, <3>1, <3>3 DEF Grown
    <3>5. Serves(u, x, r.addr, op.id)
      <4>1. r.addr \in Handed(u) BY <2>2, <3>2 DEF Holds
      <4>2. 1 \in 1..1 /\ r.addr + 1 - 1 = r.addr BY <2>2
      <4>3. x[r.addr] = ws[1] BY <3>2, <4>2 DEF Holds
      <4> QED BY <2>3, <4>1, <4>3 DEF Serves
    <3> QED BY <1>1, <2>2, <2>6, <2>d, <2>9, <3>4, <3>5, DispatchAims
  <2>10. op'.at \in {"map", "relocate"} BY <2>7 DEF Ready
  <2> QED BY <1>0, <1>1, <2>7, <2>8, <2>9, <2>10, RoutingKept
<1> QED BY <1>3, <1>4 DEF BuildRouting

\* A near arena disturbs no thread.
LEMMA ThreadNearMapped == ASSUME ThreadInv, NearMapped PROVE ThreadInv'
<1> DEFINE g == op.gap
           hit == Span(PageFloor(g), NearArenaSize(g, ForwardSize))
           zeroed == [b \in Addresses |-> IF b \in hit THEN NoWord ELSE mem[b]]
           ws == Trampoline(op.dst, ForwardSize)
           edge == IF PageFloor(g + ForwardSize) = g + ForwardSize THEN {"edge"} ELSE {}
<1>0. DobbyInv /\ Prepared /\ DobbyInv' BY StepNearMapped DEF ThreadInv
<1>1. /\ op.at = "map" /\ op.addr \in Sites /\ op.id \in Nat /\ op.dst \in Int /\ Gap(mm, g)
      /\ ("stale" \notin limits => Vacant(g))
      /\ mm \in Machines /\ mem \in Code /\ UNCHANGED <<patch, thread, foreign, entries, plugin, backup, calls>>
  BY <1>0 DEF DobbyInv, Typed, Underway, NearMapped
<1>2. CASE op' = Routed(op, Trampoline(op.dst, TrampSize)) /\ UNCHANGED <<mm, mem, limits>>
  <2>1. Ready(mm', op') /\ op'.id = op.id BY <1>1, <1>2, RoutedReady
  <2>2. Grown(mm, mem, limits, mm', mem', limits') BY <1>1, <1>2, GrownNone
  <2>3. ASSUME limits' = {} PROVE Aims(mm', mem', op')
    <3>1. Aimed BY <2>2, <2>3, GrownKept
    <3>2. Reaches(mm, mem, op.dst, op.id) BY <1>1, <3>1 DEF Aimed, Reaches
    <3>3. Aims(mm, mem, op') BY <1>1, <1>2, <3>2, RoutedAims
    <3> QED BY <1>2, <3>3
  <2>4. op'.at \in {"map", "relocate"} BY <2>1 DEF Ready
  <2> QED BY <1>0, <1>1, <2>1, <2>2, <2>3, <2>4, RoutingKept
<1>3. CASE /\ mm' = Stored(NearFromGap(mm, g, ForwardSize), g, ws)
           /\ mem' = [b \in Addresses |-> IF b \in Span(g, ForwardSize) THEN ws[b - g + 1] ELSE zeroed[b]]
           /\ op' = Routed(op, Trampoline(g, 1))
           /\ limits' = limits \union BeyondEnd(g, ForwardSize) \union edge
  <2>1. g \in Nat /\ g \in Int
        /\ \A b \in Int : g <= b /\ b < g + ForwardSize => b \in Addresses /\ mm.page[PageOf(b)] \notin {"text", "arena"}
    BY <1>1 DEF Gap
  <2>2. ws \in Seq(Words) /\ Len(ws) = ForwardSize BY <1>1, Constants, TrampolineGives
  <2>3. limits \subseteq limits' /\ BeyondEnd(g, ForwardSize) \subseteq limits' BY <1>3
  <2>4. PageFloor(g + ForwardSize) = g + ForwardSize => "edge" \in limits' BY <1>3
  <2>5. "stale" \notin limits' => \A b \in Int : g <= b /\ b < g + ForwardSize => PageOf(b) \notin foreign
    BY <1>1, <2>3 DEF Vacant
  <2> HIDE DEF ws, edge
  <2>6. mem' = Stamped(zeroed, g, ws) BY <1>3, <2>2 DEF Stamped
  <2> HIDE DEF hit, g
  <2>7. /\ Grown(mm, mem, limits, mm', mem', limits')
        /\ "edge" \notin limits' /\ Laid(mm) => Holds(mm', mem', g, ForwardSize, ws)
    <3>1. mm \in Machines /\ mem \in Code /\ mm' = Stored(NearFromGap(mm, g, ForwardSize), g, ws) BY <1>1, <1>3
    <3>2. hit = Span(PageFloor(g), NearArenaSize(g, ForwardSize)) BY DEF hit
    <3>3. zeroed = [b \in Addresses |-> IF b \in hit THEN NoWord ELSE mem[b]] OBVIOUS
    <3> HIDE DEF zeroed
    <3> QED BY ONLY <2>1, <2>2, <2>3, <2>4, <2>5, <2>6, <3>1, <3>2, <3>3, GapGrown
  <2>8. Ready(mm', op') /\ op'.addr = op.addr /\ op'.id = op.id BY <1>3, <2>1, RoutedReady
  <2>9. ASSUME limits' = {} PROVE Aims(mm', mem', op')
    <3>1. Aimed /\ Laid(mm) /\ Kept(mm, mem, mm', mem') BY <2>7, <2>9, GrownKept
    <3>2. Serves(mm', mem', op.dst, op.id) BY <1>1, <3>1, CodeKept DEF Aimed
    <3>3. Holds(mm', mem', g, ForwardSize, ws) BY <2>7, <2>9, <3>1
    <3>4. Reaches(mm', mem', g, op.id) BY <1>1, <2>1, <3>2, <3>3, HeldForward DEF ws
    <3> QED BY <1>3, <2>1, <3>4, RoutedAims
  <2>10. op'.at \in {"map", "relocate"} BY <2>8 DEF Ready
  <2> QED BY <1>0, <1>1, <2>7, <2>8, <2>9, <2>10, RoutingKept
<1> QED BY <1>2, <1>3 DEF NearMapped

\* A trampoline keeps its aim while the generated code stays.
LEMMA AimedStay ==
    ASSUME Aimed, Kept(mm, mem, mm', mem'), UNCHANGED <<op, entries>> PROVE Aimed'
<1>1. op.at = "map" => Serves(mm', mem', op.dst, op.id) BY CodeKept DEF Aimed
<1>2. op.at \in {"relocate", "relocated", "committed"} => Reaches(mm', mem', op.tramp[1].to, op.id) BY CodeKept DEF Aimed
<1> QED BY <1>1, <1>2 DEF Aimed

\* Another library's mapping disturbs no thread.
LEMMA ThreadForeignMap == ASSUME ThreadInv, ForeignMap PROVE ThreadInv'
<1>0. DobbyInv /\ Prepared /\ DobbyInv' BY StepForeignMap DEF ThreadInv
<1>1. PICK p \in PageIds : /\ mm.page[p] = "free"
                           /\ mm' = [mm EXCEPT !.page[p] = "foreign", !.perm[p] = "rw"]
                           /\ foreign' = foreign \union {p}
  BY DEF ForeignMap
<1>2. UNCHANGED <<mem, patch, thread, entries, plugin, op, backup, calls>> /\ limits \subseteq limits'
  BY DEF ForeignMap, dobbyVars
<1>3. mm \in Machines BY <1>0 DEF DobbyInv, Typed
<1>4. /\ mm'.arenas = mm.arenas /\ mm'.page[p] = "foreign"
      /\ \A q \in PageIds \ {p} : mm'.page[q] = mm.page[q] /\ mm'.perm[q] = mm.perm[q]
  BY <1>1, <1>3 DEF Machines, PageUses, Perms
<1>5. Kept(mm, mem, mm', mem') /\ \A a \in Text : mem'[a] = mem[a] BY <1>2, <1>4 DEF Kept, Handed
<1>6. Executable(mm') BY <1>0, <1>4 DEF Prepared, Executable
<1>7. Prepared'
  <2>1. (\A t \in Threads : Whole(thread[t]))' BY <1>0, <1>2 DEF Prepared, Whole
  <2> QED BY <1>0, <1>1, <1>2, <1>6, <2>1 DEF Prepared
<1>8. Held' = Held BY <1>2 DEF Held
<1>9. ASSUME limits' = {} PROVE Network(mm', mem', backup', entries') /\ (\A t \in Threads : Fares(thread[t]))' /\ Aimed'
  BY <1>2, <1>5, <1>8, <1>9, ThreadsStay, AimedStay DEF ThreadInv
<1> QED BY <1>0, <1>7, <1>9 DEF ThreadInv

\* A call of DobbyHook or DobbyInstrument disturbs no thread.
LEMMA ThreadEnter == ASSUME ThreadInv, NEW what, NEW a \in Sites, Enter(what, a) PROVE ThreadInv'
<1>0. DobbyInv /\ Prepared /\ DobbyInv' BY StepEnter DEF ThreadInv
<1>1. /\ op.at = "idle" /\ calls < MaxOps /\ calls' = calls + 1
      /\ UNCHANGED <<mem, entries, plugin, patch, backup, thread, foreign, limits>>
  BY DEF Enter
<1>2. /\ mm \in Machines /\ mem \in Code /\ calls \in 0..MaxOps /\ foreign \cap TextPages = {} /\ MaxOps \in Nat
  BY <1>0, Constants DEF DobbyInv, Typed, Standing
<1>3. a \in Text /\ PageOf(a) \in TextPages BY SitesGive, TextPage
<1>5. Grown(mm, mem, limits, mm', mem', limits')
  <2>1. CASE mm' = mm BY <1>1, <1>2, <2>1, GrownNone
  <2>2. CASE mm' = Protect(mm, {PageOf(a)}, "rx")
    <3>1. \A p \in foreign : p \notin {PageOf(a)} BY <1>2, <1>3
    <3>2. Grown(mm, mem, limits, Protect(mm, {PageOf(a)}, "rx"), mem, limits) BY <1>2, <3>1, ProtectGrown DEF Perms
    <3> QED BY <1>1, <2>2, <3>2
  <2> QED BY <2>1, <2>2 DEF Enter
<1>7. op' = op \/ op' = [at |-> "route", what |-> what, addr |-> a, id |-> calls + 1] BY DEF Enter
<1>8. op'.at = "idle" \/ (op'.at = "route" /\ op'.id = calls + 1) BY <1>1, <1>7
<1>9. Prepared'
  <2>1. (\A t \in Threads : Whole(thread[t]))' BY <1>0, <1>1 DEF Prepared, Whole
  <2>2. Executable(mm') BY <1>0, <1>5 DEF Prepared, Grown
  <2>3. calls + 1 \in 1..MaxOps /\ calls + 1 > calls BY <1>1, <1>2
  <2>4. backup[calls + 1] = 0 /\ \A i \in 1..MaxOps : i > calls + 1 => backup[i] = 0 BY <1>0, <1>2, <2>3 DEF Prepared
  <2> QED BY <1>0, <1>1, <1>8, <2>1, <2>2, <2>3, <2>4 DEF Prepared
<1>10. Held' = Held BY <1>1, <1>8 DEF Held
<1>11. Aimed' BY <1>8 DEF Aimed
<1>12. ASSUME limits' = {} PROVE Network(mm', mem', backup', entries') /\ (\A t \in Threads : Fares(thread[t]))'
  BY <1>1, <1>5, <1>10, <1>12, ThreadsKept
<1> QED BY <1>0, <1>9, <1>11, <1>12 DEF ThreadInv

\* Switching the near-branch plugin disturbs no thread.
LEMMA ThreadTogglePlugin ==
    ASSUME ThreadInv, UNCHANGED <<mm, mem, patch, thread, foreign, limits, entries, op, backup, calls>> PROVE ThreadInv'
<1>1. DobbyInv' BY StepOthers DEF ThreadInv
<1>2. Prepared'
  <2>1. (\A t \in Threads : Whole(thread[t]))' BY DEF ThreadInv, Prepared, Whole
  <2> QED BY <2>1 DEF ThreadInv, Prepared
<1>3. Held' = Held BY DEF Held
<1>4. Kept(mm, mem, mm', mem') BY DEF Kept
<1>5. ASSUME limits' = {} PROVE Network(mm', mem', backup', entries') /\ (\A t \in Threads : Fares(thread[t]))' /\ Aimed'
  BY <1>3, <1>4, <1>5, ThreadsStay, AimedStay DEF ThreadInv
<1> QED BY <1>1, <1>2, <1>5 DEF ThreadInv

\* Ranges without a common address lie one behind the other.
LEMMA DisjointApart ==
    ASSUME NEW e, NEW o, e.addr \in Nat, o.addr \in Nat, Len(e.origin) \in Nat, Len(o.origin) \in Nat,
           Len(e.origin) >= 1, Len(o.origin) >= 1,
           EntrySpan(e) \intersect Span(o.addr, Len(o.origin)) = {}
    PROVE  Apart(e, o)
<1> DEFINE k == Len(e.origin)
           l == Len(o.origin)
<1>1. SUFFICES ASSUME ~(e.addr + k <= o.addr), ~(o.addr + l <= e.addr) PROVE FALSE BY DEF Apart
<1>2. CASE e.addr <= o.addr
  <2>1. o.addr \in Span(e.addr, k) /\ o.addr \in Span(o.addr, l) BY <1>1, <1>2 DEF Span
  <2> QED BY <2>1 DEF EntrySpan
<1>3. CASE o.addr <= e.addr
  <2>1. e.addr \in Span(e.addr, k) /\ e.addr \in Span(o.addr, l) BY <1>1, <1>3 DEF Span
  <2> QED BY <2>1 DEF EntrySpan
<1> QED BY <1>2, <1>3

\* GenerateRelocatedCode disturbs no thread.
LEMMA ThreadGenerate == ASSUME ThreadInv, GenerateRelocatedCode PROVE ThreadInv'
<1> DEFINE n == Len(op.tramp)
           ws == Relocated(op.addr, n)
           or == Read(op.addr, n)
<1>0. DobbyInv /\ Prepared /\ DobbyInv' BY StepGenerateRelocatedCode DEF ThreadInv
<1>1. op.at = "relocate" /\ UNCHANGED <<patch, thread, foreign, entries, plugin, backup, calls>>
  BY DEF GenerateRelocatedCode
<1>2. op.addr \in Sites /\ op.id \in Nat /\ Jumps(op.tramp) BY <1>0, <1>1 DEF DobbyInv, Underway
<1>3. mm \in Machines /\ mem \in Code BY <1>0 DEF DobbyInv, Typed
<1>4. n \in 1..TrampSize BY <1>2 DEF Jumps
<1>5. PICK r \in AllocateExec(mm, n + 1) :
        /\ mm' = Stored(r.m, r.addr, ws) /\ mem' = Written(r.addr, ws)
        /\ op' = [at |-> "relocated", what |-> op.what, id |-> op.id, tramp |-> op.tramp,
                  addr |-> op.addr, origin |-> or, relocated |-> r.addr]
        /\ limits' = limits \union Overlap(op.addr, n) \union BeyondEnd(r.addr, n + 1)
  BY DEF GenerateRelocatedCode
<1>6. op'.at = "relocated" /\ op'.id = op.id /\ op'.tramp = op.tramp /\ op'.addr = op.addr /\ op'.origin = or
  BY <1>5
<1> HIDE DEF n
<1>7. op.addr \in Nat /\ n \in Nat /\ n >= 1 /\ or \in Seq(Words) /\ Len(or) = n BY <1>2, <1>3, <1>4, ReadGives
<1>8. ws \in Seq(Words) /\ Len(ws) = n + 1
  <2>1. Jump(op.addr + n, 1, 1) \in Words BY <1>7 DEF Jump, Words
  <2>2. ws = Append(or, Jump(op.addr + n, 1, 1)) BY DEF Relocated
  <2> HIDE DEF or, ws
  <2> QED BY <1>7, <2>1, <2>2
<1> HIDE DEF or, ws
<1> DEFINE L == limits \union Overlap(op.addr, n)
<1>9. Allocated(mm, n + 1, r) BY <1>3, <1>5, <1>7, AllocateGives
<1>11. mem' = Stamped(mem, r.addr, ws) BY <1>5 DEF Stamped, Written
<1>12. Grown(mm, mem, L, mm', mem', limits')
  <2>1. limits' = L \cup BeyondEnd(r.addr, n + 1) /\ mm' = Stored(r.m, r.addr, ws) BY <1>5
  <2>2. n + 1 \in Nat /\ n + 1 > 0 BY <1>7
  <2> HIDE DEF L
  <2> QED BY ONLY <1>3, <1>8, <1>9, <1>11, <2>1, <2>2, StoreGrown
<1>13. Grown(mm, mem, limits, mm', mem', limits')
  <2>1. Grown(mm, mem, limits, mm, mem, L) BY <1>3 DEF Grown
  <2> HIDE DEF L
  <2> QED BY <1>12, <2>1, GrownTwice
<1>o. Overlap(op.addr, n) \subseteq limits' BY <1>5
<1> HIDE DEF L
<1>14. Prepared'
  <2>1. patch = <<>> BY <1>0, <1>1 DEF Prepared
  <2> QED BY <1>1, <1>6, <1>13, <2>1, PreparedKept
<1>15. Held' = Held BY <1>1, <1>6 DEF Held
<1>16. ASSUME limits' = {} PROVE Aimed'
  <2>1. Kept(mm, mem, mm', mem') /\ Aimed /\ entries \in Seq(Entries) BY <1>13, <1>16, GrownKept
  <2>2. /\ Reaches(mm', mem', op.tramp[1].to, op.id) /\ op.tramp[1].to \in Int
        /\ \A j \in 1..Len(op.tramp) : op.tramp[j] = Jump(op.tramp[1].to, j, Len(op.tramp))
    BY <1>1, <2>1, CodeKept DEF Aimed
  <2>3. ASSUME NEW i \in DOMAIN entries PROVE Apart(entries[i], op')
    <3>1. entries[i] \in Entries BY <2>1
    <3>2. entries[i].addr \in Nat /\ Len(entries[i].origin) \in Nat /\ Len(entries[i].origin) >= 1 BY <3>1, EntryGives
    <3>3. EntrySpan(entries[i]) \intersect Span(op.addr, n) = {} BY <1>16, <1>o DEF Overlap
    <3> QED BY <1>6, <1>7, <3>2, <3>3, DisjointApart
  <2> QED BY <1>1, <1>6, <2>2, <2>3 DEF Aimed
<1>17. ASSUME limits' = {} PROVE Network(mm', mem', backup', entries') /\ (\A t \in Threads : Fares(thread[t]))'
  BY <1>1, <1>13, <1>15, <1>17, ThreadsKept
<1> QED BY <1>0, <1>14, <1>16, <1>17 DEF ThreadInv

-----------------------------------------------------------------------------
(* A patch begins.                                                         *)

\* Relocated code ends with the branch back.
LEMMA RunsBack ==
    ASSUME NEW p, NEW a \in Nat, NEW k \in Nat, Runs(mm, mem, p, a, k) PROVE a + k \in BranchBack(p)
<1>0. p \in Nat BY DEF Runs
<1>1. /\ p \in Nat /\ \A b \in Int : p <= b /\ b <= p + k => b \in Handed(mm)
  BY DEF Runs
<1>2. p + k \in Handed(mm) BY <1>1
<1>3. p + k \in Addresses /\ p + k >= p BY <1>1, <1>2 DEF Handed
<1>4. mem[p + k] = Jump(a + k, 1, 1) BY DEF Runs
<1>5. mem[p + k].k = "jump" /\ mem[p + k].n = 1 /\ mem[p + k].to = a + k BY <1>4 DEF Jump
<1>6. ASSUME NEW c \in p..(p + k - 1) PROVE mem[c].k = "insn"
  <2>1. c - p \in 0..(k - 1) /\ p + (c - p) = c BY <1>1
  <2>2. mem[p + (c - p)] = Insn(a + (c - p)) BY <2>1 DEF Runs
  <2> QED BY <2>1, <2>2 DEF Insn
<1> DEFINE ends == {b \in Addresses : b >= p /\ mem[b].k = "jump" /\ mem[b].n = 1 /\ \A c \in p..(b - 1) : mem[c].k = "insn"}
<1>7. p + k \in ends
  <2>1. \A c \in p..(p + k - 1) : mem[c].k = "insn" BY <1>6
  <2> DEFINE q == p + k
  <2>2. q \in Addresses /\ q >= p /\ mem[q].k = "jump" /\ mem[q].n = 1 /\ \A c \in p..(q - 1) : mem[c].k = "insn"
    BY <1>0, <1>3, <1>5, <2>1
  <2> HIDE DEF q
  <2>3. q \in ends BY <2>2, Zenon
  <2> QED BY <2>3 DEF q
<1>8. BranchBack(p) = {mem[b].to : b \in ends} BY DEF BranchBack
<1> HIDE DEF ends
<1> QED BY <1>5, <1>7, <1>8, Zenon

\* A replacement or a closure goes on with the backup of its call.
LEMMA ServesResume ==
    ASSUME DobbyInv, Prepared, limits = {}, NEW id \in 1..MaxOps, NEW q, Serves(mm, mem, q, id)
    PROVE  q \notin Text /\ Forwarded(q) = q /\ RelocatedFor(q) = backup[id]
<1>0. Pages * PageSize \in Int /\ Replacements \in Nat /\ MaxOps \in Nat BY PageSizePositive, Constants
<1>1. CASE q = Replacements + id - 1
  <2>1. q \in Nat /\ q >= Replacements /\ q - Replacements + 1 = id BY <1>0, <1>1
  <2>2. q \notin Addresses BY <1>0, <2>1, CodeAssumption DEF Addresses
  <2>3. q \notin Text BY <2>2 DEF Text
  <2> QED BY <2>1, <2>2, <2>3 DEF Forwarded, RelocatedFor
<1>2. CASE q \in Handed(mm) /\ mem[q] = Closure(id)
  <2>1. q \in Nat /\ q \notin Text /\ q < Replacements BY <1>2, HandedGives
  <2>2. mem[q].k = "closure" /\ mem[q].id = id BY <1>2 DEF Closure
  <2>3. ~(q >= Replacements) BY <1>0, <2>1
  <2> QED BY <2>1, <2>2, <2>3 DEF Forwarded, RelocatedFor
<1> QED BY <1>1, <1>2 DEF Serves

\* A thread in relocated code will be back in the text where the code resumes.
LEMMA ResumesGives ==
    ASSUME DobbyInv, Prepared, limits = {}, NEW th, th.next \in Nat, NEW k \in 0..TrampSize, Away(th, mm, mem, backup, k)
    PROVE  th.next + k \in Resumes(th.pc)
<1>0. k \in Nat
  <2>1. TrampSize \in Nat BY Constants
  <2> QED BY <2>1
<1>1. CASE Runs(mm, mem, th.pc, th.next, k)
  <2>1. th.pc \in Nat /\ th.pc \in Handed(mm) BY <1>0, <1>1 DEF Runs
  <2>2. th.pc \notin Text /\ th.pc < Replacements /\ Replacements \in Nat BY <2>1, HandedGives, Constants
  <2>3. mem[th.pc].k = "insn" \/ (mem[th.pc].k = "jump" /\ mem[th.pc].n = 1)
    <3>1. CASE k = 0
      <4>1. th.pc + k = th.pc BY <2>1, <3>1
      <4>2. mem[th.pc] = Jump(th.next + k, 1, 1) BY <1>1, <4>1 DEF Runs
      <4> QED BY <4>2 DEF Jump
    <3>2. CASE k # 0
      <4>1. 0 \in 0..(k - 1) /\ th.pc + 0 = th.pc BY <1>0, <2>1, <3>2
      <4>2. mem[th.pc] = Insn(th.next + 0) BY <1>1, <4>1 DEF Runs
      <4> QED BY <4>2 DEF Insn
    <3> QED BY <3>1, <3>2
  <2>4. Forwarded(th.pc) = th.pc BY <2>3 DEF Forwarded
  <2>5. ~(th.pc >= Replacements) BY <2>1, <2>2
  <2>6. RelocatedFor(th.pc) = th.pc BY <2>3, <2>5 DEF RelocatedFor
  <2> QED BY <1>0, <1>1, <2>2, <2>4, <2>6, RunsBack DEF Resumes
<1>2. ASSUME NEW id \in 1..MaxOps, Runs(mm, mem, backup[id], th.next, k), Towards(th.pc, th.reg, mm, mem, id)
      PROVE  th.next + k \in Resumes(th.pc)
  <2>1. th.next + k \in BranchBack(backup[id]) BY <1>0, <1>2, RunsBack
  <2>2. CASE Serves(mm, mem, th.pc, id) BY <2>1, <2>2, ServesResume DEF Resumes
  <2>3. ASSUME NEW i \in 0..2, Forward(mm, mem, th.pc, i), Serves(mm, mem, mem[th.pc].to, id)
        PROVE  th.next + k \in Resumes(th.pc)
    <3>1. th.pc \in Nat /\ 0 \in 0..(2 - i) /\ th.pc + 0 = th.pc BY <2>3 DEF Forward
    <3>2. th.pc \in Handed(mm) /\ mem[th.pc] = Jump(mem[th.pc].to, i + 0 + 1, 3) BY <2>3, <3>1 DEF Forward
    <3>3. mem[th.pc].k = "jump" /\ mem[th.pc].n = 3 BY <3>2 DEF Jump
    <3>4. th.pc \in Addresses /\ th.pc \notin Text BY <3>2, HandedGives
    <3>5. Forwarded(th.pc) = mem[th.pc].to BY <3>3, <3>4 DEF Forwarded
    <3>6. RelocatedFor(mem[th.pc].to) = backup[id] BY <2>3, ServesResume
    <3> QED BY <2>1, <3>4, <3>5, <3>6 DEF Resumes
  <2> QED BY <1>2, <2>2, <2>3 DEF Towards
<1> QED BY <1>1, <1>2 DEF Away

\* A thread that is not inside the range that is about to be written can go on
\* beside it.  The patch installs a trampoline (h = 0) or takes away entry h.
LEMMA BesidePatch ==
    ASSUME ThreadInv, limits = {}, patch = <<>>, Held = 0, NEW th, th.fate = "in",
           OnItsWay(th, mm, mem, backup, entries, patch, Held),
           NEW a \in Nat, NEW ws, Len(ws) \in Nat, ~Inside(th, a, Len(ws)),
           NEW h, h = 0 \/ (h \in DOMAIN entries /\ entries[h].addr = a /\ Len(entries[h].origin) = Len(ws))
    PROVE  OnItsWay(th, mm, mem, backup, entries, <<a, ws>>, h)
<1>1. DobbyInv /\ Prepared BY DEF ThreadInv
<1>2. th.fn \in Functions /\ th.next \in th.fn..LastOf[th.fn] /\ th.pc \in Nat BY DEF OnItsWay
<1>3. th.next \in Nat /\ th.next \in Text BY <1>2, NextGives
<1> DEFINE n == Len(ws)
<1>4. \A b \in Resumes(th.pc) : b \in Nat => ~Within(a, n, b)
  <2>1. SUFFICES ASSUME NEW b \in Resumes(th.pc), b \in Nat, a < b, b < a + n PROVE FALSE BY DEF Within
  <2>2. b \in Span(a + 1, n - 1) BY <2>1 DEF Span
  <2> QED BY <2>2 DEF Inside
<1>5. ASSUME NEW b \in Nat, b \in Resumes(th.pc), Outside(b, entries, <<>>) PROVE Outside(b, entries, <<a, ws>>)
  <2>1. ~Within(a, n, b) BY <1>4, <1>5
  <2>2. <<a, ws>>[1] = a /\ <<a, ws>>[2] = ws OBVIOUS
  <2> QED BY <1>5, <2>1, <2>2 DEF Outside
<1> HIDE DEF n
<1>6. CASE InPlace(th, entries, <<>>)
  <2>1. th.pc = th.next /\ Outside(th.next, entries, <<>>) BY <1>6 DEF InPlace
  <2>2. th.next \in Resumes(th.pc) BY <1>3, <2>1 DEF Resumes
  <2>3. InPlace(th, entries, <<a, ws>>) BY <1>3, <1>5, <2>1, <2>2 DEF InPlace
  <2> QED BY <1>2, <2>3 DEF OnItsWay
<1>7. CASE Midway(th, mem, entries, Held)
  <2>1. PICK i \in DOMAIN entries :
          /\ i # Held /\ th.next = entries[i].addr /\ Within(entries[i].addr, Len(entries[i].origin), th.pc)
          /\ th.reg = <<mem[th.next].to, th.pc - th.next>>
    BY <1>7 DEF Midway
  <2>2. entries[i] \in Entries BY <1>1 DEF DobbyInv, Typed
  <2>3. th.pc \in Text BY <1>2, <2>1, <2>2, EntryGives DEF Within, Covers
  <2>4. th.pc \in Resumes(th.pc) BY <2>3 DEF Resumes
  <2>5. i # h
    <3>1. ASSUME h = 0 PROVE i # h BY <2>1, <3>1
    <3>2. ASSUME i = h, h # 0 PROVE FALSE
      <4>1. entries[h].addr = a /\ Len(entries[h].origin) = n BY <3>2 DEF n
      <4>2. Within(a, n, th.pc) BY <2>1, <3>2, <4>1
      <4> QED BY <1>2, <1>4, <2>4, <4>2
    <3> QED BY <3>1, <3>2
  <2>6. Midway(th, mem, entries, h) BY <2>1, <2>5 DEF Midway
  <2> QED BY <1>2, <2>6 DEF OnItsWay
<1>8. ASSUME NEW k \in 0..TrampSize, Outside(th.next + k, entries, <<>>), Away(th, mm, mem, backup, k)
      PROVE  OnItsWay(th, mm, mem, backup, entries, <<a, ws>>, h)
  <2>1. th.next + k \in Resumes(th.pc) BY <1>1, <1>3, <1>8, ResumesGives
  <2>2. th.next + k \in Nat
    <3>1. TrampSize \in Nat BY Constants
    <3> QED BY <1>3, <3>1
  <2>3. Outside(th.next + k, entries, <<a, ws>>) BY <1>5, <1>8, <2>1, <2>2
  <2> QED BY <1>2, <1>8, <2>3 DEF OnItsWay
<1> QED BY <1>6, <1>7, <1>8 DEF OnItsWay

\* The patch gives threads an excuse and nothing else.
LEMMA ExcusedThreads ==
    ASSUME Prepared, NEW a, NEW ws, PatchBegins(a, ws)
    PROVE  /\ thread' = [t \in Threads |-> thread'[t]] /\ \A t \in Threads : Whole(thread'[t])
           /\ \A t \in Threads :
                /\ thread'[t].pc = thread[t].pc /\ thread'[t].next = thread[t].next /\ thread'[t].reg = thread[t].reg
                /\ thread'[t].fn = thread[t].fn /\ thread'[t].fate = thread[t].fate
                /\ thread'[t].excused <=> thread[t].excused \/ Inside(thread[t], a, Len(ws))
<1>1. thread' = [t \in Threads |-> [thread[t] EXCEPT !.excused = @ \/ Inside(thread[t], a, Len(ws))]] BY DEF PatchBegins
<1>2. thread' = [t \in Threads |-> thread'[t]] BY <1>1, Zenon
<1>3. ASSUME NEW t \in Threads
      PROVE  /\ Whole(thread'[t])
             /\ thread'[t].pc = thread[t].pc /\ thread'[t].next = thread[t].next /\ thread'[t].reg = thread[t].reg
             /\ thread'[t].fn = thread[t].fn /\ thread'[t].fate = thread[t].fate
             /\ thread'[t].excused <=> thread[t].excused \/ Inside(thread[t], a, Len(ws))
  <2> DEFINE u == thread[t]
             X == Inside(thread[t], a, Len(ws))
             v == thread'[t]
  <2>1. Whole(u) BY DEF Prepared
  <2>2. v = [u EXCEPT !.excused = @ \/ X] BY <1>1, Zenon
  <2> HIDE DEF u, X, v
  <2>3. v.excused = (u.excused \/ X) BY <2>1, <2>2 DEF Whole
  <2>4. Whole(v) BY <2>1, <2>2 DEF Whole
  <2>5. v.pc = u.pc /\ v.next = u.next /\ v.reg = u.reg /\ v.fn = u.fn /\ v.fate = u.fate BY <2>1, <2>2 DEF Whole
  <2> QED BY <2>3, <2>4, <2>5, Zenon DEF u, v, X
<1> QED BY <1>2, <1>3, Zenon

\* A patch begins while no thread is inside the words it changes, or a limit is recorded.
LEMMA BeginsThreads ==
    ASSUME ThreadInv, limits' = {}, patch = <<>>, Held = 0, NEW a \in Nat, NEW ws, Len(ws) \in Nat, PatchBegins(a, ws),
           Grown(mm, mem, limits, mm', mem', limits'), entries' = entries, Backed(mm, backup, backup'),
           Held' = 0 \/ (Held' \in DOMAIN entries /\ entries[Held'].addr = a /\ Len(entries[Held'].origin) = Len(ws))
    PROVE  Network(mm', mem', backup', entries') /\ (\A t \in Threads : Fares(thread[t]))'
<1>1. /\ limits = {} /\ Kept(mm, mem, mm', mem') /\ (\A b \in Text : mem'[b] = mem[b])
      /\ entries \in Seq(Entries) /\ (\A i \in DOMAIN entries : Block(mm, mem, entries[i]))
      /\ Network(mm, mem, backup, entries) /\ \A t \in Threads : Fares(thread[t])
  BY GrownKept
<1>2. Network(mm', mem', backup', entries') BY <1>1, NetworkKept
<1>3. patch' = <<a, ws>> BY DEF PatchBegins
<1>4. ASSUME NEW t \in Threads PROVE Fares(thread[t])'
  <2> DEFINE u == thread[t]
             v == thread'[t]
  <2>1. /\ v.pc = u.pc /\ v.next = u.next /\ v.reg = u.reg /\ v.fn = u.fn /\ v.fate = u.fate
        /\ v.excused <=> u.excused \/ Inside(u, a, Len(ws))
    BY ExcusedThreads DEF ThreadInv
  <2>2. Fares(u) BY <1>1
  <2> HIDE DEF u, v
  <2>3. ASSUME v.fate = "lost" PROVE v.excused
    <3>1. u.excused BY <2>1, <2>2, <2>3 DEF Fares
    <3> QED BY <2>1, <3>1, Zenon
  <2>4. ASSUME v.fate = "in", ~v.excused PROVE OnItsWay(v, mm', mem', backup', entries', patch', Held')
    <3>1. ~u.excused /\ ~Inside(u, a, Len(ws)) BY <2>1, <2>4, Zenon
    <3>2. u.fate = "in" BY <2>1, <2>4
    <3>3. OnItsWay(u, mm, mem, backup, entries, patch, Held) BY <2>2, <3>1, <3>2, Zenon DEF Fares
    <3>4. OnItsWay(u, mm, mem, backup, entries, <<a, ws>>, Held') BY <1>1, <3>1, <3>2, <3>3, BesidePatch
    <3>5. OnItsWay(u, mm', mem', backup', entries, <<a, ws>>, Held') BY <1>1, <3>4, OnItsWayKept
    <3>6. OnItsWay(v, mm', mem', backup', entries, <<a, ws>>, Held') BY <2>1, <3>5, OnItsWayExcused
    <3> QED BY <1>3, <3>6
  <2>5. (v.fate = "in" => v.excused \/ OnItsWay(v, mm', mem', backup', entries', patch', Held')) /\ (v.fate = "lost" => v.excused)
    BY <2>3, <2>4, Zenon
  <2> QED BY <2>5, Zenon DEF Fares, v
<1> QED BY <1>2, <1>4

\* Commit: threads are outside the site, or a limit is recorded.
LEMMA ThreadCommit == ASSUME ThreadInv, Commit PROVE ThreadInv'
<1>0. DobbyInv /\ Prepared /\ DobbyInv' BY StepCommit DEF ThreadInv
<1>1. /\ op.at = "relocated" /\ PatchBegins(op.addr, op.tramp) /\ op' = [op EXCEPT !.at = "committed"]
      /\ mem' = mem /\ foreign' = foreign /\ entries' = entries /\ calls' = calls
      /\ backup' = [backup EXCEPT ![op.id] = op.relocated]
  BY DEF Commit, OriginFunc
<1>2. op.addr \in Sites /\ Jumps(op.tramp) /\ op.relocated \in Nat BY <1>0, <1>1 DEF DobbyInv, Underway
<1>3. op.addr \in Text /\ op.addr \in Nat /\ Len(op.tramp) \in Nat BY <1>2, SitesGive DEF Jumps
<1>4. Grown(mm, mem, limits, mm', mem', limits')
  <2>1. calls' \in 0..MaxOps BY <1>0, <1>1 DEF DobbyInv, Typed
  <2>2. Len(op.tramp) \in 1..TrampSize BY <1>2 DEF Jumps
  <2> QED BY <1>0, <1>1, <1>2, <2>1, <2>2, PatchBeginsGives
<1>5. /\ op'.at = "committed" /\ op'.addr = op.addr /\ op'.id = op.id /\ op'.tramp = op.tramp
      /\ op'.origin = op.origin /\ op'.relocated = op.relocated
  BY <1>1
<1>6. op.id \in 1..MaxOps /\ op.id = calls /\ backup[op.id] = 0 /\ backup \in [1..MaxOps -> Nat] /\ patch = <<>>
  BY <1>0, <1>1 DEF Prepared
<1>7. /\ backup' \in [1..MaxOps -> Nat] /\ backup'[op.id] = op.relocated
      /\ \A i \in 1..MaxOps : i # op.id => backup'[i] = backup[i]
  BY <1>1, <1>2, <1>6
<1>8. Prepared'
  <2>1. thread' = [t \in Threads |-> thread'[t]] /\ \A t \in Threads : Whole(thread'[t])
    BY <1>0, <1>1, ExcusedThreads
  <2>2. (\A t \in Threads : Whole(thread[t]))' BY <2>1 DEF Whole
  <2>3. Executable(mm') BY <1>0, <1>4 DEF Prepared, Grown
  <2>4. \A i \in 1..MaxOps : i > calls => backup'[i] = 0
    <3>1. SUFFICES ASSUME NEW i \in 1..MaxOps, i > calls PROVE backup'[i] = 0 OBVIOUS
    <3>2. i # op.id
      <4>1. MaxOps \in Nat BY Constants
      <4> QED BY <1>6, <3>1, <4>1
    <3> QED BY <1>0, <1>7, <3>1, <3>2 DEF Prepared
  <2> QED BY <1>0, <1>1, <1>5, <1>6, <1>7, <2>1, <2>2, <2>3, <2>4 DEF Prepared
<1>9. ASSUME limits' = {}
      PROVE  Network(mm', mem', backup', entries') /\ (\A t \in Threads : Fares(thread[t]))' /\ Aimed'
  <2>1. limits = {} /\ Kept(mm, mem, mm', mem') /\ Aimed BY <1>4, <1>9, GrownKept
  <2>2. Backed(mm, backup, backup')
    <3>1. SUFFICES ASSUME NEW id \in 1..MaxOps, backup[id] \in Handed(mm) PROVE backup'[id] = backup[id] BY DEF Backed
    <3>2. backup[id] # 0 BY <1>0, <2>1, <3>1, HandedGives
    <3> QED BY <1>6, <1>7, <3>2
  <2>3. Held = 0 /\ Held' = 0 BY <1>1, <1>5 DEF Held
  <2>4. Network(mm', mem', backup', entries') /\ (\A t \in Threads : Fares(thread[t]))'
    BY <1>1, <1>3, <1>4, <1>6, <1>9, <2>2, <2>3, BeginsThreads
  <2>5. Reaches(mm', mem', op.tramp[1].to, op.id) BY <1>1, <2>1, CodeKept DEF Aimed
  <2>6. \A i \in DOMAIN entries : Apart(entries[i], op') BY <1>1, <1>5, <2>1 DEF Aimed, Apart
  <2>7. Aimed' BY <1>1, <1>5, <2>1, <2>5, <2>6 DEF Aimed
  <2> QED BY <2>4, <2>7
<1> QED BY <1>0, <1>8, <1>9 DEF ThreadInv

\* DobbyDestroy: threads are outside the trampoline, or a limit is recorded.
LEMMA ThreadDobbyDestroy == ASSUME ThreadInv, DobbyDestroy PROVE ThreadInv'
<1>0. DobbyInv /\ Prepared /\ DobbyInv' BY StepDobbyDestroy DEF ThreadInv
<1>1. /\ op.at = "idle" /\ calls < MaxOps /\ calls' = calls + 1 /\ UNCHANGED <<mem, foreign, entries, plugin, backup>>
  BY DEF DobbyDestroy
<1>2. /\ mm \in Machines /\ mem \in Code /\ calls \in 0..MaxOps /\ entries \in Seq(Entries) /\ MaxOps \in Nat /\ patch = <<>>
  BY <1>0, <1>1, Constants DEF DobbyInv, Typed, Prepared
<1>3. calls' \in 0..MaxOps BY <1>1, <1>2
<1>b. backup \in [1..MaxOps -> Nat] /\ \A i \in 1..MaxOps : i > calls + 1 => backup[i] = 0
  BY <1>0, <1>2 DEF Prepared
<1>h. Held = 0 BY <1>1 DEF Held
<1>4. CASE UNCHANGED <<op, patch, mm, thread, limits>>
  <2>1. Prepared'
    <3>1. (\A t \in Threads : Whole(thread[t]))' BY <1>0, <1>4 DEF Prepared, Whole
    <3> QED BY <1>0, <1>1, <1>4, <1>b, <3>1 DEF Prepared
  <2>2. Held' = Held BY <1>4 DEF Held
  <2>3. Kept(mm, mem, mm', mem') BY <1>1, <1>4 DEF Kept
  <2>4. ASSUME limits' = {} PROVE Network(mm', mem', backup', entries') /\ (\A t \in Threads : Fares(thread[t]))' /\ Aimed'
    BY <1>1, <1>4, <2>2, <2>3, <2>4, ThreadsStay, AimedStay DEF ThreadInv
  <2> QED BY <1>0, <2>1, <2>4 DEF ThreadInv
<1>5. ASSUME NEW a \in Functions \union Points, Find(a, FALSE) # {},
             PatchBegins(a, entries[Min(Find(a, FALSE))].origin),
             op' = [at |-> "restore", entry |-> Min(Find(a, FALSE)), crossed |-> Later(Min(Find(a, FALSE))) # {}]
      PROVE  ThreadInv'
  <2> DEFINE i == Min(Find(a, FALSE))
             e == entries[i]
  <2>1. i \in DOMAIN entries /\ e.addr = a
    <3>1. Find(a, FALSE) = {j \in DOMAIN entries : entries[j].addr = a} BY DEF Find
    <3>d. DOMAIN entries \subseteq Nat BY <1>2
    <3>2. Find(a, FALSE) \subseteq Nat BY <3>1, <3>d, Zenon
    <3>3. i \in Find(a, FALSE) BY <1>5, <3>2, Least
    <3> QED BY <3>1, <3>3
  <2>2. op'.at = "restore" /\ op'.entry = i BY <1>5
  <2> HIDE DEF i
  <2>3. e \in Entries BY <1>2, <2>1
  <2>4. a \in Text /\ a \in Nat /\ Len(e.origin) \in Nat BY <2>1, <2>3, EntryGives
  <2>5. PatchBegins(a, e.origin) BY <1>5 DEF i
  <2>6. Grown(mm, mem, limits, mm', mem', limits')
    <3>1. a \in Sites /\ Len(e.origin) \in 1..TrampSize BY <2>3 DEF Entries, Sites
    <3> QED BY <1>0, <1>1, <1>3, <2>5, <3>1, PatchBeginsGives
  <2>7. Prepared'
    <3>1. thread' = [t \in Threads |-> thread'[t]] /\ \A t \in Threads : Whole(thread'[t])
      BY <1>0, <2>5, ExcusedThreads
    <3>2. (\A t \in Threads : Whole(thread[t]))' BY <3>1 DEF Whole
    <3>3. Executable(mm') BY <1>0, <2>6 DEF Prepared, Grown
    <3> QED BY <1>0, <1>1, <1>b, <2>2, <3>1, <3>2, <3>3 DEF Prepared
  <2>8. Held' = i BY <2>2 DEF Held
  <2>9. Backed(mm, backup, backup') BY <1>1 DEF Backed
  <2>10. ASSUME limits' = {} PROVE Network(mm', mem', backup', entries') /\ (\A t \in Threads : Fares(thread[t]))'
    BY <1>1, <1>2, <1>h, <2>1, <2>4, <2>5, <2>6, <2>8, <2>9, <2>10, BeginsThreads
  <2>11. Aimed' BY <2>2 DEF Aimed
  <2> QED BY <1>0, <2>7, <2>10, <2>11 DEF ThreadInv
<1> QED BY <1>4, <1>5 DEF DobbyDestroy

-----------------------------------------------------------------------------
(* A patch ends.                                                           *)

\* The range that was written is now covered by an entry, or by none, and
\* the trampolines of the entries that stay were not written to.
LEMMA OnItsWayPatched ==
    ASSUME NEW m, NEW w, NEW n, NEW x, Kept(m, w, n, x), NEW bk, NEW es, NEW fs, NEW pt, NEW h,
           \A r : Outside(r, es, pt) => Outside(r, fs, <<>>),
           \A i \in DOMAIN es : i # h => x[es[i].addr] = w[es[i].addr] /\ \E j \in DOMAIN fs : j # 0 /\ fs[j] = es[i],
           NEW th, OnItsWay(th, m, w, bk, es, pt, h)
    PROVE  OnItsWay(th, n, x, bk, fs, <<>>, 0)
<1>1. Backed(m, bk, bk) BY DEF Backed
<1>2. \A k \in 0..TrampSize : Away(th, m, w, bk, k) => Away(th, n, x, bk, k)
  <2>1. 0..TrampSize \subseteq Nat BY Constants
  <2> QED BY <1>1, <2>1, AwayKept
<1>3. Midway(th, w, es, h) => Midway(th, x, fs, 0)
  <2>1. SUFFICES ASSUME NEW i \in DOMAIN es, i # h, th.next = es[i].addr, Within(es[i].addr, Len(es[i].origin), th.pc),
                        th.reg = <<w[th.next].to, th.pc - th.next>>
                 PROVE  Midway(th, x, fs, 0)
    BY DEF Midway
  <2>2. PICK j \in DOMAIN fs : j # 0 /\ fs[j] = es[i] BY <2>1
  <2>3. x[th.next] = w[th.next] BY <2>1
  <2> QED BY <2>1, <2>2, <2>3 DEF Midway
<1>4. InPlace(th, es, pt) => InPlace(th, fs, <<>>) BY DEF InPlace
<1> QED BY <1>2, <1>3, <1>4 DEF OnItsWay

\* An entry stays wired while its site and the generated code do.
LEMMA WiredKept ==
    ASSUME NEW m, NEW w, NEW n, NEW x, Kept(m, w, n, x), NEW bk, NEW e \in Entries, Wired(e, m, w, bk),
           \A j \in 0..(Len(e.origin) - 1) : x[e.addr + j] = w[e.addr + j]
    PROVE  Wired(e, n, x, bk) /\ x[e.addr] = w[e.addr]
<1>1. e.addr \in Nat /\ Len(e.origin) \in Nat /\ Len(e.origin) >= 1 BY EntryGives
<1>2. x[e.addr] = w[e.addr]
  <2>1. 0 \in 0..(Len(e.origin) - 1) /\ e.addr + 0 = e.addr BY <1>1
  <2> QED BY <2>1
<1>3. Reaches(n, x, x[e.addr].to, e.id) BY <1>2, CodeKept DEF Wired
<1> QED BY <1>2, <1>3 DEF Wired

\* The threads once the patch is done.
LEMMA EndsThreads ==
    ASSUME ThreadInv, limits = {}, Kept(mm, mem, mm', mem'), UNCHANGED <<thread, backup>>, patch' = <<>>, Held' = 0,
           \A r : Outside(r, entries, patch) => Outside(r, entries', <<>>),
           \A i \in DOMAIN entries : i # Held =>
              mem'[entries[i].addr] = mem[entries[i].addr] /\ \E j \in DOMAIN entries' : j # 0 /\ entries'[j] = entries[i]
    PROVE  (\A t \in Threads : Fares(thread[t]))'
<1>1. SUFFICES ASSUME NEW t \in Threads PROVE Fares(thread[t])' OBVIOUS
<1>2. Fares(thread[t]) BY DEF ThreadInv
<1>3. OnItsWay(thread[t], mm, mem, backup, entries, patch, Held) =>
        OnItsWay(thread[t], mm', mem', backup, entries', <<>>, 0)
  BY OnItsWayPatched
<1> QED BY <1>2, <1>3 DEF Fares

\* What stays prepared when the call returns.
LEMMA PreparedIdle ==
    ASSUME Prepared, Executable(mm'), UNCHANGED <<thread, foreign, backup, calls>>, op' = Idle, patch' = <<>>
    PROVE  Prepared'
<1>1. (\A t \in Threads : Whole(thread[t]))' BY DEF Prepared, Whole
<1>2. op'.at = "idle" BY DEF Idle
<1> QED BY <1>1, <1>2 DEF Prepared

\* The end of a hook: the site leads where its trampoline aims.
LEMMA ThreadAdd == ASSUME ThreadInv, Add PROVE ThreadInv'
<1> DEFINE e == [id |-> op.id, addr |-> op.addr, origin |-> op.origin, relocated |-> op.relocated]
<1>0. DobbyInv /\ Prepared /\ DobbyInv' BY StepAdd DEF ThreadInv
<1>1. /\ op.at = "committed" /\ PatchEnds({}) /\ entries' = Append(entries, e) /\ op' = Idle
      /\ UNCHANGED <<thread, foreign, backup, calls>> /\ patch' = <<>>
  BY DEF Add, PatchEnds
<1>2. /\ op.addr \in Sites /\ op.id \in Nat /\ Jumps(op.tramp) /\ op.relocated \in Nat /\ op.origin \in Seq(Words)
      /\ Len(op.origin) = Len(op.tramp) /\ patch = <<op.addr, op.tramp>>
  BY <1>0, <1>1 DEF DobbyInv, Underway
<1>3. op.tramp \in Seq(Words) /\ Len(op.tramp) \in 1..TrampSize BY <1>2 DEF Jumps
<1>4. Patched(op.addr, op.tramp, {}) BY <1>0, <1>1, <1>2, <1>3, PatchEndsGives
<1>5. e.id = op.id /\ e.addr = op.addr /\ e.origin = op.origin /\ e.relocated = op.relocated OBVIOUS
<1>6. e \in Entries BY <1>2, <1>3 DEF Entries
<1> HIDE DEF e
<1>7. entries \in Seq(Entries) BY <1>0 DEF DobbyInv, Typed
<1> DEFINE l == Len(entries) + 1
<1>8. /\ DOMAIN entries' = DOMAIN entries \cup {l} /\ entries'[l] = e /\ l # 0 /\ 0 \notin DOMAIN entries
      /\ \A i \in DOMAIN entries : entries'[i] = entries[i]
  BY <1>1, <1>6, <1>7
<1> HIDE DEF l
<1>9. Prepared' BY <1>0, <1>1, <1>4, PreparedIdle DEF Patched, Prepared
<1>10. Aimed' BY <1>1 DEF Aimed, Idle
<1>11. ASSUME limits' = {} PROVE Network(mm', mem', backup', entries') /\ (\A t \in Threads : Fares(thread[t]))'
  <2>1. limits = {} /\ Kept(mm, mem, mm', mem') BY <1>4, <1>11 DEF Patched
  <2>2. Network(mm, mem, backup, entries) /\ Aimed BY <2>1 DEF ThreadInv
  <2>3. \A b \in Text : ~(op.addr <= b /\ b < op.addr + Len(op.tramp)) => mem'[b] = mem[b] BY <1>4 DEF Patched
  <2>a. op.addr \in Nat /\ Len(op.tramp) \in Nat /\ Len(op.tramp) >= 1 BY <1>2, <1>3, SitesGive
  <2>4. ASSUME NEW i \in DOMAIN entries
        PROVE  /\ entries[i] \in Entries /\ Wired(entries[i], mm', mem', backup) /\ Apart(entries[i], e) /\ Apart(e, entries[i])
               /\ mem'[entries[i].addr] = mem[entries[i].addr]
    <3> DEFINE d == entries[i]
    <3>1. d \in Entries /\ Wired(d, mm, mem, backup) /\ Apart(d, op) BY <1>1, <1>7, <2>2 DEF Network, Aimed
    <3>2. d.addr \in Nat /\ Len(d.origin) \in Nat /\ \A b \in Int : Covers(d, b) => b \in Text BY <3>1, EntryGives
    <3>3. d.addr + Len(d.origin) <= op.addr \/ op.addr + Len(op.tramp) <= d.addr BY <1>2, <3>1 DEF Apart
    <3> HIDE DEF d
    <3>4. ASSUME NEW j \in 0..(Len(d.origin) - 1) PROVE mem'[d.addr + j] = mem[d.addr + j]
      <4>1. d.addr + j \in Int /\ Covers(d, d.addr + j) BY <3>2 DEF Covers
      <4>2. ~(op.addr <= d.addr + j /\ d.addr + j < op.addr + Len(op.tramp)) BY <2>a, <3>2, <3>3
      <4> QED BY <2>3, <3>2, <4>1, <4>2
    <3>5. Wired(d, mm', mem', backup) /\ mem'[d.addr] = mem[d.addr] BY <2>1, <3>1, <3>4, WiredKept
    <3>6. Apart(d, e) /\ Apart(e, d) BY <1>2, <1>5, <3>3 DEF Apart
    <3> QED BY <3>1, <3>5, <3>6 DEF d
  <2>5. Wired(e, mm', mem', backup)
    <3> DEFINE n == Len(op.tramp)
               to == op.tramp[1].to
    <3>1. /\ Reaches(mm', mem', to, op.id) /\ to \in Int
          /\ \A j \in 1..n : op.tramp[j] = Jump(to, j, n)
      BY <1>1, <2>1, <2>2, CodeKept DEF Aimed
    <3>2. op.id \in 1..MaxOps /\ backup[op.id] = op.relocated BY <1>0, <1>1 DEF Prepared
    <3> HIDE DEF n, to
    <3>3. ASSUME NEW j \in 0..(n - 1) PROVE mem'[op.addr + j] = Jump(to, j + 1, n)
      <4>0. n \in Nat /\ n \in 1..TrampSize /\ mem \in Code BY <1>0, <1>3 DEF n, DobbyInv, Typed
      <4>1. j + 1 \in 1..n /\ op.addr + (j + 1) - 1 = op.addr + j BY <2>a, <4>0
      <4>2. op.addr + j \in Text
        <5>1. op.addr + (j + 1) - 1 \in Text BY <1>2, <4>0, <4>1, ReadGives
        <5> QED BY <4>1, <5>1
      <4>3. op.addr <= op.addr + j /\ op.addr + j < op.addr + n /\ (op.addr + j) - op.addr + 1 = j + 1 BY <2>a, <4>0
      <4>4. mem'[op.addr + j] = op.tramp[(op.addr + j) - op.addr + 1] BY <1>4, <4>2, <4>3 DEF Patched, n
      <4> QED BY <3>1, <4>1, <4>3, <4>4
    <3>4. mem'[op.addr].to = to
      <4>1. 0 \in 0..(n - 1) /\ op.addr + 0 = op.addr BY <2>a DEF n
      <4>2. mem'[op.addr] = Jump(to, 0 + 1, n) BY <3>3, <4>1
      <4> QED BY <4>2 DEF Jump
    <3>5. Len(e.origin) = n BY <1>2, <1>5 DEF n
    <3> QED BY <1>5, <3>1, <3>2, <3>3, <3>4, <3>5 DEF Wired
  <2>6. Network(mm', mem', backup', entries')
    <3>1. \A i \in DOMAIN entries' : Wired(entries'[i], mm', mem', backup) BY <1>8, <2>4, <2>5
    <3>2. ASSUME NEW i \in DOMAIN entries', NEW j \in DOMAIN entries', i # j PROVE Apart(entries'[i], entries'[j])
      <4>1. CASE i = l BY <1>8, <2>4, <3>2, <4>1
      <4>2. CASE j = l BY <1>8, <2>4, <3>2, <4>2
      <4>3. CASE i # l /\ j # l BY <1>8, <2>2, <3>2, <4>3 DEF Network
      <4> QED BY <4>1, <4>2, <4>3
    <3> QED BY <1>1, <3>1, <3>2 DEF Network
  <2>7. ASSUME NEW r, Outside(r, entries, patch) PROVE Outside(r, entries', <<>>)
    <3>1. patch # <<>> /\ patch[1] = op.addr /\ patch[2] = op.tramp BY <1>2
    <3>2. ~Within(e.addr, Len(e.origin), r) BY <1>2, <1>5, <2>7, <3>1 DEF Outside
    <3> QED BY <1>8, <2>7, <3>2 DEF Outside
  <2>8. \A i \in DOMAIN entries : mem'[entries[i].addr] = mem[entries[i].addr] /\ \E j \in DOMAIN entries' : j # 0 /\ entries'[j] = entries[i]
    BY <1>8, <2>4
  <2>9. Held' = 0 BY <1>1 DEF Held, Idle
  <2>10. (\A t \in Threads : Fares(thread[t]))' BY <1>1, <2>1, <2>7, <2>8, <2>9, EndsThreads
  <2> QED BY <2>6, <2>10
<1> QED BY <1>0, <1>9, <1>10, <1>11 DEF ThreadInv

\* The entries that stay are the ones with another index, each with one of its own.
LEMMA WithoutGives ==
    ASSUME NEW es \in Seq(Entries), NEW i \in DOMAIN es, NEW fs, Without(Entries, es, i, fs)
    PROVE  /\ 0 \notin DOMAIN fs
           /\ \A j \in DOMAIN fs : \E k \in DOMAIN es : k # i /\ fs[j] = es[k]
           /\ \A k \in DOMAIN es : k # i => \E j \in DOMAIN fs : j # 0 /\ fs[j] = es[k]
           /\ \A h, j \in DOMAIN fs : h # j => \E k, l \in DOMAIN es : /\ k # i /\ l # i /\ k # l
                                                                       /\ fs[h] = es[k] /\ fs[j] = es[l]
<1> DEFINE old(j) == IF j < i THEN j ELSE j + 1
<1>1. i \in 1..Len(es) /\ DOMAIN es = 1..Len(es) /\ Len(es) \in Nat /\ i \in Nat OBVIOUS
<1>2. /\ fs \in Seq(Entries) /\ Len(fs) = Len(es) - 1
      /\ \A j \in 1..(Len(es) - 1) : (j < i => fs[j] = es[j]) /\ (j >= i => fs[j] = es[j + 1])
  BY DEF Without
<1>3. DOMAIN fs = 1..(Len(es) - 1) BY <1>2
<1>4. \A j \in DOMAIN fs : old(j) \in DOMAIN es /\ old(j) # i /\ fs[j] = es[old(j)] BY <1>1, <1>2, <1>3
<1>5. \A j, k \in DOMAIN fs : j # k => old(j) # old(k) BY <1>1, <1>3
<1>6. ASSUME NEW k \in DOMAIN es, k # i PROVE \E j \in DOMAIN fs : j # 0 /\ fs[j] = es[k]
  <2>1. CASE k < i
    <3>1. k \in DOMAIN fs /\ k # 0 /\ old(k) = k BY <1>1, <1>3, <2>1
    <3> QED BY <1>4, <3>1
  <2>2. CASE k > i
    <3>1. k - 1 \in DOMAIN fs /\ k - 1 # 0 /\ old(k - 1) = k BY <1>1, <1>3, <2>2
    <3> QED BY <1>4, <3>1
  <2> QED BY <1>1, <1>6, <2>1, <2>2
<1> HIDE DEF old
<1>7. \A j \in DOMAIN fs : \E k \in DOMAIN es : k # i /\ fs[j] = es[k] BY <1>4
<1>8. ASSUME NEW h \in DOMAIN fs, NEW j \in DOMAIN fs, h # j
      PROVE  \E k, l \in DOMAIN es : k # i /\ l # i /\ k # l /\ fs[h] = es[k] /\ fs[j] = es[l]
  BY <1>4, <1>5, <1>8
<1>9. 0 \notin DOMAIN fs BY <1>1, <1>3
<1> QED BY <1>6, <1>7, <1>8, <1>9

\* The end of DobbyDestroy: the site holds its instructions again.
LEMMA ThreadRemoved == ASSUME ThreadInv, Removed PROVE ThreadInv'
<1> DEFINE i == op.entry
           e == entries[i]
           met == IF op.crossed THEN {"crossed"} ELSE {}
<1>0. DobbyInv /\ Prepared /\ DobbyInv' BY StepRemoved DEF ThreadInv
<1>1. /\ op.at = "restore" /\ PatchEnds(met) /\ entries' = RemoveAt(entries, i) /\ op' = Idle
      /\ UNCHANGED <<thread, foreign, backup, calls>> /\ patch' = <<>>
  BY DEF Removed, PatchEnds
<1>2. i \in DOMAIN entries /\ patch = <<e.addr, e.origin>> BY <1>0, <1>1 DEF DobbyInv, Underway
<1>3. entries \in Seq(Entries) BY <1>0 DEF DobbyInv, Typed
<1>4. e \in Entries BY <1>2, <1>3
<1>5. Held = i BY <1>1 DEF Held
<1> HIDE DEF i, met
<1>6. e.addr \in Sites /\ e.origin \in Seq(Words) /\ Len(e.origin) \in 1..TrampSize BY <1>4 DEF Entries
<1>7. Patched(e.addr, e.origin, met)
  <2> HIDE DEF e
  <2> QED BY <1>0, <1>1, <1>2, <1>6, PatchEndsGives
<1>8. Without(Entries, entries, i, entries')
  <2>1. i \in 1..Len(entries) BY <1>2, <1>3
  <2> QED BY <1>1, <1>3, <2>1, RemoveAtGives
<1>w. /\ 0 \notin DOMAIN entries'
      /\ \A j \in DOMAIN entries' : \E k \in DOMAIN entries : k # i /\ entries'[j] = entries[k]
      /\ \A k \in DOMAIN entries : k # i => \E j \in DOMAIN entries' : j # 0 /\ entries'[j] = entries[k]
      /\ \A h, j \in DOMAIN entries' : h # j => \E k, l \in DOMAIN entries : /\ k # i /\ l # i /\ k # l
                                                    /\ entries'[h] = entries[k] /\ entries'[j] = entries[l]
  BY <1>2, <1>3, <1>8, WithoutGives
<1>9. Prepared' BY <1>0, <1>1, <1>7, PreparedIdle DEF Patched, Prepared
<1>10. Aimed' BY <1>1 DEF Aimed, Idle
<1>11. ASSUME limits' = {} PROVE Network(mm', mem', backup', entries') /\ (\A t \in Threads : Fares(thread[t]))'
  <2>1. limits = {} /\ Kept(mm, mem, mm', mem') BY <1>7, <1>11 DEF Patched
  <2>2. Network(mm, mem, backup, entries) BY <2>1 DEF ThreadInv
  <2>3. \A b \in Text : ~(e.addr <= b /\ b < e.addr + Len(e.origin)) => mem'[b] = mem[b] BY <1>7 DEF Patched
  <2>4. ASSUME NEW k \in DOMAIN entries, k # i
        PROVE  Wired(entries[k], mm', mem', backup) /\ mem'[entries[k].addr] = mem[entries[k].addr]
    <3> DEFINE d == entries[k]
    <3>1. d \in Entries /\ Wired(d, mm, mem, backup) /\ Apart(d, e) BY <1>2, <1>3, <2>2, <2>4 DEF Network
    <3>2. d.addr \in Nat /\ Len(d.origin) \in Nat /\ \A b \in Int : Covers(d, b) => b \in Text BY <3>1, EntryGives
    <3>3. d.addr + Len(d.origin) <= e.addr \/ e.addr + Len(e.origin) <= d.addr BY <3>1 DEF Apart
    <3>a. e.addr \in Nat /\ Len(e.origin) \in Nat BY <1>4, EntryGives
    <3> HIDE DEF d, e
    <3>4. ASSUME NEW j \in 0..(Len(d.origin) - 1) PROVE mem'[d.addr + j] = mem[d.addr + j]
      <4>1. d.addr + j \in Int /\ Covers(d, d.addr + j) BY <3>2 DEF Covers
      <4>2. ~(e.addr <= d.addr + j /\ d.addr + j < e.addr + Len(e.origin)) BY <3>a, <3>2, <3>3
      <4> QED BY <2>3, <3>2, <4>1, <4>2
    <3>5. Wired(d, mm', mem', backup) /\ mem'[d.addr] = mem[d.addr] BY <2>1, <3>1, <3>4, WiredKept
    <3> QED BY <3>5 DEF d
  <2>5. Network(mm', mem', backup', entries')
    <3>1. \A j \in DOMAIN entries' : Wired(entries'[j], mm', mem', backup) BY <1>w, <2>4
    <3>2. ASSUME NEW h \in DOMAIN entries', NEW j \in DOMAIN entries', h # j PROVE Apart(entries'[h], entries'[j])
      <4>1. PICK k, l \in DOMAIN entries : k # l /\ entries'[h] = entries[k] /\ entries'[j] = entries[l] BY <1>w, <3>2
      <4> QED BY <2>2, <4>1 DEF Network
    <3> QED BY <1>1, <3>1, <3>2 DEF Network
  <2>6. ASSUME NEW r, Outside(r, entries, patch) PROVE Outside(r, entries', <<>>)
    <3>1. \A j \in DOMAIN entries' : \E k \in DOMAIN entries : entries'[j] = entries[k] BY <1>w
    <3> QED BY <2>6, <3>1 DEF Outside
  <2>7. \A k \in DOMAIN entries : k # Held =>
          mem'[entries[k].addr] = mem[entries[k].addr] /\ \E j \in DOMAIN entries' : j # 0 /\ entries'[j] = entries[k]
    BY <1>5, <1>w, <2>4
  <2>8. Held' = 0 BY <1>1 DEF Held, Idle
  <2>9. (\A t \in Threads : Fares(thread[t]))' BY <1>1, <2>1, <2>6, <2>7, <2>8, EndsThreads
  <2> QED BY <2>5, <2>9
<1> QED BY <1>0, <1>9, <1>10, <1>11 DEF ThreadInv

-----------------------------------------------------------------------------
(* All steps together.                                                     *)

\* At first every thread is outside.
LEMMA ThreadInit == ASSUME Init PROVE ThreadInv
<1>1. DobbyInv BY DobbyInit
<1>2. /\ op = Idle /\ patch = <<>> /\ entries = <<>> /\ foreign = LowPages /\ calls = 0
      /\ backup = [i \in 1..MaxOps |-> 0] /\ thread = [t \in Threads |-> Caller]
  BY DEF Init
<1>3. Executable(mm) BY TextAssumption DEF Init, Executable
<1>4. op.at = "idle" BY <1>2 DEF Idle
<1>5. \A t \in Threads : thread[t] = Caller BY <1>2
<1>6. Prepared
  <2>1. backup \in [1..MaxOps -> Nat] /\ \A i \in 1..MaxOps : backup[i] = 0 BY <1>2
  <2>2. \A t \in Threads : Whole(thread[t]) BY <1>5, CallerWhole
  <2>3. thread = [t \in Threads |-> thread[t]] BY <1>2
  <2> QED BY <1>2, <1>3, <1>4, <2>1, <2>2, <2>3 DEF Prepared
<1>7. Network(mm, mem, backup, entries)
  <2>1. DOMAIN entries = {} BY <1>2
  <2> QED BY <2>1 DEF Network
<1>8. Aimed BY <1>4 DEF Aimed
<1>9. \A t \in Threads : Fares(thread[t]) BY <1>5, CallerWhole DEF Fares
<1> QED BY <1>1, <1>6, <1>7, <1>8, <1>9 DEF ThreadInv

\* Every step keeps the invariant of the threads.
LEMMA ThreadNext == ASSUME ThreadInv, [Next]_vars PROVE ThreadInv'
<1>1. CASE DobbyHook
  <2>1. PICK f \in Functions : Enter("hook", f) BY <1>1 DEF DobbyHook
  <2> QED BY <2>1, ThreadEnter DEF Sites
<1>2. CASE DobbyInstrument
  <2>1. PICK a \in Points : Enter("instrument", a) BY <1>2 DEF DobbyInstrument
  <2> QED BY <2>1, ThreadEnter DEF Sites
<1>3. CASE DobbyDestroy BY <1>3, ThreadDobbyDestroy
<1>4. CASE TogglePlugin BY <1>4, ThreadTogglePlugin DEF TogglePlugin
<1>5. CASE BuildRouting BY <1>5, ThreadBuildRouting
<1>6. CASE NearMapped BY <1>6, ThreadNearMapped
<1>7. CASE GenerateRelocatedCode BY <1>7, ThreadGenerate
<1>8. CASE Commit BY <1>8, ThreadCommit
<1>9. CASE Add BY <1>9, ThreadAdd
<1>10. CASE Removed BY <1>10, ThreadRemoved
<1>11. CASE ForeignMap BY <1>11, ThreadForeignMap
<1>12. ASSUME NEW t \in Threads, Call(t) PROVE ThreadInv' BY <1>12, StepCall
<1>13. ASSUME NEW t \in Threads, Execute(t) PROVE ThreadInv' BY <1>13, StepExecute
<1>14. ASSUME NEW t \in Threads, Replacement(t) PROVE ThreadInv' BY <1>14, StepReplacement
<1>15. CASE UNCHANGED vars BY <1>15, ThreadTogglePlugin DEF vars, dobbyVars
<1> QED
  BY <1>1, <1>2, <1>3, <1>4, <1>5, <1>6, <1>7, <1>8, <1>9, <1>10, <1>11, <1>12, <1>13, <1>14, <1>15 DEF Next

\* The invariant of the threads holds always.
LEMMA ThreadAlways == Spec => []ThreadInv
BY ThreadInit, ThreadNext, PTL DEF Spec

\* A thread that calls a hooked function while DobbyCodePatch patches, restores
\* and patches again always finds its way: through the trampoline, the replacement
\* and *origin_func or the closure into the relocated code, and from there back
\* behind the patch, unless it stood inside a patch of several words.
THEOREM CallsStaySound == Spec => []CallsSound
<1>1. ASSUME ThreadInv PROVE CallsSound BY <1>1 DEF ThreadInv, Fares, CallsSound
<1> QED BY <1>1, ThreadAlways, PTL
====
