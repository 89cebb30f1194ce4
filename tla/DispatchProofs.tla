--------------------------- MODULE DispatchProofs ---------------------------
(***************************************************************************)
(* TLAPS proofs about Dispatch, for snapshots of any length.               *)
(***************************************************************************)
EXTENDS Dispatch, SequenceTheorems, WellFoundedInduction, TLAPS

\* Every step of a dispatch preserves the invariant.
LEMMA NextInv == DispatchInv /\ [DispatchNext]_dispatchVars => DispatchInv'
<1> SUFFICES ASSUME DispatchInv, [DispatchNext]_dispatchVars PROVE DispatchInv'
  OBVIOUS
<1> USE DEF DispatchInv, CountInv, ExceptionInv, OriginalExceptionKept, HasReplace, history, inputs
<1>1. CASE UNCHANGED dispatchVars
  BY <1>1 DEF dispatchVars
<1>2. CASE Start
  BY <1>2 DEF Start
<1>3. CASE ReplaceEnter
  BY <1>3 DEF ReplaceEnter
<1>4. CASE Proceed
  <2>1. CASE param.proceeded
    BY <1>4, <2>1 DEF Proceed
  <2>2. CASE ~param.proceeded
    <3>1. calls = 0 /\ phase = "inReplace"
      BY <1>4, <2>2 DEF Proceed
    <3>2. calls' = calls + 1 /\ phase' = phase /\ list' = list
      BY <1>4, <2>2 DEF Proceed
    <3>3. DOMAIN param' = DOMAIN param /\ param'.proceeded = TRUE
      BY <1>4, <2>2 DEF Proceed
    <3>4. calls' = 1
      BY <3>1, <3>2
    <3>5. CountInv'
      BY <3>1, <3>2, <3>3, <3>4
    <3>6. ExceptionInv'
      BY <3>1, <3>2
    <3> QED  BY <3>5, <3>6
  <2> QED  BY <2>1, <2>2
<1>5. CASE ReplaceReturn
  BY <1>5 DEF ReplaceReturn, Leave
<1>6. CASE ReplaceThrow
  BY <1>6 DEF ReplaceThrow, Leave
<1>7. CASE CallbackEnter
  BY <1>7 DEF CallbackEnter
<1>8. CASE SetResult
  BY <1>8 DEF SetResult
<1>9. CASE SetThrowable
  BY <1>9 DEF SetThrowable, NoThrow
<1>10. CASE CallbackReturn \/ CallbackThrow
  BY <1>10 DEF CallbackReturn, CallbackThrow
<1>11. CASE Invoke
  <2>0. phase = "before" /\ phase' = "after" /\ list' = list /\ calls = 0 /\ ~origThrew
    BY <1>11 DEF Invoke
  <2>1. CASE param.skip
    BY <1>11, <2>0, <2>1 DEF Invoke
  <2>2. CASE ~param.skip
    <3>1. PICK o \in OriginalOutcomes :
             /\ calls' = calls + 1
             /\ origThrew' = (o.how = "throw")
             /\ param' = IF o.how = "return" THEN [param EXCEPT !.result = o.val]
                                             ELSE [param EXCEPT !.throwable = o.ex]
      BY <1>11, <2>2 DEF Invoke
    <3>2. o.how = "return" \/ (o.how = "throw" /\ o.ex = "original")
      BY DEF OriginalOutcomes, Returned, Threw
    <3>3. /\ DOMAIN param' = DOMAIN param
          /\ param'.proceeded = param.proceeded
          /\ o.how = "throw" => param'.throwable = "original"
      BY <3>1, <3>2
    <3>4. calls' = 1
      BY <2>0, <3>1
    <3>5. origThrew' => param'.throwable # NoThrow
      BY <3>1, <3>3, Zenon DEF NoThrow
    <3> QED  BY <2>0, <3>3, <3>4, <3>5
  <2> QED  BY <2>1, <2>2
<1>12. CASE End
  BY <1>12 DEF End, Leave, Returned, Threw
<1>13. CASE Done
  BY <1>13 DEF Done, dispatchVars
<1> QED
  BY <1>1, <1>2, <1>3, <1>4, <1>5, <1>6, <1>7, <1>8, <1>9, <1>10, <1>11, <1>12, <1>13 DEF DispatchNext

\* The inductive invariant holds throughout every dispatch.
THEOREM Invariance == DispatchSpec => []DispatchInv
<1>1. DispatchInit => DispatchInv
  BY DEF DispatchInit, DispatchInv, CountInv, ExceptionInv, OriginalExceptionKept
<1> QED  BY <1>1, NextInv, PTL DEF DispatchSpec

\* One call of the member runs the original at most once.
THEOREM AtMostOnce == DispatchSpec => []OriginalAtMostOnce
<1>1. DispatchInv => OriginalAtMostOnce
  BY DEF DispatchInv, CountInv, OriginalAtMostOnce
<1> QED  BY <1>1, Invariance, PTL

\* Without replaces only setThrowable can hide an exception of the original.
THEOREM ExceptionKept == DispatchSpec => []OriginalExceptionKept
<1>1. DispatchInv => OriginalExceptionKept
  BY DEF DispatchInv, ExceptionInv
<1> QED  BY <1>1, Invariance, PTL


-----------------------------------------------------------------------------
(* The invariant behind CallbacksPaired: what has run and what the current *)
(* loop has still to run make up the filtered snapshot.                    *)

PairTyped ==
    /\ list \in Seq(Kinds)
    /\ queue \in Seq(Int)
    /\ ran \in Seq(Int)
    /\ DOMAIN param = {"result", "throwable", "skip", "proceeded"}
    /\ setBefore \in BOOLEAN
    /\ param.skip \in BOOLEAN
    /\ param.proceeded \in BOOLEAN

\* What the loops of a call without replaces have to run, in order.
BeforesThenAfters == Filter(list, "BEFORE") \o Reverse(Filter(list, "AFTER"))

\* A callback that has been entered is still at the head of the queue.
Left == IF phase \in {"inBefore", "inAfter", "inReplace"} THEN Tail(queue) ELSE queue

\* The snapshot decides which loops run; a running callback is the last of ran.
LoopInv ==
    /\ phase \in {"before", "inBefore", "after", "inAfter"} => ~HasReplace
    /\ phase \in {"replace", "inReplace"} => HasReplace
    /\ phase \in {"inBefore", "inAfter", "replace", "inReplace"} => queue # << >>
    /\ phase = "start" => ran = << >>
    /\ phase \in {"before", "inBefore"} => ran \o Left = Filter(list, "BEFORE")
    /\ phase \in {"after", "inAfter"} => ran \o Left = BeforesThenAfters
    /\ phase \in {"replace", "inReplace"} => ran \o Left = Filter(list, "REPLACE")
    /\ phase = "inReplace" => ran # << >> /\ ran[Len(ran)] = Head(queue)

\* skip is what setBefore records until the original has had its turn.
SkipInv ==
    /\ phase = "start" => ~param.skip /\ ~setBefore
    /\ phase \in {"start", "before", "inBefore", "after", "inAfter"} =>
          param.throwable \in {NoThrow, "set", "original"}
    /\ phase \in {"before", "inBefore"} => (param.skip <=> setBefore)
    /\ phase \in {"after", "inAfter"} => (calls = 1 <=> ~setBefore)

\* proceeded is set by a replace that has run, and the loop goes on only then.
ChainInv ==
    /\ phase \in {"start", "replace", "inReplace"} =>
          /\ param.proceeded => \E j \in 1..Len(ran) : ran[j] \in proceeds
          /\ \A i \in 1..(Len(ran) - 1) : \E j \in 1..i : ran[j] \in proceeds
    /\ phase = "replace" /\ ran # << >> => param.proceeded

PairInv == DispatchInv /\ PairTyped /\ LoopInv /\ SkipInv /\ ChainInv /\ CallbacksPaired

-----------------------------------------------------------------------------
(* Filter, for a list of any length.  Induction takes the form of a least  *)
(* counterexample.                                                         *)

\* A set of natural numbers that is not empty has a least element.
LEMMA LeastNat ==
  ASSUME NEW T, T \subseteq Nat, T # {}
  PROVE  \E x \in T : \A y \in T : x <= y
<1> DEFINE R == OpToRel(<, Nat)
<1>1. IsWellFoundedOn(R, Nat)
  BY NatLessThanWellFounded
<1>2. PICK x \in T : \A y \in T : <<y, x>> \notin R
  <2> HIDE DEF R
  <2> QED  BY <1>1, WFMin
<1>3. \A y \in T : ~(y < x)
  BY <1>2 DEF OpToRel
<1> QED  BY <1>3

\* What filter's loop has collected after entry i, given out for the entries before.
FilterStep(l, kind, out, i) ==
    IF i = 0 THEN << >>
    ELSE IF l[i] = kind THEN Append(out[i - 1], i) ELSE out[i - 1]

\* The recursive definition of filter's loop has a solution.
LEMMA FilterExists ==
  ASSUME NEW l, NEW kind, NEW n \in Nat
  PROVE  \E g : g = [i \in 0..n |-> FilterStep(l, kind, g, i)]
<1> DEFINE Bad == {m \in Nat : ~ \E g : g = [i \in 0..m |-> FilterStep(l, kind, g, i)]}
<1> SUFFICES ASSUME Bad # {} PROVE FALSE
  OBVIOUS
<1>1. PICK m \in Bad : \A k \in Bad : m <= k
  <2> Bad \subseteq Nat
    OBVIOUS
  <2> HIDE DEF Bad
  <2> QED  BY LeastNat
<1>2. CASE m = 0
  <2> DEFINE h == [i \in 0..0 |-> << >>]
  <2>1. h = [i \in 0..0 |-> FilterStep(l, kind, h, i)]
    BY DEF FilterStep
  <2> QED  BY <2>1, <1>2
<1>3. CASE m # 0
  <2>1. m \in Nat /\ m - 1 \in Nat /\ m - 1 \notin Bad
    BY <1>1, <1>3
  <2>2. PICK g : g = [i \in 0..(m - 1) |-> FilterStep(l, kind, g, i)]
    BY <2>1
  <2> DEFINE h == [i \in 0..m |-> IF i = m THEN FilterStep(l, kind, g, m) ELSE g[i]]
  <2>3. ASSUME NEW i \in 0..m  PROVE  h[i] = FilterStep(l, kind, h, i)
    <3>1. \A j \in 0..(m - 1) : g[j] = FilterStep(l, kind, g, j)
      BY <2>2
    <3>2. i # 0 => h[i - 1] = g[i - 1]
      BY <2>1
    <3>3. FilterStep(l, kind, h, i) = FilterStep(l, kind, g, i)
      <4> HIDE DEF h
      <4> QED  BY <3>2 DEF FilterStep
    <3> QED  BY <3>1, <3>3, <2>1
  <2>4. h = [i \in 0..m |-> FilterStep(l, kind, h, i)]
    BY <2>3
  <2> QED  BY <2>4
<1> QED  BY <1>2, <1>3

\* out holds exactly the entries of the kind among the first n, in their order.
Collected(l, kind, n, out) ==
    /\ out \in Seq(1..n)
    /\ \A e \in 1..n : l[e] = kind => \E j \in 1..Len(out) : out[j] = e
    /\ \A j \in 1..Len(out) : l[out[j]] = kind
    /\ \A j, k \in 1..Len(out) : j < k => out[j] < out[k]

\* One turn of filter's loop collects one more entry or passes it over.
LEMMA FilterTurn ==
  ASSUME NEW l, NEW kind, NEW n \in Nat, n # 0, NEW p, Collected(l, kind, n - 1, p)
  PROVE  Collected(l, kind, n, IF l[n] = kind THEN Append(p, n) ELSE p)
<1>1. p \in Seq(1..(n - 1)) /\ p \in Seq(1..n) /\ Len(p) \in Nat /\ n \in 1..n
  <2>1. 1..(n - 1) \subseteq 1..n
    OBVIOUS
  <2> QED  BY <2>1, SeqMonotonic DEF Collected
<1>2. CASE l[n] = kind
  <2> DEFINE q == Append(p, n)
  <2>1. /\ q \in Seq(1..n) /\ Len(q) = Len(p) + 1
        /\ \A j \in 1..Len(p) : q[j] = p[j] /\ p[j] \in 1..(n - 1)
        /\ q[Len(p) + 1] = n
    BY <1>1
  <2> HIDE DEF q
  <2>2. ASSUME NEW e \in 1..n, l[e] = kind  PROVE  \E j \in 1..Len(q) : q[j] = e
    <3>1. CASE e = n
      <4>1. Len(p) + 1 \in 1..Len(q)
        BY <2>1, <1>1
      <4> QED  BY <3>1, <2>1, <4>1
    <3>2. CASE e # n
      <4>1. PICK j \in 1..Len(p) : p[j] = e
        BY <3>2, <2>2 DEF Collected
      <4>2. j \in 1..Len(q)
        BY <2>1, <1>1
      <4> QED  BY <4>1, <4>2, <2>1
    <3> QED  BY <3>1, <3>2
  <2>3. ASSUME NEW j \in 1..Len(q)  PROVE  l[q[j]] = kind
    <3>1. j \in 1..Len(p) \/ j = Len(p) + 1
      BY <2>1, <1>1
    <3> QED  BY <3>1, <2>1, <1>2 DEF Collected
  <2>4. ASSUME NEW j \in 1..Len(q), NEW k \in 1..Len(q), j < k  PROVE  q[j] < q[k]
    <3>1. Len(q) = Len(p) + 1 /\ Len(p) \in Nat
      BY <2>1, <1>1
    <3>2. j \in 1..Len(p) /\ (k \in 1..Len(p) \/ k = Len(p) + 1)
      BY <3>1, <2>4
    <3> QED  BY <3>2, <2>1, <2>4 DEF Collected
  <2>5. Collected(l, kind, n, q)
    BY <2>1, <2>2, <2>3, <2>4 DEF Collected
  <2> QED  BY <2>5, <1>2 DEF q
<1>3. CASE l[n] # kind
  <2>1. \A e \in 1..n : l[e] = kind => e \in 1..(n - 1)
    BY <1>3
  <2>2. Collected(l, kind, n, p)
    BY <1>1, <2>1 DEF Collected
  <2> QED  BY <2>2, <1>3
<1> QED  BY <1>2, <1>3

\* filter(entries, kind) returns exactly the entries of that kind, in their order.
THEOREM FilterCorrect ==
  ASSUME NEW S, NEW l \in Seq(S), NEW kind
  PROVE  Collected(l, kind, Len(l), Filter(l, kind))
<1> DEFINE g == CHOOSE out : out = [i \in 0..Len(l) |-> FilterStep(l, kind, out, i)]
<1>0. Len(l) \in Nat
  OBVIOUS
<1>1. g = [i \in 0..Len(l) |-> FilterStep(l, kind, g, i)]
  BY <1>0, FilterExists, Zenon
<1>2. Filter(l, kind) = g[Len(l)]
  BY Zenon DEF Filter, FilterStep
<1> HIDE DEF g
<1>3. \A i \in 0..Len(l) : g[i] = FilterStep(l, kind, g, i)
  BY <1>1
<1> DEFINE Bad == {i \in 0..Len(l) : ~Collected(l, kind, i, g[i])}
<1>4. Bad = {}
  <2> SUFFICES ASSUME Bad # {} PROVE FALSE
    OBVIOUS
  <2>1. PICK i \in Bad : \A k \in Bad : i <= k
    <3> Bad \subseteq Nat
      BY <1>0
    <3> HIDE DEF Bad
    <3> QED  BY LeastNat
  <2>2. CASE i = 0
    <3>1. g[i] = << >>
      BY <2>2, <1>3, <1>0 DEF FilterStep
    <3>2. Collected(l, kind, 0, << >>)
      BY DEF Collected
    <3> QED  BY <3>1, <3>2, <2>2
  <2>3. CASE i # 0
    <3>1. i \in Nat /\ i \in 0..Len(l) /\ i - 1 \in 0..Len(l)
      BY <2>3, <1>0
    <3>2. Collected(l, kind, i - 1, g[i - 1])
      BY <2>1, <3>1, <1>0
    <3>3. g[i] = IF l[i] = kind THEN Append(g[i - 1], i) ELSE g[i - 1]
      BY <2>3, <3>1, <1>3 DEF FilterStep
    <3>4. Collected(l, kind, i, g[i])
      BY <3>1, <3>2, <3>3, <2>3, FilterTurn
    <3> QED  BY <3>4
  <2> QED  BY <2>2, <2>3
<1>5. Collected(l, kind, Len(l), g[Len(l)])
  BY <1>4, <1>0
<1> QED  BY <1>5, <1>2

-----------------------------------------------------------------------------
(* Lists of callbacks                                                      *)

\* What dispatch filters out of a snapshot are lists of entry numbers, and
\* there is a first replace when there are replaces.
LEMMA FilteredLists ==
  ASSUME PairTyped
  PROVE  /\ \A kind : Filter(list, kind) \in Seq(Int)
         /\ Reverse(Filter(list, "AFTER")) \in Seq(Int)
         /\ HasReplace => Filter(list, "REPLACE") # << >>
<1>1. ASSUME NEW kind  PROVE  Filter(list, kind) \in Seq(Int)
  <2>1. Filter(list, kind) \in Seq(1..Len(list))
    BY FilterCorrect DEF PairTyped, Collected
  <2>2. 1..Len(list) \subseteq Int
    OBVIOUS
  <2> QED  BY <2>1, <2>2, SeqMonotonic
<1>2. ASSUME NEW s \in Seq(Int)  PROVE  Reverse(s) \in Seq(Int)
  <2>1. \A i \in 1..Len(s) : s[(Len(s) - i) + 1] \in Int
    <3> TAKE i \in 1..Len(s)
    <3>1. (Len(s) - i) + 1 \in 1..Len(s)
      OBVIOUS
    <3> QED  BY <3>1
  <2> QED  BY <2>1, IsASeq DEF Reverse
<1>3. ASSUME HasReplace  PROVE  Filter(list, "REPLACE") # << >>
  <2>1. PICK i \in 1..Len(list) : list[i] = "REPLACE"
    BY <1>3 DEF HasReplace, PairTyped
  <2>2. \E j \in 1..Len(Filter(list, "REPLACE")) : TRUE
    BY <2>1, FilterCorrect DEF PairTyped, Collected
  <2> QED  BY <2>2
<1> QED  BY <1>1, <1>2, <1>3

\* Entering a callback moves it from what is left to what has run.
LEMMA EnterMoves ==
  ASSUME NEW r \in Seq(Int), NEW q \in Seq(Int), q # << >>
  PROVE  /\ Append(r, Head(q)) \in Seq(Int)
         /\ Append(r, Head(q)) \o Tail(q) = r \o q
         /\ Append(r, Head(q)) # << >>
         /\ Append(r, Head(q))[Len(Append(r, Head(q)))] = Head(q)
<1>1. Head(q) \in Int /\ Tail(q) \in Seq(Int) /\ q = <<Head(q)>> \o Tail(q)
  BY HeadTailProperties
<1>2. Append(r, Head(q)) = r \o <<Head(q)>>
  BY <1>1, AppendIsConcat
<1>3. (r \o <<Head(q)>>) \o Tail(q) = r \o (<<Head(q)>> \o Tail(q))
  BY <1>1, ConcatAssociative
<1>4. Append(r, Head(q)) \o Tail(q) = r \o q
  BY <1>1, <1>2, <1>3
<1>5. /\ Append(r, Head(q)) \in Seq(Int) /\ Append(r, Head(q)) # << >>
      /\ Len(Append(r, Head(q))) = Len(r) + 1
      /\ Append(r, Head(q))[Len(r) + 1] = Head(q)
  BY <1>1, AppendProperties
<1> QED  BY <1>4, <1>5

\* What has run is the beginning of all there is to run.
LEMMA RanIsPrefix ==
  ASSUME NEW r \in Seq(Int), NEW q \in Seq(Int)
  PROVE  IsPrefix(r, r \o q)
<1>1. Len(r) \in Nat /\ Len(q) \in Nat /\ Len(r \o q) = Len(r) + Len(q)
  BY ConcatProperties
<1>2. SubSeq(r, 1, Len(r)) = r /\ SubSeq(r \o q, 1, Len(r)) = r
  BY SubSeqFull, SubSeqOfConcat1, ConcatProperties
<1> QED  BY <1>1, <1>2 DEF IsPrefix

-----------------------------------------------------------------------------
(* Every step of a dispatch preserves PairInv.                             *)

\* Start fills the queue of the first loop.
LEMMA StartPair == PairInv /\ Start => PairInv'
<1> SUFFICES ASSUME PairInv, Start PROVE PairInv'
  OBVIOUS
<1> USE DEF PairInv
<1>1. DispatchInv'
  BY NextInv DEF DispatchNext
<1>2. /\ phase = "start" /\ list' = list /\ ran' = ran /\ param' = param
      /\ setBefore' = setBefore /\ calls' = calls /\ proceeds' = proceeds /\ ran = << >>
      /\ HasReplace' = HasReplace
  BY DEF Start, inputs, history, LoopInv, HasReplace
<1>3. /\ \A kind : Filter(list, kind) \in Seq(Int)
      /\ HasReplace => Filter(list, "REPLACE") # << >>
  BY FilteredLists
<1>4. \A s \in Seq(Int) : << >> \o s = s
  BY ConcatEmptySeq
<1>5. CASE HasReplace
  <2>1. phase' = "replace" /\ queue' = Filter(list, "REPLACE")
    BY <1>5 DEF Start
  <2>2. PairTyped' /\ LoopInv'
    BY <1>2, <1>3, <1>4, <1>5, <2>1 DEF PairTyped, LoopInv, Left
  <2>3. SkipInv' /\ ChainInv' /\ CallbacksPaired'
    BY <1>2, <2>1 DEF SkipInv, ChainInv, CallbacksPaired
  <2> QED  BY <1>1, <2>2, <2>3
<1>6. CASE ~HasReplace
  <2>1. phase' = "before" /\ queue' = Filter(list, "BEFORE")
    BY <1>6 DEF Start
  <2>2. PairTyped' /\ LoopInv'
    BY <1>2, <1>3, <1>4, <1>6, <2>1 DEF PairTyped, LoopInv, Left
  <2>3. SkipInv' /\ ChainInv' /\ CallbacksPaired'
    BY <1>2, <2>1 DEF SkipInv, ChainInv, CallbacksPaired
  <2> QED  BY <1>1, <2>2, <2>3
<1> QED  BY <1>5, <1>6

\* Entering a replace, or a BEFORE or AFTER, moves it to ran.
LEMMA EnterPair == PairInv /\ (ReplaceEnter \/ CallbackEnter) => PairInv'
<1> SUFFICES ASSUME PairInv, ReplaceEnter \/ CallbackEnter PROVE PairInv'
  OBVIOUS
<1> USE DEF PairInv
<1>1. DispatchInv'
  BY NextInv DEF DispatchNext
<1>2. /\ list' = list /\ queue' = queue /\ param' = param /\ setBefore' = setBefore
      /\ calls' = calls /\ proceeds' = proceeds /\ ran' = Append(ran, Head(queue))
      /\ queue # << >> /\ HasReplace' = HasReplace
  BY DEF ReplaceEnter, CallbackEnter, inputs, HasReplace
<1>3. \/ phase = "replace" /\ phase' = "inReplace"
      \/ phase = "before" /\ phase' = "inBefore"
      \/ phase = "after" /\ phase' = "inAfter"
  BY DEF ReplaceEnter, CallbackEnter
<1>4. ran \in Seq(Int) /\ queue \in Seq(Int)
  BY DEF PairTyped
<1>5. /\ ran' \in Seq(Int) /\ ran' \o Tail(queue) = ran \o queue
      /\ ran' # << >> /\ ran'[Len(ran')] = Head(queue)
  BY <1>2, <1>4, EnterMoves
<1>6. PairTyped'
  BY <1>2, <1>5 DEF PairTyped
<1>7. LoopInv'
  <2>1. Left = queue /\ Left' = Tail(queue) /\ BeforesThenAfters' = BeforesThenAfters
    BY <1>2, <1>3 DEF Left, BeforesThenAfters
  <2> QED  BY <1>2, <1>3, <1>5, <2>1 DEF LoopInv
<1>8. SkipInv' /\ CallbacksPaired'
  BY <1>2, <1>3 DEF SkipInv, CallbacksPaired
<1>9. ChainInv'
  <2>1. CASE phase = "replace"
    <3>1. /\ Len(ran') = Len(ran) + 1 /\ Len(ran) \in Nat
          /\ \A j \in 1..Len(ran) : ran'[j] = ran[j]
      <4>1. Head(queue) \in Int
        BY <1>2, <1>4
      <4> QED  BY <1>2, <1>4, <4>1, AppendProperties
    <3>2. ASSUME param.proceeded  PROVE  \E j \in 1..Len(ran) : ran'[j] \in proceeds
      BY <2>1, <3>1, <3>2 DEF ChainInv
    <3>3. ASSUME NEW i \in 1..Len(ran)  PROVE  \E j \in 1..i : ran'[j] \in proceeds
      <4>1. CASE i = Len(ran)
        <5>1. ran # << >>
          BY <3>1, <1>4
        <5> QED  BY <4>1, <3>2, <5>1, <2>1 DEF ChainInv
      <4>2. CASE i # Len(ran)
        <5>1. i \in 1..(Len(ran) - 1)
          BY <4>2, <3>1
        <5>2. PICK j \in 1..i : ran[j] \in proceeds
          BY <5>1, <2>1 DEF ChainInv
        <5>3. j \in 1..Len(ran)
          BY <5>1, <3>1
        <5> QED  BY <5>2, <5>3, <3>1
      <4> QED  BY <4>1, <4>2
    <3>4. Len(ran') - 1 = Len(ran)
      BY <3>1
    <3>5. param.proceeded => \E j \in 1..Len(ran') : ran'[j] \in proceeds
      <4> HAVE param.proceeded
      <4>1. PICK j \in 1..Len(ran) : ran'[j] \in proceeds
        BY <3>2
      <4>2. j \in 1..Len(ran')
        BY <3>1
      <4> QED  BY <4>1, <4>2
    <3> QED  BY <1>2, <1>3, <2>1, <3>3, <3>4, <3>5 DEF ChainInv
  <2>2. CASE phase # "replace"
    BY <2>2, <1>3 DEF ChainInv
  <2> QED  BY <2>1, <2>2
<1> QED  BY <1>1, <1>6, <1>7, <1>8, <1>9

\* proceed() marks the replace that runs, which is the last of ran.
LEMMA ProceedPair == PairInv /\ Proceed => PairInv'
<1> SUFFICES ASSUME PairInv, Proceed PROVE PairInv'
  OBVIOUS
<1> USE DEF PairInv
<1>1. DispatchInv'
  BY NextInv DEF DispatchNext
<1>2. /\ phase = "inReplace" /\ phase' = phase /\ list' = list /\ queue' = queue
      /\ ran' = ran /\ setBefore' = setBefore /\ HasReplace' = HasReplace
  BY DEF Proceed, inputs, HasReplace
<1>3. CASE param.proceeded
  <2>1. param' = param /\ calls' = calls /\ proceeds \subseteq proceeds'
    BY <1>3 DEF Proceed
  <2>2. PairTyped' /\ LoopInv'
    BY <1>2, <2>1 DEF PairTyped, LoopInv, Left, BeforesThenAfters
  <2>3. SkipInv' /\ ChainInv' /\ CallbacksPaired'
    BY <1>2, <2>1 DEF SkipInv, ChainInv, CallbacksPaired
  <2> QED  BY <1>1, <2>2, <2>3
<1>4. CASE ~param.proceeded
  <2>1. proceeds' = proceeds \cup {Head(queue)}
    BY <1>4 DEF Proceed
  <2>2. DOMAIN param' = DOMAIN param /\ param'.skip = param.skip /\ param'.proceeded = TRUE
    <3>1. PICK v : param' = [param EXCEPT !.proceeded = TRUE, !.result = v]
      BY <1>4 DEF Proceed
    <3> QED  BY <3>1 DEF PairTyped
  <2>3. PairTyped' /\ LoopInv'
    BY <1>2, <2>2 DEF PairTyped, LoopInv, Left, BeforesThenAfters
  <2>4. SkipInv' /\ CallbacksPaired'
    BY <1>2 DEF SkipInv, CallbacksPaired
  <2>5. ran[Len(ran)] \in proceeds' /\ Len(ran) \in 1..Len(ran)
    BY <1>2, <2>1 DEF LoopInv, PairTyped
  <2>6. \A i \in 1..(Len(ran) - 1) : \E j \in 1..i : ran[j] \in proceeds'
    BY <1>2, <2>1 DEF ChainInv
  <2>7. ChainInv'
    BY <1>2, <2>5, <2>6 DEF ChainInv
  <2> QED  BY <1>1, <2>3, <2>4, <2>7
<1> QED  BY <1>3, <1>4

\* A replace that is left leaves a prefix of the replaces behind it.
LEMMA ReplaceLeft ==
  ASSUME PairInv, phase = "inReplace"
  PROVE  /\ HasReplace /\ ran # << >> /\ IsPrefix(ran, Filter(list, "REPLACE"))
         /\ \A i \in 1..(Len(ran) - 1) : \E j \in 1..i : ran[j] \in proceeds
         /\ Tail(queue) \in Seq(Int)
<1> USE DEF PairInv
<1>1. queue \in Seq(Int) /\ queue # << >> /\ ran \in Seq(Int)
  BY DEF PairTyped, LoopInv
<1>2. Tail(queue) \in Seq(Int)
  BY <1>1
<1>3. ran \o Tail(queue) = Filter(list, "REPLACE") /\ HasReplace /\ ran # << >>
  BY DEF LoopInv, Left
<1> QED  BY <1>1, <1>2, <1>3, RanIsPrefix DEF ChainInv

\* The replace loop goes on or ends.
LEMMA ReplaceEndPair == PairInv /\ (ReplaceReturn \/ ReplaceThrow) => PairInv'
<1> SUFFICES ASSUME PairInv, ReplaceReturn \/ ReplaceThrow PROVE PairInv'
  OBVIOUS
<1> USE DEF PairInv
<1>1. DispatchInv'
  BY NextInv DEF DispatchNext
<1>2. /\ phase = "inReplace" /\ list' = list /\ param' = param
      /\ ran' = ran /\ calls' = calls /\ proceeds' = proceeds
      /\ setBefore' = setBefore /\ HasReplace' = HasReplace
  BY DEF ReplaceReturn, ReplaceThrow, inputs, history, HasReplace
<1>3. \/ phase' = "replace" /\ queue' = Tail(queue) /\ param.proceeded /\ Tail(queue) # << >>
      \/ phase' = "done" /\ queue' = << >>
  BY DEF ReplaceReturn, ReplaceThrow, Leave
<1>4. /\ HasReplace /\ ran # << >> /\ IsPrefix(ran, Filter(list, "REPLACE"))
      /\ \A i \in 1..(Len(ran) - 1) : \E j \in 1..i : ran[j] \in proceeds
      /\ Tail(queue) \in Seq(Int)
  BY <1>2, ReplaceLeft
<1>5. PairTyped'
  <2>0. << >> \in Seq(Int)
    OBVIOUS
  <2>1. queue' \in Seq(Int)
    BY <1>3, <1>4, <2>0, Zenon
  <2> QED  BY <1>2, <2>1 DEF PairTyped
<1>6. LoopInv'
  BY <1>2, <1>3, <1>4 DEF LoopInv, Left
<1>7. SkipInv' /\ ChainInv'
  BY <1>2, <1>3 DEF SkipInv, ChainInv
<1>8. CallbacksPaired'
  <2>1. ran \in Seq(Int) /\ Len(ran) \in Nat /\ Len(ran) # 0
    BY <1>4 DEF PairTyped
  <2>2. ran[1] \notin proceeds => Len(ran) = 1
    <3> SUFFICES ASSUME Len(ran) # 1 PROVE ran[1] \in proceeds
      OBVIOUS
    <3>0. \A n \in Nat : n # 0 /\ n # 1 => 1 \in 1..(n - 1)
      OBVIOUS
    <3>1. 1 \in 1..(Len(ran) - 1)
      BY <2>1, <3>0, Zenon
    <3>2. PICK j \in 1..1 : ran[j] \in proceeds
      BY <1>4, <3>1
    <3>3. j = 1
      OBVIOUS
    <3> QED BY <3>2, <3>3
  <2> QED BY <1>2, <1>3, <1>4, <2>2 DEF CallbacksPaired
<1> QED  BY <1>1, <1>5, <1>6, <1>7, <1>8

\* setResult and setThrowable set skip, and setBefore with it.
LEMMA SetPair == PairInv /\ (SetResult \/ SetThrowable) => PairInv'
<1> SUFFICES ASSUME PairInv, SetResult \/ SetThrowable PROVE PairInv'
  OBVIOUS
<1> USE DEF PairInv
<1>1. DispatchInv'
  BY NextInv DEF DispatchNext
<1>2. /\ phase \in {"inBefore", "inAfter", "inReplace"} /\ phase' = phase /\ list' = list
      /\ queue' = queue /\ ran' = ran /\ calls' = calls /\ proceeds' = proceeds
      /\ setBefore' = (setBefore \/ phase = "inBefore") /\ HasReplace' = HasReplace
  BY DEF SetResult, SetThrowable, inputs, HasReplace
<1>3. /\ DOMAIN param' = DOMAIN param /\ param'.skip = TRUE
      /\ param'.proceeded = param.proceeded
      /\ param'.throwable \in {param.throwable, "set", NoThrow}
  BY DEF SetResult, SetThrowable, PairTyped
<1>4. setBefore' \in BOOLEAN /\ (phase = "inBefore" => setBefore') /\ (phase # "inBefore" => setBefore' = setBefore)
  BY <1>2 DEF PairTyped
<1>5. PairTyped'
  <2>1. list' \in Seq(Kinds) /\ queue' \in Seq(Int) /\ ran' \in Seq(Int)
    BY <1>2 DEF PairTyped
  <2>2. param'.skip \in BOOLEAN /\ param'.proceeded \in BOOLEAN
    BY <1>3, Zenon DEF PairTyped
  <2> QED  BY <1>3, <1>4, <2>1, <2>2, Zenon DEF PairTyped
<1>6. LoopInv'
  BY <1>2 DEF LoopInv, Left, BeforesThenAfters
<1>7. SkipInv'
  BY <1>2, <1>3, <1>4 DEF SkipInv
<1>8. ChainInv' /\ CallbacksPaired'
  BY <1>2, <1>3 DEF ChainInv, CallbacksPaired
<1> QED  BY <1>1, <1>5, <1>6, <1>7, <1>8

\* A BEFORE or AFTER ends, by returning or by an exception that is dropped.
LEMMA CallbackEndPair == PairInv /\ (CallbackReturn \/ CallbackThrow) => PairInv'
<1> SUFFICES ASSUME PairInv, CallbackReturn \/ CallbackThrow PROVE PairInv'
  OBVIOUS
<1> USE DEF PairInv
<1>1. DispatchInv'
  BY NextInv DEF DispatchNext
<1>2. /\ list' = list /\ param' = param /\ ran' = ran /\ calls' = calls
      /\ proceeds' = proceeds /\ setBefore' = setBefore /\ HasReplace' = HasReplace
      /\ queue' = Tail(queue)
  BY DEF CallbackReturn, CallbackThrow, inputs, history, HasReplace
<1>3. \/ phase = "inBefore" /\ phase' = "before"
      \/ phase = "inAfter" /\ phase' = "after"
  BY DEF CallbackReturn, CallbackThrow
<1>4. Tail(queue) \in Seq(Int)
  BY <1>3 DEF PairTyped, LoopInv
<1>5. PairTyped'
  BY <1>2, <1>4 DEF PairTyped
<1>6. LoopInv'
  BY <1>2, <1>3 DEF LoopInv, Left, BeforesThenAfters
<1>7. SkipInv' /\ ChainInv' /\ CallbacksPaired'
  BY <1>2, <1>3 DEF SkipInv, ChainInv, CallbacksPaired
<1> QED  BY <1>1, <1>5, <1>6, <1>7

\* The original has its turn, unless a BEFORE skipped it; the AFTERs are queued.
LEMMA InvokePair == PairInv /\ Invoke => PairInv'
<1> SUFFICES ASSUME PairInv, Invoke PROVE PairInv'
  OBVIOUS
<1> USE DEF PairInv
<1>1. DispatchInv'
  BY NextInv DEF DispatchNext
<1>2. /\ phase = "before" /\ queue = << >> /\ phase' = "after" /\ list' = list
      /\ queue' = Reverse(Filter(list, "AFTER")) /\ ran' = ran /\ proceeds' = proceeds
      /\ setBefore' = setBefore /\ HasReplace' = HasReplace /\ calls = 0
  BY DEF Invoke, inputs, HasReplace, DispatchInv, CountInv
<1>3. /\ DOMAIN param' = DOMAIN param /\ param'.skip = param.skip
      /\ param'.proceeded = param.proceeded
      /\ param'.throwable \in {param.throwable, "original"}
      /\ calls' = IF param.skip THEN 0 ELSE 1
  <2>1. CASE param.skip
    BY <1>2, <2>1 DEF Invoke
  <2>2. CASE ~param.skip
    <3>1. PICK o \in OriginalOutcomes :
             /\ calls' = calls + 1
             /\ param' = IF o.how = "return" THEN [param EXCEPT !.result = o.val]
                                             ELSE [param EXCEPT !.throwable = o.ex]
      BY <2>2 DEF Invoke
    <3>2. o.how = "return" \/ (o.how = "throw" /\ o.ex = "original")
      BY DEF OriginalOutcomes, Returned, Threw
    <3>3. calls' = 1
      BY <3>1, <1>2
    <3>4. /\ DOMAIN param' = DOMAIN param /\ param'.skip = param.skip
          /\ param'.proceeded = param.proceeded
          /\ param'.throwable \in {param.throwable, "original"}
      BY <3>1, <3>2 DEF PairTyped
    <3> QED  BY <2>2, <3>3, <3>4
  <2> QED  BY <2>1, <2>2
<1>4. /\ Filter(list, "BEFORE") \in Seq(Int)
      /\ Reverse(Filter(list, "AFTER")) \in Seq(Int)
  BY FilteredLists
<1>5. PairTyped'
  BY <1>2, <1>3, <1>4 DEF PairTyped
<1>6. LoopInv'
  <2>1. ran \o << >> = Filter(list, "BEFORE") /\ ran \in Seq(Int)
    BY <1>2 DEF LoopInv, Left, PairTyped
  <2>2. ran = Filter(list, "BEFORE")
    BY <2>1, ConcatEmptySeq
  <2>3. ran' \o Left' = BeforesThenAfters'
    BY <1>2, <2>2 DEF Left, BeforesThenAfters
  <2> QED  BY <1>2, <2>3 DEF LoopInv
<1>7. SkipInv'
  BY <1>2, <1>3 DEF SkipInv, PairTyped
<1>8. ChainInv' /\ CallbacksPaired'
  BY <1>2 DEF ChainInv, CallbacksPaired
<1> QED  BY <1>1, <1>5, <1>6, <1>7, <1>8

\* The call ends with everything run.
LEMMA EndPair == PairInv /\ End => PairInv'
<1> SUFFICES ASSUME PairInv, End PROVE PairInv'
  OBVIOUS
<1> USE DEF PairInv
<1>1. DispatchInv'
  BY NextInv DEF DispatchNext
<1>2. /\ phase = "after" /\ queue = << >> /\ phase' = "done" /\ list' = list
      /\ queue' = << >> /\ ran' = ran /\ proceeds' = proceeds /\ calls' = calls
      /\ param' = param /\ setBefore' = setBefore /\ HasReplace' = HasReplace
  BY DEF End, Leave, inputs, history, HasReplace
<1>3. outcome'.ex \in {NoThrow, param.throwable}
  BY DEF End, Leave, Returned, Threw
<1>4. PairTyped' /\ LoopInv' /\ SkipInv' /\ ChainInv'
  BY <1>2 DEF PairTyped, LoopInv, SkipInv, ChainInv
<1>5. ran = Filter(list, "BEFORE") \o Reverse(Filter(list, "AFTER"))
  <2>1. ran \o << >> = BeforesThenAfters /\ ran \in Seq(Int)
    BY <1>2 DEF LoopInv, Left, PairTyped
  <2> QED  BY <2>1, ConcatEmptySeq DEF BeforesThenAfters
<1>6. ~HasReplace /\ (calls = 1 <=> ~setBefore)
  BY <1>2 DEF LoopInv, SkipInv
<1>7. outcome'.ex \notin {"callback", "proceedTwice"}
  BY <1>2, <1>3 DEF SkipInv, NoThrow
<1>8. CallbacksPaired'
  BY <1>2, <1>5, <1>6, <1>7 DEF CallbacksPaired
<1> QED  BY <1>1, <1>4, <1>8

\* PairInv holds throughout every dispatch.
THEOREM PairInvariance == DispatchSpec => []PairInv
<1>1. DispatchInit => PairInv
  <2> SUFFICES ASSUME DispatchInit PROVE PairInv
    OBVIOUS
  <2>1. DispatchInv
    BY DEF DispatchInit, DispatchInv, CountInv, ExceptionInv, OriginalExceptionKept
  <2>2. list \in Seq(Kinds)
    BY MaxListAssumption DEF DispatchInit
  <2>3. PairTyped
    <3>1. << >> \in Seq(Int)
      OBVIOUS
    <3>2. DOMAIN param = {"result", "throwable", "skip", "proceeded"}
          /\ param.skip = FALSE /\ param.proceeded = FALSE
      BY DEF DispatchInit
    <3>3. queue = << >> /\ ran = << >> /\ setBefore = FALSE
      BY DEF DispatchInit
    <3> QED  BY <2>2, <3>1, <3>2, <3>3, Zenon DEF PairTyped
  <2>4. LoopInv /\ SkipInv /\ CallbacksPaired
    BY DEF DispatchInit, LoopInv, SkipInv, CallbacksPaired
  <2>5. ChainInv
    BY DEF DispatchInit, ChainInv
  <2> QED  BY <2>1, <2>3, <2>4, <2>5 DEF PairInv
<1>2. PairInv /\ [DispatchNext]_dispatchVars => PairInv'
  <2> SUFFICES ASSUME PairInv, [DispatchNext]_dispatchVars PROVE PairInv'
    OBVIOUS
  <2>1. CASE UNCHANGED dispatchVars
    <3>1. DispatchInv'
      BY NextInv DEF PairInv
    <3>2. (PairTyped /\ LoopInv /\ SkipInv /\ ChainInv)'
      BY <2>1 DEF dispatchVars, PairInv, PairTyped, LoopInv, SkipInv, ChainInv,
                  HasReplace, Left, BeforesThenAfters
    <3>3. CallbacksPaired'
      BY <2>1 DEF dispatchVars, PairInv, CallbacksPaired, HasReplace
    <3> QED  BY <3>1, <3>2, <3>3 DEF PairInv
  <2> QED
    BY <2>1, StartPair, EnterPair, ProceedPair, ReplaceEndPair, SetPair, CallbackEndPair,
       InvokePair, EndPair DEF DispatchNext, Done
<1> QED  BY <1>1, <1>2, PTL DEF DispatchSpec

\* Befores, original and afters pair up, and replaces stop at the first that
\* does not proceed, for snapshots of any length and whatever callbacks do.
THEOREM Paired == DispatchSpec => []CallbacksPaired
<1>1. PairInv => CallbacksPaired
  BY DEF PairInv
<1> QED  BY <1>1, PairInvariance, PTL
=============================================================================
