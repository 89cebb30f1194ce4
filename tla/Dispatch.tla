------------------------------ MODULE Dispatch ------------------------------
(***************************************************************************)
(* One call of CoreEngineImpl.dispatch: how the callbacks of a snapshot    *)
(* and the original method make up the outcome the host sees.              *)
(*                                                                         *)
(* A callback is client code: while it runs it may use the CoreParam or    *)
(* CoreChain it was given any number of times, and then return or throw.   *)
(* Arguments, receivers and extras are carried through unchanged and are   *)
(* left out.  The snapshot is in dispatch order (module CoreEngine).       *)
(***************************************************************************)
EXTENDS Integers, SequencesExt

CONSTANT MaxList   \* bound: entries of a snapshot

ASSUME MaxListAssumption == MaxList \in Nat

Kinds == {"BEFORE", "AFTER", "REPLACE"}

\* Results: the number of the callback that supplied the value, Original for
\* what the original method returned, Unset for the sentinel UNSET.
Original == 0
Unset    == -1
NullRet  == -2   \* what cast() makes of the result of a void method
Results  == {Unset, Original} \cup 1..MaxList

\* Throwables: of the original method, set by setThrowable, thrown by a
\* callback, thrown by proceed(), and null.
Throwables == {"original", "set", "callback", "proceedTwice"}
NoThrow    == "null"

VARIABLES
    list,      \* kinds of the snapshot's entries, in dispatch order
    void,      \* the member is a constructor or returns void
    phase,     \* the loop of dispatch that is executing
    queue,     \* entries (numbers) the current loop has still to run
    param,     \* the ParamImpl: result, throwable, skip, proceeded
    got,       \* what the running replace got from its last proceed()
    chainRes,  \* local variable result of the replace loop
    outcome,   \* what the host's call returned or threw
    ran,       \* history: callbacks run so far
    calls,     \* history: how often the original was invoked
    proceeds,  \* history: replaces that have called proceed()
    origThrew, \* history: the original threw
    setBefore, \* history: a BEFORE called setResult or setThrowable
    nullThrow  \* history: somebody called setThrowable(null)

dispatchVars == <<list, void, phase, queue, param, got, chainRes, outcome,
          ran, calls, proceeds, origThrew, setBefore, nullThrow>>
inputs  == <<list, void>>
history == <<ran, calls, proceeds, origThrew, setBefore, nullThrow>>

-----------------------------------------------------------------------------
\* filter(entries, kind): the numbers of the entries, collected one by one
Filter(entries, kind) ==
    LET out[i \in 0..Len(entries)] ==
            IF i = 0 THEN << >>
            ELSE IF entries[i] = kind THEN Append(out[i - 1], i) ELSE out[i - 1]
    IN  out[Len(entries)]

\* !replaces.isEmpty()
HasReplace == \E i \in DOMAIN list : list[i] = "REPLACE"

\* cast(member, result)
Cast(result) == IF void THEN NullRet ELSE result

NoOutcome   == [how |-> "none", val |-> Unset, ex |-> NoThrow]
Returned(v) == [how |-> "return", val |-> v, ex |-> NoThrow]
Threw(x)    == [how |-> "throw", val |-> Unset, ex |-> x]

DispatchInit ==
    /\ list \in UNION {[1..n -> Kinds] : n \in 0..MaxList}
    /\ void \in BOOLEAN
    /\ phase = "start"
    /\ queue = << >>
    /\ param = [result |-> Unset, throwable |-> NoThrow, skip |-> FALSE, proceeded |-> FALSE]
    /\ got = NoOutcome
    /\ chainRes = Unset
    /\ outcome = NoOutcome
    /\ ran = << >>
    /\ calls = 0
    /\ proceeds = {}
    /\ origThrew = FALSE
    /\ setBefore = FALSE
    /\ nullThrow = FALSE

\* Replaces, if there are any, keep every BEFORE and AFTER from running.
Start ==
    /\ phase = "start"
    /\ IF HasReplace
       THEN phase' = "replace" /\ queue' = Filter(list, "REPLACE")
       ELSE phase' = "before" /\ queue' = Filter(list, "BEFORE")
    /\ UNCHANGED <<inputs, param, got, chainRes, outcome, history>>

Leave(o) == phase' = "done" /\ outcome' = o /\ queue' = << >>

\* The original method returns a value or throws.
OriginalOutcomes == {Returned(Original), Threw("original")}

-----------------------------------------------------------------------------
(* The replace loop.                                                       *)

ReplaceEnter ==
    /\ phase = "replace"
    /\ queue # << >>
    /\ phase' = "inReplace"
    /\ ran' = Append(ran, Head(queue))
    /\ got' = NoOutcome
    /\ UNCHANGED <<inputs, queue, param, chainRes, outcome,
                   calls, proceeds, origThrew, setBefore, nullThrow>>

\* Fault: proceed() may be called once by each replace.
ProceedPerReplace ==
    /\ phase = "inReplace"
    /\ \E o \in OriginalOutcomes :
          IF Head(queue) \in proceeds
          THEN /\ got' = Threw("proceedTwice")
               /\ UNCHANGED <<param, calls, proceeds, origThrew>>
          ELSE /\ got' = o
               /\ param' = [param EXCEPT !.proceeded = TRUE]
               /\ calls' = calls + 1
               /\ proceeds' = proceeds \cup {Head(queue)}
               /\ origThrew' = (origThrew \/ o.how = "throw")
    /\ UNCHANGED <<inputs, phase, queue, chainRes, outcome, ran, setBefore, nullThrow>>

\* CoreChain.proceed(args), on the ParamImpl all replaces share.
Proceed ==
    /\ phase = "inReplace"
    /\ proceeds' = proceeds \cup {Head(queue)}
    /\ IF param.proceeded
       THEN /\ got' = Threw("proceedTwice")
            /\ UNCHANGED <<param, calls, origThrew>>
       ELSE \E o \in OriginalOutcomes :
            /\ got' = o
            /\ param' = [param EXCEPT !.proceeded = TRUE,
                             !.result = IF o.how = "return" THEN o.val ELSE @]
            /\ calls' = calls + 1
            /\ origThrew' = (o.how = "throw")
    /\ UNCHANGED <<inputs, phase, queue, chainRes, outcome, ran, setBefore, nullThrow>>

\* A replace returns its own value or the one proceed() gave it; the loop goes
\* on while `proceeded` is set, no matter which replace has set it.
ReplaceReturn ==
    /\ phase = "inReplace"
    /\ \E v \in {Head(queue)} \cup (IF got.how = "return" THEN {got.val} ELSE {}) :
          /\ chainRes' = v
          /\ IF param.proceeded /\ Tail(queue) # << >>
             THEN phase' = "replace" /\ queue' = Tail(queue) /\ UNCHANGED outcome
             ELSE Leave(Returned(Cast(v)))
    /\ UNCHANGED <<inputs, param, got, history>>

\* An exception of a replace is the outcome of the call.
ReplaceThrow ==
    /\ phase = "inReplace"
    /\ \E x \in {"callback"} \cup (IF got.how = "throw" THEN {got.ex} ELSE {}) :
          Leave(Threw(x))
    /\ UNCHANGED <<inputs, param, got, chainRes, history>>

-----------------------------------------------------------------------------
(* What callbacks do; the before loop, the original, the after loop.       *)

CallbackEnter ==
    /\ phase \in {"before", "after"}
    /\ queue # << >>
    /\ phase' = IF phase = "before" THEN "inBefore" ELSE "inAfter"
    /\ ran' = Append(ran, Head(queue))
    /\ UNCHANGED <<inputs, queue, param, got, chainRes, outcome,
                   calls, proceeds, origThrew, setBefore, nullThrow>>

\* CoreParam.setResult: leaves a throwable that is set alone.  A CoreChain is a
\* CoreParam too, but the replace loop never looks at what was set.
SetResult ==
    /\ phase \in {"inBefore", "inAfter", "inReplace"}
    /\ param' = [param EXCEPT !.result = Head(queue), !.skip = TRUE]
    /\ setBefore' = (setBefore \/ phase = "inBefore")
    /\ UNCHANGED <<inputs, phase, queue, got, chainRes, outcome,
                   ran, calls, proceeds, origThrew, nullThrow>>

\* CoreParam.setThrowable, also with null.
SetThrowable ==
    /\ phase \in {"inBefore", "inAfter", "inReplace"}
    /\ \E x \in {"set", NoThrow} :
          /\ param' = [param EXCEPT !.throwable = x, !.skip = TRUE]
          /\ nullThrow' = (nullThrow \/ x = NoThrow)
    /\ setBefore' = (setBefore \/ phase = "inBefore")
    /\ UNCHANGED <<inputs, phase, queue, got, chainRes, outcome,
                   ran, calls, proceeds, origThrew>>

\* Fault: the before loop ends with the first callback that sets something.
CallbackReturnBreak ==
    /\ phase \in {"inBefore", "inAfter"}
    /\ phase' = IF phase = "inBefore" THEN "before" ELSE "after"
    /\ queue' = IF phase = "inBefore" /\ param.skip THEN << >> ELSE Tail(queue)
    /\ UNCHANGED <<inputs, param, got, chainRes, outcome, history>>

CallbackReturn ==
    /\ phase \in {"inBefore", "inAfter"}
    /\ phase' = IF phase = "inBefore" THEN "before" ELSE "after"
    /\ queue' = Tail(queue)
    /\ UNCHANGED <<inputs, param, got, chainRes, outcome, history>>

\* The exception of a BEFORE or AFTER is logged and dropped; what the callback
\* had set stays set.
CallbackThrow ==
    /\ phase \in {"inBefore", "inAfter"}
    /\ phase' = IF phase = "inBefore" THEN "before" ELSE "after"
    /\ queue' = Tail(queue)
    /\ UNCHANGED <<inputs, param, got, chainRes, outcome, history>>

\* if (!param.skip) invoke the backup; then run the AFTERs from the last one on.
Invoke ==
    /\ phase = "before"
    /\ queue = << >>
    /\ IF param.skip
       THEN UNCHANGED <<param, calls, origThrew>>
       ELSE \E o \in OriginalOutcomes :
            /\ calls' = calls + 1
            /\ origThrew' = (o.how = "throw")
            /\ param' = IF o.how = "return" THEN [param EXCEPT !.result = o.val]
                                            ELSE [param EXCEPT !.throwable = o.ex]
    /\ phase' = "after"
    /\ queue' = Reverse(Filter(list, "AFTER"))
    /\ UNCHANGED <<inputs, got, chainRes, outcome, ran, proceeds, setBefore, nullThrow>>

\* Fault: the result is returned although a throwable is set.
EndIgnoringThrowable ==
    /\ phase = "after"
    /\ queue = << >>
    /\ Leave(Returned(Cast(param.result)))
    /\ UNCHANGED <<inputs, param, got, chainRes, history>>

\* A throwable that is set beats any result.
End ==
    /\ phase = "after"
    /\ queue = << >>
    /\ Leave(IF param.throwable # NoThrow THEN Threw(param.throwable)
                                           ELSE Returned(Cast(param.result)))
    /\ UNCHANGED <<inputs, param, got, chainRes, history>>

Done == phase = "done" /\ UNCHANGED dispatchVars

DispatchNext ==
    \/ Start
    \/ ReplaceEnter \/ Proceed \/ ReplaceReturn \/ ReplaceThrow
    \/ CallbackEnter \/ SetResult \/ SetThrowable \/ CallbackReturn \/ CallbackThrow
    \/ Invoke \/ End
    \/ Done

DispatchSpec == DispatchInit /\ [][DispatchNext]_dispatchVars

-----------------------------------------------------------------------------
(* Properties                                                              *)

\* However many replaces call proceed(), and however often, one call of the
\* member runs the original at most once (ParamImpl.proceed).
OriginalAtMostOnce == calls <= 1

\* Every BEFORE runs once in dispatch order and every AFTER once in the
\* opposite order, also when a callback throws or a BEFORE skips the original,
\* which otherwise runs; what a callback throws does not reach the host.  With
\* replaces only replaces run, the first ones of the list, and none after the
\* first if that one does not call proceed().  Which of several replaces has the
\* last word is FirstReplaceWins.
CallbacksPaired ==
    phase = "done" =>
        IF ~HasReplace
        THEN /\ ran = Filter(list, "BEFORE") \o Reverse(Filter(list, "AFTER"))
             /\ calls = 1 <=> ~setBefore
             /\ outcome.ex \notin {"callback", "proceedTwice"}
        ELSE /\ ran # << >> /\ IsPrefix(ran, Filter(list, "REPLACE"))
             /\ ran[1] \notin proceeds => Len(ran) = 1

\* What the comment in dispatch and the one on CoreReplace.replace say: a replace
\* that returns without having called proceed() is the last one to run, and the
\* host gets the value it returned.
FirstReplaceWins ==
    phase = "done" /\ HasReplace /\ outcome.how = "return" =>
        \A i \in 1..Len(ran) :
            ran[i] \notin proceeds => i = Len(ran) /\ outcome.val = Cast(ran[i])

\* Without replaces an exception of the original is never lost: AFTERs that set
\* results do not hide it, only setThrowable can.
OriginalExceptionKept ==
    /\ phase = "done"
    /\ ~HasReplace
    /\ origThrew
    /\ outcome.how = "return"
    => nullThrow

-----------------------------------------------------------------------------
(* The inductive invariant behind OriginalAtMostOnce and                   *)
(* OriginalExceptionKept.                                                  *)

\* `proceeded` counts for the replace loop, the phase for the other loops.
CountInv ==
    /\ calls \in {0, 1}
    /\ DOMAIN param = {"result", "throwable", "skip", "proceeded"}
    /\ param.proceeded \in BOOLEAN
    /\ phase \in {"start", "before", "inBefore"} => calls = 0
    /\ phase \in {"start", "replace", "inReplace"} => (calls = 1 <=> param.proceeded)

\* Until somebody calls setThrowable(null), the original's exception stays.
ExceptionInv ==
    /\ phase \in {"replace", "inReplace"} => HasReplace
    /\ phase \in {"start", "before", "inBefore"} => ~origThrew
    /\ phase \in {"after", "inAfter"} /\ origThrew /\ ~nullThrow => param.throwable # NoThrow
    /\ OriginalExceptionKept

DispatchInv == CountInv /\ ExceptionInv
=============================================================================
