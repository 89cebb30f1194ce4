------------------------------ MODULE JniRefs ------------------------------
(***************************************************************************)
(* The JNI helper LSPlant is written with, lsplant_jni/include/utils/      *)
(* jni_helper.hpp: the scoped references, the wrappers of arrays, their    *)
(* elements and strings, and JNI_SafeInvoke, through which every JNI_Xxx   *)
(* function goes.  Its client is any code that uses objects of these       *)
(* classes in nested scopes; Slots are its C++ variables.                  *)
(*                                                                         *)
(* The virtual machine is a table of local references, the buffers it has  *)
(* handed out for arrays and strings, and the pending exception.  A handle *)
(* that was deleted is given out again.                                    *)
(***************************************************************************)
EXTENDS Integers

CONSTANTS
    Slots,  \* variables of the client
    Refs,   \* handles of local references
    Pins,   \* buffers for elements and characters
    Null,   \* no reference and no buffer
    Length  \* length of the object arrays

VARIABLES
    wrap, \* per slot: the object in it
    vm,   \* the virtual machine; bad: it was called in a way JNI forbids
    raw,  \* handles the client holds outside any wrapper
    lost  \* history: handles and buffers an array or string wrapper dropped

jniVars == <<wrap, vm, raw, lost>>

\* kind "object" is ScopedLocalRef<T>, "array" the one of a primitive array,
\* "objects" the one of jobjectArray, "element" JObjectArrayElement and the
\* iterators, "chars" JUTFString.  env: env_ is not null (for "chars", neither
\* is jstr_); i, of: index and array of an element.
Unused == [kind |-> "none", env |-> FALSE, ref |-> Null, pin |-> Null, modified |-> FALSE, i |-> 0, of |-> Null]
New(kind, env) == [Unused EXCEPT !.kind = kind, !.env = env]

Init ==
    /\ wrap = [s \in Slots |-> Unused]
    /\ vm = [live |-> {}, pinned |-> {}, pending |-> "none", bad |-> FALSE]
    /\ raw = {}
    /\ lost = {}

----------------------------------------------------------------------------
\* The virtual machine.  Each operator is what one function of JNIEnv does to v.

\* A function that must not be called while the exception of a call is pending.
Use(v) == [v EXCEPT !.bad = @ \/ v.pending = "call"]

Fresh(v) == IF Refs \subseteq v.live THEN {} ELSE {CHOOSE r \in Refs : r \notin v.live}
DeleteLocalRef(v, env, r) ==
    IF r = Null THEN v ELSE [v EXCEPT !.live = @ \ {r}, !.bad = @ \/ r \notin v.live \/ ~env]
Unpin(v, p) == IF p = Null THEN v ELSE [v EXCEPT !.pinned = @ \ {p}, !.bad = @ \/ p \notin v.pinned]

\* A buffer, or an OutOfMemoryError.
Pin(v, w) ==
    LET free == Pins \ v.pinned
        some == CHOOSE p \in free : TRUE
        full == {[v |-> [Use(v) EXCEPT !.pending = IF @ = "none" THEN "alloc" ELSE @], w |-> w]}
    IN full \cup IF free = {} THEN {}
                 ELSE {[v |-> [Use(v) EXCEPT !.pinned = @ \cup {some}], w |-> [w EXCEPT !.pin = some]]}

\* A reference, null, or null and an exception of the given source.
Call(v, source) ==
    {[v |-> Use(v), r |-> Null], [v |-> [Use(v) EXCEPT !.pending = source], r |-> Null]}
    \cup {[v |-> [Use(v) EXCEPT !.live = @ \cup {r}], r |-> r] : r \in Fresh(v)}

----------------------------------------------------------------------------
\* ScopedLocalRef<T>: reset and release.
ResetObject(v, w, p) ==
    IF p = w.ref THEN [v |-> v, w |-> w]
    ELSE [v |-> DeleteLocalRef(v, w.env, w.ref), w |-> [w EXCEPT !.ref = p]]

\* ReleaseElements: an array that is gone, or has no elements, releases nothing.
ReleaseElements(v, w) == IF w.ref = Null THEN v ELSE Unpin(v, w.pin)

\* reset of a primitive array.  modified_ keeps its value.
ResetArray(v, w, p) ==
    LET gone == DeleteLocalRef(ReleaseElements(v, w), w.env, w.ref)
        next == [w EXCEPT !.ref = p, !.pin = Null]
    IN CASE p = w.ref -> {[v |-> v, w |-> w]}
         [] p # w.ref /\ p = Null -> {[v |-> gone, w |-> next]}
         [] p # w.ref /\ p # Null -> Pin(gone, next)

Reset(v, w, p) == IF w.kind = "array" THEN ResetArray(v, w, p) ELSE {ResetObject(v, w, p)}

\* release.  The array's clears local_ref_ before it calls ReleaseElements, so
\* the elements stay pinned.
Release(v, w) ==
    LET cleared == [w EXCEPT !.ref = Null]
    IN [v |-> IF w.kind = "array" THEN ReleaseElements(v, cleared) ELSE v,
        w |-> [cleared EXCEPT !.pin = Null],
        r |-> w.ref]

\* The destructors.
Destroyed(v, w) ==
    CASE w.kind \in {"object", "element"} -> ResetObject(v, w, Null).v
      [] w.kind \in {"array", "objects"} ->
            LET x == Release(v, w) IN DeleteLocalRef(x.v, w.env, x.r)
      [] w.kind = "chars" -> IF w.env THEN Unpin(v, w.pin) ELSE v

\* Constructors that take a handle.
Construct(v, kind, r) == Reset(v, New(kind, TRUE), r)

----------------------------------------------------------------------------
\* ClearException: what getStackTraceString throws stays pending.
ClearException(v) ==
    IF v.pending = "none" THEN {v} ELSE {[v EXCEPT !.pending = "none"], [v EXCEPT !.pending = "again"]}

\* JNI_SafeInvoke: call, wrap the result, clear the exception.
SafeInvoke(v, kind) ==
    UNION {UNION {{[v |-> z, w |-> y.w] : z \in ClearException(y.v)} :
                    y \in Construct(x.v, kind, x.r)} : x \in Call(v, "call")}

\* The functions of JNIEnv that are called through JNI_SafeInvoke, by family.
Types == {"Boolean", "Byte", "Char", "Short", "Int", "Long", "Float", "Double"}
ClassFunctions == {<<"FindClass">>, <<"GetObjectClass">>}
FieldGetters == {<<"GetFieldID">>} \cup {<<"Get", t, "Field">> : t \in Types \cup {"Object"}}
FieldSetters == {<<"Set", t, "Field">> : t \in Types \cup {"Object"}}
StaticGetters == {<<"GetStaticFieldID">>} \cup {<<"GetStatic", t, "Field">> : t \in Types \cup {"Object"}}
StaticSetters == {<<"SetStatic", t, "Field">> : t \in Types \cup {"Object"}}
Reflection == {<<"ToReflectedMethod">>, <<"ToReflectedField">>}
MethodCalls == {<<"GetMethodID">>} \cup {<<"Call", t, "Method">> : t \in Types \cup {"Object", "Void"}}
StaticCalls == {<<"GetStaticMethodID">>} \cup {<<"CallStatic", t, "Method">> : t \in Types \cup {"Object", "Void"}}
NonvirtualCalls == {<<"CallNonvirtual", t, "Method">> : t \in Types \cup {"Object", "Void"}}
ObjectFunctions == {<<"NewObject">>, <<"NewDirectByteBuffer">>, <<"RegisterNatives">>, <<"IsInstanceOf">>, <<"IsSameObject">>}
ArrayNewers == {<<"GetArrayLength">>, <<"NewObjectArray">>} \cup {<<"New", t, "Array">> : t \in Types}

Functions == ClassFunctions \cup FieldGetters \cup FieldSetters \cup StaticGetters \cup StaticSetters
             \cup Reflection \cup MethodCalls \cup StaticCalls \cup NonvirtualCalls \cup ObjectFunctions
             \cup ArrayNewers

\* WrapScope: what becomes of the result.
ResultKind(f) ==
    CASE f \in ClassFunctions \cup Reflection \cup {<<"NewObject">>, <<"NewDirectByteBuffer">>} -> "object"
      [] f \in {<<p, "Object", s>> : p \in {"Get", "GetStatic", "Call", "CallStatic", "CallNonvirtual"},
                                    s \in {"Field", "Method"}} -> "object"
      [] f \in {<<"New", t, "Array">> : t \in Types} -> "array"
      [] f = <<"NewObjectArray">> -> "objects"
      [] OTHER -> "none"
ResultKinds == {ResultKind(f) : f \in Functions}

----------------------------------------------------------------------------
\* The client's steps.
IsFree(s) == wrap[s].kind = "none"
Elements(s) == {t \in Slots : wrap[t].kind = "element" /\ wrap[t].of = s}

\* What is live but belongs to nobody.
Owned(wr) == {wr[s].ref : s \in Slots} \cup {wr[s].pin : s \in Slots}
Orphans(v, wr, held) == (v.live \cup v.pinned) \ (Owned(wr) \cup held)

Becomes(s, x) == wrap' = [wrap EXCEPT ![s] = x.w] /\ vm' = x.v

\* A JNI_Xxx function; its result goes to s, or nowhere.
Invoke(s) ==
    /\ IsFree(s)
    /\ \E k \in ResultKinds :
         IF k = "none"
         THEN \E x \in Call(vm, "call") : x.r = Null /\ vm' \in ClearException(x.v) /\ UNCHANGED wrap
         ELSE \E x \in SafeInvoke(vm, k) : Becomes(s, x)
    /\ UNCHANGED <<raw, lost>>

\* JNI_NewStringUTF and the constructors from a handle.
NewString(s) ==
    /\ IsFree(s)
    /\ \E c \in Call(vm, "alloc") : \E x \in Construct(c.v, "object", c.r) : Becomes(s, x)
    /\ UNCHANGED <<raw, lost>>
Adopt(s) ==
    /\ IsFree(s)
    /\ \E r \in raw, k \in {"object", "array", "objects"} :
         raw' = raw \ {r} /\ \E x \in Construct(vm, k, r) : Becomes(s, x)
    /\ UNCHANGED lost

\* s is constructed from t, whose reference it takes: the move constructors and
\* JNI_Cast, which may change the kind.
MoveConstruct(s, t) ==
    /\ IsFree(s)
    /\ wrap[t].kind \in {"object", "array", "objects"} /\ Elements(t) = {}
    /\ \E k \in {"object", "array", "objects"} :
         IF k = wrap[t].kind /\ k # "object"
         THEN /\ wrap' = [wrap EXCEPT ![s] = wrap[t],
                                      ![t] = [@ EXCEPT !.ref = Null, !.pin = Null, !.modified = FALSE]]
              /\ UNCHANGED vm
         ELSE LET y == Release(vm, wrap[t])
              IN \E x \in Construct(y.v, k, y.r) :
                    wrap' = [wrap EXCEPT ![s] = x.w, ![t] = y.w] /\ vm' = x.v
    /\ lost' = lost \cup Orphans(vm', wrap', raw)
    /\ UNCHANGED raw

\* Fault: env_ is not taken over.
AssignObjectNoEnv(v, w, from) ==
    LET y == Release(v, from) IN [ResetObject(y.v, w, y.r) EXCEPT !.w.env = w.env]

\* operator= of ScopedLocalRef<T> from another object.
AssignObject(v, w, from) ==
    LET y == Release(v, from) IN [ResetObject(y.v, w, y.r) EXCEPT !.w.env = from.env]

MoveAssignObject(s, t) ==
    /\ wrap[s].kind = "object" /\ wrap[t].kind = "object"
    /\ LET x == IF s = t THEN AssignObject(vm, Release(vm, wrap[s]).w, wrap[t])
                ELSE AssignObject(vm, wrap[s], wrap[t])
       IN wrap' = [wrap EXCEPT ![t] = Release(vm, @).w, ![s] = x.w] /\ vm' = x.v
    /\ UNCHANGED <<raw, lost>>

\* operator= of the arrays copies the members and clears those of t; what s held
\* is dropped, and an array assigned to itself is cleared.
MoveAssignArray(s, t) ==
    /\ wrap[s].kind \in {"array", "objects"} /\ wrap[t].kind = wrap[s].kind
    /\ Elements(s) \cup Elements(t) = {}
    /\ wrap' = [wrap EXCEPT ![s] = wrap[t], ![t] = [wrap[t] EXCEPT !.ref = Null, !.pin = Null, !.modified = FALSE]]
    /\ lost' = lost \cup Orphans(vm, wrap', raw)
    /\ UNCHANGED <<vm, raw>>

\* reset to nothing, to the handle it has, or to a handle of the client.
ResetTo(s) ==
    /\ wrap[s].kind \in {"object", "array", "objects"} /\ Elements(s) = {}
    /\ \E p \in raw \cup {Null, wrap[s].ref} :
         raw' = raw \ {p} /\ \E x \in Reset(vm, wrap[s], p) : Becomes(s, x)
    /\ UNCHANGED lost

ReleaseTo(s) ==
    /\ wrap[s].kind \in {"object", "array", "objects"} /\ Elements(s) = {}
    /\ LET x == Release(vm, wrap[s]) IN Becomes(s, x) /\ raw' = raw \cup ({x.r} \ {Null})
    /\ lost' = lost \cup Orphans(vm', wrap', raw')

Clone(s, t) ==
    /\ IsFree(s)
    /\ wrap[t].kind \in {"object", "element"}
    /\ wrap[t].env
    /\ \E c \in Call(vm, "alloc") : \E x \in Construct(c.v, "object", c.r) : Becomes(s, x)
    /\ UNCHANGED <<raw, lost>>

\* The end of a scope.
Destroy(s) ==
    /\ ~IsFree(s) /\ Elements(s) = {}
    /\ vm' = Destroyed(vm, wrap[s])
    /\ wrap' = [wrap EXCEPT ![s] = Unused]
    /\ lost' = IF wrap[s].kind = "array" THEN lost \cup Orphans(vm', wrap', raw) ELSE lost
    /\ UNCHANGED raw

DeleteRaw(r) ==
    /\ r \in raw
    /\ raw' = raw \ {r}
    /\ vm' = DeleteLocalRef(vm, TRUE, r)
    /\ UNCHANGED <<wrap, lost>>

----------------------------------------------------------------------------
\* Arrays of a primitive type: begin, end and operator[] for writing; commit.
Write(s) ==
    /\ wrap[s].kind = "array" /\ wrap[s].pin # Null
    /\ wrap' = [wrap EXCEPT ![s].modified = TRUE]
    /\ UNCHANGED <<vm, raw, lost>>

Commit(s) ==
    /\ wrap[s].kind = "array"
    /\ vm' = [vm EXCEPT !.bad = @ \/ (wrap[s].ref # Null /\ wrap[s].pin \notin vm.pinned \cup {Null})]
    /\ wrap' = [wrap EXCEPT ![s].modified = FALSE]
    /\ UNCHANGED <<raw, lost>>

\* obtain: past either end there is no element, and no environment.
Obtain(v, i) ==
    IF i \in 0..Length - 1 THEN SafeInvoke(v, "object") ELSE {[v |-> v, w |-> New("object", FALSE)]}

\* operator[], begin and end, and the postfix operators, which leave the
\* iterator where it is.  Of an array that is null, whose size_ may never have
\* been set, i is past the end or GetObjectArrayElement aborts the process.
ElementAt(s, a, i) ==
    /\ IsFree(s)
    /\ wrap[a].kind = "objects"
    /\ wrap[a].ref # Null \/ i \notin 0..Length - 1
    /\ \E x \in Obtain(vm, i) :
         /\ wrap' = [wrap EXCEPT ![s] = [x.w EXCEPT !.kind = "element", !.i = i, !.of = a]]
         /\ vm' = x.v
    /\ UNCHANGED <<raw, lost>>

\* operator++ and operator--.
Advance(s, i) ==
    /\ wrap[s].kind = "element"
    /\ i \in {wrap[s].i - 1, wrap[s].i + 1}
    /\ wrap[wrap[s].of].ref # Null \/ i \notin 0..Length - 1
    /\ \E x \in Obtain(vm, i) :
         LET y == AssignObject(x.v, wrap[s], x.w)
         IN Becomes(s, [y EXCEPT !.w.i = i])
    /\ UNCHANGED <<raw, lost>>

\* operator= of an element inside the array: from a reference that is moved, or
\* from a new reference to what another one, or the client, refers to; then
\* SetObjectArrayElement.
AssignElement(s) ==
    /\ wrap[s].kind = "element" /\ wrap[s].i \in 0..Length - 1
    /\ \/ \E t \in Slots \ {s} :
            /\ wrap[t].kind \in {"object", "element"}
            /\ LET y == Release(vm, wrap[t])
                   x == ResetObject(y.v, wrap[s], y.r)
               IN /\ wrap' = [wrap EXCEPT ![t] = y.w, ![s] = x.w]
                  /\ \E c \in Call(x.v, "call") : c.r = Null /\ vm' \in ClearException(c.v)
       \/ \E n \in Call(vm, "alloc") :
            LET x == ResetObject(n.v, wrap[s], n.r)
            IN /\ wrap' = [wrap EXCEPT ![s] = x.w]
               /\ \E c \in Call(x.v, "call") : c.r = Null /\ vm' \in ClearException(c.v)
    /\ UNCHANGED <<raw, lost>>

\* An element's release hands its reference to the client.
ReleaseElement(s) ==
    /\ wrap[s].kind = "element"
    /\ LET x == Release(vm, wrap[s]) IN Becomes(s, x) /\ raw' = raw \cup ({x.r} \ {Null})
    /\ UNCHANGED lost

----------------------------------------------------------------------------
\* JUTFString of a string, or of null.  A moved-from one keeps jstr_ but no
\* characters; an assignment drops those it had.
NewChars(s) ==
    /\ IsFree(s)
    /\ \/ \E x \in Pin(vm, New("chars", TRUE)) : Becomes(s, x)
       \/ Becomes(s, [v |-> vm, w |-> New("chars", FALSE)])
    /\ UNCHANGED <<raw, lost>>

MoveChars(s, t) ==
    /\ wrap[t].kind = "chars" /\ wrap[s].kind \in {"none", "chars"} /\ s # t
    /\ wrap' = [wrap EXCEPT ![s] = wrap[t], ![t].pin = Null]
    /\ lost' = lost \cup Orphans(vm, wrap', raw)
    /\ UNCHANGED <<vm, raw>>

Next ==
    \/ \E s \in Slots :
         \/ Invoke(s) \/ NewString(s) \/ Adopt(s) \/ ResetTo(s) \/ ReleaseTo(s) \/ Destroy(s)
         \/ Write(s) \/ Commit(s) \/ AssignElement(s) \/ ReleaseElement(s) \/ NewChars(s)
         \/ \E i \in -1..Length : Advance(s, i) \/ \E a \in Slots : ElementAt(s, a, i)
         \/ \E t \in Slots : MoveConstruct(s, t) \/ MoveAssignObject(s, t) \/ MoveAssignArray(s, t)
                             \/ Clone(s, t) \/ MoveChars(s, t)
    \/ \E r \in Refs : DeleteRaw(r)

Spec == Init /\ [][Next]_jniVars

----------------------------------------------------------------------------
\* However references are moved, cast, cloned, reset and released between
\* wrappers, arrays, elements and the client, a handle or buffer has one owner,
\* which can give it back: no wrapper holds a handle that was deleted or is
\* another's, none would delete through a null JNIEnv, nothing is deleted or
\* released twice, nothing leaks but what the arrays and strings are known to
\* drop, and no function is called while the exception of an earlier call is
\* pending (ScopedLocalRef, JObjectArrayElement, JUTFString, JNI_SafeInvoke).
RefsOwnedOnce ==
    /\ ~vm.bad
    /\ \A s \in Slots :
         /\ wrap[s].ref # Null => wrap[s].ref \in vm.live \ raw /\ wrap[s].env
         /\ wrap[s].pin # Null => wrap[s].pin \in vm.pinned /\ wrap[s].env
         /\ \A t \in Slots \ {s} : /\ wrap[s].ref = wrap[t].ref => wrap[s].ref = Null
                                   /\ wrap[s].pin = wrap[t].pin => wrap[s].pin = Null
    /\ raw \subseteq vm.live
    /\ Orphans(vm, wrap, raw) \subseteq lost
=============================================================================
