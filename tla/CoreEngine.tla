----------------------------- MODULE CoreEngine -----------------------------
(***************************************************************************)
(* The hook registry of CoreEngineImpl.java: add, CoreHookImpl.unhook,     *)
(* invokeOriginal and the part of dispatch that touches shared state.      *)
(*                                                                         *)
(* Threads run these operations concurrently.  Everything the code does    *)
(* under synchronized (h.entries) is split into one action per write that  *)
(* an unsynchronised reader (a host thread entering a hooked method,       *)
(* invokeOriginal) can observe.  Calls made from inside a callback hold no *)
(* monitor, so they are covered by calls of other threads that interleave  *)
(* with the dispatch.  ensureNative() is module EngineInit; the order in   *)
(* which a dispatch runs its snapshot is module Dispatch.                  *)
(*                                                                         *)
(* A Member that was never hooked and one whose Holder is empty behave the *)
(* same, so every Member has its Holder from the start.                    *)
(***************************************************************************)
EXTENDS Integers, SequencesExt

CONSTANTS
    Threads,     \* threads of the host process
    Members,     \* java.lang.reflect.Member objects
    Priorities,  \* priorities the callers of hookXxx use
    Null,        \* Java null
    MaxEntries   \* bound: calls of hookBefore/hookAfter/hookReplace

ASSUME PrioritiesAssumption == Priorities \subseteq Int
ASSUME NullAssumption == Null \notin Threads \cup Nat
ASSUME MaxEntriesAssumption == MaxEntries \in Nat

VARIABLES
    entries,   \* Holder.entries, per member
    token,     \* Holder.token, per member: the number of an LsplantCoreToken
    backupSet, \* tokens whose LsplantCoreToken.backup is not null
    code,      \* what ART runs for the member: its own code (Null) or the
               \* stub that calls callback() of this token
    owner,     \* owner of the monitor of Holder.entries, per member
    nextId,    \* number of the next Entry (and of the token made with it)
    pc,        \* per thread: what it does next
    mem,       \* per thread: member its operation is about
    ent,       \* per thread: the Entry it adds or removes
    tok,       \* per thread: token its call was dispatched through
    snap,      \* per thread: the copy of entries its dispatch works on
    handles,   \* entries whose add() has returned a CoreHook
    active,    \* history: handles nobody has called unhook() on
    must       \* history: per thread, entries active during its whole call

regVars == <<entries, token, backupSet, code, owner, nextId>>
locals  == <<mem, ent, tok, snap, must>>
thrVars == <<pc, locals>>
apiVars == <<handles, active>>
vars    == <<regVars, thrVars, apiVars>>

-----------------------------------------------------------------------------
(***************************************************************************)
(* Entry objects.  Two Entry objects are equal only if they are the same   *)
(* object, so an entry is identified by its id.                            *)
(***************************************************************************)
Entry   == [id : Nat, prio : Priorities, mem : Members]
NoEntry == [id |-> 0, prio |-> 0, mem |-> Null]

\* Fault: the comparator puts equal priorities in front of each other.
SortedInsertUnstable(s, e) ==
    LET n == CHOOSE n \in 0..Len(s) :
                 \A i \in 1..Len(s) : (s[i].prio > e.prio) <=> (i <= n)
    IN  InsertAt(s, n + 1, e)

\* entries.sort by descending priority is stable, so appending e to a sorted
\* list and sorting puts it behind the last entry of at least its priority.
SortedInsert(s, e) ==
    LET n == CHOOSE n \in 0..Len(s) :
                 \A i \in 1..Len(s) : (s[i].prio >= e.prio) <=> (i <= n)
    IN  InsertAt(s, n + 1, e)

\* Fault: Entry.equals compares priorities.
RemoveEntryByPriority(s, e) == SelectSeq(s, LAMBDA x : x.prio # e.prio)

\* Fault: ArrayList.remove(int), with the index of the first entry.
RemoveAtHead(s, e) == IF s = << >> THEN s ELSE Tail(s)

\* ArrayList.remove(Object)
RemoveEntry(s, e) ==
    IF \E i \in DOMAIN s : s[i] = e
    THEN RemoveAt(s, CHOOSE i \in DOMAIN s : s[i] = e)
    ELSE s

-----------------------------------------------------------------------------
Init ==
    /\ entries = [m \in Members |-> << >>]
    /\ token = [m \in Members |-> Null]
    /\ backupSet = {}
    /\ code = [m \in Members |-> Null]
    /\ owner = [m \in Members |-> Null]
    /\ nextId = 1
    /\ pc = [t \in Threads |-> "idle"]
    /\ mem = [t \in Threads |-> Null]
    /\ ent = [t \in Threads |-> NoEntry]
    /\ tok = [t \in Threads |-> Null]
    /\ snap = [t \in Threads |-> << >>]
    /\ handles = {}
    /\ active = {}
    /\ must = [t \in Threads |-> {}]

Goto(t, label) == pc' = [pc EXCEPT ![t] = label] /\ UNCHANGED locals

Begin(t, m, label) ==
    /\ pc[t] = "idle"
    /\ pc' = [pc EXCEPT ![t] = label]
    /\ mem' = [mem EXCEPT ![t] = m]

\* The operation of thread t returns or throws; its locals are gone.
Finish(t) ==
    /\ pc' = [pc EXCEPT ![t] = "idle"]
    /\ mem' = [mem EXCEPT ![t] = Null]
    /\ ent' = [ent EXCEPT ![t] = NoEntry]
    /\ tok' = [tok EXCEPT ![t] = Null]
    /\ snap' = [snap EXCEPT ![t] = << >>]
    /\ must' = [must EXCEPT ![t] = {}]

ActiveOn(m) == {e \in active : e.mem = m}

-----------------------------------------------------------------------------
(* add(member, kind, priority, cb)                                         *)

AddCall(t, m, p) ==
    /\ nextId + Cardinality({u \in Threads : pc[u] = "addEnter"}) <= MaxEntries
    /\ Begin(t, m, "addEnter")
    /\ ent' = [ent EXCEPT ![t] = [id |-> 0, prio |-> p, mem |-> m]]
    /\ UNCHANGED <<regVars, tok, snap, must, apiVars>>

\* Enter synchronized (h.entries) and test h.token == null.
AddEnter(t) ==
    /\ pc[t] = "addEnter"
    /\ owner[mem[t]] = Null
    /\ owner' = [owner EXCEPT ![mem[t]] = t]
    /\ ent' = [ent EXCEPT ![t].id = nextId]
    /\ nextId' = nextId + 1
    /\ pc' = [pc EXCEPT ![t] = IF token[mem[t]] = Null THEN "addNative" ELSE "addInsert"]
    /\ UNCHANGED <<entries, token, backupSet, code, mem, tok, snap, must, apiVars>>

\* nativeHookMethod: from here on calls of the member reach the token.
\* LSPlant refuses a method that is hooked already.
AddNativeHook(t) ==
    /\ pc[t] = "addNative"
    /\ code[mem[t]] = Null
    /\ code' = [code EXCEPT ![mem[t]] = ent[t].id]
    /\ Goto(t, "addBackup")
    /\ UNCHANGED <<entries, token, backupSet, owner, nextId, apiVars>>

\* nativeHookMethod returned null or threw: the exception leaves the monitor.
AddNativeFail(t) ==
    /\ pc[t] = "addNative"
    /\ owner' = [owner EXCEPT ![mem[t]] = Null]
    /\ Finish(t)
    /\ UNCHANGED <<entries, token, backupSet, code, nextId, apiVars>>

\* tok.setBackup(backup)
AddSetBackup(t) ==
    /\ pc[t] = "addBackup"
    /\ backupSet' = backupSet \cup {ent[t].id}
    /\ Goto(t, "addToken")
    /\ UNCHANGED <<entries, token, code, owner, nextId, apiVars>>

\* h.token = tok
AddSetToken(t) ==
    /\ pc[t] = "addToken"
    /\ token' = [token EXCEPT ![mem[t]] = ent[t].id]
    /\ Goto(t, "addInsert")
    /\ UNCHANGED <<entries, backupSet, code, owner, nextId, apiVars>>

\* entries.add(e); entries.sort(...); leave the monitor and return the handle.
AddInsert(t) ==
    /\ pc[t] = "addInsert"
    /\ entries' = [entries EXCEPT ![mem[t]] = SortedInsert(@, ent[t])]
    /\ owner' = [owner EXCEPT ![mem[t]] = Null]
    /\ handles' = handles \cup {ent[t]}
    /\ active' = active \cup {ent[t]}
    /\ Finish(t)
    /\ UNCHANGED <<token, backupSet, code, nextId>>

-----------------------------------------------------------------------------
(* CoreHookImpl.unhook(): by any thread, and again on an inactive handle.  *)

UnhookCall(t, e) ==
    /\ e \in handles
    /\ Begin(t, e.mem, "unhookEnter")
    /\ ent' = [ent EXCEPT ![t] = e]
    /\ active' = active \ {e}
    /\ must' = [u \in Threads |-> must[u] \ {e}]
    /\ UNCHANGED <<regVars, tok, snap, handles>>

\* entries.remove(entry); other entries remain: leave the monitor.
UnhookKeep(t) ==
    /\ pc[t] = "unhookEnter"
    /\ owner[mem[t]] = Null
    /\ RemoveEntry(entries[mem[t]], ent[t]) # << >>
    /\ entries' = [entries EXCEPT ![mem[t]] = RemoveEntry(@, ent[t])]
    /\ Finish(t)
    /\ UNCHANGED <<token, backupSet, code, owner, nextId, apiVars>>

\* Fault: the isEmpty() test is missing.
UnhookAlways(t) ==
    /\ pc[t] = "unhookEnter"
    /\ owner[mem[t]] = Null
    /\ entries' = [entries EXCEPT ![mem[t]] = RemoveEntry(@, ent[t])]
    /\ owner' = [owner EXCEPT ![mem[t]] = t]
    /\ Goto(t, "unhookNative")
    /\ UNCHANGED <<token, backupSet, code, nextId, apiVars>>

\* entries.remove(entry) leaves the list empty: the member gets unhooked.
UnhookEmpty(t) ==
    /\ pc[t] = "unhookEnter"
    /\ owner[mem[t]] = Null
    /\ RemoveEntry(entries[mem[t]], ent[t]) = << >>
    /\ entries' = [entries EXCEPT ![mem[t]] = << >>]
    /\ owner' = [owner EXCEPT ![mem[t]] = t]
    /\ Goto(t, "unhookNative")
    /\ UNCHANGED <<token, backupSet, code, nextId, apiVars>>

\* nativeUnhookMethod: a no-op if the member is not hooked.
UnhookNative(t) ==
    /\ pc[t] = "unhookNative"
    /\ code' = [code EXCEPT ![mem[t]] = Null]
    /\ Goto(t, "unhookToken")
    /\ UNCHANGED <<entries, token, backupSet, owner, nextId, apiVars>>

\* Fault: the Holder keeps its token after the unhook.
UnhookTokenKept(t) ==
    /\ pc[t] = "unhookToken"
    /\ owner' = [owner EXCEPT ![mem[t]] = Null]
    /\ Finish(t)
    /\ UNCHANGED <<entries, token, backupSet, code, nextId, apiVars>>

\* holder.token = null; leave the monitor.
UnhookToken(t) ==
    /\ pc[t] = "unhookToken"
    /\ token' = [token EXCEPT ![mem[t]] = Null]
    /\ owner' = [owner EXCEPT ![mem[t]] = Null]
    /\ Finish(t)
    /\ UNCHANGED <<entries, backupSet, code, nextId, apiVars>>

-----------------------------------------------------------------------------
(* A host thread calls the member.                                         *)

\* ART enters the member: its own code, or the stub of the installed token.
HostCall(t, m) ==
    /\ Begin(t, m, IF code[m] = Null THEN "original" ELSE "callback")
    /\ tok' = [tok EXCEPT ![t] = code[m]]
    /\ must' = [must EXCEPT ![t] = ActiveOn(m)]
    /\ UNCHANGED <<regVars, ent, snap, apiVars>>

\* LsplantCoreToken.callback tests its backup; when it is null the exception
\* "backup not set" reaches the host's caller.
Callback(t) ==
    /\ pc[t] = "callback"
    /\ Goto(t, IF tok[t] \in backupSet THEN "copy" ELSE "backupNotSet")
    /\ UNCHANGED <<regVars, apiVars>>

\* synchronizedCopy(h.entries)
DispatchCopy(t) ==
    /\ pc[t] = "copy"
    /\ owner[mem[t]] = Null
    /\ snap' = [snap EXCEPT ![t] = entries[mem[t]]]
    /\ pc' = [pc EXCEPT ![t] = "run"]
    /\ UNCHANGED <<regVars, mem, ent, tok, must, apiVars>>

\* The callbacks of the snapshot decided not to call the original.
DispatchSkip(t) ==
    /\ pc[t] = "run"
    /\ snap[t] # << >>
    /\ Finish(t)
    /\ UNCHANGED <<regVars, apiVars>>

\* backup.invoke(...) with the backup of the token the call came through,
\* which may have been unhooked since.
BackupState(t) == IF code[mem[t]] = tok[t] THEN "backup" ELSE "deadBackup"

DispatchInvoke(t) ==
    /\ pc[t] = "run"
    /\ Goto(t, BackupState(t))
    /\ UNCHANGED <<regVars, apiVars>>

-----------------------------------------------------------------------------
(* invokeOriginal reads the field h.token three times, without the monitor *)

InvokeOriginal(t, m) ==
    /\ Begin(t, m, "invTest")
    /\ must' = [must EXCEPT ![t] = ActiveOn(m)]
    /\ UNCHANGED <<regVars, ent, tok, snap, apiVars>>

\* h.token != null
InvokeTestToken(t) ==
    /\ pc[t] = "invTest"
    /\ Goto(t, IF token[mem[t]] = Null THEN "invReflect" ELSE "invBackup")
    /\ UNCHANGED <<regVars, apiVars>>

\* h.token.backup != null
InvokeTestBackup(t) ==
    /\ pc[t] = "invBackup"
    /\ Goto(t, IF token[mem[t]] = Null THEN "nullPointer"
               ELSE IF token[mem[t]] \in backupSet THEN "invLoad" ELSE "invReflect")
    /\ UNCHANGED <<regVars, apiVars>>

\* h.token.backup.invoke(...): load the method ...
InvokeLoad(t) ==
    /\ pc[t] = "invLoad"
    /\ tok' = [tok EXCEPT ![t] = token[mem[t]]]
    /\ pc' = [pc EXCEPT ![t] = IF token[mem[t]] \in backupSet THEN "invCall" ELSE "nullPointer"]
    /\ UNCHANGED <<regVars, mem, ent, snap, must, apiVars>>

\* ... and call it.
InvokeBackup(t) ==
    /\ pc[t] = "invCall"
    /\ Goto(t, BackupState(t))
    /\ UNCHANGED <<regVars, apiVars>>

\* member.invoke(...): an ordinary call, dispatched if the member is hooked.
InvokeReflect(t) ==
    /\ pc[t] = "invReflect"
    /\ tok' = [tok EXCEPT ![t] = code[mem[t]]]
    /\ pc' = [pc EXCEPT ![t] = IF code[mem[t]] = Null THEN "original" ELSE "callback"]
    /\ UNCHANGED <<regVars, mem, ent, snap, must, apiVars>>

\* The call returns from the original or its backup, or the exception leaves.
Return(t) ==
    /\ pc[t] \in {"original", "backup", "deadBackup", "backupNotSet", "nullPointer"}
    /\ Finish(t)
    /\ UNCHANGED <<regVars, apiVars>>

-----------------------------------------------------------------------------
Step(t) ==
    \/ AddEnter(t) \/ AddNativeHook(t) \/ AddNativeFail(t)
    \/ AddSetBackup(t) \/ AddSetToken(t) \/ AddInsert(t)
    \/ UnhookKeep(t) \/ UnhookEmpty(t) \/ UnhookNative(t) \/ UnhookToken(t)
    \/ Callback(t) \/ DispatchCopy(t) \/ DispatchSkip(t) \/ DispatchInvoke(t)
    \/ InvokeTestToken(t) \/ InvokeTestBackup(t) \/ InvokeLoad(t)
    \/ InvokeBackup(t) \/ InvokeReflect(t) \/ Return(t)

Next ==
    \E t \in Threads :
        \/ Step(t)
        \/ \E m \in Members, p \in Priorities : AddCall(t, m, p)
        \/ \E e \in handles : UnhookCall(t, e)
        \/ \E m \in Members : HostCall(t, m)
        \/ \E m \in Members : InvokeOriginal(t, m)

Spec == Init /\ [][Next]_vars

-----------------------------------------------------------------------------
(* Properties                                                              *)

Labels == {"idle", "addEnter", "addNative", "addBackup", "addToken", "addInsert",
           "unhookEnter", "unhookNative", "unhookToken", "callback", "copy", "run",
           "invTest", "invBackup", "invLoad", "invCall", "invReflect",
           "original", "backup", "deadBackup", "backupNotSet", "nullPointer"}

\* Every variable has its type.
TypeOK ==
    /\ entries \in [Members -> Seq(Entry)]
    /\ token \in [Members -> Nat \cup {Null}]
    /\ backupSet \subseteq Nat
    /\ code \in [Members -> Nat \cup {Null}]
    /\ owner \in [Members -> Threads \cup {Null}]
    /\ nextId \in Nat
    /\ pc \in [Threads -> Labels]
    /\ mem \in [Threads -> Members \cup {Null}]
    /\ ent \in [Threads -> Entry \cup {NoEntry}]
    /\ tok \in [Threads -> Nat \cup {Null}]
    /\ snap \in [Threads -> Seq(Entry)]
    /\ handles \subseteq Entry
    /\ active \subseteq Entry
    /\ must \in [Threads -> SUBSET Entry]

\* Whenever no thread is inside synchronized (h.entries), the three views of a
\* member agree: ART runs the stub of exactly the token the Holder keeps, that
\* token has its backup, and both exist exactly when some entry is registered
\* (add and CoreHookImpl.unhook).
RegistryMatchesNative ==
    \A m \in Members :
        owner[m] = Null =>
            /\ code[m] = token[m]
            /\ token[m] = Null <=> entries[m] = << >>
            /\ token[m] # Null => token[m] \in backupSet

\* A list of entries in the order a dispatch runs them.
Ordered(s) ==
    \A i, j \in DOMAIN s :
        i < j => \/ s[i].prio > s[j].prio
                 \/ s[i].prio = s[j].prio /\ s[i].id < s[j].id

\* A dispatch works on entries in descending priority, entries of one priority
\* in the order they were registered, whatever add and unhook calls raced it
\* (entries.sort in add, synchronizedCopy in dispatch).
SnapshotOrdered == \A t \in Threads : Ordered(snap[t])

\* A call of the member that starts after hookXxx returned a handle runs that
\* handle's callback, unless somebody calls unhook() on it before the copy is
\* taken; other handles coming and going do not matter.
NoMissedCallback ==
    \A t \in Threads :
        /\ pc[t] = "run" => must[t] \subseteq ToSet(snap[t])
        /\ pc[t] = "original" => must[t] = {}

\* A call of the member or of invokeOriginal during which one handle stays
\* active never fails inside the engine and never reaches the backup of a hook
\* that was removed.
StableHookSafe ==
    \A t \in Threads :
        pc[t] \in {"backupNotSet", "deadBackup", "nullPointer"} => must[t] = {}

\* unhook() never takes effect on somebody else's entry: a handle that nobody
\* called unhook() on stays in the list from its insertion on.
ActiveStaysRegistered ==
    \A e \in active : e \in ToSet(entries[e.mem])

\* unhook() takes effect on its own entry: a callback is in the list after
\* somebody called unhook() on its handle only as long as such a call waits for
\* the monitor, so that no call of the member that copies the list later runs it,
\* whatever other handles of the member are added and removed meanwhile
\* (CoreHookImpl.unhook).
UnhookTakesEffect ==
    \A e \in handles \ active :
        e \in ToSet(entries[e.mem]) => \E t \in Threads : pc[t] = "unhookEnter" /\ ent[t] = e

\* What lsplant.hpp asks of its callers: the backup is not called after the
\* method was unhooked.
BackupNeverCalledAfterUnhook ==
    \A t \in Threads : pc[t] # "deadBackup"

-----------------------------------------------------------------------------
(***************************************************************************)
(* The inductive invariant behind the safety properties.                   *)
(***************************************************************************)
Adding   == {"addNative", "addBackup", "addToken", "addInsert"}
Critical == Adding \cup {"unhookNative", "unhookToken"}

\* The thread in a critical section is the owner of that Holder's monitor.
MonitorInv ==
    /\ \A t \in Threads : pc[t] # "idle" => mem[t] \in Members
    /\ \A t \in Threads : pc[t] \in Critical => owner[mem[t]] = t
    /\ \A m \in Members : owner[m] # Null =>
           pc[owner[m]] \in Critical /\ mem[owner[m]] = m

\* Each intermediate state of a Holder that the code goes through.
HolderInv ==
    \A m \in Members :
        LET at == IF owner[m] = Null THEN "free" ELSE pc[owner[m]]
            id == ent[owner[m]].id
        IN  /\ at \in {"free", "addInsert", "unhookNative"} => code[m] = token[m]
            /\ at = "free" => (token[m] = Null <=> entries[m] = << >>)
            /\ at = "addInsert" => token[m] # Null
            /\ at \in Critical \ {"addInsert"} => entries[m] = << >>
            /\ at \in {"addNative", "addBackup", "addToken"} => token[m] = Null
            /\ at \in {"addNative", "unhookToken"} => code[m] = Null
            /\ at \in {"addBackup", "addToken"} => code[m] = id
            /\ at = "addToken" => id \in backupSet
            /\ token[m] # Null => token[m] \in backupSet

\* Entry numbers are handed out once and in order.
IdInv ==
    /\ \A m \in Members : \A i \in DOMAIN entries[m] : entries[m][i].id < nextId
    /\ \A e \in handles : e.id < nextId
    /\ \A t \in Threads : pc[t] \in Adding =>
           /\ ent[t].id < nextId
           /\ \A i \in DOMAIN entries[mem[t]] : entries[mem[t]][i].id < ent[t].id
           /\ \A e \in handles : e.id # ent[t].id
           /\ \A u \in Threads \ {t} : pc[u] \in Adding => ent[u].id # ent[t].id
    /\ \A t \in Threads : pc[t] \in Adding \cup {"addEnter", "unhookEnter"} =>
           ent[t] \in Entry /\ ent[t].mem = mem[t]
    /\ \A t \in Threads : pc[t] = "unhookEnter" => ent[t] \in handles \ active

OrderInv ==
    /\ \A m \in Members : Ordered(entries[m])
    /\ \A t \in Threads : Ordered(snap[t])

\* Active handles are registered, and a call only counts on those of its member.
ActiveInv ==
    /\ active \subseteq handles
    /\ ActiveStaysRegistered
    /\ \A t \in Threads : must[t] \subseteq ActiveOn(mem[t])
    /\ \A t \in Threads : pc[t] = "idle" => must[t] = {}

\* What a call that overlaps an active handle can rely on.
CallInv ==
    \A t \in Threads :
        /\ must[t] # {} =>
              /\ pc[t] \in {"callback", "copy", "run", "invCall"} => tok[t] = code[mem[t]]
              /\ pc[t] \notin {"original", "invReflect", "deadBackup",
                                "backupNotSet", "nullPointer"}
        /\ pc[t] = "run" => must[t] \subseteq ToSet(snap[t])

IInv ==
    TypeOK /\ MonitorInv /\ HolderInv /\ IdInv /\ OrderInv /\ ActiveInv /\ CallInv
=============================================================================
