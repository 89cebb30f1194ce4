------------------------------ MODULE Staging ------------------------------
(***************************************************************************)
(* The Zygisk module, zygisk/src/module.cpp: which processes it enters and *)
(* how run() stages core.dex, libmq-core.so and glassbar.apk in the data   *)
(* directory of the app, system call by system call.  The main process,    *)
(* :MSF and :peak of one app share that directory.  A process can be       *)
(* killed at any time; the module can be updated between two boots.        *)
(*                                                                         *)
(* A file of version v consists of Blocks blocks that all carry v; the     *)
(* first one is what stageFile compares.                                   *)
(***************************************************************************)
EXTENDS Integers, Sequences, FiniteSets

CONSTANTS
    Procs,     \* processes of the app
    NameSuffixes,  \* process name suffixes, "" for the main process
    Versions,  \* versions of the module
    HeadOf,    \* per version: what its files start with
    Blocks,    \* blocks per file
    Inodes,    \* inode numbers
    Hole,      \* a block that was never written
    None,      \* no inode
    MaxSpawns  \* bound on the number of processes started

ASSUME BlockAssumption == Blocks \in Nat \ {0}
ASSUME NoneAssumption == None \notin Inodes /\ Hole \notin Versions

Files == {"core", "lib", "apk"}

Dir == [core |-> "qfunqaux", lib |-> "libs", apk |-> "glassbar"]
Parent == [qfunqaux |-> "files", libs |-> "qfun_zygisk", glassbar |-> "files"]

Nothing == [f \in Files |-> <<>>]

VARIABLES
    dirs,    \* directories that exist
    dst,     \* per file: inode of the staged file
    tmp,     \* per file: inode of the temporary file, dst + ".t"
    data,    \* per inode: its blocks
    modVer,  \* version of the module on this boot
    pc,      \* per process
    fds,     \* per process: files of the module it has open
    ver,     \* per process: version of those files
    cur,     \* per process: file being staged
    out,     \* per process: inode it writes
    off,     \* per process: blocks written
    loaded,  \* per process: contents of what it loaded
    spawns,
    shared   \* history: files two processes have written at the same time

fsVars == <<dirs, dst, tmp, data>>
procVars == <<fds, ver, cur, out, off>>
vars == <<fsVars, modVer, pc, procVars, loaded, spawns, shared>>

\* The data directory as an earlier boot, or another module, left it.
Init ==
    /\ dirs \in {{}, {"files"}, {"files", "qfun_zygisk"}}
    /\ dst = [f \in Files |-> None]
    /\ tmp = [f \in Files |-> None]
    /\ data = [i \in Inodes |-> <<>>]
    /\ modVer \in Versions
    /\ pc = [p \in Procs |-> "dead"]
    /\ fds = [p \in Procs |-> {}]
    /\ ver = [p \in Procs |-> modVer]
    /\ cur = [p \in Procs |-> "core"]
    /\ out = [p \in Procs |-> None]
    /\ off = [p \in Procs |-> 0]
    /\ loaded = [p \in Procs |-> Nothing]
    /\ spawns = 0
    /\ shared = {}

Goto(p, label) == pc' = [pc EXCEPT ![p] = label]

Whole(v) == [i \in 1..Blocks |-> v]

\* What a reader of the staged file sees.
Content(f) == IF dst[f] = None THEN <<>> ELSE data[dst[f]]

-----------------------------------------------------------------------------
(* Zygisk and the host.                                                    *)

\* isQQTarget and the suffix test.
Injected(suffix) == suffix \in {"", ":MSF", ":peak"}

\* preAppSpecialize opens the files of the module, postAppSpecialize starts run().
Spawn(p) ==
    /\ pc[p] = "dead"
    /\ spawns < MaxSpawns
    /\ spawns' = spawns + 1
    /\ \E s \in NameSuffixes : Goto(p, IF Injected(s) THEN "stageCore" ELSE "foreign")
    /\ fds' \in {[fds EXCEPT ![p] = F] : F \in SUBSET Files}
    /\ ver' = [ver EXCEPT ![p] = modVer]
    /\ UNCHANGED <<fsVars, modVer, cur, out, off, loaded, shared>>

\* The process dies; its descriptors are closed.
Kill(p) ==
    /\ pc[p] # "dead"
    /\ Goto(p, "dead")
    /\ fds' = [fds EXCEPT ![p] = {}]
    /\ cur' = [cur EXCEPT ![p] = "core"]
    /\ out' = [out EXCEPT ![p] = None]
    /\ off' = [off EXCEPT ![p] = 0]
    /\ loaded' = [loaded EXCEPT ![p] = Nothing]
    /\ UNCHANGED <<fsVars, modVer, ver, spawns, shared>>

\* A boot with another version of the module.
Update ==
    /\ \A p \in Procs : pc[p] = "dead"
    /\ modVer' \in Versions \ {modVer}
    /\ UNCHANGED <<fsVars, pc, procVars, loaded, spawns, shared>>

\* The host creates its files directory.
HostMakesFiles ==
    /\ "files" \notin dirs
    /\ dirs' = dirs \cup {"files"}
    /\ UNCHANGED <<dst, tmp, data, modVer, pc, procVars, loaded, spawns, shared>>

-----------------------------------------------------------------------------
(* run() and stageCore().                                                  *)

\* mkdir makes one level.
Mkdir(D) == dirs' = dirs \cup {d \in D : Parent[d] \in dirs}

Stage(p, f) == cur' = [cur EXCEPT ![p] = f] /\ Goto(p, "stat")

StageCore(p) ==
    /\ pc[p] = "stageCore"
    /\ IF "core" \in fds[p]
       THEN Mkdir({"qfunqaux", "libs"}) /\ Stage(p, "core")
       ELSE Goto(p, "over") /\ UNCHANGED <<dirs, cur>>
    /\ UNCHANGED <<dst, tmp, data, modVer, fds, ver, out, off, loaded, spawns, shared>>

StagePayload(p) ==
    /\ pc[p] = "stagePayload"
    /\ Mkdir({"glassbar"})
    /\ Stage(p, "apk")
    /\ UNCHANGED <<dst, tmp, data, modVer, fds, ver, out, off, loaded, spawns, shared>>

\* stageFile returned.  The result for the library is ignored.
Returned(p, ok) ==
    /\ out' = [out EXCEPT ![p] = None]
    /\ CASE cur[p] = "core" /\ ok /\ "lib" \in fds[p] -> Stage(p, "lib")
         [] cur[p] = "core" /\ ok /\ "lib" \notin fds[p] -> Goto(p, "stagePayload") /\ UNCHANGED cur
         [] cur[p] = "lib" -> Goto(p, "stagePayload") /\ UNCHANGED cur
         [] cur[p] = "apk" /\ ok -> Goto(p, "load") /\ UNCHANGED cur
         [] OTHER -> Goto(p, "over") /\ UNCHANGED cur

\* loadAndStart: the class loaders read the staged files.
LoadAndStart(p) ==
    /\ pc[p] = "load"
    /\ loaded' = [loaded EXCEPT ![p] = [f \in Files |-> Content(f)]]
    /\ Goto(p, "over")
    /\ UNCHANGED <<fsVars, modVer, procVars, spawns, shared>>

-----------------------------------------------------------------------------
(* stageFile().                                                            *)

\* Fault: a file of the right size is taken for the right file.
StatSizeOnly(p) ==
    /\ pc[p] = "stat"
    /\ IF cur[p] \in fds[p] /\ dst[cur[p]] # None /\ Len(Content(cur[p])) = Blocks
       THEN Returned(p, TRUE)
       ELSE Goto(p, "open") /\ UNCHANGED <<cur, out>>
    /\ UNCHANGED <<fsVars, modVer, fds, ver, off, loaded, spawns, shared>>

\* fstat and stat: same size?  Either call may fail, and the file is staged again.
Stat(p) ==
    /\ pc[p] = "stat"
    /\ \/ /\ cur[p] \in fds[p] /\ dst[cur[p]] # None /\ Len(Content(cur[p])) = Blocks
          /\ Goto(p, "compare")
       \/ Goto(p, "open")
    /\ UNCHANGED <<fsVars, modVer, procVars, loaded, spawns, shared>>

\* The first bytes of both files.
SameHead(c, v) == c # <<>> /\ c[1] # Hole /\ HeadOf[c[1]] = HeadOf[v]

\* The heads are compared; a short read or a failing open of the staged file
\* leaves `need` set, and the file is staged again.
Compare(p) ==
    /\ pc[p] = "compare"
    /\ \/ SameHead(Content(cur[p]), ver[p]) /\ Returned(p, TRUE)
       \/ Goto(p, "open") /\ UNCHANGED <<cur, out>>
    /\ UNCHANGED <<fsVars, modVer, fds, ver, off, loaded, spawns, shared>>

Free == {i \in Inodes : (\A f \in Files : i # dst[f] /\ i # tmp[f]) /\ \A p \in Procs : i # out[p]}
NewInode == CHOOSE i \in Free : TRUE

\* Fault: a file that is there already is opened itself, and written in place.
OpenInPlace(p) ==
    LET f == cur[p]
        i == IF dst[f] # None THEN dst[f] ELSE NewInode
    IN  /\ pc[p] = "open"
        /\ Dir[f] \in dirs
        /\ dst[f] # None \/ Free # {}
        /\ tmp' = [tmp EXCEPT ![f] = i]
        /\ data' = [data EXCEPT ![i] = <<>>]
        /\ out' = [out EXCEPT ![p] = i]
        /\ off' = [off EXCEPT ![p] = 0]
        /\ Goto(p, "write")
        /\ UNCHANGED <<dirs, dst, modVer, fds, ver, cur, loaded, spawns, shared>>

\* open(tmp, O_CREAT | O_TRUNC): the file another process has open is reused.
\* Without a free inode it fails (StageFails).
OpenTmp(p) ==
    LET f == cur[p]
        i == IF tmp[f] # None THEN tmp[f] ELSE NewInode
    IN  /\ pc[p] = "open"
        /\ Dir[f] \in dirs
        /\ tmp[f] # None \/ Free # {}
        /\ tmp' = [tmp EXCEPT ![f] = i]
        /\ data' = [data EXCEPT ![i] = <<>>]
        /\ out' = [out EXCEPT ![p] = i]
        /\ off' = [off EXCEPT ![p] = 0]
        /\ shared' = IF \E q \in Procs \ {p} : pc[q] = "write" /\ cur[q] = f THEN shared \cup {f} ELSE shared
        /\ Goto(p, "write")
        /\ UNCHANGED <<dirs, dst, modVer, fds, ver, cur, loaded, spawns>>

\* open, read or write fails: no directory, no space, or the module lacks the file.
StageFails(p) ==
    /\ pc[p] \in {"open", "write"}
    /\ Returned(p, FALSE)
    /\ UNCHANGED <<fsVars, modVer, fds, ver, off, loaded, spawns, shared>>

\* Block k of a file becomes v; what lies before it and was never written is a hole.
Put(c, k, v) ==
    [i \in 1..(IF Len(c) > k THEN Len(c) ELSE k) |->
        IF i = k THEN v ELSE IF i <= Len(c) THEN c[i] ELSE Hole]

\* read and write of one buffer.
WriteBlock(p) ==
    /\ pc[p] = "write"
    /\ cur[p] \in fds[p]
    /\ off[p] < Blocks
    /\ data' = [data EXCEPT ![out[p]] = Put(@, off[p] + 1, ver[p])]
    /\ off' = [off EXCEPT ![p] = @ + 1]
    /\ UNCHANGED <<dirs, dst, tmp, modVer, pc, fds, ver, cur, out, loaded, spawns, shared>>

\* End of file: close, rename, which fails where somebody else has renamed the
\* file before, and is taken to succeed else.  A failure is not noticed.
Rename(p) ==
    LET f == cur[p]
    IN  /\ pc[p] = "write"
        /\ f \in fds[p]
        /\ off[p] = Blocks
        /\ IF tmp[f] # None
           THEN dst' = [dst EXCEPT ![f] = tmp[f]] /\ tmp' = [tmp EXCEPT ![f] = None]
           ELSE UNCHANGED <<dst, tmp>>
        /\ Returned(p, TRUE)
        /\ UNCHANGED <<dirs, data, modVer, fds, ver, off, loaded, spawns, shared>>

-----------------------------------------------------------------------------
Run(p) ==
    \/ StageCore(p) \/ StagePayload(p) \/ LoadAndStart(p)
    \/ Stat(p) \/ Compare(p) \/ OpenTmp(p) \/ StageFails(p) \/ WriteBlock(p) \/ Rename(p)

Next == Update \/ HostMakesFiles \/ \E p \in Procs : Spawn(p) \/ Kill(p) \/ Run(p)

Spec == Init /\ [][Next]_vars

-----------------------------------------------------------------------------
(* Properties                                                              *)

\* A process has loaded its own version of f whole, or one that starts like it.
LoadedWhole(p, f) ==
    \E v \in Versions : HeadOf[v] = HeadOf[ver[p]] /\ loaded[p][f] = Whole(v)

\* Kills, I/O errors, updates and processes side by side do no harm as long as
\* no two processes write one temporary file at the same time: core and payload
\* are loaded whole, and so is the library, if there is one, of some version
\* (stageFile, loadAndStart).
LoadsWholeUnlessShared ==
    \A p \in Procs :
        /\ \A f \in {"core", "apk"} \ shared : loaded[p][f] # <<>> => LoadedWhole(p, f)
        /\ "lib" \notin shared /\ loaded[p]["lib"] # <<>> =>
             \E v \in Versions : loaded[p]["lib"] = Whole(v)

\* A file that no two processes wrote at the same time is never changed under
\* the processes that have loaded it, and once the current version is staged
\* whole, every reader finds it whole until the module is updated: processes that
\* stage it once more because a check of theirs failed, and those that are killed
\* or run out of space meanwhile, replace it as a whole or not at all (stageFile).
StagedStays ==
    [][\A f \in Files \ shared' :
         /\ dst[f] # None => data'[dst[f]] = data[dst[f]]
         /\ Content(f) = Whole(modVer) /\ modVer' = modVer
              => Content(f)' = Whole(modVer)]_vars
=============================================================================
