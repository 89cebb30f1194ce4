------------------------- MODULE ModuleFilesProofs -------------------------
(***************************************************************************)
(* Proofs about Staging, for any number of processes, versions, blocks and *)
(* inodes: a process loads whole files of its own version, and a staged    *)
(* file is only ever replaced as a whole, unless two processes wrote the   *)
(* temporary file at the same time (LoadsWholeUnlessShared, StagedStays).  *)
(*                                                                         *)
(* No inode belongs to two files (Separate), the processes of one boot     *)
(* have one version (Current), a temporary file nobody shares has one      *)
(* writer, which has written all that is in it (Written), and what a       *)
(* process has staged is still there when it comes to load it (Ready).     *)
(***************************************************************************)
EXTENDS Staging, WebUI, SequenceTheorems, TLAPS

Labels == {"dead", "foreign", "stageCore", "stagePayload", "stat", "compare", "open",
           "write", "load", "over"}
InStageFile == {"stat", "compare", "open", "write"}

TypeOK ==
    /\ dst \in [Files -> Inodes \cup {None}]
    /\ tmp \in [Files -> Inodes \cup {None}]
    /\ data \in [Inodes -> Seq(Versions \cup {Hole})]
    /\ modVer \in Versions
    /\ pc \in [Procs -> Labels]
    /\ fds \in [Procs -> SUBSET Files]
    /\ ver \in [Procs -> Versions]
    /\ cur \in [Procs -> Files]
    /\ out \in [Procs -> Inodes \cup {None}]
    /\ off \in [Procs -> 0..Blocks]
    /\ DOMAIN loaded = Procs
    /\ shared \subseteq Files

\* The files of the module that a process has open are those of this boot.
Current == \A p \in Procs : pc[p] # "dead" => ver[p] = modVer

Writes(p, f) == pc[p] = "write" /\ cur[p] = f

\* A process has an inode to write exactly while it writes.
Outputs == \A p \in Procs : IF pc[p] = "write" THEN out[p] # None ELSE out[p] = None

\* Inode i is used for file f.
Uses(f, i) == i = dst[f] \/ i = tmp[f] \/ \E p \in Procs : Writes(p, f) /\ out[p] = i
Separate ==
    /\ \A f, g \in Files, i \in Inodes : Uses(f, i) /\ Uses(g, i) => f = g
    /\ \A f \in Files : tmp[f] # None => tmp[f] # dst[f]

FsInv == TypeOK /\ Current /\ Outputs /\ Separate

\* The temporary file of a file that was never shared has one writer, and holds
\* what that one has written.
Written ==
    \A f \in Files \ shared, p \in Procs : Writes(p, f) =>
        /\ \A q \in Procs : Writes(q, f) => q = p
        /\ out[p] = tmp[f]
        /\ Len(data[out[p]]) = off[p]
        /\ \A k \in 1..off[p] : data[out[p]][k] = ver[p]

\* The staged file is whole.
Staged(f, v) == dst[f] # None /\ v \in Versions /\ data[dst[f]] = Whole(v)
Complete == \A f \in Files \ shared : dst[f] # None => \E v \in Versions : Staged(f, v)

\* Process p has come past the staging of f.
Past(p, f) ==
    \/ /\ f = "core"
       /\ pc[p] \in {"stagePayload", "load"} \/ (pc[p] \in InStageFile /\ cur[p] # "core")
    \/ f = "apk" /\ pc[p] = "load"
Ready ==
    \A f \in Files \ shared, p \in Procs : Past(p, f) =>
        \E v \in Versions : HeadOf[v] = HeadOf[ver[p]] /\ Staged(f, v)

LoadInv ==
    /\ FsInv /\ Written /\ Complete /\ Ready /\ LoadsWholeUnlessShared
    /\ \A p \in Procs : pc[p] = "dead" => loaded[p] = Nothing

-----------------------------------------------------------------------------
\* The initial states satisfy the invariant.
LEMMA InitFsInv == Init => FsInv
<1> SUFFICES ASSUME Init PROVE FsInv
  OBVIOUS
<1>1. <<>> \in Seq(Versions \cup {Hole})
  OBVIOUS
<1>2. TypeOK
  BY <1>1, BlockAssumption DEF Init, TypeOK, Files, Labels
<1>3. Current /\ Outputs
  BY DEF Init, Current, Outputs
<1>4. Separate
  BY NoneAssumption DEF Init, Separate, Uses, Writes
<1> QED BY <1>2, <1>3, <1>4 DEF FsInv

\* stageFile returned: where the process goes on.
LEMMA ReturnedMoves ==
    ASSUME TypeOK, NEW p \in Procs, NEW ok \in BOOLEAN, Returned(p, ok)
    PROVE  \E l \in {"stat", "stagePayload", "load", "over"}, g \in Files :
              /\ pc' = [pc EXCEPT ![p] = l]
              /\ cur' = [cur EXCEPT ![p] = g]
              /\ out' = [out EXCEPT ![p] = None]
              /\ l = "stat" => cur[p] = "core" /\ g = "lib" /\ ok
              /\ l = "stagePayload" => g = cur[p] /\ (cur[p] = "lib" \/ (cur[p] = "core" /\ ok))
              /\ l = "load" => g = cur[p] /\ cur[p] = "apk" /\ ok
<1>1. cur[p] \in Files /\ cur = [cur EXCEPT ![p] = cur[p]]
  BY DEF TypeOK
<1>2. CASE cur[p] = "core" /\ ok /\ "lib" \in fds[p]
  BY <1>2 DEF Returned, Stage, Goto, Files
<1>3. CASE cur[p] = "core" /\ ok /\ "lib" \notin fds[p]
  BY <1>1, <1>3 DEF Returned, Stage, Goto, Files
<1>4. CASE cur[p] = "lib"
  BY <1>1, <1>4 DEF Returned, Stage, Goto, Files
<1>5. CASE cur[p] = "apk" /\ ok
  BY <1>1, <1>5 DEF Returned, Stage, Goto, Files
<1>6. CASE ~ok /\ cur[p] \in {"core", "apk"}
  BY <1>1, <1>6 DEF Returned, Stage, Goto, Files
<1> QED BY <1>1, <1>2, <1>3, <1>4, <1>5, <1>6 DEF Files

-----------------------------------------------------------------------------
(* The file system and the versions.                                       *)

\* A process goes on without touching the files.
LEMMA MoveFs ==
    ASSUME FsInv, NEW p \in Procs, NEW l \in Labels \ {"write", "dead"}, NEW g \in Files,
           pc[p] # "dead", pc' = [pc EXCEPT ![p] = l], cur' = [cur EXCEPT ![p] = g],
           out' = [out EXCEPT ![p] = None], DOMAIN loaded' = Procs,
           UNCHANGED <<dst, tmp, data, modVer, fds, ver, off, shared>>
    PROVE  FsInv'
<1> USE DEF FsInv
<1>1. TypeOK'
  BY DEF TypeOK
<1>2. Current' /\ Outputs'
  BY DEF TypeOK, Current, Outputs
<1>3. \A q \in Procs, f \in Files : Writes(q, f)' => Writes(q, f) /\ out'[q] = out[q]
  BY DEF TypeOK, Writes
<1>4. \A f \in Files, i \in Inodes : Uses(f, i)' => Uses(f, i)
  BY <1>3 DEF Uses
<1>5. Separate'
  BY <1>4 DEF Separate
<1> QED BY <1>1, <1>2, <1>5

\* The steps that do not touch the files are such.
LEMMA QuietMoves ==
    ASSUME FsInv, NEW p \in Procs,
           \/ StageCore(p) \/ StagePayload(p) \/ LoadAndStart(p)
           \/ Stat(p) \/ Compare(p) \/ StageFails(p)
    PROVE  /\ pc[p] # "dead"
           /\ \E l \in Labels \ {"write", "dead"}, g \in Files :
                 /\ pc' = [pc EXCEPT ![p] = l] /\ cur' = [cur EXCEPT ![p] = g]
                 /\ out' = [out EXCEPT ![p] = None]
           /\ DOMAIN loaded' = Procs
           /\ UNCHANGED <<dst, tmp, data, modVer, fds, ver, off, shared>>
<1>1. /\ cur[p] \in Files /\ cur = [cur EXCEPT ![p] = cur[p]]
      /\ pc[p] # "write" => out = [out EXCEPT ![p] = None]
  BY DEF FsInv, TypeOK, Outputs
<1>2. /\ pc[p] # "dead"
      /\ DOMAIN loaded' = Procs
      /\ UNCHANGED <<dst, tmp, data, modVer, fds, ver, off, shared>>
  BY DEF StageCore, StagePayload, LoadAndStart, Stat, Compare, StageFails, fsVars, procVars,
         FsInv, TypeOK
<1> DEFINE P == \E l \in Labels \ {"write", "dead"}, g \in Files :
                   /\ pc' = [pc EXCEPT ![p] = l] /\ cur' = [cur EXCEPT ![p] = g]
                   /\ out' = [out EXCEPT ![p] = None]
<1> SUFFICES P
  BY <1>2
<1> USE DEF Labels
<1>3. ASSUME NEW ok \in BOOLEAN, Returned(p, ok) PROVE P
  BY <1>3, ReturnedMoves DEF FsInv
<1>4. CASE StageCore(p) \/ StagePayload(p)
  BY <1>1, <1>4 DEF StageCore, StagePayload, Stage, Goto, Files
<1>5. CASE LoadAndStart(p) \/ Stat(p)
  BY <1>1, <1>5 DEF LoadAndStart, Stat, Goto, procVars
<1>6. CASE Compare(p)
  BY <1>1, <1>3, <1>6 DEF Compare, Goto
<1>7. CASE StageFails(p)
  BY <1>3, <1>7 DEF StageFails
<1> QED BY <1>4, <1>5, <1>6, <1>7

\* A free inode is one.
LEMMA FreeInode == Free # {} => NewInode \in Inodes /\ NewInode \in Free
BY DEF Free, NewInode

\* open(tmp): the inode is the temporary file's, or is nobody's.
LEMMA OpenFs ==
    ASSUME FsInv, NEW p \in Procs, OpenTmp(p)
    PROVE  /\ FsInv'
           /\ \E i \in Inodes :
                 /\ tmp' = [tmp EXCEPT ![cur[p]] = i]
                 /\ data' = [data EXCEPT ![i] = <<>>]
                 /\ out' = [out EXCEPT ![p] = i]
                 /\ \A f \in Files : i # dst[f]
                 /\ \A q \in Procs : i = out[q] => cur[q] = cur[p]
<1> USE DEF FsInv
<1>1. PICK i \in Inodes :
         /\ tmp' = [tmp EXCEPT ![cur[p]] = i]
         /\ data' = [data EXCEPT ![i] = <<>>]
         /\ out' = [out EXCEPT ![p] = i]
         /\ i = tmp[cur[p]] \/ i \in Free
  <2>1. CASE tmp[cur[p]] # None
    BY <2>1 DEF OpenTmp, TypeOK
  <2>2. CASE tmp[cur[p]] = None
    BY <2>2, FreeInode DEF OpenTmp
  <2> QED BY <2>1, <2>2
<1>2. /\ pc[p] = "open" /\ pc' = [pc EXCEPT ![p] = "write"] /\ cur[p] \in Files
      /\ off' = [off EXCEPT ![p] = 0]
      /\ shared \subseteq shared' /\ shared' \subseteq shared \cup {cur[p]}
      /\ UNCHANGED <<dst, modVer, fds, ver, cur, loaded>>
  BY DEF OpenTmp, Goto, TypeOK
<1>3. \A f \in Files : Uses(f, i) => f = cur[p]
  BY <1>1, <1>2, NoneAssumption DEF Separate, Uses, Free, Writes
<1>4. \A f \in Files : i # dst[f]
  BY <1>1, <1>2, NoneAssumption DEF Separate, Free, Uses, TypeOK
<1>5. \A q \in Procs : i = out[q] => cur[q] = cur[p]
  BY <1>3, NoneAssumption DEF Uses, Writes, Outputs, TypeOK
<1>6. TypeOK'
  <2>1. <<>> \in Seq(Versions \cup {Hole})
    OBVIOUS
  <2> QED BY <1>1, <1>2, <2>1, BlockAssumption DEF TypeOK, Labels
<1>7. Current' /\ Outputs'
  BY <1>1, <1>2, NoneAssumption DEF Current, Outputs, TypeOK
<1>8. Separate'
  <2>1. \A f \in Files, j \in Inodes : Uses(f, j)' => Uses(f, j) \/ (f = cur[p] /\ j = i)
    BY <1>1, <1>2 DEF Uses, Writes, TypeOK
  <2>2. \A f, g \in Files, j \in Inodes : Uses(f, j)' /\ Uses(g, j)' => f = g
    BY <1>3, <2>1 DEF Separate
  <2> QED BY <1>1, <1>2, <1>4, <2>2 DEF Separate, TypeOK
<1> QED BY <1>1, <1>4, <1>5, <1>6, <1>7, <1>8

\* Writing the block after the first k.
LEMMA PutIsSeq ==
    ASSUME NEW c \in Seq(Versions \cup {Hole}), NEW k \in Nat, NEW v \in Versions
    PROVE  /\ Put(c, k + 1, v) \in Seq(Versions \cup {Hole})
           /\ Len(Put(c, k + 1, v)) = IF Len(c) > k + 1 THEN Len(c) ELSE k + 1
<1>1. Len(c) \in Nat
  OBVIOUS
<1> DEFINE n == IF Len(c) > k + 1 THEN Len(c) ELSE k + 1
<1>2. n \in Nat
  BY <1>1
<1>3. Put(c, k + 1, v) =
         [j \in 1..n |-> IF j = k + 1 THEN v ELSE IF j <= Len(c) THEN c[j] ELSE Hole]
  BY DEF Put
<1>4. \A j \in 1..n : (IF j = k + 1 THEN v ELSE IF j <= Len(c) THEN c[j] ELSE Hole) \in Versions \cup {Hole}
  BY <1>1, <1>2
<1>5. Put(c, k + 1, v) \in [1..n -> Versions \cup {Hole}]
  BY <1>3, <1>4
<1>6. Put(c, k + 1, v) \in Seq(Versions \cup {Hole})
  BY <1>2, <1>5, SeqDef
<1>7. Len(Put(c, k + 1, v)) = n
  BY <1>2, <1>5, <1>6, LenProperties
<1> QED BY <1>1, <1>3, <1>6, <1>7

\* write: one more block.
LEMMA WriteFs ==
    ASSUME FsInv, NEW p \in Procs, WriteBlock(p)
    PROVE  FsInv'
<1> USE DEF FsInv
<1>1. /\ data' = [data EXCEPT ![out[p]] = Put(data[out[p]], off[p] + 1, ver[p])]
      /\ off' = [off EXCEPT ![p] = off[p] + 1] /\ off[p] \in 0..Blocks /\ off[p] < Blocks
      /\ out[p] \in Inodes
      /\ UNCHANGED <<dst, tmp, modVer, pc, fds, ver, cur, out, loaded, shared>>
  BY DEF WriteBlock, TypeOK, Outputs
<1>2. Put(data[out[p]], off[p] + 1, ver[p]) \in Seq(Versions \cup {Hole})
  <2>1. /\ data[out[p]] \in Seq(Versions \cup {Hole}) /\ ver[p] \in Versions
        /\ off[p] \in Nat
    BY <1>1, BlockAssumption DEF TypeOK
  <2> QED BY <2>1, PutIsSeq
<1>3. TypeOK'
  BY <1>1, <1>2, BlockAssumption DEF TypeOK
<1> QED BY <1>1, <1>3 DEF Current, Outputs, Separate, Uses, Writes

\* rename ends stageFile.
LEMMA RenameMoves ==
    ASSUME FsInv, NEW p \in Procs, Rename(p)
    PROVE  \E l \in {"stat", "stagePayload", "load", "over"}, g \in Files :
              /\ pc' = [pc EXCEPT ![p] = l] /\ cur' = [cur EXCEPT ![p] = g]
              /\ out' = [out EXCEPT ![p] = None]
              /\ l = "stat" => cur[p] = "core" /\ g = "lib"
              /\ l = "stagePayload" => g = cur[p] /\ cur[p] \in {"lib", "core"}
              /\ l = "load" => g = cur[p] /\ cur[p] = "apk"
<1>1. Returned(p, TRUE)
  BY DEF Rename
<1> QED BY <1>1, ReturnedMoves DEF FsInv

\* rename: the temporary file, if it is there, becomes the staged one.
LEMMA RenameFs ==
    ASSUME FsInv, NEW p \in Procs, Rename(p)
    PROVE  FsInv'
<1> USE DEF FsInv
<1>1. /\ pc[p] = "write" /\ cur[p] \in Files /\ Returned(p, TRUE)
      /\ UNCHANGED <<data, modVer, fds, ver, off, loaded, shared>>
  BY DEF Rename, TypeOK
<1>2. PICK l \in {"stat", "stagePayload", "load", "over"}, g \in Files :
         /\ pc' = [pc EXCEPT ![p] = l] /\ cur' = [cur EXCEPT ![p] = g]
         /\ out' = [out EXCEPT ![p] = None]
  BY RenameMoves
<1>3. \/ /\ tmp[cur[p]] # None
         /\ dst' = [dst EXCEPT ![cur[p]] = tmp[cur[p]]] /\ tmp' = [tmp EXCEPT ![cur[p]] = None]
      \/ UNCHANGED <<dst, tmp>>
  BY DEF Rename
<1>4. TypeOK'
  BY <1>1, <1>2, <1>3 DEF TypeOK, Labels
<1>5. Current' /\ Outputs'
  BY <1>1, <1>2 DEF Current, Outputs, TypeOK
<1>6. Separate'
  <2>1. \A q \in Procs, f \in Files : Writes(q, f)' => Writes(q, f) /\ out'[q] = out[q]
    BY <1>2 DEF TypeOK, Writes
  <2>2. \A f \in Files, i \in Inodes : Uses(f, i)' => Uses(f, i)
    BY <1>1, <1>3, <2>1, NoneAssumption DEF Uses, TypeOK
  <2>3. \A f \in Files : tmp'[f] # None => tmp'[f] # dst'[f]
    BY <1>1, <1>3 DEF Separate, TypeOK
  <2> QED BY <2>2, <2>3 DEF Separate
<1> QED BY <1>4, <1>5, <1>6

\* Start and end of a process, an update, and the host.
LEMMA ZygiskFs ==
    ASSUME FsInv, Update \/ HostMakesFiles \/ \E p \in Procs : Spawn(p) \/ Kill(p)
    PROVE  FsInv'
<1> USE DEF FsInv
<1>1. CASE Update
  <2>1. /\ modVer' \in Versions /\ \A p \in Procs : pc[p] = "dead"
        /\ UNCHANGED <<dst, tmp, data, pc, fds, ver, cur, out, off, loaded, shared>>
    BY <1>1 DEF Update, fsVars, procVars
  <2> QED BY <2>1 DEF TypeOK, Current, Outputs, Separate, Uses, Writes
<1>2. CASE HostMakesFiles
  <2>1. UNCHANGED <<dst, tmp, data, modVer, pc, fds, ver, cur, out, off, loaded, shared>>
    BY <1>2 DEF HostMakesFiles, procVars
  <2> QED BY <2>1 DEF TypeOK, Current, Outputs, Separate, Uses, Writes
<1>3. ASSUME NEW p \in Procs, Spawn(p) \/ Kill(p) PROVE FsInv'
  <2>1. PICK l \in {"stageCore", "foreign", "dead"}, v \in Versions, F \in SUBSET Files,
             g \in Files, n \in 0..Blocks :
           /\ pc' = [pc EXCEPT ![p] = l] /\ ver' = [ver EXCEPT ![p] = v]
           /\ fds' = [fds EXCEPT ![p] = F] /\ cur' = [cur EXCEPT ![p] = g]
           /\ off' = [off EXCEPT ![p] = n] /\ out' = [out EXCEPT ![p] = None]
           /\ l # "dead" => v = modVer
    <3>1. /\ cur = [cur EXCEPT ![p] = cur[p]] /\ cur[p] \in Files /\ "core" \in Files
          /\ off = [off EXCEPT ![p] = off[p]] /\ off[p] \in 0..Blocks /\ 0 \in 0..Blocks
          /\ ver = [ver EXCEPT ![p] = ver[p]] /\ ver[p] \in Versions /\ modVer \in Versions
      BY BlockAssumption DEF TypeOK, Files
    <3>2. CASE Spawn(p)
      <4>1. PICK F \in SUBSET Files : fds' = [fds EXCEPT ![p] = F]
        BY <3>2 DEF Spawn
      <4>2. /\ pc[p] = "dead" /\ \E l \in {"stageCore", "foreign"} : pc' = [pc EXCEPT ![p] = l]
            /\ ver' = [ver EXCEPT ![p] = modVer] /\ UNCHANGED <<cur, out, off>>
        BY <3>2 DEF Spawn, Goto
      <4>3. out = [out EXCEPT ![p] = None]
        BY <4>2 DEF Outputs, TypeOK
      <4> QED BY <3>1, <4>1, <4>2, <4>3
    <3>3. CASE Kill(p)
      <4>1. /\ pc' = [pc EXCEPT ![p] = "dead"] /\ fds' = [fds EXCEPT ![p] = {}]
            /\ cur' = [cur EXCEPT ![p] = "core"] /\ out' = [out EXCEPT ![p] = None]
            /\ off' = [off EXCEPT ![p] = 0] /\ UNCHANGED ver
        BY <3>3 DEF Kill, Goto
      <4> QED BY <3>1, <4>1
    <3> QED BY <1>3, <3>2, <3>3
  <2>2. UNCHANGED <<dst, tmp, data, modVer, shared>> /\ DOMAIN loaded' = Procs
    BY <1>3 DEF Spawn, Kill, fsVars, TypeOK
  <2>3. TypeOK'
    BY <2>1, <2>2 DEF TypeOK, Labels
  <2>4. Current' /\ Outputs'
    BY <2>1, <2>2 DEF TypeOK, Current, Outputs
  <2>5. \A q \in Procs, f \in Files : Writes(q, f)' => Writes(q, f) /\ out'[q] = out[q]
    BY <2>1 DEF TypeOK, Writes
  <2>6. Separate'
    BY <2>2, <2>5 DEF Separate, Uses
  <2> QED BY <2>3, <2>4, <2>6
<1> QED BY <1>1, <1>2, <1>3

\* Every step keeps the invariant of the file system.
LEMMA FsStep == FsInv /\ [Next]_vars => FsInv'
<1> SUFFICES ASSUME FsInv, [Next]_vars PROVE FsInv'
  OBVIOUS
<1>1. CASE UNCHANGED vars
  <2>1. UNCHANGED <<dst, tmp, data, modVer, pc, fds, ver, cur, out, off, loaded, shared>>
    BY <1>1 DEF vars, fsVars, procVars
  <2> QED BY <2>1 DEF FsInv, TypeOK, Current, Outputs, Separate, Uses, Writes
<1>2. ASSUME NEW p \in Procs, Run(p) PROVE FsInv'
  <2>1. CASE \/ StageCore(p) \/ StagePayload(p) \/ LoadAndStart(p)
             \/ Stat(p) \/ Compare(p) \/ StageFails(p)
    BY <2>1, QuietMoves, MoveFs
  <2> QED BY <1>2, <2>1, OpenFs, WriteFs, RenameFs DEF Run
<1> QED BY <1>1, <1>2, ZygiskFs DEF Next

\* No inode ever serves two files, and the processes of a boot have its version.
THEOREM FsInvariance == Spec => []FsInv
BY InitFsInv, FsStep, PTL DEF Spec

-----------------------------------------------------------------------------
(* What is loaded is whole.                                                *)

\* A whole file of version v, as a sequence of blocks.
LEMMA WholeSeq ==
    ASSUME NEW v \in Versions
    PROVE  /\ Whole(v) \in Seq(Versions \cup {Hole}) /\ Len(Whole(v)) = Blocks
           /\ Whole(v) # <<>> /\ Whole(v)[1] = v
<1>1. Whole(v) \in [1..Blocks -> Versions \cup {Hole}] /\ Whole(v)[1] = v
  BY BlockAssumption DEF Whole
<1>2. Whole(v) \in Seq(Versions \cup {Hole})
  BY <1>1, SeqDef, BlockAssumption
<1>3. Len(Whole(v)) = Blocks
  BY <1>1, <1>2, LenProperties, BlockAssumption
<1> QED BY <1>1, <1>2, <1>3, BlockAssumption

\* The initial states satisfy the invariant.
LEMMA InitLoadInv == Init => LoadInv
<1> SUFFICES ASSUME Init PROVE LoadInv
  OBVIOUS
<1>1. Written /\ Complete /\ Ready
  BY DEF Init, Written, Complete, Ready, Writes, Past, InStageFile
<1>2. /\ LoadsWholeUnlessShared
      /\ \A p \in Procs : pc[p] = "dead" => loaded[p] = Nothing
  BY DEF Init, LoadsWholeUnlessShared, Nothing, Files
<1> QED BY <1>1, <1>2, InitFsInv DEF LoadInv

\* What one process has loaded does not depend on what the others do.
LEMMA LoadsKept ==
    ASSUME LoadInv, shared \subseteq shared',
           \A p \in Procs : \/ loaded'[p] = Nothing
                            \/ loaded'[p] = loaded[p] /\ ver'[p] = ver[p]
    PROVE  LoadsWholeUnlessShared'
<1>1. \A f \in Files : Nothing[f] = <<>>
  BY DEF Nothing
<1>2. \A p \in Procs, f \in Files :
         loaded'[p][f] # <<>> => loaded'[p] = loaded[p] /\ ver'[p] = ver[p]
  BY <1>1
<1> QED BY <1>2 DEF LoadInv, LoadsWholeUnlessShared, LoadedWhole, Files

\* stageFile for the library or the payload comes after that for the core.
LEMMA PastMoves ==
    ASSUME FsInv, NEW p \in Procs, NEW f \in Files,
           \/ StageCore(p) \/ StagePayload(p) \/ LoadAndStart(p)
           \/ Stat(p) \/ Compare(p) \/ StageFails(p),
           Past(p, f)'
    PROVE  Past(p, f) \/ (cur[p] = f /\ SameHead(Content(f), ver[p]) /\ Compare(p))
<1> USE DEF FsInv, Past, InStageFile
<1>1. CASE StageCore(p)
  BY <1>1 DEF StageCore, Stage, Goto, TypeOK
<1>2. CASE StagePayload(p) \/ LoadAndStart(p)
  BY <1>2 DEF StagePayload, LoadAndStart, Stage, Goto, TypeOK
<1>3. CASE Stat(p)
  BY <1>3 DEF Stat, Goto, TypeOK, procVars
<1>4. ASSUME NEW ok \in BOOLEAN, Returned(p, ok), pc[p] \in InStageFile
      PROVE  Past(p, f) \/ (cur[p] = f /\ ok)
  <2>1. PICK l \in {"stat", "stagePayload", "load", "over"}, g \in Files :
           /\ pc' = [pc EXCEPT ![p] = l]
           /\ cur' = [cur EXCEPT ![p] = g]
           /\ l = "stat" => cur[p] = "core" /\ g = "lib" /\ ok
           /\ l = "stagePayload" => g = cur[p] /\ (cur[p] = "lib" \/ (cur[p] = "core" /\ ok))
           /\ l = "load" => g = cur[p] /\ cur[p] = "apk" /\ ok
    BY <1>4, ReturnedMoves
  <2>2. pc'[p] = l /\ cur'[p] = g
    BY <2>1 DEF TypeOK
  <2> QED BY <1>4, <2>1, <2>2
<1>5. CASE StageFails(p)
  BY <1>4, <1>5 DEF StageFails
<1>6. CASE Compare(p)
  <2>1. CASE SameHead(Content(cur[p]), ver[p]) /\ Returned(p, TRUE)
    BY <1>4, <1>6, <2>1 DEF Compare
  <2>2. CASE Goto(p, "open") /\ UNCHANGED <<cur, out>>
    BY <1>6, <2>2 DEF Compare, Goto, TypeOK
  <2> QED BY <1>6, <2>1, <2>2 DEF Compare
<1> QED BY <1>1, <1>2, <1>3, <1>5, <1>6

\* A file that starts like the module's is, if it is whole, of a version that
\* does.
LEMMA AlikeStaged ==
    ASSUME LoadInv, NEW p \in Procs, NEW f \in Files \ shared, SameHead(Content(f), ver[p])
    PROVE  \E v \in Versions : HeadOf[v] = HeadOf[ver[p]] /\ Staged(f, v)
<1>1. dst[f] # None /\ Content(f) = data[dst[f]]
  BY DEF SameHead, Content
<1>2. PICK v \in Versions : Staged(f, v)
  BY <1>1 DEF LoadInv, Complete
<1>3. Content(f)[1] = v
  BY <1>1, <1>2, WholeSeq DEF Staged
<1> QED BY <1>2, <1>3 DEF SameHead

\* Steps that do not touch the files.
LEMMA QuietLoad ==
    ASSUME LoadInv, NEW p \in Procs,
           \/ StageCore(p) \/ StagePayload(p) \/ LoadAndStart(p)
           \/ Stat(p) \/ Compare(p) \/ StageFails(p)
    PROVE  LoadInv'
<1>1. FsInv
  BY DEF LoadInv
<1>2. PICK l \in Labels \ {"write", "dead"}, g \in Files :
         /\ pc' = [pc EXCEPT ![p] = l] /\ cur' = [cur EXCEPT ![p] = g]
         /\ out' = [out EXCEPT ![p] = None]
  BY <1>1, QuietMoves
<1>3. UNCHANGED <<dst, tmp, data, modVer, fds, ver, off, shared>> /\ pc[p] # "dead"
  BY <1>1, QuietMoves
<1>4. /\ pc'[p] = l
      /\ \A q \in Procs \ {p} : pc'[q] = pc[q] /\ cur'[q] = cur[q] /\ out'[q] = out[q]
  BY <1>1, <1>2 DEF FsInv, TypeOK
<1>5. FsInv'
  BY <1>1, QuietMoves, MoveFs
<1>6. Written'
  <2>1. \A q \in Procs, f \in Files : Writes(q, f)' => Writes(q, f) /\ out'[q] = out[q]
    BY <1>4 DEF Writes
  <2> QED BY <1>3, <2>1 DEF LoadInv, Written
<1>7. Complete' /\ \A f \in Files, v \in Versions : Staged(f, v) => Staged(f, v)'
  BY <1>3 DEF LoadInv, Complete, Staged
<1>8. Ready'
  <2> SUFFICES ASSUME NEW f \in Files \ shared', NEW q \in Procs, Past(q, f)'
               PROVE  \E v \in Versions : HeadOf[v] = HeadOf[ver'[q]] /\ Staged(f, v)'
    BY DEF Ready
  <2>1. CASE Past(q, f)
    BY <1>3, <1>7, <2>1 DEF LoadInv, Ready
  <2>2. CASE q = p /\ SameHead(Content(f), ver[p])
    BY <1>3, <1>7, <2>2, AlikeStaged
  <2>3. q # p => Past(q, f)
    BY <1>4 DEF Past
  <2>4. q = p => Past(q, f) \/ SameHead(Content(f), ver[p])
    BY <1>1, PastMoves
  <2> QED BY <2>1, <2>2, <2>3, <2>4
<1>9. CASE ~LoadAndStart(p)
  <2>1. loaded' = loaded
    BY <1>9 DEF StageCore, StagePayload, Stat, Compare, StageFails
  <2>2. LoadsWholeUnlessShared'
    BY <1>3, <2>1, LoadsKept
  <2>3. \A q \in Procs : pc'[q] = "dead" => loaded'[q] = Nothing
    BY <1>4, <2>1 DEF LoadInv
  <2> QED BY <1>5, <1>6, <1>7, <1>8, <2>2, <2>3 DEF LoadInv
<1>10. CASE LoadAndStart(p)
  <2>1. /\ pc[p] = "load"
        /\ \A f \in Files : loaded'[p][f] = Content(f)
        /\ \A q \in Procs \ {p} : loaded'[q] = loaded[q]
    BY <1>1, <1>10 DEF LoadAndStart, FsInv, TypeOK
  <2>2. ASSUME NEW f \in {"core", "apk"} \ shared
        PROVE  \E v \in Versions : HeadOf[v] = HeadOf[ver[p]] /\ Content(f) = Whole(v)
    <3>1. Past(p, f) /\ f \in Files
      BY <2>1 DEF Past, Files
    <3> QED BY <3>1 DEF LoadInv, Ready, Staged, Content
  <2>3. "lib" \notin shared /\ Content("lib") # <<>> =>
           \E v \in Versions : Content("lib") = Whole(v)
    BY DEF LoadInv, Complete, Staged, Content, Files
  <2>4. LoadsWholeUnlessShared'
    BY <1>3, <2>1, <2>2, <2>3 DEF LoadInv, LoadsWholeUnlessShared, LoadedWhole, Files
  <2>5. \A q \in Procs : pc'[q] = "dead" => loaded'[q] = Nothing
    BY <1>4, <2>1 DEF LoadInv
  <2> QED BY <1>5, <1>6, <1>7, <1>8, <2>4, <2>5 DEF LoadInv
<1> QED BY <1>9, <1>10

\* open(tmp): the only writer has an empty file.
LEMMA OpenLoad ==
    ASSUME LoadInv, NEW p \in Procs, OpenTmp(p)
    PROVE  LoadInv'
<1>1. FsInv /\ FsInv'
  BY OpenFs DEF LoadInv
<1>2. PICK i \in Inodes :
         /\ tmp' = [tmp EXCEPT ![cur[p]] = i]
         /\ data' = [data EXCEPT ![i] = <<>>]
         /\ out' = [out EXCEPT ![p] = i]
         /\ \A f \in Files : i # dst[f]
         /\ \A q \in Procs : i = out[q] => cur[q] = cur[p]
  BY <1>1, OpenFs
<1>3. /\ pc[p] = "open" /\ pc' = [pc EXCEPT ![p] = "write"] /\ cur[p] \in Files
      /\ off' = [off EXCEPT ![p] = 0] /\ shared \subseteq shared'
      /\ cur[p] \notin shared' => ~\E q \in Procs \ {p} : Writes(q, cur[p])
      /\ UNCHANGED <<dst, modVer, fds, ver, cur, loaded>>
  BY <1>1 DEF OpenTmp, Goto, FsInv, TypeOK, Writes
<1>4. /\ pc'[p] = "write" /\ out'[p] = i /\ off'[p] = 0 /\ tmp'[cur[p]] = i
      /\ \A q \in Procs \ {p} : pc'[q] = pc[q] /\ out'[q] = out[q] /\ off'[q] = off[q]
      /\ \A f \in Files \ {cur[p]} : tmp'[f] = tmp[f]
      /\ data'[i] = <<>> /\ \A j \in Inodes \ {i} : data'[j] = data[j]
  BY <1>1, <1>2, <1>3 DEF FsInv, TypeOK
<1>5. Written'
  <2> SUFFICES ASSUME NEW f \in Files \ shared', NEW q \in Procs, Writes(q, f)'
               PROVE  /\ \A r \in Procs : Writes(r, f)' => r = q
                      /\ out'[q] = tmp'[f]
                      /\ Len(data'[out'[q]]) = off'[q]
                      /\ \A k \in 1..off'[q] : data'[out'[q]][k] = ver'[q]
    BY DEF Written
  <2>1. CASE f = cur[p]
    <3>1. \A r \in Procs : Writes(r, f)' => r = p
      BY <1>3, <1>4, <2>1 DEF Writes
    <3> QED BY <1>4, <2>1, <3>1
  <2>2. CASE f # cur[p]
    <3>1. \A r \in Procs : Writes(r, f)' => Writes(r, f) /\ r # p
      BY <1>3, <1>4, <2>2 DEF Writes
    <3>2. out[q] # i /\ out[q] \in Inodes
      BY <1>1, <1>2, <2>2, <3>1 DEF Writes, FsInv, TypeOK, Outputs
    <3>3. /\ \A r \in Procs : Writes(r, f) => r = q
          /\ out[q] = tmp[f] /\ Len(data[out[q]]) = off[q]
          /\ \A k \in 1..off[q] : data[out[q]][k] = ver[q]
      BY <1>3, <3>1 DEF LoadInv, Written
    <3> QED BY <1>3, <1>4, <2>2, <3>1, <3>2, <3>3
  <2> QED BY <2>1, <2>2
<1>6. \A f \in Files, v \in Versions : Staged(f, v) => Staged(f, v)'
  BY <1>1, <1>2, <1>3, <1>4 DEF Staged, FsInv, TypeOK
<1>7. Complete'
  BY <1>3, <1>6 DEF LoadInv, Complete
<1>8. Ready'
  <2>1. \A f \in Files, q \in Procs : Past(q, f)' => Past(q, f)
    BY <1>3, <1>4 DEF Past, InStageFile
  <2> QED BY <1>3, <1>6, <2>1 DEF LoadInv, Ready
<1>9. LoadsWholeUnlessShared' /\ \A q \in Procs : pc'[q] = "dead" => loaded'[q] = Nothing
  BY <1>3, <1>4, LoadsKept DEF LoadInv
<1> QED BY <1>1, <1>5, <1>7, <1>8, <1>9 DEF LoadInv

\* write: the blocks of another file, and of the staged one, stay as they are.
LEMMA WriteLoad ==
    ASSUME LoadInv, NEW p \in Procs, WriteBlock(p)
    PROVE  LoadInv'
<1>1. FsInv /\ FsInv'
  BY WriteFs DEF LoadInv
<1>2. /\ Writes(p, cur[p]) /\ cur[p] \in Files /\ out[p] \in Inodes
      /\ off[p] \in Nat /\ ver[p] \in Versions /\ data[out[p]] \in Seq(Versions \cup {Hole})
      /\ data'[out[p]] = Put(data[out[p]], off[p] + 1, ver[p])
      /\ \A j \in Inodes \ {out[p]} : data'[j] = data[j]
      /\ off'[p] = off[p] + 1 /\ \A q \in Procs \ {p} : off'[q] = off[q]
      /\ UNCHANGED <<dst, tmp, modVer, pc, fds, ver, cur, out, loaded, shared>>
  BY <1>1, BlockAssumption DEF WriteBlock, FsInv, TypeOK, Outputs, Writes
<1>3. \A f \in Files : Uses(f, out[p]) => f = cur[p]
  BY <1>1, <1>2 DEF FsInv, Separate, Uses
<1>4. Written'
  <2> SUFFICES ASSUME NEW f \in Files \ shared, NEW q \in Procs, Writes(q, f)
               PROVE  /\ \A r \in Procs : Writes(r, f) => r = q
                      /\ out[q] = tmp[f]
                      /\ Len(data'[out[q]]) = off'[q]
                      /\ \A k \in 1..off'[q] : data'[out[q]][k] = ver[q]
    BY <1>2 DEF Written, Writes
  <2>1. /\ \A r \in Procs : Writes(r, f) => r = q
        /\ out[q] = tmp[f] /\ Len(data[out[q]]) = off[q]
        /\ \A k \in 1..off[q] : data[out[q]][k] = ver[q]
    BY DEF LoadInv, Written
  <2>2. CASE q = p
    <3>1. /\ Len(data'[out[p]]) = off[p] + 1
          /\ \A j \in 1..(off[p] + 1) :
                data'[out[p]][j] = IF j = off[p] + 1 THEN ver[p] ELSE data[out[p]][j]
      <4>1. Len(data[out[p]]) = off[p]
        BY <2>1, <2>2
      <4>2. Len(data'[out[p]]) = off[p] + 1
        <5>1. Len(Put(data[out[p]], off[p] + 1, ver[p])) =
                 IF Len(data[out[p]]) > off[p] + 1 THEN Len(data[out[p]]) ELSE off[p] + 1
          BY <1>2, PutIsSeq, Zenon
        <5>2. ~(off[p] > off[p] + 1)
          BY <1>2
        <5> QED BY <1>2, <4>1, <5>1, <5>2, Zenon
      <4>3. \A j \in 1..(off[p] + 1) :
               data'[out[p]][j] = IF j = off[p] + 1 THEN ver[p] ELSE data[out[p]][j]
        BY <1>2, <4>1 DEF Put
      <4> QED BY <4>2, <4>3
    <3>2. \A k \in 1..(off[p] + 1) : k \in 1..off[p] \/ k = off[p] + 1
      BY <1>2
    <3> QED BY <1>2, <2>1, <2>2, <3>1, <3>2
  <2>3. CASE q # p
    <3>1. f # cur[p]
      BY <1>2, <2>1, <2>3
    <3>2. out[q] # out[p] /\ out[q] \in Inodes
      BY <1>1, <1>3, <3>1 DEF Uses, Writes, FsInv, TypeOK, Outputs
    <3> QED BY <1>2, <2>1, <2>3, <3>2
  <2> QED BY <2>2, <2>3
<1>5. \A f \in Files \ shared, v \in Versions : Staged(f, v) => Staged(f, v)'
  <2> SUFFICES ASSUME NEW f \in Files \ shared, dst[f] # None PROVE data'[dst[f]] = data[dst[f]]
    BY <1>2 DEF Staged
  <2>1. dst[f] \in Inodes
    BY <1>1 DEF FsInv, TypeOK
  <2>2. f = cur[p] => out[p] = tmp[f]
    BY <1>2 DEF LoadInv, Written
  <2>3. dst[f] # out[p]
    BY <1>1, <1>2, <1>3, <2>2, NoneAssumption DEF Uses, FsInv, Separate
  <2> QED BY <1>2, <2>1, <2>3
<1>6. Complete' /\ Ready'
  BY <1>2, <1>5 DEF LoadInv, Complete, Ready, Past
<1>7. LoadsWholeUnlessShared' /\ \A q \in Procs : pc'[q] = "dead" => loaded'[q] = Nothing
  BY <1>2, LoadsKept DEF LoadInv
<1> QED BY <1>1, <1>4, <1>6, <1>7 DEF LoadInv

\* A file whose blocks all carry v is the whole file of v.
LEMMA AllBlocks ==
    ASSUME NEW c \in Seq(Versions \cup {Hole}), NEW v \in Versions, Len(c) = Blocks,
           \A k \in 1..Blocks : c[k] = v
    PROVE  c = Whole(v)
<1>1. DOMAIN c = 1..Blocks
  BY LenProperties
<1>2. c = [k \in 1..Blocks |-> c[k]]
  BY <1>1
<1> QED BY <1>2 DEF Whole

\* rename: the only writer of the file has written all of it.
LEMMA RenamedWhole ==
    ASSUME LoadInv, NEW p \in Procs, Rename(p), cur[p] \notin shared
    PROVE  dst'[cur[p]] # None /\ data'[dst'[cur[p]]] = Whole(ver[p])
<1>1. /\ Writes(p, cur[p]) /\ cur[p] \in Files /\ off[p] = Blocks /\ ver[p] \in Versions
      /\ UNCHANGED <<data, ver>>
      /\ tmp[cur[p]] # None => dst'[cur[p]] = tmp[cur[p]]
  BY DEF Rename, LoadInv, FsInv, TypeOK, Writes
<1>2. /\ out[p] = tmp[cur[p]] /\ Len(data[out[p]]) = Blocks
      /\ \A k \in 1..Blocks : data[out[p]][k] = ver[p]
  BY <1>1 DEF LoadInv, Written
<1>3. out[p] \in Inodes /\ out[p] # None
  BY <1>1, NoneAssumption DEF LoadInv, FsInv, TypeOK, Outputs, Writes
<1>4. data[out[p]] = Whole(ver[p])
  <2>1. data[out[p]] \in Seq(Versions \cup {Hole})
    BY <1>3 DEF LoadInv, FsInv, TypeOK
  <2> QED BY <1>1, <1>2, <2>1, AllBlocks
<1> QED BY <1>1, <1>2, <1>3, <1>4

\* rename: the staged file is whole and of the version of this boot, so that it
\* serves every process that has staged it before.
LEMMA RenameLoad ==
    ASSUME LoadInv, NEW p \in Procs, Rename(p)
    PROVE  LoadInv'
<1>1. FsInv /\ FsInv'
  BY RenameFs DEF LoadInv
<1>2. PICK l \in {"stat", "stagePayload", "load", "over"}, g \in Files :
         /\ pc' = [pc EXCEPT ![p] = l] /\ cur' = [cur EXCEPT ![p] = g]
         /\ out' = [out EXCEPT ![p] = None]
         /\ l = "stat" => cur[p] = "core" /\ g = "lib"
         /\ l = "stagePayload" => g = cur[p] /\ cur[p] \in {"lib", "core"}
         /\ l = "load" => g = cur[p] /\ cur[p] = "apk"
  BY <1>1, RenameMoves
<1>3. /\ Writes(p, cur[p]) /\ cur[p] \in Files /\ off[p] = Blocks
      /\ UNCHANGED <<data, modVer, fds, ver, off, loaded, shared>>
      /\ \A f \in Files \ {cur[p]} : dst'[f] = dst[f] /\ tmp'[f] = tmp[f]
      /\ tmp[cur[p]] # None => dst'[cur[p]] = tmp[cur[p]]
  BY <1>1 DEF Rename, FsInv, TypeOK, Writes
<1>4. /\ pc'[p] = l /\ cur'[p] = g
      /\ \A q \in Procs \ {p} : pc'[q] = pc[q] /\ cur'[q] = cur[q] /\ out'[q] = out[q]
  BY <1>1, <1>2 DEF FsInv, TypeOK
<1>5. \A q \in Procs, f \in Files : Writes(q, f)' => q # p /\ Writes(q, f) /\ out'[q] = out[q]
  BY <1>4 DEF Writes
<1>6. PICK h \in Files, w \in Versions : h = cur[p] /\ w = ver[p]
  BY <1>1, <1>3 DEF FsInv, TypeOK
<1>7. h \notin shared => Staged(h, w)'
  BY <1>6, RenamedWhole DEF Staged
<1>8. Written'
  <2> SUFFICES ASSUME NEW f \in Files \ shared', NEW q \in Procs, Writes(q, f)'
               PROVE  /\ \A r \in Procs : Writes(r, f)' => r = q
                      /\ out'[q] = tmp'[f]
                      /\ Len(data'[out'[q]]) = off'[q]
                      /\ \A k \in 1..off'[q] : data'[out'[q]][k] = ver'[q]
    BY DEF Written
  <2>1. q # p /\ Writes(q, f) /\ out'[q] = out[q]
    BY <1>5
  <2>2. /\ \A r \in Procs : Writes(r, f) => r = q
        /\ out[q] = tmp[f] /\ Len(data[out[q]]) = off[q]
        /\ \A k \in 1..off[q] : data[out[q]][k] = ver[q]
    BY <1>3, <2>1 DEF LoadInv, Written
  <2>3. f # cur[p]
    BY <1>3, <2>1, <2>2
  <2> QED BY <1>3, <1>5, <2>1, <2>2, <2>3
<1>9. \A f \in Files \ {h}, v \in Versions : Staged(f, v) => Staged(f, v)'
  BY <1>3, <1>6 DEF Staged
<1>10. Complete'
  BY <1>3, <1>6, <1>7, <1>9 DEF LoadInv, Complete
<1>11. Ready'
  <2> SUFFICES ASSUME NEW f \in Files \ shared', NEW q \in Procs, Past(q, f)'
               PROVE  \E v \in Versions : HeadOf[v] = HeadOf[ver'[q]] /\ Staged(f, v)'
    BY DEF Ready
  <2>1. CASE f = h
    <3>1. pc[q] # "dead" /\ pc[p] # "dead"
      BY <1>3, <1>4 DEF Past, InStageFile, Writes
    <3>2. ver'[q] = w
      BY <1>1, <1>3, <1>6, <3>1 DEF FsInv, Current
    <3> QED BY <1>3, <1>7, <2>1, <3>2
  <2>2. CASE f # h
    <3>1. Past(q, f)
      BY <1>2, <1>3, <1>4, <1>6, <2>2 DEF Past, InStageFile, Writes
    <3> QED BY <1>3, <1>9, <2>2, <3>1 DEF LoadInv, Ready
  <2> QED BY <2>1, <2>2
<1>12. LoadsWholeUnlessShared' /\ \A q \in Procs : pc'[q] = "dead" => loaded'[q] = Nothing
  BY <1>3, <1>4, LoadsKept DEF LoadInv
<1> QED BY <1>1, <1>8, <1>10, <1>11, <1>12 DEF LoadInv

\* Start and end of a process, an update, and the host.
LEMMA ZygiskLoad ==
    ASSUME LoadInv, Update \/ HostMakesFiles \/ \E p \in Procs : Spawn(p) \/ Kill(p)
    PROVE  LoadInv'
<1>1. FsInv /\ FsInv'
  BY ZygiskFs DEF LoadInv
<1>2. UNCHANGED <<dst, tmp, data, shared>>
  BY DEF Update, HostMakesFiles, Spawn, Kill, fsVars
<1>3. ASSUME UNCHANGED <<pc, cur, out, off, ver, loaded>> PROVE LoadInv'
  <2>1. Written' /\ Complete' /\ Ready'
    BY <1>2, <1>3 DEF LoadInv, Written, Complete, Ready, Staged, Past, Writes
  <2>2. LoadsWholeUnlessShared'
    BY <1>2, <1>3, LoadsKept
  <2> QED BY <1>1, <1>3, <2>1, <2>2 DEF LoadInv
<1>4. ASSUME NEW p \in Procs, Spawn(p) \/ Kill(p) PROVE LoadInv'
  <2>1. /\ pc'[p] \in {"dead", "stageCore", "foreign"}
        /\ \A q \in Procs \ {p} : /\ pc'[q] = pc[q] /\ cur'[q] = cur[q] /\ out'[q] = out[q]
                                  /\ off'[q] = off[q] /\ ver'[q] = ver[q]
                                  /\ loaded'[q] = loaded[q]
        /\ loaded'[p] = Nothing
    <3>1. CASE Spawn(p)
      BY <1>1, <3>1 DEF Spawn, Goto, FsInv, TypeOK, LoadInv
    <3>2. CASE Kill(p)
      BY <1>1, <3>2 DEF Kill, Goto, FsInv, TypeOK
    <3> QED BY <1>4, <3>1, <3>2
  <2>2. \A q \in Procs, f \in Files : Writes(q, f)' => q # p /\ Writes(q, f)
    BY <2>1 DEF Writes
  <2>3. \A q \in Procs, f \in Files : Past(q, f)' => q # p /\ Past(q, f)
    BY <2>1 DEF Past, InStageFile
  <2>4. Written'
    BY <1>2, <2>1, <2>2 DEF LoadInv, Written
  <2>5. Complete' /\ Ready'
    BY <1>2, <2>1, <2>3 DEF LoadInv, Complete, Ready, Staged
  <2>6. LoadsWholeUnlessShared'
    BY <1>2, <2>1, LoadsKept
  <2>7. \A q \in Procs : pc'[q] = "dead" => loaded'[q] = Nothing
    BY <2>1 DEF LoadInv
  <2> QED BY <1>1, <2>4, <2>5, <2>6, <2>7 DEF LoadInv
<1>5. CASE Update \/ HostMakesFiles
  BY <1>3, <1>5 DEF Update, HostMakesFiles, procVars
<1> QED BY <1>4, <1>5

\* Every step keeps the invariant.
LEMMA LoadStep == LoadInv /\ [Next]_vars => LoadInv'
<1> SUFFICES ASSUME LoadInv, [Next]_vars PROVE LoadInv'
  OBVIOUS
<1>1. CASE UNCHANGED vars
  <2>1. UNCHANGED <<dst, tmp, data, modVer, pc, fds, ver, cur, out, off, loaded, shared>>
    BY <1>1 DEF vars, fsVars, procVars
  <2>2. FsInv'
    BY <1>1, FsStep DEF LoadInv
  <2> QED BY <2>1, <2>2 DEF LoadInv, Written, Complete, Ready, Staged, Past, Writes,
                            LoadsWholeUnlessShared, LoadedWhole
<1>2. ASSUME NEW p \in Procs, Run(p) PROVE LoadInv'
  BY <1>2, QuietLoad, OpenLoad, WriteLoad, RenameLoad DEF Run
<1> QED BY <1>1, <1>2, ZygiskLoad DEF Next

\* A process loads whole files of its own version, or of one that starts like
\* it, in spite of kills, failures, updates and processes beside it, unless two
\* processes have written the temporary file at the same time.
THEOREM LoadsWhole == Spec => []LoadsWholeUnlessShared
<1>1. LoadInv => LoadsWholeUnlessShared
  BY DEF LoadInv
<1> QED BY <1>1, InitLoadInv, LoadStep, PTL DEF Spec

-----------------------------------------------------------------------------
(* What is staged stays.                                                   *)

\* One step of StagedStays, for one file.
LEMMA StagedStep ==
    ASSUME LoadInv, Next, NEW f \in Files, f \notin shared'
    PROVE  /\ dst[f] # None => data'[dst[f]] = data[dst[f]]
           /\ Content(f) = Whole(modVer) /\ modVer' = modVer => Content(f)' = Whole(modVer)
<1>1. FsInv /\ modVer \in Versions /\ dst[f] \in Inodes \cup {None}
  BY DEF LoadInv, FsInv, TypeOK
<1>2. ASSUME dst'[f] = dst[f], dst[f] # None => data'[dst[f]] = data[dst[f]]
      PROVE  Content(f)' = Content(f)
  BY <1>2 DEF Content
<1>3. CASE UNCHANGED <<dst, data>>
  BY <1>2, <1>3
<1>4. CASE Update \/ HostMakesFiles \/ \E p \in Procs : Spawn(p) \/ Kill(p)
  BY <1>3, <1>4 DEF Update, HostMakesFiles, Spawn, Kill, fsVars
<1>5. ASSUME NEW p \in Procs,
             \/ StageCore(p) \/ StagePayload(p) \/ LoadAndStart(p)
             \/ Stat(p) \/ Compare(p) \/ StageFails(p)
      PROVE  UNCHANGED <<dst, data>>
  BY <1>1, <1>5, QuietMoves
<1>6. ASSUME NEW p \in Procs, OpenTmp(p)
      PROVE  dst' = dst /\ (dst[f] # None => data'[dst[f]] = data[dst[f]])
  <2>1. PICK i \in Inodes : data' = [data EXCEPT ![i] = <<>>] /\ i # dst[f]
    BY <1>1, <1>6, OpenFs
  <2> QED BY <1>1, <1>6, <2>1 DEF OpenTmp, FsInv, TypeOK
<1>7. ASSUME NEW p \in Procs, WriteBlock(p)
      PROVE  dst' = dst /\ (dst[f] # None => data'[dst[f]] = data[dst[f]])
  <2>1. /\ Writes(p, cur[p]) /\ cur[p] \in Files /\ out[p] \in Inodes
        /\ \E c : data' = [data EXCEPT ![out[p]] = c]
        /\ dst' = dst /\ shared' = shared
    BY <1>1, <1>7 DEF WriteBlock, Writes, FsInv, TypeOK, Outputs
  <2>2. f = cur[p] => out[p] = tmp[f]
    BY <2>1 DEF LoadInv, Written
  <2>3. Uses(cur[p], out[p]) /\ Uses(f, dst[f])
    BY <2>1 DEF Uses
  <2>4. dst[f] # None => dst[f] # out[p]
    BY <1>1, <2>1, <2>2, <2>3, NoneAssumption DEF FsInv, Separate
  <2> QED BY <1>1, <2>1, <2>4 DEF FsInv, TypeOK
<1>8. ASSUME NEW p \in Procs, Rename(p), modVer' = modVer
      PROVE  data' = data /\ (Content(f)' = Content(f) \/ Content(f)' = Whole(modVer))
  <2>1. /\ cur[p] \in Files /\ UNCHANGED <<data, shared>> /\ pc[p] = "write"
        /\ f # cur[p] => dst'[f] = dst[f]
    BY <1>1, <1>8 DEF Rename, FsInv, TypeOK
  <2>2. CASE f # cur[p]
    BY <1>2, <2>1, <2>2
  <2>3. CASE f = cur[p]
    <3>1. dst'[f] # None /\ data'[dst'[f]] = Whole(ver[p])
      BY <1>8, <2>1, <2>3, RenamedWhole
    <3>2. ver[p] = modVer
      BY <1>1, <2>1 DEF FsInv, Current
    <3> QED BY <2>1, <3>1, <3>2 DEF Content
  <2> QED BY <2>1, <2>2, <2>3
<1>9. ASSUME NEW p \in Procs, Rename(p) PROVE data' = data /\ modVer' = modVer
  BY <1>9 DEF Rename
<1>10. ASSUME NEW p \in Procs, Run(p)
       PROVE  /\ dst[f] # None => data'[dst[f]] = data[dst[f]]
              /\ Content(f) = Whole(modVer) /\ modVer' = modVer => Content(f)' = Whole(modVer)
  <2>1. CASE OpenTmp(p) \/ WriteBlock(p)
    BY <1>2, <1>6, <1>7, <2>1
  <2>2. CASE Rename(p)
    BY <1>8, <1>9, <2>2
  <2> QED BY <1>3, <1>5, <1>10, <2>1, <2>2 DEF Run
<1> QED BY <1>4, <1>10 DEF Next

\* No step changes a staged file in place, and the whole of the current version,
\* once staged, is what readers find until the module is updated, although
\* processes whose checks fail stage it again (stageFile).
THEOREM StaysStaged == Spec => StagedStays
<1> DEFINE A == \A f \in Files \ shared' :
                   /\ dst[f] # None => data'[dst[f]] = data[dst[f]]
                   /\ Content(f) = Whole(modVer) /\ modVer' = modVer
                        => Content(f)' = Whole(modVer)
<1>1. LoadInv /\ [Next]_vars => [A]_vars
  BY StagedStep
<1> QED BY <1>1, InitLoadInv, LoadStep, PTL DEF Spec, StagedStays

-----------------------------------------------------------------------------
(***************************************************************************)
(* Proofs about WebUI, for any switches and packages, any number of pages  *)
(* and saves: the page shows the switches it has read (SwitchesReadBack),  *)
(* "saved" is true (SavedIsOnDisk), and a write changes only what the user *)
(* touched (UntouchedKept).                                                *)
(*                                                                         *)
(* All three rest on what a page knows of the file.  As long as saves did  *)
(* not overlap there is one save at most (OneSave), and a page that loaded *)
(* in peace sees every later write, because it made it (OwnSaves, Known).  *)
(***************************************************************************)
Lines == Switches \cup {PkgLine(p) : p \in Targets}
Contents == [Lines -> BOOLEAN]
Job == [id : Nat, page : Nat, data : Contents, touched : SUBSET Settings, early : BOOLEAN]

Typed ==
    /\ file \in Contents \cup {<<>>}
    /\ answer \in Contents \cup {<<>>}
    /\ state \in [Settings -> BOOLEAN]
    /\ box \in [Switches -> BOOLEAN]
    /\ jobs \subseteq Job
    /\ saves \in Nat /\ pages \in Nat \ {0}
    /\ offline \in BOOLEAN /\ early \in BOOLEAN /\ clean \in BOOLEAN
    /\ load \in {"cat", "answered", "done"}
    /\ touched \subseteq Settings

\* Saves that never overlapped.
OneSave == clean => \A i, j \in jobs : i = j

\* A page that loaded in peace has made every save that is under way, and none
\* before its load was done.
OwnSaves ==
    /\ \A j \in jobs : j.page = pages => ~offline
    /\ ~early /\ (status = "saved" \/ \E j \in jobs : j.page = pages) => load = "done"
    /\ clean /\ ~early /\ ~offline /\ load # "cat" => \A j \in jobs : j.page = pages
    /\ clean /\ status = "saved" => \A j \in jobs : j.page = pages

\* What such a page knows of the file, and what its save will write.
Known ==
    clean /\ ~early /\ ~offline =>
        /\ load = "answered" => answer = file
        /\ load = "done" /\ file # <<>> => \A k \in Switches \ touched : box[k] = file[k]
        /\ \A j \in jobs : j.page = pages => \A k \in Switches \ touched : j.data[k] = box[k]

\* The save under way, and the file after "saved", are what the page shows up to
\* the edits since.
Shows(d) ==
    /\ \A k \in Switches : d[k] # box[k] => k \in dirty
    /\ \A p \in Targets : d[PkgLine(p)] # state[p] => p \in dirty
Shown ==
    clean /\ ~early =>
        /\ \A j \in jobs : j.page = pages => Shows(j.data)
        /\ status = "saved" /\ jobs = {} => Shows(file)

\* A save under way would change only switches touched on its page.
Touches ==
    \A j \in jobs : clean /\ ~j.early /\ file # <<>> =>
        \A k \in Switches \ j.touched : j.data[k] = file[k]

IInv == Typed /\ OneSave /\ OwnSaves /\ Known /\ Shown /\ Touches /\ SwitchesReadBack

-----------------------------------------------------------------------------
\* serialize: the line of a switch has its value, the line of a package that of
\* the package.
LEMMA Serialized ==
    ASSUME NEW s \in [Settings -> BOOLEAN]
    PROVE  /\ Serialize(s) \in Contents
           /\ \A k \in Switches : Serialize(s)[k] = s[k]
           /\ \A p \in Targets : Serialize(s)[PkgLine(p)] = s[p]
<1> DEFINE P == {PkgLine(p) : p \in Targets}
<1>1. Serialize(s) = [l \in Switches \cup P |-> IF l \in Switches THEN s[l] ELSE s[l[2]]]
  BY DEF Serialize
<1>2. \A p \in Targets : PkgLine(p)[2] = p /\ PkgLine(p) \in P
  BY DEF PkgLine
<1>3. \A l \in P : s[l[2]] \in BOOLEAN
  BY <1>2 DEF Settings
<1>4. \A k \in Switches : s[k] \in BOOLEAN
  BY DEF Settings
<1> HIDE DEF P
<1> QED BY <1>1, <1>2, <1>3, <1>4, KeysAssumption DEF Contents, Lines, P

\* The initial states satisfy the invariant.
LEMMA InitIInv == PageInit => IInv
<1> SUFFICES ASSUME PageInit PROVE IInv
  OBVIOUS
<1>1. Typed
  <2>1. state \in [Settings -> BOOLEAN] /\ box \in [Switches -> BOOLEAN]
    BY DEF PageInit, Defaults
  <2>2. saves \in Nat /\ pages \in Nat \ {0}
    BY DEF PageInit
  <2>3. offline \in BOOLEAN /\ early \in BOOLEAN /\ clean \in BOOLEAN
    BY Zenon DEF PageInit
  <2> QED BY <2>1, <2>2, <2>3 DEF PageInit, Typed
<1> QED BY <1>1 DEF PageInit, IInv, OneSave, OwnSaves, Known, Shown, Touches, SwitchesReadBack

\* A page is closed and another opened: its saves go on, none of them its own.
LEMMA ReopenStep == IInv /\ Reopen => IInv'
<1> SUFFICES ASSUME IInv, Reopen PROVE IInv'
  OBVIOUS
<1> USE DEF IInv
<1>1. /\ pages' = pages + 1 /\ pages' \in Nat \ {0} /\ UNCHANGED <<file, saves, clean>>
      /\ answer' = <<>> /\ early' = FALSE /\ status' = "none" /\ touched' = {}
      /\ state' = Defaults /\ box' = [k \in Switches |-> TRUE]
      /\ \/ offline' = FALSE /\ load' = "cat"
         \/ offline' = TRUE /\ load' = "done"
  BY DEF Reopen, Open, Typed
<1>2. \A i \in jobs' : \E j \in jobs :
         /\ i = [j EXCEPT !.page = 0] /\ i \in Job /\ i.page = 0
         /\ i.data = j.data /\ i.touched = j.touched /\ i.early = j.early
  BY DEF Reopen, Typed, Job
<1>3. Typed'
  BY <1>1, <1>2 DEF Typed, Defaults, Settings
<1>4. \A i \in jobs' : i.page # pages'
  BY <1>1, <1>2
<1>5. OneSave'
  BY <1>1, <1>2 DEF OneSave
<1>6. OwnSaves' /\ Known' /\ Shown'
  BY <1>1, <1>4 DEF OwnSaves, Known, Shown
<1>7. Touches'
  BY <1>1, <1>2 DEF Touches
<1>8. SwitchesReadBack'
  BY <1>1 DEF SwitchesReadBack
<1> QED BY <1>3, <1>5, <1>6, <1>7, <1>8

\* cat read the file; in peace, no save was under way.
LEMMA CatStep == IInv /\ CatReads => IInv'
<1> SUFFICES ASSUME IInv, CatReads PROVE IInv'
  OBVIOUS
<1> USE DEF IInv
<1>1. /\ load = "cat" /\ load' = "answered"
      /\ answer' \in {file, <<>>} /\ (jobs = {} => answer' = file)
      /\ early' \in BOOLEAN /\ (~early' => ~early /\ jobs = {})
      /\ UNCHANGED <<file, state, box, offline, status, touched, dirty, jobs, saves, pages, clean>>
  BY DEF CatReads, Typed
<1>2. Typed'
  BY <1>1 DEF Typed
<1>3. OneSave' /\ Touches' /\ SwitchesReadBack'
  BY <1>1 DEF OneSave, Touches, SwitchesReadBack
<1>4. OwnSaves' /\ Known'
  BY <1>1 DEF OwnSaves, Known
<1>5. Shown'
  BY <1>1 DEF Shown, Shows
<1> QED BY <1>2, <1>3, <1>4, <1>5

\* The page shows what cat has read.
LEMMA LoadContinuesStep == IInv /\ LoadContinues => IInv'
<1> SUFFICES ASSUME IInv, LoadContinues PROVE IInv'
  OBVIOUS
<1> USE DEF IInv
<1>1. /\ load = "answered" /\ load' = "done" /\ state' = Parse(answer)
      /\ box' = [k \in Switches |-> Parse(answer)[k]]
      /\ UNCHANGED <<file, offline, answer, status, touched, dirty, early, jobs, saves, pages, clean>>
  BY DEF LoadContinues, Restrict
<1>2. Parse(answer) \in [Settings -> BOOLEAN]
  <2>1. \A k \in Settings : k \in DOMAIN answer => answer[k] \in BOOLEAN
    BY DEF Typed, Contents
  <2> QED BY <2>1 DEF Parse, Typed
<1>3. answer # <<>> => \A k \in Switches : box'[k] = answer[k]
  BY <1>1 DEF Parse, Settings, Typed, Contents, Lines
<1>4. Typed'
  BY <1>1, <1>2 DEF Typed, Settings
<1>5. OneSave' /\ Touches' /\ SwitchesReadBack'
  BY <1>1, <1>3 DEF OneSave, Touches, SwitchesReadBack
<1>6. ~early => status # "saved" /\ \A j \in jobs : j.page # pages
  BY <1>1 DEF OwnSaves
<1>7. OwnSaves' /\ Known'
  BY <1>1, <1>3, <1>6 DEF OwnSaves, Known
<1>8. Shown'
  BY <1>1, <1>6 DEF Shown
<1> QED BY <1>4, <1>5, <1>7, <1>8

\* The user edits the page.
LEMMA ToggleStep == ASSUME IInv, NEW k \in Settings, Toggle(k) PROVE IInv'
<1> USE DEF IInv
<1>1. /\ touched' = touched \cup {k} /\ dirty' = dirty \cup {k}
      /\ box' \in [Switches -> BOOLEAN] /\ state' \in [Settings -> BOOLEAN]
      /\ \A i \in Switches \ {k} : box'[i] = box[i]
      /\ \A i \in Settings \ {k} : state'[i] = state[i]
      /\ UNCHANGED <<file, offline, load, answer, status, early, jobs, saves, pages, clean>>
  BY DEF Toggle, Typed
<1>2. Typed'
  BY <1>1 DEF Typed
<1>3. OneSave' /\ OwnSaves' /\ Touches' /\ SwitchesReadBack'
  BY <1>1 DEF OneSave, OwnSaves, Touches, SwitchesReadBack
<1>4. Known'
  BY <1>1 DEF Known
<1>5. \A d : Shows(d) => Shows(d)'
  BY <1>1 DEF Shows, Settings
<1>6. Shown'
  BY <1>1, <1>5 DEF Shown
<1> QED BY <1>2, <1>3, <1>4, <1>6

\* A click on save.
LEMMA SaveStep == IInv /\ Save => IInv'
<1> SUFFICES ASSUME IInv, Save PROVE IInv'
  OBVIOUS
<1> USE DEF IInv
<1>1. UNCHANGED <<file, state, box, offline, load, answer, touched, pages>>
  BY DEF Save
<1>2. CASE offline
  <2>1. status' = "offline" /\ UNCHANGED <<jobs, saves, clean, early, dirty>>
    BY <1>2 DEF Save
  <2>2. Typed'
    BY <1>1, <2>1 DEF Typed
  <2>3. OneSave' /\ OwnSaves' /\ Touches' /\ SwitchesReadBack'
    BY <1>1, <2>1 DEF OneSave, OwnSaves, Touches, SwitchesReadBack
  <2>4. Known' /\ Shown'
    BY <1>1, <2>1 DEF Known, Shown, Shows
  <2> QED BY <2>2, <2>3, <2>4
<1>3. CASE ~offline
  <2>1. PICK n : n = [id |-> saves + 1, page |-> pages, data |-> Serialize(Collect),
                      touched |-> touched, early |-> early']
    OBVIOUS
  <2>2. /\ saves' = saves + 1 /\ early' = (early \/ load # "done") /\ dirty' = {}
        /\ jobs' = jobs \cup {n} /\ clean' = (clean /\ jobs = {}) /\ UNCHANGED status
    BY <1>3, <2>1 DEF Save
  <2>3. early' \in BOOLEAN /\ clean' \in BOOLEAN
    BY <2>2, Zenon
  <2>4. /\ Serialize(Collect) \in Contents
        /\ \A k \in Switches : Serialize(Collect)[k] = box[k]
        /\ \A p \in Targets : Serialize(Collect)[PkgLine(p)] = state[p]
    <3>1. /\ Collect \in [Settings -> BOOLEAN]
          /\ \A k \in Switches : Collect[k] = box[k]
          /\ \A p \in Targets : Collect[p] = state[p]
      BY KeysAssumption DEF Collect, Typed, Settings
    <3> QED BY <3>1, Serialized
  <2>5. /\ n \in Job /\ n.page = pages /\ n.touched = touched /\ n.early = early'
        /\ \A k \in Switches : n.data[k] = box[k]
        /\ \A p \in Targets : n.data[PkgLine(p)] = state[p]
    BY <2>1, <2>3, <2>4 DEF Typed, Job
  <2>6. Typed'
    BY <1>1, <2>2, <2>3, <2>5 DEF Typed
  <2>7. OneSave'
    BY <2>2 DEF OneSave
  <2>8. OwnSaves'
    BY <1>1, <1>3, <2>2, <2>5 DEF OwnSaves
  <2>9. Known'
    BY <1>1, <1>3, <2>2, <2>5 DEF Known, OwnSaves
  <2>10. Shown'
    BY <1>1, <2>2, <2>5 DEF Shown, Shows
  <2>11. Touches'
    BY <1>1, <1>3, <2>2, <2>5 DEF Touches, Known
  <2>12. SwitchesReadBack'
    BY <1>1, <2>2 DEF SwitchesReadBack
  <2> QED BY <2>6, <2>7, <2>8, <2>9, <2>10, <2>11, <2>12
<1> QED BY <1>2, <1>3

\* A shell ends.  Without overlap it was the only one.
LEMMA JobStep == ASSUME IInv, NEW j \in jobs, JobEnds(j) PROVE IInv'
<1> USE DEF IInv
<1>1. /\ jobs' = jobs \ {j} /\ (clean => jobs' = {})
      /\ UNCHANGED <<state, box, offline, load, answer, touched, dirty, early, saves, pages, clean>>
  BY DEF JobEnds, OneSave
<1>2. \/ file' = j.data /\ status' = IF j.page = pages THEN "saved" ELSE status
      \/ file' \in {file, <<>>, j.data} /\ status' = IF j.page = pages THEN "failed" ELSE status
  BY DEF JobEnds
<1>3. j \in Job /\ j.data \in Contents
  BY DEF Typed, Job
<1>4. Typed'
  BY <1>1, <1>2, <1>3 DEF Typed
<1>5. OneSave' /\ SwitchesReadBack' /\ Touches'
  BY <1>1 DEF OneSave, SwitchesReadBack, Touches
<1>6. OwnSaves'
  BY <1>1, <1>2 DEF OwnSaves
<1>7. Known'
  BY <1>1, <1>2 DEF Known, OwnSaves
<1>8. Shown'
  BY <1>1, <1>2 DEF Shown, Shows, OwnSaves
<1> QED BY <1>4, <1>5, <1>6, <1>7, <1>8

\* Every step keeps the invariant.
LEMMA Step == IInv /\ [PageNext]_pageVars => IInv'
<1> SUFFICES ASSUME IInv, [PageNext]_pageVars PROVE IInv'
  OBVIOUS
<1>1. CASE UNCHANGED pageVars
  BY <1>1 DEF pageVars, jsVars, IInv, Typed, OneSave, OwnSaves, Known, Shown, Shows, Touches,
              SwitchesReadBack
<1> QED BY <1>1, ReopenStep, CatStep, LoadContinuesStep, SaveStep, ToggleStep, JobStep DEF PageNext

\* What a page knows of the file and its saves, in every reachable state.
THEOREM Invariance == PageSpec => []IInv
BY InitIInv, Step, PTL DEF PageSpec

\* A page that has loaded the file shows the switches it read, but for those the
\* user has touched: parse reads back what serialize wrote.
THEOREM ReadBack == PageSpec => []SwitchesReadBack
<1>1. IInv => SwitchesReadBack
  BY DEF IInv
<1> QED BY <1>1, Invariance, PTL

\* When the page says "saved", what it shows is in the file up to later edits.
THEOREM OnDisk == PageSpec => []SavedIsOnDisk
<1>1. IInv => SavedIsOnDisk
  BY DEF IInv, Shown, Shows, SavedIsOnDisk
<1> QED BY <1>1, Invariance, PTL

\* A write changes only the switches the user touched on the page that saved.
THEOREM Untouched == PageSpec => UntouchedKept
<1> DEFINE A == \A k \in Switches :
                   clean /\ <<>> \notin {file, file'} /\ file[k] # file'[k]
                     => \E j \in jobs \ jobs' : k \in j.touched \/ j.early
<1>1. IInv /\ [PageNext]_pageVars => [A]_pageVars
  <2> SUFFICES ASSUME IInv, PageNext, NEW k \in Switches, clean, file # <<>>, file' # <<>>,
                      file[k] # file'[k]
               PROVE  \E j \in jobs \ jobs' : k \in j.touched \/ j.early
    OBVIOUS
  <2>1. PICK j \in jobs : JobEnds(j)
    BY DEF PageNext, Reopen, CatReads, LoadContinues, Save, Toggle
  <2>2. file' = j.data /\ jobs' = jobs \ {j}
    BY <2>1 DEF JobEnds
  <2> QED BY <2>2 DEF IInv, Touches
<1> QED BY <1>1, Invariance, PTL DEF PageSpec, UntouchedKept
=============================================================================
