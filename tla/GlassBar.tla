------------------------------ MODULE GlassBar ------------------------------
(***************************************************************************)
(* The host side of the payload after the engine is up: the Runnable that  *)
(* GlassBarEntry.scheduleAttach posts to the main looper, and the status   *)
(* file that every process of the app writes.                              *)
(*                                                                         *)
(* The Runnable and the life cycle of the activities run on the main       *)
(* thread, one callback at a time.  mActivities is a map ordered by the    *)
(* hash of a token, so a new activity takes any place in it.               *)
(***************************************************************************)
EXTENDS Integers, Sequences, SequencesExt, FiniteSets

CONSTANTS
    Procs,      \* processes of the app
    Main,       \* the one that has activities
    Activities, \* activities of the app
    MaxTries    \* 60 in the code

ASSUME ProcsAssumption == Main \in Procs
ASSUME TriesAssumption == MaxTries \in Nat \ {0}

VARIABLES
    appSet,    \* getApplication() answers, with the package of QQ
    records,   \* mActivities of ActivityThread, in the order of its values()
    life,      \* per activity: "new", "measured", "finishing", "destroyed"
    bars,      \* activities whose decor holds a bar
    attached,  \* GlassBarEntry.attached
    posted,    \* the Runnable is in the queue of the main looper
    tries,     \* its field tries
    threw,     \* history: its last turn was cut short by an exception
    file,      \* glassbar_status.txt: which process wrote each part
    size,      \* per process: parts of the status it writes (a failure has two)
    wpc        \* per process: "start", "opened", "closed"

actVars == <<records, life>>
barVars == <<bars, attached, posted, tries, threw>>
fileVars == <<file, size, wpc>>
glassVars == <<appSet, actVars, barVars, fileVars>>

BarInit ==
    /\ appSet \in BOOLEAN
    /\ records = <<>>
    /\ life = [a \in Activities |-> "none"]
    /\ bars = {}
    /\ attached = FALSE
    /\ posted = FALSE
    /\ tries = 0
    /\ threw = FALSE
    /\ file = <<>>
    /\ size \in [Procs -> {1, 2}]
    /\ wpc = [p \in Procs |-> "start"]

-----------------------------------------------------------------------------
(* The host.                                                               *)

HostAppSet ==
    /\ ~appSet
    /\ appSet' = TRUE
    /\ UNCHANGED <<actVars, barVars, fileVars>>

HostLaunch(a) ==
    /\ life[a] = "none"
    /\ \E i \in 1..(Len(records) + 1) : records' = InsertAt(records, i, a)
    /\ life' = [life EXCEPT ![a] = "new"]
    /\ UNCHANGED <<appSet, barVars, fileVars>>

\* The first layout, finish(), and the destruction that takes the decor along.
HostLife(a) ==
    /\ \/ life[a] = "new" /\ life' = [life EXCEPT ![a] = "measured"] /\ UNCHANGED records
       \/ life[a] \in {"new", "measured"} /\ life' = [life EXCEPT ![a] = "finishing"] /\ UNCHANGED records
       \/ life[a] = "finishing" /\ life' = [life EXCEPT ![a] = "destroyed"]
                                /\ records' = Remove(records, a)
    /\ UNCHANGED <<appSet, barVars, fileVars>>

-----------------------------------------------------------------------------
(* scheduleAttach.                                                         *)

\* enabled() is true; the Runnable goes to the main looper, then writeStatus.
ScheduleAttach ==
    /\ size[Main] = 1
    /\ wpc[Main] = "start"
    /\ ~posted /\ tries = 0 /\ ~attached
    /\ posted' = TRUE
    /\ UNCHANGED <<appSet, actVars, bars, attached, tries, threw, fileVars>>

Usable(a) == life[a] \in {"new", "measured"}

\* Fault: activities that are finishing are not skipped.
CurrentActivityAny == records

\* The usable activities in the order of the map; currentActivity takes the last.
CurrentActivity == SelectSeq(records, Usable)

\* attachToCurrentActivity reaches addView: there is an activity and its decor
\* has a height.
CanAttach == CurrentActivity # <<>> /\ life[Last(CurrentActivity)] = "measured"

\* Fault: only turns that find the package are counted.
RepostUncounted ==
    /\ tries' = IF appSet THEN tries + 1 ELSE tries
    /\ posted' = (tries' < MaxTries)

\* if (++tries < 60) h.postDelayed(this, 1000)
Repost ==
    /\ tries' = tries + 1
    /\ posted' = (tries' < MaxTries)

\* Runnable.run: one turn.
Run ==
    /\ posted
    /\ \/ attached /\ posted' = FALSE /\ UNCHANGED <<bars, attached, tries>>
       \/ ~attached /\ ~(appSet /\ CanAttach) /\ Repost /\ UNCHANGED <<bars, attached>>
       \/ /\ ~attached /\ appSet /\ CanAttach
          /\ bars' = bars \cup {Last(CurrentActivity)}
          /\ attached' = TRUE /\ posted' = FALSE /\ UNCHANGED tries
    /\ threw' = FALSE
    /\ UNCHANGED <<appSet, actVars, fileVars>>

\* A turn in which qqPackage, currentActivity or attachToCurrentActivity throws.
\* All three swallow it, and the turn counts as one that found no activity; what
\* addView did before it threw stays.
RunThrows ==
    /\ posted
    /\ ~attached
    /\ Repost
    /\ \/ UNCHANGED bars
       \/ appSet /\ CanAttach /\ bars' = bars \cup {Last(CurrentActivity)}
    /\ threw' = TRUE
    /\ UNCHANGED <<appSet, attached, actVars, fileVars>>

-----------------------------------------------------------------------------
(* writeStatus: open with truncation, one write at offset 0, close.        *)

\* In the main process this follows scheduleAttach, or enabled() was false.
StatusOpen(p) ==
    /\ wpc[p] = "start"
    /\ wpc' = [wpc EXCEPT ![p] = "opened"]
    /\ file' = <<>>
    /\ UNCHANGED <<appSet, actVars, barVars, size>>

\* The write covers the start of the file and leaves what lies behind it.
StatusWrite(p) ==
    /\ wpc[p] = "opened"
    /\ wpc' = [wpc EXCEPT ![p] = "closed"]
    /\ file' = [i \in 1..size[p] |-> p] \o SubSeq(file, size[p] + 1, Len(file))
    /\ UNCHANGED <<appSet, actVars, barVars, size>>

-----------------------------------------------------------------------------
BarNext ==
    \/ HostAppSet \/ ScheduleAttach \/ Run \/ RunThrows
    \/ \E a \in Activities : HostLaunch(a) \/ HostLife(a)
    \/ \E p \in Procs : StatusOpen(p) \/ StatusWrite(p)

\* The main looper delivers what is due.
BarFairness == WF_glassVars(Run \/ RunThrows)

BarSpec == BarInit /\ [][BarNext]_glassVars /\ BarFairness

-----------------------------------------------------------------------------
(* Properties                                                              *)

\* Every variable has its type.
BarTypeOK ==
    /\ appSet \in BOOLEAN /\ attached \in BOOLEAN /\ posted \in BOOLEAN /\ threw \in BOOLEAN
    /\ records \in Seq(Activities) /\ bars \subseteq Activities
    /\ life \in [Activities -> {"none", "new", "measured", "finishing", "destroyed"}]
    /\ tries \in 0..MaxTries
    /\ file \in Seq(Procs)
    /\ wpc \in [Procs -> {"start", "opened", "closed"}]

Sole(a) == life[a] = "measured" /\ \A b \in Activities \ {a} : ~Usable(b)

\* The only usable activity, once it has a height, gets the bar if it stays and
\* the Runnable has a turn left; only exceptions on every turn up to the last
\* can keep it from doing so.  Finishing activities that are still in mActivities
\* do not hide it (currentActivity), and an attempt that threw is made again.
SoleActivityGetsBar ==
    \A a \in Activities :
        (posted /\ appSet /\ Sole(a)) ~> (attached \/ ~Sole(a) \/ (~posted /\ threw))

\* The Runnable stops in every case: with a bar, or after MaxTries turns, which
\* count a missing application and a missing activity alike.
RunnableEnds == posted ~> [](~posted)
=============================================================================
