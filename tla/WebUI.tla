------------------------------- MODULE WebUI --------------------------------
(***************************************************************************)
(* The settings page of the module (webroot/app.js): it loads scope.conf   *)
(* through the bridge of the root manager, shows it, lets the user edit it *)
(* and writes it back.                                                     *)
(*                                                                         *)
(* The bridge runs each command in a shell of its own and answers later:   *)
(* commands of one page overlap, and those of a page that was closed go    *)
(* on.  The script is single threaded; load and save are cut at await.     *)
(* A file is a function from the keys it has lines for to BOOLEAN.         *)
(***************************************************************************)
EXTENDS Integers, FiniteSets, Functions

CONSTANTS
    Switches, \* enabled, module:qauxv, module:qfun: read from the boxes
    Targets,  \* TARGETS, the packages
    MaxSaves, \* bound on the clicks on "save"
    MaxPages  \* bound on how often the page is opened

Settings == Switches \cup Targets
PkgLine(p) == <<"pkg:", p>>

ASSUME KeysAssumption ==
    Switches \cap Targets = {} /\ \A p \in Targets : PkgLine(p) \notin Switches

Defaults == [k \in Settings |-> TRUE]

VARIABLES
    file,     \* scope.conf
    state,    \* the object state of the script
    box,      \* the switches' boxes
    offline,
    load,     \* "cat" sent, "answered" with what it read, "done"
    answer,   \* output of cat
    jobs,     \* saves whose shell has not written yet
    status,   \* what setStatus shows of the saves
    saves, pages, \* clicks on save, pages opened
    touched,  \* settings the user changed on this page
    dirty,    \* those changed since the last click on save
    early,    \* the page was saved, or the file was being written, before load was done
    clean     \* no two saves were ever in flight together

jsVars == <<state, box, offline, load, answer, status, touched, dirty, early>>
pageVars == <<file, jsVars, jobs, saves, pages, clean>>

\* Fault: the lines of the modules are not recognised.
ParseMisses(f) == [k \in Settings |-> IF k \in DOMAIN f \ Switches THEN f[k] ELSE state[k]]

\* parse: a line whose key is a setting overrides the value in state; the
\* packages are looked up by their bare name.
Parse(f) == [k \in Settings |-> IF k \in DOMAIN f THEN f[k] ELSE state[k]]

\* serialize: the packages are written as pkg:NAME.
Serialize(s) ==
    [l \in Switches \cup {PkgLine(p) : p \in Targets} |-> IF l \in Switches THEN s[l] ELSE s[l[2]]]

\* Fault: a page that was opened before is not loaded again.
OpenUnloaded ==
    /\ state' = Defaults
    /\ box' = [k \in Switches |-> TRUE]
    /\ answer' = <<>>
    /\ touched' = {} /\ dirty' = {}
    /\ status' = "none"
    /\ offline' = FALSE /\ load' = "done"
    /\ early' = FALSE

\* A script starts: apply(), then load() up to its await.
Open ==
    /\ state' = Defaults
    /\ box' = [k \in Switches |-> TRUE]
    /\ answer' = <<>>
    /\ touched' = {} /\ dirty' = {}
    /\ status' = "none"
    /\ \/ offline' = FALSE /\ load' = "cat"   \* detect() found a bridge
       \/ offline' = TRUE /\ load' = "done"   \* none, or its exec throws
    /\ early' = FALSE

PageInit ==
    /\ file = <<>>
    /\ state = Defaults
    /\ box = [k \in Switches |-> TRUE]
    /\ answer = <<>>
    /\ touched = {} /\ dirty = {}
    /\ status = "none"
    /\ offline = FALSE /\ load = "cat" /\ early = FALSE
    /\ jobs = {}
    /\ saves = 0 /\ pages = 1
    /\ clean = TRUE

\* The page is closed and opened again; its shells run on, their answers are lost.
Reopen ==
    /\ pages < MaxPages
    /\ pages' = pages + 1
    /\ Open
    /\ jobs' = {[j EXCEPT !.page = 0] : j \in jobs}
    /\ UNCHANGED <<file, saves, clean>>

\* The shell of load runs cat; while a save is under way its redirection may
\* have emptied the file.
CatReads ==
    /\ load = "cat"
    /\ load' = "answered"
    /\ answer' \in {file} \cup {<<>> : j \in jobs}
    /\ early' = (early \/ jobs # {})
    /\ UNCHANGED <<file, state, box, offline, status, touched, dirty, jobs, saves, pages, clean>>

\* load goes on after its await: state = parse(...), apply().
LoadContinues ==
    /\ load = "answered"
    /\ load' = "done"
    /\ state' = Parse(answer)
    /\ box' = Restrict(state', Switches)
    /\ UNCHANGED <<file, offline, answer, status, touched, dirty, early, jobs, saves, pages, clean>>

\* The user turns a switch; only the listener of a package writes to state.
Toggle(k) ==
    /\ IF k \in Switches
       THEN box' = [box EXCEPT ![k] = ~@] /\ UNCHANGED state
       ELSE state' = [state EXCEPT ![k] = ~@] /\ UNCHANGED box
    /\ touched' = touched \cup {k} /\ dirty' = dirty \cup {k}
    /\ UNCHANGED <<file, offline, load, answer, status, early, jobs, saves, pages, clean>>

\* Fault: the page's state is saved in place of its boxes.
CollectStale == state

\* collect: the switches from the boxes, the packages from state.
Collect == [k \in Settings |-> IF k \in Switches THEN box[k] ELSE state[k]]

\* save up to its await; an early click is remembered with the job.
Save ==
    /\ saves < MaxSaves
    /\ \/ /\ offline
          /\ status' = "offline"
          /\ UNCHANGED <<jobs, saves, clean, early, dirty>>
       \/ /\ ~offline
          /\ saves' = saves + 1
          /\ early' = (early \/ load # "done")
          /\ dirty' = {}
          /\ jobs' = jobs \cup {[id |-> saves + 1, page |-> pages, data |-> Serialize(Collect),
                                 touched |-> touched, early |-> early']}
          /\ clean' = (clean /\ jobs = {})
          /\ UNCHANGED status
    /\ UNCHANGED <<file, state, box, offline, load, answer, touched, pages>>

\* A shell has written the file, or failed: before or after its redirection has
\* emptied the file, or in the chmod that follows the write.  The page, if it is
\* still there, says so.
JobEnds(j) ==
    /\ jobs' = jobs \ {j}
    /\ \/ file' = j.data /\ status' = IF j.page = pages THEN "saved" ELSE status
       \/ file' \in {file, <<>>, j.data} /\ status' = IF j.page = pages THEN "failed" ELSE status
    /\ UNCHANGED <<state, box, offline, load, answer, touched, dirty, early, saves, pages, clean>>

PageNext ==
    \/ Reopen \/ CatReads \/ LoadContinues \/ Save
    \/ \E k \in Settings : Toggle(k)
    \/ \E j \in jobs : JobEnds(j)

PageSpec == PageInit /\ [][PageNext]_pageVars

-----------------------------------------------------------------------------
(* Properties                                                              *)

\* A page that loaded a file nobody was writing shows its switches, and keeps
\* showing those the user has not touched: parse reads back what serialize wrote.
SwitchesReadBack ==
    load = "done" /\ ~offline /\ ~early /\ answer # <<>> =>
        \A k \in Switches \ touched : box[k] = answer[k]

\* A write changes only switches that the user touched on the page that saved
\* it, unless saves overlapped (their shells end in any order), or that page was
\* saved before its load had ended or read the file while a save was in flight.
UntouchedKept ==
    [][\A k \in Switches :
         clean /\ <<>> \notin {file, file'} /\ file[k] # file'[k]
           => \E j \in jobs \ jobs' : k \in j.touched \/ j.early]_pageVars

\* "Saved" tells the truth for a page that knew the file, as long as saves do
\* not overlap: what the page shows is in the file, up to later edits.
SavedIsOnDisk ==
    clean /\ ~early /\ status = "saved" /\ jobs = {} =>
        /\ \A k \in Switches : file[k] # box[k] => k \in dirty
        /\ \A p \in Targets : file[PkgLine(p)] # state[p] => p \in dirty
=============================================================================
