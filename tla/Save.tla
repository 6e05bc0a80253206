-------------------------------- MODULE Save --------------------------------
(***************************************************************************)
(* omabox save, saves rm and the watch of a save (cmd/save.rs).  A save    *)
(* pauses the box it copies and renames its copy into the user's saves;    *)
(* SIGKILL, a signal, a down of the box, saves rm or another save may come *)
(* between any two of its steps.                                           *)
(***************************************************************************)
EXTENDS Naturals

CONSTANTS
    Savers,     \* the omabox save commands
    Boxes,      \* the boxes
    Names,      \* the names of saves
    BoxOf,      \* the box of each save
    DirOf,      \* the runtime dir it runs in: where its lock is
    NameOf,     \* the name it saves to
    Forced,     \* the saves with --force
    Nobody,     \* no save, as a lock's owner
    None,       \* no dir at a path
    Before,     \* a save made before
    Forking,    \* the boxes that start processes while they are saved
    Rounds,     \* bound: the sets of saves run together, a behaviour one of them
    MaxFaults   \* bound: SIGKILLs, signals, downs of boxes and saves rm

ASSUME SaveAssumption ==
    /\ BoxOf \in [Savers -> Boxes]
    /\ NameOf \in [Savers -> Names]
    /\ Forced \subseteq Savers /\ Forking \subseteq Boxes
    /\ Nobody \notin Savers
    /\ None \notin Savers /\ Before \notin Savers /\ None # Before
    /\ Rounds \subseteq SUBSET Savers /\ MaxFaults \in Nat

LockOf(s) == <<DirOf[s], NameOf[s]>>
Locks == {LockOf(s) : s \in Savers}

VARIABLES
    spc,        \* where each save's main is
    undo,       \* its undo: not armed, armed, then let_go, rm, remove, done
    slock,      \* who has the lock of a runtime dir's save name
    pins,       \* whether its Hold has the box's processes
    watch,      \* whether its _save-watch is there
    loose,      \* the saves whose box has a process that started since they listed them
    paused,     \* the boxes whose processes are stopped, all that a save has listed
    home,       \* each box's HOME: there, going (a down is at it), gone
    dest,       \* SAVES/NAME: whose copy it is
    fresh,      \* the saves whose SAVES/.new-NAME-PID is there
    old,        \* what a save's SAVES/.old-NAME-PID holds
    copy,       \* what its copy is: nothing yet, making, short, torn, whole
    faults      \* how many SIGKILLs, signals, downs and saves rm came

saveVars == <<spc, undo, slock, pins, watch, loose, paused, home, dest, fresh, old, copy, faults>>
files == <<dest, fresh, old, copy>>
hold == <<pins, watch, loose>>
boxes == <<paused, home>>

SavePcs == {"idle", "lock", "look", "pin", "mk", "stop", "copy", "copying", "parked", "cont",
            "json", "aside", "in", "rmold", "say", "said", "failed", "ended", "dead"}

SaveInit ==
    /\ spc = [s \in Savers |-> "idle"]
    /\ undo = [s \in Savers |-> "unarmed"]
    /\ slock = [k \in Locks |-> Nobody]
    /\ pins = {} /\ watch = {} /\ loose = {} /\ paused = {} /\ fresh = {}
    /\ home = [b \in Boxes |-> "there"]
    /\ dest \in [Names -> {None, Before}]
    /\ old = [s \in Savers |-> None]
    /\ copy = [s \in Savers |-> "nothing"]
    /\ faults = 0

-----------------------------------------------------------------------------
\* A process of the save's pid is there (kill -0 of it).
Lives(s) == spc[s] \notin {"idle", "ended", "dead"}

\* A signal's undo has begun: main starts no child any more (sig.rs parks it there).
Stopping(s) == undo[s] \notin {"unarmed", "armed"}

Goes(s, a, b) == spc[s] = a /\ spc' = [spc EXCEPT ![s] = b]

\* need_box was answered, and the saves dir is there.
SaveStart(s) ==
    /\ Goes(s, "idle", "lock")
    /\ \E r \in Rounds : {s} \cup {t \in Savers : spc[t] # "idle"} \subseteq r
    /\ home[BoxOf[s]] = "there"
    /\ UNCHANGED <<undo, slock, hold, boxes, files, faults>>

\* (mutant of Gone: the leftovers go whoever's they are)
GoneAnyway(t) == TRUE
\* Whether what t left is a dead save's.
Gone(t) == ~Lives(t)

\* One save per name at a time, as far as a runtime dir's lock goes; then what killed saves of the
\* name left is removed, but where another process has the pid by now.
SaveLock(s) ==
    /\ Goes(s, "lock", "look")
    /\ slock[LockOf(s)] = Nobody
    /\ slock' = [slock EXCEPT ![LockOf(s)] = s]
    /\ \E left \in SUBSET {t \in Savers \ {s} : NameOf[t] = NameOf[s] /\ Gone(t)} :
          /\ fresh' = fresh \ left
          /\ old' = [t \in Savers |-> IF t \in left THEN None ELSE old[t]]
    /\ UNCHANGED <<undo, hold, boxes, dest, copy, faults>>

\* The refusals before the trap is armed: the lock is busy for 60 s, the name is taken, the box or
\* its watch is not to be had.
SaveRefused(s) ==
    /\ \/ spc[s] = "lock" /\ slock[LockOf(s)] # Nobody
       \/ spc[s] = "look" /\ dest[NameOf[s]] # None /\ s \notin Forced
       \/ spc[s] = "pin"
    /\ spc' = [spc EXCEPT ![s] = "ended"]
    /\ slock' = [k \in Locks |-> IF slock[k] = s THEN Nobody ELSE slock[k]]
    /\ UNCHANGED <<undo, hold, boxes, files, faults>>

SaveLook(s) ==
    /\ Goes(s, "look", "pin")
    /\ dest[NameOf[s]] = None \/ s \in Forced
    /\ UNCHANGED <<undo, slock, hold, boxes, files, faults>>

\* The box's processes pinned, the watch ready with the same ones, the trap armed.
SavePin(s) ==
    /\ Goes(s, "pin", "mk")
    /\ home[BoxOf[s]] = "there"
    /\ pins' = pins \cup {s} /\ watch' = watch \cup {s}
    /\ undo' = [undo EXCEPT ![s] = "armed"]
    /\ UNCHANGED <<slock, loose, boxes, files, faults>>

\* A process of the box starts once they are listed: nothing stops it.
BoxForks(s) ==
    /\ spc[s] \in {"mk", "stop"} /\ s \in pins
    /\ home[BoxOf[s]] = "there" /\ BoxOf[s] \in Forking \ paused
    /\ loose' = loose \cup {s}
    /\ UNCHANGED <<spc, undo, slock, pins, watch, boxes, files, faults>>

\* SAVES/.new-NAME-PID and the home in it.
SaveMk(s) ==
    /\ Goes(s, "mk", "stop")
    /\ fresh' = fresh \cup {s}
    /\ copy' = [copy EXCEPT ![s] = "making"]
    /\ UNCHANGED <<undo, slock, hold, boxes, dest, old, faults>>

\* SIGSTOP to what the Hold has: nothing once an undo has let go.
SaveStop(s) ==
    /\ Goes(s, "stop", "copy")
    /\ paused' = IF s \in pins /\ home[BoxOf[s]] = "there" THEN paused \cup {BoxOf[s]} ELSE paused
    /\ UNCHANGED <<undo, slock, hold, home, files, faults>>

\* home_entries: the cps of what is there, none of a HOME that is gone.
SaveEntries(s) ==
    /\ \/ /\ Goes(s, "copy", "copying")
          /\ home[BoxOf[s]] # "gone" /\ ~Stopping(s)
          /\ UNCHANGED copy
       \/ /\ Goes(s, "copy", "cont")
          /\ home[BoxOf[s]] = "gone"
          /\ copy' = [copy EXCEPT ![s] = "short"]
    /\ UNCHANGED <<undo, slock, hold, boxes, dest, fresh, old, faults>>

\* What goes on of a box while it is copied may write to what is copied.
BoxWrites(s) ==
    /\ spc[s] = "copying" /\ copy[s] = "making"
    /\ home[BoxOf[s]] = "there" /\ (BoxOf[s] \notin paused \/ s \in loose)
    /\ copy' = [copy EXCEPT ![s] = "torn"]
    /\ UNCHANGED <<spc, undo, slock, hold, boxes, dest, fresh, old, faults>>

\* The cps end: with all of the HOME, or without what a down removed before they came to it.
SaveCopied(s) ==
    /\ Goes(s, "copying", "cont")
    /\ copy' = [copy EXCEPT ![s] = IF home[BoxOf[s]] # "there" THEN "short"
                                   ELSE IF @ = "making" THEN "whole" ELSE @]
    /\ UNCHANGED <<undo, slock, hold, boxes, dest, fresh, old, faults>>

\* Hold::let_go: SIGCONT to all that is pinned, then the watch told and waited for.
LetGo(s) ==
    /\ paused' = IF s \in pins THEN paused \ {BoxOf[s]} ELSE paused
    /\ pins' = pins \ {s} /\ watch' = watch \ {s} /\ loose' = loose \ {s}

\* (mutant of SaveCont: the box is let go while the last cp runs)
SaveContEarly(s) ==
    /\ IF spc[s] = "copying" THEN s \in pins /\ UNCHANGED spc ELSE Goes(s, "cont", "json")
    /\ LetGo(s)
    /\ UNCHANGED <<undo, slock, home, files, faults>>
\* The copy is made: the box goes on.
SaveCont(s) ==
    /\ Goes(s, "cont", "json")
    /\ LetGo(s)
    /\ UNCHANGED <<undo, slock, home, files, faults>>

\* save.json, in the .new dir, which a signal's undo may have removed.
SaveJson(s) ==
    /\ Goes(s, "json", "aside")
    /\ s \in fresh
    /\ UNCHANGED <<undo, slock, hold, boxes, files, faults>>

\* The save that is there is renamed aside.
SaveAside(s) ==
    /\ Goes(s, "aside", "in")
    /\ old' = [old EXCEPT ![s] = dest[NameOf[s]]]
    /\ dest' = [dest EXCEPT ![NameOf[s]] = None]
    /\ UNCHANGED <<undo, slock, hold, boxes, fresh, copy, faults>>

\* (mutant of SaveIn: what is at the name by now is replaced)
SaveInOver(s) ==
    /\ Goes(s, "in", "rmold")
    /\ s \in fresh
    /\ dest' = [dest EXCEPT ![NameOf[s]] = s]
    /\ fresh' = fresh \ {s}
    /\ UNCHANGED <<undo, slock, hold, boxes, old, copy, faults>>
\* The copy is renamed into place: not over a save that is there by now (rename(2): ENOTEMPTY).
SaveIn(s) ==
    /\ Goes(s, "in", "rmold")
    /\ s \in fresh /\ dest[NameOf[s]] = None
    /\ dest' = [dest EXCEPT ![NameOf[s]] = s]
    /\ fresh' = fresh \ {s}
    /\ UNCHANGED <<undo, slock, hold, boxes, old, copy, faults>>

\* A step that may fail does, or must: main's drop of _undo is next.
SaveFails(s) ==
    /\ \/ spc[s] \in {"mk", "copying", "json", "aside"}
       \/ spc[s] = "in" /\ (s \notin fresh \/ dest[NameOf[s]] # None)
    /\ spc' = [spc EXCEPT ![s] = "failed"]
    /\ UNCHANGED <<undo, slock, hold, boxes, files, faults>>

\* rm of what was renamed aside (a child), and the lock dropped.
SaveRmOld(s) ==
    /\ Goes(s, "rmold", "say")
    /\ old[s] = None \/ ~Stopping(s)
    /\ old' = [old EXCEPT ![s] = None]
    /\ slock' = [slock EXCEPT ![LockOf(s)] = Nobody]
    /\ UNCHANGED <<undo, hold, boxes, dest, fresh, copy, faults>>

\* "saved box ...", after a du of it (a child).
SaveSay(s) ==
    /\ Goes(s, "say", "said")
    /\ ~Stopping(s)
    /\ UNCHANGED <<undo, slock, hold, boxes, files, faults>>

-----------------------------------------------------------------------------
\* INT, TERM or HUP: main's child ends first and main parks there; elsewhere main goes on beside
\* the undo, as a save has no busy section.
SaveSignal(s) ==
    /\ undo[s] = "armed" /\ Lives(s)
    /\ faults < MaxFaults
    /\ undo' = [undo EXCEPT ![s] = "let_go"]
    /\ spc' = [spc EXCEPT ![s] = IF @ = "copying" THEN "parked" ELSE @]
    /\ faults' = faults + 1
    /\ UNCHANGED <<slock, hold, boxes, files>>

\* Main drops _undo, at the end or on a refusal: it runs unless a signal's has begun.
UndoByMain(s) ==
    /\ undo[s] = "armed" /\ spc[s] \in {"failed", "said"}
    /\ undo' = [undo EXCEPT ![s] = "let_go"]
    /\ UNCHANGED <<spc, slock, hold, boxes, files, faults>>

UndoLetGo(s) ==
    /\ undo[s] = "let_go"
    /\ undo' = [undo EXCEPT ![s] = "rm"]
    /\ LetGo(s)
    /\ UNCHANGED <<spc, slock, home, files, faults>>

\* rm_save of .new: its files, then the path, unless main has renamed it meanwhile.
UndoRm(s) ==
    /\ undo[s] = "rm"
    /\ undo' = [undo EXCEPT ![s] = "remove"]
    /\ copy' = IF s \in fresh THEN [copy EXCEPT ![s] = "short"] ELSE copy
    /\ UNCHANGED <<spc, slock, hold, boxes, dest, fresh, old, faults>>

UndoRemove(s) ==
    /\ undo[s] = "remove"
    /\ undo' = [undo EXCEPT ![s] = "done"]
    /\ fresh' = fresh \ {s}
    /\ UNCHANGED <<spc, slock, hold, boxes, dest, old, copy, faults>>

\* The process ends, its lock with it.
Process(s, end) ==
    /\ spc' = [spc EXCEPT ![s] = end]
    /\ slock' = [k \in Locks |-> IF slock[k] = s THEN Nobody ELSE slock[k]]

SaveEnds(s) ==
    /\ undo[s] = "done" /\ Lives(s)
    /\ Process(s, "ended")
    /\ UNCHANGED <<undo, hold, boxes, files, faults>>

\* SIGKILL, or the OOM killer; before the trap is armed any other signal too.
SaveKilled(s) ==
    /\ Lives(s)
    /\ faults < MaxFaults
    /\ faults' = faults + 1
    /\ Process(s, "dead")
    /\ undo' = [undo EXCEPT ![s] = "done"]
    /\ pins' = pins \ {s} /\ loose' = loose \ {s}
    /\ UNCHANGED <<watch, boxes, files>>

\* (mutant of WatchResumes: the watch ends with its save)
WatchEnds(s) ==
    /\ s \in watch /\ spc[s] = "dead"
    /\ watch' = watch \ {s}
    /\ UNCHANGED <<spc, undo, slock, pins, loose, boxes, files, faults>>
\* watch_main: its stdin closed with nothing written: what it holds goes on.
WatchResumes(s) ==
    /\ s \in watch /\ spc[s] = "dead"
    /\ watch' = watch \ {s}
    /\ paused' = paused \ {BoxOf[s]}
    /\ UNCHANGED <<spc, undo, slock, pins, loose, home, files, faults>>

\* omabox down: SIGKILL to the box, then its HOME goes; no lock of a save's is taken.
DownKills(b) ==
    /\ home[b] = "there"
    /\ faults < MaxFaults
    /\ faults' = faults + 1
    /\ home' = [home EXCEPT ![b] = "going"]
    /\ paused' = paused \ {b}
    /\ UNCHANGED <<spc, undo, slock, hold, files>>

DownRemoves(b) ==
    /\ home[b] = "going"
    /\ home' = [home EXCEPT ![b] = "gone"]
    /\ UNCHANGED <<spc, undo, slock, hold, paused, files, faults>>

\* omabox saves rm NAME: no lock either.
SavesRm(n) ==
    /\ dest[n] # None
    /\ faults < MaxFaults
    /\ faults' = faults + 1
    /\ dest' = [dest EXCEPT ![n] = None]
    /\ UNCHANGED <<spc, undo, slock, hold, boxes, fresh, old, copy>>

SaveNext ==
    \/ \E s \in Savers :
          \/ SaveStart(s) \/ SaveLock(s) \/ SaveRefused(s) \/ SaveLook(s) \/ SavePin(s) \/ BoxForks(s)
          \/ SaveMk(s) \/ SaveStop(s) \/ SaveEntries(s) \/ BoxWrites(s) \/ SaveCopied(s) \/ SaveCont(s)
          \/ SaveJson(s) \/ SaveAside(s) \/ SaveIn(s) \/ SaveFails(s) \/ SaveRmOld(s) \/ SaveSay(s)
          \/ SaveSignal(s) \/ UndoByMain(s) \/ UndoLetGo(s) \/ UndoRm(s) \/ UndoRemove(s)
          \/ SaveEnds(s) \/ SaveKilled(s) \/ WatchResumes(s)
    \/ \E b \in Boxes : DownKills(b) \/ DownRemoves(b)
    \/ \E n \in Names : SavesRm(n)

SaveSpec == SaveInit /\ [][SaveNext]_saveVars

-----------------------------------------------------------------------------
SaveTypeOK ==
    /\ spc \in [Savers -> SavePcs]
    /\ undo \in [Savers -> {"unarmed", "armed", "let_go", "rm", "remove", "done"}]
    /\ slock \in [Locks -> Savers \cup {Nobody}]
    /\ pins \subseteq Savers /\ watch \subseteq Savers /\ loose \subseteq Savers /\ fresh \subseteq Savers
    /\ paused \subseteq Boxes
    /\ home \in [Boxes -> {"there", "going", "gone"}]
    /\ dest \in [Names -> Savers \cup {None, Before}]
    /\ old \in [Savers -> Savers \cup {None, Before}]
    /\ copy \in [Savers -> {"nothing", "making", "short", "torn", "whole"}]
    /\ faults \in 0 .. MaxFaults

\* No other save of its box is under way.
Alone(s) == \A t \in Savers \ {s} : BoxOf[t] # BoxOf[s] \/ spc[t] = "idle"

\* While a save's cps run what it listed of its box is stopped, if the box is up and no other save of
\* it has begun: whoever is killed or signalled, and whatever saves of other boxes do.
CopyStill ==
    \A s \in Savers :
        (spc[s] = "copying" /\ Alone(s) /\ home[BoxOf[s]] = "there") => BoxOf[s] \in paused

\* The copy a save says it saved is what a power cut would have left, "not torn by a write during
\* the copy" (save.rs).  A process that started since the save listed them goes on, and another
\* save's end lets a box go that this one still copies.
SaidNotTorn == \A s \in Savers : spc[s] = "said" => copy[s] # "torn"

\* The copy and the old save a live save works with are removed by that save only, and not by
\* another one's clearing of leftovers, whichever runtime dir that runs in.
LiveWorkKept ==
    [][\A s \in Savers : Lives(s) =>
          /\ s \in fresh \ fresh' => dest'[NameOf[s]] = s \/ undo[s] = "remove"
          /\ old[s] # None /\ old'[s] = None => spc[s] = "rmold"]_saveVars

\* A save made, since s looked, by a save of another runtime dir, which has another lock.
MadeElsewhere(t, s) == t \in Savers /\ LockOf(t) # LockOf(s)

\* A save that is there goes from its name by saves rm, or into the .old of a save that was given
\* --force; but saves of one name in two runtime dirs share no lock, and one made elsewhere since
\* a save looked is moved aside without --force.
KeptUnforced ==
    [][\A n \in Names : dest[n] # None /\ dest'[n] # dest[n] =>
          /\ dest'[n] = None
          /\ \/ old' = old
             \/ \E s \in Savers : /\ NameOf[s] = n /\ old'[s] = dest[n]
                                 /\ (s \in Forced \/ MadeElsewhere(dest[n], s))]_saveVars

\* A paused box is in the hands of a save that will let it go, or of the watch of one that was
\* killed: whoever is killed or signalled, nobody leaves it stopped.
PausedHeld ==
    \A b \in paused : \E s \in watch :
        BoxOf[s] = b /\ (spc[s] = "dead" \/ (Lives(s) /\ undo[s] \in {"armed", "let_go"}))
=============================================================================
