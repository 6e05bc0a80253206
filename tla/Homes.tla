------------------------------- MODULE Homes -------------------------------
(***************************************************************************)
(* The HOME of a box name.  HOMEs are on disk, one per name; box dirs and  *)
(* the name's lock are in a runtime dir, and an `up` with another runtime  *)
(* dir sees none of this one's.  So a HOME records the box dir it was made *)
(* for; `up` and `down` remove it with the box dir when it is theirs or no *)
(* box's (rm_box), and every `up`, of any name and runtime dir, sweeps the *)
(* HOMEs whose box is gone (sweep_homes).                                  *)
(*                                                                         *)
(* rm_box removes by path, in a child (`rm -rf`) that has no part in the   *)
(* lock and does not die with its parent: a SIGKILL lets the lock go while *)
(* the removal goes on.                                                    *)
(*                                                                         *)
(* Left out: HOMEs of an omabox that wrote no record, the removal of a     *)
(* runtime dir itself, and a tree half removed (each goes in one step).    *)
(***************************************************************************)
EXTENDS Naturals

CONSTANTS
    Runtime,           \* the runtime dirs
    Up, Down, Sweep,   \* `up`s and `down`s of the name; `up`s of others, sweeping
    At,                \* the runtime dir each runs in
    LeftFrom,          \* the runtime dirs a HOME may be left from, its box dir gone
    NoProc, NoBox, NoHome,
    MaxKills           \* bound: processes SIGKILLed

Proc == Up \union Down \union Sweep

ASSUME HomesAssumption ==
    /\ Up \intersect Down = {} /\ Up \intersect Sweep = {} /\ Down \intersect Sweep = {}
    /\ NoProc \notin Proc /\ NoBox \notin Up
    /\ NoHome \notin [rec : Runtime, by : Up \union {NoBox}]
    /\ At \in [Proc -> Runtime]
    /\ LeftFrom \subseteq Runtime
    /\ MaxKills \in Nat

VARIABLES
    lock,    \* who has the name's lock in each runtime dir
    dir,     \* the box whose dir is in each runtime dir
    linked,  \* the runtime dirs whose box dir has its `home` link
    home,    \* HOMES/NAME: the runtime dir its record names, the box it was made for
    runs,    \* the boxes running, each with its HOME mounted
    pc,      \* where each process is
    takes,   \* whether each process's rm_box is to remove the HOME
    judged,  \* the record of the HOME each sweep judged gone
    robbed,  \* history: the boxes whose dir or HOME a killed command's rm -rf took
    kills

killed == <<robbed, kills>>
vars == <<lock, dir, linked, home, runs, pc, takes, judged, killed>>

Making == {"mkdir", "home", "made", "launched"}
Clearing == {"clear", "cleardir", "clearhome"}
Undoing  == {"undo", "undodir", "undohome"}
Removing == {"rm", "rmdir", "rmhome"}
Sweeping == {"scan", "lock", "look", "rename", "sweephome", "unlock"}
Orphaned == {"orphdir", "orphhome"}    \* killed, its rm -rf still at work
States == {"new", "locked", "up", "end", "dead"} \union Orphaned \union Making \union Clearing
             \union Undoing \union Removing \union Sweeping

TypeOK ==
    /\ lock \in [Runtime -> Proc \union {NoProc}]
    /\ dir \in [Runtime -> Up \union {NoBox}]
    /\ linked \subseteq Runtime
    /\ home \in [rec : Runtime, by : Up \union {NoBox}] \union {NoHome}
    /\ runs \subseteq Up
    /\ pc \in [Proc -> States]
    /\ takes \in [Proc -> BOOLEAN]
    /\ judged \in [Sweep -> Runtime]
    /\ robbed \subseteq Up
    /\ kills \in 0 .. MaxKills

Init ==
    /\ lock = [r \in Runtime |-> NoProc]
    /\ dir = [r \in Runtime |-> NoBox]
    /\ linked = {}
    /\ home \in {NoHome} \union [rec : LeftFrom, by : {NoBox}]
    /\ runs = {}
    /\ pc = [p \in Proc |-> "new"]
    /\ takes = [p \in Proc |-> FALSE]
    /\ judged \in {[s \in Sweep |-> At[s]]}
    /\ robbed = {} /\ kills = 0
-----------------------------------------------------------------------------
\* A process seen has the HOME mounted, as the box it was made for has (Users::uses).
used == home # NoHome /\ home.by \in runs

\* home_whose: the name's box in runtime dir r may have the HOME: there is none, it is
\* its own, or its box's dir is not there and nothing uses it.
whose(r) ==
    home # NoHome => home.rec = r \/ (dir[home.rec] = NoBox /\ ~used)

Goes(p, s) == pc' = [pc EXCEPT ![p] = s]
Locked(p) == lock[At[p]] = NoProc /\ lock' = [lock EXCEPT ![At[p]] = p]
Unlocked(p) == lock' = [r \in Runtime |-> IF lock[r] = p THEN NoProc ELSE lock[r]]

\* rm_box: whether the HOME goes too is judged, then rm -rf takes the box dir...
Judge(p, from, to) ==
    /\ pc[p] = from
    /\ takes' = [takes EXCEPT ![p] = whose(At[p])]
    /\ Goes(p, to)
    /\ UNCHANGED <<lock, dir, linked, home, runs, judged, killed>>

RmDir(p, from, to) ==
    /\ pc[p] = from
    /\ dir' = [dir EXCEPT ![At[p]] = NoBox]
    /\ linked' = linked \ {At[p]}
    /\ robbed' = IF from \in Orphaned THEN robbed \union ({dir[At[p]]} \ {NoBox})
                                     ELSE robbed
    /\ Goes(p, to)
    /\ UNCHANGED <<lock, home, runs, takes, judged, kills>>

\* ...and then the HOME at the path, when it was judged to go.
RmHome(p, from, to) ==
    /\ pc[p] = from
    /\ home' = IF takes[p] THEN NoHome ELSE home
    /\ robbed' = IF from \in Orphaned /\ takes[p] /\ home # NoHome
                 THEN robbed \union ({home.by} \ {NoBox})
                 ELSE robbed
    /\ Goes(p, to)
    /\ IF to = "end" THEN Unlocked(p) ELSE UNCHANGED lock
    /\ UNCHANGED <<dir, linked, runs, takes, judged, kills>>
-----------------------------------------------------------------------------
(* `omabox up` of the name: up_box::make *)

Lock(p) ==
    /\ p \in Up \union Down
    /\ pc[p] = "new"
    /\ Locked(p) /\ Goes(p, "locked")
    /\ UNCHANGED <<dir, linked, home, runs, takes, judged, killed>>

\* Already up, or its HOME is another box's (home_taken).
Refused(u) ==
    /\ pc[u] = "locked"
    /\ dir[At[u]] \in runs \/ ~whose(At[u])
    /\ Unlocked(u) /\ Goes(u, "end")
    /\ UNCHANGED <<dir, linked, home, runs, takes, judged, killed>>

Goahead(u) ==
    /\ pc[u] = "locked"
    /\ dir[At[u]] \notin runs /\ whose(At[u])
    /\ Goes(u, "clear")
    /\ UNCHANGED <<lock, dir, linked, home, runs, takes, judged, killed>>

Clear(u) ==
    \/ Judge(u, "clear", "cleardir")
    \/ RmDir(u, "cleardir", "clearhome")
    \/ RmHome(u, "clearhome", "mkdir")

\* The box dir before the HOME, which appears with its record.
MkDir(u) ==
    /\ pc[u] = "mkdir"
    /\ dir' = [dir EXCEPT ![At[u]] = u]
    /\ Goes(u, "home")
    /\ UNCHANGED <<lock, linked, home, runs, takes, judged, killed>>

\* (mutant of MakeHome: there before its record is written)
MakeHomeBare(u) ==
    /\ pc[u] = "home"
    /\ IF home = NoHome
       THEN /\ home' = [rec |-> NoBox, by |-> u]
            /\ linked' = linked \union {At[u]}
            /\ Goes(u, "made")
       ELSE Goes(u, "undo") /\ UNCHANGED <<home, linked>>
    /\ UNCHANGED <<lock, dir, runs, takes, judged, killed>>

\* make_home: renamed into place whole, never over one that is there; then the link,
\* when the box dir it goes into is still there.
MakeHome(u) ==
    /\ pc[u] = "home"
    /\ home' = IF home = NoHome THEN [rec |-> At[u], by |-> u] ELSE home
    /\ IF home = NoHome /\ dir[At[u]] = u
       THEN linked' = linked \union {At[u]} /\ Goes(u, "made")
       ELSE UNCHANGED linked /\ Goes(u, "undo")
    /\ UNCHANGED <<lock, dir, runs, takes, judged, killed>>

\* launch.sh, in the box dir, run, and the HOME mounted.
Launch(u) ==
    /\ pc[u] = "made" /\ dir[At[u]] = u /\ home # NoHome
    /\ runs' = runs \union {u}
    /\ Goes(u, "launched")
    /\ UNCHANGED <<lock, dir, linked, home, takes, judged, killed>>

Ready(u) ==
    /\ pc[u] = "launched" /\ u \in runs
    /\ Unlocked(u) /\ Goes(u, "up")
    /\ UNCHANGED <<dir, linked, home, runs, takes, judged, killed>>

\* A step fails or a signal stops it: the box ended and its dir removed, or, when it
\* failed past box.json, left with its logs.
Fails(u) ==
    /\ pc[u] \in {"home", "made", "launched"}
    /\ runs' = runs \ {u}
    /\ \/ Goes(u, "undo") /\ UNCHANGED lock
       \/ pc[u] # "home" /\ Goes(u, "end") /\ Unlocked(u)
    /\ UNCHANGED <<dir, linked, home, takes, judged, killed>>

Undo(u) ==
    \/ Judge(u, "undo", "undodir")
    \/ RmDir(u, "undodir", "undohome")
    \/ RmHome(u, "undohome", "end")

UpStep(u) ==
    \/ Refused(u) \/ Goahead(u) \/ Clear(u) \/ MkDir(u) \/ MakeHome(u) \/ Launch(u)
    \/ Ready(u) \/ Fails(u) \/ Undo(u)
-----------------------------------------------------------------------------
(* `omabox down` of the name: down_one *)

FoundNone(d) ==
    /\ pc[d] = "locked" /\ dir[At[d]] = NoBox
    /\ Unlocked(d) /\ Goes(d, "end")
    /\ UNCHANGED <<dir, linked, home, runs, takes, judged, killed>>

Kill(d) ==
    /\ pc[d] = "locked" /\ dir[At[d]] # NoBox
    /\ runs' = runs \ {dir[At[d]]}
    /\ Goes(d, "rm")
    /\ UNCHANGED <<lock, dir, linked, home, takes, judged, killed>>

Remove(d) ==
    \/ Judge(d, "rm", "rmdir")
    \/ RmDir(d, "rmdir", "rmhome")
    \/ RmHome(d, "rmhome", "end")

DownStep(d) == FoundNone(d) \/ Kill(d) \/ Remove(d)
-----------------------------------------------------------------------------
(* sweep_homes and sweep_one, in an `up` *)

\* The box dir the HOME's record names is not there.
JudgeGone(s) ==
    /\ pc[s] = "new"
    /\ home # NoHome /\ dir[home.rec] = NoBox
    /\ judged' = [judged EXCEPT ![s] = home.rec]
    /\ Goes(s, "scan")
    /\ UNCHANGED <<lock, dir, linked, home, runs, takes, killed>>

\* Users::scan: nothing uses it.
Scan(s) ==
    /\ pc[s] = "scan"
    /\ Goes(s, IF used THEN "end" ELSE "lock")
    /\ UNCHANGED <<lock, dir, linked, home, runs, takes, judged, killed>>

\* (mutant of SweepLock: no lock taken)
SweepLocksNot(s) ==
    /\ pc[s] = "lock"
    /\ Goes(s, "look")
    /\ UNCHANGED <<lock, dir, linked, home, runs, takes, judged, killed>>

\* The name's lock where its box would be made; one held is left alone.
SweepLock(s) ==
    /\ pc[s] = "lock"
    /\ IF lock[judged[s]] = NoProc
       THEN lock' = [lock EXCEPT ![judged[s]] = s] /\ Goes(s, "look")
       ELSE UNCHANGED lock /\ Goes(s, "end")
    /\ UNCHANGED <<dir, linked, home, runs, takes, judged, killed>>

\* (mutant of Still: the box dir not looked at again)
StillUnlooked(s) ==
    /\ pc[s] = "look"
    /\ Goes(s, IF home # NoHome /\ home.rec = judged[s] THEN "rename" ELSE "unlock")
    /\ UNCHANGED <<lock, dir, linked, home, runs, takes, judged, killed>>

\* Looked at again under it: the same record, and still no box dir.
Still(s) ==
    /\ pc[s] = "look"
    /\ Goes(s, IF home # NoHome /\ home.rec = judged[s] /\ dir[judged[s]] = NoBox
               THEN "rename" ELSE "unlock")
    /\ UNCHANGED <<lock, dir, linked, home, runs, takes, judged, killed>>

\* Moved aside in one rename, to be removed from there.
Rename(s) ==
    /\ pc[s] = "rename"
    /\ home' = NoHome
    /\ Goes(s, "unlock")
    /\ UNCHANGED <<lock, dir, linked, runs, takes, judged, killed>>

\* The rename refused: removed in place, under the lock.
RenameRefused(s) ==
    /\ pc[s] = "rename"
    /\ takes' = [takes EXCEPT ![s] = TRUE]
    /\ Goes(s, "sweephome")
    /\ UNCHANGED <<lock, dir, linked, home, runs, judged, killed>>

SweepUnlock(s) ==
    /\ pc[s] = "unlock"
    /\ Unlocked(s) /\ Goes(s, "end")
    /\ UNCHANGED <<dir, linked, home, runs, takes, judged, killed>>

SweepStep(s) ==
    \/ JudgeGone(s) \/ Scan(s) \/ SweepLock(s) \/ Still(s) \/ Rename(s)
    \/ RenameRefused(s) \/ RmHome(s, "sweephome", "unlock") \/ SweepUnlock(s)
-----------------------------------------------------------------------------
\* A box dies of itself: its dir and HOME stay until a down.
Dies(u) ==
    /\ u \in runs
    /\ runs' = runs \ {u}
    /\ UNCHANGED <<lock, dir, linked, home, pc, takes, judged, killed>>

\* SIGKILL: the kernel closes its lock, nothing is undone.  A chmod -R or rm -rf it ran
\* goes on: after the chmod nobody starts the rm, but an rm has its list of paths.
Killed(p) ==
    /\ pc[p] \notin {"new", "up", "end", "dead"} \union Orphaned /\ kills < MaxKills
    /\ kills' = kills + 1
    /\ Unlocked(p)
    /\ \/ Goes(p, "dead")
       \/ pc[p] \in {"cleardir", "undodir", "rmdir"} /\ Goes(p, "orphdir")
       \/ pc[p] \in {"clearhome", "undohome", "rmhome", "sweephome"} /\ Goes(p, "orphhome")
    /\ UNCHANGED <<dir, linked, home, runs, takes, judged, robbed>>

\* The rm -rf of a killed command: the box dir and the HOME that are at its paths now.
Orphan(p) ==
    \/ p \in Up \union Down /\ RmDir(p, "orphdir", "orphhome")
    \/ RmHome(p, "orphhome", "dead")

Next ==
    \/ \E u \in Up : Lock(u) \/ UpStep(u) \/ Dies(u)
    \/ \E d \in Down : Lock(d) \/ DownStep(d)
    \/ \E s \in Sweep : SweepStep(s)
    \/ \E p \in Proc : Killed(p) \/ Orphan(p)

Spec == Init /\ [][Next]_vars
-----------------------------------------------------------------------------
\* A box dir's `home` link leads to the HOME made for that box, until the box is
\* taken down: a dead box's files are there to be read or taken out (rm_box: "the
\* HOME only when it is this box's or no box's", ready.rs).  Not of a box that a killed
\* command's rm -rf took the dir or the HOME of.
HomeLinked ==
    \A r \in linked :
        dir[r] \notin robbed => home # NoHome /\ home.rec = r /\ home.by = dir[r]

\* A box that runs has its HOME: no sweep, `up` or `down` removes it from under it
\* ("a box being set up is never judged gone; one made again between the judgement
\* and the removal is kept", ready.rs, sweep_homes), but for the rm -rf that a killed
\* one left at work on the box's own dir or HOME.
UsedKept == \A u \in runs \ robbed : home # NoHome /\ home.by = u
=============================================================================
