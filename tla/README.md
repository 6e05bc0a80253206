# omabox in TLA+

omabox (`src/crates/omabox`) runs nested Hyprland desktops ("boxes") for coding agents and
their users. This directory models its core: how boxes of a name come and go while
several commands, background processes and signals work on them at once, and what works on a
box that is up: saves, the pointer's hiding, background jobs, the reaper's guard of ports,
the broker.

The code has no daemon. Every command is a process of its own that reads and changes files
under `$XDG_RUNTIME_DIR/omabox` and signals other processes; what keeps two of them from spoiling
each other's work is a handful of lock files, markers and re-checks, and most of the
hard behaviour is in what happens when one of them is slow, late, or killed between two steps.

## Inventory

| Component | State | Operations | What makes it correct |
|---|---|---|---|
| Name lock (`boxes.rs` `lock_file`) | `.lock-NAME`, its flock, its inode | open, flock with a deadline, compare inodes; given back by closing or by deleting the file | one holder at a time though the file is deleted under waiters; every caller answered by its deadline |
| `up` (`cmd/up.rs`, `cmd/up_box.rs`, `ready.rs`) | box dir, `box.json`, `starting`, `used`, `covers-pending`, the box's PID 1 | checks, lock, checks again, make, launch, wait until ready, undo | works on its own dir only; cancelled by a `down` that came meanwhile; never hides a box that may run |
| `down` (`cmd/down.rs`, `ready.rs`) | the same, and the `.down-NAME` marker | look, mark, lock, check again, kill, remove, unlink the lock | "no box" is true of every `up` that started before it |
| Reaper (`cmd/reap.rs`) | one process per box that something may end | wait for the pid namespace, poll, decide, call `down`, retry | ends its own box and no other; ends it when its run, its agent or its time is over |
| Session (`boxes.rs` `need_box`, `take_over`; `whose.rs`) | `used`, `box.json`'s agent | mark used, take over for a resumed agent | a box taken over is not ended for its old agent |
| HOMEs (`homeuse.rs`, `ready.rs`) | `HOMES/NAME` and its record, on disk, shared by all runtime dirs | make, judge whose, remove with the box, sweep | removed with its box only, never from under one that runs, but by the `rm -rf` of a killed command |
| Traps and signals (`trap.rs`, `sig.rs`) | pending undos, the flags between main, the handler and the signal thread | arm, forget, run a child, stop | each undo runs once; nothing starts once it began; every signal ends the command |
| Saves (`cmd/save.rs`) | `saves/NAME`, `.new-` and `.old-` dirs, the paused box, a watch per save | save, `--force`, `rm`, `up --from` | a box is never left stopped; a save goes by `rm` or `--force` only; no save's work is cleared by another; the copy is not torn |
| Pointer (`ptr.rs`) | `pointer` (who hides it, what it was), `omabox.pointer`, the compositor's `cursor:invisible` | hide, show, hold, release | hidden while anybody captures or until a show, then as it was |
| Recordings (`cmd/record.rs`, `cmd/record_stop.rs`) | the recorder, `record` file | start, stop, sheet | one at a time, ended and kept however its command ends |
| Jobs (`jobs.rs`, `cmd/jobs.rs`, `cmd/run.rs`, `share/run-job.sh`) | a record and a status file per job, `jobs-noted`, `runs/` (the marks of `omabox run`) | `run -d`, stop, early ends told | an early failing end is told, and none that was asked for |
| Broker and relay (`tools/relay/relay.c`; `relay.rs`, `broker_side.rs`) | a handler process per jailed call, their count | call, serve, count off | the count is right for ever; a command ends with its caller |
| Protected ports (`cmd/reap.rs`, `net.rs`) | the box's nft rule, a schedule of looks | event, look, set, try again | the rule has the host's addresses however they change |
| Agent guard (`guard.rs`, `cmd/guard.rs`) | agents' settings files | on, off | sequential |
| Screens, waits, actions, plugins, checks, diagnosis, setup | none of their own, or one file under one lock | a sequence of calls to Hyprland and an answer | sequential |

How they meet: `up` starts the reaper and both call `down`'s code (`down_one`); `down`, a
failed `up` and the sweep remove HOMEs; all of them take the name lock. Saves, pointer, jobs and the
reaper's guard work on one box's dir each under a lock of their own or none, and share no file with
each other. A signal to any command runs
its undos (`trap.rs`), of which `up`'s is the largest. `PROJECT.json` lists every component
with what is modelled of it, and the hazards line by line.

## Modules

| Module | Models | Composes |
|---|---|---|
| `NameLock` | what the lock of a name promises: nobody has it, or one process has | |
| `LockFile` | `boxes::lock_file` over one file path, its inodes and their reuse | implements `NameLock` (`ImplementsNameLock`) |
| `BoxLife` | the boxes of one name: `up`, `down`, reapers, session commands, the kernel | uses `NameLock` (theorem `UsesNameLock`) |
| `Homes` | one name's HOME over several runtime dirs: `up`, `down`, sweeps | one plain lock per runtime dir |
| `Stop` | one command's main, its signal handler and its signal thread | |
| `Save` | `omabox save`, its watch, `saves rm` and a `down` meanwhile, over boxes, names and runtime dirs | |
| `Pointer` | one box's pointer: shots, recordings, `pointer hide` and `show`, reloads | |
| `Jobs` | one box's `run -d` jobs, their waiters, the commands that say an end, the stops | |
| `RunMarks` | one box's marks of `omabox run`, merged and read with no lock | |
| `Guard` | one reaper's looks at the host's addresses | |
| `Relay` | the broker's `listen`, its handlers, their callers and commands | |
| `MCWork` | the six above in one run: a behaviour is of one of them (`part`), the others keep their initial state | all six |
| `MCLockFile`, `MCBoxLife`, `MCHomes`, `MCStop` | model values and the functions given to the constants | |
| `LockFile_proofs`, `BoxLife_proofs`, `Homes_proofs`, `Stop_proofs`, `Save_proofs`, `Pointer_proofs`, `Jobs_proofs`, `Work_proofs` | theorems (`Jobs_proofs`: of `Jobs` and `RunMarks`; `Work_proofs`: of `Guard`, `Relay` and `MCWork`) | `Work_proofs`: the six of `MCWork` |

Operators in a `(mutant of X: ...)` comment are not part of a specification: they stand beside X
for the form a plausible mistake would give it, and PROJECT.json names the property that tells the
two apart.

### LockFile

`path` is the inode the path names, `fd` each process's open file, `flock` who has each inode's
flock. `Begin`, `Open`, `Flock` (`Try`), `GiveUp`, `Check` and `Reopen` are the steps of
`lock_file`'s loop (open or create, `flock` until the deadline, `stat` the path and compare with
the descriptor's inode, else close and open again). Its holders give the lock back by `Close`
(descriptor dropped, or the process's exit) or `Remove` (the file deleted first, as `down`, a
cancelled `up` and a sweep do). An inode that nobody has open and no path names can be given to
the next file: that is the ABA case the comparison has to survive, and three inodes are what two
deleted files and a new one need.

### BoxLife

State and code: `box` is the box dir (`of`: whose it is, by box.json's `created`; `json`,
`starting`, `pending`: the files `box.json`, `starting`, `covers-pending`; `agent`: box.json's;
`used`: whether the mtime of `used` is within the idle limit). `one` is each box's PID 1: asked
for of Hyprland or bwrap, shown, being killed. `mark` is the name's `.down-` marker. `up`, `dn`,
`reap` and `cmd` are where each process is. A reaper calls `down_one` in-process, so a down is
called by a `Down` or by the reaper of an up (`Caller`).

Actions follow the code's order: an `up` is `Start`, `Refused`/`Wait`, `Lock`, the checks under the
lock (`Cancelled`, `Goahead`, `Already`), `Make`, `Record`, `StartReaper`, `Launch`, `RecordNs`,
`Uncover`, `Ready`, with `Fails`, `Undo`, `Undone` from each step of the making; `down_one` is
`Look`, `MarkUnlocked`, `LookAgain`, `DownWait`, `TakeLock`, `FoundNone`, `Stale`, `Spared`,
`kill_box`, `Unlink`. SIGKILL can take an up or a down at any step; the kernel then drops its lock.
If it was removing a dir, the `rm -rf` is a child (`rm_tree`, `sig::run_child`) with no death signal
and without the lock's descriptor (close-on-exec): it goes on by path (`late`, `OrphanRm`), and may
take `box.json` first and the rest later, of whichever box has its dir there by then. `robbed` is
history: the boxes it took from. `Clear` has the undo armed before the old dir is removed, as
`cmd/up_box.rs:91-131` does. A reaper is not SIGKILLed, so its `rm` always has its parent.

A launch that takes longer than the waits for it (15 s of a reaper, 10 s of an undo) is of an up in
`SlowLaunch`: a reaper then goes on without its box and an undo gives it up.

Whether a `down` came after an `up` is decided in the code from `/proc/PID/stat` start times in
ticks of 10 ms, and within a tick by pids, which wrap. `tick`, `at`, `started`, `start` and `Pid`
model that: the order in which commands started is exact in the state, and `down_came` sees only
what the code sees.

The lock is the plain one of `NameLock`: `lock` has at most one owner and is taken in one step.
The file's existence is kept apart (`lockfile`), because `down` reads "no dir and no lock file" as
no `up` at work. `LockFile` and its refinement theorem (`Refinement`), with `UsesNameLock` on
`BoxLife`'s side, are why that is sound.

Not in it: the options of `up`, what is bound into a box, the single waits for Hyprland, shell and
bar (`Ready` is one step, the outcome any), `pasta`'s death told apart from another death of the
box (`BoxDies`), the reaper that only guards agents' settings, `--orphans`. A reaper is not
SIGKILLed.

### Homes

`home` is HOMES/NAME with its record (the runtime dir it was made in) and the box it was made for; a
SIGKILLed command is `dead`, or `orphdir`/`orphhome` while its `rm -rf` goes on with the lock free
(`Orphan`); a kill during the `chmod -R` before it ends the removal, as nobody is left to start the
`rm`; `dir` and `linked` are each runtime dir's box dir and its `home` link; `takes` is what
`rm_box` judged before its `rm -rf` and `judged` what a sweep judged before it took the lock. The
`rm -rf` is two steps after the judgement, the dir's own files and then the HOME's path. Two runtime
dirs are two logins, or a login and a service, of the user whose HOMEs these are.

### Stop

`mpc` is main, `hpc` the handler of each of two kinds of signal (a terminal's Ctrl-C; any other
INT, TERM or HUP), `tpc` the thread. `foreground` and `undoing` are the mutexes FOREGROUND and
UNDOING; FG_ACTIVE, FG_INT, STOPPING and SIG_BUSY are the code's atomics, each read and written in
a step of its own. `trap` is each undo: armed, run by main, taken by the thread (`queued`), undone
or forgotten; `made` is the moment between the making of a thing and the arming of its undo. Main
does any sequence of what commands do: `Arm` (`on_exit`), `Want`/`Enter`/`Make`/`Armed`/`Leave`
(`made`), `Drop`/`Undone` and `Forget`, `Command` to `Unlock` (`run_child`), `Sleep`, `Busy`
(`sig::busy`), `Work`. Main parks only where the code looks at STOPPING. `late` and `since` are
history: they mark what began after the thread had looked, and no action reads them.

The handlers run on any thread, as POSIX lets them, so main may go on between two of a handler's
steps.

### Save

`spc` is each save's main, in the order of `save()`: lock, leftovers, look, pin, `.new` made, SIGSTOP,
copy, SIGCONT, `save.json`, the two renames, `.old` removed, said. `undo` is its `on_exit` trap, which
main runs when it drops it or the signal's thread runs beside main (`SaveSignal`): a save has no busy
section, so main goes on until it starts a child (`Stopping`). `pins` and `watch` are the two hands
that may let the box go, `paused` the boxes stopped, `fresh` and `old` the `.new-` and `.old-` dirs,
`dest` whose copy is at the name, `copy` what it is worth. A lock is of a runtime dir and a name
(`LockOf`), the saves of all runtime dirs are in one directory. `home` and `DownKills`/`DownRemoves`
are a `down` that comes at any time: it takes no lock of a save's. A process that starts between the
listing and the SIGSTOPs (`BoxForks`, `loose`) goes on. Pids of leftovers are unique, but another
process may have one (`SaveLock` may leave any of them).

### Pointer

`prec` is the record (`pointer`), `flag` the file the box's config reads, `live` Hyprland's
`cursor:invisible`. `pstep` is where a command's `ptr_change` is, under `.pointer.lock` (`plock`): the
record read, dead holds dropped and the operation done (`PtrRead`), then either the option read, the
record written, the option set (`PtrLive`, `PtrWrite`, `PtrSet`) or the record removed and the option
set back (`PtrClear`, `PtrUnset`). `stage` is the command around it; a shot's release on a signal waits
for the gate, so `ShotEnds` starts from `on` only. A SIGKILL leaves the call in the box going
(`orphans`). `base`, `asked` and `lost` are history: what the option is but for omabox, the last
`hide` or `show` to succeed, and whether the very call that shows the pointer again was lost. A reload
between the read of the option and the record's write is omabox's to undo no more than the one before:
`base` starts at the read. The read and the set of `PtrUnset` are one step.

### Jobs and RunMarks

`jexit` is the status file that `run-job.sh` makes and then writes, `jrec` the record, `jnoted` the
file `jobs-noted`, `jrun` a `run -d` in its first moments, `npc`/`nfresh`/`ncur` a command's
`job_note` (files listed, then `jobs-noted` read, then each file noted, then said), `tpc` a `jobs
stop` or `--replace`. None of it is locked. `jtold` and `jstopped` are history: who said a job's end
(a command that looks for ended jobs, `note`; its own `run -d`, `run`), or why such a command did
not (its session was `left` running; the command was killed, `lost`); and the jobs whose command a
stop's signal ended. `run -d` (`JobEnded`) notes the end but does not look whether it was noted; the
commands that look for ended jobs do, so `StopUnsaid` is about these.

`RunMarks` has the marks of `omabox run`, in `$D/runs`: `MarkBegin`, then at the end `MarkList` (one
listing of the directory, the old ones removed, its own mark and those it meets made one),
`MarkRename`, `MarkRemove`. `job_run_stopped` is `LookList`, one listing of the directory (a few
names, in one `getdents` under the directory's lock), by which the closed marks tell, and then a
`LookUp` in `/proc` for each open mark it listed. `mover` and `minside` are history: the runs it is
to count, over or in the box at the listing. The time is the wall clock's, taken not to go back.
What a mark takes as it grows (`Grown`) is the least set of marks closed under "meets one that was
taken": what the code's loop until nothing is taken any more ends with.

### Guard

`gaddrs` is what the host has, `gread` what reading it gives (behind by `Lag` at most), `gevent` the
netlink socket, `gpending`, `gtrailing`, `gwait`, `gfailed` the fields of `Sched`, as times to go.
`GuardLook` and `GuardSet` are the two ends of `guard_look`, between which nft runs, for up to `NftWait`
(`gnft`), while events come and the clock goes on: `Looked` goes by the clock at the end of it, as
`Sched::looked` does. Otherwise `GuardTick` lets no time pass with a look due or an event unseen.
`glost` is history: the time of the trailing look came during the last look, which then takes its place.
An nft that failed is taken to have changed nothing in the rule, its one transaction. One killed after
5 s may have set it: the reaper then keeps what it set before as `last`, and an address that comes back
to that by the next look is not set again. That case is left out.

### Relay

`listen` is the loop's place, with `handlers++` in two steps (`ListenLoad`, `ListenAdd`), `chld` a
pending SIGCHLD, which comes at any point that does not block it; `serve` each handler, `command` its
command from fork over setsid and exec to its end. SIGCHLDs coalesce (`chld` is one bit). A handler is
not SIGKILLed; processes of the session but the command are not modelled.

## Runs

| Run | Instance | What it shows |
|---|---|---|
| `lockfile` | 3 processes, 3 inodes, 2 calls each | The lock excludes (`MutualExclusion`), a holder's file stays the one at the path (`HeldIsLinked`), every call is answered (`Answered`), and the whole implements `NameLock`. |
| `boxlife_marks` | 2 ups (the user's, a jail's), 1 down from the jail, 1 SIGKILL, 2 ticks, pids that wrap at 8 from 6 | An up works on a dir of its own until a killed command's `rm -rf` takes it (`WorkIsOwn`), the lock's file is there while it is held (`LockHasFile`), and a down's "no box" holds of every up before it (`NoneMeansNone`). |
| `boxlife_reapers` | 2 ups whose boxes go with agents a1 and a2, their reapers, a command of the resumed session | No running box is hidden (`BoxesVisible`), a box taken over is spared (`TakenOverKept`), a reaper ends its own box only (`ReaperKeepsOthers`). |
| `boxlife_liveness` | one up, either a windowed one with agent and idle limit or a run's throwaway, covers to check, 1 SIGKILL, 1 command | `OwnerGoneGoes`, `AgentGoneGoes`, `HeldGoes`. |
| `boxlife_none` | 1 up, 2 downs | Finding: the older of two downs writes its marker last. |
| `boxlife_idle` | 2 ups, the first's box with an idle limit: the second finds it up already | Finding: a box just used goes down as idle. |
| `homes` | 2 ups, 1 down, 2 sweeps (one of another runtime dir), 1 SIGKILL, a HOME left from before or not | `HomeLinked`, `UsedKept`: but for what the SIGKILLed command's `rm -rf` takes. |
| `homes_dirs` | an up in each of two runtime dirs, 1 down | Finding: `rm_box` takes a HOME made after it judged that there was none. |
| `stop` | 1 undo, armed by either way, any number of children, 2 signals | The undo is whole (`UndoWhole`, `MadeIsArmed`), nothing starts beside it (`StartsNothing`, `BusyAlone`), and a signal ends the command with nobody left waiting (`Stops`, `ParkEnds`, `IntStops`). |
| `stop_alongside` | the same | Finding: a busy section that begins after the thread looked for one. |
| `work` | `Save`: 4 saves of 2 boxes to 2 names from 2 runtime dirs, two at a time, 2 faults (SIGKILL, signal, down, `saves rm`). `Pointer`: 3 commands of 2 shots, 2 recordings, a hide and a show, 2 faults. `Jobs`: 1 job with 2 notes and a stop, or 2 jobs with a note. `RunMarks`: 3 runs, one that kills and one that may be SIGKILLed, a clock of 3, looks at any moment. `Guard`: 2 addresses, 5 failures in a row, an nft longer than the gap. `Relay`: 3 callers, 2 handlers | A box is paused while it is copied (`CopyStill`) and never left so (`PausedHeld`); a save's work and a save made are not another's to remove (`LiveWorkKept`, `KeptUnforced`). The pointer is in no frame of a capture (`HiddenWhile`), stays hidden when asked (`HideStays`), and is then as it was (`PointerBack`). Early ends are said (`EndSaid`), asked-for ones by no later command (`StopUnsaid`). Merged, dropped and renamed marks tell the same as the runs (`MarksSame`). The rule has the addresses (`GuardCurrent`). The handlers' count is right (`HandlersRight`), a caller's going ends its command (`GoneKilled`). |
| `save_torn` | the same | Finding: what starts between a save's listing and its SIGSTOPs writes to what is copied. |

`work` is one run of six components that share no state, so its behaviours are those of six runs;
`WorkInit` gives the others one initial state each. Its properties are each about one of them.

**Bounds.** Every bound is a constant with "bound" in its comment (`MaxCalls`, `MaxUps`, `MaxTick`,
`MaxKills`, `MaxSignals`). Two ups are the least that can meet, over a name, over a HOME, or as an
old and a new box under a reaper's eyes; the third actor of each run is the one the hazard names (a
down, a command that takes over, a sweep). Two ticks and wrapping pids give "same tick", "later
tick" and a pid order that is the wrong way round. One SIGKILL reaches each state a killed command
leaves, and no property speaks of two. In `boxlife_reapers` there is none (it would double the
space; `boxlife_liveness` and `boxlife_marks` have it). In `boxlife_liveness` only one up is called
in a behaviour, of either kind, as the properties are about one box and the ones who end it, and no
launch is slow (`SlowLaunch = {}`): a reaper that gives its box's namespace up after 15 s is in the
other runs, not in the liveness properties. Two signals are a first and one that meets its handler,
its wait or its undo; a third one is read by nobody once the undo begins. The invariants that are
proved hold without the bounds.

In `work` the sets run together (`Rounds`, `PtrRounds`, `JobRounds`) pair what meets: two saves of
one name from two runtime dirs, of one box to two names, of one name under one lock; a recording
with a second shot, with a show, with another recording; one job with two commands that look and one
that stops it. Two faults are a signal and a SIGKILL of the undo it runs, or a SIGKILL and a `saves
rm`. `b2` alone forks (`Forking`): the save of it meets another one of its name, and those of `b1`
each other. A clock of 3 with a grace of 1 and an age of 2 lets a mark be merged, kept and dropped;
the first run may be SIGKILLed (`Killable`), so that the others find its mark. `Gap = 2`, `FailingMax = 16` keep the code's ratio (250 ms, 2 s), `MaxFailed = 5`
passes the point where the doubling stops. `NftWait = 3` is longer than `Gap`, which is what makes a
trailing look come due during an nft (the code's 5 s are 20 gaps); the theorem has any. Two handlers
and three callers reach the limit and a call turned away.

**Fairness.** `Save`, `Pointer`, `Jobs`, `RunMarks`, `Guard` and `Relay` are checked for safety only
and state none: `GuardCurrent` bounds a time instead, as `GuardTick` lets none pass while a step of
the reaper is due, but its nft's. `LockFile`: a caller of `lock_file` polls on; holders need not let
go. `BoxLife`: a command once called and a reaper once started go on stepping, since every wait they
make is bounded in the code (60 s for the lock, 10 s for a kill, the reaper's poll interval); a
launch comes to something; a killed pid namespace exits. Nobody is made fair who calls a command,
kills, dies or looks. `Stop`: the thread, each handler and main's begun steps go on, undos included
(the code runs an undo to its end); main's in-process work (`Work`) and its child are not fair, they
may take for ever, and `Kill`, `GiveUp` and `RestLong` are the code's own bounds on waiting for
them. What a wait's length is, and so that a bound is met in 20 s, is not modelled.

## Proofs

All are safety, for every value of the constants that the `ASSUME` of the module allows; no bound
enters but as a number.

* **LockFile.** The invariant (`IInv` in `LockFile_proofs`) adds to type correctness that whoever
  is past `Flock` has the flock of the inode it has open (`LockedIsOwned`), and every flock is had
  so (`OwnedIsLocked`): an inode that is open is not given out again. `Check` comparing inodes is
  then enough for `HolderIsLinked`, hence `Exclusive` (two holders would have one flock), hence
  `Refinement`: each step maps to a step of `NameLock` or to none.
* **BoxLife.** `IInv == TypeOK /\ HoldInv /\ ReapersAt /\ OwnInv`. `HoldInv` says who has the lock
  at each step, so that no two are in the middle of anything; `ReapersAt` that a reaper is in
  `down_one` only while it waits for its own down, so that the SIGTERM it may get takes no lock
  from anybody; `OwnInv` that an up's dir is its own from `Make` on and the box a reaper's down
  kills is its own, but for the boxes that a killed command's `rm -rf` took from (`robbed`): of those
  nothing of the kind is true. From it `LockFileThere`, `WorkOwned`, `TakenOverSpared`, the action
  property `OthersKept`, and `UsesNameLock`: what all of them do to `lock` is what `NameLock` says.
  None of the first four is inductive alone: each is about what was read before the lock was had.
* **BoxLife, two theorems with a hypothesis about the behaviour.** Each names the one thing that
  breaks the property, a listed hazard or a finding, so the property is not true without it.
  `RunningSeen`: a running box keeps its dir, unless a killed command's `rm -rf` takes it, as long
  as `LaunchesOwned`, that no launch outlives the `up` that asked for it. What breaks that is a
  SIGKILL of the `up` right after its launch, or an undo that gives a window's launch up while the
  host's Hyprland still has it. `HeadlessSeen` shows that nothing else does: with no SIGKILL and no
  windowed box `LaunchesOwned` holds, hence `BoxesVisible`, and that is the instance
  `boxlife_reapers` checks. `BoxesVisible` excepts the boxes in `robbed`, which are the other way a
  SIGKILL hides a box, and without SIGKILL there are none. `VisibleInv` adds that no PID 1 runs once
  an `up` found none under the lock, and that one which was killed does not show again.
  `NoneIsNone`: a down's "no box" holds of every up before it as long as one down of the name is
  under way (`OneDown`) and the downs are all of one caller, the user or one jail. With two downs
  the older one's marker may be the last (finding 1); with downs of two callers the second one's
  marker, which is for its own jail only, replaces the first one's. `OneDownsNone` is the case of
  one down and needs neither: what `boxlife_marks` checks. Its invariant is that a down's marker, or
  that of a down after it, is there from the moment it found none (`MarkKept`), and that it tells
  off each `up` before it (`ToldOff`). Within a tick that is a question of pids that wrap:
  `PidAhead` says the later of two pids is the one less than half of `PidMax` ahead, as long as
  fewer than half of them started in between (`FewStart`), which `BoxLifeAssumption` has of the
  number of commands.
* **Homes.** For any runtime dirs, under the hypothesis `JudgedStands`: when an `rm_box` or a sweep
  is about to remove the HOME at the path, the one there is still one that may go by what was
  judged. With two runtime dirs this can fail (finding 3: a HOME comes between the judgement and the
  removal), and `LinkedToOwn` and `RunningKept` say that nothing else breaks `HomeLinked` and
  `UsedKept`, which except the boxes whose dir or HOME a killed command's `rm -rf` took (`robbed`;
  below, why there are such boxes). `Holds` says who has each runtime dir's lock at each
  step, `Boxes` that a running box has its dir and its link, `Progress` where dir, link and box
  stand at each step of an up or a down, and that a sweep about to remove has seen no box dir since
  it had the lock. `OneRuntimeKeeps`: with the ups and downs of the name in one runtime dir
  `JudgedStands` (of living commands) always holds, and with it both, for any number of sweeps in
  any runtime dir. `TypeCorrect` has no hypothesis.
* **Stop.** `IInv` adds who has FOREGROUND and UNDOING at each step (`LocksHeld`), that STOPPING
  stays up from the thread's look on and main is shut out of FOREGROUND or parks (`StaysDown`),
  that no Ctrl-C is waited out in a command whose children take none (`Untaken`), and what each
  undo's state says of main and thread (`UndosHeld`). From it `BusyUndoneAlone`, `UndoneWhole`,
  `NothingStarts`, `MadeArmed`, for any set of undos: the `stop` run has one.
* **Save.** `IInv` adds to type correctness that a trap is armed from the pinning on and is a live
  save's (`Armed`), that who has a box's processes has a watch too (`Held`), that a save has its
  lock from its look to its last rename (`Locked`), hence what one without `--force` may find at
  its name after it looked (`Looked`: a save made under another lock), and that a box one save
  copies is stopped from its SIGSTOP on (`Still`). From it `PausedIsHeld`, `CopyIsStill`,
  `UnforcedKept`, `LiveWorkIsKept`, for any saves and any number of faults.
* **Pointer.** `IInv` says that who has the lock has a plan that keeps every hold that is had
  (`HoldsKept`) and a hide that was asked (`HideKept`), that the flag a reload looks at is there as
  long as anybody hides the pointer (`Recorded`), that a command that saw the pointer hidden may
  leave it so (`Seen`), and, for `PointerBack`, where `cursor:invisible` as it was is to be found at
  each step: in the record, in the plan of who shows it again, or in the box (`Based`). None of
  `HiddenWhile`, `HideStays`, `PointerBack` is inductive alone: each fails one step after a plan
  that dropped somebody's hold. From it `HeldIsHidden`, `HiddenUntilShow`, `BackAsItWas`.
* **Jobs.** `IInv` says that a stop has noted its job before it signals it (`Aimed`), that no
  command listed the status file of a job that still runs (`Unended`, `Listed`), hence none past its
  look at `jobs-noted` has a stopped job left to say (`Quiet`), that none said one (`Unsaid`), and
  who is to say an end that is noted while its file is still empty (`Spoken`). From it
  `StopIsUnsaid` and `EndsAreSaid`.
* **RunMarks.** `MarksAreRuns`: what is told of an end is as from the runs, for any runs that end or are
  SIGKILLed at the same time: no kind of run there was not, every one over as the marks were listed, and
  every one that is still there when it is told. Its invariant says that each mark
  spans nothing but closed runs of its kind with no gap longer than the grace between them, that
  each run recent enough to count is in a mark that is there or in one about to be, and what a look half
  done has found and has yet to look up (`MarksTold`). `Grace < Old`
  is what it needs, and what the code's 2 s and 10 s give.
* **Guard.** `RuleIsCurrent`, for any `NftWait`, where no trailing look came due during an nft (`glost`;
  below, how one may). The invariant says that a look that is wanted comes within `FailingMax`
  of the last change or failure (`InTime`), that what the kernel's table has not yet is waited for by
  the trailing look (`Lagging`), and that what the rule has not got a look to come will set
  (`Follows`). It needs `Lag < Gap` and `2 * Gap <= FailingMax`, for any cap of the failures.
* **Relay.** `IInv` says how far the count is from the handlers nobody has waited for at each place
  of the loop (`Counted`), that a connection gets one handler (`Served`), and what a handler's step
  says of its command (`CommandAt`). From it `HandlersCounted` and `CommandGone`, for any callers
  and any `MaxHandlers`.
* **MCWork.** `PartsHold`: a behaviour of the run `work` is one of each part, as a step of one leaves
  the others' variables alone. `WorkTyped` and `WorkSafe` are then the parts' theorems put
  together: everything the run checks, of the run's own specification.

Each invariant and action property of a passing run is stated by one of these theorems. Only
model-checked: the liveness properties (`Answered`, `OwnerGoneGoes`, `AgentGoneGoes`, `HeldGoes`,
`Stops`, `ParkEnds`, `IntStops`), as fairness and ENABLED are beyond the prover, and the five
properties that the runs of the findings show violated.

## Findings

Five places where a comment or a doc says more than the code does, each with a run that TLC finds
violated (PROJECT.json has them with both sides quoted):

1. `cmd/down.rs:247`: two downs that find no box write one marker, the last writer's wins, and an
   up that only the newer one speaks of goes on.
2. `cmd/reap.rs:582`: idleness is decided without the lock and not looked at again under it.
3. `ready.rs:413`: the lock is per runtime dir, the HOME is not: a HOME made after `rm_box` judged
   there was none is removed with the other's box.
4. `cmd/up_box.rs:118`: `up` arms its undo before its busy section begins; a signal's thread that
   looks in between does not wait.
5. `cmd/save.rs:208`: SIGSTOP goes to the processes listed before the watch was started; one that
   starts in between writes while the HOME is copied. Without such a process the same follows from
   two saves of one box to two names: the first one to end resumes the box.
Four more are what a property excepts by name, and nothing else: TLC finds each one violated once the
exception is dropped from it.

* `ready.rs:507` (`robbed` in `UsedKept`, `HomeLinked`, `WorkIsOwn`, `BoxesVisible`): the `rm -rf` of a
  `down`, `up` or sweep is a child that a SIGKILL of its parent does not end, while it does free the
  name's lock: it takes the dir and HOME of the box made next.
* `cmd/reap.rs:333` (`glost` in `GuardCurrent`): a look is entered with the time at its nft's end, so a
  trailing look that came due meanwhile is dropped, and an address read on its way out stays in the
  rule until the next event or poll. The comment at lines 88-90 promises that look.
* `jobs.rs:389` (`RunThere` in `MarksSame`): the marks of `omabox run` are listed before the pids of the
  open ones are looked for; a run that renames its mark and exits in between is counted in neither form.
* `jobs.rs:1281` (`"run"` in `jtold`, which `StopUnsaid` leaves out): `run -d` says its job's early end
  whoever noted it, so a job that another command stops in its first moments is said as killed by
  SIGTERM. `skill/reference.md:1066`: "A stopped job is not said as an early end."

Seen on the way, with no line of the repository that promises otherwise: a `down` while a save
copies leaves a short copy that is said saved; a save SIGKILLed between its two renames leaves the
old save as `.old-NAME-PID`, which the next save of the name removes; two `record start`s at once
both pass the check for a recording, and a `record stop` gives any recording's hold back, a newer
one's too (hence `HiddenWhile`'s condition: a recording's hold is checked as long as no other
recording has begun); two commands may both say one job's end; a `jobs stop` that Hyprland does not
answer has noted the job's end without having stopped it (hence `jaimed` in `EndSaid`); a process of
a jailed call's session that ignores SIGTERM outlives a caller that goes, if the command itself ends
within 3 s.

## Not modelled

`PROJECT.json` lists every part with its reason. Of the parts modelled: `up --from` a save, a disk
that refuses the pointer's record, boxes of an older omabox (no `jobs-noted`), `run -d --wait`, the
windows of a stopped job, `relay copy`, a reaper with no event socket, the recorder itself. The Rust
side of the broker is encoding and path checks in one process. Screens, waits, actions, plugins,
`check`, `diagnose`, setup and the docs are a sequence of calls with one answer. The cleanup of
HOMEs with no record, of a version before records, is left out of `Homes`.

## Plan

1. The writers of `box.json` (`BoxJson`) and the recorder (`Record`), which share the box dir with
   `BoxLife` and `Pointer`.
2. The single waits that end an `up` (`Ready` is one step of `BoxLife`), and what a signal to it may
   find half done, composing `Stop` with `up`'s undo.
