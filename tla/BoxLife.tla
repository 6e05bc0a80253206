------------------------------ MODULE BoxLife ------------------------------
(***************************************************************************)
(* The life of the boxes of one name: `omabox up`, `omabox down`, the      *)
(* reaper `up` starts for its box, the session commands that take a box    *)
(* over for a resumed agent, and what the kernel does to the box's PID 1.  *)
(*                                                                         *)
(* The lock of the name is the plain lock of NameLock (LockFile shows that *)
(* boxes::lock_file is one); that its file exists is kept apart, as `down` *)
(* takes the file for the sign of an `up` at work.  A box is named by the  *)
(* `up` that made it: box.json's `created`.                                *)
(***************************************************************************)
EXTENDS Integers, FiniteSets

CONSTANTS
    Up, Down,          \* the `up` and `down` commands called on the name
    Cmd,               \* other commands of the box's session (need_box)
    Agent,             \* agent processes of that session
    NoProc, NoBox, NoAgent,
    Owned,             \* ups of a throwaway box, gone with its `omabox run`
    Agented,           \* ups whose box goes with its agent
    Idling,            \* ups whose box has an idle limit
    Covered,           \* ups whose box waits for its covers to be checked
    Windowed,          \* ups of an interactive box, launched by the host's Hyprland
    SlowLaunch,        \* ups whose box may show later than the undo or the reaper waits
    AgentOf,           \* the agent each up and command runs for
    JailOf,            \* the jail each up and down is called from
    User,              \* ...which is the user's own when it is in none
    PidMax, FirstPid,  \* where pids wrap, and the pid the first command gets
    MaxUps,            \* bound: ups called in a behaviour
    MaxTick,           \* bound: clock ticks (10 ms) that a command's start tells apart
    MaxKills           \* bound: commands SIGKILLed in a behaviour

ASSUME BoxLifeAssumption ==
    /\ Up \intersect Down = {}
    /\ NoProc \notin {"up", "down", "cmd"} \X (Up \union Down \union Cmd)
    /\ NoBox \notin Up /\ NoAgent \notin Agent \union Up
    /\ Owned \subseteq Up /\ Agented \subseteq Up
    /\ SlowLaunch \subseteq Up
    /\ Idling \subseteq Up /\ Covered \subseteq Up /\ Windowed \subseteq Up
    /\ Owned \intersect (Agented \union Idling) = {}    \* run's up: --idle 0, no agent
    /\ Covered \subseteq Owned \union Agented           \* a jail's box goes with its jail
    /\ AgentOf \in [Up \union Cmd -> Agent]
    /\ PidMax \in Nat \ {0} /\ FirstPid \in 0 .. PidMax - 1
    /\ IsFiniteSet(Up \union Down)
    /\ 2 * Cardinality(Up \union Down) <= PidMax      \* so few pids in one tick
    /\ MaxUps \in Nat /\ MaxTick \in Nat \ {0} /\ MaxKills \in Nat

VARIABLES
    lock,      \* who has the lock of the name
    lockfile,  \* its file exists
    box,       \* the box dir and what is in it
    one,       \* each box's PID 1
    mark,      \* the .down- marker: a down's tick, the pid last made then, its jail
    started,   \* how many commands have started
    start,     \* which of them each was (0: not yet), so its pid
    tick, at,  \* the clock, and what it said as each command started
    up,        \* where each up is
    dn,        \* where each down is: a command's, or a reaper's of its box
    ans,       \* what each down command came to
    reap,      \* each box's reaper
    why,       \* what each reaper's last down was for
    cmd,       \* where each session command is
    live,      \* the agents and the runs (of Owned boxes) still running
    peek,      \* the boxes somebody looks at, or runs a command in
    signalled, \* the ups an INT, TERM or HUP stopped
    kills,     \* commands SIGKILLed so far
    late,      \* those of them whose rm -rf goes on, by path
    robbed     \* history: the boxes whose dir such an rm took, whole or in part

times == <<started, start, tick, at>>
crash == <<kills, late, robbed>>
vars == <<lock, lockfile, box, one, mark, times, up, dn, ans, reap, why, cmd, live,
          peek, signalled, crash>>

Caller  == Down \union Up     \* who calls down_one: a command, or the reaper of a box
UpLock(u)   == <<"up", u>>
DownLock(x) == <<"down", x>>
CmdLock(t)  == <<"cmd", t>>

NoDir == [of |-> NoBox, json |-> FALSE, starting |-> FALSE, pending |-> FALSE,
          agent |-> NoAgent, used |-> FALSE]

Early   == {"new", "started", "waiting"}
Making  == {"made", "json", "launch", "launched", "recorded"}
Ending  == {"undo", "undone", "ended"}
LockedUp == {"locked", "checked", "absent", "cleared"} \union Making \union Ending
UpStates == Early \union LockedUp \union {"up", "already", "failed", "dead"}
DownStates == {"idle", "look", "mark", "look2", "open", "wait", "locked",
               "killing", "unlink", "end"}

Locks == {NoProc} \union {UpLock(u) : u \in Up} \union {DownLock(x) : x \in Caller}
             \union {CmdLock(t) : t \in Cmd}
Dirs  == [of : Up \union {NoBox}, json : BOOLEAN, starting : BOOLEAN,
          pending : BOOLEAN, agent : Agent \union {NoAgent}, used : BOOLEAN]
Marks == [at : 0 .. MaxTick, last : 0 .. PidMax - 1,
          jail : {JailOf[x] : x \in Caller} \union {User}]
OneStates  == {"none", "asked", "shown", "dying"}
Answers    == {"", "none", "down", "busy", "left", "refused"}
ReapStates == {"none", "watch", "poll", "down", "end"}
Reasons    == {"", "gone", "agent", "idle"}
CmdStates  == {"new", "wait", "locked", "ok", "nobox"}

TypeOK ==
    /\ lock \in Locks /\ lockfile \in BOOLEAN
    /\ box \in Dirs
    /\ one \in [Up -> OneStates]
    /\ mark \in Marks
    /\ started \in Nat /\ start \in [Caller -> Nat]
    /\ tick \in 1 .. MaxTick /\ at \in [Caller -> 0 .. MaxTick]
    /\ up \in [Up -> UpStates]
    /\ dn \in [Caller -> DownStates]
    /\ ans \in [Down -> Answers]
    /\ reap \in [Up -> ReapStates] /\ why \in [Up -> Reasons]
    /\ cmd \in [Cmd -> CmdStates]
    /\ live \subseteq Agent \union Owned
    /\ peek \subseteq Up /\ signalled \subseteq Up
    /\ kills \in 0 .. MaxKills /\ robbed \subseteq Up
    /\ late \subseteq {UpLock(u) : u \in Up} \union {DownLock(d) : d \in Down}

Init ==
    /\ lock = NoProc /\ lockfile = FALSE
    /\ box = NoDir
    /\ one = [u \in Up |-> "none"]
    /\ mark = [at |-> 0, last |-> 0, jail |-> User]
    /\ started = 0 /\ start = [x \in Caller |-> 0]
    /\ tick = 1 /\ at = [x \in Caller |-> 0]
    /\ up = [u \in Up |-> "new"]
    /\ dn = [x \in Caller |-> "idle"]
    /\ ans = [d \in Down |-> ""]
    /\ reap = [u \in Up |-> "none"]
    /\ why = [u \in Up |-> ""]
    /\ cmd = [t \in Cmd |-> "new"]
    /\ live = Agent \union Owned
    /\ peek = {}
    /\ signalled = {}
    /\ kills = 0 /\ late = {} /\ robbed = {}

-----------------------------------------------------------------------------
(* What the commands ask of the state.                                     *)

\* The name's box has a PID 1 that is not a zombie: one being killed counts.
box_alive == box.of # NoBox /\ one[box.of] \in {"shown", "dying"}

\* The agent the box records still runs.
agent_alive == box.agent \in live

\* The up that made the box still runs, as its `starting` file says.
starting_alive == box.starting /\ up[box.of] \in LockedUp

\* Meta `created` is the box's the reaper of u watches.
Watched(u) == box.of = u /\ box.json

\* `up` starts a reaper for a box that something may end.
Reaped(u) == u \in Owned \union Agented \union Idling \union Windowed

\* (mutant of Pid: not taken round pid_max)
PidUnwrapped(n) == FirstPid + n

\* The pid of the n-th command started: pids are made in order, round PidMax.
Pid(n) == (FirstPid + n) % PidMax

\* (mutant of down_came: a tie of ticks is no down come meanwhile)
LaterTickOnly(u) == mark.at > at[u]

\* The .down- marker's down came while u was starting: it started in a later tick, or
\* in u's and u's pid was made by the time it wrote its marker.
down_came(u) ==
    \/ mark.at > at[u]
    \/ mark.at = at[u] /\ (mark.last - Pid(start[u])) % PidMax < PidMax \div 2

\* It is for u: of the user's own, or of u's jail.
MarkIsFor(u) == mark.jail \in {User, JailOf[u]}

\* A jailed caller's box is its jail's, as its box.json says; the user's is any.
Mine(x) == JailOf[x] = User \/ (box.json /\ JailOf[box.of] = JailOf[x])

\* SIGKILL to the box's PID 1, once it shows.
Killed(u) == [one EXCEPT ![u] = IF @ = "shown" THEN "dying" ELSE @]

\* The PID 1 a down killed has not exited yet (the dir may have been taken since).
Dying == \E u \in Up : (u = box.of \/ (box.of = NoBox /\ u \in robbed)) /\ one[u] = "dying"

\* Reapers of the name end of a SIGTERM, but for the caller in `but`; the downs
\* go on as `downs` says.
kill_reapers(but, downs) ==
    LET ended == {v \in Up \ but : reap[v] \in {"watch", "poll", "down"}}
    IN  /\ reap' = [v \in Up |-> IF v \in ended THEN "end" ELSE reap[v]]
        /\ dn' = [x \in Caller |-> IF x \in ended THEN "end" ELSE downs[x]]

Begins(x) ==
    /\ started' = started + 1
    /\ start' = [start EXCEPT ![x] = started + 1]
    /\ at' = [at EXCEPT ![x] = tick]
    /\ UNCHANGED tick

Unlocked == lock' = NoProc
Goes(u, s) == up' = [up EXCEPT ![u] = s]

-----------------------------------------------------------------------------
(* `omabox up` *)

Start(u) ==
    /\ up[u] = "new"
    /\ Cardinality({v \in Up : start[v] # 0}) < MaxUps
    /\ Begins(u)
    /\ Goes(u, "started")
    /\ UNCHANGED <<lock, lockfile, box, one, mark, dn, ans, reap, why, cmd, live,
                   peek, signalled, crash>>

\* A check before the lock refuses: nothing was made.
Refused(u) ==
    /\ up[u] = "started"
    /\ Goes(u, "failed")
    /\ UNCHANGED <<lock, lockfile, box, one, mark, times, dn, ans, reap, why, cmd,
                   live, peek, signalled, crash>>

\* lock_file: the file is there from here on, the lock comes when it is free.
Wait(u) ==
    /\ up[u] = "started"
    /\ lockfile' = TRUE
    /\ Goes(u, "waiting")
    /\ UNCHANGED <<lock, box, one, mark, times, dn, ans, reap, why, cmd, live,
                   peek, signalled, crash>>

\* (mutant of Lock: the file locked may be one removed meanwhile)
LockRemoved(u) ==
    /\ up[u] = "waiting" /\ lock = NoProc
    /\ lock' = UpLock(u)
    /\ Goes(u, "locked")
    /\ UNCHANGED <<lockfile, box, one, mark, times, dn, ans, reap, why, cmd, live,
                   peek, signalled, crash>>

Lock(u) ==
    /\ up[u] = "waiting" /\ lock = NoProc
    /\ lock' = UpLock(u) /\ lockfile' = TRUE
    /\ Goes(u, "locked")
    /\ UNCHANGED <<box, one, mark, times, dn, ans, reap, why, cmd, live, peek,
                   signalled, crash>>

Busy(u) ==
    /\ up[u] = "waiting" /\ lock # NoProc
    /\ Goes(u, "failed")
    /\ UNCHANGED <<lock, lockfile, box, one, mark, times, dn, ans, reap, why, cmd,
                   live, peek, signalled, crash>>

\* Another jail's box, or a down that came meanwhile: nothing is made.
Cancelled(u) ==
    /\ up[u] = "locked"
    /\ (box.json /\ ~Mine(u)) \/ (MarkIsFor(u) /\ down_came(u))
    /\ Unlocked /\ Goes(u, "failed")
    /\ UNCHANGED <<lockfile, box, one, mark, times, dn, ans, reap, why, cmd, live,
                   peek, signalled, crash>>

Goahead(u) ==
    /\ up[u] = "locked"
    /\ box.json => Mine(u)
    /\ ~(MarkIsFor(u) /\ down_came(u))
    /\ Goes(u, "checked")
    /\ UNCHANGED <<lock, lockfile, box, one, mark, times, dn, ans, reap, why, cmd,
                   live, peek, signalled, crash>>

\* A check under the lock refuses, or the name's HOME is another box's: nothing made.
RefusedLocked(u) ==
    /\ up[u] \in {"checked", "absent"}
    /\ Unlocked /\ Goes(u, "failed")
    /\ UNCHANGED <<lockfile, box, one, mark, times, dn, ans, reap, why, cmd, live,
                   peek, signalled, crash>>

\* take_over: the box of an agent that is gone becomes agent a's.
take_over(a) ==
    IF box.agent # NoAgent /\ ~agent_alive THEN [box EXCEPT !.agent = a] ELSE box

\* The box is up: taken over when its agent is gone, and used.
Already(u) ==
    /\ up[u] = "checked" /\ box_alive
    /\ box' = [take_over(AgentOf[u]) EXCEPT !.used = TRUE]
    /\ Unlocked /\ Goes(u, "already")
    /\ UNCHANGED <<lockfile, one, mark, times, dn, ans, reap, why, cmd, live, peek,
                   signalled, crash>>

\* It is not: one is to be made, once the checks left pass.
Absent(u) ==
    /\ up[u] = "checked" /\ ~box_alive
    /\ Goes(u, "absent")
    /\ UNCHANGED <<lock, lockfile, box, one, mark, times, dn, ans, reap, why, cmd,
                   live, peek, signalled, crash>>

\* make: its undo armed, the dir of the box that was not alive removed...
Clear(u) ==
    /\ up[u] = "absent"
    /\ box' = NoDir
    /\ Goes(u, "cleared")
    /\ UNCHANGED <<lock, lockfile, one, mark, times, dn, ans, reap, why, cmd, live,
                   peek, signalled, crash>>

\* ...and when no dir can be made, or a signal comes, there is nothing to undo but
\* the reapers of the box that was there.
ClearedFails(u) ==
    /\ up[u] = "cleared"
    /\ \/ UNCHANGED <<signalled, reap, dn>>
       \/ signalled' = signalled \union {u} /\ kill_reapers({}, dn)
    /\ Unlocked /\ Goes(u, "failed")
    /\ UNCHANGED <<lockfile, box, one, mark, times, ans, why, cmd, live, peek, crash>>

\* ...this one's made.
Make(u) ==
    /\ up[u] = "cleared"
    /\ box' = [NoDir EXCEPT !.of = u, !.pending = (u \in Covered)]
    /\ Goes(u, "made")
    /\ UNCHANGED <<lock, lockfile, one, mark, times, dn, ans, reap, why, cmd, live,
                   peek, signalled, crash>>

\* box.json written, in a dir that is still there (else make fails).
Record(u) ==
    /\ up[u] = "made" /\ box.of = u
    /\ box' = [box EXCEPT !.json = TRUE,
                          !.agent = IF u \in Agented THEN AgentOf[u] ELSE NoAgent]
    /\ Goes(u, "json")
    /\ UNCHANGED <<lock, lockfile, one, mark, times, dn, ans, reap, why, cmd, live,
                   peek, signalled, crash>>

\* `starting` and `used` written, if they can be, then the reaper started, before
\* the launch.
StartReaper(u) ==
    /\ up[u] = "json"
    /\ box' = IF box.of = u THEN [box EXCEPT !.starting = TRUE, !.used = TRUE] ELSE box
    /\ reap' = [reap EXCEPT ![u] = IF Reaped(u) THEN "watch" ELSE @]
    /\ Goes(u, "launch")
    /\ UNCHANGED <<lock, lockfile, one, mark, times, dn, ans, why, cmd, live, peek,
                   signalled, crash>>

Launch(u) ==
    /\ up[u] = "launch"
    /\ one' = [one EXCEPT ![u] = "asked"]
    /\ Goes(u, "launched")
    /\ UNCHANGED <<lock, lockfile, box, mark, times, dn, ans, reap, why, cmd, live,
                   peek, signalled, crash>>

\* The box's pid shows in its dir: its pid namespace recorded, in box.json.
RecordNs(u) ==
    /\ up[u] = "launched" /\ one[u] = "shown" /\ Watched(u)
    /\ Goes(u, "recorded")
    /\ UNCHANGED <<lock, lockfile, box, one, mark, times, dn, ans, reap, why, cmd,
                   live, peek, signalled, crash>>

\* covers_check passed: the box's PID 1 goes on.
Uncover(u) ==
    /\ up[u] = "recorded" /\ box.pending
    /\ box' = [box EXCEPT !.pending = FALSE]
    /\ UNCHANGED <<lock, lockfile, one, mark, times, up, dn, ans, reap, why, cmd,
                   live, peek, signalled, crash>>

\* The box answers, and the run it is for still runs.
Ready(u) ==
    /\ up[u] = "recorded" /\ ~box.pending /\ box_alive
    /\ u \in Owned => u \in live
    /\ box' = [box EXCEPT !.starting = FALSE, !.used = TRUE]
    /\ Unlocked /\ Goes(u, "up")
    /\ UNCHANGED <<lockfile, one, mark, times, dn, ans, reap, why, cmd, live, peek,
                   signalled, crash>>

\* up_owner_check: the run is gone, so the up ends its own box.
OwnerGone(u) ==
    /\ up[u] = "recorded" /\ u \in Owned \ live
    /\ one' = IF box.of = u THEN Killed(u) ELSE one
    /\ Goes(u, "ended")
    /\ UNCHANGED <<lock, lockfile, box, mark, times, dn, ans, reap, why, cmd, live,
                   peek, signalled, crash>>

OwnerGoneDone(u) ==
    /\ up[u] = "ended" /\ one[u] # "dying"
    /\ kill_reapers({}, dn)
    /\ box' = NoDir /\ lockfile' = FALSE
    /\ Unlocked /\ Goes(u, "failed")
    /\ UNCHANGED <<one, mark, times, ans, why, cmd, live, peek, signalled, crash>>

\* Its PID 1 still exiting after 10 s: left, dead, to its reaper.
OwnerGoneSlow(u) ==
    /\ up[u] = "ended" /\ one[u] = "dying"
    /\ Unlocked /\ Goes(u, "failed")
    /\ UNCHANGED <<lockfile, box, one, mark, times, dn, ans, reap, why, cmd, live,
                   peek, signalled, crash>>

\* (mutant of Fails: the lock let go before the undo)
FailsUnlocked(u) ==
    /\ up[u] \in Making
    /\ signalled' \in {signalled, signalled \union {u}}
    /\ Unlocked /\ Goes(u, "undo")
    /\ UNCHANGED <<lockfile, box, one, mark, times, dn, ans, reap, why, cmd, live,
                   peek, crash>>

\* A step of make fails, or a signal stops it: its undo runs, the lock still had.
Fails(u) ==
    /\ up[u] \in Making
    /\ signalled' \in {signalled, signalled \union {u}}
    /\ Goes(u, "undo")
    /\ UNCHANGED <<lock, lockfile, box, one, mark, times, dn, ans, reap, why, cmd,
                   live, peek, crash>>

\* A box asked for is waited for until it shows or its launcher is gone, at
\* most 10 s; then PID 1 is killed, or its launcher (a window's is the host's,
\* which still has it to run).  The dir says which PID 1 that is.
Undo(u) ==
    /\ up[u] = "undo" /\ (one[u] = "asked" => u \in SlowLaunch)
    /\ one' = IF one[u] = "asked" /\ u \notin Windowed
              THEN [one EXCEPT ![u] = "none"]
              ELSE IF box.of = u THEN Killed(u) ELSE one
    /\ Goes(u, "undone")
    /\ UNCHANGED <<lock, lockfile, box, mark, times, dn, ans, reap, why, cmd, live,
                   peek, signalled, crash>>

\* PID 1 gone: a signalled up leaves nothing, a failed one its dir and logs once
\* box.json is there.
Undone(u) ==
    /\ up[u] = "undone" /\ one[u] # "dying"
    /\ IF u \in signalled
       THEN kill_reapers({}, dn) /\ box' = NoDir
       ELSE /\ UNCHANGED <<reap, dn>>
            /\ box' = IF box.json THEN [box EXCEPT !.starting = FALSE] ELSE NoDir
    /\ Unlocked /\ Goes(u, "failed")
    /\ UNCHANGED <<lockfile, one, mark, times, ans, why, cmd, live, peek, signalled,
                   crash>>

\* (mutant of UndoneSlow: the dir goes all the same)
UndoneSlowRemoves(u) ==
    /\ up[u] = "undone" /\ one[u] = "dying"
    /\ box' = NoDir
    /\ Unlocked /\ Goes(u, "failed")
    /\ UNCHANGED <<lockfile, one, mark, times, dn, ans, reap, why, cmd, live, peek,
                   signalled, crash>>

\* PID 1 still exiting: its dir is kept.
UndoneSlow(u) ==
    /\ up[u] = "undone" /\ one[u] = "dying"
    /\ box' = [box EXCEPT !.starting = FALSE]
    /\ Unlocked /\ Goes(u, "failed")
    /\ UNCHANGED <<lockfile, one, mark, times, dn, ans, reap, why, cmd, live, peek,
                   signalled, crash>>

\* Its next step is rm_box, the reapers ended first when it was signalled or its
\* run is gone.
UndoneRm(u) ==
    /\ up[u] \in {"undone", "ended"} /\ one[u] # "dying"
    /\ IF up[u] = "ended" \/ u \in signalled
       THEN kill_reapers({}, dn)
       ELSE ~box.json /\ UNCHANGED <<reap, dn>>

\* SIGKILL: nothing is undone; the kernel closes the lock.  An rm -rf under way is
\* a child with no death signal: it goes on.
UpKilled(u) ==
    /\ up[u] \in {"started", "waiting"} \union LockedUp
    /\ kills < MaxKills
    /\ kills' = kills + 1
    /\ lock' = IF lock = UpLock(u) THEN NoProc ELSE lock
    /\ Goes(u, "dead")
    /\ \/ UNCHANGED <<late, reap, dn>>
       \/ /\ late' \in {late, late \union {UpLock(u)}}
          /\ UndoneRm(u) \/ (up[u] = "absent" /\ UNCHANGED <<reap, dn>>)
    /\ UNCHANGED <<lockfile, box, one, mark, times, ans, why, cmd, live, peek,
                   signalled, robbed>>

UpStep(u) ==
    \/ Refused(u) \/ Wait(u) \/ Lock(u) \/ Busy(u) \/ Cancelled(u)
    \/ Goahead(u) \/ RefusedLocked(u) \/ Already(u) \/ Absent(u) \/ Clear(u)
    \/ ClearedFails(u) \/ Make(u)
    \/ Record(u) \/ StartReaper(u) \/ Launch(u) \/ RecordNs(u) \/ Uncover(u)
    \/ Ready(u) \/ OwnerGone(u) \/ OwnerGoneDone(u) \/ OwnerGoneSlow(u)
    \/ Fails(u) \/ Undo(u) \/ Undone(u)
    \/ UndoneSlow(u)

-----------------------------------------------------------------------------
(* down_one: called by `omabox down`, and by a reaper for the box it watches, *)
(* which then goes only if it is still that box (and, when its agent had      *)
(* exited, if it has not been taken over since).                              *)

There == box.of # NoBox \/ lockfile

Steps(x, s) == dn' = [dn EXCEPT ![x] = s]
Answer(x, a) == ans' = IF x \in Down THEN [ans EXCEPT ![x] = a] ELSE ans

\* A down that finds no box leaves its start; not a reaper's, and a jail's never
\* takes the place of the user's own.
down_mark(x) ==
    mark' = IF x \in Down /\ ~(JailOf[x] # User /\ mark.at # 0 /\ mark.jail = User)
            THEN [at |-> at[x], last |-> Pid(started), jail |-> JailOf[x]]
            ELSE mark

DownStart(d) ==
    /\ dn[d] = "idle" /\ start[d] = 0
    /\ Begins(d)
    /\ Steps(d, "look")
    /\ UNCHANGED <<lock, lockfile, box, one, mark, up, ans, reap, why, cmd, live,
                   peek, signalled, crash>>

\* Neither a dir nor a lock file: no box, unless an up shows once the marker is there.
Look(x) ==
    /\ dn[x] = "look"
    /\ Steps(x, IF There THEN "open" ELSE "mark")
    /\ UNCHANGED <<lock, lockfile, box, one, mark, times, up, ans, reap, why, cmd,
                   live, peek, signalled, crash>>

MarkUnlocked(x) ==
    /\ dn[x] = "mark"
    /\ down_mark(x)
    /\ Steps(x, "look2")
    /\ UNCHANGED <<lock, lockfile, box, one, times, up, ans, reap, why, cmd, live,
                   peek, signalled, crash>>

LookAgain(x) ==
    /\ dn[x] = "look2"
    /\ IF There THEN Steps(x, "open") /\ UNCHANGED ans
                ELSE Steps(x, "end") /\ Answer(x, "none")
    /\ UNCHANGED <<lock, lockfile, box, one, mark, times, up, reap, why, cmd, live,
                   peek, signalled, crash>>

DownWait(x) ==
    /\ dn[x] = "open"
    /\ lockfile' = TRUE
    /\ Steps(x, "wait")
    /\ UNCHANGED <<lock, box, one, mark, times, up, ans, reap, why, cmd, live, peek,
                   signalled, crash>>

TakeLock(x) ==
    /\ dn[x] = "wait" /\ lock = NoProc
    /\ lock' = DownLock(x) /\ lockfile' = TRUE
    /\ Steps(x, "locked")
    /\ UNCHANGED <<box, one, mark, times, up, ans, reap, why, cmd, live, peek,
                   signalled, crash>>

\* 60 s: "busy (an up in progress?); not taken down".
DownBusy(x) ==
    /\ dn[x] = "wait" /\ lock # NoProc
    /\ Steps(x, "end") /\ Answer(x, "busy")
    /\ UNCHANGED <<lock, lockfile, box, one, mark, times, up, reap, why, cmd, live,
                   peek, signalled, crash>>

\* The marker before the lock file goes: an up waiting on it then reads it.
FoundNone(x) ==
    /\ dn[x] = "locked" /\ box.of = NoBox
    /\ down_mark(x)
    /\ Steps(x, "unlink") /\ Answer(x, "none")
    /\ UNCHANGED <<lock, lockfile, box, one, times, up, reap, why, cmd, live, peek,
                   signalled, crash>>

\* (mutants of Stale: one of its two checks under the lock dropped)
StaleAgentUnchecked(x) == x \in Up /\ ~Watched(x)
StaleBoxUnchecked(x) == x \in Up /\ why[x] = "agent" /\ agent_alive

\* Whether the reaper of x decided on another box than the one there now, or on an
\* agent the box's session has replaced since.
Stale(x) == x \in Up /\ (~Watched(x) \/ (why[x] = "agent" /\ agent_alive))

Spared(x) ==
    /\ dn[x] = "locked" /\ box.of # NoBox
    /\ Stale(x) \/ ~Mine(x)
    /\ Steps(x, "end") /\ Answer(x, "refused")
    /\ Unlocked
    /\ UNCHANGED <<lockfile, box, one, mark, times, up, reap, why, cmd, live, peek,
                   signalled, crash>>

kill_box(x) ==
    /\ dn[x] = "locked" /\ box.of # NoBox
    /\ ~Stale(x) /\ Mine(x)
    /\ one' = Killed(box.of)
    /\ Steps(x, "killing")
    /\ UNCHANGED <<lock, lockfile, box, mark, times, up, ans, reap, why, cmd, live,
                   peek, signalled, crash>>

\* Its PID 1 is gone: its reapers, then its dir and HOME.
rm_box(x) ==
    /\ dn[x] = "killing" /\ ~Dying
    /\ kill_reapers({x}, [dn EXCEPT ![x] = "unlink"])
    /\ box' = NoDir
    /\ Answer(x, "down")
    /\ UNCHANGED <<lock, lockfile, one, mark, times, up, why, cmd, live, peek,
                   signalled, crash>>

\* Its PID 1 still exiting after 10 s: the dir of a box that may run stays.
KillSlow(x) ==
    /\ dn[x] = "killing" /\ Dying
    /\ Steps(x, "end") /\ Answer(x, "left")
    /\ Unlocked
    /\ UNCHANGED <<lockfile, box, one, mark, times, up, reap, why, cmd, live, peek,
                   signalled, crash>>

\* The lock file removed while held: the lock is given back with it.
Unlink(x) ==
    /\ dn[x] = "unlink"
    /\ lockfile' = FALSE
    /\ Unlocked /\ Steps(x, "end")
    /\ UNCHANGED <<box, one, mark, times, up, ans, reap, why, cmd, live, peek,
                   signalled, crash>>

\* A down command SIGKILLed: its rm -rf, when one is under way, goes on as a child
\* of nobody's, its reapers ended before.
DownKilled(d) ==
    /\ dn[d] \notin {"idle", "end"} /\ kills < MaxKills
    /\ kills' = kills + 1
    /\ lock' = IF lock = DownLock(d) THEN NoProc ELSE lock
    /\ \/ Steps(d, "end") /\ UNCHANGED <<reap, late>>
       \/ /\ dn[d] = "killing" /\ ~Dying
          /\ kill_reapers({}, [dn EXCEPT ![d] = "end"])
          /\ late' \in {late, late \union {DownLock(d)}}
    /\ UNCHANGED <<lockfile, box, one, mark, times, up, ans, why, cmd, live, peek,
                   signalled, robbed>>

DownStep(x) ==
    \/ Look(x) \/ MarkUnlocked(x) \/ LookAgain(x) \/ DownWait(x) \/ TakeLock(x)
    \/ DownBusy(x) \/ FoundNone(x) \/ Spared(x) \/ kill_box(x) \/ rm_box(x)
    \/ KillSlow(x) \/ Unlink(x)

-----------------------------------------------------------------------------
(* The reaper of u's box *)

ReapEnds(u) == reap' = [reap EXCEPT ![u] = "end"] /\ UNCHANGED <<dn, why>>

ReapDown(u, w) ==
    /\ reap' = [reap EXCEPT ![u] = "down"]
    /\ why' = [why EXCEPT ![u] = w]
    /\ Steps(u, "look")

\* wait_pidns: until the box's pid namespace is recorded; once its up is gone, until
\* its PID 1 shows, or has not in 15 s.
Watch(u) ==
    /\ reap[u] = "watch"
    /\ \/ ~Watched(u) /\ ReapEnds(u)
       \/ /\ Watched(u)
          /\ \/ up[u] = "recorded"
             \/ ~starting_alive /\ (one[u] # "asked" \/ u \in SlowLaunch)
          /\ reap' = [reap EXCEPT ![u] = "poll"] /\ UNCHANGED <<dn, why>>
    /\ UNCHANGED <<lock, lockfile, box, one, mark, times, up, ans, cmd, live, peek,
                   signalled, crash>>

OwnerDead(u) == u \in Owned \ live

\* (mutant of Poll: a box held by an up that is gone is left held)
PollLeavesHeld(u) ==
    /\ reap[u] = "poll"
    /\ \/ ~Watched(u) /\ ReapEnds(u)
       \/ /\ Watched(u) /\ ~box_alive
          /\ \/ OwnerDead(u) /\ ReapDown(u, "gone")
             \/ u \in Windowed /\ ReapDown(u, "gone")   \* closed by its user
             \/ u \notin Owned /\ ReapEnds(u)
       \/ /\ Watched(u) /\ box_alive /\ ~box.pending
          /\ OwnerDead(u) /\ ReapDown(u, "gone")
    /\ UNCHANGED <<lock, lockfile, box, one, mark, times, up, ans, cmd, live, peek,
                   signalled, crash>>

\* A poll of the box, when there is something to do.
Poll(u) ==
    /\ reap[u] = "poll"
    /\ \/ ~Watched(u) /\ ReapEnds(u)
       \/ /\ Watched(u) /\ ~box_alive
          /\ \/ OwnerDead(u) /\ ReapDown(u, "gone")
             \/ u \in Windowed /\ ReapDown(u, "gone")   \* closed by its user
             \/ u \notin Owned /\ ReapEnds(u)
       \/ /\ Watched(u) /\ box_alive /\ box.pending
          /\ ~starting_alive /\ ReapDown(u, "gone")
       \/ /\ Watched(u) /\ box_alive /\ ~box.pending
          /\ OwnerDead(u) /\ ReapDown(u, "gone")
    /\ UNCHANGED <<lock, lockfile, box, one, mark, times, up, ans, cmd, live, peek,
                   signalled, crash>>

\* ...and when only its agent and its idle limit count: not while it is in use.
Counts(u) ==
    /\ reap[u] = "poll"
    /\ Watched(u) /\ box_alive /\ ~box.pending /\ ~OwnerDead(u)
    /\ u \in Agented \union Idling

InUse(u) ==
    /\ Counts(u) /\ u \in peek
    /\ box' = [box EXCEPT !.used = TRUE]
    /\ UNCHANGED <<lock, lockfile, one, mark, times, up, dn, ans, reap, why, cmd,
                   live, peek, signalled, crash>>

\* (mutant of AgentGone: not while the box's last use is recent)
AgentGoneUnused(u) ==
    /\ Counts(u) /\ u \notin peek
    /\ u \in Agented /\ ~agent_alive /\ ~box.used
    /\ ReapDown(u, "agent")
    /\ UNCHANGED <<lock, lockfile, box, one, mark, times, up, ans, cmd, live, peek,
                   signalled, crash>>

AgentGone(u) ==
    /\ Counts(u) /\ u \notin peek
    /\ u \in Agented /\ ~agent_alive
    /\ ReapDown(u, "agent")
    /\ UNCHANGED <<lock, lockfile, box, one, mark, times, up, ans, cmd, live, peek,
                   signalled, crash>>

IdleOver(u) ==
    /\ Counts(u) /\ u \notin peek
    /\ u \in Agented => agent_alive
    /\ u \in Idling /\ ~starting_alive /\ ~box.used
    /\ ReapDown(u, "idle")
    /\ UNCHANGED <<lock, lockfile, box, one, mark, times, up, ans, cmd, live, peek,
                   signalled, crash>>

\* (mutant of Retry: its down is tried once)
RetryNever(u) ==
    /\ reap[u] = "down" /\ dn[u] = "end"
    /\ reap' = [reap EXCEPT ![u] = "end"]
    /\ Steps(u, "idle")
    /\ UNCHANGED <<lock, lockfile, box, one, mark, times, up, ans, why, cmd, live,
                   peek, signalled, crash>>

\* Its down is over: it tries again while its box is there, else it ends.
Retry(u) ==
    /\ reap[u] = "down" /\ dn[u] = "end"
    /\ reap' = [reap EXCEPT ![u] = IF Watched(u) THEN "poll" ELSE "end"]
    /\ Steps(u, "idle")
    /\ UNCHANGED <<lock, lockfile, box, one, mark, times, up, ans, why, cmd, live,
                   peek, signalled, crash>>

ReapStep(u) ==
    Watch(u) \/ Poll(u) \/ InUse(u) \/ AgentGone(u) \/ IdleOver(u) \/ Retry(u)
        \/ DownStep(u)

-----------------------------------------------------------------------------
(* need_box: a command of the box's session, its agent running *)

CmdGoes(t, s) == cmd' = [cmd EXCEPT ![t] = s]

NeedBox(t) ==
    /\ cmd[t] = "new" /\ AgentOf[t] \in live
    /\ IF box_alive /\ ~box.pending
       THEN /\ box' = [box EXCEPT !.used = TRUE]
            /\ CmdGoes(t, IF box.agent # NoAgent /\ ~agent_alive THEN "wait" ELSE "ok")
       ELSE CmdGoes(t, "nobox") /\ UNCHANGED box
    /\ UNCHANGED <<lock, lockfile, one, mark, times, up, dn, ans, reap, why, live,
                   peek, signalled, crash>>

\* take_over's own wait for the lock; out of it after 60 s, the box left as it is.
CmdLocks(t) ==
    /\ cmd[t] = "wait"
    /\ IF lock = NoProc
       THEN lock' = CmdLock(t) /\ lockfile' = TRUE /\ CmdGoes(t, "locked")
       ELSE UNCHANGED <<lock, lockfile>> /\ CmdGoes(t, "ok")
    /\ UNCHANGED <<box, one, mark, times, up, dn, ans, reap, why, live, peek,
                   signalled, crash>>

\* Checked again under the lock: the reaper's down may have come first.
TakesOver(t) ==
    /\ cmd[t] = "locked"
    /\ IF box_alive THEN box' = take_over(AgentOf[t]) /\ CmdGoes(t, "ok")
                    ELSE UNCHANGED box /\ CmdGoes(t, "nobox")
    /\ Unlocked
    /\ UNCHANGED <<lockfile, one, mark, times, up, dn, ans, reap, why, live, peek,
                   signalled, crash>>

CmdStep(t) == NeedBox(t) \/ CmdLocks(t) \/ TakesOver(t)

-----------------------------------------------------------------------------
(* What happens to the boxes and the processes they are for *)

ProcsUnchanged == UNCHANGED <<lock, lockfile, mark, up, dn, ans, reap, why, cmd,
                              signalled, crash>>
EnvUnchanged == ProcsUnchanged /\ UNCHANGED times

\* The launched command makes the box and its PID 1, in a dir that is still there.
Shows(u) ==
    /\ one[u] = "asked" /\ box.of = u
    /\ one' = [one EXCEPT ![u] = "shown"]
    /\ EnvUnchanged /\ UNCHANGED <<box, live, peek>>

LaunchFails(u) ==
    /\ one[u] = "asked"
    /\ one' = [one EXCEPT ![u] = "none"]
    /\ EnvUnchanged /\ UNCHANGED <<box, live, peek>>

BoxDies(u) ==
    /\ one[u] = "shown"
    /\ one' = [one EXCEPT ![u] = "none"]
    /\ EnvUnchanged /\ UNCHANGED <<box, live, peek>>

\* The rm -rf a killed command left going, by path: whichever box's dir is there
\* loses what it removes next, box.json first or all at once.
OrphanRm(p) ==
    /\ p \in late
    /\ \/ box' = NoDir /\ late' = late \ {p}
       \/ box' = [box EXCEPT !.json = FALSE, !.agent = NoAgent] /\ UNCHANGED late
    /\ robbed' = robbed \union ({box.of} \ {NoBox})
    /\ UNCHANGED <<lock, lockfile, one, mark, times, up, dn, ans, reap, why, cmd, live,
                   peek, signalled, kills>>

\* A killed PID 1 is gone once all of its pid namespace is.
Exits(u) ==
    /\ one[u] = "dying"
    /\ one' = [one EXCEPT ![u] = "none"]
    /\ EnvUnchanged /\ UNCHANGED <<box, live, peek>>

Ends(a) ==
    /\ a \in live
    /\ live' = live \ {a}
    /\ EnvUnchanged /\ UNCHANGED <<box, one, peek>>

\* The idle limit of a box that has one passes without a use.
TimePasses ==
    /\ box.used /\ box.of \in Idling
    /\ box' = [box EXCEPT !.used = FALSE]
    /\ EnvUnchanged /\ UNCHANGED <<one, live, peek>>

Peeks(u) ==
    /\ one[u] = "shown" /\ u \in Agented \union Idling
    /\ peek' \in {peek \union {u}, peek \ {u}}
    /\ EnvUnchanged /\ UNCHANGED <<box, one, live>>

\* The clock a process's start is told by goes on.
Ticks ==
    /\ tick < MaxTick
    /\ tick' = tick + 1
    /\ ProcsUnchanged /\ UNCHANGED <<started, start, at, box, one, live, peek>>

Env ==
    \/ \E u \in Up : Shows(u) \/ LaunchFails(u) \/ BoxDies(u) \/ Exits(u) \/ Peeks(u)
    \/ \E a \in Agent \union Owned : Ends(a)
    \/ \E p \in late : OrphanRm(p)
    \/ TimePasses \/ Ticks

Next ==
    \/ \E u \in Up : Start(u) \/ UpStep(u) \/ UpKilled(u) \/ ReapStep(u)
    \/ \E d \in Down : DownStart(d) \/ DownStep(d) \/ DownKilled(d)
    \/ \E t \in Cmd : CmdStep(t)
    \/ Env

Spec == Init /\ [][Next]_vars

\* A command once called runs on, as its waits all end (the lock's after 60 s,
\* the box's after 10); a reaper polls for as long as it runs; a launch comes to
\* something, and a killed process exits.  Nothing has to be called, fail, be
\* killed or be looked at.
Fairness ==
    /\ \A u \in Up : /\ WF_vars(UpStep(u)) /\ WF_vars(ReapStep(u))
                     /\ WF_vars(Shows(u) \/ LaunchFails(u)) /\ WF_vars(Exits(u))
    /\ \A d \in Down : WF_vars(DownStep(d))
    /\ \A t \in Cmd : WF_vars(CmdLocks(t) \/ TakesOver(t))

FairSpec == Spec /\ Fairness

-----------------------------------------------------------------------------
(* What must hold *)

\* "A box that may yet run is never hidden" (up_box.rs, the undo): while a box's
\* PID 1 runs, its dir is there under its name for the next command to find, unless
\* a killed command's rm took it.
BoxesVisible ==
    \A u \in Up \ robbed : one[u] \in {"shown", "dying"} => box.of = u

\* The dir an `up` works on, or undoes, is its own from mkdir to the end of its
\* undo: no other up or down comes in between, but for an rm that outlived the lock of
\* the one it was killed under.
WorkIsOwn == \A u \in Up \ robbed : up[u] \in Making \union Ending => box.of = u

\* While anybody has the lock its file is there, so a `down` that finds neither a
\* dir nor a lock file has met no `up` at work.
LockHasFile == lock # NoProc => lockfile

\* A down that said there was no box: no `up` started before it has one of the
\* name or makes one (a jailed caller's speaks for its own jail's ups only).
NoneMeansNone ==
    \A d \in Down : ans[d] = "none" =>
        \A u \in Up :
            /\ start[u] # 0 /\ start[u] < start[d]
            /\ JailOf[d] \in {User, JailOf[u]}
            => up[u] \notin {"checked", "absent", "cleared"} \union Making /\ box.of # u

\* A box the session took over is not taken down for the agent it had before.
TakenOverKept ==
    \A u \in Up : dn[u] = "killing" /\ why[u] = "agent" => ~agent_alive

\* "A headless box goes down after 2 hours with no `omabox` command, peek or
\* `omabox run` against it" (docs/usage.md): not one just used.
IdleUnused ==
    \A u \in Up : dn[u] = "killing" /\ why[u] = "idle" => ~box.used

\* A reaper ends and removes no box but the one it watches (what goes under its lock
\* by a killed command's rm is not its doing).
ReaperKeepsOthers ==
    [][\A u, v \in Up :
          lock = DownLock(v) /\ u # v =>
              /\ ~(one[u] = "shown" /\ one'[u] = "dying")
              /\ ~(box.of = u /\ box'.of # u /\ late' = late)]_vars

\* A throwaway box whose `omabox run` is gone goes; it is left, dead, only by a
\* command killed after it ended the reaper and before its rm had begun.
OwnerGoneGoes ==
    \A u \in Owned :
        (Watched(u) /\ reap[u] # "none" /\ u \notin live)
            ~> (~Watched(u) \/ (kills > 0 /\ reap[u] = "end" /\ ~box_alive))

\* A box goes with its agent, unless its session took it over or somebody looks.
AgentGoneGoes ==
    \A u \in Agented :
        (Watched(u) /\ one[u] = "shown" /\ ~agent_alive)
            ~> (one[u] # "shown" \/ ~Watched(u) \/ agent_alive \/ u \in peek)

\* A box whose covers nobody is left to check does not stay held.
HeldGoes ==
    \A u \in Up :
        (Reaped(u) /\ Watched(u) /\ box_alive /\ box.pending /\ up[u] = "dead")
            ~> ~(Watched(u) /\ box_alive)
=============================================================================
