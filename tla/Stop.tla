-------------------------------- MODULE Stop --------------------------------
(***************************************************************************)
(* How a command of omabox stops on INT, TERM or HUP (trap.rs, sig.rs).    *)
(* The handler only sets flags and writes a byte to a pipe; a thread reads *)
(* it, waits for main's foreground child and then for main, runs the undos *)
(* that main armed and ends the process of the signal.  Main meanwhile     *)
(* makes things, arms and runs undos of its own, and starts children; it   *)
(* parks once it sees that a stop is on its way.                           *)
(*                                                                         *)
(* Three locks: FOREGROUND (a child of main's runs), UNDOING (undos run),  *)
(* and STOPPING, a flag that handler, thread and main share.               *)
(*                                                                         *)
(* The handlers are on from the start (stop_on_signals, or the first undo  *)
(* armed).  Left out: the pointer's own handlers and gate (ptr.rs),        *)
(* signals that came ignored, what is said on the way.                     *)
(***************************************************************************)
EXTENDS Naturals, Sequences

CONSTANTS
    Trap,        \* the undos a command arms, of one thing each
    MaxSignals   \* bound: signals sent to the process

ASSUME StopAssumption == MaxSignals \in Nat

VARIABLES
    takes,       \* whether the command's children take a Ctrl-C (check run's scenario)
    code,        \* the traps that end the command with an exit code (on_exit_code)
    mpc,         \* where main is
    busy,        \* main is in a busy section (up: its box dir made, its HOME seeded)
    late,        \* history: it began once the thread had looked for one (main_at_rest)
    hand, doing, \* the trap main has in hand, and what for
    held,        \* the traps main has yet to drop or forget
    trap,        \* each undo
    since,       \* history: those armed, or made, once a signal's undo had begun
    child, int,  \* main's foreground child, and whether it was sent a Ctrl-C
    FG_ACTIVE, FG_INT, STOPPING, SIG_BUSY,
    foreground, undoing,   \* who has the two locks
    tpc, sig,    \* where the thread is, and the signal it is about
    hpc,         \* where the handler of each signal is
    pipe,        \* the bytes the thread has yet to read
    sent,        \* signals sent
    graceless,   \* main_at_rest's grace ran out
    ended        \* the process, and what ended it

section == <<busy, late>>
aim == <<hand, doing>>
undos == <<held, trap, since>>
fg == <<child, int>>
flags == <<FG_ACTIVE, FG_INT, STOPPING, SIG_BUSY>>
locks == <<foreground, undoing>>
thread == <<tpc, sig, graceless>>
signals == <<hpc, pipe, sent>>
others == <<takes, code, thread, signals, ended>>
vars == <<mpc, section, aim, undos, fg, flags, locks, others>>

Sig == {"ctrlc", "term"}    \* a terminal's Ctrl-C; any INT, TERM or HUP but that
Nobody == "none"

Parked == {"park", "endpark", "exit"}
Resting == Parked \union {"unpark", "endunpark", "lock"}
Running == {"locked", "spawn", "spawned", "child", "reaped", "unlock"}
Undoing == {"want", "in", "arm", "undo", "out"}
MainStates == {"step", "work", "cmd"} \union Resting \union Running \union Undoing
ThreadStates == {"read", "decide", "ctrlc", "goeson", "over", "rest", "undo", "undoing",
                 "die"}
TrapStates == {"none", "made", "armed", "run", "queued", "undone", "forgotten"}

TypeOK ==
    /\ takes \in BOOLEAN /\ code \in SUBSET Trap
    /\ mpc \in MainStates /\ busy \in BOOLEAN /\ late \in BOOLEAN
    /\ hand \in Trap \union {Nobody} /\ doing \in {"make", "drop", "forget"}
    /\ held \subseteq Trap /\ trap \in [Trap -> TrapStates] /\ since \subseteq Trap
    /\ child \in {"none", "runs", "done", "int"} /\ int \in BOOLEAN
    /\ FG_ACTIVE \in BOOLEAN /\ FG_INT \in BOOLEAN
    /\ STOPPING \in BOOLEAN /\ SIG_BUSY \in BOOLEAN
    /\ foreground \in {Nobody, "main", "thread"}
    /\ undoing \in {Nobody, "main", "thread"}
    /\ tpc \in ThreadStates /\ sig \in Sig
    /\ hpc \in [Sig -> {"off", "busy", "stop", "write"}]
    /\ pipe \in Seq(Sig) /\ sent \in 0 .. MaxSignals
    /\ graceless \in BOOLEAN
    /\ ended \in {"no", "main", "signal"}

Init ==
    /\ takes \in BOOLEAN /\ code \in SUBSET Trap
    /\ mpc = "step" /\ busy = FALSE /\ late = FALSE
    /\ hand = Nobody /\ doing = "make" /\ held = {}
    /\ trap = [x \in Trap |-> "none"] /\ since = {}
    /\ child = "none" /\ int = FALSE
    /\ FG_ACTIVE = FALSE /\ FG_INT = FALSE /\ STOPPING = FALSE /\ SIG_BUSY = FALSE
    /\ foreground = Nobody /\ undoing = Nobody
    /\ tpc = "read" /\ sig = "term"
    /\ hpc = [s \in Sig |-> "off"]
    /\ pipe = <<>> /\ sent = 0
    /\ graceless = FALSE
    /\ ended = "no"

-----------------------------------------------------------------------------
(* What the two ask of each other *)

\* (mutant of main_step: main parks in an undo of its own too)
MainStepAlways == TRUE

\* Main's own steps park and take FOREGROUND; the undos it runs do not (UNDO_MAIN).
main_step == undoing # "main"

parks == STOPPING /\ main_step

\* The thread has looked whether main rests, and then begun the undo.
Looked == tpc \in {"undo", "undoing", "die"}
Begun == tpc \in {"undoing", "die"}

\* The thread's undos need not wait for main.
main_rests == mpc \in Resting \/ ~busy

\* An on_exit_code trap is on.
code_active == \E x \in code : trap[x] \in {"armed", "queued"}

Goes(s) == mpc' = s
Turns(x, s) ==
    /\ trap' = [trap EXCEPT ![x] = s]
    /\ since' = IF Begun /\ s \in {"made", "armed"} THEN since \union {x} ELSE since

-----------------------------------------------------------------------------
(* Main's in-process steps *)

\* A busy section begins or ends; a command with one has no child that takes a Ctrl-C.
Busy ==
    /\ mpc = "step" /\ ~takes
    /\ busy' = ~busy
    /\ late' = (~busy /\ Looked)
    /\ UNCHANGED <<mpc, aim, undos, fg, flags, locks, others>>

\* Something done in-process, however long: it looks at no flag.
Work ==
    /\ \/ mpc = "step" /\ Goes("work")
       \/ mpc = "work" /\ Goes("step")
    /\ UNCHANGED <<section, aim, undos, fg, flags, locks, others>>

\* on_exit: armed before what it is the undo of is made.
Arm(x) ==
    /\ mpc = "step" /\ trap[x] = "none"
    /\ Turns(x, "armed")
    /\ held' = held \union {x}
    /\ UNCHANGED <<mpc, section, aim, fg, flags, locks, others>>

\* sig::sleep, and the end of run_child: parked while a stop is on its way.
Sleep ==
    /\ mpc = "step" /\ STOPPING
    /\ Goes("endpark")
    /\ UNCHANGED <<section, aim, undos, fg, flags, locks, others>>

Unpark ==
    /\ ~STOPPING
    /\ \/ mpc = "park" /\ Goes("unpark")
       \/ mpc = "endpark" /\ Goes("endunpark")
    /\ UNCHANGED <<section, aim, undos, fg, flags, locks, others>>

\* MAIN_RESTS set back.
Unrest ==
    /\ \/ mpc = "unpark" /\ Goes("cmd")
       \/ mpc = "endunpark" /\ Goes("step")
    /\ UNCHANGED <<section, aim, undos, fg, flags, locks, others>>

\* The command over, its traps dropped: the process ends, unless a stop is on its way.
Exit ==
    /\ mpc = "step" /\ held = {}
    /\ Goes("exit")
    /\ UNCHANGED <<section, aim, undos, fg, flags, locks, others>>

Exits ==
    /\ mpc = "exit" /\ ~STOPPING
    /\ ended' = "main"
    /\ UNCHANGED <<takes, code, mpc, section, aim, undos, fg, flags, locks, thread,
                   signals>>

-----------------------------------------------------------------------------
(* Main under UNDOING: a thing made and armed as one, a trap dropped or      *)
(* forgotten                                                                 *)

Want(x, what) ==
    /\ mpc = "step"
    /\ \/ what = "make" /\ trap[x] = "none"
       \/ what \in {"drop", "forget"} /\ x \in held
    /\ hand' = x /\ doing' = what
    /\ Goes("want")
    /\ UNCHANGED <<section, undos, fg, flags, locks, others>>

\* (mutant of Enter: the lock not waited for)
EnterFree ==
    /\ mpc = "want"
    /\ Goes("in")
    /\ UNCHANGED <<section, aim, undos, fg, flags, locks, others>>

Enter ==
    /\ mpc = "want" /\ undoing = Nobody
    /\ undoing' = "main"
    /\ Goes("in")
    /\ UNCHANGED <<section, aim, undos, fg, flags, foreground, others>>

\* (mutant of Make: only the making under the lock)
MakeAlone ==
    /\ mpc = "in" /\ doing = "make" /\ ~parks
    /\ Turns(hand, "made")
    /\ undoing' = Nobody
    /\ Goes("arm")
    /\ UNCHANGED <<section, aim, held, fg, flags, foreground, others>>

\* made's F, which may run children, plainly.
Make ==
    /\ mpc = "in" /\ doing = "make" /\ ~parks
    /\ Turns(hand, "made")
    /\ Goes("arm")
    /\ UNCHANGED <<section, aim, held, fg, flags, locks, others>>

Armed ==
    /\ mpc = "arm"
    /\ Turns(hand, "armed")
    /\ held' = held \union {hand}
    /\ Goes("out")
    /\ UNCHANGED <<section, aim, fg, flags, locks, others>>

\* Trap::drop, Trap::forget: nothing is left of one that a signal's undo took.
Drop ==
    /\ mpc = "in" /\ doing = "drop"
    /\ IF trap[hand] = "armed" THEN Turns(hand, "run") /\ Goes("undo")
                               ELSE UNCHANGED <<trap, since>> /\ Goes("out")
    /\ held' = held \ {hand}
    /\ UNCHANGED <<section, aim, fg, flags, locks, others>>

Undone ==
    /\ mpc = "undo" /\ ~parks
    /\ Turns(hand, "undone")
    /\ Goes("out")
    /\ UNCHANGED <<section, aim, held, fg, flags, locks, others>>

Forget ==
    /\ mpc = "in" /\ doing = "forget"
    /\ IF trap[hand] = "armed" THEN Turns(hand, "forgotten")
                               ELSE UNCHANGED <<trap, since>>
    /\ held' = held \ {hand}
    /\ Goes("out")
    /\ UNCHANGED <<section, aim, fg, flags, locks, others>>

Leave ==
    /\ mpc = "out"
    /\ undoing' = IF undoing = "main" THEN Nobody ELSE undoing
    /\ hand' = Nobody /\ doing' = "make"
    /\ Goes("step")
    /\ UNCHANGED <<section, undos, fg, flags, foreground, others>>

-----------------------------------------------------------------------------
(* run_child *)

Command ==
    /\ mpc = "step"
    /\ Goes("cmd")
    /\ UNCHANGED <<section, aim, undos, fg, flags, locks, others>>

ToLock ==
    /\ mpc = "cmd"
    /\ Goes(IF parks THEN "park" ELSE "lock")
    /\ UNCHANGED <<section, aim, undos, fg, flags, locks, others>>

Lock ==
    /\ mpc = "lock" /\ foreground = Nobody
    /\ foreground' = "main"
    /\ Goes("locked")
    /\ UNCHANGED <<section, aim, undos, fg, flags, undoing, others>>

\* A signal between the park and the lock: nothing started.
Locked ==
    /\ mpc = "locked"
    /\ IF STOPPING
       THEN foreground' = Nobody /\ Goes("cmd") /\ UNCHANGED FG_INT
       ELSE FG_INT' = FALSE /\ Goes("spawn") /\ UNCHANGED foreground
    /\ UNCHANGED <<section, aim, undos, fg, FG_ACTIVE, STOPPING, SIG_BUSY,
                   undoing, others>>

Spawn ==
    /\ mpc = "spawn"
    /\ child' = "runs" /\ int' = FALSE
    /\ Goes("spawned")
    /\ UNCHANGED <<section, aim, undos, flags, locks, others>>

Spawned ==
    /\ mpc = "spawned"
    /\ FG_ACTIVE' = takes
    /\ Goes("child")
    /\ UNCHANGED <<section, aim, undos, fg, FG_INT, STOPPING, SIG_BUSY, locks,
                   others>>

\* (mutant of Reap: its death told once the lock is dropped)
ReapUnlocked ==
    /\ mpc = "child" /\ child # "runs"
    /\ foreground' = Nobody
    /\ Goes("reaped")
    /\ UNCHANGED <<section, aim, undos, fg, flags, undoing, others>>

\* Its end read and recorded, FG_ACTIVE lowered, the lock dropped, in this order.
Reap ==
    /\ mpc = "child" /\ child # "runs"
    /\ FG_INT' = (FG_INT \/ child = "int")
    /\ Goes("reaped")
    /\ UNCHANGED <<section, aim, undos, fg, FG_ACTIVE, STOPPING, SIG_BUSY, locks,
                   others>>

Reaped ==
    /\ mpc = "reaped"
    /\ FG_ACTIVE' = FALSE
    /\ Goes("unlock")
    /\ UNCHANGED <<section, aim, undos, fg, FG_INT, STOPPING, SIG_BUSY, locks,
                   others>>

Unlock ==
    /\ mpc = "unlock"
    /\ foreground' = IF foreground = "main" THEN Nobody ELSE foreground
    /\ child' = "none" /\ int' = FALSE
    /\ Goes(IF parks THEN "endpark" ELSE "step")
    /\ UNCHANGED <<section, aim, undos, flags, undoing, others>>

\* A child that ends: a Ctrl-C kills it, or it outlives it.
ChildEnds ==
    /\ child = "runs"
    /\ child' \in {"done"} \union (IF int THEN {"int"} ELSE {})
    /\ UNCHANGED <<mpc, section, aim, undos, int, flags, locks, others>>

\* What main chooses to do next, and what it then goes on with.
MainBegins ==
    \/ Busy \/ Work \/ Sleep \/ Exit \/ Command
    \/ \E x \in Trap : Arm(x) \/ \E what \in {"make", "drop", "forget"} : Want(x, what)

MainGoesOn ==
    \/ Unpark \/ Unrest \/ Exits
    \/ Enter \/ Make \/ Armed \/ Drop \/ Undone \/ Forget \/ Leave
    \/ ToLock \/ Lock \/ Locked \/ Spawn \/ Spawned \/ Reap \/ Reaped \/ Unlock

-----------------------------------------------------------------------------
(* The signals' handler, on any thread *)

MainUnchanged == UNCHANGED <<takes, code, mpc, section, aim, undos>>

\* (mutant of Send: the bound met one signal late)
SendLate(s) ==
    /\ sent <= MaxSignals /\ hpc[s] = "off"
    /\ sent' = sent + 1
    /\ hpc' = [hpc EXCEPT ![s] = "busy"]
    /\ int' = (int \/ (s = "ctrlc" /\ child = "runs"))
    /\ MainUnchanged
    /\ UNCHANGED <<child, flags, locks, thread, pipe, ended>>

\* A terminal's Ctrl-C goes to main's child as well.
Send(s) ==
    /\ sent < MaxSignals /\ hpc[s] = "off"
    /\ sent' = sent + 1
    /\ hpc' = [hpc EXCEPT ![s] = "busy"]
    /\ int' = (int \/ (s = "ctrlc" /\ child = "runs"))
    /\ MainUnchanged
    /\ UNCHANGED <<child, flags, locks, thread, pipe, ended>>

\* on_signal
SetBusy(s) ==
    /\ hpc[s] = "busy"
    /\ SIG_BUSY' = FG_ACTIVE
    /\ hpc' = [hpc EXCEPT ![s] = "stop"]
    /\ MainUnchanged
    /\ UNCHANGED <<fg, FG_ACTIVE, FG_INT, STOPPING, locks, thread, pipe, sent,
                   ended>>

SetStopping(s) ==
    /\ hpc[s] = "stop"
    /\ STOPPING' = TRUE
    /\ hpc' = [hpc EXCEPT ![s] = "write"]
    /\ MainUnchanged
    /\ UNCHANGED <<fg, FG_ACTIVE, FG_INT, SIG_BUSY, locks, thread, pipe, sent,
                   ended>>

Write(s) ==
    /\ hpc[s] = "write"
    /\ pipe' = Append(pipe, s)
    /\ hpc' = [hpc EXCEPT ![s] = "off"]
    /\ MainUnchanged
    /\ UNCHANGED <<fg, flags, locks, thread, sent, ended>>

Handler(s) == SetBusy(s) \/ SetStopping(s) \/ Write(s)

-----------------------------------------------------------------------------
(* The thread *)

At(s) == tpc' = s

Read ==
    /\ tpc = "read" /\ pipe # <<>>
    /\ sig' = Head(pipe) /\ pipe' = Tail(pipe)
    /\ At("decide")
    /\ MainUnchanged
    /\ UNCHANGED <<fg, flags, locks, graceless, hpc, sent, ended>>

\* A Ctrl-C while a child that takes one ran is told from any other signal.
Decide ==
    /\ tpc = "decide"
    /\ At(IF sig = "ctrlc" /\ SIG_BUSY /\ ~code_active THEN "ctrlc" ELSE "over")
    /\ SIG_BUSY' = (sig # "ctrlc" /\ SIG_BUSY)
    /\ STOPPING' = TRUE
    /\ MainUnchanged
    /\ UNCHANGED <<fg, FG_ACTIVE, FG_INT, locks, sig, graceless, signals, ended>>

\* ctrl_c_wait: the child over, which died of it (the command stops) or did not...
ChildOver ==
    /\ tpc = "ctrlc" /\ foreground = Nobody
    /\ IF FG_INT THEN foreground' = "thread" /\ At("rest")
                 ELSE UNCHANGED foreground /\ At("goeson")
    /\ MainUnchanged
    /\ UNCHANGED <<fg, flags, undoing, sig, graceless, signals, ended>>

\* ...or another signal meanwhile, which stops the command.
Another ==
    /\ tpc = "ctrlc" /\ foreground # Nobody /\ pipe # <<>>
    /\ sig' = Head(pipe) /\ pipe' = Tail(pipe)
    /\ At("over")
    /\ MainUnchanged
    /\ UNCHANGED <<fg, flags, locks, graceless, hpc, sent, ended>>

\* (mutant of GoesOn: the flag left as it is)
GoesOnStopping ==
    /\ tpc = "goeson"
    /\ At("read")
    /\ MainUnchanged
    /\ UNCHANGED <<fg, flags, locks, sig, graceless, signals, ended>>

GoesOn ==
    /\ tpc = "goeson"
    /\ STOPPING' = FALSE
    /\ At("read")
    /\ MainUnchanged
    /\ UNCHANGED <<fg, FG_ACTIVE, FG_INT, SIG_BUSY, locks, sig, graceless,
                   signals, ended>>

\* (mutant of Over: the child left running)
OverAtOnce ==
    /\ tpc = "over"
    /\ At("rest")
    /\ MainUnchanged
    /\ UNCHANGED <<fg, flags, locks, sig, graceless, signals, ended>>

\* foreground_over: the child over, and main starts no other.
Over ==
    /\ tpc = "over" /\ foreground = Nobody
    /\ foreground' = "thread"
    /\ At("rest")
    /\ MainUnchanged
    /\ UNCHANGED <<fg, flags, undoing, sig, graceless, signals, ended>>

\* It was sent a TERM after 10 s, a KILL after 15.
Kill ==
    /\ tpc = "over" /\ child = "runs"
    /\ child' = "done"
    /\ MainUnchanged
    /\ UNCHANGED <<int, flags, locks, thread, signals, ended>>

\* What the child left running holds its pipes, 20 s on: main is still in it.
GiveUp ==
    /\ tpc = "over" /\ mpc = "child"
    /\ At("undo")
    /\ MainUnchanged
    /\ UNCHANGED <<fg, flags, locks, sig, graceless, signals, ended>>

\* (mutant of Rest: main not waited for)
RestNot ==
    /\ tpc = "rest"
    /\ At("undo")
    /\ MainUnchanged
    /\ UNCHANGED <<fg, flags, locks, sig, graceless, signals, ended>>

\* main_at_rest
Rest ==
    /\ tpc = "rest" /\ main_rests
    /\ At("undo")
    /\ MainUnchanged
    /\ UNCHANGED <<fg, flags, locks, sig, graceless, signals, ended>>

\* In-process work of more than 10 s.
RestLong ==
    /\ tpc = "rest" /\ ~main_rests
    /\ graceless' = TRUE
    /\ At("undo")
    /\ MainUnchanged
    /\ UNCHANGED <<fg, flags, locks, sig, signals, ended>>

\* run_undos: all that are armed, the last made first.
TakeAll ==
    /\ tpc = "undo" /\ undoing = Nobody
    /\ undoing' = "thread"
    /\ trap' = [x \in Trap |-> IF trap[x] = "armed" THEN "queued" ELSE trap[x]]
    /\ At("undoing")
    /\ UNCHANGED <<takes, code, mpc, section, aim, held, since, fg, flags, foreground,
                   sig, graceless, signals, ended>>

RunOne(x) ==
    /\ tpc = "undoing" /\ trap[x] = "queued"
    /\ Turns(x, "undone")
    /\ UNCHANGED <<mpc, section, aim, held, fg, flags, locks, others>>

AllRun ==
    /\ tpc = "undoing" /\ \A x \in Trap : trap[x] # "queued"
    /\ undoing' = Nobody
    /\ At("die")
    /\ MainUnchanged
    /\ UNCHANGED <<fg, flags, foreground, sig, graceless, signals, ended>>

\* Of the signal, or with 128+N.
Die ==
    /\ tpc = "die"
    /\ ended' = "signal"
    /\ MainUnchanged
    /\ UNCHANGED <<fg, flags, locks, thread, signals>>

Thread ==
    \/ Read \/ Decide \/ ChildOver \/ Another \/ GoesOn \/ Over \/ Kill \/ GiveUp \/ Rest
    \/ RestLong \/ TakeAll \/ (\E x \in Trap : RunOne(x)) \/ AllRun \/ Die

Runs == ended = "no"

Next ==
    \/ Runs /\ (MainBegins \/ MainGoesOn \/ ChildEnds \/ Thread)
    \/ \E s \in Sig : Runs /\ (Send(s) \/ Handler(s))

Spec == Init /\ [][Next]_vars

\* The thread runs on, a handler comes to its end, and main goes on with what it began,
\* undos included; its in-process work and its child may take for ever.
Fairness ==
    /\ WF_vars(Runs /\ MainGoesOn) /\ WF_vars(Runs /\ Thread)
    /\ \A s \in Sig : WF_vars(Runs /\ Handler(s))

FairSpec == Spec /\ Fairness

-----------------------------------------------------------------------------
(* What must hold *)

\* "Nothing new starts meanwhile" (trap.rs): no child of main's starts once the
\* undo of a signal has begun, which removes what it would work on.
StartsNothing == [][Begun => ~(child = "none" /\ child' = "runs")]_vars

\* The undo runs alongside no in-process work of main's in a busy section that had
\* begun when the thread looked, so that work makes again nothing the undo removed,
\* unless a grace ran out, for it or for main's child (main_at_rest, foreground_over).
BusyAlone == Begun /\ busy /\ mpc = "work" => late \/ graceless \/ foreground # "thread"

\* "So the undo never runs alongside main's in-process work there" (main_at_rest):
\* in no busy section whatever, the same two graces aside.
NeverAlongside == Begun /\ busy /\ mpc = "work" => graceless \/ foreground # "thread"

\* "A signal between the making and the arming never leaves what F made" (made): a
\* signal's undo, as it begins, finds every thing that was made armed.
MadeIsArmed ==
    [][tpc = "undo" /\ tpc' = "undoing" => \A x \in Trap : trap[x] # "made"]_vars

\* "Rather than finding TRAPS empty and ending the process halfway through" an undo of
\* main's (undoing): as the process ends, all that was armed or made by the time a
\* signal's undo began is undone whole, by main or by the thread, or was done with.
UndoWhole ==
    ended # "no" => \A x \in Trap \ since : trap[x] \in {"none", "undone", "forgotten"}

\* A signal stops the command, but for a Ctrl-C that came while a child which takes one
\* ran: whatever main does, whoever has the locks, and whatever signals follow.
Stops ==
    \A s \in Sig :
        (hpc[s] = "stop" /\ (s = "term" \/ ~SIG_BUSY)) ~> ended # "no"

\* Main is not left parked: the stop ends the process, or lets main go on.
ParkEnds == (mpc \in Parked) ~> (mpc \notin Parked \/ ended # "no")

\* A child that died of a Ctrl-C which the handler has seen stops the command.
IntStops == (child = "int" /\ STOPPING) ~> ended # "no"
=============================================================================
