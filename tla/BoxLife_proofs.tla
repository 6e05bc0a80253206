-------------------------- MODULE BoxLife_proofs --------------------------
(***************************************************************************)
(* What the lock of a name keeps for `up`, `down`, the reapers and the     *)
(* session's commands, for any number of each, of agents and of kills.     *)
(*                                                                         *)
(* WorkIsOwn, TakenOverKept and ReaperKeepsOthers are not inductive: they  *)
(* rest on who has the lock at each step (HoldInv), on a reaper being in   *)
(* down_one only while it waits for it (ReapersAt), so that its polls and  *)
(* the SIGTERMs it gets take no lock from anyone, and on the box a         *)
(* reaper's down kills being its own (KillsOwn).  The rm -rf of a killed   *)
(* command has no lock at all: the boxes it takes from are in `robbed`.    *)
(*                                                                         *)
(* BoxesVisible and NoneMeansNone are false of the program as it is: what  *)
(* an `up` SIGKILLed after its launch leaves, and two downs at once, break *)
(* them.  They are proved of the behaviours without: no launch outlives    *)
(* its `up` (LaunchesOwned), one `down` at a time (OneDown).               *)
(***************************************************************************)
EXTENDS BoxLife, FiniteSetTheorems, TLAPS

USE DEF Caller, times, crash
-----------------------------------------------------------------------------
\* The bounds are numbers.
LEMMA Bounds == MaxTick \in Nat \ {0} /\ MaxKills \in Nat
BY BoxLifeAssumption

\* Every up and command of the session runs for an agent.
LEMMA AgentsTyped == AgentOf \in [Up \union Cmd -> Agent]
BY BoxLifeAssumption

\* A pid is one of the pids there are (procfs::pid_max).
LEMMA PidTyped == ASSUME NEW n \in Nat PROVE Pid(n) \in 0 .. PidMax - 1
BY BoxLifeAssumption DEF Pid

\* down_mark writes a marker.
LEMMA MarkTyped ==
    ASSUME TypeOK, NEW x \in Caller, down_mark(x)
    PROVE  mark' \in Marks
BY PidTyped DEF TypeOK, down_mark, Marks

\* A command's start is a number and a tick.
LEMMA BeginsTyped ==
    ASSUME TypeOK, NEW x \in Caller, Begins(x)
    PROVE  /\ started' \in Nat /\ start' \in [Caller -> Nat]
           /\ tick' \in 1 .. MaxTick /\ at' \in [Caller -> 0 .. MaxTick]
<1>1. tick \in 1 .. MaxTick /\ tick' = tick /\ tick \in 0 .. MaxTick
  BY DEF TypeOK, Begins
<1>2. started \in Nat /\ start \in [Caller -> Nat]
  BY DEF TypeOK
<1>3. at' \in [Caller -> 0 .. MaxTick]
  BY <1>1 DEF TypeOK, Begins
<1>4. started' \in Nat /\ start' \in [Caller -> Nat]
  BY <1>2 DEF Begins
<1> QED
  BY <1>1, <1>3, <1>4

\* kill_reapers leaves each reaper at a place there is.
LEMMA ReapersTyped ==
    ASSUME TypeOK, NEW but \in SUBSET Caller, NEW downs \in [Caller -> DownStates],
           kill_reapers(but, downs)
    PROVE  reap' \in [Up -> ReapStates] /\ dn' \in [Caller -> DownStates]
BY DEF TypeOK, kill_reapers, ReapStates, DownStates

\* No box is a state of the box dir.
LEMMA NoDirTyped == NoDir \in Dirs
BY DEF NoDir, Dirs

\* A down's answer is one of those there are, a reaper's is nobody's.
LEMMA AnswerTyped ==
    ASSUME TypeOK, NEW x \in Caller, NEW a \in Answers, Answer(x, a)
    PROVE  ans' \in [Down -> Answers]
<1>1. CASE x \in Down
  BY <1>1 DEF TypeOK, Answer
<1>2. CASE x \notin Down
  BY <1>2 DEF TypeOK, Answer
<1> QED
  BY <1>1, <1>2

\* A reaper goes down for a reason.
LEMMA ReapDownTyped ==
    ASSUME TypeOK, NEW u \in Up, NEW w \in Reasons, ReapDown(u, w)
    PROVE  /\ reap' \in [Up -> ReapStates] /\ why' \in [Up -> Reasons]
           /\ dn' \in [Caller -> DownStates]
BY DEF ReapDown, Steps, TypeOK, DownStates, ReapStates

\* The type of the state is kept by every step of an `up`...
LEMMA UpTyped ==
    ASSUME TypeOK, NEW u \in Up, Start(u) \/ UpStep(u) \/ UpKilled(u)
    PROVE  TypeOK'
<1>1. CASE Start(u)
  BY <1>1, BeginsTyped DEF Start, Goes, UpStates, LockedUp, Early, Making,
     Ending, TypeOK
<1>2. CASE Refused(u)
  BY <1>2 DEF Refused, Goes, UpStates, LockedUp, Early, Making, Ending, TypeOK
<1>3. CASE Wait(u)
  BY <1>3 DEF Wait, Goes, UpStates, LockedUp, Early, Making, Ending, TypeOK
<1>4. CASE Lock(u)
  BY <1>4 DEF Lock, Goes, Locks, UpStates, LockedUp, Early, Making, Ending, TypeOK
<1>5. CASE Busy(u)
  BY <1>5 DEF Busy, Goes, UpStates, LockedUp, Early, Making, Ending, TypeOK
<1>6. CASE Cancelled(u)
  BY <1>6 DEF Cancelled, Unlocked, Locks, Goes, UpStates, LockedUp, Early,
     Making, Ending, TypeOK
<1>7. CASE Goahead(u)
  BY <1>7 DEF Goahead, Goes, UpStates, LockedUp, Early, Making, Ending, TypeOK
<1>8. CASE RefusedLocked(u)
  BY <1>8 DEF RefusedLocked, Unlocked, Locks, Goes, UpStates, LockedUp, Early,
     Making, Ending, TypeOK
<1>9. CASE Already(u)
  BY <1>9, AgentsTyped DEF Already, Unlocked, Locks, Goes, take_over, Dirs,
     UpStates, LockedUp, Early, Making, Ending, TypeOK
<1>10. CASE Absent(u)
  BY <1>10 DEF Absent, Goes, UpStates, LockedUp, Early, Making, Ending, TypeOK
<1>11. CASE Make(u)
  <2>1. box' \in Dirs
    <3>1. CASE u \in Covered
      <4>1. [NoDir EXCEPT !.of = u, !.pending = TRUE] \in Dirs
        BY DEF NoDir, Dirs
      <4>2. (u \in Covered) = TRUE
        BY <3>1, Zenon
      <4> QED
        BY <1>11, <4>1, <4>2, Zenon DEF Make
    <3>2. CASE u \notin Covered
      <4>1. [NoDir EXCEPT !.of = u, !.pending = FALSE] \in Dirs
        BY DEF NoDir, Dirs
      <4>2. (u \in Covered) = FALSE
        BY <3>2
      <4> QED
        BY <1>11, <4>1, <4>2, Zenon DEF Make
    <3> QED
      BY <3>1, <3>2
  <2> QED
    BY <1>11, <2>1 DEF Make, Goes, TypeOK, UpStates, LockedUp, Making
<1>12. CASE Record(u)
  BY <1>12, AgentsTyped DEF Record, Goes, Dirs, UpStates, LockedUp, Early,
     Making, Ending, TypeOK
<1>13. CASE StartReaper(u)
  BY <1>13 DEF StartReaper, Goes, Dirs, ReapStates, UpStates, LockedUp, Early,
     Making, Ending, TypeOK
<1>14. CASE Launch(u)
  BY <1>14 DEF Launch, Goes, OneStates, UpStates, LockedUp, Early, Making,
     Ending, TypeOK
<1>15. CASE RecordNs(u)
  BY <1>15 DEF RecordNs, Goes, UpStates, LockedUp, Early, Making, Ending, TypeOK
<1>16. CASE Uncover(u)
  BY <1>16 DEF Uncover, Dirs, TypeOK
<1>17. CASE Ready(u)
  BY <1>17 DEF Ready, Unlocked, Locks, Goes, Dirs, UpStates, LockedUp, Early,
     Making, Ending, TypeOK
<1>18. CASE OwnerGone(u)
  BY <1>18 DEF OwnerGone, Goes, Killed, OneStates, UpStates, LockedUp, Early,
     Making, Ending, TypeOK
<1>19. CASE OwnerGoneDone(u)
  BY <1>19, ReapersTyped, NoDirTyped
     DEF OwnerGoneDone, Unlocked, Locks, Goes, UpStates, LockedUp, Early, Making,
         Ending, TypeOK
<1>20. CASE OwnerGoneSlow(u)
  BY <1>20 DEF OwnerGoneSlow, Unlocked, Locks, Goes, UpStates, LockedUp, Early,
     Making, Ending, TypeOK
<1>21. CASE Fails(u)
  BY <1>21 DEF Fails, Goes, UpStates, LockedUp, Early, Making, Ending, TypeOK
<1>22. CASE Undo(u)
  BY <1>22 DEF Undo, Goes, Killed, OneStates, UpStates, LockedUp, Early, Making,
     Ending, TypeOK
<1>23. CASE Undone(u)
  <2>1. CASE u \in signalled
    BY <1>23, <2>1, ReapersTyped, NoDirTyped
       DEF Undone, Unlocked, Locks, Goes, TypeOK, UpStates
  <2>2. CASE u \notin signalled
    <3>1. [box EXCEPT !.starting = FALSE] \in Dirs
      BY DEF TypeOK, Dirs
    <3> QED
      BY <1>23, <2>2, <3>1, NoDirTyped
         DEF Undone, Unlocked, Locks, Goes, TypeOK, UpStates
  <2> QED
    BY <2>1, <2>2
<1>24. CASE UndoneSlow(u)
  BY <1>24 DEF UndoneSlow, Unlocked, Locks, Goes, Dirs, UpStates, LockedUp,
     Early, Making, Ending, TypeOK
<1>25. CASE UpKilled(u)
  <2>1. reap' \in [Up -> ReapStates] /\ dn' \in [Caller -> DownStates]
    <3>1. UNCHANGED <<reap, dn>> \/ kill_reapers({}, dn)
      BY <1>25 DEF UpKilled, UndoneRm
    <3> QED
      BY <3>1, ReapersTyped DEF TypeOK
  <2>2. late' \subseteq {UpLock(v) : v \in Up} \union {DownLock(d) : d \in Down}
    <3>1. late' \subseteq late \union {UpLock(u)}
      BY <1>25 DEF UpKilled
    <3> QED
      BY <3>1 DEF TypeOK
  <2>3. kills' \in 0 .. MaxKills
    BY <1>25, Bounds DEF UpKilled, TypeOK
  <2>4. lock' \in Locks /\ up' \in [Up -> UpStates]
    BY <1>25 DEF UpKilled, Goes, Locks, UpStates, TypeOK
  <2> QED
    BY <1>25, <2>1, <2>2, <2>3, <2>4 DEF UpKilled, TypeOK
<1>26. CASE Clear(u)
  BY <1>26, NoDirTyped DEF Clear, Goes, UpStates, LockedUp, TypeOK
<1>27. CASE ClearedFails(u)
  <2>1. reap' \in [Up -> ReapStates] /\ dn' \in [Caller -> DownStates]
    <3>1. UNCHANGED <<reap, dn>> \/ kill_reapers({}, dn)
      BY <1>27 DEF ClearedFails
    <3> QED
      BY <3>1, ReapersTyped DEF TypeOK
  <2> QED
    BY <1>27, <2>1 DEF ClearedFails, Unlocked, Locks, Goes, UpStates, TypeOK
<1> QED
  BY <1>26, <1>27, <1>1, <1>2, <1>3, <1>4, <1>5, <1>6, <1>7, <1>8, <1>9, <1>10, <1>11,
     <1>12, <1>13, <1>14, <1>15, <1>16, <1>17, <1>18, <1>19, <1>20, <1>21,
     <1>22, <1>23, <1>24, <1>25 DEF UpStep

\* ...of a down_one...
LEMMA DownTyped ==
    ASSUME TypeOK, NEW x \in Caller, DownStep(x)
    PROVE  TypeOK'
<1>1. CASE Look(x)
  BY <1>1 DEF Look, Steps, DownStates, TypeOK
<1>2. CASE MarkUnlocked(x)
  BY <1>2, MarkTyped DEF MarkUnlocked, Steps, DownStates, TypeOK
<1>3. CASE LookAgain(x)
  <2>1. CASE There
    BY <1>3, <2>1 DEF LookAgain, Steps, TypeOK, DownStates
  <2>2. CASE ~There
    <3>1. Answer(x, "none") /\ "none" \in Answers
      BY <1>3, <2>2 DEF LookAgain, Answers
    <3>2. ans' \in [Down -> Answers]
      BY <3>1, AnswerTyped
    <3> QED
      BY <1>3, <2>2, <3>2 DEF LookAgain, Steps, TypeOK, DownStates
  <2> QED
    BY <2>1, <2>2
<1>4. CASE DownWait(x)
  BY <1>4 DEF DownWait, Steps, DownStates, TypeOK
<1>5. CASE TakeLock(x)
  BY <1>5 DEF TakeLock, Steps, Locks, DownStates, TypeOK
<1>6. CASE DownBusy(x)
  <2>1. Answer(x, "busy") /\ "busy" \in Answers
    BY <1>6 DEF DownBusy, Answers
  <2>2. ans' \in [Down -> Answers]
    BY <2>1, AnswerTyped
  <2> QED
    BY <1>6, <2>2 DEF DownBusy, Steps, TypeOK, DownStates
<1>7. CASE FoundNone(x)
  <2>1. Answer(x, "none") /\ "none" \in Answers
    BY <1>7 DEF FoundNone, Answers
  <2>2. ans' \in [Down -> Answers]
    BY <2>1, AnswerTyped
  <2> QED
    BY <1>7, <2>2, MarkTyped DEF FoundNone, Steps, TypeOK, DownStates
<1>8. CASE Spared(x)
  <2>1. Answer(x, "refused") /\ "refused" \in Answers
    BY <1>8 DEF Spared, Answers
  <2>2. ans' \in [Down -> Answers]
    BY <2>1, AnswerTyped
  <2> QED
    BY <1>8, <2>2 DEF Spared, Steps, Unlocked, Locks, TypeOK, DownStates
<1>9. CASE kill_box(x)
  BY <1>9 DEF kill_box, Steps, Killed, OneStates, DownStates, TypeOK
<1>10. CASE rm_box(x)
  <2>1. Answer(x, "down") /\ "down" \in Answers
    BY <1>10 DEF rm_box, Answers
  <2>2. ans' \in [Down -> Answers]
    BY <2>1, AnswerTyped
  <2>3. /\ kill_reapers({x}, [dn EXCEPT ![x] = "unlink"]) /\ {x} \in SUBSET Caller
        /\ [dn EXCEPT ![x] = "unlink"] \in [Caller -> DownStates]
    BY <1>10 DEF rm_box, TypeOK, DownStates
  <2>4. reap' \in [Up -> ReapStates] /\ dn' \in [Caller -> DownStates]
    BY <2>3, ReapersTyped
  <2> QED
    BY <1>10, <2>2, <2>4, NoDirTyped DEF rm_box, TypeOK
<1>11. CASE KillSlow(x)
  <2>1. Answer(x, "left") /\ "left" \in Answers
    BY <1>11 DEF KillSlow, Answers
  <2>2. ans' \in [Down -> Answers]
    BY <2>1, AnswerTyped
  <2> QED
    BY <1>11, <2>2 DEF KillSlow, Steps, Unlocked, Locks, TypeOK, DownStates
<1>12. CASE Unlink(x)
  BY <1>12 DEF Unlink, Steps, Unlocked, Locks, DownStates, TypeOK
<1> QED
  BY <1>1, <1>2, <1>3, <1>4, <1>5, <1>6, <1>7, <1>8, <1>9, <1>10, <1>11, <1>12
     DEF DownStep

\* ...of what comes before and after a `down` command's...
LEMMA DownCommandTyped ==
    ASSUME TypeOK, NEW d \in Down, DownStart(d) \/ DownKilled(d)
    PROVE  TypeOK'
<1>1. CASE DownStart(d)
  BY <1>1, BeginsTyped DEF DownStart, Steps, DownStates, TypeOK
<1>2. CASE DownKilled(d)
  <2>1. reap' \in [Up -> ReapStates] /\ dn' \in [Caller -> DownStates]
    <3>1. [dn EXCEPT ![d] = "end"] \in [Caller -> DownStates]
      BY DEF TypeOK, DownStates
    <3>2. CASE Steps(d, "end") /\ UNCHANGED reap
      BY <3>1, <3>2 DEF Steps, TypeOK
    <3>3. CASE kill_reapers({}, [dn EXCEPT ![d] = "end"])
      BY <3>1, <3>3, ReapersTyped
    <3> QED
      BY <1>2, <3>2, <3>3 DEF DownKilled
  <2>4. late' \subseteq {UpLock(v) : v \in Up} \union {DownLock(e) : e \in Down}
    <3>1. late' \subseteq late \union {DownLock(d)}
      BY <1>2 DEF DownKilled
    <3> QED
      BY <3>1 DEF TypeOK
  <2>2. lock' \in Locks
    BY <1>2 DEF DownKilled, TypeOK, Locks
  <2>3. kills' \in 0 .. MaxKills
    BY <1>2, Bounds DEF DownKilled, TypeOK
  <2> QED
    BY <1>2, <2>1, <2>2, <2>3, <2>4 DEF DownKilled, TypeOK
<1> QED
  BY <1>1, <1>2

\* ...of a reaper...
LEMMA ReapTyped ==
    ASSUME TypeOK, NEW u \in Up, ReapStep(u)
    PROVE  TypeOK'
<1>1. CASE Watch(u)
  BY <1>1 DEF Watch, ReapEnds, ReapStates, TypeOK
<1>2. CASE Poll(u)
  <2>1. ReapEnds(u) \/ ReapDown(u, "gone")
    BY <1>2 DEF Poll
  <2>2. CASE ReapEnds(u)
    BY <1>2, <2>2 DEF ReapEnds, ReapStates, Poll, TypeOK
  <2>3. CASE ReapDown(u, "gone")
    <3>1. "gone" \in Reasons
      BY DEF Reasons
    <3> QED
      BY <1>2, <2>3, <3>1, ReapDownTyped DEF Poll, TypeOK
  <2> QED
    BY <2>1, <2>2, <2>3
<1>3. CASE InUse(u)
  BY <1>3 DEF InUse, Dirs, TypeOK
<1>4. CASE AgentGone(u)
  BY <1>4 DEF AgentGone, ReapDown, Steps, ReapStates, Reasons, DownStates, TypeOK
<1>5. CASE IdleOver(u)
  BY <1>5 DEF IdleOver, ReapDown, Steps, ReapStates, Reasons, DownStates, TypeOK
<1>6. CASE Retry(u)
  <2>1. reap' \in [Up -> ReapStates]
    BY <1>6 DEF Retry, TypeOK, ReapStates
  <2> QED
    BY <1>6, <2>1 DEF Retry, Steps, TypeOK, DownStates
<1>7. CASE DownStep(u)
  BY <1>7, DownTyped
<1> QED
  BY <1>1, <1>2, <1>3, <1>4, <1>5, <1>6, <1>7 DEF ReapStep

\* ...of a session command...
LEMMA CmdTyped ==
    ASSUME TypeOK, NEW t \in Cmd, CmdStep(t)
    PROVE  TypeOK'
<1>1. CASE NeedBox(t)
  <2>1. [box EXCEPT !.used = TRUE] \in Dirs
    BY DEF TypeOK, Dirs
  <2>2. cmd' \in [Cmd -> CmdStates]
    BY <1>1 DEF NeedBox, TypeOK, CmdGoes, CmdStates
  <2> QED
    BY <1>1, <2>1, <2>2 DEF NeedBox, TypeOK
<1>2. CASE CmdLocks(t)
  BY <1>2 DEF CmdLocks, CmdGoes, Locks, CmdStates, TypeOK
<1>3. CASE TakesOver(t)
  BY <1>3, AgentsTyped DEF TakesOver, Unlocked, CmdGoes, take_over, Locks, Dirs,
     CmdStates, TypeOK
<1> QED
  BY <1>1, <1>2, <1>3 DEF CmdStep

\* ...and of what happens around them.
LEMMA EnvTyped ==
    ASSUME TypeOK, Env
    PROVE  TypeOK'
<1>1. ASSUME NEW u \in Up, Shows(u) \/ LaunchFails(u) \/ BoxDies(u) \/ Exits(u)
      PROVE  TypeOK'
  BY <1>1 DEF Shows, LaunchFails, BoxDies, Exits, EnvUnchanged, ProcsUnchanged,
     TypeOK, OneStates
<1>2. ASSUME NEW u \in Up, Peeks(u)
      PROVE  TypeOK'
  BY <1>2 DEF Peeks, EnvUnchanged, ProcsUnchanged, TypeOK
<1>3. ASSUME NEW a \in Agent \union Owned, Ends(a)
      PROVE  TypeOK'
  BY <1>3 DEF Ends, EnvUnchanged, ProcsUnchanged, TypeOK
<1>6. ASSUME NEW q \in late, OrphanRm(q)
      PROVE  TypeOK'
  <2>1. box' \in Dirs
    <3>1. [box EXCEPT !.json = FALSE, !.agent = NoAgent] \in Dirs
      BY DEF TypeOK, Dirs
    <3> QED
      BY <1>6, <3>1, NoDirTyped DEF OrphanRm
  <2>2. late' \subseteq late /\ robbed' \subseteq Up
    BY <1>6 DEF OrphanRm, TypeOK, Dirs
  <2> QED
    BY <1>6, <2>1, <2>2 DEF OrphanRm, TypeOK
<1>4. CASE TimePasses
  BY <1>4 DEF TimePasses, EnvUnchanged, ProcsUnchanged, TypeOK, Dirs
<1>5. CASE Ticks
  BY <1>5, Bounds DEF Ticks, EnvUnchanged, ProcsUnchanged, TypeOK
<1> QED
  BY <1>1, <1>2, <1>3, <1>4, <1>5, <1>6 DEF Env

\* Every step keeps the type of the state.
LEMMA StepTyped ==
    ASSUME TypeOK, [Next]_vars
    PROVE  TypeOK'
<1>1. CASE UNCHANGED vars
  BY <1>1 DEF vars, TypeOK
<1>2. CASE Next
  BY <1>2, UpTyped, DownTyped, DownCommandTyped, ReapTyped, CmdTyped, EnvTyped
     DEF Next
<1> QED
  BY <1>1, <1>2

\* It holds as the program starts.
LEMMA InitTyped == Init => TypeOK
<1> SUFFICES ASSUME Init PROVE TypeOK
  OBVIOUS
<1>1. mark = [at |-> 0, last |-> 0, jail |-> User]
  BY DEF Init
<1>2. mark \in Marks
  BY <1>1, BoxLifeAssumption DEF Marks
<1>3. lock \in Locks /\ box \in Dirs
  BY NoDirTyped DEF Init, Locks
<1>4. /\ start = [x \in Caller |-> 0] /\ at = [x \in Caller |-> 0]
      /\ tick = 1 /\ kills = 0 /\ started = 0
  BY DEF Init
<1>5. start \in [Caller -> Nat] /\ at \in [Caller -> 0 .. MaxTick]
  BY <1>4, Bounds
<1>6. tick \in 1 .. MaxTick /\ kills \in 0 .. MaxKills /\ started \in Nat
  BY <1>4, Bounds
<1>7. dn \in [Caller -> DownStates] /\ up \in [Up -> UpStates]
  BY DEF Init, UpStates, DownStates, Early
<1>8. /\ ans \in [Down -> Answers] /\ reap \in [Up -> ReapStates]
      /\ why \in [Up -> Reasons]
      /\ one \in [Up -> OneStates] /\ cmd \in [Cmd -> CmdStates]
  BY DEF Init, Answers, ReapStates, Reasons, OneStates, CmdStates
<1>9. /\ lockfile \in BOOLEAN /\ live \subseteq Agent \union Owned
      /\ peek \subseteq Up /\ signalled \subseteq Up
      /\ late = {} /\ robbed = {}
  BY DEF Init
<1> QED
  BY <1>2, <1>3, <1>5, <1>6, <1>7, <1>8, <1>9 DEF TypeOK

\* The type of the state of up, down, the reapers and the session's commands.
THEOREM TypeCorrect == Spec => []TypeOK
BY InitTyped, StepTyped, PTL DEF Spec
-----------------------------------------------------------------------------
(* Where each reaper is *)

\* A reaper is in down_one only while it waits for its down, and is started after
\* its box's box.json is written.
Unreaped == {"new", "started", "waiting", "locked", "checked", "absent", "cleared",
             "made", "json"}
ReapersAt ==
    \A u \in Up :
        /\ dn[u] \notin {"idle", "end"} => reap[u] = "down"
        /\ up[u] \in Unreaped => reap[u] = "none"

\* The reapers are where they are said to be after a step of an `up`...
LEMMA UpKeepsReapers ==
    ASSUME TypeOK, ReapersAt, NEW u \in Up, Start(u) \/ UpStep(u) \/ UpKilled(u)
    PROVE  ReapersAt'
<1>1. CASE Start(u)
  BY <1>1 DEF Start, Goes, LockedUp, Making, Ending, TypeOK, ReapersAt, Unreaped
<1>2. CASE Refused(u)
  BY <1>2 DEF Refused, Goes, LockedUp, Making, Ending, TypeOK, ReapersAt, Unreaped
<1>3. CASE Wait(u)
  BY <1>3 DEF Wait, Goes, LockedUp, Making, Ending, TypeOK, ReapersAt, Unreaped
<1>4. CASE Lock(u)
  BY <1>4 DEF Lock, Goes, LockedUp, Making, Ending, TypeOK, ReapersAt, Unreaped
<1>5. CASE Busy(u)
  BY <1>5 DEF Busy, Goes, LockedUp, Making, Ending, TypeOK, ReapersAt, Unreaped
<1>6. CASE Cancelled(u)
  BY <1>6 DEF Cancelled, Goes, LockedUp, Making, Ending, TypeOK, ReapersAt, Unreaped
<1>7. CASE Goahead(u)
  BY <1>7 DEF Goahead, Goes, LockedUp, Making, Ending, TypeOK, ReapersAt, Unreaped
<1>8. CASE RefusedLocked(u)
  BY <1>8 DEF RefusedLocked, Goes, LockedUp, Making, Ending, TypeOK, ReapersAt,
     Unreaped
<1>9. CASE Already(u)
  BY <1>9 DEF Already, Goes, LockedUp, Making, Ending, TypeOK, ReapersAt, Unreaped
<1>10. CASE Absent(u)
  BY <1>10 DEF Absent, Goes, LockedUp, Making, Ending, TypeOK, ReapersAt, Unreaped
<1>11. CASE Make(u)
  BY <1>11 DEF Make, Goes, LockedUp, Making, Ending, TypeOK, ReapersAt, Unreaped
<1>12. CASE Record(u)
  BY <1>12 DEF Record, Goes, LockedUp, Making, Ending, TypeOK, ReapersAt, Unreaped
<1>13. CASE StartReaper(u)
  BY <1>13 DEF StartReaper, Goes, Reaped, LockedUp, Making, Ending, TypeOK,
     ReapersAt, Unreaped
<1>14. CASE Launch(u)
  BY <1>14 DEF Launch, Goes, LockedUp, Making, Ending, TypeOK, ReapersAt, Unreaped
<1>15. CASE RecordNs(u)
  BY <1>15 DEF RecordNs, Goes, LockedUp, Making, Ending, TypeOK, ReapersAt, Unreaped
<1>16. CASE Uncover(u)
  BY <1>16 DEF Uncover, LockedUp, Making, Ending, TypeOK, ReapersAt, Unreaped
<1>17. CASE Ready(u)
  BY <1>17 DEF Ready, Goes, LockedUp, Making, Ending, TypeOK, ReapersAt, Unreaped
<1>18. CASE OwnerGone(u)
  BY <1>18 DEF OwnerGone, Goes, LockedUp, Making, Ending, TypeOK, ReapersAt,
     Unreaped
<1>19. CASE OwnerGoneDone(u)
  BY <1>19 DEF OwnerGoneDone, Goes, kill_reapers, LockedUp, Making, Ending,
     TypeOK, ReapersAt, Unreaped
<1>20. CASE OwnerGoneSlow(u)
  BY <1>20 DEF OwnerGoneSlow, Goes, LockedUp, Making, Ending, TypeOK, ReapersAt,
     Unreaped
<1>21. CASE Fails(u)
  BY <1>21 DEF Fails, Goes, LockedUp, Making, Ending, TypeOK, ReapersAt, Unreaped
<1>22. CASE Undo(u)
  BY <1>22 DEF Undo, Goes, LockedUp, Making, Ending, TypeOK, ReapersAt, Unreaped
<1>23. CASE Undone(u)
  BY <1>23 DEF Undone, Goes, kill_reapers, LockedUp, Making, Ending, TypeOK,
     ReapersAt, Unreaped
<1>24. CASE UndoneSlow(u)
  BY <1>24 DEF UndoneSlow, Goes, LockedUp, Making, Ending, TypeOK, ReapersAt,
     Unreaped
<1>25. CASE UpKilled(u)
  <2>1. CASE UNCHANGED <<reap, dn>>
    BY <1>25, <2>1 DEF UpKilled, Goes, TypeOK, ReapersAt, Unreaped
  <2>2. CASE UndoneRm(u)
    <3>1. UNCHANGED <<reap, dn>> \/ kill_reapers({}, dn)
      BY <2>2 DEF UndoneRm
    <3>2. up' = [up EXCEPT ![u] = "dead"]
      BY <1>25 DEF UpKilled, Goes
    <3>3. CASE kill_reapers({}, dn)
      BY <3>2, <3>3 DEF kill_reapers, TypeOK, ReapersAt, Unreaped
    <3> QED
      BY <2>1, <3>1, <3>3
  <2> QED
    BY <1>25, <2>1, <2>2 DEF UpKilled
<1>26. CASE Clear(u)
  BY <1>26 DEF Clear, Goes, TypeOK, ReapersAt, Unreaped
<1>27. CASE ClearedFails(u)
  BY <1>27 DEF ClearedFails, Goes, kill_reapers, TypeOK, ReapersAt, Unreaped
<1> QED
  BY <1>26, <1>27, <1>1, <1>2, <1>3, <1>4, <1>5, <1>6, <1>7, <1>8, <1>9, <1>10, <1>11,
     <1>12, <1>13, <1>14, <1>15, <1>16, <1>17, <1>18, <1>19, <1>20, <1>21,
     <1>22, <1>23, <1>24, <1>25 DEF UpStep

\* ...of down_one...
LEMMA DownKeepsReapers ==
    ASSUME TypeOK, ReapersAt, NEW x \in Caller, DownStep(x)
    PROVE  ReapersAt'
<1>1. CASE Look(x)
  BY <1>1 DEF Look, TypeOK, Steps, ReapersAt, Unreaped
<1>2. CASE MarkUnlocked(x)
  BY <1>2 DEF MarkUnlocked, TypeOK, Steps, ReapersAt, Unreaped
<1>3. CASE LookAgain(x)
  BY <1>3 DEF LookAgain, TypeOK, Steps, ReapersAt, Unreaped
<1>4. CASE DownWait(x)
  BY <1>4 DEF DownWait, TypeOK, Steps, ReapersAt, Unreaped
<1>5. CASE TakeLock(x)
  BY <1>5 DEF TakeLock, TypeOK, Steps, ReapersAt, Unreaped
<1>6. CASE DownBusy(x)
  BY <1>6 DEF DownBusy, TypeOK, Steps, ReapersAt, Unreaped
<1>7. CASE FoundNone(x)
  BY <1>7 DEF FoundNone, TypeOK, Steps, ReapersAt, Unreaped
<1>8. CASE Spared(x)
  BY <1>8 DEF Spared, TypeOK, Steps, ReapersAt, Unreaped
<1>9. CASE kill_box(x)
  BY <1>9 DEF kill_box, TypeOK, Steps, ReapersAt, Unreaped
<1>10. CASE rm_box(x)
  BY <1>10 DEF rm_box, TypeOK, kill_reapers, ReapersAt, Unreaped
<1>11. CASE KillSlow(x)
  BY <1>11 DEF KillSlow, TypeOK, Steps, ReapersAt, Unreaped
<1>12. CASE Unlink(x)
  BY <1>12 DEF Unlink, TypeOK, Steps, ReapersAt, Unreaped
<1> QED
  BY <1>1, <1>2, <1>3, <1>4, <1>5, <1>6, <1>7, <1>8, <1>9, <1>10, <1>11, <1>12
     DEF DownStep

\* ...of a `down` command...
LEMMA DownCommandKeepsReapers ==
    ASSUME TypeOK, ReapersAt, NEW d \in Down, DownStart(d) \/ DownKilled(d)
    PROVE  ReapersAt'
<1>1. CASE DownStart(d)
  BY <1>1, BoxLifeAssumption DEF DownStart, Steps, TypeOK, ReapersAt, Unreaped
<1>2. CASE DownKilled(d)
  <2>1. d \notin Up
    BY BoxLifeAssumption
  <2>2. CASE Steps(d, "end") /\ UNCHANGED reap
    BY <1>2, <2>1, <2>2 DEF DownKilled, Steps, TypeOK, ReapersAt, Unreaped
  <2>3. CASE kill_reapers({}, [dn EXCEPT ![d] = "end"])
    BY <1>2, <2>1, <2>3 DEF DownKilled, kill_reapers, TypeOK, ReapersAt, Unreaped
  <2> QED
    BY <1>2, <2>2, <2>3 DEF DownKilled
<1> QED
  BY <1>1, <1>2

\* ...and of a reaper.
LEMMA ReapKeepsReapers ==
    ASSUME TypeOK, ReapersAt, NEW u \in Up, ReapStep(u)
    PROVE  ReapersAt'
<1>1. CASE Watch(u)
  BY <1>1 DEF Watch, ReapEnds, ReapDown, Steps, TypeOK, ReapersAt, Unreaped
<1>2. CASE Poll(u)
  BY <1>2 DEF Poll, ReapEnds, ReapDown, Steps, TypeOK, ReapersAt, Unreaped
<1>3. CASE InUse(u)
  BY <1>3 DEF InUse, ReapEnds, ReapDown, Steps, TypeOK, ReapersAt, Unreaped
<1>4. CASE AgentGone(u)
  BY <1>4 DEF AgentGone, Counts, ReapEnds, ReapDown, Steps, TypeOK, ReapersAt,
     Unreaped
<1>5. CASE IdleOver(u)
  BY <1>5 DEF IdleOver, Counts, ReapEnds, ReapDown, Steps, TypeOK, ReapersAt,
     Unreaped
<1>6. CASE Retry(u)
  BY <1>6 DEF Retry, ReapEnds, ReapDown, Steps, TypeOK, ReapersAt, Unreaped
<1>7. CASE DownStep(u)
  BY <1>7, DownKeepsReapers
<1> QED
  BY <1>1, <1>2, <1>3, <1>4, <1>5, <1>6, <1>7 DEF ReapStep

-----------------------------------------------------------------------------
(* Who has the lock, by where each process is *)

HasIt == {"locked", "killing", "unlink"}
UpHolds   == \A u \in Up : up[u] \in LockedUp <=> lock = UpLock(u)
DownHolds == \A x \in Caller : dn[x] \in HasIt <=> lock = DownLock(x)
CmdHolds  == \A t \in Cmd : cmd[t] = "locked" <=> lock = CmdLock(t)
HoldInv == UpHolds /\ DownHolds /\ CmdHolds /\ LockHasFile

\* The lock tells who has it.
LEMMA LocksDistinct ==
    /\ \A u, v \in Up : UpLock(u) = UpLock(v) => u = v
    /\ \A x, y \in Caller : DownLock(x) = DownLock(y) => x = y
    /\ \A s, t \in Cmd : CmdLock(s) = CmdLock(t) => s = t
    /\ \A u \in Up, x \in Caller : UpLock(u) # DownLock(x)
    /\ \A u \in Up, t \in Cmd : UpLock(u) # CmdLock(t)
    /\ \A x \in Caller, t \in Cmd : DownLock(x) # CmdLock(t)
    /\ \A u \in Up : UpLock(u) # NoProc
    /\ \A x \in Caller : DownLock(x) # NoProc
    /\ \A t \in Cmd : CmdLock(t) # NoProc
BY BoxLifeAssumption DEF UpLock, DownLock, CmdLock

\* down_one's steps that leave the lock alone.
SameDowns == \A x \in Caller : dn'[x] \in HasIt <=> dn[x] \in HasIt

\* An `up` goes on without taking or giving back the lock.
LEMMA UpGoesOn ==
    ASSUME TypeOK, HoldInv, NEW u \in Up, NEW s \in UpStates, Goes(u, s),
           s \in LockedUp <=> up[u] \in LockedUp,
           lock' = lock, lockfile => lockfile', SameDowns, UNCHANGED cmd
    PROVE  HoldInv'
BY DEF TypeOK, Goes, SameDowns, HoldInv, UpHolds, DownHolds, CmdHolds, LockHasFile

\* ...takes it...
LEMMA UpTakes ==
    ASSUME TypeOK, HoldInv, NEW u \in Up, NEW s \in LockedUp, Goes(u, s),
           lock = NoProc, lock' = UpLock(u), lockfile', UNCHANGED <<dn, cmd>>
    PROVE  HoldInv'
<1>1. up' = [up EXCEPT ![u] = s] /\ up \in [Up -> UpStates]
  BY DEF Goes, TypeOK
<1>2. UpHolds'
  BY <1>1, LocksDistinct DEF HoldInv, UpHolds
<1>3. DownHolds' /\ CmdHolds'
  BY LocksDistinct DEF HoldInv, DownHolds, CmdHolds
<1> QED
  BY <1>2, <1>3 DEF HoldInv, LockHasFile

\* ...and gives it back.
LEMMA UpGives ==
    ASSUME TypeOK, HoldInv, NEW u \in Up, NEW s \in UpStates \ LockedUp, Goes(u, s),
           up[u] \in LockedUp, lock' = NoProc, SameDowns, UNCHANGED cmd
    PROVE  HoldInv'
<1>1. up' = [up EXCEPT ![u] = s] /\ up \in [Up -> UpStates]
  BY DEF Goes, TypeOK
<1>2. lock = UpLock(u)
  BY DEF HoldInv, UpHolds
<1>3. UpHolds'
  BY <1>1, <1>2, LocksDistinct DEF HoldInv, UpHolds
<1>4. DownHolds' /\ CmdHolds'
  BY <1>2, LocksDistinct DEF HoldInv, DownHolds, CmdHolds, SameDowns
<1> QED
  BY <1>3, <1>4 DEF HoldInv, LockHasFile

\* The reapers an `up` or a down with the lock ends do not have it.
LEMMA EndedHaveNot ==
    ASSUME TypeOK, NEW but \in SUBSET Caller, NEW downs \in [Caller -> DownStates],
           kill_reapers(but, downs),
           \A v \in Up \ but : dn[v] \notin HasIt,
           \A x \in Caller : downs[x] \in HasIt <=> dn[x] \in HasIt
    PROVE  SameDowns
BY DEF TypeOK, kill_reapers, SameDowns, HasIt

\* A down goes on without taking or giving back the lock.
LEMMA DownGoesOn ==
    ASSUME TypeOK, HoldInv, SameDowns, lock' = lock, lockfile => lockfile',
           UNCHANGED <<up, cmd>>
    PROVE  HoldInv'
BY DEF SameDowns, HoldInv, UpHolds, DownHolds, CmdHolds, LockHasFile

\* ...takes it...
LEMMA DownTakes ==
    ASSUME TypeOK, HoldInv, NEW x \in Caller, NEW s \in HasIt, Steps(x, s),
           lock = NoProc, lock' = DownLock(x), lockfile', UNCHANGED <<up, cmd>>
    PROVE  HoldInv'
<1>1. dn' = [dn EXCEPT ![x] = s] /\ dn \in [Caller -> DownStates]
  BY DEF Steps, TypeOK
<1>2. DownHolds'
  BY <1>1, LocksDistinct DEF HoldInv, DownHolds
<1>3. UpHolds' /\ CmdHolds'
  BY LocksDistinct DEF HoldInv, UpHolds, CmdHolds
<1> QED
  BY <1>2, <1>3 DEF HoldInv, LockHasFile

\* ...and gives it back.
LEMMA DownGives ==
    ASSUME TypeOK, HoldInv, NEW x \in Caller, Steps(x, "end"),
           dn[x] \in HasIt, lock' = NoProc, UNCHANGED <<up, cmd>>
    PROVE  HoldInv'
<1>1. dn' = [dn EXCEPT ![x] = "end"] /\ dn \in [Caller -> DownStates]
  BY DEF Steps, TypeOK
<1>2. lock = DownLock(x)
  BY DEF HoldInv, DownHolds
<1>3. DownHolds'
  BY <1>1, <1>2, LocksDistinct DEF HoldInv, DownHolds, HasIt
<1>4. UpHolds' /\ CmdHolds'
  BY <1>2, LocksDistinct DEF HoldInv, UpHolds, CmdHolds
<1> QED
  BY <1>3, <1>4 DEF HoldInv, LockHasFile

\* Who has the lock stays so over the steps of an `up`...
LEMMA UpKeepsHolds ==
    ASSUME TypeOK, HoldInv, NEW u \in Up, Start(u) \/ UpStep(u) \/ UpKilled(u)
    PROVE  HoldInv'
<1>1. CASE Start(u)
  BY <1>1, UpGoesOn DEF Start, Goes, SameDowns, UpStates, LockedUp, Early,
     Making, Ending
<1>2. CASE Refused(u)
  BY <1>2, UpGoesOn DEF Refused, Goes, SameDowns, UpStates, LockedUp, Early,
     Making, Ending
<1>3. CASE Wait(u)
  BY <1>3, UpGoesOn DEF Wait, Goes, SameDowns, UpStates, LockedUp, Early, Making,
     Ending
<1>4. CASE Lock(u)
  <2>1. "locked" \in LockedUp
    BY DEF LockedUp
  <2> QED
    BY <1>4, <2>1, UpTakes DEF Lock
<1>5. CASE Busy(u)
  BY <1>5, UpGoesOn DEF Busy, Goes, SameDowns, UpStates, LockedUp, Early, Making,
     Ending
<1>6. CASE Cancelled(u)
  <2>1. Goes(u, "failed") /\ "failed" \in UpStates \ LockedUp /\ up[u] \in LockedUp
    BY <1>6 DEF Cancelled, UpStates, LockedUp, Early, Making, Ending
  <2>2. lock' = NoProc /\ SameDowns /\ UNCHANGED cmd
    BY <1>6 DEF Cancelled, Unlocked, SameDowns
  <2> QED
    BY <2>1, <2>2, UpGives
<1>7. CASE Goahead(u)
  BY <1>7, UpGoesOn DEF Goahead, Goes, SameDowns, UpStates, LockedUp, Early,
     Making, Ending
<1>8. CASE RefusedLocked(u)
  <2>1. Goes(u, "failed") /\ "failed" \in UpStates \ LockedUp /\ up[u] \in LockedUp
    BY <1>8 DEF RefusedLocked, UpStates, LockedUp, Early, Making, Ending
  <2>2. lock' = NoProc /\ SameDowns /\ UNCHANGED cmd
    BY <1>8 DEF RefusedLocked, Unlocked, SameDowns
  <2> QED
    BY <2>1, <2>2, UpGives
<1>9. CASE Already(u)
  <2>1. Goes(u,
  "already") /\ "already" \in UpStates \ LockedUp /\ up[u] \in LockedUp
    BY <1>9 DEF Already, UpStates, LockedUp, Early, Making, Ending
  <2>2. lock' = NoProc /\ SameDowns /\ UNCHANGED cmd
    BY <1>9 DEF Already, Unlocked, SameDowns
  <2> QED
    BY <2>1, <2>2, UpGives
<1>10. CASE Absent(u)
  BY <1>10, UpGoesOn DEF Absent, Goes, SameDowns, UpStates, LockedUp, Early,
     Making, Ending
<1>11. CASE Make(u)
  BY <1>11, UpGoesOn DEF Make, Goes, SameDowns, UpStates, LockedUp, Early,
     Making, Ending
<1>12. CASE Record(u)
  BY <1>12, UpGoesOn DEF Record, Goes, SameDowns, UpStates, LockedUp, Early,
     Making, Ending
<1>13. CASE StartReaper(u)
  BY <1>13, UpGoesOn DEF StartReaper, Goes, SameDowns, UpStates, LockedUp, Early,
     Making, Ending
<1>14. CASE Launch(u)
  BY <1>14, UpGoesOn DEF Launch, Goes, SameDowns, UpStates, LockedUp, Early,
     Making, Ending
<1>15. CASE RecordNs(u)
  BY <1>15, UpGoesOn DEF RecordNs, Goes, SameDowns, UpStates, LockedUp, Early,
     Making, Ending
<1>16. CASE Uncover(u)
  BY <1>16, DownGoesOn DEF Uncover, SameDowns
<1>17. CASE Ready(u)
  <2>1. Goes(u, "up") /\ "up" \in UpStates \ LockedUp /\ up[u] \in LockedUp
    BY <1>17 DEF Ready, UpStates, LockedUp, Early, Making, Ending
  <2>2. lock' = NoProc /\ SameDowns /\ UNCHANGED cmd
    BY <1>17 DEF Ready, Unlocked, SameDowns
  <2> QED
    BY <2>1, <2>2, UpGives
<1>18. CASE OwnerGone(u)
  BY <1>18, UpGoesOn DEF OwnerGone, Goes, SameDowns, UpStates, LockedUp, Early,
     Making, Ending
<1>19. CASE OwnerGoneDone(u)
  <2>1. Goes(u, "failed") /\ "failed" \in UpStates \ LockedUp /\ up[u] \in LockedUp
    BY <1>19 DEF OwnerGoneDone, UpStates, LockedUp, Early, Making, Ending
  <2>2. lock = UpLock(u)
    BY <2>1 DEF HoldInv, UpHolds
  <2>3. \A x \in Caller : dn[x] \notin HasIt
    BY <2>2, LocksDistinct DEF HoldInv, DownHolds
  <2>4. SameDowns
    BY <1>19, <2>3, EndedHaveNot DEF OwnerGoneDone, SameDowns, TypeOK
  <2>5. lock' = NoProc /\ UNCHANGED cmd
    BY <1>19 DEF OwnerGoneDone, Unlocked
  <2> QED
    BY <2>1, <2>4, <2>5, UpGives
<1>20. CASE OwnerGoneSlow(u)
  <2>1. Goes(u, "failed") /\ "failed" \in UpStates \ LockedUp /\ up[u] \in LockedUp
    BY <1>20 DEF OwnerGoneSlow, UpStates, LockedUp, Early, Making, Ending
  <2>2. lock' = NoProc /\ SameDowns /\ UNCHANGED cmd
    BY <1>20 DEF OwnerGoneSlow, Unlocked, SameDowns
  <2> QED
    BY <2>1, <2>2, UpGives
<1>21. CASE Fails(u)
  BY <1>21, UpGoesOn DEF Fails, Goes, SameDowns, UpStates, LockedUp, Early,
     Making, Ending
<1>22. CASE Undo(u)
  BY <1>22, UpGoesOn DEF Undo, Goes, SameDowns, UpStates, LockedUp, Early,
     Making, Ending
<1>23. CASE Undone(u)
  <2>1. Goes(u, "failed") /\ "failed" \in UpStates \ LockedUp /\ up[u] \in LockedUp
    BY <1>23 DEF Undone, UpStates, LockedUp, Early, Making, Ending
  <2>2. lock = UpLock(u)
    BY <2>1 DEF HoldInv, UpHolds
  <2>3. \A x \in Caller : dn[x] \notin HasIt
    BY <2>2, LocksDistinct DEF HoldInv, DownHolds
  <2>4. SameDowns
    BY <1>23, <2>3, EndedHaveNot DEF Undone, SameDowns, TypeOK
  <2>5. lock' = NoProc /\ UNCHANGED cmd
    BY <1>23 DEF Undone, Unlocked
  <2> QED
    BY <2>1, <2>4, <2>5, UpGives
<1>24. CASE UndoneSlow(u)
  <2>1. Goes(u, "failed") /\ "failed" \in UpStates \ LockedUp /\ up[u] \in LockedUp
    BY <1>24 DEF UndoneSlow, UpStates, LockedUp, Early, Making, Ending
  <2>2. lock' = NoProc /\ SameDowns /\ UNCHANGED cmd
    BY <1>24 DEF UndoneSlow, Unlocked, SameDowns
  <2> QED
    BY <2>1, <2>2, UpGives
<1>25. CASE UpKilled(u)
  <2>1. Goes(u, "dead") /\ "dead" \in UpStates \ LockedUp /\ UNCHANGED cmd
    BY <1>25 DEF UpKilled, UpStates, LockedUp, Early, Making, Ending
  <2>4. SameDowns
    <3>1. CASE UNCHANGED dn
      BY <3>1 DEF SameDowns
    <3>2. CASE UndoneRm(u)
      <4>1. lock = UpLock(u)
        BY <3>2 DEF UndoneRm, HoldInv, UpHolds, LockedUp, Ending
      <4>2. \A x \in Caller : dn[x] \notin HasIt
        BY <4>1, LocksDistinct DEF HoldInv, DownHolds
      <4>3. UNCHANGED dn \/ kill_reapers({}, dn)
        BY <3>2 DEF UndoneRm
      <4> QED
        BY <3>1, <4>2, <4>3, EndedHaveNot DEF TypeOK
    <3> QED
      BY <1>25, <3>1, <3>2 DEF UpKilled
  <2>2. CASE up[u] \in LockedUp
    <3>1. lock' = NoProc
      BY <1>25, <2>2 DEF UpKilled, HoldInv, UpHolds
    <3> QED
      BY <2>1, <2>2, <2>4, <3>1, UpGives
  <2>3. CASE up[u] \notin LockedUp
    <3>1. lock' = lock /\ lockfile' = lockfile
      BY <1>25, <2>3 DEF UpKilled, HoldInv, UpHolds
    <3> QED
      BY <2>1, <2>3, <2>4, <3>1, UpGoesOn
  <2> QED
    BY <2>2, <2>3
<1>26. CASE Clear(u)
  BY <1>26, UpGoesOn DEF Clear, Goes, SameDowns, UpStates, LockedUp, Early,
     Making, Ending
<1>27. CASE ClearedFails(u)
  <2>1. Goes(u, "failed") /\ "failed" \in UpStates \ LockedUp /\ up[u] \in LockedUp
    BY <1>27 DEF ClearedFails, UpStates, LockedUp, Early, Making, Ending
  <2>2. lock = UpLock(u)
    BY <2>1 DEF HoldInv, UpHolds
  <2>3. \A x \in Caller : dn[x] \notin HasIt
    BY <2>2, LocksDistinct DEF HoldInv, DownHolds
  <2>4. SameDowns
    BY <1>27, <2>3, EndedHaveNot DEF ClearedFails, SameDowns, TypeOK
  <2>5. lock' = NoProc /\ UNCHANGED cmd
    BY <1>27 DEF ClearedFails, Unlocked
  <2> QED
    BY <2>1, <2>4, <2>5, UpGives
<1> QED
  BY <1>26, <1>27, <1>1, <1>2, <1>3, <1>4, <1>5, <1>6, <1>7, <1>8, <1>9, <1>10, <1>11,
     <1>12, <1>13, <1>14, <1>15, <1>16, <1>17, <1>18, <1>19, <1>20, <1>21,
     <1>22, <1>23, <1>24, <1>25 DEF UpStep

\* ...of down_one...
LEMMA DownKeepsHolds ==
    ASSUME TypeOK, HoldInv, NEW x \in Caller, DownStep(x)
    PROVE  HoldInv'
<1>1. CASE Look(x)
  BY <1>1, DownGoesOn DEF Look, Steps, SameDowns, HasIt, TypeOK
<1>2. CASE MarkUnlocked(x)
  BY <1>2, DownGoesOn DEF MarkUnlocked, Steps, SameDowns, HasIt, TypeOK
<1>3. CASE LookAgain(x)
  BY <1>3, DownGoesOn DEF LookAgain, Steps, SameDowns, HasIt, TypeOK
<1>4. CASE DownWait(x)
  BY <1>4, DownGoesOn DEF DownWait, Steps, SameDowns, HasIt, TypeOK
<1>5. CASE TakeLock(x)
  <2>1. "locked" \in HasIt
    BY DEF HasIt
  <2> QED
    BY <1>5, <2>1, DownTakes DEF TakeLock
<1>6. CASE DownBusy(x)
  BY <1>6, DownGoesOn DEF DownBusy, Steps, SameDowns, HasIt, TypeOK
<1>7. CASE FoundNone(x)
  BY <1>7, DownGoesOn DEF FoundNone, Steps, SameDowns, HasIt, TypeOK
<1>8. CASE Spared(x)
  BY <1>8, DownGives DEF Spared, Unlocked, HasIt
<1>9. CASE kill_box(x)
  BY <1>9, DownGoesOn DEF kill_box, Steps, SameDowns, HasIt, TypeOK
<1>10. CASE rm_box(x)
  <2> DEFINE downs == [dn EXCEPT ![x] = "unlink"]
  <2>1. kill_reapers({x}, downs) /\ {x} \in SUBSET Caller /\ dn[x] \in HasIt
    BY <1>10 DEF rm_box, HasIt
  <2>5. /\ downs \in [Caller -> DownStates]
        /\ \A y \in Caller : downs[y] \in HasIt <=> dn[y] \in HasIt
    BY <2>1 DEF TypeOK, DownStates, HasIt
  <2>2. lock = DownLock(x)
    BY <2>1 DEF HoldInv, DownHolds
  <2>3. \A v \in Up \ {x} : dn[v] \notin HasIt
    BY <2>2, LocksDistinct DEF HoldInv, DownHolds
  <2>4. SameDowns
    <3> HIDE DEF downs
    <3> QED
      BY <2>1, <2>3, <2>5, EndedHaveNot
  <2> QED
    BY <1>10, <2>4, DownGoesOn DEF rm_box
<1>11. CASE KillSlow(x)
  BY <1>11, DownGives DEF KillSlow, Unlocked, HasIt
<1>12. CASE Unlink(x)
  BY <1>12, DownGives DEF Unlink, Unlocked, HasIt
<1> QED
  BY <1>1, <1>2, <1>3, <1>4, <1>5, <1>6, <1>7, <1>8, <1>9, <1>10, <1>11, <1>12
     DEF DownStep

\* ...of a `down` command...
LEMMA DownCommandKeepsHolds ==
    ASSUME TypeOK, HoldInv, NEW d \in Down, DownStart(d) \/ DownKilled(d)
    PROVE  HoldInv'
<1>1. CASE DownStart(d)
  BY <1>1, DownGoesOn DEF DownStart, Begins, Steps, SameDowns, HasIt, TypeOK
<1>2. CASE DownKilled(d)
  <2>1. CASE dn[d] \in HasIt
    <3>1. lock = DownLock(d) /\ lock' = NoProc
      BY <1>2, <2>1 DEF DownKilled, HoldInv, DownHolds
    <3>2. CASE Steps(d, "end")
      BY <1>2, <2>1, <3>1, <3>2, DownGives DEF DownKilled
    <3>3. CASE kill_reapers({}, [dn EXCEPT ![d] = "end"])
      <4>1. \A y \in Caller \ {d} : dn[y] \notin HasIt
        BY <3>1, LocksDistinct DEF HoldInv, DownHolds
      <4>2. \A y \in Caller : dn'[y] \notin HasIt
        BY <3>3, <4>1 DEF kill_reapers, HasIt, TypeOK
      <4>3. DownHolds'
        BY <3>1, <4>2, LocksDistinct DEF DownHolds
      <4>4. UpHolds' /\ CmdHolds'
        BY <1>2, <3>1, LocksDistinct DEF DownKilled, HoldInv, UpHolds, CmdHolds
      <4> QED
        BY <3>1, <4>3, <4>4 DEF HoldInv, LockHasFile
    <3> QED
      BY <1>2, <3>2, <3>3 DEF DownKilled
  <2>2. CASE dn[d] \notin HasIt
    <3>1. lock' = lock /\ lockfile' = lockfile
      BY <1>2, <2>2 DEF DownKilled, HoldInv, DownHolds
    <3>2. SameDowns
      <4>1. Steps(d, "end")
        BY <1>2, <2>2 DEF DownKilled, HasIt
      <4> QED
        BY <2>2, <4>1 DEF Steps, SameDowns, HasIt, TypeOK
    <3> QED
      BY <1>2, <3>1, <3>2, DownGoesOn DEF DownKilled
  <2> QED
    BY <2>1, <2>2
<1> QED
  BY <1>1, <1>2

\* ...of a reaper...
LEMMA ReapKeepsHolds ==
    ASSUME TypeOK, HoldInv, ReapersAt, NEW u \in Up, ReapStep(u)
    PROVE  HoldInv'
<1>1. CASE Watch(u)
  <2>1. SameDowns
    BY <1>1 DEF Watch, Counts, ReapEnds, ReapDown, Steps, SameDowns, HasIt,
       ReapersAt, TypeOK
  <2> QED
    BY <1>1, <2>1, DownGoesOn DEF Watch
<1>2. CASE Poll(u)
  <2>1. SameDowns
    BY <1>2 DEF Poll, Counts, ReapEnds, ReapDown, Steps, SameDowns, HasIt,
       ReapersAt, TypeOK
  <2> QED
    BY <1>2, <2>1, DownGoesOn DEF Poll
<1>3. CASE InUse(u)
  <2>1. SameDowns
    BY <1>3 DEF InUse, Counts, ReapEnds, ReapDown, Steps, SameDowns, HasIt,
       ReapersAt, TypeOK
  <2> QED
    BY <1>3, <2>1, DownGoesOn DEF InUse
<1>4. CASE AgentGone(u)
  <2>1. SameDowns
    BY <1>4 DEF AgentGone, Counts, ReapEnds, ReapDown, Steps, SameDowns, HasIt,
       ReapersAt, TypeOK
  <2> QED
    BY <1>4, <2>1, DownGoesOn DEF AgentGone
<1>5. CASE IdleOver(u)
  <2>1. SameDowns
    BY <1>5 DEF IdleOver, Counts, ReapEnds, ReapDown, Steps, SameDowns, HasIt,
       ReapersAt, TypeOK
  <2> QED
    BY <1>5, <2>1, DownGoesOn DEF IdleOver
<1>6. CASE Retry(u)
  <2>1. SameDowns
    BY <1>6 DEF Retry, Counts, ReapEnds, ReapDown, Steps, SameDowns, HasIt,
       ReapersAt, TypeOK
  <2> QED
    BY <1>6, <2>1, DownGoesOn DEF Retry
<1>7. CASE DownStep(u)
  BY <1>7, DownKeepsHolds
<1> QED
  BY <1>1, <1>2, <1>3, <1>4, <1>5, <1>6, <1>7 DEF ReapStep

\* ...and of a session command.
LEMMA CmdKeepsHolds ==
    ASSUME TypeOK, HoldInv, NEW t \in Cmd, CmdStep(t)
    PROVE  HoldInv'
<1>1. CASE NeedBox(t)
  <2>1. \A s \in Cmd : cmd'[s] = "locked" <=> cmd[s] = "locked"
    BY <1>1 DEF NeedBox, CmdGoes, TypeOK
  <2> QED
    BY <1>1, <2>1 DEF NeedBox, HoldInv, UpHolds, DownHolds, CmdHolds, LockHasFile
<1>2. CASE CmdLocks(t)
  <2>1. CASE lock = NoProc
    <3>1. cmd' = [cmd EXCEPT ![t] = "locked"] /\ lock' = CmdLock(t) /\ lockfile'
      BY <1>2, <2>1 DEF CmdLocks, CmdGoes
    <3>2. CmdHolds'
      BY <2>1, <3>1, LocksDistinct DEF HoldInv, CmdHolds, TypeOK
    <3>3. UpHolds' /\ DownHolds'
      BY <1>2, <2>1, <3>1, LocksDistinct DEF CmdLocks, HoldInv, UpHolds, DownHolds
    <3> QED
      BY <3>1, <3>2, <3>3 DEF HoldInv, LockHasFile
  <2>2. CASE lock # NoProc
    <3>1. \A s \in Cmd : cmd'[s] = "locked" <=> cmd[s] = "locked"
      BY <1>2, <2>2 DEF CmdLocks, CmdGoes, TypeOK
    <3> QED
      BY <1>2, <2>2, <3>1 DEF CmdLocks, HoldInv, UpHolds, DownHolds, CmdHolds,
         LockHasFile
  <2> QED
    BY <2>1, <2>2
<1>3. CASE TakesOver(t)
  <2>1. lock = CmdLock(t) /\ lock' = NoProc
    BY <1>3 DEF TakesOver, Unlocked, HoldInv, CmdHolds
  <2>2. CmdHolds'
    BY <1>3, <2>1, LocksDistinct DEF TakesOver, CmdGoes, HoldInv, CmdHolds, TypeOK
  <2>3. UpHolds' /\ DownHolds'
    BY <1>3, <2>1, LocksDistinct DEF TakesOver, HoldInv, UpHolds, DownHolds
  <2> QED
    BY <2>1, <2>2, <2>3 DEF HoldInv, LockHasFile
<1> QED
  BY <1>1, <1>2, <1>3 DEF CmdStep

\* Every step keeps who has the lock, and the reapers where they are.
LEMMA StepHolds ==
    ASSUME TypeOK, HoldInv, ReapersAt, [Next]_vars
    PROVE  HoldInv' /\ ReapersAt'
<1>1. ASSUME UNCHANGED <<lock, lockfile, up, dn, cmd, reap>>
      PROVE  HoldInv' /\ ReapersAt'
  BY <1>1 DEF HoldInv, UpHolds, DownHolds, CmdHolds, LockHasFile, ReapersAt
<1>2. CASE UNCHANGED vars
  BY <1>1, <1>2 DEF vars
<1>3. CASE Env
  BY <1>1, <1>3 DEF Env, Shows, LaunchFails, BoxDies, Exits, Peeks, Ends, OrphanRm,
     TimePasses, Ticks, EnvUnchanged, ProcsUnchanged
<1>4. ASSUME NEW t \in Cmd, CmdStep(t)
      PROVE  UNCHANGED <<up, dn, reap>>
  BY <1>4 DEF CmdStep, NeedBox, CmdLocks, TakesOver
<1>5. ASSUME NEW t \in Cmd, CmdStep(t)
      PROVE  HoldInv' /\ ReapersAt'
  BY <1>4, <1>5, CmdKeepsHolds DEF ReapersAt
<1> QED
  BY <1>2, <1>3, <1>5, UpKeepsHolds, UpKeepsReapers, DownKeepsHolds,
     DownKeepsReapers,
     DownCommandKeepsHolds, DownCommandKeepsReapers, ReapKeepsHolds,
     ReapKeepsReapers
     DEF Next

\* Nobody has the lock as the program starts, and no reaper runs.
LEMMA InitHolds == Init => HoldInv /\ ReapersAt
<1> SUFFICES ASSUME Init PROVE HoldInv /\ ReapersAt
  OBVIOUS
<1>1. UpHolds
  BY LocksDistinct DEF Init, UpHolds, LockedUp, Making, Ending
<1>2. DownHolds /\ CmdHolds
  BY LocksDistinct DEF Init, DownHolds, CmdHolds, HasIt
<1>3. LockHasFile /\ ReapersAt
  BY DEF Init, LockHasFile, ReapersAt
<1> QED
  BY <1>1, <1>2, <1>3 DEF HoldInv

-----------------------------------------------------------------------------
(* What the lock keeps for whoever has it *)

\* The dir is that of u's box, or gone with a killed command's rm.
Has(u) == box.of = u \/ (u \in robbed /\ box.of = NoBox)

\* The dir an `up` works on is its own, until such an rm takes it.
WorkAlone == \A u \in Up : up[u] \in Making \union Ending => Has(u)

\* A reaper's down that kills, kills the box the reaper watches.
KillsOwn == \A u \in Up : dn[u] = "killing" => Has(u)

OwnInv == WorkAlone /\ KillsOwn /\ TakenOverKept

\* While an `up` has the lock nobody else has it...
LEMMA UpAlone ==
    ASSUME HoldInv, NEW u \in Up, up[u] \in LockedUp
    PROVE  /\ \A v \in Up : up[v] \in LockedUp => v = u
           /\ \A x \in Caller : dn[x] \notin HasIt
BY LocksDistinct DEF HoldInv, UpHolds, DownHolds

\* ...nor while a down has it...
LEMMA DownAlone ==
    ASSUME HoldInv, NEW x \in Caller, dn[x] \in HasIt
    PROVE  /\ \A u \in Up : up[u] \notin LockedUp
           /\ \A y \in Caller : dn[y] \in HasIt => y = x
BY LocksDistinct DEF HoldInv, UpHolds, DownHolds

\* ...or a session command taking the box over.
LEMMA CmdAlone ==
    ASSUME HoldInv, NEW t \in Cmd, cmd[t] = "locked"
    PROVE  /\ \A u \in Up : up[u] \notin LockedUp
           /\ \A x \in Caller : dn[x] \notin HasIt
BY LocksDistinct DEF HoldInv, UpHolds, DownHolds, CmdHolds

\* A step that leaves the box's maker and agent, and no process further on.
LEMMA OwnSame ==
    ASSUME OwnInv, box'.of = box.of, box'.agent = box.agent, live' \subseteq live,
           UNCHANGED robbed,
           \A u \in Up : up'[u] \in Making \union Ending => up[u] \in Making \union Ending,
           \A u \in Up : dn'[u] = "killing" => dn[u] = "killing" /\ why'[u] = why[u]
    PROVE  OwnInv'
BY DEF OwnInv, WorkAlone, Has, KillsOwn, TakenOverKept, agent_alive

\* A step of an `up` that has the lock, whatever it makes of its own box.
LEMMA OwnWork ==
    ASSUME TypeOK, HoldInv, NEW u \in Up, NEW s \in UpStates, Goes(u, s),
           up[u] \in LockedUp, UNCHANGED robbed,
           s \in Making \union Ending => box'.of = u \/ (u \in robbed /\ box'.of = NoBox),
           \A v \in Up : dn'[v] = "killing" => dn[v] = "killing"
    PROVE  OwnInv'
<1>1. \A v \in Up : dn'[v] # "killing"
  BY UpAlone DEF HasIt
<1>2. \A v \in Up : up'[v] \in Making \union Ending => v = u
  BY UpAlone DEF Goes, TypeOK, LockedUp
<1>3. up'[u] = s
  BY DEF Goes, TypeOK
<1> QED
  BY <1>1, <1>2, <1>3 DEF OwnInv, WorkAlone, Has, KillsOwn, TakenOverKept

\* What the lock keeps is kept by an `up`...
LEMMA UpKeepsOwn ==
    ASSUME TypeOK, HoldInv, OwnInv, NEW u \in Up,
    Start(u) \/ UpStep(u) \/ UpKilled(u)
    PROVE  OwnInv'
<1>1. CASE Start(u)
  BY <1>1, OwnSame DEF Start, Goes, UpStates, LockedUp, Early, Making, Ending,
     TypeOK
<1>2. CASE Refused(u)
  BY <1>2, OwnSame DEF Refused, Goes, UpStates, LockedUp, Early, Making, Ending,
     TypeOK
<1>3. CASE Wait(u)
  BY <1>3, OwnSame DEF Wait, Goes, UpStates, LockedUp, Early, Making, Ending, TypeOK
<1>4. CASE Lock(u)
  BY <1>4, OwnSame DEF Lock, Goes, UpStates, LockedUp, Early, Making, Ending, TypeOK
<1>5. CASE Busy(u)
  BY <1>5, OwnSame DEF Busy, Goes, UpStates, LockedUp, Early, Making, Ending, TypeOK
<1>6. CASE Cancelled(u)
  BY <1>6, OwnSame DEF Cancelled, Goes, UpStates, LockedUp, Early, Making,
     Ending, TypeOK
<1>7. CASE Goahead(u)
  BY <1>7, OwnSame DEF Goahead, Goes, UpStates, LockedUp, Early, Making, Ending,
     TypeOK
<1>8. CASE RefusedLocked(u)
  BY <1>8, OwnSame DEF RefusedLocked, Goes, UpStates, LockedUp, Early, Making,
     Ending, TypeOK
<1>9. CASE Already(u)
  <2>1. Goes(u, "already") /\ "already" \in UpStates /\ up[u] \in LockedUp
    BY <1>9 DEF Already, UpStates, LockedUp, Early, Making, Ending
  <2>2. "already" \in Making \union Ending => box'.of = u \/ (u \in robbed /\ box'.of = NoBox)
    BY <1>9 DEF Already, Making, Ending, OwnInv, WorkAlone, Has, NoDir, TypeOK, Dirs
  <2>3. /\ UNCHANGED robbed
        /\ \A v \in Up : dn'[v] = "killing" => dn[v] = "killing"
    BY <1>9 DEF Already, kill_reapers, TypeOK
  <2> QED
    BY <2>1, <2>2, <2>3, OwnWork
<1>10. CASE Absent(u)
  BY <1>10, OwnSame DEF Absent, Goes, UpStates, LockedUp, Early, Making, Ending,
     TypeOK
<1>11. CASE Make(u)
  <2>1. Goes(u, "made") /\ "made" \in UpStates /\ up[u] \in LockedUp
    BY <1>11 DEF Make, UpStates, LockedUp, Early, Making, Ending
  <2>2. "made" \in Making \union Ending => box'.of = u \/ (u \in robbed /\ box'.of = NoBox)
    BY <1>11 DEF Make, Making, Ending, OwnInv, WorkAlone, Has, NoDir, TypeOK, Dirs
  <2>3. /\ UNCHANGED robbed
        /\ \A v \in Up : dn'[v] = "killing" => dn[v] = "killing"
    BY <1>11 DEF Make, kill_reapers, TypeOK
  <2> QED
    BY <2>1, <2>2, <2>3, OwnWork
<1>12. CASE Record(u)
  <2>1. Goes(u, "json") /\ "json" \in UpStates /\ up[u] \in LockedUp
    BY <1>12 DEF Record, UpStates, LockedUp, Early, Making, Ending
  <2>2. "json" \in Making \union Ending => box'.of = u \/ (u \in robbed /\ box'.of = NoBox)
    BY <1>12 DEF Record, Making, Ending, OwnInv, WorkAlone, Has, NoDir, TypeOK, Dirs
  <2>3. /\ UNCHANGED robbed
        /\ \A v \in Up : dn'[v] = "killing" => dn[v] = "killing"
    BY <1>12 DEF Record, kill_reapers, TypeOK
  <2> QED
    BY <2>1, <2>2, <2>3, OwnWork
<1>13. CASE StartReaper(u)
  <2>1. Goes(u, "launch") /\ "launch" \in UpStates /\ up[u] \in LockedUp
    BY <1>13 DEF StartReaper, UpStates, LockedUp, Early, Making, Ending
  <2>2. "launch" \in Making \union Ending => box'.of = u \/ (u \in robbed /\ box'.of = NoBox)
    BY <1>13 DEF StartReaper, Making, Ending, OwnInv, WorkAlone, Has, NoDir, TypeOK, Dirs
  <2>3. /\ UNCHANGED robbed
        /\ \A v \in Up : dn'[v] = "killing" => dn[v] = "killing"
    BY <1>13 DEF StartReaper, kill_reapers, TypeOK
  <2> QED
    BY <2>1, <2>2, <2>3, OwnWork
<1>14. CASE Launch(u)
  <2>1. Goes(u, "launched") /\ "launched" \in UpStates /\ up[u] \in LockedUp
    BY <1>14 DEF Launch, UpStates, LockedUp, Early, Making, Ending
  <2>2. "launched" \in Making \union Ending => box'.of = u \/ (u \in robbed /\ box'.of = NoBox)
    BY <1>14 DEF Launch, Making, Ending, OwnInv, WorkAlone, Has, NoDir, TypeOK, Dirs
  <2>3. /\ UNCHANGED robbed
        /\ \A v \in Up : dn'[v] = "killing" => dn[v] = "killing"
    BY <1>14 DEF Launch, kill_reapers, TypeOK
  <2> QED
    BY <2>1, <2>2, <2>3, OwnWork
<1>15. CASE RecordNs(u)
  <2>1. Goes(u, "recorded") /\ "recorded" \in UpStates /\ up[u] \in LockedUp
    BY <1>15 DEF RecordNs, UpStates, LockedUp, Early, Making, Ending
  <2>2. "recorded" \in Making \union Ending => box'.of = u \/ (u \in robbed /\ box'.of = NoBox)
    BY <1>15 DEF RecordNs, Making, Ending, OwnInv, WorkAlone, Has, NoDir, TypeOK, Dirs
  <2>3. /\ UNCHANGED robbed
        /\ \A v \in Up : dn'[v] = "killing" => dn[v] = "killing"
    BY <1>15 DEF RecordNs, kill_reapers, TypeOK
  <2> QED
    BY <2>1, <2>2, <2>3, OwnWork
<1>16. CASE Uncover(u)
  BY <1>16, OwnSame DEF Uncover, TypeOK, Dirs
<1>17. CASE Ready(u)
  <2>1. Goes(u, "up") /\ "up" \in UpStates /\ up[u] \in LockedUp
    BY <1>17 DEF Ready, UpStates, LockedUp, Early, Making, Ending
  <2>2. "up" \in Making \union Ending => box'.of = u \/ (u \in robbed /\ box'.of = NoBox)
    BY <1>17 DEF Ready, Making, Ending, OwnInv, WorkAlone, Has, NoDir, TypeOK, Dirs
  <2>3. /\ UNCHANGED robbed
        /\ \A v \in Up : dn'[v] = "killing" => dn[v] = "killing"
    BY <1>17 DEF Ready, kill_reapers, TypeOK
  <2> QED
    BY <2>1, <2>2, <2>3, OwnWork
<1>18. CASE OwnerGone(u)
  <2>1. Goes(u, "ended") /\ "ended" \in UpStates /\ up[u] \in LockedUp
    BY <1>18 DEF OwnerGone, UpStates, LockedUp, Early, Making, Ending
  <2>2. "ended" \in Making \union Ending => box'.of = u \/ (u \in robbed /\ box'.of = NoBox)
    BY <1>18 DEF OwnerGone, Making, Ending, OwnInv, WorkAlone, Has, NoDir, TypeOK, Dirs
  <2>3. /\ UNCHANGED robbed
        /\ \A v \in Up : dn'[v] = "killing" => dn[v] = "killing"
    BY <1>18 DEF OwnerGone, kill_reapers, TypeOK
  <2> QED
    BY <2>1, <2>2, <2>3, OwnWork
<1>19. CASE OwnerGoneDone(u)
  <2>1. Goes(u, "failed") /\ "failed" \in UpStates /\ up[u] \in LockedUp
    BY <1>19 DEF OwnerGoneDone, UpStates, LockedUp, Early, Making, Ending
  <2>2. "failed" \in Making \union Ending => box'.of = u \/ (u \in robbed /\ box'.of = NoBox)
    BY <1>19 DEF OwnerGoneDone, Making, Ending, OwnInv, WorkAlone, Has, NoDir, TypeOK,
       Dirs
  <2>3. /\ UNCHANGED robbed
        /\ \A v \in Up : dn'[v] = "killing" => dn[v] = "killing"
    BY <1>19 DEF OwnerGoneDone, kill_reapers, TypeOK
  <2> QED
    BY <2>1, <2>2, <2>3, OwnWork
<1>20. CASE OwnerGoneSlow(u)
  <2>1. Goes(u, "failed") /\ "failed" \in UpStates /\ up[u] \in LockedUp
    BY <1>20 DEF OwnerGoneSlow, UpStates, LockedUp, Early, Making, Ending
  <2>2. "failed" \in Making \union Ending => box'.of = u \/ (u \in robbed /\ box'.of = NoBox)
    BY <1>20 DEF OwnerGoneSlow, Making, Ending, OwnInv, WorkAlone, Has, NoDir, TypeOK,
       Dirs
  <2>3. /\ UNCHANGED robbed
        /\ \A v \in Up : dn'[v] = "killing" => dn[v] = "killing"
    BY <1>20 DEF OwnerGoneSlow, kill_reapers, TypeOK
  <2> QED
    BY <2>1, <2>2, <2>3, OwnWork
<1>21. CASE Fails(u)
  <2>1. Goes(u, "undo") /\ "undo" \in UpStates /\ up[u] \in LockedUp
    BY <1>21 DEF Fails, UpStates, LockedUp, Early, Making, Ending
  <2>2. "undo" \in Making \union Ending => box'.of = u \/ (u \in robbed /\ box'.of = NoBox)
    BY <1>21 DEF Fails, Making, Ending, OwnInv, WorkAlone, Has, NoDir, TypeOK, Dirs
  <2>3. /\ UNCHANGED robbed
        /\ \A v \in Up : dn'[v] = "killing" => dn[v] = "killing"
    BY <1>21 DEF Fails, kill_reapers, TypeOK
  <2> QED
    BY <2>1, <2>2, <2>3, OwnWork
<1>22. CASE Undo(u)
  <2>1. Goes(u, "undone") /\ "undone" \in UpStates /\ up[u] \in LockedUp
    BY <1>22 DEF Undo, UpStates, LockedUp, Early, Making, Ending
  <2>2. "undone" \in Making \union Ending => box'.of = u \/ (u \in robbed /\ box'.of = NoBox)
    BY <1>22 DEF Undo, Making, Ending, OwnInv, WorkAlone, Has, NoDir, TypeOK, Dirs
  <2>3. /\ UNCHANGED robbed
        /\ \A v \in Up : dn'[v] = "killing" => dn[v] = "killing"
    BY <1>22 DEF Undo, kill_reapers, TypeOK
  <2> QED
    BY <2>1, <2>2, <2>3, OwnWork
<1>23. CASE Undone(u)
  <2>1. Goes(u, "failed") /\ "failed" \in UpStates /\ up[u] \in LockedUp
    BY <1>23 DEF Undone, UpStates, LockedUp, Early, Making, Ending
  <2>2. "failed" \in Making \union Ending => box'.of = u \/ (u \in robbed /\ box'.of = NoBox)
    BY <1>23 DEF Undone, Making, Ending, OwnInv, WorkAlone, Has, NoDir, TypeOK, Dirs
  <2>3. /\ UNCHANGED robbed
        /\ \A v \in Up : dn'[v] = "killing" => dn[v] = "killing"
    BY <1>23 DEF Undone, kill_reapers, TypeOK
  <2> QED
    BY <2>1, <2>2, <2>3, OwnWork
<1>24. CASE UndoneSlow(u)
  <2>1. Goes(u, "failed") /\ "failed" \in UpStates /\ up[u] \in LockedUp
    BY <1>24 DEF UndoneSlow, UpStates, LockedUp, Early, Making, Ending
  <2>2. "failed" \in Making \union Ending => box'.of = u \/ (u \in robbed /\ box'.of = NoBox)
    BY <1>24 DEF UndoneSlow, Making, Ending, OwnInv, WorkAlone, Has, NoDir, TypeOK, Dirs
  <2>3. /\ UNCHANGED robbed
        /\ \A v \in Up : dn'[v] = "killing" => dn[v] = "killing"
    BY <1>24 DEF UndoneSlow, kill_reapers, TypeOK
  <2> QED
    BY <2>1, <2>2, <2>3, OwnWork
<1>25. CASE UpKilled(u)
  <2>1. \A v \in Up : up'[v] \in Making \union Ending => up[v] \in Making \union Ending
    BY <1>25 DEF UpKilled, Goes, Making, Ending, TypeOK
  <2>2. \A v \in Up : dn'[v] = "killing" => dn[v] = "killing"
    <3>1. UNCHANGED dn \/ kill_reapers({}, dn)
      BY <1>25 DEF UpKilled, UndoneRm
    <3> QED
      BY <3>1 DEF kill_reapers, TypeOK
  <2> QED
    BY <1>25, <2>1, <2>2, OwnSame DEF UpKilled
<1>26. CASE Clear(u)
  <2>1. Goes(u, "cleared") /\ "cleared" \in UpStates \ (Making \union Ending)
    BY <1>26 DEF Clear, UpStates, LockedUp, Making, Ending
  <2>2. up[u] \in LockedUp /\ UNCHANGED <<robbed, dn>>
    BY <1>26 DEF Clear, LockedUp
  <2> QED
    BY <2>1, <2>2, OwnWork
<1>27. CASE ClearedFails(u)
  <2>1. Goes(u, "failed") /\ "failed" \in UpStates \ (Making \union Ending)
    BY <1>27 DEF ClearedFails, UpStates, Making, Ending
  <2>2. up[u] \in LockedUp /\ UNCHANGED robbed
    BY <1>27 DEF ClearedFails, LockedUp
  <2>3. \A v \in Up : dn'[v] = "killing" => dn[v] = "killing"
    BY <1>27 DEF ClearedFails, kill_reapers, TypeOK
  <2> QED
    BY <2>1, <2>2, <2>3, OwnWork
<1> QED
  BY <1>26, <1>27, <1>1, <1>2, <1>3, <1>4, <1>5, <1>6, <1>7, <1>8, <1>9, <1>10, <1>11,
     <1>12, <1>13, <1>14, <1>15, <1>16, <1>17, <1>18, <1>19, <1>20, <1>21,
     <1>22, <1>23, <1>24, <1>25 DEF UpStep

\* ...down_one...
LEMMA DownKeepsOwn ==
    ASSUME TypeOK, HoldInv, OwnInv, NEW x \in Caller, DownStep(x)
    PROVE  OwnInv'
<1>1. CASE Look(x)
  BY <1>1, OwnSame DEF Look, Steps, TypeOK
<1>2. CASE MarkUnlocked(x)
  BY <1>2, OwnSame DEF MarkUnlocked, Steps, TypeOK
<1>3. CASE LookAgain(x)
  BY <1>3, OwnSame DEF LookAgain, Steps, TypeOK
<1>4. CASE DownWait(x)
  BY <1>4, OwnSame DEF DownWait, Steps, TypeOK
<1>5. CASE TakeLock(x)
  BY <1>5, OwnSame DEF TakeLock, Steps, TypeOK
<1>6. CASE DownBusy(x)
  BY <1>6, OwnSame DEF DownBusy, Steps, TypeOK
<1>7. CASE FoundNone(x)
  BY <1>7, OwnSame DEF FoundNone, Steps, TypeOK
<1>8. CASE Spared(x)
  BY <1>8, OwnSame DEF Spared, Steps, TypeOK
<1>9. CASE kill_box(x)
  <2>1. \A u \in Up : dn'[u] = "killing" => u = x
    BY <1>9, DownAlone DEF kill_box, Steps, HasIt, TypeOK
  <2>2. \A u \in Up : up'[u] \notin Making \union Ending
    BY <1>9, DownAlone DEF kill_box, HasIt, LockedUp
  <2>3. x \in Up => box.of = x /\ (why[x] = "agent" => ~agent_alive)
    BY <1>9 DEF kill_box, Stale, Watched
  <2> QED
    BY <1>9, <2>1, <2>2, <2>3
       DEF kill_box, OwnInv, WorkAlone, Has, KillsOwn, TakenOverKept, agent_alive
<1>10. CASE rm_box(x)
  <2>1. \A u \in Up : dn'[u] # "killing"
    BY <1>10, DownAlone DEF rm_box, kill_reapers, HasIt, TypeOK
  <2>2. \A u \in Up : up'[u] \notin Making \union Ending
    BY <1>10, DownAlone DEF rm_box, HasIt, LockedUp
  <2> QED
    BY <2>1, <2>2 DEF OwnInv, WorkAlone, Has, KillsOwn, TakenOverKept
<1>11. CASE KillSlow(x)
  BY <1>11, OwnSame DEF KillSlow, Steps, TypeOK
<1>12. CASE Unlink(x)
  BY <1>12, OwnSame DEF Unlink, Steps, TypeOK
<1> QED
  BY <1>1, <1>2, <1>3, <1>4, <1>5, <1>6, <1>7, <1>8, <1>9, <1>10, <1>11, <1>12
     DEF DownStep

\* ...a `down` command...
LEMMA DownCommandKeepsOwn ==
    ASSUME TypeOK, HoldInv, OwnInv, NEW d \in Down, DownStart(d) \/ DownKilled(d)
    PROVE  OwnInv'
<1>1. CASE DownStart(d)
  BY <1>1, OwnSame DEF DownStart, Steps, TypeOK
<1>2. CASE DownKilled(d)
  <2>1. \A v \in Up : dn'[v] = "killing" => dn[v] = "killing"
    BY <1>2 DEF DownKilled, kill_reapers, Steps, TypeOK
  <2> QED
    BY <1>2, <2>1, OwnSame DEF DownKilled
<1> QED
  BY <1>1, <1>2

\* ...a reaper...
LEMMA ReapKeepsOwn ==
    ASSUME TypeOK, HoldInv, OwnInv, NEW u \in Up, ReapStep(u)
    PROVE  OwnInv'
<1>1. CASE Watch(u)
  <2>1. \A v \in Up : dn'[v] = "killing" => dn[v] = "killing" /\ why'[v] = why[v]
    BY <1>1 DEF Watch, Counts, ReapEnds, ReapDown, Steps, TypeOK
  <2> QED
    BY <1>1, <2>1, OwnSame DEF Watch
<1>2. CASE Poll(u)
  <2>1. \A v \in Up : dn'[v] = "killing" => dn[v] = "killing" /\ why'[v] = why[v]
    BY <1>2 DEF Poll, Counts, ReapEnds, ReapDown, Steps, TypeOK
  <2> QED
    BY <1>2, <2>1, OwnSame DEF Poll
<1>3. CASE InUse(u)
  BY <1>3, OwnSame DEF InUse, TypeOK, Dirs
<1>4. CASE AgentGone(u)
  <2>1. \A v \in Up : dn'[v] = "killing" => dn[v] = "killing" /\ why'[v] = why[v]
    BY <1>4 DEF AgentGone, Counts, ReapEnds, ReapDown, Steps, TypeOK
  <2> QED
    BY <1>4, <2>1, OwnSame DEF AgentGone
<1>5. CASE IdleOver(u)
  <2>1. \A v \in Up : dn'[v] = "killing" => dn[v] = "killing" /\ why'[v] = why[v]
    BY <1>5 DEF IdleOver, Counts, ReapEnds, ReapDown, Steps, TypeOK
  <2> QED
    BY <1>5, <2>1, OwnSame DEF IdleOver
<1>6. CASE Retry(u)
  <2>1. \A v \in Up : dn'[v] = "killing" => dn[v] = "killing" /\ why'[v] = why[v]
    BY <1>6 DEF Retry, Counts, ReapEnds, ReapDown, Steps, TypeOK
  <2> QED
    BY <1>6, <2>1, OwnSame DEF Retry
<1>7. CASE DownStep(u)
  BY <1>7, DownKeepsOwn
<1> QED
  BY <1>1, <1>2, <1>3, <1>4, <1>5, <1>6, <1>7 DEF ReapStep

\* ...and a session command.
LEMMA CmdKeepsOwn ==
    ASSUME TypeOK, HoldInv, OwnInv, NEW t \in Cmd, CmdStep(t)
    PROVE  OwnInv'
<1>1. CASE NeedBox(t)
  BY <1>1, OwnSame DEF NeedBox, TypeOK, Dirs
<1>2. CASE CmdLocks(t)
  BY <1>2, OwnSame DEF CmdLocks
<1>3. CASE TakesOver(t)
  <2>1. \A u \in Up : dn[u] # "killing" /\ up[u] \notin Making \union Ending
    BY <1>3, CmdAlone DEF TakesOver, HasIt, LockedUp
  <2> QED
    BY <1>3, <2>1 DEF TakesOver, OwnInv, WorkAlone, Has, KillsOwn, TakenOverKept
<1> QED
  BY <1>1, <1>2, <1>3 DEF CmdStep

\* The rm of a killed command takes a dir nobody is said to have any more.
LEMMA OrphanKeepsOwn ==
    ASSUME TypeOK, OwnInv, NEW q \in late, OrphanRm(q)
    PROVE  OwnInv'
<1>1. UNCHANGED <<up, dn, why, live>> /\ robbed' = robbed \union ({box.of} \ {NoBox})
  BY DEF OrphanRm
<1>2. box'.agent = NoAgent /\ (box'.of = NoBox \/ box'.of = box.of)
  <2>1. box \in Dirs
    BY DEF TypeOK
  <2>2. CASE box' = NoDir
    BY <2>2 DEF NoDir
  <2>3. CASE box' = [box EXCEPT !.json = FALSE, !.agent = NoAgent]
    BY <2>1, <2>3 DEF Dirs
  <2> QED
    BY <2>2, <2>3 DEF OrphanRm
<1>3. \A v \in Up : Has(v) => Has(v)'
  BY <1>1, <1>2, BoxLifeAssumption DEF Has
<1>4. ~agent_alive'
  BY <1>1, <1>2, BoxLifeAssumption DEF agent_alive, TypeOK
<1> QED
  BY <1>1, <1>3, <1>4 DEF OwnInv, WorkAlone, KillsOwn, TakenOverKept

\* Every step keeps it.
LEMMA StepOwn ==
    ASSUME TypeOK, HoldInv, OwnInv, [Next]_vars
    PROVE  OwnInv'
<1>1. CASE UNCHANGED vars
  BY <1>1, OwnSame DEF vars
<1>2. CASE Env
  <2>1. CASE \E q \in late : OrphanRm(q)
    BY <2>1, OrphanKeepsOwn
  <2>2. CASE ~\E q \in late : OrphanRm(q)
    <3>1. box'.of = box.of /\ box'.agent = box.agent /\ live' \subseteq live
      BY <1>2, <2>2 DEF Env, Shows, LaunchFails, BoxDies, Exits, Peeks, Ends,
         TimePasses, Ticks, EnvUnchanged, ProcsUnchanged, TypeOK, Dirs
    <3>2. UNCHANGED <<up, dn, why, robbed>>
      BY <1>2, <2>2 DEF Env, Shows, LaunchFails, BoxDies, Exits, Peeks, Ends,
         TimePasses, Ticks, EnvUnchanged, ProcsUnchanged
    <3> QED
      BY <3>1, <3>2, OwnSame
  <2> QED
    BY <2>1, <2>2
<1> QED
  BY <1>1, <1>2, UpKeepsOwn, DownKeepsOwn, DownCommandKeepsOwn, ReapKeepsOwn,
     CmdKeepsOwn
     DEF Next

\* The inductive invariant: the types, who has the lock, the reapers, the boxes.
IInv == TypeOK /\ HoldInv /\ ReapersAt /\ OwnInv

\* It holds as the program starts...
LEMMA InitIInv == Init => IInv
<1>1. Init => OwnInv
  <2> SUFFICES ASSUME Init PROVE OwnInv
    OBVIOUS
  <2>1. \A u \in Up : up[u] = "new" /\ dn[u] = "idle"
    BY DEF Init
  <2> QED
    BY <2>1 DEF OwnInv, WorkAlone, Has, KillsOwn, TakenOverKept, Making, Ending
<1> QED
  BY <1>1, InitTyped, InitHolds DEF IInv

\* ...and every step keeps it.
LEMMA StepIInv == IInv /\ [Next]_vars => IInv'
BY StepTyped, StepHolds, StepOwn DEF IInv

\* The inductive invariant holds throughout.
THEOREM Invariance == Spec => []IInv
BY InitIInv, StepIInv, PTL DEF Spec

\* Whoever has the lock, its file is there: a down that finds neither a dir nor a
\* lock file has met no `up` at work (down.rs, down_one).
THEOREM LockFileThere == Spec => []LockHasFile
<1>1. IInv => LockHasFile
  BY DEF IInv, HoldInv
<1> QED
  BY <1>1, Invariance, PTL

\* The dir an `up` makes, launches from or undoes is its own (up_box.rs, make), until
\* an rm -rf that outlived a SIGKILLed command takes it (ready.rs, rm_tree).
THEOREM WorkOwned == Spec => []WorkIsOwn
<1>1. IInv => WorkIsOwn
  BY DEF IInv, OwnInv, WorkAlone, Has, WorkIsOwn
<1> QED
  BY <1>1, Invariance, PTL

\* A reaper's down for a gone agent never kills a box its session took over
\* (down.rs, down_one's check under the lock; boxes.rs, take_over).
THEOREM TakenOverSpared == Spec => []TakenOverKept
<1>1. IInv => TakenOverKept
  BY DEF IInv, OwnInv
<1> QED
  BY <1>1, Invariance, PTL

-----------------------------------------------------------------------------
(* What a reaper does to the boxes it does not watch *)

\* What a command's step does to the box of u: its PID 1 is killed, or its dir goes.
KillsBox(u) == one[u] = "shown" /\ one'[u] = "dying"
TakesDir(u) == box.of = u /\ box'.of # u /\ late' = late

\* An `up` that has not the lock kills nothing and removes nothing.
LEMMA UpSpares ==
    ASSUME TypeOK, NEW w \in Up, up[w] \notin LockedUp,
           Start(w) \/ UpStep(w) \/ UpKilled(w)
    PROVE  UNCHANGED <<one, box>>
<1>1. up[w] \in Early \union {"up", "already", "failed", "dead"}
  BY DEF TypeOK, UpStates
<1>2. Start(w) \/ Refused(w) \/ Wait(w) \/ Lock(w) \/ Busy(w) \/ UpKilled(w)
  BY <1>1 DEF UpStep, Start, Refused, Wait, Lock, Busy, Cancelled, Goahead,
     RefusedLocked, Already, Absent, Clear, ClearedFails, Make, Record, StartReaper,
     Launch, RecordNs, Uncover, Ready, OwnerGone, OwnerGoneDone, OwnerGoneSlow, Fails, Undo,
     Undone, UndoneSlow, UpKilled,
     Early, LockedUp, Making, Ending
<1> QED
  BY <1>2 DEF Start, Refused, Wait, Lock, Busy, UpKilled

\* A reaper's down that has the lock kills and removes its own box...
LEMMA DownSpares ==
    ASSUME TypeOK, HoldInv, OwnInv, NEW u \in Up, NEW v \in Up,
    lock = DownLock(v), u # v,
           NEW x \in Caller, DownStep(x)
    PROVE  ~KillsBox(u) /\ ~TakesDir(u)
<1>1. dn[v] \in HasIt
  BY DEF HoldInv, DownHolds
<1>2. dn[x] \in HasIt => x = v
  BY <1>1, DownAlone
<1>3. CASE kill_box(x)
  <2>1. x = v /\ box.of = v
    BY <1>2, <1>3 DEF kill_box, HasIt, Stale, Watched
  <2> QED
    BY <1>3, <2>1 DEF kill_box, Killed, KillsBox, TakesDir, TypeOK
<1>4. CASE rm_box(x)
  <2>1. x = v /\ Has(v)
    BY <1>2, <1>4 DEF rm_box, HasIt, OwnInv, KillsOwn
  <2> QED
    BY <1>4, <2>1, BoxLifeAssumption DEF rm_box, Has, KillsBox, TakesDir
<1>5. ASSUME UNCHANGED <<one, box>>
      PROVE  ~KillsBox(u) /\ ~TakesDir(u)
  BY <1>5 DEF KillsBox, TakesDir
<1> QED
  BY <1>3, <1>4, <1>5 DEF DownStep, Look, MarkUnlocked, LookAgain, DownWait,
     TakeLock,
     DownBusy, FoundNone, Spared, KillSlow, Unlink

\* ...and no other step meanwhile touches one.
LEMMA StepSpares ==
    ASSUME TypeOK, HoldInv, OwnInv, Next, NEW u \in Up, NEW v \in Up,
           lock = DownLock(v), u # v
    PROVE  ~KillsBox(u) /\ ~TakesDir(u)
<1>1. dn[v] \in HasIt
  BY DEF HoldInv, DownHolds
<1>2. \A w \in Up : up[w] \notin LockedUp
  BY <1>1, DownAlone
<1>3. ASSUME UNCHANGED one, box'.of = box.of
      PROVE  ~KillsBox(u) /\ ~TakesDir(u)
  BY <1>3 DEF KillsBox, TakesDir
<1>4. ASSUME NEW w \in Up, Start(w) \/ UpStep(w) \/ UpKilled(w)
      PROVE  ~KillsBox(u) /\ ~TakesDir(u)
  BY <1>2, <1>3, <1>4, UpSpares
<1>5. ASSUME NEW w \in Up, ReapStep(w)
      PROVE  ~KillsBox(u) /\ ~TakesDir(u)
  <2>1. CASE DownStep(w)
    BY <2>1, DownSpares
  <2>2. CASE ~DownStep(w)
    BY <1>3, <1>5, <2>2
       DEF ReapStep, Watch, Poll, InUse, AgentGone, IdleOver, Retry, TypeOK, Dirs
  <2> QED
    BY <2>1, <2>2
<1>6. ASSUME NEW d \in Down, DownStart(d) \/ DownStep(d) \/ DownKilled(d)
      PROVE  ~KillsBox(u) /\ ~TakesDir(u)
  <2>1. CASE DownStep(d)
    BY <2>1, DownSpares
  <2>2. CASE DownStart(d)
    BY <1>3, <2>2 DEF DownStart
  <2>3. CASE DownKilled(d)
    BY <1>3, <2>3 DEF DownKilled, TypeOK, Dirs
  <2> QED
    BY <1>6, <2>1, <2>2, <2>3
<1>7. ASSUME NEW t \in Cmd, CmdStep(t)
      PROVE  ~KillsBox(u) /\ ~TakesDir(u)
  <2>1. ~TakesOver(t)
    BY <1>1, CmdAlone DEF TakesOver
  <2>2. NeedBox(t) \/ CmdLocks(t)
    BY <1>7, <2>1 DEF CmdStep
  <2> QED
    BY <1>3, <2>2 DEF NeedBox, CmdLocks, TypeOK, Dirs
<1>8. CASE Env
  <2>1. box'.of = box.of \/ late' # late
    <3>1. ASSUME NEW q \in late, OrphanRm(q)
          PROVE  box'.of = box.of \/ late' # late
      BY <3>1 DEF OrphanRm, TypeOK, Dirs
    <3> QED
      BY <1>8, <3>1 DEF Env, Shows, LaunchFails, BoxDies, Exits, Peeks, Ends,
         TimePasses, Ticks, EnvUnchanged, ProcsUnchanged, TypeOK, Dirs
  <2>2. ~KillsBox(u)
    BY <1>8 DEF Env, Shows, LaunchFails, BoxDies, Exits, Peeks, Ends, OrphanRm,
       TimePasses, Ticks, EnvUnchanged, ProcsUnchanged, KillsBox, TypeOK
  <2> QED
    BY <2>1, <2>2 DEF TakesDir
<1> QED
  BY <1>4, <1>5, <1>6, <1>7, <1>8 DEF Next

\* While a reaper's down has the lock no other box of the name is killed, nor removed
\* but by an rm -rf that outlived its command, though it decided while it held nothing
\* (reap.rs; down.rs, finding 74).
THEOREM OthersKept == Spec => ReaperKeepsOthers
<1>1. IInv /\ Next => \A u, v \in Up : lock = DownLock(v) /\ u # v =>
                            ~KillsBox(u) /\ ~TakesDir(u)
  BY StepSpares DEF IInv
<1>2. IInv /\ [Next]_vars =>
        [\A u, v \in Up : lock = DownLock(v) /\ u # v =>
              /\ ~(one[u] = "shown" /\ one'[u] = "dying")
              /\ ~(box.of = u /\ box'.of # u /\ late' = late)]_vars
  BY <1>1 DEF KillsBox, TakesDir
<1> QED
  BY <1>2, Invariance, PTL DEF Spec, ReaperKeepsOthers

-----------------------------------------------------------------------------
(* No box that runs is out of sight, while no launch outlives its `up` *)

\* A launch that has come to nothing yet is one its `up` still waits for or undoes: what
\* a SIGKILL of the `up` breaks, and an undo that leaves a window's launch with the
\* host's Hyprland (up_box.rs, launch and its undo).
LaunchesOwned == \A u \in Up : one[u] = "asked" => up[u] \in {"launched", "undo"}

Runs(u) == one[u] \in {"shown", "dying"}
Undos == {"undone", "ended"}

\* What is known of the PID 1s by those that go on to replace or remove the dir: none
\* runs once an `up` found none, and one that was killed does not show again.
AbsentStays ==
    \A u \in Up : /\ up[u] = "absent" => ~box_alive
                  /\ up[u] = "cleared" => box.of = NoBox
UndoneKilled == \A u \in Up \ robbed : up[u] \in Undos => one[u] # "shown"
BoxKilled ==
    \A x \in Caller : dn[x] = "killing" /\ box.of # NoBox => one[box.of] # "shown"
VisibleInv == BoxesVisible /\ AbsentStays /\ UndoneKilled /\ BoxKilled

\* A step that makes no PID 1 run and leaves the dir.
LEMMA VisibleSame ==
    ASSUME TypeOK, VisibleInv, box'.of = box.of, UNCHANGED robbed,
           \A u \in Up : one'[u] = one[u] \/ one'[u] \in {"none", "asked"}
                            \/ (one[u] = "shown" /\ one'[u] = "dying"),
           \A u \in Up : up'[u] = "absent" => up[u] = "absent" \/ ~box_alive,
           \A u \in Up : up'[u] = "cleared" => up[u] = "cleared",
           \A u \in Up \ robbed : up'[u] \in Undos => up[u] \in Undos \/ one'[u] # "shown",
           \A x \in Caller : dn'[x] = "killing" =>
                                dn[x] = "killing" \/ one'[box.of] # "shown"
    PROVE  VisibleInv'
<1>1. \A u \in Up : one'[u] \in {"shown", "dying"} => one[u] \in {"shown", "dying"}
  OBVIOUS
<1>2. \A u \in Up : one'[u] = "shown" => one[u] = "shown"
  OBVIOUS
<1>3. box.of # NoBox => box.of \in Up
  BY DEF TypeOK, Dirs
<1>4. box_alive' => box_alive
  BY <1>1, <1>3 DEF box_alive
<1>5. BoxesVisible'
  BY <1>1 DEF VisibleInv, BoxesVisible
<1>6. AbsentStays'
  BY <1>4 DEF VisibleInv, AbsentStays
<1>7. UndoneKilled'
  BY <1>2 DEF VisibleInv, UndoneKilled
<1>8. BoxKilled'
  BY <1>2, <1>3 DEF VisibleInv, BoxKilled
<1> QED
  BY <1>5, <1>6, <1>7, <1>8 DEF VisibleInv

\* A step of whoever has the lock, after which no box runs but those robbed.
LEMMA NothingRuns ==
    ASSUME \A u \in Up \ robbed : one'[u] \notin {"shown", "dying"}, UNCHANGED robbed,
           \A u \in Up : /\ up'[u] \notin {"absent"} \union Undos
                         /\ up'[u] = "cleared" => box'.of = NoBox,
           \A x \in Caller : dn'[x] # "killing"
    PROVE  VisibleInv'
BY DEF VisibleInv, BoxesVisible, AbsentStays, UndoneKilled, BoxKilled

\* While one `up` has the lock the others are not at these places.
LEMMA UpOnly ==
    ASSUME TypeOK, HoldInv, NEW u \in Up, up[u] \in LockedUp,
           NEW s \in UpStates \ ({"absent"} \union Undos), Goes(u, s)
    PROVE  \A v \in Up : /\ up'[v] \notin {"absent"} \union Undos
                         /\ up'[v] = "cleared" => s = "cleared"
<1>1. \A v \in Up : v # u => up'[v] \notin LockedUp
  BY UpAlone DEF Goes, TypeOK
<1>2. up'[u] = s
  BY DEF Goes, TypeOK
<1> QED
  BY <1>1, <1>2 DEF LockedUp, Ending, Undos

\* When the box that can be seen does not run, none does but those robbed...
LEMMA NoneElseRuns ==
    ASSUME VisibleInv, ~box_alive
    PROVE  \A u \in Up \ robbed : ~Runs(u)
BY BoxLifeAssumption DEF VisibleInv, BoxesVisible, box_alive, Runs

\* ...as after an undo, which waited for its own PID 1 to exit.
LEMMA UndoneGone ==
    ASSUME OwnInv, VisibleInv, NEW u \in Up, up[u] \in Undos, one[u] # "dying"
    PROVE  \A v \in Up \ robbed : ~Runs(v)
<1>1. Has(u)
  BY DEF OwnInv, WorkAlone, Undos, Ending
<1>2. u \notin robbed => one[u] # "shown"
  BY DEF VisibleInv, UndoneKilled
<1> QED
  BY <1>1, <1>2, BoxLifeAssumption DEF Has, VisibleInv, BoxesVisible, Runs

\* Every box stays in sight over the steps of an `up`...
LEMMA UpKeepsVisible ==
    ASSUME TypeOK, HoldInv, OwnInv, VisibleInv, NEW u \in Up,
           Start(u) \/ UpStep(u) \/ UpKilled(u)
    PROVE  VisibleInv'
<1>1. CASE Start(u)
  BY <1>1, VisibleSame DEF Start, Goes, Undos, TypeOK
<1>2. CASE Refused(u)
  BY <1>2, VisibleSame DEF Refused, Goes, Undos, TypeOK
<1>3. CASE Wait(u)
  BY <1>3, VisibleSame DEF Wait, Goes, Undos, TypeOK
<1>4. CASE Lock(u)
  BY <1>4, VisibleSame DEF Lock, Goes, Undos, TypeOK
<1>5. CASE Busy(u)
  BY <1>5, VisibleSame DEF Busy, Goes, Undos, TypeOK
<1>6. CASE Cancelled(u)
  BY <1>6, VisibleSame DEF Cancelled, Goes, Undos, TypeOK
<1>7. CASE Goahead(u)
  BY <1>7, VisibleSame DEF Goahead, Goes, Undos, TypeOK
<1>8. CASE RefusedLocked(u)
  BY <1>8, VisibleSame DEF RefusedLocked, Goes, Undos, TypeOK
<1>9. CASE Already(u)
  <2>1. box'.of = box.of
    BY <1>9 DEF Already, take_over, TypeOK, Dirs
  <2> QED
    BY <1>9, <2>1, VisibleSame DEF Already, Goes, Undos, TypeOK
<1>10. CASE Absent(u)
  BY <1>10, VisibleSame DEF Absent, Goes, Undos, TypeOK
<1>11. CASE Make(u)
  <2>1. \A v \in Up \ robbed : one'[v] \notin {"shown", "dying"}
    BY <1>11, NoneElseRuns DEF Make, Runs, box_alive, VisibleInv, AbsentStays
  <2>2. /\ up[u] \in LockedUp /\ Goes(u, "made") /\ UNCHANGED robbed
        /\ "made" \in UpStates \ ({"absent"} \union Undos)
    BY <1>11 DEF Make, LockedUp, Making, Ending, UpStates, Undos
  <2>3. \A x \in Caller : dn'[x] # "killing"
    BY <1>11, <2>2, UpAlone DEF Make, kill_reapers, HasIt, TypeOK
  <2>4. \A v \in Up : /\ up'[v] \notin {"absent"} \union Undos
                      /\ up'[v] = "cleared" => "made" = "cleared"
    BY <2>2, UpOnly
  <2>5. "made" = "cleared" => box'.of = NoBox
    BY <1>11 DEF Make, NoDir
  <2> QED
    BY <2>1, <2>2, <2>3, <2>4, <2>5, NothingRuns
<1>12. CASE Record(u)
  BY <1>12, VisibleSame DEF Record, Goes, Undos, TypeOK, Dirs
<1>13. CASE StartReaper(u)
  BY <1>13, VisibleSame DEF StartReaper, Goes, Undos, TypeOK, Dirs
<1>14. CASE Launch(u)
  BY <1>14, VisibleSame DEF Launch, Goes, Undos, TypeOK
<1>15. CASE RecordNs(u)
  BY <1>15, VisibleSame DEF RecordNs, Goes, Undos, TypeOK
<1>16. CASE Uncover(u)
  BY <1>16, VisibleSame DEF Uncover, Undos, TypeOK, Dirs
<1>17. CASE Ready(u)
  BY <1>17, VisibleSame DEF Ready, Goes, Undos, TypeOK, Dirs
<1>18. CASE OwnerGone(u)
  <2>1. Has(u)
    BY <1>18 DEF OwnerGone, OwnInv, WorkAlone, Making, Ending
  <2>2. u \notin robbed => one'[u] # "shown"
    BY <1>18, <2>1 DEF OwnerGone, Has, Killed, TypeOK
  <2> QED
    BY <1>18, <2>2, VisibleSame DEF OwnerGone, Goes, Killed, Undos, TypeOK
<1>19. CASE OwnerGoneDone(u)
  <2>1. \A v \in Up \ robbed : one'[v] \notin {"shown", "dying"}
    BY <1>19, UndoneGone DEF OwnerGoneDone, Undos, Runs
  <2>2. /\ up[u] \in LockedUp /\ Goes(u, "failed") /\ UNCHANGED robbed
        /\ "failed" \in UpStates \ ({"absent"} \union Undos)
    BY <1>19 DEF OwnerGoneDone, LockedUp, Making, Ending, UpStates, Undos
  <2>3. \A x \in Caller : dn'[x] # "killing"
    BY <1>19, <2>2, UpAlone DEF OwnerGoneDone, kill_reapers, HasIt, TypeOK
  <2>4. \A v \in Up : /\ up'[v] \notin {"absent"} \union Undos
                      /\ up'[v] = "cleared" => "failed" = "cleared"
    BY <2>2, UpOnly
  <2>5. "failed" = "cleared" => box'.of = NoBox
    BY <1>19 DEF OwnerGoneDone, NoDir
  <2> QED
    BY <2>1, <2>2, <2>3, <2>4, <2>5, NothingRuns
<1>20. CASE OwnerGoneSlow(u)
  BY <1>20, VisibleSame DEF OwnerGoneSlow, Goes, Undos, TypeOK
<1>21. CASE Fails(u)
  BY <1>21, VisibleSame DEF Fails, Goes, Undos, TypeOK
<1>22. CASE Undo(u)
  <2>1. Has(u)
    BY <1>22 DEF Undo, OwnInv, WorkAlone, Making, Ending
  <2>2. u \notin robbed => one'[u] # "shown"
    BY <1>22, <2>1 DEF Undo, Has, Killed, TypeOK
  <2> QED
    BY <1>22, <2>2, VisibleSame DEF Undo, Goes, Killed, Undos, TypeOK
<1>23. CASE Undone(u)
  <2>1. \A v \in Up \ robbed : one'[v] \notin {"shown", "dying"}
    BY <1>23, UndoneGone DEF Undone, Undos, Runs
  <2>2. /\ up[u] \in LockedUp /\ Goes(u, "failed") /\ UNCHANGED robbed
        /\ "failed" \in UpStates \ ({"absent"} \union Undos)
    BY <1>23 DEF Undone, LockedUp, Making, Ending, UpStates, Undos
  <2>3. \A x \in Caller : dn'[x] # "killing"
    BY <1>23, <2>2, UpAlone DEF Undone, kill_reapers, HasIt, TypeOK
  <2>4. \A v \in Up : /\ up'[v] \notin {"absent"} \union Undos
                      /\ up'[v] = "cleared" => "failed" = "cleared"
    BY <2>2, UpOnly
  <2>5. "failed" = "cleared" => box'.of = NoBox
    BY <1>23 DEF Undone, NoDir
  <2> QED
    BY <2>1, <2>2, <2>3, <2>4, <2>5, NothingRuns
<1>24. CASE UndoneSlow(u)
  BY <1>24, VisibleSame DEF UndoneSlow, Goes, Undos, TypeOK, Dirs
<1>25. CASE UpKilled(u)
  <2>1. \A x \in Caller : dn'[x] = "killing" => dn[x] = "killing"
    <3>1. UNCHANGED dn \/ kill_reapers({}, dn)
      BY <1>25 DEF UpKilled, UndoneRm
    <3> QED
      BY <3>1 DEF kill_reapers, TypeOK
  <2> QED
    BY <1>25, <2>1, VisibleSame DEF UpKilled, Goes, Undos, TypeOK
<1>26. CASE Clear(u)
  <2>1. \A v \in Up \ robbed : one'[v] \notin {"shown", "dying"}
    BY <1>26, NoneElseRuns DEF Clear, Runs, VisibleInv, AbsentStays
  <2>2. /\ up[u] \in LockedUp /\ Goes(u, "cleared") /\ UNCHANGED robbed
        /\ "cleared" \in UpStates \ ({"absent"} \union Undos)
    BY <1>26 DEF Clear, LockedUp, Making, Ending, UpStates, Undos
  <2>3. \A x \in Caller : dn'[x] # "killing"
    BY <1>26, <2>2, UpAlone DEF Clear, kill_reapers, HasIt, TypeOK
  <2>4. \A v \in Up : /\ up'[v] \notin {"absent"} \union Undos
                      /\ up'[v] = "cleared" => "cleared" = "cleared"
    BY <2>2, UpOnly
  <2>5. "cleared" = "cleared" => box'.of = NoBox
    BY <1>26 DEF Clear, NoDir
  <2> QED
    BY <2>1, <2>2, <2>3, <2>4, <2>5, NothingRuns
<1>27. CASE ClearedFails(u)
  <2>1. \A x \in Caller : dn'[x] = "killing" => dn[x] = "killing"
    BY <1>27 DEF ClearedFails, kill_reapers, TypeOK
  <2> QED
    BY <1>27, <2>1, VisibleSame DEF ClearedFails, Goes, Undos, TypeOK
<1> QED
  BY <1>26, <1>27, <1>1, <1>2, <1>3, <1>4, <1>5, <1>6, <1>7, <1>8, <1>9, <1>10, <1>11,
     <1>12, <1>13, <1>14, <1>15, <1>16, <1>17, <1>18, <1>19, <1>20, <1>21,
     <1>22, <1>23, <1>24, <1>25 DEF UpStep

\* ...of down_one...
LEMMA DownKeepsVisible ==
    ASSUME TypeOK, HoldInv, VisibleInv, NEW x \in Caller, DownStep(x)
    PROVE  VisibleInv'
<1>1. CASE kill_box(x)
  BY <1>1, VisibleSame DEF kill_box, Killed, Steps, TypeOK, Dirs
<1>2. CASE rm_box(x)
  <2>1. ~box_alive
    BY <1>2 DEF rm_box, Dying, box_alive, TypeOK, Dirs, VisibleInv, BoxKilled
  <2>2. \A v \in Up \ robbed : one'[v] \notin {"shown", "dying"}
    BY <1>2, <2>1, NoneElseRuns DEF rm_box, Runs
  <2>3. dn[x] \in HasIt /\ UNCHANGED <<up, robbed>>
    BY <1>2 DEF rm_box, HasIt
  <2>4. \A v \in Up : up'[v] \notin {"absent", "cleared"} \union Undos
    BY <2>3, DownAlone DEF LockedUp, Ending, Undos
  <2>5. \A y \in Caller : dn'[y] # "killing"
    BY <1>2, <2>3, DownAlone DEF rm_box, kill_reapers, HasIt, TypeOK
  <2> QED
    BY <2>2, <2>3, <2>4, <2>5, NothingRuns
<1>3. CASE ~kill_box(x) /\ ~rm_box(x)
  <2>1. UNCHANGED <<box, one, up, robbed>>
    BY <1>3 DEF DownStep, Look, MarkUnlocked, LookAgain, DownWait, TakeLock,
       DownBusy, FoundNone, Spared, KillSlow, Unlink
  <2>2. \E s \in DownStates \ {"killing"} : Steps(x, s)
    BY <1>3 DEF DownStep, Look, MarkUnlocked, LookAgain, DownWait, TakeLock,
       DownBusy, FoundNone, Spared, KillSlow, Unlink, DownStates
  <2> QED
    BY <2>1, <2>2, VisibleSame DEF Steps, TypeOK
<1> QED
  BY <1>1, <1>2, <1>3

\* ...of a `down` command...
LEMMA DownCommandKeepsVisible ==
    ASSUME TypeOK, VisibleInv, NEW d \in Down, DownStart(d) \/ DownKilled(d)
    PROVE  VisibleInv'
<1>1. CASE DownStart(d)
  BY <1>1, VisibleSame DEF DownStart, Steps, TypeOK
<1>2. CASE DownKilled(d)
  <2>1. \A x \in Caller : dn'[x] = "killing" => dn[x] = "killing"
    BY <1>2 DEF DownKilled, kill_reapers, Steps, TypeOK
  <2> QED
    BY <1>2, <2>1, VisibleSame DEF DownKilled
<1> QED
  BY <1>1, <1>2

\* ...of a reaper...
LEMMA ReapKeepsVisible ==
    ASSUME TypeOK, HoldInv, VisibleInv, NEW u \in Up, ReapStep(u)
    PROVE  VisibleInv'
<1>1. CASE DownStep(u)
  BY <1>1, DownKeepsVisible
<1>2. CASE ~DownStep(u)
  <2>1. UNCHANGED <<one, up, robbed>> /\ box'.of = box.of
    BY <1>2 DEF ReapStep, Watch, Poll, InUse, AgentGone, IdleOver, Retry, TypeOK,
       Dirs
  <2>2. \A x \in Caller : dn'[x] = "killing" => dn[x] = "killing"
    BY <1>2 DEF ReapStep, Watch, Poll, InUse, AgentGone, IdleOver, Retry,
       ReapEnds, ReapDown, Steps, TypeOK
  <2> QED
    BY <2>1, <2>2, VisibleSame
<1> QED
  BY <1>1, <1>2

\* ...of a session command...
LEMMA CmdKeepsVisible ==
    ASSUME TypeOK, VisibleInv, NEW t \in Cmd, CmdStep(t)
    PROVE  VisibleInv'
<1>1. box'.of = box.of
  BY DEF CmdStep, NeedBox, CmdLocks, TakesOver, take_over, TypeOK, Dirs
<1>2. UNCHANGED <<one, up, dn, robbed>>
  BY DEF CmdStep, NeedBox, CmdLocks, TakesOver
<1> QED
  BY <1>1, <1>2, VisibleSame

\* ...and of what happens around them: a PID 1 shows while its own `up` has the lock.
LEMMA EnvKeepsVisible ==
    ASSUME TypeOK, HoldInv, VisibleInv, LaunchesOwned, Env
    PROVE  VisibleInv'
<1>1. ASSUME NEW u \in Up, Shows(u)
      PROVE  VisibleInv'
  <2>1. up[u] \in {"launched", "undo"} /\ up[u] \in LockedUp
    BY <1>1 DEF Shows, LaunchesOwned, LockedUp, Making, Ending
  <2>2. \A v \in Up : up[v] \notin Undos \union {"absent", "cleared"}
    BY <2>1, UpAlone DEF Undos, LockedUp, Ending
  <2>3. \A x \in Caller : dn[x] # "killing"
    BY <2>1, UpAlone DEF HasIt
  <2>4. UNCHANGED <<up, dn, box, robbed>> /\ box.of = u /\ one' = [one EXCEPT ![u] = "shown"]
    BY <1>1 DEF Shows, EnvUnchanged, ProcsUnchanged
  <2>5. BoxesVisible'
    BY <2>4 DEF VisibleInv, BoxesVisible, TypeOK
  <2> QED
    BY <2>2, <2>3, <2>4, <2>5 DEF VisibleInv, AbsentStays, UndoneKilled, BoxKilled
<1>2. ASSUME NEW u \in Up, LaunchFails(u) \/ BoxDies(u) \/ Exits(u)
      PROVE  VisibleInv'
  BY <1>2, VisibleSame DEF LaunchFails, BoxDies, Exits, EnvUnchanged,
     ProcsUnchanged, TypeOK
<1>3. CASE UNCHANGED <<one, up, dn, robbed>> /\ box'.of = box.of
  BY <1>3, VisibleSame
<1>4. ASSUME NEW q \in late, OrphanRm(q)
      PROVE  VisibleInv'
  <2>1. /\ UNCHANGED <<one, up, dn>> /\ robbed' = robbed \union ({box.of} \ {NoBox})
        /\ box'.of = NoBox \/ box'.of = box.of
    <3>1. box \in Dirs
      BY DEF TypeOK
    <3>2. CASE box' = NoDir
      BY <1>4, <3>2 DEF OrphanRm, NoDir
    <3>3. CASE box' = [box EXCEPT !.json = FALSE, !.agent = NoAgent]
      BY <1>4, <3>1, <3>3 DEF OrphanRm, Dirs
    <3> QED
      BY <1>4, <3>2, <3>3 DEF OrphanRm
  <2>2. BoxesVisible'
    BY <2>1, BoxLifeAssumption DEF VisibleInv, BoxesVisible
  <2>3. AbsentStays' /\ UndoneKilled' /\ BoxKilled'
    BY <2>1, BoxLifeAssumption
       DEF VisibleInv, AbsentStays, box_alive, UndoneKilled, BoxKilled
  <2> QED
    BY <2>2, <2>3 DEF VisibleInv
<1>5. ASSUME ~\E u \in Up : Shows(u) \/ LaunchFails(u) \/ BoxDies(u) \/ Exits(u),
             ~\E q \in late : OrphanRm(q)
      PROVE  UNCHANGED <<one, up, dn, robbed>> /\ box'.of = box.of
  BY <1>5 DEF Env, Peeks, Ends, TimePasses, Ticks, EnvUnchanged, ProcsUnchanged,
     TypeOK, Dirs
<1> QED
  BY <1>1, <1>2, <1>3, <1>4, <1>5

\* Every step keeps the boxes in sight.
LEMMA StepVisible ==
    ASSUME IInv, IInv', VisibleInv, LaunchesOwned, [Next]_vars
    PROVE  VisibleInv'
<1>1. TypeOK /\ HoldInv /\ OwnInv
  BY DEF IInv
<1>2. CASE UNCHANGED vars
  BY <1>1, <1>2, VisibleSame DEF vars
<1> QED
  BY <1>1, <1>2, UpKeepsVisible, DownKeepsVisible, DownCommandKeepsVisible,
     ReapKeepsVisible, CmdKeepsVisible, EnvKeepsVisible DEF Next

\* No box runs as the program starts.
LEMMA InitVisible == Init => VisibleInv
<1> SUFFICES ASSUME Init PROVE VisibleInv
  OBVIOUS
<1>1. \A u \in Up : one[u] = "none" /\ up[u] = "new"
  BY DEF Init
<1>2. \A x \in Caller : dn[x] = "idle"
  BY DEF Init
<1> QED
  BY <1>1, <1>2
     DEF VisibleInv, BoxesVisible, AbsentStays, UndoneKilled, BoxKilled, Undos

\* "A box that may yet run is never hidden" (up_box.rs, the undo): as long as no launch
\* outlives the `up` that asked for it, a box whose PID 1 runs keeps its dir, but for
\* what an rm -rf that outlived a SIGKILLed command takes.
THEOREM RunningSeen == Spec /\ []LaunchesOwned => []BoxesVisible
<1>1. VisibleInv => BoxesVisible
  BY DEF VisibleInv
<1>2. IInv /\ IInv' /\ VisibleInv /\ LaunchesOwned /\ [Next]_vars => VisibleInv'
  BY StepVisible
<1> QED
  BY <1>1, <1>2, InitVisible, Invariance, PTL DEF Spec

\* Whatever an `up` that nothing kills launches headless, it waits for or undoes...
LEMMA UpKeepsLaunches ==
    ASSUME MaxKills = 0, Windowed = {}, TypeOK, LaunchesOwned, [Next]_vars
    PROVE  LaunchesOwned'
<1>1. ASSUME \A u \in Up : one'[u] = "asked" => one[u] = "asked",
             \A u \in Up : up[u] \in {"launched", "undo"} /\ one'[u] = "asked" =>
                              up'[u] \in {"launched", "undo"}
      PROVE  LaunchesOwned'
  BY <1>1 DEF LaunchesOwned
<1>2. ASSUME NEW u \in Up, Start(u) \/ UpStep(u) \/ UpKilled(u)
      PROVE  LaunchesOwned'
  <2>1. ~UpKilled(u)
    BY DEF UpKilled, TypeOK
  <2>2. CASE up[u] \notin {"launch", "launched", "undo"}
    <3>1. \A v \in Up \ {u} : up'[v] = up[v]
      BY <1>2 DEF UpStep, Start, Refused, Wait, Lock, Busy, Cancelled, Goahead,
         RefusedLocked, Already, Absent, Clear, ClearedFails, Make, Record, StartReaper,
         Launch, RecordNs, Uncover, Ready, OwnerGone, OwnerGoneDone, OwnerGoneSlow, Fails, Undo,
         Undone, UndoneSlow, UpKilled, Goes, TypeOK
    <3>2. \A v \in Up : one'[v] = "asked" => one[v] = "asked"
      BY <1>2, <2>2 DEF UpStep, Start, Refused, Wait, Lock, Busy, Cancelled, Goahead,
         RefusedLocked, Already, Absent, Clear, ClearedFails, Make, Record, StartReaper,
         Launch, RecordNs, Uncover, Ready, OwnerGone, OwnerGoneDone, OwnerGoneSlow, Fails, Undo,
         Undone, UndoneSlow, UpKilled, Killed, TypeOK
    <3> QED
      BY <1>1, <2>2, <3>1, <3>2
  <2>3. CASE up[u] \in {"launch", "launched", "undo"}
    <3>1. Launch(u) \/ RecordNs(u) \/ Fails(u) \/ Undo(u)
      BY <1>2, <2>1, <2>3 DEF UpStep, Start, Refused, Wait, Lock, Busy, Cancelled,
         Goahead, RefusedLocked, Already, Absent, Clear, ClearedFails, Make, Record,
         StartReaper, Uncover, Ready, OwnerGone, OwnerGoneDone, OwnerGoneSlow, Undone, UndoneSlow
    <3>2. CASE Launch(u)
      BY <3>2 DEF Launch, Goes, LaunchesOwned, TypeOK
    <3>3. CASE RecordNs(u)
      BY <3>3 DEF RecordNs, Goes, LaunchesOwned, TypeOK
    <3>4. CASE Fails(u)
      BY <3>4 DEF Fails, Goes, LaunchesOwned, TypeOK
    <3>5. CASE Undo(u)
      <4>1. one'[u] # "asked"
        BY <3>5 DEF Undo, Killed, TypeOK
      <4> QED
        BY <3>5, <4>1 DEF Undo, Goes, Killed, LaunchesOwned, TypeOK
    <3> QED
      BY <3>1, <3>2, <3>3, <3>4, <3>5
  <2> QED
    BY <2>2, <2>3
<1>3. ASSUME NEW x \in Caller, DownStep(x)
      PROVE  LaunchesOwned'
  <2>1. UNCHANGED up
    BY <1>3 DEF DownStep, Look, MarkUnlocked, LookAgain, DownWait, TakeLock,
       DownBusy, FoundNone, Spared, kill_box, rm_box, KillSlow, Unlink
  <2>2. one' = one \/ one' = Killed(box.of)
    BY <1>3 DEF DownStep, Look, MarkUnlocked, LookAgain, DownWait, TakeLock,
       DownBusy, FoundNone, Spared, kill_box, rm_box, KillSlow, Unlink
  <2> QED
    BY <1>1, <2>1, <2>2 DEF Killed, TypeOK
<1>4. CASE UNCHANGED <<one, up>>
  BY <1>1, <1>4
<1>5. ASSUME NEW u \in Up, ReapStep(u)
      PROVE  LaunchesOwned'
  BY <1>3, <1>4, <1>5 DEF ReapStep, Watch, Poll, InUse, AgentGone, IdleOver, Retry
<1>6. ASSUME NEW d \in Down, DownStart(d) \/ DownStep(d) \/ DownKilled(d)
      PROVE  LaunchesOwned'
  BY <1>3, <1>4, <1>6 DEF DownStart, DownKilled
<1>7. ASSUME NEW t \in Cmd, CmdStep(t)
      PROVE  LaunchesOwned'
  BY <1>4, <1>7 DEF CmdStep, NeedBox, CmdLocks, TakesOver
<1>8. CASE Env
  BY <1>1, <1>8 DEF Env, Shows, LaunchFails, BoxDies, Exits, Peeks, Ends, TimePasses,
     Ticks, OrphanRm, EnvUnchanged, ProcsUnchanged, TypeOK
<1>9. CASE UNCHANGED vars
  BY <1>4, <1>9 DEF vars
<1> QED
  BY <1>2, <1>5, <1>6, <1>7, <1>8, <1>9 DEF Next

\* No rm outlives a command that nothing kills.
NothingRobbed == late = {} /\ robbed = {}

LEMMA NothingRobs ==
    ASSUME MaxKills = 0, TypeOK, NothingRobbed, [Next]_vars
    PROVE  NothingRobbed'
<1>1. \A u \in Up : ~UpKilled(u)
  BY DEF UpKilled, TypeOK
<1>2. \A d \in Down : ~DownKilled(d)
  BY DEF DownKilled, TypeOK
<1>3. \A q : ~(q \in late /\ OrphanRm(q))
  BY DEF NothingRobbed
<1>4. ASSUME UNCHANGED crash
      PROVE  NothingRobbed'
  BY <1>4 DEF crash, NothingRobbed
<1>5. ASSUME NEW u \in Up, Start(u) \/ UpStep(u)
      PROVE  NothingRobbed'
  BY <1>4, <1>5 DEF UpStep, Start, Refused, Wait, Lock, Busy, Cancelled, Goahead,
     RefusedLocked, Already, Absent, Clear, ClearedFails, Make, Record, StartReaper,
     Launch, RecordNs, Uncover, Ready, OwnerGone, OwnerGoneDone, OwnerGoneSlow, Fails,
     Undo, Undone, UndoneSlow
<1>6. ASSUME NEW x \in Caller, DownStep(x)
      PROVE  NothingRobbed'
  BY <1>4, <1>6 DEF DownStep, Look, MarkUnlocked, LookAgain, DownWait, TakeLock,
     DownBusy, FoundNone, Spared, kill_box, rm_box, KillSlow, Unlink
<1>7. ASSUME NEW u \in Up, ReapStep(u)
      PROVE  NothingRobbed'
  BY <1>4, <1>6, <1>7 DEF ReapStep, Watch, Poll, InUse, AgentGone, IdleOver, Retry
<1>8. ASSUME NEW d \in Down, DownStart(d) \/ DownStep(d)
      PROVE  NothingRobbed'
  BY <1>4, <1>6, <1>8 DEF DownStart
<1>9. ASSUME NEW t \in Cmd, CmdStep(t)
      PROVE  NothingRobbed'
  BY <1>4, <1>9 DEF CmdStep, NeedBox, CmdLocks, TakesOver
<1>10. CASE Env
  BY <1>3, <1>4, <1>10 DEF Env, Shows, LaunchFails, BoxDies, Exits, Peeks, Ends,
     TimePasses, Ticks, EnvUnchanged, ProcsUnchanged
<1>11. CASE UNCHANGED vars
  BY <1>4, <1>11 DEF vars, crash
<1> QED
  BY <1>1, <1>2, <1>5, <1>7, <1>8, <1>9, <1>10, <1>11 DEF Next

\* ...so where all boxes are headless and no command is SIGKILLed, no launch outlives
\* its `up`, no rm the command it is for, and every box that runs has its dir.
THEOREM HeadlessSeen ==
    ASSUME MaxKills = 0, Windowed = {}
    PROVE  Spec => []LaunchesOwned /\ [](robbed = {} /\ BoxesVisible)
<1>1. Init => LaunchesOwned
  <2>1. Init => \A u \in Up : one[u] = "none"
    BY DEF Init
  <2> QED
    BY <2>1 DEF LaunchesOwned
<1>2. TypeOK /\ LaunchesOwned /\ [Next]_vars => LaunchesOwned'
  BY UpKeepsLaunches
<1>3. Init => NothingRobbed
  BY DEF Init, NothingRobbed
<1>4. TypeOK /\ NothingRobbed /\ [Next]_vars => NothingRobbed'
  BY NothingRobs
<1>5. NothingRobbed => robbed = {}
  BY DEF NothingRobbed
<1> QED
  BY <1>1, <1>2, <1>3, <1>4, <1>5, TypeCorrect, RunningSeen, PTL DEF Spec

-----------------------------------------------------------------------------
(* The order of the commands' starts, which is that of their pids *)

Began == {x \in Caller : start[x] # 0}

\* A command that started later has a later pid, and a tick no earlier; no more start
\* than there are commands.
Clock ==
    /\ \A x \in Caller : start[x] <= started /\ at[x] <= tick /\ (start[x] = 0 => at[x] = 0)
    /\ \A x, y \in Caller : start[x] < start[y] => at[x] <= at[y]
    /\ \A u \in Up : up[u] = "new" => start[u] = 0
    /\ started = Cardinality(Began)

\* A number less than PidMax above or below the pids there are, taken round to them.
LEMMA RoundOnce ==
    ASSUME NEW a \in Int
    PROVE  /\ a \in 0 .. PidMax - 1 => a % PidMax = a
           /\ a \in PidMax .. 2 * PidMax - 1 => a % PidMax = a - PidMax
           /\ a \in -PidMax .. -1 => a % PidMax = a + PidMax
<1>1. PidMax \in Nat \ {0}
  BY BoxLifeAssumption
<1>2. ASSUME a \in 0 .. PidMax - 1 PROVE a % PidMax = a
  BY <1>1, <1>2
<1>3. ASSUME a \in PidMax .. 2 * PidMax - 1 PROVE a % PidMax = a - PidMax
  BY <1>1, <1>3
<1>4. ASSUME a \in -PidMax .. -1 PROVE a % PidMax = a + PidMax
  BY <1>1, <1>4
<1> QED
  BY <1>2, <1>3, <1>4

\* The pid of a command started later is less than half of the pids ahead, pid_max
\* passed on the way or not (procfs.rs, started_after).
LEMMA PidAhead ==
    ASSUME NEW m \in Nat, NEW n \in Nat, 0 < m, m < n, 2 * n <= PidMax
    PROVE  (Pid(n) - Pid(m)) % PidMax < PidMax \div 2
<1>1. PidMax \in Nat \ {0} /\ FirstPid \in 0 .. PidMax - 1
  BY BoxLifeAssumption
<1>2. /\ Pid(m) = IF FirstPid + m < PidMax THEN FirstPid + m ELSE FirstPid + m - PidMax
      /\ Pid(n) = IF FirstPid + n < PidMax THEN FirstPid + n ELSE FirstPid + n - PidMax
  BY <1>1, RoundOnce DEF Pid
<1>3. Pid(n) - Pid(m) = n - m \/ Pid(n) - Pid(m) = n - m - PidMax
  BY <1>1, <1>2
<1>4. n - m \in 0 .. PidMax - 1 /\ n - m - PidMax \in -PidMax .. -1
  BY <1>1
<1>5. (Pid(n) - Pid(m)) % PidMax = n - m
  BY <1>3, <1>4, <1>1, RoundOnce
<1>6. n - m < PidMax \div 2
  BY <1>1
<1> QED
  BY <1>5, <1>6

\* There are only as many commands, and each starts once.
LEMMA FewStart ==
    ASSUME Clock, TypeOK
    PROVE  2 * started <= PidMax
<1>1. IsFiniteSet(Caller) /\ 2 * Cardinality(Caller) <= PidMax /\ PidMax \in Nat
  <2>1. Caller = Up \union Down
    OBVIOUS
  <2> QED
    BY <2>1, BoxLifeAssumption
<1>2. Cardinality(Began) <= Cardinality(Caller)
  BY <1>1, FS_Subset DEF Began
<1>3. Cardinality(Caller) \in Nat
  BY <1>1, FS_CardinalityType
<1> QED
  BY <1>1, <1>2, <1>3 DEF Clock, TypeOK

\* A command that starts is the last to have.
LEMMA BeginsClock ==
    ASSUME TypeOK, Clock, NEW x \in Caller, start[x] = 0, Begins(x),
           \A u \in Up : up'[u] = "new" => up[u] = "new" /\ u # x
    PROVE  Clock'
<1>1. /\ started \in Nat /\ start \in [Caller -> Nat]
      /\ tick \in Nat /\ tick > 0 /\ at \in [Caller -> Nat]
  BY Bounds DEF TypeOK
<1>2. /\ started' = started + 1 /\ start' = [start EXCEPT ![x] = started + 1]
      /\ at' = [at EXCEPT ![x] = tick] /\ tick' = tick
  BY DEF Begins
<1>3. \A y \in Caller : start'[y] <= started' /\ at'[y] <= tick'
                           /\ (start'[y] = 0 => at'[y] = 0)
  BY <1>1, <1>2 DEF Clock
<1>4. ASSUME NEW y \in Caller, NEW z \in Caller, start'[y] < start'[z]
      PROVE  at'[y] <= at'[z]
  BY <1>1, <1>2, <1>4 DEF Clock
<1>5. \A u \in Up : up'[u] = "new" => start'[u] = 0
  BY <1>1, <1>2 DEF Clock
<1>6. started' = Cardinality(Began)'
  <2>1. Began' = Began \union {x} /\ x \notin Began
    BY <1>1, <1>2 DEF Began
  <2>2. IsFiniteSet(Began)
    <3>1. Began \subseteq Up \union Down
      BY DEF Began
    <3> QED
      BY <3>1, BoxLifeAssumption, FS_Subset
  <2> QED
    BY <1>2, <2>1, <2>2, FS_AddElement DEF Clock
<1> QED
  BY <1>3, <1>4, <1>5, <1>6 DEF Clock

\* A step at which no command starts.
LEMMA ClockSame ==
    ASSUME TypeOK, Clock, UNCHANGED <<started, start, at>>, tick' \in {tick, tick + 1},
           \A u \in Up : up'[u] = "new" => up[u] = "new"
    PROVE  Clock'
<1>1. tick \in Nat /\ at \in [Caller -> Nat]
  BY Bounds DEF TypeOK
<1> QED
  BY <1>1 DEF Clock, Began

\* An `up` that goes on is no new one.
LEMMA UpGoes ==
    ASSUME TypeOK, NEW u \in Up, UpStep(u) \/ UpKilled(u)
    PROVE  UNCHANGED times /\ \A v \in Up : up'[v] = "new" => up[v] = "new"
<1>1. UNCHANGED times
  BY DEF UpStep, Refused, Wait, Lock, Busy, Cancelled, Goahead,
     RefusedLocked, Already, Absent, Clear, ClearedFails, Make, Record, StartReaper,
     Launch, RecordNs, Uncover, Ready, OwnerGone, OwnerGoneDone, OwnerGoneSlow, Fails, Undo,
     Undone, UndoneSlow, UpKilled
<1>2. \A v \in Up : up'[v] = "new" => up[v] = "new"
  BY DEF UpStep, Refused, Wait, Lock, Busy, Cancelled, Goahead,
     RefusedLocked, Already, Absent, Clear, ClearedFails, Make, Record, StartReaper,
     Launch, RecordNs, Uncover, Ready, OwnerGone, OwnerGoneDone, OwnerGoneSlow, Fails, Undo,
     Undone, UndoneSlow, UpKilled, Goes, TypeOK
<1> QED
  BY <1>1, <1>2

\* Every step keeps the order of the starts.
LEMMA StepClock ==
    ASSUME TypeOK, Clock, [Next]_vars
    PROVE  Clock'
<1>1. CASE UNCHANGED <<times, up>>
  BY <1>1, ClockSame
<1>2. ASSUME NEW u \in Up, Start(u)
      PROVE  Clock'
  <2>1. start[u] = 0 /\ Begins(u) /\ up' = [up EXCEPT ![u] = "started"]
    BY <1>2 DEF Start, Goes, Clock
  <2>2. \A v \in Up : up'[v] = "new" => up[v] = "new" /\ v # u
    BY <2>1 DEF TypeOK
  <2> QED
    BY <2>1, <2>2, BeginsClock
<1>3. ASSUME NEW u \in Up, UpStep(u) \/ UpKilled(u)
      PROVE  Clock'
  BY <1>3, UpGoes, ClockSame
<1>4. ASSUME NEW x \in Caller, DownStep(x)
      PROVE  UNCHANGED <<times, up>>
  BY <1>4 DEF DownStep, Look, MarkUnlocked, LookAgain, DownWait, TakeLock,
     DownBusy, FoundNone, Spared, kill_box, rm_box, KillSlow, Unlink
<1>5. ASSUME NEW u \in Up, ReapStep(u)
      PROVE  UNCHANGED <<times, up>>
  BY <1>4, <1>5 DEF ReapStep, Watch, Poll, InUse, AgentGone, IdleOver, Retry
<1>6. ASSUME NEW d \in Down, DownStart(d)
      PROVE  Clock'
  <2>1. d \notin Up
    BY BoxLifeAssumption
  <2> QED
    BY <1>6, <2>1, BeginsClock DEF DownStart
<1>7. ASSUME NEW d \in Down, DownStep(d) \/ DownKilled(d)
      PROVE  UNCHANGED <<times, up>>
  BY <1>4, <1>7 DEF DownKilled
<1>8. ASSUME NEW t \in Cmd, CmdStep(t)
      PROVE  UNCHANGED <<times, up>>
  BY <1>8 DEF CmdStep, NeedBox, CmdLocks, TakesOver
<1>9. CASE Env
  <2>1. UNCHANGED <<started, start, at, up>> /\ tick' \in {tick, tick + 1}
    BY <1>9 DEF Env, Shows, LaunchFails, BoxDies, Exits, Peeks, Ends, TimePasses,
       Ticks, OrphanRm, EnvUnchanged, ProcsUnchanged
  <2> QED
    BY <2>1, ClockSame
<1>10. CASE UNCHANGED vars
  BY <1>1, <1>10 DEF vars
<1> QED
  BY <1>1, <1>2, <1>3, <1>5, <1>6, <1>7, <1>8, <1>9, <1>10 DEF Next

\* No command has started as the program starts.
LEMMA InitClock == Init => Clock
<1> SUFFICES ASSUME Init PROVE Clock
  OBVIOUS
<1>1. started = 0 /\ tick = 1 /\ \A x \in Caller : start[x] = 0 /\ at[x] = 0
  BY DEF Init
<1>2. Began = {}
  BY <1>1 DEF Began
<1> QED
  BY <1>1, <1>2, FS_EmptySet DEF Clock

-----------------------------------------------------------------------------
(* What a `down` that finds no box promises, to the ups started before it *)

\* Of the `down` commands of the name, one is under way at most.
OneDown ==
    \A d, e \in Down : dn[d] \notin {"idle", "end"} /\ dn[e] \notin {"idle", "end"} => d = e

\* An `up` that has gone ahead: it makes a box, or answers for the one there is.
Going == {"checked", "absent", "cleared"} \union Making

\* The marker there speaks for d, whether d wrote it or a `down` after it.
Marked(d) ==
    /\ mark.at >= at[d] /\ mark.jail = JailOf[d]
    /\ \E n \in start[d] .. started : mark.last = Pid(n)

\* The `down` under way is the last to have started.
LastIsUnderWay ==
    \A d, e \in Down : d # e /\ dn[e] \notin {"idle", "end"} => start[d] < start[e]
AnsweredAt == \A d \in Down : ans[d] = "none" => dn[d] \in {"unlink", "end"}
MarkOfDown == mark.at # 0 => \E d \in Down : mark.jail = JailOf[d]
MarkKept == \A d \in Down : ans[d] = "none" \/ dn[d] = "look2" => Marked(d)

NoneInv == LastIsUnderWay /\ AnsweredAt /\ MarkOfDown /\ MarkKept /\ NoneMeansNone

\* A step at which no `down` command starts, marks or finds none, and no `up` goes ahead.
LEMMA NoneSame ==
    ASSUME TypeOK, NoneInv, UNCHANGED <<mark, started, start, at>>,
           \A d \in Down : /\ ans'[d] = "none" => ans[d] = "none"
                           /\ dn'[d] \notin {"idle", "end"} => dn[d] \notin {"idle", "end"}
                           /\ dn'[d] = "look2" => dn[d] = "look2"
                           /\ dn[d] \in {"unlink", "end"} => dn'[d] \in {"unlink", "end"},
           \A u \in Up : /\ up'[u] \in Going => up[u] \in Going
                         /\ box'.of = u => box.of = u \/ up[u] \in Going
    PROVE  NoneInv'
<1>1. LastIsUnderWay'
  BY DEF NoneInv, LastIsUnderWay
<1>2. AnsweredAt'
  BY DEF NoneInv, AnsweredAt
<1>3. MarkOfDown'
  BY DEF NoneInv, MarkOfDown
<1>4. MarkKept'
  BY DEF NoneInv, MarkKept, Marked
<1>5. NoneMeansNone'
  BY DEF NoneInv, NoneMeansNone, Going
<1> QED
  BY <1>1, <1>2, <1>3, <1>4, <1>5 DEF NoneInv

\* The marker of a `down` started after an `up` tells it off (up_box.rs, made: a tie of
\* ticks too, which the pids decide).
LEMMA ToldOff ==
    ASSUME TypeOK, Clock, NEW d \in Down, Marked(d), NEW u \in Up,
           start[u] # 0, start[u] < start[d], JailOf[d] \in {User, JailOf[u]}
    PROVE  MarkIsFor(u) /\ down_came(u)
<1>1. start[u] \in Nat /\ start[d] \in Nat /\ started \in Nat /\ PidMax \in Nat
  BY BoxLifeAssumption DEF TypeOK
<1>2. at[u] <= at[d] /\ at[u] \in Nat /\ at[d] \in Nat /\ mark.at \in Nat
  BY Bounds DEF TypeOK, Clock, Marks
<1>3. PICK n \in start[d] .. started : mark.last = Pid(n)
  BY DEF Marked
<1>4. n \in Nat /\ start[u] < n /\ 2 * n <= PidMax
  BY <1>1, <1>3, FewStart
<1>5. (mark.last - Pid(start[u])) % PidMax < PidMax \div 2
  BY <1>1, <1>3, <1>4, PidAhead
<1>6. mark.at > at[u] \/ mark.at = at[u]
  BY <1>2 DEF Marked
<1> QED
  BY <1>5, <1>6 DEF Marked, MarkIsFor, down_came

\* Where the downs are all of one caller, a `down` that finds no box always leaves its
\* start, and for the downs before it too.
LEMMA MarksForAll ==
    ASSUME TypeOK, Clock, NoneInv, NEW e \in Down, down_mark(e), UNCHANGED times,
           \A d \in Down : JailOf[d] = JailOf[e],
           dn[e] \notin {"idle", "look2", "unlink", "end"}, OneDown
    PROVE  MarkOfDown' /\ \A d \in Down : d = e \/ ans[d] = "none" \/ dn[d] = "look2"
                                            => Marked(d)'
<1>1. ~(JailOf[e] # User /\ mark.at # 0 /\ mark.jail = User)
  BY DEF NoneInv, MarkOfDown
<1>2. mark' = [at |-> at[e], last |-> Pid(started), jail |-> JailOf[e]]
  BY <1>1 DEF down_mark
<1>3. started \in Nat /\ start \in [Caller -> Nat] /\ at \in [Caller -> Nat]
  BY Bounds DEF TypeOK
<1>4. ASSUME NEW d \in Down, d = e \/ ans[d] = "none" \/ dn[d] = "look2"
      PROVE  Marked(d)'
  <2>1. d = e \/ start[d] < start[e]
    BY <1>4 DEF NoneInv, LastIsUnderWay
  <2>2. at[d] <= at[e] /\ at[e] <= at[e] /\ start[d] <= started
    BY <1>3, <2>1 DEF Clock
  <2>3. started \in start[d] .. started
    BY <1>3, <2>2
  <2> QED
    BY <1>2, <2>2, <2>3 DEF Marked
<1> QED
  BY <1>2, <1>4 DEF MarkOfDown

\* The promise is kept by an `up`: told off, or started since...
LEMMA UpKeepsNone ==
    ASSUME TypeOK, Clock, NoneInv, NEW u \in Up, Start(u) \/ UpStep(u) \/ UpKilled(u)
    PROVE  NoneInv'
<1>1. CASE Start(u)
  <2>1. /\ start' = [start EXCEPT ![u] = started + 1] /\ started' = started + 1
        /\ at' = [at EXCEPT ![u] = tick] /\ UNCHANGED <<mark, dn, ans, box>>
        /\ up' = [up EXCEPT ![u] = "started"]
    BY <1>1 DEF Start, Begins, Goes
  <2>2. \A d \in Down : start'[d] = start[d] /\ at'[d] = at[d]
    BY <2>1, BoxLifeAssumption DEF TypeOK
  <2>3. started \in Nat /\ start \in [Caller -> Nat]
    BY DEF TypeOK
  <2>4. LastIsUnderWay' /\ AnsweredAt' /\ MarkOfDown'
    BY <2>1, <2>2 DEF NoneInv, LastIsUnderWay, AnsweredAt, MarkOfDown
  <2>5. ASSUME NEW d \in Down, Marked(d)
        PROVE  Marked(d)'
    <3>1. PICK n \in start[d] .. started : mark.last = Pid(n)
      BY <2>5 DEF Marked
    <3>2. n \in start'[d] .. started'
      BY <2>1, <2>2, <2>3, <3>1
    <3> QED
      BY <2>1, <2>2, <2>5, <3>1, <3>2 DEF Marked
  <2>6. MarkKept'
    BY <2>1, <2>5 DEF NoneInv, MarkKept
  <2>7. \A d \in Down : ~(start'[u] < start[d])
    BY <2>1, <2>3 DEF Clock
  <2>8. NoneMeansNone'
    BY <2>1, <2>2, <2>7 DEF NoneInv, NoneMeansNone, TypeOK
  <2> QED
    BY <2>4, <2>6, <2>8 DEF NoneInv
<1>2. CASE Goahead(u)
  <2>1. /\ up' = [up EXCEPT ![u] = "checked"]
        /\ UNCHANGED <<mark, times, dn, ans, box>>
    BY <1>2 DEF Goahead, Goes
  <2>2. ~(MarkIsFor(u) /\ down_came(u))
    BY <1>2 DEF Goahead
  <2>3. \A d \in Down : ans[d] = "none" =>
            ~(start[u] # 0 /\ start[u] < start[d] /\ JailOf[d] \in {User, JailOf[u]})
    BY <2>2, ToldOff DEF NoneInv, MarkKept
  <2>4. LastIsUnderWay' /\ AnsweredAt' /\ MarkOfDown' /\ MarkKept'
    BY <2>1 DEF NoneInv, LastIsUnderWay, AnsweredAt, MarkOfDown, MarkKept, Marked
  <2>5. NoneMeansNone'
    BY <2>1, <2>3 DEF NoneInv, NoneMeansNone, TypeOK
  <2> QED
    BY <2>4, <2>5 DEF NoneInv
<1>3. CASE ~Start(u) /\ ~Goahead(u)
  <2>1. UNCHANGED <<mark, times, ans>>
    BY <1>3 DEF UpStep, Refused, Wait, Lock, Busy, Cancelled,
       RefusedLocked, Already, Absent, Clear, ClearedFails, Make, Record, StartReaper,
       Launch, RecordNs, Uncover, Ready, OwnerGone, OwnerGoneDone, OwnerGoneSlow, Fails, Undo,
       Undone, UndoneSlow, UpKilled
  <2>2. \A d \in Down : dn'[d] = dn[d]
    BY <1>3, BoxLifeAssumption DEF UpStep, Refused, Wait, Lock, Busy, Cancelled,
       RefusedLocked, Already, Absent, Clear, ClearedFails, Make, Record, StartReaper,
       Launch, RecordNs, Uncover, Ready, OwnerGone, OwnerGoneDone, OwnerGoneSlow, Fails, Undo,
       Undone, UndoneSlow, UpKilled, UndoneRm, kill_reapers, TypeOK
  <2>3. \A v \in Up : up'[v] \in Going => up[v] \in Going
    BY <1>3 DEF UpStep, Refused, Wait, Lock, Busy, Cancelled,
       RefusedLocked, Already, Absent, Clear, ClearedFails, Make, Record, StartReaper,
       Launch, RecordNs, Uncover, Ready, OwnerGone, OwnerGoneDone, OwnerGoneSlow, Fails, Undo,
       Undone, UndoneSlow, UpKilled, Goes, Going, Making, TypeOK
  <2>4. CASE Make(u)
    <3>1. box'.of = u /\ up[u] \in Going
      BY <2>4 DEF Make, NoDir, Going
    <3> QED
      BY <2>1, <2>2, <2>3, <3>1, NoneSame
  <2>5. CASE ~Make(u)
    <3>1. box'.of = box.of \/ box' = NoDir
      BY <1>3, <2>5 DEF UpStep, Refused, Wait, Lock, Busy, Cancelled, RefusedLocked,
         Already, take_over, Absent, Clear, ClearedFails, Record, StartReaper, Launch, RecordNs, Uncover,
         Ready, OwnerGone, OwnerGoneDone, OwnerGoneSlow, Fails, Undo, Undone,
         UndoneSlow, UpKilled, TypeOK, Dirs
    <3>2. \A v \in Up : box'.of = v => box.of = v
      BY <3>1, BoxLifeAssumption DEF NoDir
    <3> QED
      BY <2>1, <2>2, <2>3, <3>2, NoneSame
  <2> QED
    BY <2>4, <2>5
<1> QED
  BY <1>1, <1>2, <1>3

\* ...by a `down` that finds none, as no `up` has the lock then...
LEMMA FindsNone ==
    ASSUME TypeOK, NoneInv, UNCHANGED <<started, start, at, up, box>>, NEW d \in Down,
           ans' = [ans EXCEPT ![d] = "none"],
           box.of = NoBox, \A u \in Up : up[u] \notin LockedUp
    PROVE  NoneMeansNone'
<1>1. \A u \in Up : up[u] \notin {"checked", "absent", "cleared"} \union Making /\ box.of # u
  BY BoxLifeAssumption DEF LockedUp
<1> QED
  BY <1>1 DEF NoneMeansNone

\* ...by the rest of a down_one...
LEMMA DownKeepsNone ==
    ASSUME IInv, Clock, NoneInv, OneDown, NEW x \in Caller, DownStep(x),
           \A d, e \in Down : JailOf[d] = JailOf[e]
    PROVE  NoneInv'
<1>0. TypeOK /\ HoldInv /\ x \in Up \union Down
  BY DEF IInv
<1>1. UNCHANGED <<times, up>> /\ \A v \in Up : box'.of = v => box.of = v
  BY BoxLifeAssumption DEF DownStep, Look, MarkUnlocked, LookAgain, DownWait, TakeLock,
     DownBusy, FoundNone, Spared, kill_box, rm_box, KillSlow, Unlink, NoDir
<1>2. CASE x \in Up
  <2>1. x \notin Down
    BY <1>2, BoxLifeAssumption
  <2>2. UNCHANGED <<mark, ans>>
    BY <2>1 DEF DownStep, Look, MarkUnlocked, LookAgain, DownWait, TakeLock,
       DownBusy, FoundNone, Spared, kill_box, rm_box, KillSlow, Unlink, down_mark, Answer
  <2>3. \A d \in Down : dn'[d] = dn[d]
    BY <1>0, <2>1, BoxLifeAssumption DEF DownStep, Look, MarkUnlocked, LookAgain,
       DownWait, TakeLock, DownBusy, FoundNone, Spared, kill_box, rm_box, KillSlow,
       Unlink, Steps, kill_reapers, TypeOK
  <2> QED
    BY <1>0, <1>1, <2>2, <2>3, NoneSame
<1>3. CASE x \in Down /\ MarkUnlocked(x)
  <2>1. /\ dn[x] = "mark" /\ dn' = [dn EXCEPT ![x] = "look2"]
        /\ down_mark(x) /\ UNCHANGED <<times, ans, up, box>>
    BY <1>3 DEF MarkUnlocked, Steps
  <2>2. MarkOfDown' /\ \A d \in Down : d = x \/ ans[d] = "none" \/ dn[d] = "look2"
                                            => Marked(d)'
    BY <1>0, <1>3, <2>1, MarksForAll
  <2>3. MarkKept'
    BY <1>0, <2>1, <2>2 DEF MarkKept, TypeOK
  <2>4. LastIsUnderWay' /\ AnsweredAt'
    BY <1>0, <2>1 DEF NoneInv, LastIsUnderWay, AnsweredAt, TypeOK
  <2>5. NoneMeansNone'
    BY <2>1 DEF NoneInv, NoneMeansNone
  <2> QED
    BY <2>2, <2>3, <2>4, <2>5 DEF NoneInv
<1>4. CASE x \in Down /\ LookAgain(x) /\ ~There
  <2>1. /\ dn[x] = "look2" /\ dn' = [dn EXCEPT ![x] = "end"]
        /\ ans' = [ans EXCEPT ![x] = "none"] /\ UNCHANGED <<mark, times, up, box>>
        /\ box.of = NoBox /\ ~lockfile
    BY <1>4 DEF LookAgain, Steps, Answer, There
  <2>2. \A u \in Up : up[u] \notin LockedUp
    BY <1>0, <2>1, LocksDistinct DEF HoldInv, LockHasFile, UpHolds
  <2>3. NoneMeansNone'
    BY <1>0, <1>4, <2>1, <2>2, FindsNone
  <2>4. Marked(x)
    BY <1>4, <2>1 DEF NoneInv, MarkKept
  <2>5. MarkKept'
    BY <1>0, <2>1, <2>4 DEF NoneInv, MarkKept, Marked, TypeOK
  <2>6. LastIsUnderWay' /\ AnsweredAt' /\ MarkOfDown'
    BY <1>0, <2>1 DEF NoneInv, LastIsUnderWay, AnsweredAt, MarkOfDown, TypeOK
  <2> QED
    BY <2>3, <2>5, <2>6 DEF NoneInv
<1>5. CASE x \in Down /\ FoundNone(x)
  <2>1. /\ dn[x] = "locked" /\ dn' = [dn EXCEPT ![x] = "unlink"] /\ box.of = NoBox
        /\ ans' = [ans EXCEPT ![x] = "none"] /\ UNCHANGED <<times, up, box>>
        /\ down_mark(x)
    BY <1>5 DEF FoundNone, Steps, Answer
  <2>2. \A u \in Up : up[u] \notin LockedUp
    BY <1>0, <2>1, DownAlone DEF HasIt
  <2>3. NoneMeansNone'
    BY <1>0, <1>5, <2>1, <2>2, FindsNone
  <2>4. MarkOfDown' /\ \A d \in Down : d = x \/ ans[d] = "none" \/ dn[d] = "look2"
                                            => Marked(d)'
    BY <1>0, <1>5, <2>1, MarksForAll
  <2>5. MarkKept'
    BY <1>0, <2>1, <2>4 DEF MarkKept, TypeOK
  <2>6. LastIsUnderWay' /\ AnsweredAt'
    BY <1>0, <2>1 DEF NoneInv, LastIsUnderWay, AnsweredAt, TypeOK
  <2> QED
    BY <2>3, <2>4, <2>5, <2>6 DEF NoneInv
<1>6. CASE x \in Down /\ ~MarkUnlocked(x) /\ ~FoundNone(x) /\ ~(LookAgain(x) /\ ~There)
  <2>1. UNCHANGED mark /\ \A d \in Down : ans'[d] = "none" => ans[d] = "none"
    BY <1>0, <1>6 DEF DownStep, Look, LookAgain, DownWait, TakeLock, DownBusy, Spared,
       kill_box, rm_box, KillSlow, Unlink, Answer, TypeOK
  <2>2. \A d \in Down \ {x} : dn'[d] = dn[d]
    BY <1>0, <1>6, BoxLifeAssumption DEF DownStep, Look, LookAgain, DownWait, TakeLock,
       DownBusy, Spared, kill_box, rm_box, KillSlow, Unlink, Steps, kill_reapers, TypeOK
  <2>3. /\ dn[x] \notin {"idle", "end"} /\ dn'[x] # "look2"
        /\ dn[x] = "unlink" => dn'[x] = "end"
    BY <1>0, <1>6, BoxLifeAssumption DEF DownStep, Look, LookAgain, DownWait, TakeLock,
       DownBusy, Spared, kill_box, rm_box, KillSlow, Unlink, Steps, kill_reapers, TypeOK
  <2> QED
    BY <1>0, <1>1, <2>1, <2>2, <2>3, NoneSame
<1> QED
  BY <1>0, <1>2, <1>3, <1>4, <1>5, <1>6

\* ...by a `down` command that starts, alone, or is killed...
LEMMA DownCommandKeepsNone ==
    ASSUME TypeOK, Clock, NoneInv, OneDown', NEW d \in Down, DownStart(d) \/ DownKilled(d)
    PROVE  NoneInv'
<1>1. CASE DownStart(d)
  <2>1. /\ start' = [start EXCEPT ![d] = started + 1] /\ started' = started + 1
        /\ at' = [at EXCEPT ![d] = tick] /\ UNCHANGED <<mark, ans, up, box>>
        /\ dn' = [dn EXCEPT ![d] = "look"] /\ dn[d] = "idle"
    BY <1>1 DEF DownStart, Begins, Steps
  <2>2. started \in Nat /\ start \in [Caller -> Nat]
    BY DEF TypeOK
  <2>3. \A e \in Down \ {d} : dn[e] \in {"idle", "end"}
    BY <2>1 DEF OneDown, TypeOK
  <2>4. LastIsUnderWay'
    BY <2>1, <2>2, <2>3 DEF LastIsUnderWay, Clock, TypeOK
  <2>5. AnsweredAt' /\ MarkOfDown' /\ ans[d] # "none"
    BY <2>1 DEF NoneInv, AnsweredAt, MarkOfDown, TypeOK
  <2>6. ASSUME NEW e \in Down \ {d}, Marked(e)
        PROVE  Marked(e)'
    <3>1. PICK n \in start[e] .. started : mark.last = Pid(n)
      BY <2>6 DEF Marked
    <3>2. n \in start'[e] .. started'
      BY <2>1, <2>2, <3>1
    <3> QED
      BY <2>1, <2>6, <3>1, <3>2 DEF Marked, TypeOK
  <2>7. MarkKept'
    BY <2>1, <2>5, <2>6 DEF NoneInv, MarkKept, TypeOK
  <2>8. \A u \in Up : start'[u] = start[u]
    BY <2>1, BoxLifeAssumption DEF TypeOK
  <2>9. NoneMeansNone'
    BY <2>1, <2>2, <2>5, <2>8 DEF NoneInv, NoneMeansNone
  <2> QED
    BY <2>4, <2>5, <2>7, <2>9 DEF NoneInv
<1>2. CASE DownKilled(d)
  <2>1. UNCHANGED <<mark, times, ans, up>> /\ box'.of = box.of
    BY <1>2 DEF DownKilled, TypeOK, Dirs
  <2>2. \A e \in Down : dn'[e] = IF e = d THEN "end" ELSE dn[e]
    BY <1>2, BoxLifeAssumption DEF DownKilled, kill_reapers, Steps, TypeOK
  <2>3. dn[d] # "idle"
    BY <1>2 DEF DownKilled
  <2> QED
    BY <2>1, <2>2, <2>3, NoneSame
<1> QED
  BY <1>1, <1>2

\* ...and by everything else.
LEMMA StepNone ==
    ASSUME IInv, Clock, NoneInv, OneDown, OneDown', [Next]_vars,
           \A d, e \in Down : JailOf[d] = JailOf[e]
    PROVE  NoneInv'
<1>0. TypeOK
  BY DEF IInv
<1>1. ASSUME UNCHANGED <<mark, started, start, at, ans, up>>, box'.of = box.of,
             \A d \in Down : dn'[d] = dn[d]
      PROVE  NoneInv'
  BY <1>0, <1>1, NoneSame
<1>2. ASSUME NEW u \in Up, ReapStep(u)
      PROVE  NoneInv'
  <2>1. CASE DownStep(u)
    BY <2>1, DownKeepsNone
  <2>2. CASE ~DownStep(u)
    <3>1. UNCHANGED <<mark, times, ans, up>> /\ box'.of = box.of
      BY <1>0, <1>2, <2>2 DEF ReapStep, Watch, Poll, InUse, AgentGone, IdleOver, Retry,
         TypeOK, Dirs
    <3>2. \A d \in Down : dn'[d] = dn[d]
      BY <1>0, <1>2, <2>2, BoxLifeAssumption DEF ReapStep, Watch, Poll, InUse, AgentGone,
         IdleOver, Retry, ReapEnds, ReapDown, Steps, TypeOK
    <3> QED
      BY <1>1, <3>1, <3>2
  <2> QED
    BY <2>1, <2>2
<1>3. ASSUME NEW t \in Cmd, CmdStep(t)
      PROVE  NoneInv'
  <2>1. UNCHANGED <<mark, times, ans, up, dn>> /\ box'.of = box.of
    BY <1>0, <1>3 DEF CmdStep, NeedBox, CmdLocks, TakesOver, take_over, TypeOK, Dirs
  <2> QED
    BY <1>1, <2>1
<1>4. CASE Env
  <2>1. CASE \E q \in late : OrphanRm(q)
    <3>1. UNCHANGED <<mark, started, start, at, ans, up, dn>>
      BY <2>1 DEF OrphanRm
    <3>2. \A v \in Up : box'.of = v => box.of = v
      <4>1. box \in Dirs
        BY <1>0 DEF TypeOK
      <4>2. CASE box' = NoDir
        BY <4>2, BoxLifeAssumption DEF NoDir
      <4>3. CASE box' = [box EXCEPT !.json = FALSE, !.agent = NoAgent]
        BY <4>1, <4>3 DEF Dirs
      <4> QED
        BY <2>1, <4>2, <4>3 DEF OrphanRm
    <3> QED
      BY <1>0, <3>1, <3>2, NoneSame
  <2>2. CASE ~\E q \in late : OrphanRm(q)
    <3>1. UNCHANGED <<mark, started, start, at, ans, up, dn>> /\ box'.of = box.of
      BY <1>0, <1>4, <2>2 DEF Env, Shows, LaunchFails, BoxDies, Exits, Peeks, Ends,
         TimePasses, Ticks, EnvUnchanged, ProcsUnchanged, TypeOK, Dirs
    <3> QED
      BY <1>1, <3>1
  <2> QED
    BY <2>1, <2>2
<1>5. CASE UNCHANGED vars
  BY <1>1, <1>5 DEF vars
<1> QED
  BY <1>0, <1>2, <1>3, <1>4, <1>5, UpKeepsNone, DownKeepsNone, DownCommandKeepsNone
     DEF Next

\* Nothing is promised as the program starts.
LEMMA InitNone == Init => NoneInv
<1> SUFFICES ASSUME Init PROVE NoneInv
  OBVIOUS
<1>1. \A d \in Down : ans[d] # "none" /\ dn[d] = "idle"
  BY DEF Init
<1>2. mark.at = 0
  BY DEF Init
<1> QED
  BY <1>1, <1>2 DEF NoneInv, LastIsUnderWay, AnsweredAt, MarkOfDown, MarkKept,
     NoneMeansNone

\* "no box" means no box (down.rs, down_mark; up_box.rs, made): as long as one `down`
\* of the name is under way at a time, all of one caller, an `up` started before a
\* `down` that found none makes none.
THEOREM NoneIsNone ==
    ASSUME \A d, e \in Down : JailOf[d] = JailOf[e]
    PROVE  Spec /\ []OneDown => []NoneMeansNone
<1>1. NoneInv => NoneMeansNone
  BY DEF NoneInv
<1>2. Init => Clock /\ NoneInv
  BY InitClock, InitNone
<1>3. IInv /\ Clock /\ NoneInv /\ OneDown /\ OneDown' /\ [Next]_vars => Clock' /\ NoneInv'
  BY StepClock, StepNone DEF IInv
<1> QED
  BY <1>1, <1>2, <1>3, Invariance, PTL DEF Spec

\* ...whatever the jails and the ups, when there is but one `down`.
THEOREM OneDownsNone ==
    ASSUME \A d, e \in Down : d = e
    PROVE  Spec => []NoneMeansNone
<1>1. OneDown
  BY DEF OneDown
<1>2. \A d, e \in Down : JailOf[d] = JailOf[e]
  OBVIOUS
<1>3. Spec => []OneDown
  BY <1>1, PTL
<1> QED
  BY <1>2, <1>3, NoneIsNone, PTL

-----------------------------------------------------------------------------
(* The lock, as its users use it *)

Users == {UpLock(u) : u \in Up} \union {DownLock(x) : x \in Caller}
             \union {CmdLock(t) : t \in Cmd}
TheLock == INSTANCE NameLock WITH Proc <- Users, owner <- lock

\* What a process's own step does to the lock: takes it when nobody has it, gives back
\* what it has, or leaves it.
Uses(p) == TheLock!Acquire(p) \/ TheLock!Release(p) \/ UNCHANGED lock

\* An `up` takes and gives back the lock in its own name...
LEMMA UpUses ==
    ASSUME HoldInv, NEW u \in Up, Start(u) \/ UpStep(u) \/ UpKilled(u)
    PROVE  Uses(UpLock(u))
<1>1. up[u] \in LockedUp => lock = UpLock(u)
  BY DEF HoldInv, UpHolds
<1>2. CASE UNCHANGED lock
  BY <1>2 DEF Uses
<1>3. CASE Lock(u)
  BY <1>3 DEF Lock, Uses, TheLock!Acquire
<1>4. CASE UpKilled(u)
  BY <1>4 DEF UpKilled, Uses, TheLock!Release
<1>5. CASE Cancelled(u) \/ RefusedLocked(u) \/ Already(u) \/ ClearedFails(u) \/ Ready(u)
           \/ OwnerGoneDone(u) \/ OwnerGoneSlow(u) \/ Undone(u) \/ UndoneSlow(u)
  <2>1. up[u] \in LockedUp /\ lock' = NoProc
    BY <1>5 DEF Cancelled, RefusedLocked, Already, ClearedFails, Ready, OwnerGoneDone, OwnerGoneSlow,
       Undone, UndoneSlow, Unlocked, LockedUp, Making, Ending
  <2> QED
    BY <1>1, <2>1 DEF Uses, TheLock!Release
<1> QED
  BY <1>2, <1>3, <1>4, <1>5 DEF UpStep, Start, Refused, Wait, Busy, Goahead, Absent,
     Clear, Make, Record, StartReaper, Launch, RecordNs, Uncover, OwnerGone, Fails, Undo

\* ...as does a down_one...
LEMMA DownUses ==
    ASSUME HoldInv, NEW x \in Caller, DownStep(x)
    PROVE  Uses(DownLock(x))
<1>1. dn[x] \in HasIt => lock = DownLock(x)
  BY DEF HoldInv, DownHolds
<1>2. CASE UNCHANGED lock
  BY <1>2 DEF Uses
<1>3. CASE TakeLock(x)
  BY <1>3 DEF TakeLock, Uses, TheLock!Acquire
<1>4. CASE Spared(x) \/ KillSlow(x) \/ Unlink(x)
  <2>1. dn[x] \in HasIt /\ lock' = NoProc
    BY <1>4 DEF Spared, KillSlow, Unlink, Unlocked, HasIt
  <2> QED
    BY <1>1, <2>1 DEF Uses, TheLock!Release
<1> QED
  BY <1>2, <1>3, <1>4 DEF DownStep, Look, MarkUnlocked, LookAgain, DownWait, DownBusy,
     FoundNone, kill_box, rm_box

\* ...and a session command.
LEMMA CmdUses ==
    ASSUME HoldInv, NEW t \in Cmd, CmdStep(t)
    PROVE  Uses(CmdLock(t))
<1>1. cmd[t] = "locked" => lock = CmdLock(t)
  BY DEF HoldInv, CmdHolds
<1> QED
  BY <1>1 DEF CmdStep, NeedBox, CmdLocks, TakesOver, Unlocked, Uses, TheLock!Acquire,
     TheLock!Release

\* Every step is one of the plain lock's, or none to it.
LEMMA StepUses ==
    ASSUME HoldInv, [Next]_vars
    PROVE  [TheLock!Next]_lock
<1>1. ASSUME NEW p \in Users, Uses(p)
      PROVE  [TheLock!Next]_lock
  BY <1>1 DEF Uses, TheLock!Next
<1>2. ASSUME UNCHANGED lock
      PROVE  [TheLock!Next]_lock
  BY <1>2
<1>3. ASSUME NEW u \in Up, Start(u) \/ UpStep(u) \/ UpKilled(u)
      PROVE  [TheLock!Next]_lock
  BY <1>1, <1>3, UpUses DEF Users
<1>4. ASSUME NEW x \in Caller, DownStep(x)
      PROVE  [TheLock!Next]_lock
  BY <1>1, <1>4, DownUses DEF Users
<1>5. ASSUME NEW u \in Up, ReapStep(u)
      PROVE  [TheLock!Next]_lock
  BY <1>2, <1>4, <1>5 DEF ReapStep, Watch, Poll, InUse, AgentGone, IdleOver, Retry
<1>6. ASSUME NEW d \in Down, DownKilled(d)
      PROVE  [TheLock!Next]_lock
  <2>1. Uses(DownLock(d))
    BY <1>6 DEF DownKilled, Uses, TheLock!Release
  <2> QED
    BY <1>1, <2>1 DEF Users
<1>7. ASSUME NEW d \in Down, DownStart(d)
      PROVE  [TheLock!Next]_lock
  BY <1>2, <1>7 DEF DownStart
<1>8. ASSUME NEW t \in Cmd, CmdStep(t)
      PROVE  [TheLock!Next]_lock
  BY <1>1, <1>8, CmdUses DEF Users
<1>9. CASE Env \/ UNCHANGED vars
  BY <1>2, <1>9 DEF Env, Shows, LaunchFails, BoxDies, Exits, Peeks, Ends, TimePasses,
     Ticks, OrphanRm, EnvUnchanged, ProcsUnchanged, vars
<1> QED
  BY <1>3, <1>4, <1>5, <1>6, <1>7, <1>8, <1>9 DEF Next

\* The ups, downs, reapers and session commands of a name do to its lock what NameLock
\* says, SIGKILLed with it or not: what LockFile is shown to implement is all they need.
THEOREM UsesNameLock == Spec => TheLock!Spec
<1>1. Init => TheLock!Init
  BY DEF Init, TheLock!Init
<1>2. IInv /\ [Next]_vars => [TheLock!Next]_lock
  BY StepUses DEF IInv
<1> QED
  BY <1>1, <1>2, Invariance, PTL DEF Spec, TheLock!Spec
=============================================================================
