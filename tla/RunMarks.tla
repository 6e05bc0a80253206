------------------------------ MODULE RunMarks ------------------------------
(***************************************************************************)
(* The marks of omabox run ($D/runs, jobs.rs): a job that ended while a    *)
(* run was in the box, or just after one, was stopped by the agent         *)
(* (job_run_stopped).  A run's mark is open while it runs, then closed;    *)
(* each run that ends merges the closed marks near its own and drops the   *)
(* old ones, at the same time as other runs do, with no lock.  A command   *)
(* that asks lists the marks, then looks in /proc for the run of each open *)
(* one.                                                                    *)
(***************************************************************************)
EXTENDS Integers

CONSTANTS
    Runs,       \* the omabox runs, numbered as they begin
    Killers,    \* those whose command kills (kill_cmd)
    Grace,      \* JOB_RUN_GRACE_MS, in the clock's steps
    Old,        \* how long before a run a closed mark is dropped by it: 10 s
    ClockEnd,   \* bound: the clock stops there
    Killable    \* bound: the runs that may be SIGKILLed

ASSUME MarksAssumption ==
    /\ Runs \subseteq Nat /\ Killers \subseteq Runs /\ Killable \subseteq Runs
    /\ Grace \in Nat /\ Old \in Nat /\ ClockEnd \in Nat
    /\ Grace < Old

VARIABLES
    mclock,     \* the time
    mpc,        \* each run: idle, runs, rename, remove, over, dead
    mbegun,     \* when it began
    mend,       \* when it ended
    mopen,      \* the runs whose open mark is there
    mclosed,    \* the closed marks
    mown,       \* the closed mark it makes of its own and those it merges
    mmerge,     \* those it merges
    mfound,     \* job_run_stopped of an end: the kinds of runs it found, that kill or do not
    mtodo,      \* the open marks it listed, of runs it is yet to look for in /proc
    mover,      \* history: the runs it is to find, over as it listed the marks
    minside     \* history: those in the box then

mlook == <<mfound, mtodo, mover, minside>>
marksVars == <<mclock, mpc, mbegun, mend, mopen, mclosed, mown, mmerge, mlook>>

Mark(r, a, b) == [kills |-> r \in Killers, from |-> a, to |-> b]
MarkSet == [kills : BOOLEAN, from : 0 .. ClockEnd, to : 0 .. ClockEnd]
NoMark == [kills |-> FALSE, from |-> 0, to |-> 0]

MarksInit ==
    /\ mclock = 0
    /\ mpc = [r \in Runs |-> "idle"]
    /\ mbegun = [r \in Runs |-> 0] /\ mend = [r \in Runs |-> 0]
    /\ mopen = {} /\ mclosed = {}
    /\ mown = [r \in Runs |-> NoMark]
    /\ mmerge = [r \in Runs |-> {}]
    /\ mfound = {} /\ mtodo = {} /\ mover = {} /\ minside = {}

-----------------------------------------------------------------------------
\* The omabox of the run is there.
RunThere(r) == mpc[r] \in {"runs", "rename", "remove"}

\* run_mark_begin.
MarkBegin(r) ==
    /\ mpc[r] = "idle" /\ \A o \in Runs : o < r => mpc[o] # "idle"
    /\ mpc' = [mpc EXCEPT ![r] = "runs"]
    /\ mbegun' = [mbegun EXCEPT ![r] = mclock]
    /\ mopen' = mopen \cup {r}
    /\ UNCHANGED <<mclock, mend, mclosed, mown, mmerge, mlook>>

\* Two marks no further apart than the grace.
Meet(m, n) == m.from <= n.to + Grace /\ n.from <= m.to + Grace

\* The marks a mark takes as it grows, until none is left that meets it: the least set that takes
\* every mark near it or near one it takes.
Closed(S, m, marks) == \A n \in marks : (\E x \in S \cup {m} : Meet(x, n)) => n \in S
Grown(m, marks) == {n \in marks : \A S \in SUBSET marks : Closed(S, m, marks) => n \in S}

Least(S) == CHOOSE x \in S : \A y \in S : x <= y
Most(S) == CHOOSE x \in S : \A y \in S : y <= x

\* (mutant of MarkList: a mark is dropped by when it began)
MarkListOld(r) ==
    /\ mpc[r] = "runs"
    /\ LET old == {m \in mclosed : m.from < mbegun[r] - Old}
           mine == {m \in mclosed \ old : m.kills = (r \in Killers)}
           took == Grown(Mark(r, mbegun[r], mclock), mine)
       IN  /\ mclosed' = mclosed \ old
           /\ mown' = [mown EXCEPT ![r] = Mark(r, Least({mbegun[r]} \cup {m.from : m \in took}),
                                                  Most({mclock} \cup {m.to : m \in took}))]
           /\ mmerge' = [mmerge EXCEPT ![r] = took]
    /\ mopen' = {o \in mopen : RunThere(o)}
    /\ mend' = [mend EXCEPT ![r] = mclock]
    /\ mpc' = [mpc EXCEPT ![r] = "rename"]
    /\ UNCHANGED <<mclock, mbegun, mlook>>
\* run_mark_end: the marks listed; the old ones and those of runs that are gone removed; its own,
\* and those of its kind it meets, made one.
MarkList(r) ==
    /\ mpc[r] = "runs"
    /\ LET old == {m \in mclosed : m.to < mbegun[r] - Old}
           mine == {m \in mclosed \ old : m.kills = (r \in Killers)}
           took == Grown(Mark(r, mbegun[r], mclock), mine)
       IN  /\ mclosed' = mclosed \ old
           /\ mown' = [mown EXCEPT ![r] = Mark(r, Least({mbegun[r]} \cup {m.from : m \in took}),
                                                  Most({mclock} \cup {m.to : m \in took}))]
           /\ mmerge' = [mmerge EXCEPT ![r] = took]
    /\ mopen' = {o \in mopen : RunThere(o)}
    /\ mend' = [mend EXCEPT ![r] = mclock]
    /\ mpc' = [mpc EXCEPT ![r] = "rename"]
    /\ UNCHANGED <<mclock, mbegun, mlook>>

\* Its open mark renamed to that one ...
MarkRename(r) ==
    /\ mpc[r] = "rename"
    /\ mpc' = [mpc EXCEPT ![r] = "remove"]
    /\ mopen' = mopen \ {r}
    /\ mclosed' = mclosed \cup {mown[r]}
    /\ UNCHANGED <<mclock, mbegun, mend, mown, mmerge, mlook>>

\* ... and those it took removed.
MarkRemove(r) ==
    /\ mpc[r] = "remove"
    /\ mpc' = [mpc EXCEPT ![r] = "over"]
    /\ mclosed' = mclosed \ (mmerge[r] \ {mown[r]})
    /\ mmerge' = [mmerge EXCEPT ![r] = {}]
    /\ mown' = [mown EXCEPT ![r] = NoMark]
    /\ UNCHANGED <<mclock, mbegun, mend, mopen, mlook>>

\* SIGKILL: its open mark stays until another run's end.
MarkKilled(r) ==
    /\ RunThere(r) /\ r \in Killable
    /\ mpc' = [mpc EXCEPT ![r] = IF r \in mopen THEN "dead" ELSE "over"]
    /\ mmerge' = [mmerge EXCEPT ![r] = {}]
    /\ mown' = [mown EXCEPT ![r] = NoMark]
    /\ UNCHANGED <<mclock, mbegun, mend, mopen, mclosed, mlook>>

\* job_run_stopped, of a job that ended at t: $D/runs listed, its closed marks telling by their
\* names; no mark near t has been dropped yet ...
LookList(t) ==
    /\ mtodo = {} /\ t >= mclock - (Old - Grace)
    /\ mfound' = {m.kills : m \in {n \in mclosed : n.from <= t /\ t <= n.to + Grace}}
    /\ mtodo' = {r \in mopen : mbegun[r] <= t}
    /\ mover' = {r \in Runs : mpc[r] \in {"remove", "over"}
                                  /\ mbegun[r] <= t /\ t <= mend[r] + Grace}
    /\ minside' = {r \in Runs : mpc[r] \in {"runs", "rename"} /\ mbegun[r] <= t}
    /\ UNCHANGED <<mclock, mpc, mbegun, mend, mopen, mclosed, mown, mmerge>>

\* ... and the run of each open one looked for.
LookUp(r) ==
    /\ r \in mtodo
    /\ mtodo' = mtodo \ {r}
    /\ mfound' = IF RunThere(r) THEN mfound \cup {(r \in Killers)} ELSE mfound
    /\ UNCHANGED <<mclock, mpc, mbegun, mend, mopen, mclosed, mown, mmerge, mover,
                   minside>>

MarksTick ==
    /\ mclock < ClockEnd
    /\ mclock' = mclock + 1
    /\ UNCHANGED <<mpc, mbegun, mend, mopen, mclosed, mown, mmerge, mlook>>

MarksNext ==
    \/ \E r \in Runs : MarkBegin(r) \/ MarkList(r) \/ MarkRename(r) \/ MarkRemove(r) \/ MarkKilled(r)
    \/ \E t \in 0 .. mclock : LookList(t)
    \/ \E r \in Runs : LookUp(r)
    \/ MarksTick

MarksSpec == MarksInit /\ [][MarksNext]_marksVars

-----------------------------------------------------------------------------
MarksTypeOK ==
    /\ mclock \in 0 .. ClockEnd
    /\ mpc \in [Runs -> {"idle", "runs", "rename", "remove", "over", "dead"}]
    /\ {mbegun, mend} \subseteq [Runs -> 0 .. ClockEnd]
    /\ mopen \subseteq Runs
    /\ mfound \subseteq BOOLEAN /\ {mtodo, mover, minside} \subseteq SUBSET Runs
    /\ mclosed \subseteq MarkSet /\ mown \in [Runs -> MarkSet] /\ mmerge \in [Runs -> SUBSET MarkSet]

\* The kinds of the runs of S.
Kinds(S) == {(r \in Killers) : r \in S}

\* Whether a job was stopped by a run, and by one that kills, is told as from the runs there were,
\* however runs that end at once or are killed merge, drop and rename the marks: by no run that there
\* was not, and by every run over as the marks were listed, or still there when it is told.
\* (One that renames its mark once they are listed, and is gone as it is looked for, may be missed.)
MarksSame ==
    /\ mfound \subseteq Kinds(mover \cup minside)
    /\ mtodo = {} => Kinds(mover \cup {r \in minside : RunThere(r)}) \subseteq mfound
=============================================================================
