-------------------------------- MODULE Jobs --------------------------------
(***************************************************************************)
(* run -d jobs (jobs.rs, cmd/run.rs, share/run-job.sh).  A job's waiter    *)
(* writes its end to a file; the box's next command says an early failing  *)
(* end (job_note), unless run -d said it or jobs stop / --replace stopped  *)
(* it (job_stop).  $D/jobs-noted has what was dealt with; $D/jobs has the  *)
(* records of jobs that may run.  Nothing locks them.                      *)
(***************************************************************************)
EXTENDS Naturals

CONSTANTS
    Jobs,       \* the jobs, each with its run -d
    Notes,      \* the commands that say what ended
    Stops,      \* jobs stop, and run -d --replace
    StopOf,     \* the job each stops
    NoJob,      \* no job
    JobRounds   \* bound: the jobs and commands of a behaviour

ASSUME JobsAssumption ==
    /\ StopOf \in [Stops -> Jobs]
    /\ NoJob \notin Jobs
    /\ Jobs \cap Notes = {} /\ (Jobs \cup Notes) \cap Stops = {}
    /\ JobRounds \subseteq SUBSET (Jobs \cup Notes \cup Stops)

VARIABLES
    jleader,    \* each job's command: none yet, runs, the status it ended with
    jleft,      \* the jobs with other processes of their session running
    jexit,      \* the status file: none, empty, ok, fail
    jlate,      \* the jobs that ended later than JOB_EARLY_MS
    jrec,       \* the record: none, live ($D/jobs), done ($D/jobs-done)
    jnoted,     \* $D/jobs-noted
    jrun,       \* each run -d: idle, launched, watch, ended, over
    npc,        \* each note: idle, read, file, say, over
    nfresh,     \* the status files it goes through
    ncur,       \* the one it says
    tpc,        \* each stop: idle, note, term, wait, kill, over
    jterm,      \* the jobs signalled by a stop
    jaimed,     \* history: the jobs a stop has noted
    jstopped,   \* history: the jobs whose command a stop's signal ended
    jtold       \* history: who said a job's end: note, run (its own run -d), left and lost if a note did not

jobsVars == <<jleader, jleft, jexit, jlate, jrec, jnoted, jrun, npc, nfresh, ncur, tpc, jterm,
              jaimed, jstopped, jtold>>
jbox == <<jleader, jleft, jexit, jlate, jterm, jstopped>>
jnote == <<npc, nfresh, ncur>>

JobsInit ==
    /\ jleader = [j \in Jobs |-> "none"]
    /\ jleft = {} /\ jlate = {} /\ jnoted = {} /\ jterm = {} /\ jaimed = {} /\ jstopped = {}
    /\ jexit = [j \in Jobs |-> "none"]
    /\ jrec = [j \in Jobs |-> "none"]
    /\ jrun = [j \in Jobs |-> "idle"]
    /\ npc = [c \in Notes |-> "idle"]
    /\ nfresh = [c \in Notes |-> {}]
    /\ ncur = [c \in Notes |-> NoJob]
    /\ tpc = [s \in Stops |-> "idle"]
    /\ jtold = [j \in Jobs |-> {}]

-----------------------------------------------------------------------------
\* The commands of a behaviour are one of JobRounds'.
InRound(x) ==
    \E r \in JobRounds : {x} \cup {j \in Jobs : jrun[j] # "idle"} \cup {c \in Notes : npc[c] # "idle"}
                         \cup {s \in Stops : tpc[s] # "idle"} \subseteq r

\* job_procs: something of the job's session runs.
JobRuns(j) == jleader[j] = "runs" \/ j \in jleft

\* job_live of a record: a job nothing runs of leaves $D/jobs once its end was dealt with.
JobLive(j) == jrec' = IF jrec[j] = "live" /\ ~JobRuns(j) /\ j \in jnoted
                      THEN [jrec EXCEPT ![j] = "done"] ELSE jrec

\* run-job.sh started the command in a session of its own and said its pid.
JobLaunch(j) ==
    /\ jrun[j] = "idle" /\ InRound(j)
    /\ jrun' = [jrun EXCEPT ![j] = "launched"]
    /\ jleader' = [jleader EXCEPT ![j] = "runs"]
    /\ UNCHANGED <<jleft, jexit, jlate, jrec, jnoted, jnote, tpc, jterm, jaimed, jstopped, jtold>>

\* job_record.
JobRecord(j) ==
    /\ jrun[j] = "launched"
    /\ jrun' = [jrun EXCEPT ![j] = "watch"]
    /\ jrec' = [jrec EXCEPT ![j] = "live"]
    /\ UNCHANGED <<jbox, jnoted, jnote, tpc, jaimed, jtold>>

\* Its first 0.3 s: a status file is there and nothing of the job runs, or the job has started.
JobWatched(j) ==
    /\ jrun[j] = "watch"
    /\ jrun' = [jrun EXCEPT ![j] = IF jexit[j] # "none" /\ ~JobRuns(j) THEN "ended" ELSE "over"]
    /\ IF jexit[j] # "none" THEN JobLive(j) ELSE UNCHANGED jrec
    /\ UNCHANGED <<jbox, jnoted, jnote, tpc, jaimed, jtold>>

\* job_ended: noted and retired, then said by run -d itself, whoever noted it before.
JobEnded(j) ==
    /\ jrun[j] = "ended"
    /\ jnoted' = jnoted \cup {j}
    /\ jrec' = [jrec EXCEPT ![j] = "done"]
    /\ jtold' = [jtold EXCEPT ![j] = @ \cup {"run"}]
    /\ jrun' = [jrun EXCEPT ![j] = "over"]
    /\ UNCHANGED <<jbox, jnote, tpc, jaimed>>

-----------------------------------------------------------------------------
\* The command ends (ok: status 0, or stopped by an omabox run, as RunMarks tells), leaving
\* processes of its session or not.
LeaderEnds(j) ==
    /\ jleader[j] = "runs"
    /\ \E st \in {"ok", "fail"} : jleader' = [jleader EXCEPT ![j] = st]
    /\ jleft' \in {jleft, jleft \cup {j}}
    /\ jstopped' = IF j \in jterm THEN jstopped \cup {j} ELSE jstopped
    /\ UNCHANGED <<jexit, jlate, jrec, jnoted, jrun, jnote, tpc, jterm, jaimed, jtold>>

LeftEnd(j) ==
    /\ j \in jleft /\ jleader[j] # "runs"
    /\ jleft' = jleft \ {j}
    /\ UNCHANGED <<jleader, jexit, jlate, jrec, jnoted, jrun, jnote, tpc, jterm, jaimed, jstopped, jtold>>

\* The waiter's `echo $? >`: the file made, then written.
WaiterMakes(j) ==
    /\ jleader[j] \in {"ok", "fail"} /\ jexit[j] = "none"
    /\ jexit' = [jexit EXCEPT ![j] = "empty"]
    /\ jlate' \in {jlate, jlate \cup {j}}
    /\ UNCHANGED <<jleader, jleft, jrec, jnoted, jrun, jnote, tpc, jterm, jaimed, jstopped, jtold>>

WaiterWrites(j) ==
    /\ jexit[j] = "empty"
    /\ jexit' = [jexit EXCEPT ![j] = jleader[j]]
    /\ UNCHANGED <<jleader, jleft, jlate, jrec, jnoted, jrun, jnote, tpc, jterm, jaimed, jstopped, jtold>>

-----------------------------------------------------------------------------
\* job_note: the status files listed first ...
NoteList(c) ==
    /\ npc[c] = "idle" /\ InRound(c)
    /\ npc' = [npc EXCEPT ![c] = "read"]
    /\ nfresh' = [nfresh EXCEPT ![c] = {j \in Jobs : jexit[j] # "none"}]
    /\ UNCHANGED <<jbox, jrec, jnoted, jrun, ncur, tpc, jaimed, jtold>>

\* ... then what was dealt with read.
NoteRead(c) ==
    /\ npc[c] = "read"
    /\ npc' = [npc EXCEPT ![c] = "file"]
    /\ nfresh' = [nfresh EXCEPT ![c] = @ \ jnoted]
    /\ UNCHANGED <<jbox, jrec, jnoted, jrun, ncur, tpc, jaimed, jtold>>

\* (mutant of NoteFile: noted before the file is known to be written)
NoteFileEarly(c, j) ==
    /\ npc[c] = "file" /\ j \in nfresh[c]
    /\ nfresh' = [nfresh EXCEPT ![c] = @ \ {j}]
    /\ jnoted' = jnoted \cup {j}
    /\ IF j \in jlate \/ jexit[j] \in {"empty", "ok"} THEN UNCHANGED <<npc, ncur>>
       ELSE npc' = [npc EXCEPT ![c] = "say"] /\ ncur' = [ncur EXCEPT ![c] = j]
    /\ UNCHANGED <<jbox, jrec, jrun, tpc, jaimed, jtold>>
\* A file of them: one just made is left for the next command, for 2 s; any other is noted, and
\* said next if its job ended early with a failure or an unknown status.
NoteFile(c, j) ==
    /\ npc[c] = "file" /\ j \in nfresh[c]
    /\ nfresh' = [nfresh EXCEPT ![c] = @ \ {j}]
    /\ \/ /\ jexit[j] = "empty" /\ j \notin jlate
          /\ UNCHANGED <<jnoted, npc, ncur>>
       \/ /\ jnoted' = jnoted \cup {j}
          /\ IF j \in jlate \/ jexit[j] = "ok" THEN UNCHANGED <<npc, ncur>>
             ELSE npc' = [npc EXCEPT ![c] = "say"] /\ ncur' = [ncur EXCEPT ![c] = j]
    /\ UNCHANGED <<jbox, jrec, jrun, tpc, jaimed, jtold>>

\* Said, but for a leader that left its session running: that is no end.
NoteSay(c) ==
    /\ npc[c] = "say"
    /\ LET j == ncur[c] IN
          /\ jtold' = [jtold EXCEPT ![j] =
                         @ \cup {IF jrec[j] = "live" /\ JobRuns(j) THEN "left" ELSE "note"}]
          /\ JobLive(j)
    /\ npc' = [npc EXCEPT ![c] = "file"]
    /\ ncur' = [ncur EXCEPT ![c] = NoJob]
    /\ UNCHANGED <<jbox, jnoted, jrun, nfresh, tpc, jaimed>>

\* Its files done with, or killed: what it was about to say is not said.
NoteOver(c) ==
    /\ \/ npc[c] = "file" /\ nfresh[c] = {} /\ UNCHANGED jtold
       \/ npc[c] = "say" /\ jtold' = [jtold EXCEPT ![ncur[c]] = @ \cup {"lost"}]
    /\ npc' = [npc EXCEPT ![c] = "over"]
    /\ ncur' = [ncur EXCEPT ![c] = NoJob]
    /\ UNCHANGED <<jbox, jrec, jnoted, jrun, nfresh, tpc, jaimed>>

-----------------------------------------------------------------------------
\* A running job is named by its record (jobs_now, job_replace).
StopFinds(s) ==
    /\ tpc[s] = "idle" /\ InRound(s)
    /\ jrec[StopOf[s]] = "live" /\ JobRuns(StopOf[s])
    /\ tpc' = [tpc EXCEPT ![s] = "note"]
    /\ UNCHANGED <<jbox, jrec, jnoted, jrun, jnote, jaimed, jtold>>

\* (mutant of StopNotes: noted once it is gone)
StopNotesLate(s) ==
    /\ \/ tpc[s] = "note" /\ tpc' = [tpc EXCEPT ![s] = "term"] /\ UNCHANGED jnoted
       \/ /\ tpc[s] = "over" /\ StopOf[s] \notin jnoted
          /\ jnoted' = jnoted \cup {StopOf[s]} /\ UNCHANGED tpc
    /\ jaimed' = jaimed \cup {StopOf[s]}
    /\ UNCHANGED <<jbox, jrec, jrun, jnote, jtold>>
\* job_stop: its end is noted first.
StopNotes(s) ==
    /\ tpc[s] = "note"
    /\ tpc' = [tpc EXCEPT ![s] = "term"]
    /\ jnoted' = jnoted \cup {StopOf[s]}
    /\ jaimed' = jaimed \cup {StopOf[s]}
    /\ UNCHANGED <<jbox, jrec, jrun, jnote, jtold>>

\* SIGTERM to its processes, unless Hyprland does not tell the windows (the stop fails).
StopTerms(s) ==
    /\ tpc[s] = "term"
    /\ JobLive(StopOf[s])
    /\ \/ /\ tpc' = [tpc EXCEPT ![s] = "wait"]
          /\ jterm' = IF JobRuns(StopOf[s]) THEN jterm \cup {StopOf[s]} ELSE jterm
       \/ /\ tpc' = [tpc EXCEPT ![s] = "over"]
          /\ UNCHANGED jterm
    /\ UNCHANGED <<jleader, jleft, jexit, jlate, jnoted, jrun, jnote, jaimed, jstopped,
                   jtold>>

\* Nothing of it runs any more.
StopSees(s) ==
    /\ tpc[s] \in {"wait", "kill"} /\ ~JobRuns(StopOf[s])
    /\ tpc' = [tpc EXCEPT ![s] = "over"]
    /\ JobLive(StopOf[s])
    /\ UNCHANGED <<jbox, jnoted, jrun, jnote, jaimed, jtold>>

\* 5 s later SIGKILL to what is left.
StopKills(s) ==
    /\ tpc[s] = "wait" /\ JobRuns(StopOf[s])
    /\ tpc' = [tpc EXCEPT ![s] = "kill"]
    /\ IF jleader[StopOf[s]] = "runs"
       THEN /\ jleader' = [jleader EXCEPT ![StopOf[s]] = "fail"]
            /\ jstopped' = jstopped \cup {StopOf[s]}
       ELSE UNCHANGED <<jleader, jstopped>>
    /\ jleft' = jleft \ {StopOf[s]}
    /\ UNCHANGED <<jexit, jlate, jrec, jnoted, jrun, jnote, jterm, jaimed, jtold>>

JobsNext ==
    \/ \E j \in Jobs : \/ JobLaunch(j) \/ JobRecord(j) \/ JobWatched(j) \/ JobEnded(j)
                       \/ LeaderEnds(j) \/ LeftEnd(j) \/ WaiterMakes(j) \/ WaiterWrites(j)
    \/ \E c \in Notes : NoteList(c) \/ NoteRead(c) \/ NoteSay(c) \/ NoteOver(c)
                        \/ \E j \in Jobs : NoteFile(c, j)
    \/ \E s \in Stops : StopFinds(s) \/ StopNotes(s) \/ StopTerms(s) \/ StopSees(s) \/ StopKills(s)

JobsSpec == JobsInit /\ [][JobsNext]_jobsVars

-----------------------------------------------------------------------------
JobsTypeOK ==
    /\ jleader \in [Jobs -> {"none", "runs", "ok", "fail"}]
    /\ {jleft, jlate, jnoted, jterm, jaimed, jstopped} \subseteq SUBSET Jobs
    /\ jexit \in [Jobs -> {"none", "empty", "ok", "fail"}]
    /\ jrec \in [Jobs -> {"none", "live", "done"}]
    /\ jrun \in [Jobs -> {"idle", "launched", "watch", "ended", "over"}]
    /\ npc \in [Notes -> {"idle", "read", "file", "say", "over"}]
    /\ nfresh \in [Notes -> SUBSET Jobs]
    /\ ncur \in [Notes -> Jobs \cup {NoJob}]
    /\ tpc \in [Stops -> {"idle", "note", "term", "wait", "kill", "over"}]
    /\ jtold \in [Jobs -> SUBSET {"note", "left", "lost", "run"}]

\* A job that ended because a stop signalled it is no news for the box's next commands: none of them
\* says its end, however the stop, the waiter and the commands that look interleave.  Its own run -d,
\* still watching it then, does: job_ended looks at no $D/jobs-noted.
StopUnsaid == \A j \in jstopped : "note" \notin jtold[j]

\* A job's early failing end that was noted, so that no command looks at it again, has been said, is
\* about to be, or was no end; unless a stop had noted it, or the command that was to say it was killed.
EndSaid ==
    \A j \in jnoted \ (jaimed \cup jlate) :
        (jexit[j] = "fail" /\ jtold[j] = {}) => \E c \in Notes : npc[c] = "say" /\ ncur[c] = j
=============================================================================
