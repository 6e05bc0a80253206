---------------------------- MODULE Jobs_proofs -----------------------------
(***************************************************************************)
(* What is said of the ends of run -d jobs, for any jobs, commands and     *)
(* stops, and what the marks of omabox run say of them, for any runs.      *)
(*                                                                         *)
(* StopUnsaid rests on a stop noting its job before it signals it          *)
(* (Aimed), on no command having listed the status file of a job that      *)
(* still runs, or said its end (Listed, Unended, Unsaid), hence on none    *)
(* having it left to say once it was stopped (Quiet); EndSaid on who says  *)
(* what it notes, a file made but not written yet included (Spoken).       *)
(***************************************************************************)
EXTENDS Jobs, RunMarks, WellFoundedInduction, TLAPS

USE JobsAssumption

\* A status file is made once its command has ended.
Unended ==
    \A j \in Jobs : /\ jrun[j] = "idle" <=> jleader[j] = "none"
                    /\ jleader[j] \in {"none", "runs"} => jexit[j] = "none"

\* A command goes through status files that are there, and says one of them.
Listed ==
    \A c \in Notes : /\ \A j \in nfresh[c] : jexit[j] # "none"
                     /\ npc[c] = "say" => ncur[c] \in Jobs /\ jexit[ncur[c]] # "none"

\* Nor has one said the end of a job that has none.
Unsaid == \A j \in Jobs : jexit[j] = "none" => "note" \notin jtold[j]

\* A stop has noted the job it is about to signal, or has.
Aimed ==
    /\ jterm \subseteq jnoted
    /\ \A s \in Stops : tpc[s] \in {"term", "wait", "kill"} => StopOf[s] \in jnoted

\* No command past its look at $D/jobs-noted has a stopped job's file left.
Quiet ==
    \A j \in jstopped :
        /\ j \in jnoted
        /\ "note" \notin jtold[j]
        /\ \A c \in Notes : npc[c] \in {"file", "say"} => j \notin nfresh[c]
        /\ \A c \in Notes : npc[c] = "say" => ncur[c] # j

\* EndSaid, of a job whose status is not written yet too.
Spoken ==
    \A j \in jnoted \ (jaimed \cup jlate) :
        (jexit[j] # "ok" /\ jtold[j] = {}) => \E c \in Notes : npc[c] = "say" /\ ncur[c] = j

JobsInv == JobsTypeOK /\ Unended /\ Listed /\ Unsaid /\ Aimed /\ Quiet /\ Spoken

-----------------------------------------------------------------------------
LEMMA InitJobsInv == JobsInit => JobsInv
<1> SUFFICES ASSUME JobsInit PROVE JobsInv  OBVIOUS
<1>1. JobsTypeOK  BY DEF JobsInit, JobsTypeOK
<1>2. Unended /\ Listed /\ Unsaid /\ Aimed /\ Quiet /\ Spoken
  BY DEF JobsInit, Unended, Listed, Unsaid, Aimed, Quiet, Spoken
<1> QED  BY <1>1, <1>2 DEF JobsInv

LEMMA NextJobsInv == JobsInv /\ [JobsNext]_jobsVars => JobsInv'
<1> SUFFICES ASSUME JobsInv, [JobsNext]_jobsVars PROVE JobsInv'  OBVIOUS
<1> USE DEF JobsInv, jbox, jnote
<1>1. ASSUME NEW j \in Jobs, JobLaunch(j) PROVE JobsInv'
  <2>1. JobsTypeOK'  BY <1>1 DEF JobLaunch, JobsTypeOK, Unended, Listed
  <2>2. Unended'  BY <1>1 DEF JobLaunch, JobsTypeOK, Unended
  <2>3. Listed'  BY <1>1 DEF JobLaunch, JobsTypeOK, Listed, Unended
  <2>4. Aimed'  BY <1>1 DEF JobLaunch, JobsTypeOK, Aimed
  <2>5. Quiet'  BY <1>1 DEF JobLaunch, JobsTypeOK, Quiet, Unended, Unsaid, Listed, Aimed
  <2>6. Spoken'  BY <1>1 DEF JobLaunch, JobsTypeOK, Spoken, Listed, Aimed
  <2>7. Unsaid'  BY <1>1 DEF JobLaunch, JobsTypeOK, Unsaid, Unended, Listed
  <2> QED  BY <2>1, <2>2, <2>3, <2>4, <2>5, <2>6, <2>7
<1>2. ASSUME NEW j \in Jobs, JobRecord(j) PROVE JobsInv'
  <2>1. JobsTypeOK'  BY <1>2 DEF JobRecord, JobsTypeOK, Unended, Listed
  <2>2. Unended'  BY <1>2 DEF JobRecord, JobsTypeOK, Unended
  <2>3. Listed'  BY <1>2 DEF JobRecord, JobsTypeOK, Listed, Unended
  <2>4. Aimed'  BY <1>2 DEF JobRecord, JobsTypeOK, Aimed
  <2>5. Quiet'  BY <1>2 DEF JobRecord, JobsTypeOK, Quiet, Unended, Unsaid, Listed, Aimed
  <2>6. Spoken'  BY <1>2 DEF JobRecord, JobsTypeOK, Spoken, Listed, Aimed
  <2>7. Unsaid'  BY <1>2 DEF JobRecord, JobsTypeOK, Unsaid, Unended, Listed
  <2> QED  BY <2>1, <2>2, <2>3, <2>4, <2>5, <2>6, <2>7
<1>3. ASSUME NEW j \in Jobs, JobWatched(j) PROVE JobsInv'
  <2>1. JobsTypeOK'  BY <1>3 DEF JobWatched, JobLive, JobsTypeOK, Unended, Listed
  <2>2. Unended'  BY <1>3 DEF JobWatched, JobsTypeOK, Unended
  <2>3. Listed'  BY <1>3 DEF JobWatched, JobsTypeOK, Listed, Unended
  <2>4. Aimed'  BY <1>3 DEF JobWatched, JobsTypeOK, Aimed
  <2>5. Quiet'  BY <1>3 DEF JobWatched, JobsTypeOK, Quiet, Unended, Unsaid, Listed, Aimed
  <2>6. Spoken'  BY <1>3 DEF JobWatched, JobsTypeOK, Spoken, Listed, Aimed
  <2>7. Unsaid'  BY <1>3 DEF JobWatched, JobsTypeOK, Unsaid, Unended, Listed
  <2> QED  BY <2>1, <2>2, <2>3, <2>4, <2>5, <2>6, <2>7
<1>4. ASSUME NEW j \in Jobs, JobEnded(j) PROVE JobsInv'
  <2>1. JobsTypeOK'  BY <1>4 DEF JobEnded, JobsTypeOK, Unended, Listed
  <2>2. Unended'  BY <1>4 DEF JobEnded, JobsTypeOK, Unended
  <2>3. Listed'  BY <1>4 DEF JobEnded, JobsTypeOK, Listed, Unended
  <2>4. Aimed'  BY <1>4 DEF JobEnded, JobsTypeOK, Aimed
  <2>5. Quiet'  BY <1>4 DEF JobEnded, JobsTypeOK, Quiet, Unended, Unsaid, Listed, Aimed
  <2>6. Spoken'
    <3>1. \A k \in Jobs : jtold'[k] = {} => jtold[k] = {} /\ k # j
      BY <1>4 DEF JobEnded, JobsTypeOK
    <3> QED  BY <1>4, <3>1 DEF JobEnded, JobsTypeOK, Spoken, Listed, Aimed
  <2>7. Unsaid'  BY <1>4 DEF JobEnded, JobsTypeOK, Unsaid, Unended, Listed
  <2> QED  BY <2>1, <2>2, <2>3, <2>4, <2>5, <2>6, <2>7
<1>5. ASSUME NEW j \in Jobs, LeaderEnds(j) PROVE JobsInv'
  <2>1. JobsTypeOK'  BY <1>5 DEF LeaderEnds, JobsTypeOK, Unended, Listed
  <2>2. Unended'  BY <1>5 DEF LeaderEnds, JobsTypeOK, Unended
  <2>3. Listed'  BY <1>5 DEF LeaderEnds, JobsTypeOK, Listed, Unended
  <2>4. Aimed'  BY <1>5 DEF LeaderEnds, JobsTypeOK, Aimed
  <2>5. Quiet'  BY <1>5 DEF LeaderEnds, JobsTypeOK, Quiet, Unended, Unsaid, Listed, Aimed
  <2>6. Spoken'  BY <1>5 DEF LeaderEnds, JobsTypeOK, Spoken, Listed, Aimed
  <2>7. Unsaid'  BY <1>5 DEF LeaderEnds, JobsTypeOK, Unsaid, Unended, Listed
  <2> QED  BY <2>1, <2>2, <2>3, <2>4, <2>5, <2>6, <2>7
<1>6. ASSUME NEW j \in Jobs, LeftEnd(j) PROVE JobsInv'
  <2>1. JobsTypeOK'  BY <1>6 DEF LeftEnd, JobsTypeOK, Unended, Listed
  <2>2. Unended'  BY <1>6 DEF LeftEnd, JobsTypeOK, Unended
  <2>3. Listed'  BY <1>6 DEF LeftEnd, JobsTypeOK, Listed, Unended
  <2>4. Aimed'  BY <1>6 DEF LeftEnd, JobsTypeOK, Aimed
  <2>5. Quiet'  BY <1>6 DEF LeftEnd, JobsTypeOK, Quiet, Unended, Unsaid, Listed, Aimed
  <2>6. Spoken'  BY <1>6 DEF LeftEnd, JobsTypeOK, Spoken, Listed, Aimed
  <2>7. Unsaid'  BY <1>6 DEF LeftEnd, JobsTypeOK, Unsaid, Unended, Listed
  <2> QED  BY <2>1, <2>2, <2>3, <2>4, <2>5, <2>6, <2>7
<1>7. ASSUME NEW j \in Jobs, WaiterMakes(j) PROVE JobsInv'
  <2>1. JobsTypeOK'  BY <1>7 DEF WaiterMakes, JobsTypeOK, Unended, Listed
  <2>2. Unended'  BY <1>7 DEF WaiterMakes, JobsTypeOK, Unended
  <2>3. Listed'  BY <1>7 DEF WaiterMakes, JobsTypeOK, Listed, Unended
  <2>4. Aimed'  BY <1>7 DEF WaiterMakes, JobsTypeOK, Aimed
  <2>5. Quiet'  BY <1>7 DEF WaiterMakes, JobsTypeOK, Quiet, Unended, Unsaid, Listed, Aimed
  <2>6. Spoken'  BY <1>7 DEF WaiterMakes, JobsTypeOK, Spoken, Listed, Aimed
  <2>7. Unsaid'  BY <1>7 DEF WaiterMakes, JobsTypeOK, Unsaid, Unended, Listed
  <2> QED  BY <2>1, <2>2, <2>3, <2>4, <2>5, <2>6, <2>7
<1>8. ASSUME NEW j \in Jobs, WaiterWrites(j) PROVE JobsInv'
  <2>1. JobsTypeOK'  BY <1>8 DEF WaiterWrites, JobsTypeOK, Unended, Listed
  <2>2. Unended'  BY <1>8 DEF WaiterWrites, JobsTypeOK, Unended
  <2>3. Listed'  BY <1>8 DEF WaiterWrites, JobsTypeOK, Listed, Unended
  <2>4. Aimed'  BY <1>8 DEF WaiterWrites, JobsTypeOK, Aimed
  <2>5. Quiet'  BY <1>8 DEF WaiterWrites, JobsTypeOK, Quiet, Unended, Unsaid, Listed, Aimed
  <2>6. Spoken'  BY <1>8 DEF WaiterWrites, JobsTypeOK, Spoken, Listed, Aimed
  <2>7. Unsaid'  BY <1>8 DEF WaiterWrites, JobsTypeOK, Unsaid, Unended, Listed
  <2> QED  BY <2>1, <2>2, <2>3, <2>4, <2>5, <2>6, <2>7
<1>9. ASSUME NEW c \in Notes, NoteList(c) PROVE JobsInv'
  <2>1. JobsTypeOK'  BY <1>9 DEF NoteList, JobsTypeOK, Unended, Listed
  <2>2. Unended'  BY <1>9 DEF NoteList, JobsTypeOK, Unended
  <2>3. Listed'  BY <1>9 DEF NoteList, JobsTypeOK, Listed, Unended
  <2>4. Aimed'  BY <1>9 DEF NoteList, JobsTypeOK, Aimed
  <2>5. Quiet'  BY <1>9 DEF NoteList, JobsTypeOK, Quiet, Unended, Unsaid, Listed, Aimed
  <2>6. Spoken'  BY <1>9 DEF NoteList, JobsTypeOK, Spoken, Listed, Aimed
  <2>7. Unsaid'  BY <1>9 DEF NoteList, JobsTypeOK, Unsaid, Unended, Listed
  <2> QED  BY <2>1, <2>2, <2>3, <2>4, <2>5, <2>6, <2>7
<1>10. ASSUME NEW c \in Notes, NoteRead(c) PROVE JobsInv'
  <2>1. JobsTypeOK'  BY <1>10 DEF NoteRead, JobsTypeOK, Unended, Listed
  <2>2. Unended'  BY <1>10 DEF NoteRead, JobsTypeOK, Unended
  <2>3. Listed'  BY <1>10 DEF NoteRead, JobsTypeOK, Listed, Unended
  <2>4. Aimed'  BY <1>10 DEF NoteRead, JobsTypeOK, Aimed
  <2>5. Quiet'  BY <1>10 DEF NoteRead, JobsTypeOK, Quiet, Unended, Unsaid, Listed, Aimed
  <2>6. Spoken'  BY <1>10 DEF NoteRead, JobsTypeOK, Spoken, Listed, Aimed
  <2>7. Unsaid'  BY <1>10 DEF NoteRead, JobsTypeOK, Unsaid, Unended, Listed
  <2> QED  BY <2>1, <2>2, <2>3, <2>4, <2>5, <2>6, <2>7
<1>11. ASSUME NEW c \in Notes, NoteSay(c) PROVE JobsInv'
  <2>1. JobsTypeOK'  BY <1>11 DEF NoteSay, JobLive, JobsTypeOK, Unended, Listed
  <2>2. Unended'  BY <1>11 DEF NoteSay, JobsTypeOK, Unended
  <2>3. Listed'  BY <1>11 DEF NoteSay, JobsTypeOK, Listed, Unended
  <2>4. Aimed'  BY <1>11 DEF NoteSay, JobsTypeOK, Aimed
  <2>5. Quiet'  BY <1>11 DEF NoteSay, JobsTypeOK, Quiet, Unended, Unsaid, Listed, Aimed
  <2>6. Spoken'
    <3>1. \A k \in Jobs : jtold'[k] = {} => jtold[k] = {} /\ k # ncur[c]
      BY <1>11 DEF NoteSay, JobsTypeOK
    <3> QED  BY <1>11, <3>1 DEF NoteSay, JobsTypeOK, Spoken, Listed, Aimed
  <2>7. Unsaid'  BY <1>11 DEF NoteSay, JobsTypeOK, Unsaid, Unended, Listed
  <2> QED  BY <2>1, <2>2, <2>3, <2>4, <2>5, <2>6, <2>7
<1>12. ASSUME NEW c \in Notes, NoteOver(c) PROVE JobsInv'
  <2>1. JobsTypeOK'  BY <1>12 DEF NoteOver, JobsTypeOK, Unended, Listed
  <2>2. Unended'  BY <1>12 DEF NoteOver, JobsTypeOK, Unended
  <2>3. Listed'  BY <1>12 DEF NoteOver, JobsTypeOK, Listed, Unended
  <2>4. Aimed'  BY <1>12 DEF NoteOver, JobsTypeOK, Aimed
  <2>5. Quiet'  BY <1>12 DEF NoteOver, JobsTypeOK, Quiet, Unended, Unsaid, Listed, Aimed
  <2>6. Spoken'
    <3>1. \A k \in Jobs : jtold'[k] = {} => jtold[k] = {} /\ ~(npc[c] = "say" /\ k = ncur[c])
      <4>1. CASE npc[c] = "say"
        <5>1. jtold' = [jtold EXCEPT ![ncur[c]] = @ \cup {"lost"}]  BY <1>12, <4>1 DEF NoteOver
        <5> QED  BY <5>1 DEF JobsTypeOK
      <4>2. CASE npc[c] # "say"
        <5>1. jtold' = jtold  BY <1>12, <4>2 DEF NoteOver
        <5> QED  BY <4>2, <5>1
      <4> QED  BY <4>1, <4>2
    <3>2. /\ jnoted' = jnoted /\ jaimed' = jaimed /\ jlate' = jlate /\ jexit' = jexit
          /\ npc' = [npc EXCEPT ![c] = "over"] /\ ncur' = [ncur EXCEPT ![c] = NoJob]
      BY <1>12 DEF NoteOver
    <3> SUFFICES ASSUME NEW j \in jnoted \ (jaimed \cup jlate), jexit[j] # "ok", jtold'[j] = {}
                 PROVE  \E d \in Notes : npc'[d] = "say" /\ ncur'[d] = j
      BY <3>2 DEF Spoken
    <3>3. j \in Jobs  BY DEF JobsTypeOK
    <3>4. jtold[j] = {} /\ ~(npc[c] = "say" /\ j = ncur[c])  BY <3>1, <3>3
    <3>5. PICK d \in Notes : npc[d] = "say" /\ ncur[d] = j  BY <3>4 DEF Spoken
    <3>6. d # c  BY <3>4, <3>5
    <3> QED  BY <3>2, <3>5, <3>6 DEF JobsTypeOK
  <2>7. Unsaid'  BY <1>12 DEF NoteOver, JobsTypeOK, Unsaid, Unended, Listed
  <2> QED  BY <2>1, <2>2, <2>3, <2>4, <2>5, <2>6, <2>7
<1>13. ASSUME NEW c \in Notes, NEW j \in Jobs, NoteFile(c, j) PROVE JobsInv'
  <2>1. JobsTypeOK'  BY <1>13 DEF NoteFile, JobsTypeOK, Unended, Listed
  <2>2. Unended'  BY <1>13 DEF NoteFile, JobsTypeOK, Unended
  <2>3. Listed'  BY <1>13 DEF NoteFile, JobsTypeOK, Listed, Unended
  <2>4. Aimed'  BY <1>13 DEF NoteFile, JobsTypeOK, Aimed
  <2>5. Quiet'  BY <1>13 DEF NoteFile, JobsTypeOK, Quiet, Unended, Unsaid, Listed, Aimed
  <2>6. Spoken'  BY <1>13 DEF NoteFile, JobsTypeOK, Spoken, Listed, Aimed
  <2>7. Unsaid'  BY <1>13 DEF NoteFile, JobsTypeOK, Unsaid, Unended, Listed
  <2> QED  BY <2>1, <2>2, <2>3, <2>4, <2>5, <2>6, <2>7
<1>14. ASSUME NEW s \in Stops, StopFinds(s) PROVE JobsInv'
  <2>1. JobsTypeOK'  BY <1>14 DEF StopFinds, JobsTypeOK, Unended, Listed
  <2>2. Unended'  BY <1>14 DEF StopFinds, JobsTypeOK, Unended
  <2>3. Listed'  BY <1>14 DEF StopFinds, JobsTypeOK, Listed, Unended
  <2>4. Aimed'  BY <1>14 DEF StopFinds, JobsTypeOK, Aimed
  <2>5. Quiet'  BY <1>14 DEF StopFinds, JobsTypeOK, Quiet, Unended, Unsaid, Listed, Aimed
  <2>6. Spoken'  BY <1>14 DEF StopFinds, JobsTypeOK, Spoken, Listed, Aimed
  <2>7. Unsaid'  BY <1>14 DEF StopFinds, JobsTypeOK, Unsaid, Unended, Listed
  <2> QED  BY <2>1, <2>2, <2>3, <2>4, <2>5, <2>6, <2>7
<1>15. ASSUME NEW s \in Stops, StopNotes(s) PROVE JobsInv'
  <2>1. JobsTypeOK'  BY <1>15 DEF StopNotes, JobsTypeOK, Unended, Listed
  <2>2. Unended'  BY <1>15 DEF StopNotes, JobsTypeOK, Unended
  <2>3. Listed'  BY <1>15 DEF StopNotes, JobsTypeOK, Listed, Unended
  <2>4. Aimed'  BY <1>15 DEF StopNotes, JobsTypeOK, Aimed
  <2>5. Quiet'  BY <1>15 DEF StopNotes, JobsTypeOK, Quiet, Unended, Unsaid, Listed, Aimed
  <2>6. Spoken'  BY <1>15 DEF StopNotes, JobsTypeOK, Spoken, Listed, Aimed
  <2>7. Unsaid'  BY <1>15 DEF StopNotes, JobsTypeOK, Unsaid, Unended, Listed
  <2> QED  BY <2>1, <2>2, <2>3, <2>4, <2>5, <2>6, <2>7
<1>16. ASSUME NEW s \in Stops, StopTerms(s) PROVE JobsInv'
  <2>1. JobsTypeOK'  BY <1>16 DEF StopTerms, JobLive, JobsTypeOK, Unended, Listed
  <2>2. Unended'  BY <1>16 DEF StopTerms, JobsTypeOK, Unended
  <2>3. Listed'  BY <1>16 DEF StopTerms, JobsTypeOK, Listed, Unended
  <2>4. Aimed'  BY <1>16 DEF StopTerms, JobsTypeOK, Aimed
  <2>5. Quiet'  BY <1>16 DEF StopTerms, JobsTypeOK, Quiet, Unended, Unsaid, Listed, Aimed
  <2>6. Spoken'  BY <1>16 DEF StopTerms, JobsTypeOK, Spoken, Listed, Aimed
  <2>7. Unsaid'  BY <1>16 DEF StopTerms, JobsTypeOK, Unsaid, Unended, Listed
  <2> QED  BY <2>1, <2>2, <2>3, <2>4, <2>5, <2>6, <2>7
<1>17. ASSUME NEW s \in Stops, StopSees(s) PROVE JobsInv'
  <2>1. JobsTypeOK'  BY <1>17 DEF StopSees, JobLive, JobsTypeOK, Unended, Listed
  <2>2. Unended'  BY <1>17 DEF StopSees, JobsTypeOK, Unended
  <2>3. Listed'  BY <1>17 DEF StopSees, JobsTypeOK, Listed, Unended
  <2>4. Aimed'  BY <1>17 DEF StopSees, JobsTypeOK, Aimed
  <2>5. Quiet'  BY <1>17 DEF StopSees, JobsTypeOK, Quiet, Unended, Unsaid, Listed, Aimed
  <2>6. Spoken'  BY <1>17 DEF StopSees, JobsTypeOK, Spoken, Listed, Aimed
  <2>7. Unsaid'  BY <1>17 DEF StopSees, JobsTypeOK, Unsaid, Unended, Listed
  <2> QED  BY <2>1, <2>2, <2>3, <2>4, <2>5, <2>6, <2>7
<1>18. ASSUME NEW s \in Stops, StopKills(s) PROVE JobsInv'
  <2>1. JobsTypeOK'  BY <1>18 DEF StopKills, JobsTypeOK, Unended, Listed
  <2>2. Unended'  BY <1>18 DEF StopKills, JobsTypeOK, Unended
  <2>3. Listed'  BY <1>18 DEF StopKills, JobsTypeOK, Listed, Unended
  <2>4. Aimed'  BY <1>18 DEF StopKills, JobsTypeOK, Aimed
  <2>5. Quiet'  BY <1>18 DEF StopKills, JobsTypeOK, Quiet, Unended, Unsaid, Listed, Aimed
  <2>6. Spoken'  BY <1>18 DEF StopKills, JobsTypeOK, Spoken, Listed, Aimed
  <2>7. Unsaid'  BY <1>18 DEF StopKills, JobsTypeOK, Unsaid, Unended, Listed
  <2> QED  BY <2>1, <2>2, <2>3, <2>4, <2>5, <2>6, <2>7
<1>19. CASE UNCHANGED jobsVars
  BY <1>19 DEF jobsVars, JobsTypeOK, Unended, Listed, Unsaid, Aimed, Quiet, Spoken
<1> QED
  BY <1>1, <1>2, <1>3, <1>4, <1>5, <1>6, <1>7, <1>8, <1>9, <1>10, <1>11, <1>12,
     <1>13, <1>14,
    <1>15, <1>16, <1>17, <1>18, <1>19 DEF JobsNext

LEMMA JobsInductive == JobsSpec => []JobsInv
<1> QED  BY InitJobsInv, NextJobsInv, PTL DEF JobsSpec

-----------------------------------------------------------------------------
\* Every variable keeps its type.
THEOREM JobsTyped == JobsSpec => []JobsTypeOK
<1>1. JobsInv => JobsTypeOK  BY DEF JobsInv
<1> QED  BY <1>1, JobsInductive, PTL

\* An early failing end that was noted by no stop was said, is about to be, or was no end.
THEOREM EndsAreSaid == JobsSpec => []EndSaid
<1>1. JobsInv => EndSaid  BY DEF JobsInv, EndSaid, Spoken
<1> QED  BY <1>1, JobsInductive, PTL

\* The end of a job that a stop's signal ended is said by none of the box's next commands.
THEOREM StopIsUnsaid == JobsSpec => []StopUnsaid
<1>1. JobsInv => StopUnsaid  BY DEF JobsInv, Quiet, StopUnsaid
<1> QED  BY <1>1, JobsInductive, PTL

-----------------------------------------------------------------------------
(***************************************************************************)
(* The marks of omabox run, for any runs: what they say of a job's end is  *)
(* what the runs do.  Soundness: no mark spans a time no run of its     *)
(* kind spans, though it is merged of several (Ran, OwnRan, GrownSpans).   *)
(* Completeness: a run that ended stays covered by a mark that is there    *)
(* while runs that end at once remove those they took; each removes only   *)
(* what the mark it closed before covers, so of the marks that cover a run *)
(* one no other covers is left (Covered, OwnCovers).                       *)
(***************************************************************************)
HIDE JobsAssumption
USE MarksAssumption

\* A run is in what it was of, of its kind; a mark spans a job's end; a mark covers a run or a mark.
Ended(r) == mpc[r] \in {"remove", "over"}
Within(r, k, t) == (r \in Killers) = k /\ mbegun[r] <= t /\ t <= mend[r] + Grace
Spans(m, t) == m.from <= t /\ t <= m.to + Grace
Covers(m, k, a, b) == m.kills = k /\ m.from <= a /\ b <= m.to

\* A run's open mark is there until its closed one is.
Opened ==
    \A r \in Runs : /\ mbegun[r] <= mclock
                    /\ mpc[r] \in {"runs", "rename"} => r \in mopen
                    /\ r \in mopen => mpc[r] \in {"runs", "rename", "dead"}

\* What a closed mark spans, a run that ended spans.
Ran ==
    \A m \in mclosed, t \in Nat :
        Spans(m, t) => \E q \in Runs : Ended(q) /\ Within(q, m.kills, t)

\* So does the mark a run is about to close, or the run itself does.
OwnRan ==
    \A r \in Runs, t \in Nat : (mpc[r] = "rename" /\ Spans(mown[r], t)) =>
        \E q \in Runs : (Ended(q) \/ q = r) /\ Within(q, mown[r].kills, t)

\* A run's closed mark covers it, and those it takes.
OwnCovers ==
    \A r \in Runs : mpc[r] \in {"rename", "remove"} =>
        /\ Covers(mown[r], r \in Killers, mbegun[r], mend[r])
        /\ \A m \in mmerge[r] : Covers(mown[r], m.kills, m.from, m.to)

\* A run that ended, and the mark a run closed before it removes those it took, are covered by a
\* mark that is there, unless any that covers it may have been dropped.
Covered ==
    /\ \A r \in Runs : (Ended(r) /\ mend[r] >= mclock - Old) =>
          \E m \in mclosed : Covers(m, r \in Killers, mbegun[r], mend[r])
    /\ \A r \in Runs : (mpc[r] = "remove" /\ mown[r].to >= mclock - Old) =>
          \E m \in mclosed : Covers(m, mown[r].kills, mown[r].from, mown[r].to)

MarksInv == MarksTypeOK /\ Opened /\ Ran /\ OwnRan /\ OwnCovers /\ Covered

\* The command that looks: it found no kind but of runs there were; the closed marks told it of every
\* run over at the listing; of those there then, one still there it found, or is yet to look for.
MarksTold ==
    /\ mfound \subseteq Kinds(mover \cup minside)
    /\ \A r \in mover : (r \in Killers) \in mfound
    /\ \A r \in minside : /\ mpc[r] # "idle"
                          /\ RunThere(r) => r \in mtodo \/ (r \in Killers) \in mfound
    /\ \A r \in mtodo : r \in minside \/ mpc[r] = "dead"

-----------------------------------------------------------------------------
\* A set of numbers has a least one, and one that is bounded a greatest.
LEMMA LeastOf ==
    ASSUME NEW S \in SUBSET Nat, S # {}
    PROVE  Least(S) \in S /\ \A y \in S : Least(S) <= y
<1> DEFINE R == OpToRel(<, Nat)
<1>1. IsWellFoundedOn(R, Nat)  BY NatLessThanWellFounded
<1>2. PICK x \in S : \A y \in S : <<y, x>> \notin R
  <2> HIDE DEF R
  <2> QED  BY <1>1, WFMin, Zenon
<1>3. \A y \in S : x <= y
  <2> SUFFICES ASSUME NEW y \in S, y < x PROVE FALSE  BY x \in Nat, S \subseteq Nat
  <2>1. <<y, x>> \in R  BY DEF OpToRel
  <2> QED  BY <1>2, <2>1
<1> QED  BY <1>3 DEF Least

LEMMA MostOf ==
    ASSUME NEW n \in Nat, NEW S \in SUBSET (0 .. n), S # {}
    PROVE  Most(S) \in S /\ \A y \in S : y <= Most(S)
<1> DEFINE T == {n - x : x \in S}
<1>1. T \in SUBSET Nat /\ T # {}
  <2>1. \A x \in S : n - x \in Nat  OBVIOUS
  <2> QED  BY <2>1
<1>2. PICK t \in T : \A u \in T : t <= u  BY <1>1, LeastOf
<1>3. PICK x \in S : t = n - x  OBVIOUS
<1>4. \A y \in S : y <= x
  <2> SUFFICES ASSUME NEW y \in S PROVE y <= x  OBVIOUS
  <2>1. n - y \in T  OBVIOUS
  <2>2. n - x <= n - y  BY <1>2, <1>3, <2>1
  <2> QED  BY <2>2
<1> QED  BY <1>4 DEF Most

\* What a mark takes is closed, and is in every set that is.
LEMMA GrownClosed ==
    ASSUME NEW m, NEW marks
    PROVE  /\ Grown(m, marks) \subseteq marks
           /\ Closed(Grown(m, marks), m, marks)
           /\ \A S \in SUBSET marks : Closed(S, m, marks) => Grown(m, marks) \subseteq S
<1>1. Grown(m, marks) \subseteq marks  BY DEF Grown
<1>2. \A S \in SUBSET marks : Closed(S, m, marks) => Grown(m, marks) \subseteq S
  BY DEF Grown
<1>3. Closed(Grown(m, marks), m, marks)
  <2> SUFFICES ASSUME NEW n \in marks, NEW x \in Grown(m, marks) \cup {m}, Meet(x, n),
                      NEW S \in SUBSET marks, Closed(S, m, marks)
               PROVE  n \in S
    BY DEF Grown, Closed
  <2>1. x \in S \cup {m}  BY <1>2
  <2> QED  BY <2>1 DEF Closed
<1> QED  BY <1>1, <1>2, <1>3

\* The mark it grows to.
From(m, marks) == Least({m.from} \cup {x.from : x \in Grown(m, marks)})
To(m, marks) == Most({m.to} \cup {x.to : x \in Grown(m, marks)})

LEMMA GrownHull ==
    ASSUME NEW m \in MarkSet, NEW marks \in SUBSET MarkSet
    PROVE  /\ From(m, marks) \in 0 .. ClockEnd /\ To(m, marks) \in 0 .. ClockEnd
           /\ \A x \in Grown(m, marks) \cup {m} :
                 From(m, marks) <= x.from /\ x.to <= To(m, marks)
           /\ \E x \in Grown(m, marks) \cup {m} : From(m, marks) = x.from
           /\ \E x \in Grown(m, marks) \cup {m} : To(m, marks) = x.to
<1> DEFINE G == Grown(m, marks)
           F == {m.from} \cup {x.from : x \in G}
           T == {m.to} \cup {x.to : x \in G}
<1>1. G \in SUBSET MarkSet  BY GrownClosed
<1> HIDE DEF G
<1>2. \A x \in G \cup {m} : x.from \in 0 .. ClockEnd /\ x.to \in 0 .. ClockEnd
  BY <1>1 DEF MarkSet
<1>3. F \in SUBSET (0 .. ClockEnd) /\ F # {} /\ T \in SUBSET (0 .. ClockEnd) /\ T # {}
  BY <1>2
<1>4. \A x \in G \cup {m} : x.from \in F /\ x.to \in T  OBVIOUS
<1>5. (\A f \in F : \E x \in G \cup {m} : f = x.from) /\ (\A f \in T : \E x \in G \cup {m} : f = x.to)
  OBVIOUS
<1> HIDE DEF F, T
<1>6. F \in SUBSET Nat  BY <1>3
<1>7. Least(F) \in F /\ \A y \in F : Least(F) <= y  BY <1>3, <1>6, LeastOf
<1>8. Most(T) \in T /\ \A y \in T : y <= Most(T)  BY <1>3, MostOf
<1>9. From(m, marks) = Least(F) /\ To(m, marks) = Most(T)  BY DEF From, To, F, T, G
<1>10. Least(F) \in 0 .. ClockEnd /\ Most(T) \in 0 .. ClockEnd  BY <1>3, <1>7, <1>8
<1>11. \A x \in G \cup {m} : Least(F) <= x.from /\ x.to <= Most(T)  BY <1>4, <1>7, <1>8
<1>12. (\E x \in G \cup {m} : Least(F) = x.from) /\ (\E x \in G \cup {m} : Most(T) = x.to)
  BY <1>5, <1>7, <1>8
<1> QED  BY <1>9, <1>10, <1>11, <1>12 DEF G

\* It spans no more than the marks it is made of do: a gap between them would part the marks it
\* takes on one side of it, which are then all it takes.
LEMMA GrownSpans ==
    ASSUME NEW m \in MarkSet, NEW marks \in SUBSET MarkSet, NEW t \in Nat,
           From(m, marks) <= t, t <= To(m, marks) + Grace
    PROVE  \E x \in Grown(m, marks) \cup {m} : Spans(x, t)
<1> DEFINE G == Grown(m, marks)
<1> SUFFICES ASSUME \A x \in G \cup {m} : ~Spans(x, t) PROVE FALSE  OBVIOUS
<1>1. G \in SUBSET marks /\ Closed(G, m, marks)  BY GrownClosed
<1>2. \A S \in SUBSET marks : Closed(S, m, marks) => G \subseteq S  BY GrownClosed
<1>3. /\ \E x \in G \cup {m} : From(m, marks) = x.from
      /\ \E x \in G \cup {m} : To(m, marks) = x.to
  BY GrownHull
<1> HIDE DEF G
<1>4. \A x \in marks \cup {m} : x.from \in Nat /\ x.to \in Nat  BY DEF MarkSet
<1>5. \A x \in G \cup {m} : t < x.from \/ t > x.to + Grace  BY <1>1, <1>4 DEF Spans
<1>6. CASE t < m.from
  <2> DEFINE S == {n \in G : t < n.from}
  <2>1. Closed(S, m, marks)
    <3> SUFFICES ASSUME NEW n \in marks, NEW x \in S \cup {m}, Meet(x, n) PROVE n \in S
      BY DEF Closed
    <3>1. n \in G  BY <1>1 DEF Closed
    <3>2. t < x.from  BY <1>6
    <3>3. ~(t > n.to + Grace)  BY <1>1, <1>4, <3>2 DEF Meet
    <3> QED  BY <1>5, <3>1, <3>3
  <2>2. G \subseteq S  BY <1>1, <1>2, <2>1
  <2>3. \A x \in G \cup {m} : t < x.from  BY <1>6, <2>2
  <2> QED  BY <1>1, <1>3, <1>4, <2>3
<1>7. CASE t > m.to + Grace
  <2> DEFINE S == {n \in G : t > n.to + Grace}
  <2>1. Closed(S, m, marks)
    <3> SUFFICES ASSUME NEW n \in marks, NEW x \in S \cup {m}, Meet(x, n) PROVE n \in S
      BY DEF Closed
    <3>1. n \in G  BY <1>1 DEF Closed
    <3>2. t > x.to + Grace  BY <1>7
    <3>3. ~(t < n.from)  BY <1>1, <1>4, <3>2 DEF Meet
    <3> QED  BY <1>5, <3>1, <3>3
  <2>2. G \subseteq S  BY <1>1, <1>2, <2>1
  <2>3. \A x \in G \cup {m} : t > x.to + Grace  BY <1>7, <2>2
  <2> QED  BY <1>1, <1>3, <1>4, <2>3
<1> QED  BY <1>5, <1>6, <1>7

\* A mark of a run's kind is one, whether it kills or not.
LEMMA MarkIn ==
    ASSUME NEW a \in 0 .. ClockEnd, NEW b \in 0 .. ClockEnd, NEW r
    PROVE  [kills |-> r \in Killers, from |-> a, to |-> b] \in MarkSet
<1>1. \A k \in BOOLEAN : [kills |-> k, from |-> a, to |-> b] \in MarkSet  BY DEF MarkSet
<1>2. (r \in Killers) \in BOOLEAN  OBVIOUS
<1> QED  BY <1>1, <1>2, Zenon

\* What run_mark_end lists, takes and makes.
Dropped(r) == {m \in mclosed : m.to < mbegun[r] - Old}
Mine(r) == {m \in mclosed \ Dropped(r) : m.kills = (r \in Killers)}
OwnMark(r) == Mark(r, mbegun[r], mclock)
Took(r) == Grown(OwnMark(r), Mine(r))
Made(r) == Mark(r, From(OwnMark(r), Mine(r)), To(OwnMark(r), Mine(r)))

LEMMA ListStep ==
    ASSUME NEW r \in Runs, MarkList(r), MarksInv
    PROVE  /\ mpc[r] = "runs" /\ mpc' = [mpc EXCEPT ![r] = "rename"]
           /\ mclosed' = mclosed \ Dropped(r)
           /\ mown' = [mown EXCEPT ![r] = Made(r)]
           /\ mmerge' = [mmerge EXCEPT ![r] = Took(r)]
           /\ mopen' = {o \in mopen : RunThere(o)}
           /\ mend' = [mend EXCEPT ![r] = mclock]
           /\ UNCHANGED <<mclock, mbegun>> /\ UNCHANGED mlook
           /\ Took(r) \in SUBSET mclosed /\ Made(r) \in MarkSet
           /\ \A m \in Took(r) : m.kills = (r \in Killers)
           /\ \A m \in Took(r) \cup {OwnMark(r)} : Covers(Made(r), m.kills, m.from, m.to)
           /\ OwnMark(r) = [kills |-> r \in Killers, from |-> mbegun[r], to |-> mclock]
           /\ Made(r).kills = (r \in Killers)
           /\ \A t \in Nat : Spans(Made(r), t) => \E x \in Took(r) \cup {OwnMark(r)} : Spans(x, t)
<1> DEFINE own == OwnMark(r)
           mine == Mine(r)
<1>1. own = [kills |-> r \in Killers, from |-> mbegun[r], to |-> mclock]
  BY DEF OwnMark, Mark
<1>2. own \in MarkSet
  <2>1. mbegun[r] \in 0 .. ClockEnd /\ mclock \in 0 .. ClockEnd
    BY DEF MarksInv, MarksTypeOK
  <2> QED  BY <1>1, <2>1, MarkIn, Zenon
<1>3. mine \in SUBSET MarkSet  BY DEF MarksInv, MarksTypeOK, Mine
<1>4. own.kills = (r \in Killers) /\ own.from = mbegun[r] /\ own.to = mclock  BY <1>1
<1>5. Made(r) = [kills |-> r \in Killers, from |-> From(own, mine), to |-> To(own, mine)]
  BY DEF Made, Mark
<1>6. Made(r).kills = (r \in Killers) /\ Made(r).from = From(own, mine) /\ Made(r).to = To(own, mine)
  BY <1>5
<1>7. mclosed' = mclosed \ Dropped(r)  BY DEF MarkList, Dropped
<1>8. mmerge' = [mmerge EXCEPT ![r] = Took(r)]
  BY DEF MarkList, Dropped, Mine, OwnMark, Took
<1>9. mown' = [mown EXCEPT ![r] = Made(r)]
  <2>1. From(own, mine) = Least({mbegun[r]} \cup {m.from : m \in Took(r)})
    BY <1>4, Zenon DEF From, Took
  <2>2. To(own, mine) = Most({mclock} \cup {m.to : m \in Took(r)})
    BY <1>4, Zenon DEF To, Took
  <2> QED  BY <2>1, <2>2, Zenon DEF MarkList, Dropped, Mine, OwnMark, Took, Made
<1>10. mpc[r] = "runs" /\ mpc' = [mpc EXCEPT ![r] = "rename"]  BY DEF MarkList
<1>11. mopen' = {o \in mopen : RunThere(o)} /\ mend' = [mend EXCEPT ![r] = mclock]
       /\ UNCHANGED <<mclock, mbegun>> /\ UNCHANGED mlook
  BY DEF MarkList, mlook
<1> HIDE DEF own, mine
<1>12. /\ Grown(own, mine) \subseteq mine
       /\ From(own, mine) \in 0 .. ClockEnd /\ To(own, mine) \in 0 .. ClockEnd
       /\ \A x \in Grown(own, mine) \cup {own} : From(own, mine) <= x.from /\ x.to <= To(own, mine)
  BY <1>2, <1>3, GrownHull, GrownClosed
<1>13. \A t \in Nat : From(own, mine) <= t /\ t <= To(own, mine) + Grace
                         => \E x \in Grown(own, mine) \cup {own} : Spans(x, t)
  BY <1>2, <1>3, GrownSpans
<1>14. Took(r) = Grown(own, mine)  BY DEF Took, own, mine
<1>15. \A m \in Took(r) : m \in mclosed /\ m.kills = (r \in Killers)
  BY <1>12, <1>14 DEF mine, Mine
<1>16. Made(r) \in MarkSet
  <2> QED  BY <1>5, <1>12, MarkIn, Zenon
<1>17. \A m \in Took(r) \cup {own} : Covers(Made(r), m.kills, m.from, m.to)
  <2> TAKE m \in Took(r) \cup {own}
  <2>1. m.kills = (r \in Killers)  BY <1>4, <1>15
  <2>2. From(own, mine) <= m.from /\ m.to <= To(own, mine)  BY <1>12, <1>14
  <2> QED  BY <1>6, <2>1, <2>2, Zenon DEF Covers
<1>18. \A t \in Nat : Spans(Made(r), t) => \E x \in Took(r) \cup {own} : Spans(x, t)
  <2> TAKE t \in Nat
  <2> HAVE Spans(Made(r), t)
  <2>1. From(own, mine) <= t /\ t <= To(own, mine) + Grace  BY <1>6, Zenon DEF Spans
  <2> QED  BY <1>13, <1>14, <2>1
<1> QED
  BY <1>1, <1>6, <1>7, <1>8, <1>9, <1>10, <1>11, <1>15, <1>16, <1>17, <1>18,
     Zenon DEF own

-----------------------------------------------------------------------------
LEMMA InitMarksInv == MarksInit => MarksInv
<1> SUFFICES ASSUME MarksInit PROVE MarksInv  OBVIOUS
<1>1. NoMark \in MarkSet  BY DEF NoMark, MarkSet
<1>2. MarksTypeOK  BY <1>1 DEF MarksInit, MarksTypeOK
<1>3. Opened /\ Ran /\ OwnRan /\ OwnCovers /\ Covered
  BY DEF MarksInit, Opened, Ran, OwnRan, OwnCovers, Covered, Ended
<1> QED  BY <1>2, <1>3 DEF MarksInv

LEMMA NextMarksInv == MarksInv /\ [MarksNext]_marksVars => MarksInv'
<1> SUFFICES ASSUME MarksInv, [MarksNext]_marksVars PROVE MarksInv'  OBVIOUS
<1> USE DEF MarksInv
<1>0. NoMark \in MarkSet  BY DEF NoMark, MarkSet
<1>1. ASSUME NEW r \in Runs, MarkBegin(r) PROVE MarksInv'
  <2>1. MarksTypeOK'  BY <1>1 DEF MarkBegin, MarksTypeOK, mlook
  <2>2. Opened'  BY <1>1 DEF MarkBegin, MarksTypeOK, Opened
  <2>3. \A q \in Runs : (Ended(q) <=> Ended(q)') /\ (Ended(q) => mbegun'[q] = mbegun[q])
    BY <1>1 DEF MarkBegin, MarksTypeOK, Ended
  <2>4. Ran'  BY <1>1, <2>3 DEF MarkBegin, Ran, Within, Spans
  <2>5. OwnRan'  BY <1>1, <2>3 DEF MarkBegin, MarksTypeOK, OwnRan, Within, Spans
  <2>6. OwnCovers'  BY <1>1 DEF MarkBegin, MarksTypeOK, OwnCovers, Covers
  <2>7. Covered'  BY <1>1, <2>3 DEF MarkBegin, MarksTypeOK, Covered, Covers
  <2> QED  BY <2>1, <2>2, <2>4, <2>5, <2>6, <2>7
<1>2. ASSUME NEW r \in Runs, MarkList(r) PROVE MarksInv'
  <2>0. /\ mpc[r] = "runs" /\ mpc' = [mpc EXCEPT ![r] = "rename"]
        /\ mclosed' = mclosed \ Dropped(r)
        /\ mown' = [mown EXCEPT ![r] = Made(r)]
        /\ mmerge' = [mmerge EXCEPT ![r] = Took(r)]
        /\ mopen' = {o \in mopen : RunThere(o)}
        /\ mend' = [mend EXCEPT ![r] = mclock]
        /\ UNCHANGED <<mclock, mbegun>> /\ UNCHANGED mlook
        /\ Took(r) \in SUBSET mclosed /\ Made(r) \in MarkSet
    BY <1>2, ListStep
  <2>a. /\ \A m \in Took(r) : m.kills = (r \in Killers)
        /\ \A m \in Took(r) \cup {OwnMark(r)} : Covers(Made(r), m.kills, m.from, m.to)
        /\ OwnMark(r) = [kills |-> r \in Killers, from |-> mbegun[r], to |-> mclock]
        /\ Made(r).kills = (r \in Killers)
        /\ \A t \in Nat : Spans(Made(r), t) => \E x \in Took(r) \cup {OwnMark(r)} : Spans(x, t)
    BY <1>2, ListStep
  <2>1. MarksTypeOK'  BY <2>0 DEF MarksTypeOK, mlook
  <2>2. Opened'  BY <2>0 DEF MarksTypeOK, Opened, RunThere
  <2>3. \A q \in Runs : (Ended(q) <=> Ended(q)') /\ (Ended(q) => mend'[q] = mend[q] /\ q # r)
    BY <2>0 DEF MarksTypeOK, Ended
  <2>4. Ran'  BY <2>0, <2>3 DEF Ran, Within, Spans
  <2>5. OwnRan'
    <3> SUFFICES ASSUME NEW p \in Runs, NEW t \in Nat, (mpc[p] = "rename")', Spans(mown[p], t)'
                 PROVE  \E q \in Runs : (Ended(q)' \/ q = p) /\ Within(q, mown[p].kills, t)'
      BY DEF OwnRan
    <3>1. CASE p # r
      BY <2>0, <2>3, <3>1 DEF OwnRan, MarksTypeOK, Within, Spans
    <3>2. CASE p = r
      <4>1. Spans(Made(r), t)  BY <2>0, <3>2 DEF Spans, MarksTypeOK
      <4>2. PICK x \in Took(r) \cup {OwnMark(r)} : Spans(x, t)  BY <2>a, <4>1
      <4>3. mown'[p].kills = (r \in Killers)  BY <2>0, <2>a, <3>2 DEF MarksTypeOK
      <4>4. CASE x = OwnMark(r)
        <5>1. mbegun[r] <= t /\ t <= mclock + Grace  BY <2>a, <4>2, <4>4 DEF Spans
        <5> QED  BY <2>0, <3>2, <4>3, <5>1 DEF Within, MarksTypeOK
      <4>5. CASE x \in Took(r)
        <5>1. PICK q \in Runs : Ended(q) /\ Within(q, x.kills, t)
          BY <2>0, <4>2, <4>5 DEF Ran
        <5>2. x.kills = mown'[p].kills  BY <2>a, <4>3, <4>5
        <5> QED  BY <2>0, <2>3, <5>1, <5>2 DEF Within
      <4> QED  BY <4>4, <4>5
    <3> QED  BY <3>1, <3>2
  <2>6. OwnCovers'
    <3> SUFFICES ASSUME NEW p \in Runs, mpc'[p] \in {"rename", "remove"}
                 PROVE  /\ Covers(mown[p], p \in Killers, mbegun[p], mend[p])'
                        /\ \A m \in mmerge'[p] : Covers(mown'[p], m.kills, m.from, m.to)
      BY DEF OwnCovers, Covers
    <3>1. CASE p # r
      BY <2>0, <3>1 DEF OwnCovers, MarksTypeOK, Covers
    <3>2. CASE p = r
      <4>1. mown'[p] = Made(r) /\ mmerge'[p] = Took(r) /\ mbegun'[p] = mbegun[r] /\ mend'[p] = mclock
        BY <2>0, <3>2 DEF MarksTypeOK
      <4>2. Covers(Made(r), r \in Killers, mbegun[r], mclock)
        <5>1. /\ OwnMark(r).kills = (r \in Killers)
              /\ OwnMark(r).from = mbegun[r] /\ OwnMark(r).to = mclock
          BY <2>a
        <5> QED  BY <2>a, <5>1, Zenon
      <4>3. Covers(mown'[p], p \in Killers, mbegun'[p], mend'[p])  BY <3>2, <4>1, <4>2
      <4>4. \A m \in mmerge'[p] : Covers(mown'[p], m.kills, m.from, m.to)  BY <2>a, <4>1
      <4> QED  BY <4>3, <4>4, Zenon DEF Covers
    <3> QED  BY <3>1, <3>2
  <2>7. Covered'
    <3>1. \A k, a : \A b \in 0 .. ClockEnd, m \in mclosed :
              b >= mclock - Old /\ Covers(m, k, a, b) => m \in mclosed'
      BY <2>0 DEF Covers, Dropped, Opened, MarksTypeOK, MarkSet
    <3>2. ASSUME NEW p \in Runs, Ended(p)', mend'[p] >= mclock' - Old
          PROVE  \E m \in mclosed' : Covers(m, p \in Killers, mbegun'[p], mend'[p])
      <4>1. mend'[p] = mend[p] /\ Ended(p)  BY <2>3, <3>2
      <4>2. PICK m \in mclosed : Covers(m, p \in Killers, mbegun[p], mend[p])
        BY <2>0, <3>2, <4>1 DEF Covered
      <4>3. mend[p] \in 0 .. ClockEnd  BY DEF MarksTypeOK
      <4> QED  BY <2>0, <3>1, <3>2, <4>1, <4>2, <4>3
    <3>3. ASSUME NEW p \in Runs, mpc'[p] = "remove", mown'[p].to >= mclock' - Old
          PROVE  \E m \in mclosed' : Covers(m, mown'[p].kills, mown'[p].from, mown'[p].to)
      <4>1. mown'[p] = mown[p] /\ mpc[p] = "remove"  BY <2>0, <3>3 DEF MarksTypeOK
      <4>2. PICK m \in mclosed : Covers(m, mown[p].kills, mown[p].from, mown[p].to)
        BY <2>0, <3>3, <4>1 DEF Covered
      <4>3. mown[p].to \in 0 .. ClockEnd  BY DEF MarksTypeOK, MarkSet
      <4> QED  BY <2>0, <3>1, <3>3, <4>1, <4>2, <4>3
    <3> QED  BY <3>2, <3>3 DEF Covered, Covers, Ended
  <2> QED  BY <2>1, <2>2, <2>4, <2>5, <2>6, <2>7
<1>3. ASSUME NEW r \in Runs, MarkRename(r) PROVE MarksInv'
  <2>1. MarksTypeOK'  BY <1>3 DEF MarkRename, MarksTypeOK, mlook
  <2>2. Opened'  BY <1>3 DEF MarkRename, MarksTypeOK, Opened
  <2>3. Ended(r)' /\ \A q \in Runs : Ended(q) => Ended(q)'
    BY <1>3 DEF MarkRename, MarksTypeOK, Ended
  <2>4. Ran'
    <3> SUFFICES ASSUME NEW m \in mclosed', NEW t \in Nat, Spans(m, t)
                 PROVE  \E q \in Runs : Ended(q)' /\ Within(q, m.kills, t)'
      BY DEF Ran, Spans
    <3>1. CASE m \in mclosed  BY <1>3, <2>3, <3>1 DEF MarkRename, Ran, Within
    <3>2. CASE m = mown[r]
      <4>1. PICK q \in Runs : (Ended(q) \/ q = r) /\ Within(q, m.kills, t)
        BY <1>3, <3>2 DEF MarkRename, OwnRan
      <4> QED  BY <1>3, <2>3, <4>1 DEF MarkRename, Within
    <3> QED  BY <1>3, <3>1, <3>2 DEF MarkRename
  <2>5. OwnRan'  BY <1>3, <2>3 DEF MarkRename, MarksTypeOK, OwnRan, Within, Spans
  <2>6. OwnCovers'  BY <1>3 DEF MarkRename, MarksTypeOK, OwnCovers, Covers
  <2>7. Covered'
    <3>1. Covers(mown[r], r \in Killers, mbegun[r], mend[r])
      BY <1>3 DEF MarkRename, OwnCovers
    <3>2. ASSUME NEW p \in Runs, Ended(p)', mend'[p] >= mclock' - Old
          PROVE  \E m \in mclosed' : Covers(m, p \in Killers, mbegun'[p], mend'[p])
      <4>1. CASE p = r  BY <1>3, <3>1, <4>1 DEF MarkRename
      <4>2. CASE p # r
        BY <1>3, <3>2, <4>2 DEF MarkRename, MarksTypeOK, Covered, Ended
      <4> QED  BY <4>1, <4>2
    <3>3. ASSUME NEW p \in Runs, mpc'[p] = "remove", mown'[p].to >= mclock' - Old
          PROVE  \E m \in mclosed' : Covers(m, mown'[p].kills, mown'[p].from, mown'[p].to)
      <4>1. CASE p = r
        <5>1. mown[r] \in MarkSet  BY DEF MarksTypeOK
        <5>2. Covers(mown[r], mown[r].kills, mown[r].from, mown[r].to)
          BY <5>1 DEF Covers, MarkSet
        <5> QED  BY <1>3, <4>1, <5>2 DEF MarkRename
      <4>2. CASE p # r
        BY <1>3, <3>3, <4>2 DEF MarkRename, MarksTypeOK, Covered
      <4> QED  BY <4>1, <4>2
    <3> QED  BY <3>2, <3>3 DEF Covered, Covers, Ended
  <2> QED  BY <2>1, <2>2, <2>4, <2>5, <2>6, <2>7
<1>4. ASSUME NEW r \in Runs, MarkRemove(r) PROVE MarksInv'
  <2>1. MarksTypeOK'  BY <1>0, <1>4 DEF MarkRemove, MarksTypeOK, mlook
  <2>2. Opened'  BY <1>4 DEF MarkRemove, MarksTypeOK, Opened
  <2>3. \A q \in Runs : Ended(q) <=> Ended(q)'
    BY <1>4 DEF MarkRemove, MarksTypeOK, Ended
  <2>4. Ran'  BY <1>4, <2>3 DEF MarkRemove, Ran, Within, Spans
  <2>5. OwnRan'  BY <1>4, <2>3 DEF MarkRemove, MarksTypeOK, OwnRan, Within, Spans
  <2>6. OwnCovers'  BY <1>4 DEF MarkRemove, MarksTypeOK, OwnCovers, Covers
  <2>7. ASSUME NEW k \in BOOLEAN, NEW a \in 0 .. ClockEnd, NEW b \in 0 .. ClockEnd, b >= mclock - Old,
               NEW m \in mclosed, Covers(m, k, a, b)
        PROVE  \E n \in mclosed' : Covers(n, k, a, b)
    <3>1. m \in MarkSet /\ mown[r] \in MarkSet  BY DEF MarksTypeOK
    <3>2. CASE m \notin mmerge[r] \ {mown[r]}  BY <1>4, <2>7, <3>2 DEF MarkRemove
    <3>3. CASE m \in mmerge[r] /\ m # mown[r]
      <4>1. Covers(mown[r], m.kills, m.from, m.to)
        BY <1>4, <3>3 DEF MarkRemove, OwnCovers
      <4>2. mown[r].to >= mclock - Old
        BY <2>7, <3>1, <4>1 DEF Covers, MarkSet, MarksTypeOK
      <4>3. PICK n \in mclosed : Covers(n, mown[r].kills, mown[r].from, mown[r].to)
        BY <1>4, <4>2 DEF MarkRemove, Covered
      <4>4. n \in MarkSet  BY DEF MarksTypeOK
      <4>5. Covers(n, k, a, b)
        BY <2>7, <3>1, <4>1, <4>3, <4>4 DEF Covers, MarkSet
      <4>6. n \in mclosed'
        <5> SUFFICES ASSUME n \in mmerge[r] PROVE n = mown[r]  BY <1>4 DEF MarkRemove
        <5>1. Covers(mown[r], n.kills, n.from, n.to)  BY <1>4 DEF MarkRemove, OwnCovers
        <5>2. n.kills = mown[r].kills /\ n.from = mown[r].from /\ n.to = mown[r].to
          BY <3>1, <4>3, <4>4, <5>1 DEF Covers, MarkSet
        <5> QED  BY <3>1, <4>4, <5>2 DEF MarkSet
      <4> QED  BY <4>5, <4>6
    <3> QED  BY <3>2, <3>3
  <2>8. Covered'
    <3>1. ASSUME NEW p \in Runs, Ended(p)', mend'[p] >= mclock' - Old
          PROVE  \E m \in mclosed' : Covers(m, p \in Killers, mbegun'[p], mend'[p])
      <4>1. PICK m \in mclosed : Covers(m, p \in Killers, mbegun[p], mend[p])
        BY <1>4, <2>3, <3>1 DEF MarkRemove, Covered
      <4>2. mbegun[p] \in 0 .. ClockEnd /\ mend[p] \in 0 .. ClockEnd  BY DEF MarksTypeOK
      <4>3. (p \in Killers) \in BOOLEAN  OBVIOUS
      <4>4. mend[p] >= mclock - Old /\ mbegun' = mbegun /\ mend' = mend
        BY <1>4, <3>1 DEF MarkRemove
      <4> QED  BY <2>7, <4>1, <4>2, <4>3, <4>4, Zenon
    <3>2. ASSUME NEW p \in Runs, mpc'[p] = "remove", mown'[p].to >= mclock' - Old
          PROVE  \E m \in mclosed' : Covers(m, mown'[p].kills, mown'[p].from, mown'[p].to)
      <4>1. mown'[p] = mown[p] /\ mpc[p] = "remove" /\ mown[p].to >= mclock - Old
        BY <1>4, <3>2 DEF MarkRemove, MarksTypeOK
      <4>2. PICK m \in mclosed : Covers(m, mown[p].kills, mown[p].from, mown[p].to)
        BY <4>1 DEF Covered
      <4>3. mown[p].kills \in BOOLEAN /\ mown[p].from \in 0 .. ClockEnd /\ mown[p].to \in 0 .. ClockEnd
        BY DEF MarksTypeOK, MarkSet
      <4> QED  BY <2>7, <4>1, <4>2, <4>3, Zenon
    <3> QED  BY <3>1, <3>2 DEF Covered, Covers, Ended
  <2> QED  BY <2>1, <2>2, <2>4, <2>5, <2>6, <2>8
<1>5. ASSUME NEW r \in Runs, MarkKilled(r) PROVE MarksInv'
  <2>1. MarksTypeOK'  BY <1>0, <1>5 DEF MarkKilled, MarksTypeOK, mlook
  <2>2. Opened'  BY <1>5 DEF MarkKilled, MarksTypeOK, Opened
  <2>3. \A q \in Runs : Ended(q) <=> Ended(q)'
    BY <1>5 DEF MarkKilled, RunThere, MarksTypeOK, Opened, Ended
  <2>4. Ran'  BY <1>5, <2>3 DEF MarkKilled, Ran, Within, Spans
  <2>5. OwnRan'  BY <1>5, <2>3 DEF MarkKilled, MarksTypeOK, OwnRan, Within, Spans
  <2>6. OwnCovers'  BY <1>5 DEF MarkKilled, MarksTypeOK, OwnCovers, Covers
  <2>7. Covered'  BY <1>5, <2>3 DEF MarkKilled, MarksTypeOK, Covered, Covers
  <2> QED  BY <2>1, <2>2, <2>4, <2>5, <2>6, <2>7
<1>6. CASE MarksTick
  <2>1. MarksTypeOK'  BY <1>6 DEF MarksTick, MarksTypeOK, mlook
  <2>2. Opened'  BY <1>6 DEF MarksTick, MarksTypeOK, Opened
  <2>3. Ran' /\ OwnRan' /\ OwnCovers'
    BY <1>6 DEF MarksTick, Ran, OwnRan, OwnCovers, Ended, Within, Spans, Covers
  <2>4. Covered'
    <3>1. \A b \in 0 .. ClockEnd : b >= mclock' - Old => b >= mclock - Old
      BY <1>6 DEF MarksTick, MarksTypeOK
    <3>2. \A p \in Runs : mend[p] \in 0 .. ClockEnd /\ mown[p].to \in 0 .. ClockEnd
      BY DEF MarksTypeOK, MarkSet
    <3> QED  BY <1>6, <3>1, <3>2 DEF MarksTick, Covered, Covers, Ended
  <2> QED  BY <2>1, <2>2, <2>3, <2>4
<1>7. ASSUME NEW t \in 0 .. mclock, LookList(t) PROVE MarksInv'
  <2>1. mfound' \subseteq BOOLEAN
    BY <1>7 DEF LookList, MarksTypeOK, MarkSet
  <2>2. mtodo' \subseteq Runs /\ mover' \subseteq Runs /\ minside' \subseteq Runs
    BY <1>7 DEF LookList, MarksTypeOK
  <2>3. UNCHANGED <<mclock, mpc, mbegun, mend, mopen, mclosed, mown, mmerge>>
    BY <1>7 DEF LookList
  <2> QED
    BY <2>1, <2>2, <2>3 DEF MarksTypeOK, Opened, Ran, OwnRan, OwnCovers, Covered,
                            Ended, Within, Spans, Covers
<1>8. ASSUME NEW r \in Runs, LookUp(r) PROVE MarksInv'
  <2>1. mfound' \subseteq BOOLEAN
    <3>1. (r \in Killers) \in BOOLEAN  OBVIOUS
    <3>2. mfound' = mfound \/ mfound' = mfound \cup {(r \in Killers)}  BY <1>8, Zenon DEF LookUp
    <3>3. mfound \subseteq BOOLEAN  BY DEF MarksTypeOK
    <3> QED  BY <3>1, <3>2, <3>3, Zenon
  <2>2. mtodo' \subseteq Runs /\ mover' = mover /\ minside' = minside
    BY <1>8 DEF LookUp, MarksTypeOK
  <2>3. UNCHANGED <<mclock, mpc, mbegun, mend, mopen, mclosed, mown, mmerge>>
    BY <1>8 DEF LookUp
  <2> QED
    BY <2>1, <2>2, <2>3 DEF MarksTypeOK, Opened, Ran, OwnRan, OwnCovers, Covered,
                            Ended, Within, Spans, Covers
<1>9. CASE UNCHANGED marksVars
  BY <1>9 DEF marksVars, mlook, MarksTypeOK, Opened, Ran, OwnRan, OwnCovers, Covered,
              Ended, Within, Spans, Covers
<1> QED  BY <1>1, <1>2, <1>3, <1>4, <1>5, <1>6, <1>7, <1>8, <1>9 DEF MarksNext

LEMMA MarksInductive == MarksSpec => []MarksInv
<1> QED  BY InitMarksInv, NextMarksInv, PTL DEF MarksSpec

\* A step of the runs: none comes to be there again, and a killed one stays dead.
LEMMA LookedRuns ==
    ASSUME MarksTold, MarksTypeOK, UNCHANGED mlook,
           \A r \in Runs : /\ mpc[r] # "idle" => mpc'[r] # "idle" /\ (RunThere(r)' => RunThere(r))
                           /\ mpc[r] = "dead" => mpc'[r] = "dead"
    PROVE  MarksTold'
<1>1. mfound' = mfound /\ mtodo' = mtodo /\ mover' = mover /\ minside' = minside  BY DEF mlook
<1>2. mtodo \subseteq Runs /\ minside \subseteq Runs  BY DEF MarksTypeOK
<1>3. mfound' \subseteq Kinds(mover' \cup minside')  BY <1>1, Zenon DEF MarksTold
<1>4. \A r \in mover' : (r \in Killers) \in mfound'  BY <1>1, Zenon DEF MarksTold
<1>5. \A r \in minside' :
         mpc'[r] # "idle" /\ (RunThere(r)' => r \in mtodo' \/ (r \in Killers) \in mfound')
  <2> SUFFICES ASSUME NEW r \in minside
               PROVE  mpc'[r] # "idle" /\ (RunThere(r)' => r \in mtodo \/ (r \in Killers) \in mfound)
    BY <1>1
  <2>1. r \in Runs  BY <1>2
  <2>2. mpc[r] # "idle" /\ (RunThere(r) => r \in mtodo \/ (r \in Killers) \in mfound)
    BY DEF MarksTold
  <2>3. mpc'[r] # "idle" /\ (RunThere(r)' => RunThere(r))  BY <2>1, <2>2 DEF RunThere
  <2> QED  BY <2>2, <2>3
<1>6. \A r \in mtodo' : r \in minside' \/ mpc'[r] = "dead"
  <2> SUFFICES ASSUME NEW r \in mtodo PROVE r \in minside \/ mpc'[r] = "dead"  BY <1>1
  <2>1. r \in Runs  BY <1>2
  <2>2. r \in minside \/ mpc[r] = "dead"  BY DEF MarksTold
  <2> QED  BY <2>1, <2>2
<1> QED  BY <1>3, <1>4, <1>5, <1>6, Zenon DEF MarksTold, Kinds

\* What the listing finds: of the runs over, each by a mark that covers it; no kind but of one of them.
LEMMA LookedList ==
    ASSUME MarksInv, NEW t \in 0 .. mclock, LookList(t)
    PROVE  MarksTold'
<1> USE DEF MarksInv
<1>0. mclock \in Nat /\ t \in Nat /\ t >= mclock - (Old - Grace)
  BY DEF MarksTypeOK, LookList
<1>1. \A r \in mover' : r \in Runs /\ Ended(r) /\ mbegun[r] <= t /\ t <= mend[r] + Grace
  BY DEF LookList, Ended
<1>2. ASSUME NEW m \in mclosed, m.from <= t, t <= m.to + Grace
      PROVE  m.kills \in Kinds(mover')
  <2>1. PICK q \in Runs : Ended(q) /\ Within(q, m.kills, t)  BY <1>0, <1>2 DEF Ran, Spans
  <2>2. q \in mover'  BY <2>1 DEF LookList, Ended, Within
  <2>3. (q \in Killers) = m.kills  BY <2>1 DEF Within
  <2>4. (q \in Killers) \in Kinds(mover')  BY <2>2, Zenon DEF Kinds
  <2> QED  BY <2>3, <2>4, Zenon
<1>3. ASSUME NEW r \in mover' PROVE (r \in Killers) \in mfound'
  <2>0. r \in Runs  BY <1>1
  <2>1. mend[r] \in Nat /\ mbegun[r] \in Nat  BY <2>0 DEF MarksTypeOK
  <2>2. mend[r] >= mclock - Old  BY <1>0, <1>1, <2>0, <2>1
  <2>3. PICK m \in mclosed : Covers(m, r \in Killers, mbegun[r], mend[r])
    BY <1>1, <2>0, <2>2 DEF Covered
  <2>4. m.from \in Nat /\ m.to \in Nat  BY DEF MarksTypeOK, MarkSet
  <2>5. m.from <= t /\ t <= m.to + Grace  BY <1>0, <1>1, <2>0, <2>1, <2>3, <2>4 DEF Covers
  <2>6. m.kills = (r \in Killers)  BY <2>3 DEF Covers
  <2>7. m.kills \in mfound'  BY <2>5 DEF LookList
  <2> QED  BY <2>6, <2>7
<1>4. \A r \in minside' : mpc'[r] # "idle" /\ r \in mtodo'  BY DEF LookList, Opened
<1>5. \A r \in mtodo' : r \in minside' \/ mpc'[r] = "dead"
  <2> SUFFICES ASSUME NEW r \in mtodo', mpc[r] # "dead" PROVE r \in minside'
    BY DEF LookList
  <2>1. r \in Runs /\ r \in mopen /\ mbegun[r] <= t  BY DEF LookList, MarksTypeOK
  <2>2. mpc[r] \in {"runs", "rename"}  BY <2>1 DEF Opened
  <2> QED  BY <2>1, <2>2 DEF LookList
<1>6. mfound' \subseteq Kinds((mover \cup minside)')
  <2> SUFFICES ASSUME NEW k \in mfound' PROVE k \in Kinds(mover' \cup minside')  BY DEF Kinds
  <2>1. PICK m \in mclosed : m.from <= t /\ t <= m.to + Grace /\ k = m.kills  BY DEF LookList
  <2>2. k \in Kinds(mover')  BY <1>2, <2>1
  <2>3. Kinds(mover') \subseteq Kinds(mover' \cup minside')  BY Zenon DEF Kinds
  <2> QED  BY <2>2, <2>3
<1> QED  BY <1>3, <1>4, <1>5, <1>6 DEF MarksTold, Kinds

LEMMA LookedUp ==
    ASSUME MarksTold, MarksTypeOK, NEW r \in Runs, LookUp(r)
    PROVE  MarksTold'
<1>1. /\ r \in mtodo /\ mtodo' = mtodo \ {r}
      /\ mfound' = IF RunThere(r) THEN mfound \cup {(r \in Killers)} ELSE mfound
      /\ mpc' = mpc /\ mover' = mover /\ minside' = minside
  BY DEF LookUp
<1>2. mfound \subseteq mfound' /\ (RunThere(r) => (r \in Killers) \in mfound')
  <2>1. CASE RunThere(r)
    <3>1. mfound' = mfound \cup {(r \in Killers)}  BY <1>1, <2>1
    <3>2. (r \in Killers) \in mfound'  BY <3>1, Zenon
    <3> QED  BY <3>1, <3>2
  <2>2. CASE ~RunThere(r)  BY <1>1, <2>2
  <2> QED  BY <2>1, <2>2
<1>3. \A q \in Runs : RunThere(q)' <=> RunThere(q)  BY <1>1 DEF RunThere
<1>4. mfound' \subseteq Kinds(mover' \cup minside')
  <2>1. RunThere(r) => r \in minside  BY <1>1 DEF MarksTold, RunThere
  <2>2. RunThere(r) => (r \in Killers) \in Kinds(mover \cup minside)  BY <2>1 DEF Kinds
  <2>3. mfound \subseteq Kinds(mover \cup minside)  BY DEF MarksTold
  <2> QED  BY <1>1, <2>2, <2>3, Zenon
<1>5. \A q \in mover' : (q \in Killers) \in mfound'  BY <1>1, <1>2 DEF MarksTold
<1>6. \A q \in minside' :
         mpc'[q] # "idle" /\ (RunThere(q)' => q \in mtodo' \/ (q \in Killers) \in mfound')
  <2> SUFFICES ASSUME NEW q \in minside
               PROVE  /\ mpc[q] # "idle"
                      /\ RunThere(q) => q \in mtodo' \/ (q \in Killers) \in mfound'
    BY <1>1, <1>3 DEF MarksTypeOK
  <2>1. mpc[q] # "idle" /\ (RunThere(q) => q \in mtodo \/ (q \in Killers) \in mfound)
    BY DEF MarksTold
  <2> QED  BY <1>1, <1>2, <2>1
<1>7. \A q \in mtodo' : q \in minside' \/ mpc'[q] = "dead"  BY <1>1 DEF MarksTold
<1> QED  BY <1>4, <1>5, <1>6, <1>7 DEF MarksTold, Kinds

LEMMA NextLooked == MarksInv /\ MarksTold /\ [MarksNext]_marksVars => MarksTold'
<1> SUFFICES ASSUME MarksInv, MarksTold, [MarksNext]_marksVars PROVE MarksTold'  OBVIOUS
<1>0. MarksTypeOK  BY DEF MarksInv
<1>1. ASSUME NEW r \in Runs, MarkBegin(r) \/ MarkList(r) \/ MarkRename(r) \/ MarkRemove(r) \/ MarkKilled(r)
      PROVE  MarksTold'
  <2>1. UNCHANGED mlook
    BY <1>1 DEF MarkBegin, MarkList, MarkRename, MarkRemove, MarkKilled, mlook
  <2>2. \A q \in Runs : /\ mpc[q] # "idle" => mpc'[q] # "idle" /\ (RunThere(q)' => RunThere(q))
                        /\ mpc[q] = "dead" => mpc'[q] = "dead"
    BY <1>0, <1>1 DEF MarkBegin, MarkList, MarkRename, MarkRemove, MarkKilled, RunThere, MarksTypeOK
  <2> QED  BY <1>0, <2>1, <2>2, LookedRuns
<1>2. CASE MarksTick \/ UNCHANGED marksVars
  <2>1. UNCHANGED mlook /\ mpc' = mpc  BY <1>2 DEF MarksTick, marksVars, mlook
  <2>2. \A q \in Runs : /\ mpc[q] # "idle" => mpc'[q] # "idle" /\ (RunThere(q)' => RunThere(q))
                        /\ mpc[q] = "dead" => mpc'[q] = "dead"
    BY <2>1 DEF RunThere
  <2> QED  BY <1>0, <2>1, <2>2, LookedRuns
<1>3. ASSUME NEW t \in 0 .. mclock, LookList(t) PROVE MarksTold'  BY <1>3, LookedList
<1>4. ASSUME NEW r \in Runs, LookUp(r) PROVE MarksTold'  BY <1>0, <1>4, LookedUp
<1> QED  BY <1>1, <1>2, <1>3, <1>4 DEF MarksNext

\* What it found, it tells as MarksSame says.
LEMMA SameFromInv == MarksTold => MarksSame
<1> SUFFICES ASSUME MarksTold PROVE MarksSame  OBVIOUS
<1>1. ASSUME mtodo = {} PROVE Kinds(mover \cup {r \in minside : RunThere(r)}) \subseteq mfound
  BY <1>1 DEF MarksTold, Kinds
<1> QED  BY <1>1 DEF MarksTold, MarksSame

-----------------------------------------------------------------------------
\* Every variable of the marks keeps its type.
THEOREM MarksTyped == MarksSpec => []MarksTypeOK
<1>1. MarksInv => MarksTypeOK  BY DEF MarksInv
<1> QED  BY <1>1, MarksInductive, PTL

\* What job_run_stopped tells from the marks, of a job that ended no longer than Old - Grace before,
\* is as from the runs, whichever of them merge, drop and rename the marks as it looks: it tells of
\* every run over when it listed the marks, and of every one still there when it has looked; and of
\* no kind of run but one of which there was one.
THEOREM MarksAreRuns == MarksSpec => []MarksSame
<1>1. MarksInit => MarksTold  BY DEF MarksInit, MarksTold, Kinds
<1> QED  BY <1>1, NextLooked, SameFromInv, MarksInductive, PTL DEF MarksSpec
=============================================================================
