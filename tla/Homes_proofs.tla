---------------------------- MODULE Homes_proofs ----------------------------
(***************************************************************************)
(* A name's HOME is removed only with its box, for any ups, downs, sweeps  *)
(* and kills in any runtime dirs, as long as what was judged before a HOME *)
(* is removed still stands as it is (JudgedStands).  With two runtime dirs *)
(* it may not, as rm_box and a sweep hold the lock of one; with one it     *)
(* always does.  What the rm -rf of a killed command takes is taken without*)
(* any lock: the boxes it takes from are `robbed`, and the proof shows that*)
(* no other box loses anything by it.                                      *)
(*                                                                         *)
(* HomeLinked and UsedKept are not inductive.  They rest on who has each   *)
(* runtime dir's lock at each step (Holds), on where the box dir, its link *)
(* and the running box stand at each step of an `up` or a `down`           *)
(* (Progress), and on a sweep that is about to remove having seen no box   *)
(* dir since it has the lock.                                              *)
(***************************************************************************)
EXTENDS Homes, TLAPS

UpStates == {"new", "locked", "up", "end", "dead"} \union Making \union Clearing
              \union Undoing \union Orphaned
DownStates == {"new", "locked", "end", "dead"} \union Removing \union Orphaned
SweepStates == {"new", "end", "dead", "orphhome"} \union Sweeping

\* Each command is at a place of its own kind.
Places ==
    /\ \A u \in Up : pc[u] \in UpStates
    /\ \A d \in Down : pc[d] \in DownStates
    /\ \A s \in Sweep : pc[s] \in SweepStates

Typed == TypeOK /\ Places

\* The HOME there, as an rm_box or a sweep is about to remove it, is still one that may go:
\* none of another runtime dir has come since it was judged (ready.rs, rm_box, sweep_one).
JudgedStands ==
    /\ \A p \in Up \union Down :
          pc[p] \in {"clearhome", "undohome", "rmhome"} /\ takes[p] => whose(At[p])
    /\ \A s \in Sweep :
          pc[s] \in {"rename", "sweephome"} /\ home # NoHome => home.rec = judged[s]

Working == {"locked"} \union Making \union Clearing \union Undoing \union Removing
Judged == {"look", "rename", "sweephome", "unlock"}

\* Whoever is at work has the lock of its runtime dir, a sweep of the one it judged about.
Holds ==
    /\ \A p \in Up \union Down : pc[p] \in Working => lock[At[p]] = p
    /\ \A s \in Sweep : pc[s] \in Judged => lock[judged[s]] = s

\* A box dir's link leads to its own HOME; a box that runs has its dir, linked: but for
\* the robbed.
Boxes ==
    /\ \A r \in linked :
          /\ dir[r] # NoBox
          /\ dir[r] \notin robbed => home # NoHome /\ home.rec = r /\ home.by = dir[r]
    /\ \A u \in runs \ robbed : dir[At[u]] = u /\ At[u] \in linked

Quiet(r) == \A u \in runs \ robbed : At[u] # r
Bare(r) == dir[r] = NoBox /\ r \notin linked /\ Quiet(r)

\* Where the box dir, its link and the running box stand at each step.
Progress ==
    /\ \A u \in Up :
        /\ pc[u] \in {"clear", "cleardir", "undo", "undodir"} => Quiet(At[u])
        /\ pc[u] \in {"clearhome", "mkdir", "undohome"} => Bare(At[u])
        /\ pc[u] = "home" => /\ dir[At[u]] = u \/ u \in robbed
                             /\ At[u] \notin linked /\ Quiet(At[u])
        /\ pc[u] \in {"made", "launched"} =>
              u \in robbed \/ (dir[At[u]] = u /\ At[u] \in linked)
        /\ pc[u] \in {"home", "made", "launched"} => dir[At[u]] \in {u, NoBox}
    /\ \A d \in Down :
        /\ pc[d] \in {"rm", "rmdir"} => Quiet(At[d])
        /\ pc[d] = "rmhome" => Bare(At[d])
    /\ \A s \in Sweep : pc[s] \in {"rename", "sweephome"} => dir[judged[s]] = NoBox

IInv == Holds /\ Boxes /\ Progress

USE HomesAssumption
USE DEF Proc, Goes, States, UpStates, DownStates, SweepStates, Making
USE DEF Clearing, Undoing, Removing, Sweeping, Orphaned, Working, Judged, killed
-----------------------------------------------------------------------------
(* Types *)

\* rm_box's judgement is yes or no.
LEMMA JudgeTyped ==
    ASSUME Typed, NEW p \in Proc, NEW from, NEW to \in States, Judge(p, from, to)
    PROVE  TypeOK'
<1>1. whose(At[p]) \in BOOLEAN
  BY Zenon DEF whose
<1>2. takes' \in [Proc -> BOOLEAN]
  BY <1>1 DEF Typed, TypeOK, Judge
<1>3. pc' \in [Proc -> States]
  BY DEF Typed, TypeOK, Judge
<1> QED
  BY <1>2, <1>3 DEF Typed, TypeOK, Judge

LEMMA RmTyped ==
    ASSUME Typed, NEW p \in Proc, NEW from, NEW to \in States,
           RmDir(p, from, to) \/ RmHome(p, from, to)
    PROVE  TypeOK'
<1>1. CASE RmDir(p, from, to)
  <2>1. robbed' \subseteq Up
    BY <1>1 DEF RmDir, Typed, TypeOK
  <2> QED
    BY <1>1, <2>1 DEF RmDir, Typed, TypeOK
<1>2. CASE RmHome(p, from, to)
  <2>1. robbed' \subseteq Up
    BY <1>2 DEF RmHome, Typed, TypeOK
  <2> QED
    BY <1>2, <2>1 DEF RmHome, Unlocked, Typed, TypeOK
<1> QED
  BY <1>1, <1>2

LEMMA StepTyped == Typed /\ [Next]_vars => Typed'
<1> SUFFICES ASSUME Typed, [Next]_vars PROVE Typed'
  OBVIOUS
<1>1. ASSUME NEW u \in Up, UpStep(u) PROVE Typed'
  <2>1. CASE Clear(u)
    <3>1. Places'
      BY <2>1 DEF Clear, Judge, RmDir, RmHome, Typed, TypeOK, Places
    <3> QED
      BY <2>1, <3>1, JudgeTyped, RmTyped DEF Clear, Typed
  <2>2. CASE Undo(u)
    <3>1. Places'
      BY <2>2 DEF Undo, Judge, RmDir, RmHome, Typed, TypeOK, Places
    <3> QED
      BY <2>2, <3>1, JudgeTyped, RmTyped DEF Undo, Typed
  <2>3. CASE Refused(u) \/ Goahead(u) \/ Ready(u) \/ Fails(u)
    BY <2>3 DEF Refused, Goahead, Ready, Fails, Unlocked, Typed, TypeOK, Places
  <2>4. CASE MkDir(u) \/ MakeHome(u) \/ Launch(u)
    BY <2>4 DEF MkDir, MakeHome, Launch, Typed, TypeOK, Places
  <2> QED
    BY <1>1, <2>1, <2>2, <2>3, <2>4 DEF UpStep
<1>2. ASSUME NEW d \in Down, DownStep(d) PROVE Typed'
  <2>1. CASE Remove(d)
    <3>1. Places'
      BY <2>1 DEF Remove, Judge, RmDir, RmHome, Typed, TypeOK, Places
    <3> QED
      BY <2>1, <3>1, JudgeTyped, RmTyped DEF Remove, Typed
  <2>2. CASE FoundNone(d) \/ Kill(d)
    BY <2>2 DEF FoundNone, Kill, Unlocked, Typed, TypeOK, Places
  <2> QED
    BY <1>2, <2>1, <2>2 DEF DownStep
<1>3. ASSUME NEW s \in Sweep, SweepStep(s) PROVE Typed'
  <2>1. CASE JudgeGone(s) \/ Scan(s) \/ Still(s)
    BY <2>1 DEF JudgeGone, Scan, Still, Typed, TypeOK, Places
  <2>4. CASE Rename(s)
    BY <2>4 DEF Rename, Typed, TypeOK, Places
  <2>5. CASE RenameRefused(s)
    <3>1. takes' \in [Proc -> BOOLEAN] /\ pc' \in [Proc -> States]
      BY <2>5 DEF RenameRefused, Typed, TypeOK
    <3> QED
      BY <2>5, <3>1 DEF RenameRefused, Typed, TypeOK, Places
  <2>2. CASE SweepLock(s) \/ SweepUnlock(s)
    BY <2>2 DEF SweepLock, SweepUnlock, Unlocked, Typed, TypeOK, Places
  <2>3. CASE RmHome(s, "sweephome", "unlock")
    <3>1. Places'
      BY <2>3 DEF RmHome, Typed, TypeOK, Places
    <3> QED
      BY <2>3, <3>1, RmTyped DEF Typed
  <2> QED
    BY <1>3, <2>1, <2>2, <2>3, <2>4, <2>5 DEF SweepStep
<1>4. ASSUME NEW p \in Up \union Down, Lock(p) PROVE Typed'
  BY <1>4 DEF Lock, Locked, Typed, TypeOK, Places
<1>5. ASSUME NEW p \in Proc, Killed(p) PROVE Typed'
  BY <1>5 DEF Killed, Unlocked, Typed, TypeOK, Places
<1>6. ASSUME NEW u \in Up, Dies(u) PROVE Typed'
  BY <1>6 DEF Dies, Typed, TypeOK, Places
<1>7. ASSUME NEW p \in Proc, Orphan(p) PROVE Typed'
  <2>1. Places'
    BY <1>7 DEF Orphan, RmDir, RmHome, Typed, TypeOK, Places
  <2> QED
    BY <1>7, <2>1, RmTyped DEF Orphan, Typed
<1>8. CASE UNCHANGED vars
  BY <1>8 DEF vars, Typed, TypeOK, Places
<1> QED
  BY <1>1, <1>2, <1>3, <1>4, <1>5, <1>6, <1>7, <1>8 DEF Next

LEMMA AlwaysTyped == Spec => []Typed
<1>1. Init => Typed
  BY DEF Init, Typed, TypeOK, Places
<1> QED
  BY <1>1, StepTyped, PTL DEF Spec

\* Type correctness of a name's HOME and its boxes, in any runtime dirs.
THEOREM TypeCorrect == Spec => []TypeOK
<1>1. Typed => TypeOK
  BY DEF Typed
<1> QED
  BY <1>1, AlwaysTyped, PTL

-----------------------------------------------------------------------------
(* Steps *)

\* What an rm_box that takes the HOME takes is no linked box's: its own runtime dir has no box
\* left, and in another the HOME's box has no dir.
LEMMA TakesUnlinked ==
    ASSUME Boxes, NEW p \in Up \union Down, whose(At[p]), Bare(At[p])
    PROVE  home # NoHome => (\A r \in linked : dir[r] \in robbed) /\ runs \subseteq robbed
<1> SUFFICES ASSUME home # NoHome PROVE \A r \in linked : dir[r] \in robbed
  BY DEF Boxes
<1>1. ASSUME NEW r \in linked, dir[r] \notin robbed PROVE FALSE
  BY <1>1 DEF Boxes, whose, Bare
<1> QED
  BY <1>1

\* Every step of an `up`, and its box's death.
LEMMA UpKeeps ==
    ASSUME Typed, Typed', IInv, JudgedStands, NEW u \in Up, Lock(u) \/ UpStep(u) \/ Dies(u)
    PROVE  IInv'
<1>1. CASE Lock(u)
  <2>1. Holds'
    BY <1>1 DEF Lock, Locked, Typed, TypeOK, IInv, Holds
  <2>2. Boxes'
    BY <1>1 DEF Lock, Locked, IInv, Boxes
  <2>3. Progress'
    BY <1>1 DEF Lock, Locked, IInv, Progress, Quiet, Bare
  <2> QED
    BY <2>1, <2>2, <2>3 DEF IInv
<1>2. CASE Refused(u)
  <2>1. Holds'
    BY <1>2 DEF Refused, Unlocked, Typed, TypeOK, IInv, Holds
  <2>2. Boxes'
    BY <1>2 DEF Refused, IInv, Boxes
  <2>3. Progress'
    BY <1>2 DEF Refused, IInv, Progress, Quiet, Bare
  <2> QED
    BY <2>1, <2>2, <2>3 DEF IInv
<1>3. CASE Goahead(u)
  <2>1. Holds'
    BY <1>3 DEF Goahead, IInv, Holds
  <2>2. Boxes'
    BY <1>3 DEF Goahead, IInv, Boxes
  <2>3. Progress'
    BY <1>3 DEF Goahead, IInv, Boxes, Progress, Quiet, Bare
  <2> QED
    BY <2>1, <2>2, <2>3 DEF IInv
<1>4. CASE Judge(u, "clear", "cleardir")
  <2>1. Holds'
    BY <1>4 DEF Judge, IInv, Holds
  <2>2. Boxes'
    BY <1>4 DEF Judge, IInv, Boxes
  <2>3. Progress'
    BY <1>4 DEF Judge, IInv, Progress, Quiet, Bare
  <2> QED
    BY <2>1, <2>2, <2>3 DEF IInv
<1>5. CASE RmDir(u, "cleardir", "clearhome")
  <2>1. Holds'
    BY <1>5 DEF RmDir, IInv, Holds
  <2>2. Boxes'
    BY <1>5 DEF RmDir, IInv, Boxes, Progress, Quiet
  <2>3. Progress'
    BY <1>5 DEF RmDir, Typed, TypeOK, IInv, Holds, Progress, Quiet, Bare
  <2> QED
    BY <2>1, <2>2, <2>3 DEF IInv
<1>6. CASE RmHome(u, "clearhome", "mkdir")
  <2>1. Holds'
    BY <1>6 DEF RmHome, IInv, Holds
  <2>2. home # NoHome /\ takes[u] =>
          (\A r \in linked : dir[r] \in robbed) /\ runs \subseteq robbed
    BY <1>6, TakesUnlinked DEF RmHome, IInv, Progress, JudgedStands
  <2>3. Boxes'
    BY <1>6, <2>2 DEF RmHome, IInv, Boxes
  <2>4. Progress'
    BY <1>6 DEF RmHome, IInv, Progress, Quiet, Bare
  <2> QED
    BY <2>1, <2>3, <2>4 DEF IInv
<1>7. CASE MkDir(u)
  <2>1. Holds'
    BY <1>7 DEF MkDir, IInv, Holds
  <2>2. Boxes'
    BY <1>7 DEF MkDir, IInv, Boxes, Progress, Bare
  <2>3. Progress'
    BY <1>7 DEF MkDir, Typed, TypeOK, IInv, Holds, Progress, Quiet, Bare
  <2> QED
    BY <2>1, <2>2, <2>3 DEF IInv
<1>8. CASE MakeHome(u)
  <2>1. Holds'
    BY <1>8 DEF MakeHome, Typed, TypeOK, IInv, Holds
  <2>2. Boxes'
    BY <1>8 DEF MakeHome, IInv, Boxes, Progress
  <2>3. Progress'
    BY <1>8 DEF MakeHome, Typed, TypeOK, IInv, Progress, Quiet, Bare
  <2> QED
    BY <2>1, <2>2, <2>3 DEF IInv
<1>9. CASE Launch(u)
  <2>1. Holds'
    BY <1>9 DEF Launch, IInv, Holds
  <2>2. Boxes'
    BY <1>9 DEF Launch, IInv, Boxes, Progress
  <2>3. Progress'
    BY <1>9 DEF Launch, IInv, Holds, Progress, Quiet, Bare
  <2> QED
    BY <2>1, <2>2, <2>3 DEF IInv
<1>10. CASE Ready(u)
  <2>1. Holds'
    BY <1>10 DEF Ready, Unlocked, Typed, TypeOK, IInv, Holds
  <2>2. Boxes'
    BY <1>10 DEF Ready, IInv, Boxes
  <2>3. Progress'
    BY <1>10 DEF Ready, IInv, Progress, Quiet, Bare
  <2> QED
    BY <2>1, <2>2, <2>3 DEF IInv
<1>11. CASE Fails(u)
  <2>1. Holds'
    BY <1>11 DEF Fails, Unlocked, Typed, TypeOK, IInv, Holds
  <2>2. Boxes'
    BY <1>11 DEF Fails, IInv, Boxes
  <2>3. Progress'
    BY <1>11 DEF Fails, Typed, TypeOK, IInv, Boxes, Progress, Quiet, Bare
  <2> QED
    BY <2>1, <2>2, <2>3 DEF IInv
<1>12. CASE Judge(u, "undo", "undodir")
  <2>1. Holds'
    BY <1>12 DEF Judge, IInv, Holds
  <2>2. Boxes'
    BY <1>12 DEF Judge, IInv, Boxes
  <2>3. Progress'
    BY <1>12 DEF Judge, IInv, Progress, Quiet, Bare
  <2> QED
    BY <2>1, <2>2, <2>3 DEF IInv
<1>13. CASE RmDir(u, "undodir", "undohome")
  <2>1. Holds'
    BY <1>13 DEF RmDir, IInv, Holds
  <2>2. Boxes'
    BY <1>13 DEF RmDir, IInv, Boxes, Progress, Quiet
  <2>3. Progress'
    BY <1>13 DEF RmDir, Typed, TypeOK, IInv, Holds, Progress, Quiet, Bare
  <2> QED
    BY <2>1, <2>2, <2>3 DEF IInv
<1>14. CASE RmHome(u, "undohome", "end")
  <2>1. Holds'
    BY <1>14 DEF RmHome, Unlocked, Typed, TypeOK, IInv, Holds
  <2>2. home # NoHome /\ takes[u] =>
          (\A r \in linked : dir[r] \in robbed) /\ runs \subseteq robbed
    BY <1>14, TakesUnlinked DEF RmHome, IInv, Progress, JudgedStands
  <2>3. Boxes'
    BY <1>14, <2>2 DEF RmHome, IInv, Boxes
  <2>4. Progress'
    BY <1>14 DEF RmHome, IInv, Progress, Quiet, Bare
  <2> QED
    BY <2>1, <2>3, <2>4 DEF IInv
<1>15. CASE Dies(u)
  <2>1. Holds'
    BY <1>15 DEF Dies, IInv, Holds
  <2>2. Boxes'
    BY <1>15 DEF Dies, IInv, Boxes
  <2>3. Progress'
    BY <1>15 DEF Dies, IInv, Progress, Quiet, Bare
  <2> QED
    BY <2>1, <2>2, <2>3 DEF IInv
<1> QED
  BY <1>1, <1>2, <1>3, <1>4, <1>5, <1>6, <1>7, <1>8, <1>9, <1>10, <1>11, <1>12, <1>13, <1>14,
     <1>15 DEF UpStep, Clear, Undo

\* Every step of a `down`.
LEMMA DownKeeps ==
    ASSUME Typed, Typed', IInv, JudgedStands, NEW d \in Down, Lock(d) \/ DownStep(d)
    PROVE  IInv'
<1>1. CASE Lock(d)
  <2>1. Holds'
    BY <1>1 DEF Lock, Locked, Typed, TypeOK, IInv, Holds
  <2>2. Boxes'
    BY <1>1 DEF Lock, Locked, IInv, Boxes
  <2>3. Progress'
    BY <1>1 DEF Lock, Locked, IInv, Progress, Quiet, Bare
  <2> QED
    BY <2>1, <2>2, <2>3 DEF IInv
<1>2. CASE FoundNone(d)
  <2>1. Holds'
    BY <1>2 DEF FoundNone, Unlocked, Typed, TypeOK, IInv, Holds
  <2>2. Boxes'
    BY <1>2 DEF FoundNone, IInv, Boxes
  <2>3. Progress'
    BY <1>2 DEF FoundNone, IInv, Progress, Quiet, Bare
  <2> QED
    BY <2>1, <2>2, <2>3 DEF IInv
<1>3. CASE Kill(d)
  <2>1. Holds'
    BY <1>3 DEF Kill, IInv, Holds
  <2>2. Boxes'
    BY <1>3 DEF Kill, IInv, Boxes
  <2>3. Progress'
    BY <1>3 DEF Kill, IInv, Boxes, Progress, Quiet, Bare
  <2> QED
    BY <2>1, <2>2, <2>3 DEF IInv
<1>4. CASE Judge(d, "rm", "rmdir")
  <2>1. Holds'
    BY <1>4 DEF Judge, IInv, Holds
  <2>2. Boxes'
    BY <1>4 DEF Judge, IInv, Boxes
  <2>3. Progress'
    BY <1>4 DEF Judge, IInv, Progress, Quiet, Bare
  <2> QED
    BY <2>1, <2>2, <2>3 DEF IInv
<1>5. CASE RmDir(d, "rmdir", "rmhome")
  <2>1. Holds'
    BY <1>5 DEF RmDir, IInv, Holds
  <2>2. Boxes'
    BY <1>5 DEF RmDir, IInv, Boxes, Progress, Quiet
  <2>3. Progress'
    BY <1>5 DEF RmDir, Typed, TypeOK, IInv, Holds, Progress, Quiet, Bare
  <2> QED
    BY <2>1, <2>2, <2>3 DEF IInv
<1>6. CASE RmHome(d, "rmhome", "end")
  <2>1. Holds'
    BY <1>6 DEF RmHome, Unlocked, Typed, TypeOK, IInv, Holds
  <2>2. home # NoHome /\ takes[d] =>
          (\A r \in linked : dir[r] \in robbed) /\ runs \subseteq robbed
    BY <1>6, TakesUnlinked DEF RmHome, IInv, Progress, JudgedStands
  <2>3. Boxes'
    BY <1>6, <2>2 DEF RmHome, IInv, Boxes
  <2>4. Progress'
    BY <1>6 DEF RmHome, IInv, Progress, Quiet, Bare
  <2> QED
    BY <2>1, <2>3, <2>4 DEF IInv
<1> QED
  BY <1>1, <1>2, <1>3, <1>4, <1>5, <1>6 DEF DownStep, Remove

\* Every step of a sweep.
LEMMA SweepKeeps ==
    ASSUME Typed, Typed', IInv, JudgedStands, NEW s \in Sweep, SweepStep(s)
    PROVE  IInv'
<1>1. CASE JudgeGone(s)
  <2>1. Holds'
    BY <1>1 DEF JudgeGone, IInv, Holds
  <2>2. Boxes'
    BY <1>1 DEF JudgeGone, IInv, Boxes
  <2>3. Progress'
    BY <1>1 DEF JudgeGone, IInv, Progress, Quiet, Bare
  <2> QED
    BY <2>1, <2>2, <2>3 DEF IInv
<1>2. CASE Scan(s)
  <2>1. Holds'
    BY <1>2 DEF Scan, IInv, Holds
  <2>2. Boxes'
    BY <1>2 DEF Scan, IInv, Boxes
  <2>3. Progress'
    BY <1>2 DEF Scan, IInv, Progress, Quiet, Bare
  <2> QED
    BY <2>1, <2>2, <2>3 DEF IInv
<1>3. CASE SweepLock(s)
  <2>1. Holds'
    BY <1>3 DEF SweepLock, Typed, TypeOK, IInv, Holds
  <2>2. Boxes'
    BY <1>3 DEF SweepLock, IInv, Boxes
  <2>3. Progress'
    BY <1>3 DEF SweepLock, Typed, TypeOK, IInv, Progress, Quiet, Bare
  <2> QED
    BY <2>1, <2>2, <2>3 DEF IInv
<1>4. CASE Still(s)
  <2>1. Holds'
    BY <1>4 DEF Still, IInv, Holds
  <2>2. Boxes'
    BY <1>4 DEF Still, IInv, Boxes
  <2>3. Progress'
    BY <1>4 DEF Still, IInv, Progress, Quiet, Bare
  <2> QED
    BY <2>1, <2>2, <2>3 DEF IInv
<1>5. CASE Rename(s)
  <2>1. Holds'
    BY <1>5 DEF Rename, JudgedStands, IInv, Holds
  <2>2. Boxes'
    BY <1>5 DEF Rename, JudgedStands, IInv, Boxes, Progress
  <2>3. Progress'
    BY <1>5 DEF Rename, JudgedStands, IInv, Progress, Quiet, Bare
  <2> QED
    BY <2>1, <2>2, <2>3 DEF IInv
<1>6. CASE SweepUnlock(s)
  <2>1. Holds'
    BY <1>6 DEF SweepUnlock, Unlocked, Typed, TypeOK, IInv, Holds
  <2>2. Boxes'
    BY <1>6 DEF SweepUnlock, IInv, Boxes
  <2>3. Progress'
    BY <1>6 DEF SweepUnlock, IInv, Progress, Quiet, Bare
  <2> QED
    BY <2>1, <2>2, <2>3 DEF IInv
<1>7. CASE RenameRefused(s)
  <2>1. Holds'
    BY <1>7 DEF RenameRefused, IInv, Holds
  <2>2. Boxes'
    BY <1>7 DEF RenameRefused, IInv, Boxes
  <2>3. Progress'
    BY <1>7 DEF RenameRefused, IInv, Progress, Quiet, Bare
  <2> QED
    BY <2>1, <2>2, <2>3 DEF IInv
<1>8. CASE RmHome(s, "sweephome", "unlock")
  <2>1. Holds'
    BY <1>8 DEF RmHome, IInv, Holds
  <2>2. Boxes'
    BY <1>8 DEF RmHome, JudgedStands, IInv, Boxes, Progress
  <2>3. Progress'
    BY <1>8 DEF RmHome, IInv, Progress, Quiet, Bare
  <2> QED
    BY <2>1, <2>2, <2>3 DEF IInv
<1> QED
  BY <1>1, <1>2, <1>3, <1>4, <1>5, <1>6, <1>7, <1>8 DEF SweepStep

\* A SIGKILL at any step.
LEMMA KilledKeeps ==
    ASSUME Typed, Typed', IInv, NEW p \in Proc, Killed(p)
    PROVE  IInv'
<1>1. Holds'
  BY DEF Killed, Unlocked, Typed, TypeOK, IInv, Holds
<1>2. Boxes' /\ Progress'
  BY DEF Killed, Typed, TypeOK, IInv, Boxes, Progress, Quiet, Bare
<1> QED
  BY <1>1, <1>2 DEF IInv

\* The rm -rf of a killed command: what it takes, it takes from a box that is robbed then.
LEMMA OrphanKeeps ==
    ASSUME Typed, Typed', IInv, NEW p \in Proc, Orphan(p)
    PROVE  IInv'
<1>1. CASE p \in Up \union Down /\ RmDir(p, "orphdir", "orphhome")
  <2>1. Holds'
    BY <1>1 DEF RmDir, IInv, Holds
  <2>2. Boxes'
    BY <1>1 DEF RmDir, Typed, TypeOK, IInv, Boxes
  <2>3. Progress'
    BY <1>1 DEF RmDir, Typed, TypeOK, IInv, Progress, Quiet, Bare
  <2> QED
    BY <2>1, <2>2, <2>3 DEF IInv
<1>2. CASE RmHome(p, "orphhome", "dead")
  <2>1. Holds'
    BY <1>2 DEF RmHome, IInv, Holds
  <2>2. Boxes'
    BY <1>2 DEF RmHome, IInv, Boxes
  <2>3. Progress'
    BY <1>2 DEF RmHome, IInv, Progress, Quiet, Bare
  <2> QED
    BY <2>1, <2>2, <2>3 DEF IInv
<1> QED
  BY <1>1, <1>2 DEF Orphan

-----------------------------------------------------------------------------
(* What it gives *)

LEMMA InitHolds == Init => IInv
  BY DEF Init, IInv, Holds, Boxes, Progress

LEMMA Keeps == Typed /\ Typed' /\ IInv /\ JudgedStands /\ [Next]_vars => IInv'
<1> SUFFICES ASSUME Typed, Typed', IInv, JudgedStands, [Next]_vars PROVE IInv'
  OBVIOUS
<1>1. CASE Next
  BY <1>1, UpKeeps, DownKeeps, SweepKeeps, KilledKeeps, OrphanKeeps DEF Next
<1>2. CASE UNCHANGED vars
  BY <1>2 DEF vars, IInv, Holds, Boxes, Progress, Quiet, Bare
<1> QED
  BY <1>1, <1>2

\* In any runtime dirs, as long as what is about to be removed is still what was judged.
LEMMA Invariance == Spec /\ []JudgedStands => []IInv
  BY InitHolds, Keeps, AlwaysTyped, PTL DEF Spec

\* A box dir's `home` link leads to the HOME made for that box, whatever sweeps and other
\* commands of the name come in whatever runtime dirs, until the box is taken down, a HOME is
\* removed that came after the judgement, or the rm -rf of a killed command takes that box's
\* dir or HOME (ready.rs, rm_box).
THEOREM LinkedToOwn == Spec /\ []JudgedStands => []HomeLinked
<1>1. IInv => HomeLinked
  BY DEF IInv, Boxes, HomeLinked
<1> QED
  BY Invariance, <1>1, PTL

\* A box that runs has its HOME, under the same condition and but for the same boxes
\* (ready.rs, sweep_homes).
THEOREM RunningKept == Spec /\ []JudgedStands => []UsedKept
<1>1. IInv => UsedKept
  BY DEF IInv, Boxes, UsedKept
<1> QED
  BY Invariance, <1>1, PTL

-----------------------------------------------------------------------------
(* One runtime dir *)

\* The name's boxes are of runtime dir R, one before that left its HOME included.
OneRuntime(R) ==
    /\ R \in Runtime
    /\ \A p \in Up \union Down : At[p] = R
    /\ LeftFrom \subseteq {R}

\* The HOME there, and any that a sweep judged gone, is of R.
Here(R) ==
    /\ home # NoHome => home.rec = R
    /\ \A s \in Sweep : pc[s] \in Sweeping => judged[s] = R

LEMMA StepHere ==
    ASSUME NEW R, OneRuntime(R), Typed, Here(R), [Next]_vars
    PROVE  Here(R)'
<1> USE DEF OneRuntime
<1>1. ASSUME NEW u \in Up, UpStep(u) PROVE Here(R)'
  BY <1>1 DEF UpStep, Refused, Goahead, Clear, Undo, Judge, RmDir, RmHome, MkDir, MakeHome,
     Launch, Ready, Fails, Typed, TypeOK, Here
<1>2. ASSUME NEW d \in Down, DownStep(d) PROVE Here(R)'
  BY <1>2 DEF DownStep, FoundNone, Kill, Remove, Judge, RmDir, RmHome, Typed, TypeOK, Here
<1>3. ASSUME NEW s \in Sweep, SweepStep(s) PROVE Here(R)'
  BY <1>3 DEF SweepStep, JudgeGone, Scan, SweepLock, Still, Rename, RenameRefused,
     RmHome, SweepUnlock, Typed, TypeOK, Here
<1>4. ASSUME NEW p \in Proc, Killed(p) PROVE Here(R)'
  BY <1>4 DEF Killed, Typed, TypeOK, Here
<1>5. ASSUME NEW p \in Up \union Down, Lock(p) \/ Dies(p) PROVE Here(R)'
  BY <1>5 DEF Lock, Dies, Typed, TypeOK, Here
<1>6. ASSUME NEW p \in Proc, Orphan(p) PROVE Here(R)'
  BY <1>6 DEF Orphan, RmDir, RmHome, Typed, TypeOK, Here
<1>7. CASE UNCHANGED vars
  BY <1>7 DEF vars, Here
<1> QED
  BY <1>1, <1>2, <1>3, <1>4, <1>5, <1>6, <1>7 DEF Next

\* Where the ups and downs of the name run in one runtime dir, sweeps of others or not, what was
\* judged always stands: both properties hold, of every box that no killed command's rm -rf took
\* the dir or the HOME of.
THEOREM OneRuntimeKeeps ==
    ASSUME NEW R, OneRuntime(R)
    PROVE  Spec => [](HomeLinked /\ UsedKept)
<1>1. Init => Here(R)
  BY DEF Init, OneRuntime, Here
<1>2. Typed /\ Here(R) /\ [Next]_vars => Here(R)'
  BY StepHere
<1>3. Here(R) => JudgedStands
  BY DEF OneRuntime, Here, JudgedStands, whose
<1>4. Spec => []JudgedStands
  BY <1>1, <1>2, <1>3, AlwaysTyped, PTL DEF Spec
<1> QED
  BY <1>4, LinkedToOwn, RunningKept, PTL
=============================================================================
