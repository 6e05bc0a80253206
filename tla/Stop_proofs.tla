----------------------------- MODULE Stop_proofs -----------------------------
(***************************************************************************)
(* What a signal's stop keeps, for any undos and any number of signals.    *)
(*                                                                         *)
(* None of it is inductive: BusyAlone and StartsNothing rest on who has    *)
(* FOREGROUND and on STOPPING staying up once the thread has looked        *)
(* (LocksHeld, StaysDown), BusyAlone also on no Ctrl-C being waited out in *)
(* a command whose children take none (Untaken); MadeIsArmed and UndoWhole *)
(* rest on an undo being made or run by main only while main has UNDOING   *)
(* (UndosHeld).                                                            *)
(***************************************************************************)
EXTENDS Stop, TLAPS

Inside == {"in", "arm", "undo", "out"}

\* FOREGROUND and UNDOING are had by whoever is where it has them.
LocksHeld ==
    /\ foreground = "main" <=> mpc \in Running
    /\ tpc = "rest" => foreground = "thread"
    /\ foreground = "thread" => tpc = "rest" \/ Looked
    /\ undoing = "main" <=> mpc \in Inside
    /\ undoing = "thread" <=> tpc = "undoing"

\* Once the thread is about a signal main sees it; once it has looked, main is shut
\* out of FOREGROUND, or was given up in the end of a child, and parks there.
StaysDown ==
    /\ tpc \notin {"read", "decide"} => STOPPING
    /\ Looked => foreground = "thread" \/ mpc \in {"child", "reaped", "unlock", "endpark"}

\* No Ctrl-C is waited out where no child takes one, so nothing lets main go on.
Untaken ==
    /\ busy => ~takes
    /\ ~takes =>
        /\ ~FG_ACTIVE /\ ~SIG_BUSY /\ tpc \notin {"ctrlc", "goeson"}
        /\ mpc \notin {"unpark", "endunpark"}
        /\ mpc \in {"park", "endpark"} => STOPPING

\* A main in a busy section that the thread found at rest stays there.
Rested ==
    Looked /\ busy /\ ~late /\ ~graceless /\ foreground = "thread" => mpc \in Resting

\* What each undo's state says of main, of the thread and of its trap.
UndosHeld ==
    /\ mpc \in {"want", "in", "arm", "undo"} => hand \in Trap
    /\ mpc = "arm" => trap[hand] = "made"
    /\ mpc = "undo" => trap[hand] = "run"
    /\ \A x \in Trap :
        /\ trap[x] = "made" => mpc = "arm" /\ x = hand
        /\ trap[x] = "run" => mpc = "undo" /\ x = hand
        /\ trap[x] = "queued" => tpc = "undoing"
        /\ trap[x] = "armed" => x \in held
        /\ Begun /\ trap[x] \in {"made", "armed", "run"} => x \in since

\* How the process ends.
Ends ==
    /\ mpc = "exit" => held = {}
    /\ ended = "main" => mpc = "exit" /\ ~STOPPING
    /\ ended = "signal" => tpc = "die"

IInv ==
    /\ TypeOK /\ LocksHeld /\ StaysDown /\ Untaken /\ Rested /\ UndosHeld /\ Ends

USE StopAssumption
USE DEF section, aim, undos, fg, flags, locks, thread, signals, others, MainUnchanged
USE DEF Goes, Turns, At, parks, main_step, main_rests, code_active, Looked, Begun
USE DEF MainStates, ThreadStates, TrapStates, Parked, Resting, Running, Undoing
USE DEF Sig, Nobody, Inside
-----------------------------------------------------------------------------
(* Steps *)

\* The type invariant, its Booleans and the rest of it.
FlagsTyped ==
    /\ takes \in BOOLEAN /\ busy \in BOOLEAN /\ late \in BOOLEAN
    /\ int \in BOOLEAN /\ graceless \in BOOLEAN
    /\ FG_ACTIVE \in BOOLEAN /\ FG_INT \in BOOLEAN
    /\ STOPPING \in BOOLEAN /\ SIG_BUSY \in BOOLEAN

RestTyped ==
    /\ code \in SUBSET Trap
    /\ mpc \in MainStates
    /\ hand \in Trap \union {Nobody} /\ doing \in {"make", "drop", "forget"}
    /\ held \subseteq Trap /\ trap \in [Trap -> TrapStates] /\ since \subseteq Trap
    /\ child \in {"none", "runs", "done", "int"}
    /\ foreground \in {Nobody, "main", "thread"}
    /\ undoing \in {Nobody, "main", "thread"}
    /\ tpc \in ThreadStates /\ sig \in Sig
    /\ hpc \in [Sig -> {"off", "busy", "stop", "write"}]
    /\ pipe \in Seq(Sig) /\ sent \in 0 .. MaxSignals
    /\ ended \in {"no", "main", "signal"}

\* TypeOK is the two together, primed or not.
LEMMA TypeParts == /\ FlagsTyped /\ RestTyped <=> TypeOK
                   /\ (FlagsTyped /\ RestTyped <=> TypeOK)'
BY Zenon DEF FlagsTyped, RestTyped, TypeOK

\* An undo's turn leaves each undo in a state there is.
LEMMA TurnsTyped ==
    ASSUME TypeOK, NEW x \in Trap, NEW s \in TrapStates, Turns(x, s)
    PROVE  trap' \in [Trap -> TrapStates] /\ since' \subseteq Trap
BY DEF TypeOK

\* Every step leaves each variable of its type.
LEMMA TypeKept ==
    ASSUME IInv, Next
    PROVE  TypeOK'
<1> USE DEF IInv, TypeOK
<1>1. CASE Busy
  BY <1>1 DEF Busy
<1>2. CASE Work
  BY <1>2 DEF Work
<1>3. CASE Sleep
  BY <1>3 DEF Sleep
<1>4. CASE Exit
  BY <1>4 DEF Exit
<1>5. CASE Command
  BY <1>5 DEF Command
<1>6. CASE Unpark
  BY <1>6 DEF Unpark
<1>7. CASE Unrest
  BY <1>7 DEF Unrest
<1>8. CASE Exits
  BY <1>8 DEF Exits
<1>9. CASE Enter
  BY <1>9 DEF Enter
<1>10. CASE Make
  <2>1. hand \in Trap /\ TypeOK
    BY <1>10 DEF Make, IInv, UndosHeld
  <2>2. trap' \in [Trap -> TrapStates] /\ since' \subseteq Trap
    BY <2>1, <1>10, TurnsTyped DEF Make
  <2> QED
    BY <2>1, <2>2, <1>10 DEF Make
<1>11. CASE Armed
  <2>1. hand \in Trap /\ TypeOK
    BY <1>11 DEF Armed, IInv, UndosHeld
  <2>2. trap' \in [Trap -> TrapStates] /\ since' \subseteq Trap
    BY <2>1, <1>11, TurnsTyped DEF Armed
  <2> QED
    BY <2>1, <2>2, <1>11 DEF Armed
<1>12. CASE Drop
  BY <1>12 DEF Drop
<1>13. CASE Undone
  <2>1. hand \in Trap /\ TypeOK
    BY <1>13 DEF Undone, IInv, UndosHeld
  <2>2. trap' \in [Trap -> TrapStates] /\ since' \subseteq Trap
    BY <2>1, <1>13, TurnsTyped DEF Undone
  <2> QED
    BY <2>1, <2>2, <1>13 DEF Undone
<1>14. CASE Forget
  BY <1>14 DEF Forget
<1>15. CASE Leave
  BY <1>15 DEF Leave
<1>16. CASE ToLock
  BY <1>16 DEF ToLock
<1>17. CASE Lock
  BY <1>17 DEF Lock
<1>18. CASE Locked
  <2>1. FlagsTyped'
    BY <1>18, Zenon DEF FlagsTyped, Locked, IInv, TypeOK
  <2>2. RestTyped'
    BY <1>18, SMT DEF RestTyped, Locked, IInv, TypeOK
  <2> QED
    BY <2>1, <2>2, TypeParts
<1>19. CASE Spawn
  <2>1. FlagsTyped'
    BY <1>19, Zenon DEF FlagsTyped, Spawn, IInv, TypeOK
  <2>2. RestTyped'
    BY <1>19, SMT DEF RestTyped, Spawn, IInv, TypeOK
  <2> QED
    BY <2>1, <2>2, TypeParts
<1>20. CASE Spawned
  BY <1>20 DEF Spawned
<1>21. CASE Reap
  BY <1>21 DEF Reap
<1>22. CASE Reaped
  <2>1. FlagsTyped'
    BY <1>22, Zenon DEF FlagsTyped, Reaped, IInv, TypeOK
  <2>2. RestTyped'
    BY <1>22, SMT DEF RestTyped, Reaped, IInv, TypeOK
  <2> QED
    BY <2>1, <2>2, TypeParts
<1>23. CASE Unlock
  <2>1. FlagsTyped'
    BY <1>23, Zenon DEF FlagsTyped, Unlock, IInv, TypeOK
  <2>2. RestTyped'
    BY <1>23, SMT DEF RestTyped, Unlock, IInv, TypeOK
  <2> QED
    BY <2>1, <2>2, TypeParts
<1>24. CASE ChildEnds
  BY <1>24 DEF ChildEnds
<1>25. CASE Read
  BY <1>25 DEF Read
<1>26. CASE Decide
  BY <1>26 DEF Decide
<1>27. CASE ChildOver
  BY <1>27 DEF ChildOver
<1>28. CASE Another
  BY <1>28 DEF Another
<1>29. CASE GoesOn
  <2>1. FlagsTyped'
    BY <1>29, Zenon DEF FlagsTyped, GoesOn, IInv, TypeOK
  <2>2. RestTyped'
    BY <1>29, SMT DEF RestTyped, GoesOn, IInv, TypeOK
  <2> QED
    BY <2>1, <2>2, TypeParts
<1>30. CASE Over
  BY <1>30 DEF Over
<1>31. CASE Kill
  BY <1>31 DEF Kill
<1>32. CASE GiveUp
  BY <1>32 DEF GiveUp
<1>33. CASE Rest
  BY <1>33 DEF Rest
<1>34. CASE RestLong
  BY <1>34 DEF RestLong
<1>35. CASE TakeAll
  BY <1>35 DEF TakeAll
<1>36. CASE AllRun
  BY <1>36 DEF AllRun
<1>37. CASE Die
  BY <1>37 DEF Die
<1>38. ASSUME NEW x \in Trap, Arm(x)
      PROVE  TypeOK'
  BY <1>38 DEF Arm
<1>39. ASSUME NEW x \in Trap, RunOne(x)
      PROVE  TypeOK'
  BY <1>39 DEF RunOne
<1>40. ASSUME NEW s \in Sig, Send(s)
      PROVE  TypeOK'
  BY <1>40 DEF Send
<1>41. ASSUME NEW s \in Sig, SetBusy(s)
      PROVE  TypeOK'
  BY <1>41 DEF SetBusy
<1>42. ASSUME NEW s \in Sig, SetStopping(s)
      PROVE  TypeOK'
  BY <1>42 DEF SetStopping
<1>43. ASSUME NEW s \in Sig, Write(s)
      PROVE  TypeOK'
  BY <1>43 DEF Write
<1>44. ASSUME NEW x \in Trap, NEW what \in {"make", "drop", "forget"}, Want(x, what)
      PROVE  TypeOK'
  BY <1>44 DEF Want
<1> QED
  BY <1>1, <1>2, <1>3, <1>4, <1>5, <1>6, <1>7, <1>8, <1>9, <1>10, <1>11, <1>12,
     <1>13, <1>14, <1>15, <1>16, <1>17, <1>18, <1>19, <1>20, <1>21, <1>22, <1>23,
     <1>24, <1>25, <1>26, <1>27, <1>28, <1>29, <1>30, <1>31, <1>32, <1>33, <1>34,
     <1>35, <1>36, <1>37, <1>38, <1>39, <1>40, <1>41, <1>42, <1>43, <1>44 DEF Next,
     MainBegins, MainGoesOn, Thread, Handler

\* Every step keeps what LocksHeld, StaysDown, Untaken, Rested, UndosHeld and Ends say.
LEMMA InvKept ==
    ASSUME IInv, Runs, Next
    PROVE  IInv'
<1> USE DEF Runs, IInv, TypeOK, LocksHeld, StaysDown, Untaken, Rested, UndosHeld, Ends
<1>1. CASE Busy
  BY <1>1, TypeKept DEF Busy
<1>2. CASE Work
  BY <1>2, TypeKept DEF Work
<1>3. CASE Sleep
  BY <1>3, TypeKept DEF Sleep
<1>4. CASE Exit
  BY <1>4, TypeKept DEF Exit
<1>5. CASE Command
  BY <1>5, TypeKept DEF Command
<1>6. CASE Unpark
  BY <1>6, TypeKept DEF Unpark
<1>7. CASE Unrest
  BY <1>7, TypeKept DEF Unrest
<1>8. CASE Exits
  BY <1>8, TypeKept DEF Exits
<1>9. CASE Enter
  BY <1>9, TypeKept DEF Enter
<1>10. CASE Make
  BY <1>10, TypeKept DEF Make
<1>11. CASE Armed
  BY <1>11, TypeKept DEF Armed
<1>12. CASE Drop
  BY <1>12, TypeKept DEF Drop
<1>13. CASE Undone
  BY <1>13, TypeKept DEF Undone
<1>14. CASE Forget
  BY <1>14, TypeKept DEF Forget
<1>15. CASE Leave
  BY <1>15, TypeKept DEF Leave
<1>16. CASE ToLock
  BY <1>16, TypeKept DEF ToLock
<1>17. CASE Lock
  BY <1>17, TypeKept DEF Lock
<1>18. CASE Locked
  BY <1>18, TypeKept DEF Locked
<1>19. CASE Spawn
  BY <1>19, TypeKept DEF Spawn
<1>20. CASE Spawned
  BY <1>20, TypeKept DEF Spawned
<1>21. CASE Reap
  BY <1>21, TypeKept DEF Reap
<1>22. CASE Reaped
  BY <1>22, TypeKept DEF Reaped
<1>23. CASE Unlock
  BY <1>23, TypeKept DEF Unlock
<1>24. CASE ChildEnds
  BY <1>24, TypeKept DEF ChildEnds
<1>25. CASE Read
  BY <1>25, TypeKept DEF Read
<1>26. CASE Decide
  BY <1>26, TypeKept DEF Decide
<1>27. CASE ChildOver
  BY <1>27, TypeKept DEF ChildOver
<1>28. CASE Another
  BY <1>28, TypeKept DEF Another
<1>29. CASE GoesOn
  BY <1>29, TypeKept DEF GoesOn
<1>30. CASE Over
  BY <1>30, TypeKept DEF Over
<1>31. CASE Kill
  BY <1>31, TypeKept DEF Kill
<1>32. CASE GiveUp
  BY <1>32, TypeKept DEF GiveUp
<1>33. CASE Rest
  BY <1>33, TypeKept DEF Rest
<1>34. CASE RestLong
  BY <1>34, TypeKept DEF RestLong
<1>35. CASE TakeAll
  BY <1>35, TypeKept DEF TakeAll
<1>36. CASE AllRun
  BY <1>36, TypeKept DEF AllRun
<1>37. CASE Die
  BY <1>37, TypeKept DEF Die
<1>38. ASSUME NEW x \in Trap, Arm(x)
      PROVE  IInv'
  BY <1>38, TypeKept DEF Arm
<1>39. ASSUME NEW x \in Trap, RunOne(x)
      PROVE  IInv'
  BY <1>39, TypeKept DEF RunOne
<1>40. ASSUME NEW s \in Sig, Send(s)
      PROVE  IInv'
  BY <1>40, TypeKept DEF Send
<1>41. ASSUME NEW s \in Sig, SetBusy(s)
      PROVE  IInv'
  BY <1>41, TypeKept DEF SetBusy
<1>42. ASSUME NEW s \in Sig, SetStopping(s)
      PROVE  IInv'
  BY <1>42, TypeKept DEF SetStopping
<1>43. ASSUME NEW s \in Sig, Write(s)
      PROVE  IInv'
  BY <1>43, TypeKept DEF Write
<1>44. ASSUME NEW x \in Trap, NEW what \in {"make", "drop", "forget"}, Want(x, what)
      PROVE  IInv'
  BY <1>44, TypeKept DEF Want
<1> QED
  BY <1>1, <1>2, <1>3, <1>4, <1>5, <1>6, <1>7, <1>8, <1>9, <1>10, <1>11, <1>12,
     <1>13, <1>14, <1>15, <1>16, <1>17, <1>18, <1>19, <1>20, <1>21, <1>22, <1>23,
     <1>24, <1>25, <1>26, <1>27, <1>28, <1>29, <1>30, <1>31, <1>32, <1>33, <1>34,
     <1>35, <1>36, <1>37, <1>38, <1>39, <1>40, <1>41, <1>42, <1>43, <1>44 DEF Next,
     MainBegins, MainGoesOn, Thread, Handler

-----------------------------------------------------------------------------
(* The invariant *)

\* It holds at the start, main in none of its steps and the thread reading.
LEMMA InitHolds == Init => IInv
<1> SUFFICES ASSUME Init PROVE IInv
  OBVIOUS
<1>1. FlagsTyped
  BY Zenon DEF Init, FlagsTyped
<1>2. RestTyped
  BY DEF Init, RestTyped
<1>3. LocksHeld /\ StaysDown /\ Untaken /\ Rested /\ UndosHeld /\ Ends
  BY DEF Init, LocksHeld, StaysDown, Untaken, Rested, UndosHeld, Ends
<1> QED
  BY <1>1, <1>2, <1>3, TypeParts DEF IInv

\* And in every state after: nothing steps once the process has ended.
LEMMA Invariance == Spec => []IInv
<1>1. IInv /\ [Next]_vars => IInv'
  <2> SUFFICES ASSUME IInv, [Next]_vars PROVE IInv'
    OBVIOUS
  <2>1. CASE Next
    <3>1. Runs
      BY <2>1 DEF Next
    <3> QED
      BY <2>1, <3>1, InvKept
  <2>2. CASE UNCHANGED vars
    BY <2>2 DEF vars, IInv, TypeOK, LocksHeld, StaysDown, Untaken, Rested,
         UndosHeld, Ends
  <2> QED
    BY <2>1, <2>2
<1> QED
  BY InitHolds, <1>1, PTL DEF Spec

-----------------------------------------------------------------------------
(* What it gives *)

\* Type correctness of a command and its signals' stop, for any undos.
THEOREM TypeCorrect == Spec => []TypeOK
<1>1. IInv => TypeOK
  BY DEF IInv
<1> QED
  BY Invariance, <1>1, PTL

\* A signal's undo runs alongside no busy section that had begun when its thread
\* looked for one, the graces aside: FOREGROUND and STOPPING keep main at rest.
THEOREM BusyUndoneAlone == Spec => []BusyAlone
<1>1. IInv => BusyAlone
  BY DEF IInv, Rested, BusyAlone
<1> QED
  BY Invariance, <1>1, PTL

\* However the process ends, what was armed or made by the time a signal's undo began
\* is undone whole, by main or by the thread, or was done with.
THEOREM UndoneWhole == Spec => []UndoWhole
<1>1. IInv => UndoWhole
  <2> SUFFICES ASSUME IInv, ended # "no", NEW x \in Trap \ since
               PROVE  trap[x] \in {"none", "undone", "forgotten"}
    BY DEF UndoWhole
  <2>1. trap[x] \in TrapStates
    BY DEF IInv, TypeOK
  <2>2. CASE ended = "main"
    BY <2>1, <2>2 DEF IInv, Ends, UndosHeld, StaysDown
  <2>3. CASE ended = "signal"
    BY <2>1, <2>3 DEF IInv, Ends, UndosHeld
  <2> QED
    BY <2>2, <2>3 DEF IInv, TypeOK
<1> QED
  BY Invariance, <1>1, PTL

\* No child of main's starts once the undo of a signal has begun: main is shut out of
\* FOREGROUND, or was given up in a child's end and parks after it.
THEOREM NothingStarts == Spec => StartsNothing
<1>1. IInv /\ [Next]_vars => [Begun => ~(child = "none" /\ child' = "runs")]_vars
  <2> SUFFICES ASSUME IInv, Next, Begun, child = "none", child' = "runs"
               PROVE  FALSE
    OBVIOUS
  <2>1. Spawn
    BY DEF Next, MainBegins, MainGoesOn, Thread, Handler, Busy, Work, Sleep, Exit,
           Command, Arm, Want, Unpark, Unrest, Exits, Enter, Make, Armed, Drop,
           Undone, Forget, Leave, ToLock, Lock, Locked, Spawned, Reap, Reaped,
           Unlock, ChildEnds, Read, Decide, ChildOver, Another, GoesOn, Over, Kill,
           GiveUp, Rest, RestLong, TakeAll, RunOne, AllRun, Die, Send, SetBusy,
           SetStopping, Write
  <2> QED
    BY <2>1 DEF Spawn, IInv, LocksHeld, StaysDown
<1> QED
  BY Invariance, <1>1, PTL DEF Spec, StartsNothing

\* A signal's undo, as it begins, finds every thing that was made armed: main has
\* UNDOING from the making to the arming.
THEOREM MadeArmed == Spec => MadeIsArmed
<1>1. IInv /\ [Next]_vars
        => [tpc = "undo" /\ tpc' = "undoing" => \A x \in Trap : trap[x] # "made"]_vars
  <2> SUFFICES ASSUME IInv, Next, tpc = "undo", tpc' = "undoing", NEW x \in Trap
               PROVE  trap[x] # "made"
    OBVIOUS
  <2>1. TakeAll
    BY DEF Next, MainBegins, MainGoesOn, Thread, Handler, Busy, Work, Sleep, Exit,
           Command, Arm, Want, Unpark, Unrest, Exits, Enter, Make, Armed, Drop,
           Undone, Forget, Leave, ToLock, Lock, Locked, Spawn, Spawned, Reap,
           Reaped, Unlock, ChildEnds, Read, Decide, ChildOver, Another, GoesOn,
           Over, Kill, GiveUp, Rest, RestLong, RunOne, AllRun, Die, Send, SetBusy,
           SetStopping, Write
  <2> QED
    BY <2>1 DEF TakeAll, IInv, LocksHeld, UndosHeld
<1> QED
  BY Invariance, <1>1, PTL DEF Spec, MadeIsArmed
=============================================================================
