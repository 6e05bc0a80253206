---------------------------- MODULE Save_proofs -----------------------------
(***************************************************************************)
(* What saves keep of the boxes they pause and of each other's work, for   *)
(* any saves, boxes, names and runtime dirs, and any number of faults.     *)
(*                                                                         *)
(* PausedHeld rests on who has the box's processes and a watch at each     *)
(* step (Held), and on a trap's undo being a live save's (Armed);          *)
(* CopyStill on no copying being started once a signal is undone (Armed)   *)
(* and on what was stopped (Still); KeptUnforced on what a save that       *)
(* looked may still find at its name (Found), as no save under its own    *)
(* lock can have put it there (Locked).                                    *)
(***************************************************************************)
EXTENDS Save, TLAPS

USE SaveAssumption DEF LockOf, Locks

\* A trap is armed past the pinning, its undo that of a process there; cps run in no undo.
Armed ==
    \A s \in Savers :
        /\ spc[s] \in {"idle", "lock", "look", "pin"} => undo[s] = "unarmed"
        /\ spc[s] \in {"mk", "stop", "copy", "copying"} => undo[s] # "unarmed"
        /\ undo[s] \in {"armed", "let_go", "rm", "remove"} => Lives(s)
        /\ spc[s] = "copying" => undo[s] = "armed"

\* Who has a box's processes will let them go, and has a watch for when it is killed.
Held ==
    /\ \A s \in pins : s \in watch /\ undo[s] \in {"armed", "let_go"}
    /\ \A s \in watch : spc[s] = "dead" \/ s \in pins
    /\ \A s \in Savers :
          (spc[s] \in {"mk", "stop", "copy", "copying"} /\ undo[s] = "armed") => s \in pins
    /\ \A b \in paused : \E s \in watch : BoxOf[s] = b

\* A save has its lock from its look to its last rename.
Locked ==
    \A s \in Savers :
        spc[s] \in {"look", "pin", "mk", "stop", "copy", "copying", "parked", "cont", "json",
                    "aside", "in", "rmold", "failed"} => slock[LockOf(s)] = s

\* What a save without --force may find at its name once it has looked; no save has moved
\* anything aside so far.
Found ==
    /\ \A s \in Savers \ Forced :
          spc[s] \in {"pin", "mk", "stop", "copy", "copying", "cont", "json", "aside"} =>
              dest[NameOf[s]] = None \/ MadeElsewhere(dest[NameOf[s]], s)
    /\ \A s \in Savers :
          spc[s] \in {"idle", "lock", "look", "pin", "mk", "stop", "copy", "copying", "parked",
                      "cont", "json", "aside"} => old[s] = None

\* A box that is copied by one save only is stopped from its SIGSTOP on.
Still ==
    \A s \in Savers :
        (/\ spc[s] \in {"copy", "copying"} /\ undo[s] = "armed"
         /\ Alone(s) /\ home[BoxOf[s]] = "there") => BoxOf[s] \in paused

SaveInv == SaveTypeOK /\ Armed /\ Held /\ Locked /\ Found /\ Still

-----------------------------------------------------------------------------
\* A process that ends gives back no lock but its own.
LEMMA ProcessLocked ==
    ASSUME SaveInv, NEW s \in Savers, NEW end \in {"ended", "dead"}, Process(s, end)
    PROVE  Locked'
<1> SUFFICES ASSUME NEW o \in Savers,
                    spc'[o] \in {"look", "pin", "mk", "stop", "copy", "copying", "parked", "cont",
                                "json", "aside", "in", "rmold", "failed"}
             PROVE  slock'[LockOf(o)] = o
  BY DEF Locked
<1>1. o # s /\ spc'[o] = spc[o]
  BY DEF Process, SaveInv, SaveTypeOK
<1>2. slock[LockOf(o)] = o
  BY <1>1 DEF SaveInv, Locked
<1> QED
  BY <1>1, <1>2 DEF Process

LEMMA InitSaveInv == SaveInit => SaveInv
<1> SUFFICES ASSUME SaveInit PROVE SaveInv  OBVIOUS
<1>1. SaveTypeOK  BY DEF SaveInit, SaveTypeOK, SavePcs
<1>2. Armed /\ Held /\ Locked /\ Found /\ Still
  BY DEF SaveInit, Armed, Held, Locked, Found, Still
<1> QED  BY <1>1, <1>2 DEF SaveInv

LEMMA NextSaveInv == SaveInv /\ [SaveNext]_saveVars => SaveInv'
<1> SUFFICES ASSUME SaveInv, [SaveNext]_saveVars PROVE SaveInv'  OBVIOUS
<1> USE DEF SaveInv, SavePcs
<1>1. ASSUME NEW s \in Savers, SaveStart(s) PROVE SaveInv'
  <2>1. SaveTypeOK'  BY <1>1 DEF SaveStart, hold, boxes, files, Goes, SaveTypeOK
  <2>2. Armed'
    BY <1>1 DEF SaveStart, hold, boxes, files, Goes, SaveTypeOK, Armed, Lives
  <2>3. Held'
    BY <1>1 DEF SaveStart, hold, boxes, files, Goes, SaveTypeOK, Armed, Held, Lives
  <2>4. Locked'  BY <1>1 DEF SaveStart, hold, boxes, files, Goes, SaveTypeOK, Locked
  <2>5. Found'
    BY <1>1 DEF SaveStart, hold, boxes, files, Goes, SaveTypeOK, Locked, Found,
       MadeElsewhere
  <2>6. Still'
    BY <1>1 DEF SaveStart, hold, boxes, files, Goes, SaveTypeOK, Armed, Held,
       Still, Alone
  <2> QED  BY <2>1, <2>2, <2>3, <2>4, <2>5, <2>6
<1>2. ASSUME NEW s \in Savers, SaveLock(s) PROVE SaveInv'
  <2>1. SaveTypeOK'
    BY <1>2 DEF SaveLock, hold, boxes, files, Goes, Gone, Lives, SaveTypeOK
  <2>2. Armed'
    BY <1>2 DEF SaveLock, hold, boxes, files, Goes, Gone, Lives, SaveTypeOK, Armed
  <2>3. Held'
    BY <1>2 DEF SaveLock, hold, boxes, files, Goes, Gone, Lives, SaveTypeOK, Armed,
       Held
  <2>4. Locked'
    <3>1. \A t \in Savers : LockOf(t) \in Locks  OBVIOUS
    <3>2. \A t \in Savers \ {s} : spc'[t] = spc[t]
      BY <1>2 DEF SaveLock, Goes, SaveTypeOK
    <3> HIDE DEF LockOf, Locks
    <3>3. slock'[LockOf(s)] = s  BY <1>2, <3>1 DEF SaveLock, SaveTypeOK
    <3>4. ASSUME NEW t \in Savers \ {s}, slock[LockOf(t)] = t
          PROVE  slock'[LockOf(t)] = t
      BY <1>2, <3>1, <3>4 DEF SaveLock, SaveTypeOK
    <3> QED  BY <3>2, <3>3, <3>4 DEF Locked
  <2>5. Found'
    BY <1>2
    DEF SaveLock, hold, boxes, files, Goes, Gone, Lives, SaveTypeOK, Locked, Found, MadeElsewhere
  <2>6. Still'
    BY <1>2
    DEF SaveLock, hold, boxes, files, Goes, Gone, Lives, SaveTypeOK, Armed, Held, Still, Alone
  <2> QED  BY <2>1, <2>2, <2>3, <2>4, <2>5, <2>6
<1>3. ASSUME NEW s \in Savers, SaveRefused(s) PROVE SaveInv'
  <2>1. SaveTypeOK'  BY <1>3 DEF SaveRefused, hold, boxes, files, SaveTypeOK
  <2>2. Armed'  BY <1>3 DEF SaveRefused, hold, boxes, files, SaveTypeOK, Armed, Lives
  <2>3. Held'
    BY <1>3 DEF SaveRefused, hold, boxes, files, SaveTypeOK, Armed, Held, Lives
  <2>4. Locked'  BY <1>3, ProcessLocked DEF SaveRefused, Process
  <2>5. Found'
    BY <1>3 DEF SaveRefused, hold, boxes, files, SaveTypeOK, Locked, Found,
       MadeElsewhere
  <2>6. Still'
    BY <1>3 DEF SaveRefused, hold, boxes, files, SaveTypeOK, Armed, Held, Still,
       Alone
  <2> QED  BY <2>1, <2>2, <2>3, <2>4, <2>5, <2>6
<1>4. ASSUME NEW s \in Savers, SaveLook(s) PROVE SaveInv'
  <2>1. SaveTypeOK'  BY <1>4 DEF SaveLook, hold, boxes, files, Goes, SaveTypeOK
  <2>2. Armed'  BY <1>4 DEF SaveLook, hold, boxes, files, Goes, SaveTypeOK, Armed, Lives
  <2>3. Held'
    BY <1>4 DEF SaveLook, hold, boxes, files, Goes, SaveTypeOK, Armed, Held, Lives
  <2>4. Locked'  BY <1>4 DEF SaveLook, hold, boxes, files, Goes, SaveTypeOK, Locked
  <2>5. Found'
    BY <1>4 DEF SaveLook, hold, boxes, files, Goes, SaveTypeOK, Locked, Found,
       MadeElsewhere
  <2>6. Still'
    BY <1>4 DEF SaveLook, hold, boxes, files, Goes, SaveTypeOK, Armed, Held, Still,
       Alone
  <2> QED  BY <2>1, <2>2, <2>3, <2>4, <2>5, <2>6
<1>5. ASSUME NEW s \in Savers, SavePin(s) PROVE SaveInv'
  <2>1. SaveTypeOK'  BY <1>5 DEF SavePin, hold, boxes, files, Goes, SaveTypeOK
  <2>2. Armed'  BY <1>5 DEF SavePin, hold, boxes, files, Goes, SaveTypeOK, Armed, Lives
  <2>3. Held'
    BY <1>5 DEF SavePin, hold, boxes, files, Goes, SaveTypeOK, Armed, Held, Lives
  <2>4. Locked'  BY <1>5 DEF SavePin, hold, boxes, files, Goes, SaveTypeOK, Locked
  <2>5. Found'
    BY <1>5 DEF SavePin, hold, boxes, files, Goes, SaveTypeOK, Locked, Found,
       MadeElsewhere
  <2>6. Still'
    BY <1>5 DEF SavePin, hold, boxes, files, Goes, SaveTypeOK, Armed, Held, Still,
       Alone
  <2> QED  BY <2>1, <2>2, <2>3, <2>4, <2>5, <2>6
<1>6. ASSUME NEW s \in Savers, BoxForks(s) PROVE SaveInv'
  <2>1. SaveTypeOK'  BY <1>6 DEF BoxForks, hold, boxes, files, SaveTypeOK
  <2>2. Armed'  BY <1>6 DEF BoxForks, hold, boxes, files, SaveTypeOK, Armed, Lives
  <2>3. Held'  BY <1>6 DEF BoxForks, hold, boxes, files, SaveTypeOK, Armed, Held, Lives
  <2>4. Locked'  BY <1>6 DEF BoxForks, hold, boxes, files, SaveTypeOK, Locked
  <2>5. Found'
    BY <1>6 DEF BoxForks, hold, boxes, files, SaveTypeOK, Locked, Found,
       MadeElsewhere
  <2>6. Still'
    BY <1>6 DEF BoxForks, hold, boxes, files, SaveTypeOK, Armed, Held, Still, Alone
  <2> QED  BY <2>1, <2>2, <2>3, <2>4, <2>5, <2>6
<1>7. ASSUME NEW s \in Savers, SaveMk(s) PROVE SaveInv'
  <2>1. SaveTypeOK'  BY <1>7 DEF SaveMk, hold, boxes, files, Goes, SaveTypeOK
  <2>2. Armed'  BY <1>7 DEF SaveMk, hold, boxes, files, Goes, SaveTypeOK, Armed, Lives
  <2>3. Held'
    BY <1>7 DEF SaveMk, hold, boxes, files, Goes, SaveTypeOK, Armed, Held, Lives
  <2>4. Locked'  BY <1>7 DEF SaveMk, hold, boxes, files, Goes, SaveTypeOK, Locked
  <2>5. Found'
    BY <1>7 DEF SaveMk, hold, boxes, files, Goes, SaveTypeOK, Locked, Found,
       MadeElsewhere
  <2>6. Still'
    BY <1>7 DEF SaveMk, hold, boxes, files, Goes, SaveTypeOK, Armed, Held, Still,
       Alone
  <2> QED  BY <2>1, <2>2, <2>3, <2>4, <2>5, <2>6
<1>8. ASSUME NEW s \in Savers, SaveStop(s) PROVE SaveInv'
  <2>1. SaveTypeOK'  BY <1>8 DEF SaveStop, hold, boxes, files, Goes, SaveTypeOK
  <2>2. Armed'  BY <1>8 DEF SaveStop, hold, boxes, files, Goes, SaveTypeOK, Armed, Lives
  <2>3. Held'
    BY <1>8 DEF SaveStop, hold, boxes, files, Goes, SaveTypeOK, Armed, Held, Lives
  <2>4. Locked'  BY <1>8 DEF SaveStop, hold, boxes, files, Goes, SaveTypeOK, Locked
  <2>5. Found'
    BY <1>8 DEF SaveStop, hold, boxes, files, Goes, SaveTypeOK, Locked, Found,
       MadeElsewhere
  <2>6. Still'
    BY <1>8 DEF SaveStop, hold, boxes, files, Goes, SaveTypeOK, Armed, Held, Still,
       Alone
  <2> QED  BY <2>1, <2>2, <2>3, <2>4, <2>5, <2>6
<1>9. ASSUME NEW s \in Savers, SaveEntries(s) PROVE SaveInv'
  <2>1. SaveTypeOK'
    BY <1>9 DEF SaveEntries, hold, boxes, files, Goes, Stopping, SaveTypeOK
  <2>2. Armed'
    BY <1>9 DEF SaveEntries, hold, boxes, files, Goes, Stopping, SaveTypeOK, Armed,
       Lives
  <2>3. Held'
    BY <1>9 DEF SaveEntries, hold, boxes, files, Goes, Stopping, SaveTypeOK, Armed,
       Held, Lives
  <2>4. Locked'
    <3>1. spc[s] = "copy" /\ slock' = slock /\ \A t \in Savers \ {s} : spc'[t] = spc[t]
      BY <1>9 DEF SaveEntries, Goes, SaveTypeOK
    <3> QED  BY <3>1 DEF Locked
  <2>5. Found'
    BY <1>9
    DEF SaveEntries, hold, boxes, files, Goes, Stopping, SaveTypeOK, Locked, Found, MadeElsewhere
  <2>6. Still'
    BY <1>9
    DEF SaveEntries, hold, boxes, files, Goes, Stopping, SaveTypeOK, Armed, Held, Still, Alone
  <2> QED  BY <2>1, <2>2, <2>3, <2>4, <2>5, <2>6
<1>10. ASSUME NEW s \in Savers, BoxWrites(s) PROVE SaveInv'
  <2>1. SaveTypeOK'  BY <1>10 DEF BoxWrites, hold, boxes, files, SaveTypeOK
  <2>2. Armed'  BY <1>10 DEF BoxWrites, hold, boxes, files, SaveTypeOK, Armed, Lives
  <2>3. Held'
    BY <1>10 DEF BoxWrites, hold, boxes, files, SaveTypeOK, Armed, Held, Lives
  <2>4. Locked'  BY <1>10 DEF BoxWrites, hold, boxes, files, SaveTypeOK, Locked
  <2>5. Found'
    BY <1>10 DEF BoxWrites, hold, boxes, files, SaveTypeOK, Locked, Found,
       MadeElsewhere
  <2>6. Still'
    BY <1>10 DEF BoxWrites, hold, boxes, files, SaveTypeOK, Armed, Held, Still,
       Alone
  <2> QED  BY <2>1, <2>2, <2>3, <2>4, <2>5, <2>6
<1>11. ASSUME NEW s \in Savers, SaveCopied(s) PROVE SaveInv'
  <2>1. SaveTypeOK'  BY <1>11 DEF SaveCopied, hold, boxes, files, Goes, SaveTypeOK
  <2>2. Armed'
    BY <1>11 DEF SaveCopied, hold, boxes, files, Goes, SaveTypeOK, Armed, Lives
  <2>3. Held'
    BY <1>11 DEF SaveCopied, hold, boxes, files, Goes, SaveTypeOK, Armed, Held,
       Lives
  <2>4. Locked'  BY <1>11 DEF SaveCopied, hold, boxes, files, Goes, SaveTypeOK, Locked
  <2>5. Found'
    BY <1>11 DEF SaveCopied, hold, boxes, files, Goes, SaveTypeOK, Locked, Found,
       MadeElsewhere
  <2>6. Still'
    BY <1>11 DEF SaveCopied, hold, boxes, files, Goes, SaveTypeOK, Armed, Held,
       Still, Alone
  <2> QED  BY <2>1, <2>2, <2>3, <2>4, <2>5, <2>6
<1>12. ASSUME NEW s \in Savers, SaveCont(s) PROVE SaveInv'
  <2>1. SaveTypeOK'  BY <1>12 DEF SaveCont, hold, boxes, files, Goes, LetGo, SaveTypeOK
  <2>2. Armed'
    BY <1>12 DEF SaveCont, hold, boxes, files, Goes, LetGo, SaveTypeOK, Armed, Lives
  <2>3. Held'
    BY <1>12 DEF SaveCont, hold, boxes, files, Goes, LetGo, SaveTypeOK, Armed,
       Held, Lives
  <2>4. Locked'
    BY <1>12 DEF SaveCont, hold, boxes, files, Goes, LetGo, SaveTypeOK, Locked
  <2>5. Found'
    BY <1>12
    DEF SaveCont, hold, boxes, files, Goes, LetGo, SaveTypeOK, Locked, Found, MadeElsewhere
  <2>6. Still'
    BY <1>12 DEF SaveCont, hold, boxes, files, Goes, LetGo, SaveTypeOK, Armed,
       Held, Still, Alone
  <2> QED  BY <2>1, <2>2, <2>3, <2>4, <2>5, <2>6
<1>13. ASSUME NEW s \in Savers, SaveJson(s) PROVE SaveInv'
  <2>1. SaveTypeOK'  BY <1>13 DEF SaveJson, hold, boxes, files, Goes, SaveTypeOK
  <2>2. Armed'
    BY <1>13 DEF SaveJson, hold, boxes, files, Goes, SaveTypeOK, Armed, Lives
  <2>3. Held'
    BY <1>13 DEF SaveJson, hold, boxes, files, Goes, SaveTypeOK, Armed, Held, Lives
  <2>4. Locked'  BY <1>13 DEF SaveJson, hold, boxes, files, Goes, SaveTypeOK, Locked
  <2>5. Found'
    BY <1>13 DEF SaveJson, hold, boxes, files, Goes, SaveTypeOK, Locked, Found,
       MadeElsewhere
  <2>6. Still'
    BY <1>13 DEF SaveJson, hold, boxes, files, Goes, SaveTypeOK, Armed, Held,
       Still, Alone
  <2> QED  BY <2>1, <2>2, <2>3, <2>4, <2>5, <2>6
<1>14. ASSUME NEW s \in Savers, SaveAside(s) PROVE SaveInv'
  <2>1. SaveTypeOK'  BY <1>14 DEF SaveAside, hold, boxes, files, Goes, SaveTypeOK
  <2>2. Armed'
    BY <1>14 DEF SaveAside, hold, boxes, files, Goes, SaveTypeOK, Armed, Lives
  <2>3. Held'
    BY <1>14 DEF SaveAside, hold, boxes, files, Goes, SaveTypeOK, Armed, Held, Lives
  <2>4. Locked'  BY <1>14 DEF SaveAside, hold, boxes, files, Goes, SaveTypeOK, Locked
  <2>5. Found'
    <3>1. /\ spc[s] = "aside" /\ spc' = [spc EXCEPT ![s] = "in"]
          /\ old' = [old EXCEPT ![s] = dest[NameOf[s]]]
          /\ dest' = [dest EXCEPT ![NameOf[s]] = None]
      BY <1>14 DEF SaveAside, Goes
    <3>2. \A q \in Savers : /\ (spc'[q] = spc[q] /\ old'[q] = old[q]) \/ spc'[q] = "in"
                            /\ dest'[NameOf[q]] = dest[NameOf[q]] \/ dest'[NameOf[q]] = None
      BY <3>1 DEF SaveTypeOK
    <3> QED  BY <3>2 DEF Found, MadeElsewhere
  <2>6. Still'
    BY <1>14 DEF SaveAside, hold, boxes, files, Goes, SaveTypeOK, Armed, Held,
       Still, Alone
  <2> QED  BY <2>1, <2>2, <2>3, <2>4, <2>5, <2>6
<1>15. ASSUME NEW s \in Savers, SaveIn(s) PROVE SaveInv'
  <2>1. SaveTypeOK'  BY <1>15 DEF SaveIn, hold, boxes, files, Goes, SaveTypeOK
  <2>2. Armed'  BY <1>15 DEF SaveIn, hold, boxes, files, Goes, SaveTypeOK, Armed, Lives
  <2>3. Held'
    BY <1>15 DEF SaveIn, hold, boxes, files, Goes, SaveTypeOK, Armed, Held, Lives
  <2>4. Locked'  BY <1>15 DEF SaveIn, hold, boxes, files, Goes, SaveTypeOK, Locked
  <2>5. Found'
    <3>1. ASSUME NEW t \in Savers \ Forced,
                 spc'[t] \in {"pin", "mk", "stop", "copy", "copying", "cont", "json", "aside"}
          PROVE  dest'[NameOf[t]] = None \/ MadeElsewhere(dest'[NameOf[t]], t)
      <4>1. t # s /\ spc'[t] = spc[t]  BY <1>15, <3>1 DEF SaveIn, Goes, SaveTypeOK
      <4>2. slock[LockOf(t)] = t /\ slock[LockOf(s)] = s
        BY <1>15, <3>1, <4>1 DEF SaveIn, Goes, Locked
      <4>3. LockOf(s) # LockOf(t)  BY <4>1, <4>2
      <4>4. dest' = [dest EXCEPT ![NameOf[s]] = s]  BY <1>15 DEF SaveIn
      <4> QED  BY <3>1, <4>1, <4>3, <4>4 DEF SaveTypeOK, Found, MadeElsewhere
    <3>2. ASSUME NEW t \in Savers,
                 spc'[t] \in {"idle", "lock", "look", "pin", "mk", "stop", "copy", "copying",
                              "parked", "cont", "json", "aside"}
          PROVE  old'[t] = None
      BY <1>15, <3>2 DEF SaveIn, Goes, SaveTypeOK, Found
    <3> QED  BY <3>1, <3>2 DEF Found
  <2>6. Still'
    BY <1>15 DEF SaveIn, hold, boxes, files, Goes, SaveTypeOK, Armed, Held, Still,
       Alone
  <2> QED  BY <2>1, <2>2, <2>3, <2>4, <2>5, <2>6
<1>16. ASSUME NEW s \in Savers, SaveFails(s) PROVE SaveInv'
  <2>1. SaveTypeOK'  BY <1>16 DEF SaveFails, hold, boxes, files, SaveTypeOK
  <2>2. Armed'  BY <1>16 DEF SaveFails, hold, boxes, files, SaveTypeOK, Armed, Lives
  <2>3. Held'
    BY <1>16 DEF SaveFails, hold, boxes, files, SaveTypeOK, Armed, Held, Lives
  <2>4. Locked'  BY <1>16 DEF SaveFails, hold, boxes, files, SaveTypeOK, Locked
  <2>5. Found'
    BY <1>16 DEF SaveFails, hold, boxes, files, SaveTypeOK, Locked, Found,
       MadeElsewhere
  <2>6. Still'
    BY <1>16 DEF SaveFails, hold, boxes, files, SaveTypeOK, Armed, Held, Still,
       Alone
  <2> QED  BY <2>1, <2>2, <2>3, <2>4, <2>5, <2>6
<1>17. ASSUME NEW s \in Savers, SaveRmOld(s) PROVE SaveInv'
  <2>1. SaveTypeOK'
    BY <1>17 DEF SaveRmOld, hold, boxes, files, Goes, Stopping, SaveTypeOK
  <2>2. Armed'
    BY <1>17 DEF SaveRmOld, hold, boxes, files, Goes, Stopping, SaveTypeOK, Armed,
       Lives
  <2>3. Held'
    BY <1>17 DEF SaveRmOld, hold, boxes, files, Goes, Stopping, SaveTypeOK, Armed,
       Held, Lives
  <2>4. Locked'
    <3> SUFFICES ASSUME NEW o \in Savers,
                        spc'[o] \in {"look", "pin", "mk", "stop", "copy", "copying", "parked",
                                    "cont", "json", "aside", "in", "rmold", "failed"}
                 PROVE  slock'[LockOf(o)] = o
      BY DEF Locked
    <3>1. o # s /\ spc'[o] = spc[o]  BY <1>17 DEF SaveRmOld, Goes, SaveTypeOK
    <3>2. slock[LockOf(o)] = o /\ slock[LockOf(s)] = s
      BY <1>17, <3>1 DEF SaveRmOld, Goes, Locked
    <3>3. LockOf(o) # LockOf(s)  BY <3>1, <3>2
    <3> QED  BY <1>17, <3>2, <3>3 DEF SaveRmOld, SaveTypeOK
  <2>5. Found'
    BY <1>17
    DEF SaveRmOld, hold, boxes, files, Goes, Stopping, SaveTypeOK, Locked, Found, MadeElsewhere
  <2>6. Still'
    BY <1>17
    DEF SaveRmOld, hold, boxes, files, Goes, Stopping, SaveTypeOK, Armed, Held, Still, Alone
  <2> QED  BY <2>1, <2>2, <2>3, <2>4, <2>5, <2>6
<1>18. ASSUME NEW s \in Savers, SaveSay(s) PROVE SaveInv'
  <2>1. SaveTypeOK'
    BY <1>18 DEF SaveSay, hold, boxes, files, Goes, Stopping, SaveTypeOK
  <2>2. Armed'
    BY <1>18 DEF SaveSay, hold, boxes, files, Goes, Stopping, SaveTypeOK, Armed,
       Lives
  <2>3. Held'
    BY <1>18 DEF SaveSay, hold, boxes, files, Goes, Stopping, SaveTypeOK, Armed,
       Held, Lives
  <2>4. Locked'
    BY <1>18 DEF SaveSay, hold, boxes, files, Goes, Stopping, SaveTypeOK, Locked
  <2>5. Found'
    BY <1>18
    DEF SaveSay, hold, boxes, files, Goes, Stopping, SaveTypeOK, Locked, Found, MadeElsewhere
  <2>6. Still'
    BY <1>18 DEF SaveSay, hold, boxes, files, Goes, Stopping, SaveTypeOK, Armed,
       Held, Still, Alone
  <2> QED  BY <2>1, <2>2, <2>3, <2>4, <2>5, <2>6
<1>19. ASSUME NEW s \in Savers, SaveSignal(s) PROVE SaveInv'
  <2>1. SaveTypeOK'  BY <1>19 DEF SaveSignal, hold, boxes, files, Lives, SaveTypeOK
  <2>2. Armed'  BY <1>19 DEF SaveSignal, hold, boxes, files, Lives, SaveTypeOK, Armed
  <2>3. Held'
    BY <1>19 DEF SaveSignal, hold, boxes, files, Lives, SaveTypeOK, Armed, Held
  <2>4. Locked'  BY <1>19 DEF SaveSignal, hold, boxes, files, Lives, SaveTypeOK, Locked
  <2>5. Found'
    BY <1>19 DEF SaveSignal, hold, boxes, files, Lives, SaveTypeOK, Locked, Found,
       MadeElsewhere
  <2>6. Still'
    BY <1>19 DEF SaveSignal, hold, boxes, files, Lives, SaveTypeOK, Armed, Held,
       Still, Alone
  <2> QED  BY <2>1, <2>2, <2>3, <2>4, <2>5, <2>6
<1>20. ASSUME NEW s \in Savers, UndoByMain(s) PROVE SaveInv'
  <2>1. SaveTypeOK'  BY <1>20 DEF UndoByMain, hold, boxes, files, SaveTypeOK
  <2>2. Armed'  BY <1>20 DEF UndoByMain, hold, boxes, files, SaveTypeOK, Armed, Lives
  <2>3. Held'
    BY <1>20 DEF UndoByMain, hold, boxes, files, SaveTypeOK, Armed, Held, Lives
  <2>4. Locked'  BY <1>20 DEF UndoByMain, hold, boxes, files, SaveTypeOK, Locked
  <2>5. Found'
    BY <1>20 DEF UndoByMain, hold, boxes, files, SaveTypeOK, Locked, Found,
       MadeElsewhere
  <2>6. Still'
    BY <1>20 DEF UndoByMain, hold, boxes, files, SaveTypeOK, Armed, Held, Still,
       Alone
  <2> QED  BY <2>1, <2>2, <2>3, <2>4, <2>5, <2>6
<1>21. ASSUME NEW s \in Savers, UndoLetGo(s) PROVE SaveInv'
  <2>1. SaveTypeOK'  BY <1>21 DEF UndoLetGo, hold, boxes, files, LetGo, SaveTypeOK
  <2>2. Armed'
    BY <1>21 DEF UndoLetGo, hold, boxes, files, LetGo, SaveTypeOK, Armed, Lives
  <2>3. Held'
    BY <1>21 DEF UndoLetGo, hold, boxes, files, LetGo, SaveTypeOK, Armed, Held,
       Lives
  <2>4. Locked'  BY <1>21 DEF UndoLetGo, hold, boxes, files, LetGo, SaveTypeOK, Locked
  <2>5. Found'
    BY <1>21 DEF UndoLetGo, hold, boxes, files, LetGo, SaveTypeOK, Locked, Found,
       MadeElsewhere
  <2>6. Still'
    BY <1>21 DEF UndoLetGo, hold, boxes, files, LetGo, SaveTypeOK, Armed, Held,
       Still, Alone
  <2> QED  BY <2>1, <2>2, <2>3, <2>4, <2>5, <2>6
<1>22. ASSUME NEW s \in Savers, UndoRm(s) PROVE SaveInv'
  <2>1. SaveTypeOK'  BY <1>22 DEF UndoRm, hold, boxes, files, SaveTypeOK
  <2>2. Armed'  BY <1>22 DEF UndoRm, hold, boxes, files, SaveTypeOK, Armed, Lives
  <2>3. Held'  BY <1>22 DEF UndoRm, hold, boxes, files, SaveTypeOK, Armed, Held, Lives
  <2>4. Locked'  BY <1>22 DEF UndoRm, hold, boxes, files, SaveTypeOK, Locked
  <2>5. Found'
    BY <1>22 DEF UndoRm, hold, boxes, files, SaveTypeOK, Locked, Found,
       MadeElsewhere
  <2>6. Still'
    BY <1>22 DEF UndoRm, hold, boxes, files, SaveTypeOK, Armed, Held, Still, Alone
  <2> QED  BY <2>1, <2>2, <2>3, <2>4, <2>5, <2>6
<1>23. ASSUME NEW s \in Savers, UndoRemove(s) PROVE SaveInv'
  <2>1. SaveTypeOK'  BY <1>23 DEF UndoRemove, hold, boxes, files, SaveTypeOK
  <2>2. Armed'  BY <1>23 DEF UndoRemove, hold, boxes, files, SaveTypeOK, Armed, Lives
  <2>3. Held'
    BY <1>23 DEF UndoRemove, hold, boxes, files, SaveTypeOK, Armed, Held, Lives
  <2>4. Locked'  BY <1>23 DEF UndoRemove, hold, boxes, files, SaveTypeOK, Locked
  <2>5. Found'
    BY <1>23 DEF UndoRemove, hold, boxes, files, SaveTypeOK, Locked, Found,
       MadeElsewhere
  <2>6. Still'
    BY <1>23 DEF UndoRemove, hold, boxes, files, SaveTypeOK, Armed, Held, Still,
       Alone
  <2> QED  BY <2>1, <2>2, <2>3, <2>4, <2>5, <2>6
<1>24. ASSUME NEW s \in Savers, SaveEnds(s) PROVE SaveInv'
  <2>1. SaveTypeOK'
    BY <1>24 DEF SaveEnds, hold, boxes, files, Process, Lives, SaveTypeOK
  <2>2. Armed'
    BY <1>24 DEF SaveEnds, hold, boxes, files, Process, Lives, SaveTypeOK, Armed
  <2>3. Held'
    BY <1>24 DEF SaveEnds, hold, boxes, files, Process, Lives, SaveTypeOK, Armed,
       Held
  <2>4. Locked'
    BY <1>24, ProcessLocked DEF SaveEnds
  <2>5. Found'
    BY <1>24
    DEF SaveEnds, hold, boxes, files, Process, Lives, SaveTypeOK, Locked, Found, MadeElsewhere
  <2>6. Still'
    BY <1>24 DEF SaveEnds, hold, boxes, files, Process, Lives, SaveTypeOK, Armed,
       Held, Still, Alone
  <2> QED  BY <2>1, <2>2, <2>3, <2>4, <2>5, <2>6
<1>25. ASSUME NEW s \in Savers, SaveKilled(s) PROVE SaveInv'
  <2>1. SaveTypeOK'
    BY <1>25 DEF SaveKilled, hold, boxes, files, Process, Lives, SaveTypeOK
  <2>2. Armed'
    BY <1>25 DEF SaveKilled, hold, boxes, files, Process, Lives, SaveTypeOK, Armed
  <2>3. Held'
    BY <1>25 DEF SaveKilled, hold, boxes, files, Process, Lives, SaveTypeOK, Armed,
       Held
  <2>4. Locked'
    BY <1>25, ProcessLocked DEF SaveKilled
  <2>5. Found'
    BY <1>25
    DEF SaveKilled, hold, boxes, files, Process, Lives, SaveTypeOK, Locked, Found, MadeElsewhere
  <2>6. Still'
    BY <1>25
    DEF SaveKilled, hold, boxes, files, Process, Lives, SaveTypeOK, Armed, Held, Still, Alone
  <2> QED  BY <2>1, <2>2, <2>3, <2>4, <2>5, <2>6
<1>26. ASSUME NEW s \in Savers, WatchResumes(s) PROVE SaveInv'
  <2>1. SaveTypeOK'  BY <1>26 DEF WatchResumes, hold, boxes, files, SaveTypeOK
  <2>2. Armed'  BY <1>26 DEF WatchResumes, hold, boxes, files, SaveTypeOK, Armed, Lives
  <2>3. Held'
    BY <1>26 DEF WatchResumes, hold, boxes, files, SaveTypeOK, Armed, Held, Lives
  <2>4. Locked'  BY <1>26 DEF WatchResumes, hold, boxes, files, SaveTypeOK, Locked
  <2>5. Found'
    BY <1>26 DEF WatchResumes, hold, boxes, files, SaveTypeOK, Locked, Found,
       MadeElsewhere
  <2>6. Still'
    BY <1>26 DEF WatchResumes, hold, boxes, files, SaveTypeOK, Armed, Held, Still,
       Alone
  <2> QED  BY <2>1, <2>2, <2>3, <2>4, <2>5, <2>6
<1>27. ASSUME NEW b \in Boxes, DownKills(b) PROVE SaveInv'
  <2>1. SaveTypeOK'  BY <1>27 DEF DownKills, hold, boxes, files, SaveTypeOK
  <2>2. Armed'  BY <1>27 DEF DownKills, hold, boxes, files, SaveTypeOK, Armed, Lives
  <2>3. Held'
    BY <1>27 DEF DownKills, hold, boxes, files, SaveTypeOK, Armed, Held, Lives
  <2>4. Locked'  BY <1>27 DEF DownKills, hold, boxes, files, SaveTypeOK, Locked
  <2>5. Found'
    BY <1>27 DEF DownKills, hold, boxes, files, SaveTypeOK, Locked, Found,
       MadeElsewhere
  <2>6. Still'
    BY <1>27 DEF DownKills, hold, boxes, files, SaveTypeOK, Armed, Held, Still,
       Alone
  <2> QED  BY <2>1, <2>2, <2>3, <2>4, <2>5, <2>6
<1>28. ASSUME NEW b \in Boxes, DownRemoves(b) PROVE SaveInv'
  <2>1. SaveTypeOK'  BY <1>28 DEF DownRemoves, hold, boxes, files, SaveTypeOK
  <2>2. Armed'  BY <1>28 DEF DownRemoves, hold, boxes, files, SaveTypeOK, Armed, Lives
  <2>3. Held'
    BY <1>28 DEF DownRemoves, hold, boxes, files, SaveTypeOK, Armed, Held, Lives
  <2>4. Locked'  BY <1>28 DEF DownRemoves, hold, boxes, files, SaveTypeOK, Locked
  <2>5. Found'
    BY <1>28 DEF DownRemoves, hold, boxes, files, SaveTypeOK, Locked, Found,
       MadeElsewhere
  <2>6. Still'
    BY <1>28 DEF DownRemoves, hold, boxes, files, SaveTypeOK, Armed, Held, Still,
       Alone
  <2> QED  BY <2>1, <2>2, <2>3, <2>4, <2>5, <2>6
<1>29. ASSUME NEW n \in Names, SavesRm(n) PROVE SaveInv'
  <2>1. SaveTypeOK'  BY <1>29 DEF SavesRm, hold, boxes, files, SaveTypeOK
  <2>2. Armed'  BY <1>29 DEF SavesRm, hold, boxes, files, SaveTypeOK, Armed, Lives
  <2>3. Held'  BY <1>29 DEF SavesRm, hold, boxes, files, SaveTypeOK, Armed, Held, Lives
  <2>4. Locked'  BY <1>29 DEF SavesRm, hold, boxes, files, SaveTypeOK, Locked
  <2>5. Found'
    BY <1>29 DEF SavesRm, hold, boxes, files, SaveTypeOK, Locked, Found,
       MadeElsewhere
  <2>6. Still'
    BY <1>29 DEF SavesRm, hold, boxes, files, SaveTypeOK, Armed, Held, Still, Alone
  <2> QED  BY <2>1, <2>2, <2>3, <2>4, <2>5, <2>6
<1>30. CASE UNCHANGED saveVars
  BY <1>30 DEF saveVars, hold, boxes, files, SaveTypeOK, Armed, Held, Locked,
     Found, Still, Lives,
    MadeElsewhere, Alone
<1> QED
  BY <1>1, <1>2, <1>3, <1>4, <1>5, <1>6, <1>7, <1>8, <1>9, <1>10, <1>11, <1>12,
     <1>13, <1>14,
    <1>15, <1>16, <1>17, <1>18, <1>19, <1>20, <1>21, <1>22, <1>23, <1>24, <1>25, <1>26, <1>27,
    <1>28, <1>29, <1>30 DEF SaveNext

LEMMA SaveInductive == SaveSpec => []SaveInv
<1> QED  BY InitSaveInv, NextSaveInv, PTL DEF SaveSpec

-----------------------------------------------------------------------------
\* Every variable keeps its type.
THEOREM SaveTyped == SaveSpec => []SaveTypeOK
<1>1. SaveInv => SaveTypeOK  BY DEF SaveInv
<1> QED  BY <1>1, SaveInductive, PTL

\* A paused box is in the hands of a save that lets it go, or of the watch of a killed one.
THEOREM PausedIsHeld == SaveSpec => []PausedHeld
<1>1. SaveInv => PausedHeld
  BY DEF SaveInv, PausedHeld, Held, Armed, SaveTypeOK
<1> QED  BY <1>1, SaveInductive, PTL

\* What a save listed of its box is stopped while its cps run, if no other save of it has begun.
THEOREM CopyIsStill == SaveSpec => []CopyStill
<1>1. SaveInv => CopyStill
  BY DEF SaveInv, CopyStill, Still, Armed
<1> QED  BY <1>1, SaveInductive, PTL

\* The rename of a save aside, by one without --force, is of a save made under another lock.
THEOREM UnforcedKept == SaveSpec => KeptUnforced
<1>1. ASSUME SaveInv, [SaveNext]_saveVars, NEW n \in Names, dest[n] # None, dest'[n] # dest[n]
      PROVE  /\ dest'[n] = None
             /\ \/ old' = old
                \/ \E s \in Savers : /\ NameOf[s] = n /\ old'[s] = dest[n]
                                    /\ (s \in Forced \/ MadeElsewhere(dest[n], s))
  <2> USE DEF SaveInv
  <2>1. CASE \E m \in Names : SavesRm(m)
    BY <1>1, <2>1 DEF SavesRm, SaveTypeOK
  <2>2. CASE \E s \in Savers : SaveAside(s)
    <3>1. PICK s \in Savers : SaveAside(s)  BY <2>2
    <3>2. NameOf[s] = n /\ dest'[n] = None /\ old'[s] = dest[n]
      BY <1>1, <3>1 DEF SaveAside, SaveTypeOK
    <3>3. s \in Forced \/ MadeElsewhere(dest[n], s)
      BY <1>1, <3>1, <3>2 DEF SaveAside, Goes, Found
    <3> QED  BY <3>1, <3>2, <3>3
  <2>3. CASE \E s \in Savers : SaveIn(s)
    BY <1>1, <2>3 DEF SaveIn, SaveTypeOK
  <2>4. (\E m \in Names : SavesRm(m)) \/ (\E s \in Savers : SaveAside(s) \/ SaveIn(s))
    BY <1>1
    DEF SaveNext, saveVars, files, SaveStart, SaveLock, SaveRefused, SaveLook, SavePin, BoxForks,
        SaveMk, SaveStop, SaveEntries, BoxWrites, SaveCopied, SaveCont, SaveJson, SaveFails,
        SaveRmOld, SaveSay, SaveSignal, UndoByMain, UndoLetGo, UndoRm, UndoRemove, SaveEnds,
        SaveKilled, WatchResumes, DownKills, DownRemoves
  <2> QED  BY <2>1, <2>2, <2>3, <2>4
<1>2. SaveInv /\ [SaveNext]_saveVars =>
        [\A n \in Names : dest[n] # None /\ dest'[n] # dest[n] =>
          /\ dest'[n] = None
          /\ \/ old' = old
             \/ \E s \in Savers : /\ NameOf[s] = n /\ old'[s] = dest[n]
                                 /\ (s \in Forced \/ MadeElsewhere(dest[n], s))]_saveVars
  BY <1>1
<1> QED  BY <1>2, SaveInductive, PTL DEF SaveSpec, KeptUnforced

\* A live save's copy and the save it moved aside are removed by that save's own steps.
THEOREM LiveWorkIsKept == SaveSpec => LiveWorkKept
<1>1. ASSUME SaveInv, SaveNext, NEW s \in Savers, Lives(s)
      PROVE  /\ s \in fresh \ fresh' => dest'[NameOf[s]] = s \/ undo[s] = "remove"
             /\ old[s] # None /\ old'[s] = None => spc[s] = "rmold"
  <2> USE DEF SaveInv
  <2>1. CASE \E t \in Savers : SaveLock(t)
    BY <1>1, <2>1 DEF SaveLock, Gone, SaveTypeOK
  <2>2. CASE \E t \in Savers : SaveAside(t)
    BY <1>1, <2>2 DEF SaveAside, Goes, SaveTypeOK, Found
  <2>3. CASE \E t \in Savers : SaveIn(t)
    BY <1>1, <2>3 DEF SaveIn, SaveTypeOK
  <2>4. CASE \E t \in Savers : SaveRmOld(t)
    BY <1>1, <2>4 DEF SaveRmOld, Goes, SaveTypeOK
  <2>5. CASE \E t \in Savers : UndoRemove(t)
    BY <1>1, <2>5 DEF UndoRemove, SaveTypeOK
  <2>6. CASE UNCHANGED <<fresh, old>> \/ \E t \in Savers : SaveMk(t)
    BY <1>1, <2>6 DEF SaveMk
  <2>7. \/ \E t \in Savers : SaveLock(t) \/ SaveAside(t) \/ SaveIn(t) \/ SaveRmOld(t) \/ UndoRemove(t)
        \/ UNCHANGED <<fresh, old>> \/ \E t \in Savers : SaveMk(t)
    <3>1. ASSUME NEW t \in Savers,
                 \/ SaveStart(t) \/ SaveRefused(t) \/ SaveLook(t) \/ SavePin(t) \/ BoxForks(t)
                 \/ SaveStop(t) \/ SaveEntries(t) \/ BoxWrites(t) \/ SaveCopied(t) \/ SaveCont(t)
                 \/ SaveJson(t) \/ SaveFails(t) \/ SaveSay(t) \/ SaveSignal(t)
          PROVE  UNCHANGED <<fresh, old>>
      BY ONLY <3>1
      DEF files, SaveStart, SaveRefused, SaveLook, SavePin, BoxForks, SaveStop, SaveEntries,
          BoxWrites, SaveCopied, SaveCont, SaveJson, SaveFails, SaveSay, SaveSignal
    <3>2. ASSUME NEW t \in Savers,
                 \/ UndoByMain(t) \/ UndoLetGo(t) \/ UndoRm(t)
                 \/ SaveEnds(t) \/ SaveKilled(t) \/ WatchResumes(t)
          PROVE  UNCHANGED <<fresh, old>>
      BY ONLY <3>2
      DEF files, UndoByMain, UndoLetGo, UndoRm, SaveEnds, SaveKilled, WatchResumes
    <3>3. ASSUME (\E b \in Boxes : DownKills(b) \/ DownRemoves(b)) \/ (\E n \in Names : SavesRm(n))
          PROVE  UNCHANGED <<fresh, old>>
      BY ONLY <3>3 DEF files, DownKills, DownRemoves, SavesRm
    <3>4. SaveNext  BY <1>1
    <3> QED
      BY ONLY <3>1, <3>2, <3>3, <3>4 DEF SaveNext
  <2> QED  BY <2>1, <2>2, <2>3, <2>4, <2>5, <2>6, <2>7
<1>2. SaveInv /\ [SaveNext]_saveVars =>
        [\A s \in Savers : Lives(s) =>
          /\ s \in fresh \ fresh' => dest'[NameOf[s]] = s \/ undo[s] = "remove"
          /\ old[s] # None /\ old'[s] = None => spc[s] = "rmold"]_saveVars
  BY <1>1
<1> QED  BY <1>2, SaveInductive, PTL DEF SaveSpec, LiveWorkKept
=============================================================================
