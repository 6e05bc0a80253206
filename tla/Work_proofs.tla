---------------------------- MODULE Work_proofs -----------------------------
(***************************************************************************)
(* The components MCWork checks in one run: the proofs of the two that     *)
(* have no module of proofs of their own, the broker's relay and the       *)
(* protected ports, and that what is proved of each of the six holds of    *)
(* the run's specification, which is a step of one of them at a time.      *)
(***************************************************************************)
EXTENDS MCWork, Save_proofs, Pointer_proofs, Jobs_proofs, FiniteSetTheorems

-----------------------------------------------------------------------------
(***************************************************************************)
(* The broker's count of handlers is right, and a caller's going ends its  *)
(* command, for any callers and any MAX_HANDLERS.                          *)
(*                                                                         *)
(* HandlersRight speaks of the loop between two connections; in the middle *)
(* of one the count is behind by the handler just forked, and may not be   *)
(* taken from, which is what Counted says.  GoneKilled rests on what each  *)
(* step of a handler has learnt of its command (CommandAt).                *)
(***************************************************************************)
USE RelayAssumption

\* The count at each place of the loop.
Counted ==
    /\ Cardinality(Unreaped) \in Nat
    /\ listen \in {"accept", "room", "fork"} => handlers = Cardinality(Unreaped)
    /\ listen \in {"load", "add"} => handlers + 1 = Cardinality(Unreaped)
    /\ listen \in {"fork", "load", "add"} => handlers < MaxHandlers
    /\ listen = "add" => loaded = handlers

\* A connection has one handler: it is forked once, by the loop that accepted it.
Served ==
    /\ \A c \in Callers : serve[c] # "none" => c \in accepted
    /\ listen \in {"room", "fork"} => conn \in accepted /\ serve[conn] = "none"

\* What a handler's step says of its command.
CommandAt ==
    \A c \in Callers :
        /\ serve[c] \in {"none", "read", "fork"} => command[c] = "none"
        /\ serve[c] = "started" => command[c] \notin {"none", "told"}
        /\ serve[c] \in {"poll", "gone"} => command[c] \in {"runs", "ended"}
        /\ serve[c] = "wait" => command[c] = "ended"

RelayInv == RelayTypeOK /\ Counted /\ Served /\ CommandAt /\ GoneKilled

-----------------------------------------------------------------------------
\* The handlers there are, none of them waited for, are finitely many.
LEMMA UnreapedFinite == IsFiniteSet(Unreaped) /\ IsFiniteSet(Unreaped')
<1>1. Unreaped \in SUBSET Callers /\ Unreaped' \in SUBSET Callers  BY DEF Unreaped
<1> QED  BY <1>1, FS_Subset

LEMMA InitRelayInv == RelayInit => RelayInv
<1> SUFFICES ASSUME RelayInit PROVE RelayInv  OBVIOUS
<1>1. Unreaped = {}  BY DEF RelayInit, Unreaped
<1>2. Cardinality(Unreaped) = 0  BY <1>1, FS_EmptySet
<1>3. conn \in Callers
  <2>1. \E c \in Callers : TRUE  OBVIOUS
  <2> QED  BY <2>1 DEF RelayInit
<1>4. RelayTypeOK
  <2>1. {handlers, loaded} \subseteq 0 .. MaxHandlers  BY DEF RelayInit
  <2> QED  BY <1>3, <2>1 DEF RelayInit, RelayTypeOK
<1>5. Counted /\ Served /\ CommandAt /\ GoneKilled
  BY <1>2 DEF RelayInit, Counted, Served, CommandAt, GoneKilled
<1> QED  BY <1>4, <1>5 DEF RelayInv

\* A step of callers, handlers or commands that leaves the loop and who is to be waited for.
LEMMA ServeStep ==
    ASSUME RelayInv, UNCHANGED loop, RelayTypeOK',
           \A c \in Callers : /\ serve'[c] = "none" <=> serve[c] = "none"
                              /\ serve'[c] = "reaped" <=> serve[c] = "reaped"
    PROVE  Counted' /\ Served'
<1>1. Unreaped' = Unreaped  BY DEF Unreaped
<1>2. Counted'  BY <1>1 DEF RelayInv, Counted, loop
<1>3. Served'  BY DEF RelayInv, Served, loop, RelayTypeOK
<1> QED  BY <1>2, <1>3

LEMMA NextRelayInv == RelayInv /\ [RelayNext]_relayVars => RelayInv'
<1> SUFFICES ASSUME RelayInv, [RelayNext]_relayVars PROVE RelayInv'  OBVIOUS
<1> USE DEF RelayInv
<1>1. CASE ListenRoom
  <2>1. Unreaped' = Unreaped  BY <1>1 DEF ListenRoom, Unreaped
  <2>2. RelayTypeOK'  BY <1>1 DEF ListenRoom, Refuse, RelayTypeOK
  <2>3. Counted'  BY <1>1, <2>1 DEF ListenRoom, Counted, RelayTypeOK
  <2>4. Served' /\ CommandAt' /\ GoneKilled'
    BY <1>1 DEF ListenRoom, Served, CommandAt, GoneKilled
  <2> QED  BY <2>2, <2>3, <2>4
<1>2. CASE ListenFork
  <2>1. RelayTypeOK'  BY <1>2 DEF ListenFork, Refuse, RelayTypeOK
  <2>2. CASE serve' = [serve EXCEPT ![conn] = "read"] /\ listen' = "load"
    <3>1. Unreaped' = Unreaped \cup {conn} /\ conn \notin Unreaped
      BY <1>2, <2>2 DEF ListenFork, Unreaped, Served, RelayTypeOK
    <3>2. Cardinality(Unreaped') = Cardinality(Unreaped) + 1
      BY <3>1, UnreapedFinite, FS_AddElement
    <3>3. Counted'  BY <1>2, <2>2, <3>2 DEF ListenFork, Counted, RelayTypeOK
    <3>4. Served' /\ CommandAt' /\ GoneKilled'
      BY <1>2, <2>2 DEF ListenFork, Served, CommandAt, GoneKilled, RelayTypeOK
    <3> QED  BY <2>1, <3>3, <3>4
  <2>3. CASE listen' = "accept" /\ UNCHANGED serve
    <3>1. Unreaped' = Unreaped  BY <2>3 DEF Unreaped
    <3> QED
      BY <1>2, <2>1, <2>3, <3>1 DEF ListenFork, Counted, Served, CommandAt,
         GoneKilled
  <2> QED  BY <1>2, <2>2, <2>3 DEF ListenFork
<1>3. CASE ListenLoad
  <2>1. Unreaped' = Unreaped  BY <1>3 DEF ListenLoad, Unreaped
  <2>2. RelayTypeOK' /\ Counted'  BY <1>3, <2>1 DEF ListenLoad, RelayTypeOK, Counted
  <2>3. Served' /\ CommandAt' /\ GoneKilled'
    BY <1>3 DEF ListenLoad, Served, CommandAt, GoneKilled
  <2> QED  BY <2>2, <2>3
<1>4. CASE ListenAdd
  <2>1. Unreaped' = Unreaped  BY <1>4 DEF ListenAdd, Unreaped
  <2>2. RelayTypeOK'  BY <1>4 DEF ListenAdd, RelayTypeOK, Counted
  <2>3. Counted'  BY <1>4, <2>1 DEF ListenAdd, Counted
  <2>4. Served' /\ CommandAt' /\ GoneKilled'
    BY <1>4 DEF ListenAdd, Served, CommandAt, GoneKilled
  <2> QED  BY <2>2, <2>3, <2>4
<1>5. CASE ReapHandlers
  <2>1. Unreaped' = Unreaped \ Zombies /\ Unreaped \cap Zombies = Zombies
    BY <1>5 DEF ReapHandlers, Unreaped, Zombies, RelayTypeOK
  <2>2. Cardinality(Unreaped') = Cardinality(Unreaped) - Cardinality(Zombies)
    <3>1. Cardinality(Unreaped \ Zombies)
          = Cardinality(Unreaped) - Cardinality(Unreaped \cap Zombies)
      BY UnreapedFinite, FS_Difference
    <3> QED  BY <2>1, <3>1
  <2>3. Cardinality(Zombies) \in Nat /\ Cardinality(Unreaped') \in Nat
    <3>1. Zombies \in SUBSET Callers  BY DEF Zombies
    <3>2. IsFiniteSet(Zombies)  BY <3>1, FS_Subset
    <3> QED  BY <3>2, UnreapedFinite, FS_CardinalityType
  <2>4. listen \in {"accept", "room"} /\ listen' = listen /\ handlers' = Cardinality(Unreaped')
    BY <1>5, <2>2 DEF ReapHandlers, Masked, RelayTypeOK, Counted
  <2>5. Counted'  BY <2>3, <2>4 DEF Counted
  <2>6. RelayTypeOK'
    <3>1. handlers' \in 0 .. MaxHandlers
      BY <1>5, <2>2, <2>3, <2>4 DEF ReapHandlers, RelayTypeOK, Counted
    <3>2. loaded' \in 0 .. MaxHandlers  BY <1>5 DEF ReapHandlers, RelayTypeOK
    <3> QED  BY <1>5, <3>1, <3>2 DEF ReapHandlers, RelayTypeOK
  <2>7. Served' /\ CommandAt' /\ GoneKilled'
    BY <1>5 DEF ReapHandlers, Zombies, Served, CommandAt, GoneKilled, RelayTypeOK
  <2> QED  BY <2>5, <2>6, <2>7
<1>6. ASSUME NEW c \in Callers,
             \/ CallerCalls(c) \/ CallerGoes(c) \/ ServeReads(c) \/ ServeForks(c)
             \/ CommandStarts(c) \/ CommandEnds(c) \/ ServeStarted(c) \/ ServeNoPidfd(c)
             \/ ServePolls(c) \/ ServeTerms(c) \/ ServeKills(c) \/ ServeSays(c)
      PROVE  RelayInv'
  <2> USE DEF ServeGoes, ServeExits, Refuse, Signalled, loop
  <2>1. CASE CallerCalls(c) \/ CallerGoes(c)
    <3>1. RelayTypeOK' /\ UNCHANGED <<loop, serve, command>>
      BY <2>1 DEF CallerCalls, CallerGoes, RelayTypeOK
    <3>2. CommandAt' /\ GoneKilled'  BY <3>1 DEF CommandAt, GoneKilled
    <3> QED  BY <3>1, <3>2, ServeStep
  <2>2. CASE ServeReads(c)
    <3>1. RelayTypeOK' /\ UNCHANGED loop  BY <2>2 DEF ServeReads, RelayTypeOK
    <3>2. CommandAt' /\ GoneKilled'
      BY <2>2 DEF ServeReads, RelayTypeOK, CommandAt, GoneKilled
    <3>3. \E p \in {"fork", "zombie"} : serve[c] = "read" /\ serve' = [serve EXCEPT ![c] = p]
      BY <2>2 DEF ServeReads
    <3> QED  BY <3>1, <3>2, <3>3, ServeStep DEF RelayTypeOK
  <2>3. CASE ServeForks(c)
    <3>1. RelayTypeOK' /\ UNCHANGED loop
      BY <2>3 DEF ServeForks, RelayTypeOK
    <3>2. CommandAt' /\ GoneKilled'
      BY <2>3 DEF ServeForks, RelayTypeOK, CommandAt, GoneKilled
    <3> QED  BY <2>3, <3>1, <3>2, ServeStep DEF ServeForks, RelayTypeOK
  <2>4. CASE CommandStarts(c) \/ CommandEnds(c)
    <3>1. RelayTypeOK' /\ CommandAt' /\ GoneKilled' /\ UNCHANGED <<loop, serve>>
      BY <2>4 DEF CommandStarts, CommandEnds, RelayTypeOK, CommandAt, GoneKilled
    <3> QED  BY <3>1, ServeStep
  <2>5. CASE ServeStarted(c)
    <3>1. RelayTypeOK' /\ CommandAt' /\ GoneKilled' /\ UNCHANGED loop
      BY <2>5 DEF ServeStarted, RelayTypeOK, CommandAt, GoneKilled
    <3> QED  BY <2>5, <3>1, ServeStep DEF ServeStarted, RelayTypeOK
  <2>6. CASE ServeNoPidfd(c)
    <3>1. RelayTypeOK' /\ CommandAt' /\ GoneKilled' /\ UNCHANGED loop
      BY <2>6 DEF ServeNoPidfd, RelayTypeOK, CommandAt, GoneKilled
    <3> QED  BY <2>6, <3>1, ServeStep DEF ServeNoPidfd, RelayTypeOK
  <2>7. CASE ServePolls(c)
    <3>1. RelayTypeOK' /\ CommandAt' /\ GoneKilled' /\ UNCHANGED loop
      BY <2>7 DEF ServePolls, RelayTypeOK, CommandAt, GoneKilled
    <3> QED  BY <2>7, <3>1, ServeStep DEF ServePolls, RelayTypeOK
  <2>8. CASE ServeTerms(c)
    <3>1. RelayTypeOK' /\ CommandAt' /\ GoneKilled' /\ UNCHANGED loop
      BY <2>8 DEF ServeTerms, RelayTypeOK, CommandAt, GoneKilled
    <3> QED  BY <2>8, <3>1, ServeStep DEF ServeTerms, RelayTypeOK
  <2>9. CASE ServeKills(c)
    <3>1. RelayTypeOK' /\ CommandAt' /\ GoneKilled' /\ UNCHANGED loop
      BY <2>9 DEF ServeKills, RelayTypeOK, CommandAt, GoneKilled
    <3> QED  BY <2>9, <3>1, ServeStep DEF ServeKills, RelayTypeOK
  <2>10. CASE ServeSays(c)
    <3>1. RelayTypeOK' /\ CommandAt' /\ GoneKilled' /\ UNCHANGED loop
      BY <2>10 DEF ServeSays, RelayTypeOK, CommandAt, GoneKilled
    <3> QED  BY <2>10, <3>1, ServeStep DEF ServeSays, RelayTypeOK
  <2> QED  BY <1>6, <2>1, <2>2, <2>3, <2>4, <2>5, <2>6, <2>7, <2>8, <2>9, <2>10
<1>7. ASSUME NEW c \in Callers, ListenAccept(c) PROVE RelayInv'
  <2>1. Unreaped' = Unreaped  BY <1>7 DEF ListenAccept, Unreaped
  <2>2. RelayTypeOK'  BY <1>7 DEF ListenAccept, RelayTypeOK
  <2>3. Counted'  BY <1>7, <2>1 DEF ListenAccept, Counted
  <2>4. Served' /\ CommandAt' /\ GoneKilled'
    BY <1>7 DEF ListenAccept, Served, CommandAt, GoneKilled
  <2> QED  BY <2>2, <2>3, <2>4
<1>8. CASE UNCHANGED relayVars
  <2>1. Unreaped' = Unreaped  BY <1>8 DEF relayVars, loop, Unreaped
  <2> QED
    BY <1>8, <2>1 DEF relayVars, loop, RelayTypeOK, Counted, Served, CommandAt,
       GoneKilled
<1> QED  BY <1>1, <1>2, <1>3, <1>4, <1>5, <1>6, <1>7, <1>8 DEF RelayNext

LEMMA RelayInductive == RelaySpec => []RelayInv
<1> QED  BY InitRelayInv, NextRelayInv, PTL DEF RelaySpec

-----------------------------------------------------------------------------
\* Every variable keeps its type.
THEOREM RelayTyped == RelaySpec => []RelayTypeOK
<1>1. RelayInv => RelayTypeOK  BY DEF RelayInv
<1> QED  BY <1>1, RelayInductive, PTL

\* The count of relay.c's listen is that of its handlers between two connections, and they are
\* never more than MAX_HANDLERS.
THEOREM HandlersCounted == RelaySpec => []HandlersRight
<1>1. RelayInv => HandlersRight
  BY DEF RelayInv, Counted, HandlersRight, RelayTypeOK
<1> QED  BY <1>1, RelayInductive, PTL

\* A command is in its session, to be told and then killed, before its handler looks for the
\* caller's going.
THEOREM CommandGone == RelaySpec => []GoneKilled
<1>1. RelayInv => GoneKilled  BY DEF RelayInv
<1> QED  BY <1>1, RelayInductive, PTL

-----------------------------------------------------------------------------
(***************************************************************************)
(* The rule of a box's protected ports follows the host's addresses, for   *)
(* any GAP, FAILING_MAX, NFT_WAIT and lag: a look is due while a failure   *)
(* or an event waits for one (InTime), and what a look read too early the  *)
(* trailing one reads again (Lagging, Follows), unless its time came       *)
(* during a look.                                                          *)
(***************************************************************************)
HIDE RelayAssumption
USE GuardAssumption

\* A look is wanted, now or later (Sched::due).
Wanted == gpending \/ gfailed > 0 \/ gtrailing # Never

\* While one is it comes within FAILING_MAX of the last event seen or failure; a trailing one's time
\* is GAP after the last event seen, if it has not come.
InTime ==
    /\ (Wanted /\ glook = NoAddrs) => gage + gwait <= FailingMax
    /\ gtrailing \in 1 .. Gap => gage + gtrailing <= Gap

\* What the kernel's table has not yet is waited for by the trailing look.
Lagging == (gread # gaddrs /\ ~gevent) => gtrailing # Never /\ gtrailing + glag >= Gap

\* What a look read and the addresses are not any more, one after it reads; what the rule has and
\* they are not, one sets.
Follows ==
    /\ (glook # NoAddrs /\ glook # gaddrs /\ ~gevent) => gtrailing \in 1 .. Gap \/ glost
    /\ (glook = NoAddrs /\ grule # gaddrs /\ ~gevent) => Wanted \/ glost

GuardInv == GuardTypeOK /\ InTime /\ Lagging /\ Follows

-----------------------------------------------------------------------------
LEMMA WaitIn == ASSUME GuardTypeOK PROVE FailedWait \in 0 .. FailingMax
<1> DEFINE x == Shifted[IF gfailed < 4 THEN gfailed + 1 ELSE 5]
<1>1. x \in {1, 2, 4, 8, 16}
  <2>1. gfailed \in Nat  BY DEF GuardTypeOK
  <2>2. (IF gfailed < 4 THEN gfailed + 1 ELSE 5) \in {1, 2, 3, 4, 5}  BY <2>1
  <2> QED  BY <2>2 DEF Shifted
<1>2. Gap * x \in Nat
  <2> HIDE DEF x
  <2> QED  BY <1>1
<1> QED  BY <1>2 DEF FailedWait

LEMMA InitGuardInv == GuardInit => GuardInv
<1> SUFFICES ASSUME GuardInit PROVE GuardInv  OBVIOUS
<1>1. GuardTypeOK
  <2>1. gevent = FALSE /\ gpending = FALSE  BY DEF GuardInit
  <2>2. gevent \in BOOLEAN /\ gpending \in BOOLEAN  BY <2>1
  <2>3. /\ {gaddrs, gread} \subseteq Addrs /\ {grule, glook} \subseteq Addrs \cup {NoAddrs}
        /\ gtrailing \in 0 .. Never /\ gwait \in 0 .. FailingMax /\ gfailed \in 0 .. MaxFailed
        /\ gage \in 0 .. FailingMax + 1 /\ glag \in 0 .. Lag /\ gnft \in 0 .. NftWait
    BY DEF GuardInit, Never
  <2>4. glost \in BOOLEAN  BY DEF GuardInit
  <2> QED  BY <2>2, <2>3, <2>4 DEF GuardTypeOK
<1>2. InTime /\ Lagging /\ Follows
  BY DEF GuardInit, InTime, Lagging, Follows, Wanted, Never
<1> QED  BY <1>1, <1>2 DEF GuardInv

LEMMA NextGuardInv == GuardInv /\ [GuardNext]_guardVars => GuardInv'
<1> SUFFICES ASSUME GuardInv, [GuardNext]_guardVars PROVE GuardInv'  OBVIOUS
<1> USE DEF GuardInv, Never, Wanted, sched
<1>1. ASSUME NEW a \in Addrs, AddrsChange(a) PROVE GuardInv'
  <2>1. GuardTypeOK'  BY <1>1 DEF AddrsChange, GuardTypeOK
  <2>2. InTime'  BY <1>1 DEF AddrsChange, GuardTypeOK, InTime
  <2>3. Lagging' /\ Follows'  BY <1>1 DEF AddrsChange, Lagging, Follows
  <2> QED  BY <2>1, <2>2, <2>3
<1>2. CASE AddrsRead
  <2>1. GuardTypeOK'  BY <1>2 DEF AddrsRead, GuardTypeOK
  <2>2. InTime'  BY <1>2 DEF AddrsRead, InTime
  <2>3. Lagging' /\ Follows'  BY <1>2 DEF AddrsRead, Lagging, Follows
  <2> QED  BY <2>1, <2>2, <2>3
<1>3. CASE GuardEvent
  <2>1. GuardTypeOK'
    <3>1. gevent' \in BOOLEAN /\ gpending' \in BOOLEAN /\ glost' \in BOOLEAN
      BY <1>3, Zenon DEF GuardEvent, GuardTypeOK
    <3>2. /\ {gaddrs, gread}' \subseteq Addrs /\ {grule, glook}' \subseteq Addrs \cup {NoAddrs}
           /\ gtrailing' \in 0 .. Never /\ gwait' \in 0 .. FailingMax /\ gfailed' \in 0 .. MaxFailed
           /\ gage' \in 0 .. FailingMax + 1 /\ glag' \in 0 .. Lag /\ gnft' \in 0 .. NftWait
      BY <1>3 DEF GuardEvent, GuardTypeOK
    <3> QED  BY <3>1, <3>2 DEF GuardTypeOK
  <2>2. InTime'  BY <1>3 DEF GuardEvent, GuardTypeOK, InTime
  <2>3. Lagging'  BY <1>3 DEF GuardEvent, GuardTypeOK, Lagging
  <2>4. Follows'  BY <1>3 DEF GuardEvent, Follows
  <2> QED  BY <2>1, <2>2, <2>3, <2>4
<1>4. ASSUME NEW poll \in BOOLEAN, GuardLook(poll) PROVE GuardInv'
  <2>1. GuardTypeOK'
    <3>1. gevent' \in BOOLEAN /\ gpending' \in BOOLEAN /\ glost' \in BOOLEAN
      BY <1>4, Zenon DEF GuardLook, GuardTypeOK
    <3> QED  BY <1>4, <3>1 DEF GuardLook, GuardTypeOK
  <2>2. InTime' /\ Lagging'  BY <1>4 DEF GuardLook, InTime, Lagging
  <2>3. Follows'
    <3>1. gread # gaddrs /\ ~gevent => gtrailing \in 1 .. Gap
      BY DEF GuardTypeOK, Lagging
    <3>2. glook' = gread /\ gread # NoAddrs  BY <1>4 DEF GuardLook, GuardTypeOK
    <3> QED  BY <1>4, <3>1, <3>2 DEF GuardLook, Follows
  <2> QED  BY <2>1, <2>2, <2>3
<1>5. CASE GuardSet
  <2>0. /\ glook # NoAddrs /\ glook' = NoAddrs /\ gnft' = 0
        /\ UNCHANGED <<gaddrs, gread, gevent, glag, glost>>
    BY <1>5 DEF GuardSet
  <2>1. CASE Looked(TRUE) /\ grule' = glook /\ UNCHANGED gage
    <3>1. GuardTypeOK'
      <4>1. gevent' \in BOOLEAN /\ gpending' \in BOOLEAN /\ glost' \in BOOLEAN
        BY <2>0, <2>1, Zenon DEF Looked, GuardTypeOK
      <4>2. /\ {gaddrs, gread}' \subseteq Addrs /\ {grule, glook}' \subseteq Addrs \cup {NoAddrs}
             /\ gtrailing' \in 0 .. Never /\ gwait' \in 0 .. FailingMax /\ gfailed' \in 0 .. MaxFailed
             /\ gage' \in 0 .. FailingMax + 1 /\ glag' \in 0 .. Lag /\ gnft' \in 0 .. NftWait
        BY <2>0, <2>1 DEF Looked, GuardTypeOK
      <4> QED  BY <4>1, <4>2 DEF GuardTypeOK
    <3>2. InTime'  BY <2>0, <2>1 DEF Looked, GuardTypeOK, InTime
    <3>3. Lagging'  BY <2>0, <2>1 DEF Looked, GuardTypeOK, Lagging
    <3>4. Follows'  BY <2>0, <2>1 DEF Looked, Follows
    <3> QED  BY <3>1, <3>2, <3>3, <3>4
  <2>2. CASE gfailed < MaxFailed /\ Looked(FALSE) /\ gage' = 0 /\ UNCHANGED grule
    <3>0. gwait' = FailedWait /\ FailedWait \in 0 .. FailingMax
      BY <2>2, WaitIn DEF Looked
    <3>1. GuardTypeOK'
      <4>1. gevent' \in BOOLEAN /\ gpending' \in BOOLEAN /\ glost' \in BOOLEAN
        BY <2>0, <2>2, Zenon DEF Looked, GuardTypeOK
      <4>2. /\ {gaddrs, gread}' \subseteq Addrs /\ {grule, glook}' \subseteq Addrs \cup {NoAddrs}
             /\ gtrailing' \in 0 .. Never /\ gwait' \in 0 .. FailingMax /\ gfailed' \in 0 .. MaxFailed
             /\ gage' \in 0 .. FailingMax + 1 /\ glag' \in 0 .. Lag /\ gnft' \in 0 .. NftWait
        BY <2>0, <2>2, <3>0 DEF Looked, GuardTypeOK
      <4> QED  BY <4>1, <4>2 DEF GuardTypeOK
    <3>2. InTime'  BY <2>0, <2>2, <3>0 DEF Looked, GuardTypeOK, InTime
    <3>3. Lagging'  BY <2>0, <2>2 DEF Looked, GuardTypeOK, Lagging
    <3>4. Follows'  BY <2>0, <2>2 DEF Looked, GuardTypeOK, Follows
    <3> QED  BY <3>1, <3>2, <3>3, <3>4
  <2> QED  BY <1>5, <2>1, <2>2 DEF GuardSet
<1>6. CASE GuardTick
  <2>1. GuardTypeOK'
    <3>1. gevent' \in BOOLEAN /\ gpending' \in BOOLEAN
      BY <1>6, Zenon DEF GuardTick, GuardTypeOK
    <3>2. glost' \in BOOLEAN  BY <1>6, Zenon DEF GuardTick, GuardTypeOK
    <3>3. gnft' \in 0 .. NftWait  BY <1>6 DEF GuardTick, GuardTypeOK
    <3>4. /\ {gaddrs, gread}' \subseteq Addrs /\ {grule, glook}' \subseteq Addrs \cup {NoAddrs}
          /\ gtrailing' \in 0 .. Never /\ gwait' \in 0 .. FailingMax /\ gfailed' \in 0 .. MaxFailed
          /\ gage' \in 0 .. FailingMax + 1 /\ glag' \in 0 .. Lag
      BY <1>6 DEF GuardTick, GuardTypeOK
    <3> QED  BY <3>1, <3>2, <3>3, <3>4 DEF GuardTypeOK
  <2>2. InTime'  BY <1>6 DEF GuardTick, Due, GuardTypeOK, InTime
  <2>3. Lagging'  BY <1>6 DEF GuardTick, Due, GuardTypeOK, Lagging
  <2>4. Follows'
    <3>1. CASE glook = NoAddrs
      <4>1. glost' = glost /\ Wanted' = Wanted
        <5>1. gtrailing' # Never <=> gtrailing # Never  BY <1>6 DEF GuardTick, GuardTypeOK
        <5>2. glost' = glost  BY <1>6, <3>1, Zenon DEF GuardTick, GuardTypeOK
        <5>3. gpending' = gpending /\ gfailed' = gfailed  BY <1>6 DEF GuardTick
        <5> QED  BY <5>1, <5>2, <5>3
      <4> QED  BY <1>6, <3>1, <4>1 DEF GuardTick, Follows
    <3>2. CASE glook # NoAddrs
      <4>1. (gtrailing \in 1 .. Gap) => (gtrailing = 1 \/ gtrailing' \in 1 .. Gap)
        BY <1>6 DEF GuardTick, GuardTypeOK
      <4>2. glost \/ gtrailing = 1 => glost'  BY <1>6, <3>2, Zenon DEF GuardTick
      <4> QED  BY <1>6, <3>2, <4>1, <4>2 DEF GuardTick, Follows
    <3> QED  BY <3>1, <3>2
  <2> QED  BY <2>1, <2>2, <2>3, <2>4
<1>7. CASE UNCHANGED guardVars
  BY <1>7 DEF guardVars, GuardTypeOK, InTime, Lagging, Follows
<1> QED  BY <1>1, <1>2, <1>3, <1>4, <1>5, <1>6, <1>7 DEF GuardNext

LEMMA GuardInductive == GuardSpec => []GuardInv
<1> QED  BY InitGuardInv, NextGuardInv, PTL DEF GuardSpec

-----------------------------------------------------------------------------
\* Every variable of the guard keeps its type.
THEOREM GuardTyped == GuardSpec => []GuardTypeOK
<1>1. GuardInv => GuardTypeOK  BY DEF GuardInv
<1> QED  BY <1>1, GuardInductive, PTL

\* FAILING_MAX after the last event seen and the last failure the rule has the host's addresses, for
\* any NFT_WAIT and GAP, FAILING_MAX at least twice it, and any lag shorter than GAP; unless the time of
\* the trailing look came as nft ran.
THEOREM RuleIsCurrent == GuardSpec => []GuardCurrent
<1>1. GuardInv => GuardCurrent
  BY DEF GuardInv, GuardTypeOK, InTime, Follows, Wanted, Never, GuardCurrent
<1> QED  BY <1>1, GuardInductive, PTL

-----------------------------------------------------------------------------
(***************************************************************************)
(* The run's specification: each component's own, as the others stand.     *)
(***************************************************************************)
LEMMA WorkStarts ==
    WorkInit =>
        SaveInit /\ PtrInit /\ JobsInit /\ MarksInit /\ GuardInit
        /\ RelayInit
  BY DEF WorkInit

LEMMA WorkSteps ==
    [WorkNext]_workVars =>
        /\ [SaveNext]_saveVars /\ [PtrNext]_ptrVars /\ [JobsNext]_jobsVars
        /\ [MarksNext]_marksVars /\ [GuardNext]_guardVars /\ [RelayNext]_relayVars
  BY Zenon DEF WorkNext, workVars

\* A behaviour of the run is one of each component, so that each theorem about a component holds of
\* it.
THEOREM PartsHold ==
    WorkSpec => SaveSpec /\ PtrSpec /\ JobsSpec /\ MarksSpec /\ GuardSpec /\ RelaySpec
<1> QED
  BY WorkStarts, WorkSteps, PTL
     DEF WorkSpec, SaveSpec, PtrSpec, JobsSpec, MarksSpec, GuardSpec, RelaySpec

\* Every variable of the six components keeps its type in the run.
THEOREM WorkTyped == WorkSpec => []WorkTypeOK
<1>1. SaveTypeOK /\ PtrTypeOK /\ JobsTypeOK /\ MarksTypeOK /\ GuardTypeOK /\ RelayTypeOK
      => WorkTypeOK
  BY DEF WorkTypeOK
<1> QED
  BY <1>1, PartsHold, SaveTyped, PtrTyped, JobsTyped, MarksTyped, GuardTyped, RelayTyped, PTL

\* What the run checks of the six components holds of its specification for any saves, commands,
\* jobs, runs, addresses and callers, and any bounds.
THEOREM WorkSafe ==
    WorkSpec =>
        /\ [](CopyStill /\ PausedHeld) /\ LiveWorkKept /\ KeptUnforced
        /\ [](HiddenWhile /\ HideStays /\ PointerBack)
        /\ [](EndSaid /\ StopUnsaid) /\ []MarksSame
        /\ [](GuardCurrent /\ HandlersRight /\ GoneKilled)
<1>1. SaveSpec => [](CopyStill /\ PausedHeld) /\ LiveWorkKept /\ KeptUnforced
  BY CopyIsStill, PausedIsHeld, LiveWorkIsKept, UnforcedKept, PTL
<1>2. PtrSpec => [](HiddenWhile /\ HideStays /\ PointerBack)
  BY HeldIsHidden, HiddenUntilShow, BackAsItWas, PTL
<1>3. JobsSpec /\ MarksSpec => [](EndSaid /\ StopUnsaid) /\ []MarksSame
  BY EndsAreSaid, StopIsUnsaid, MarksAreRuns, PTL
<1>4. GuardSpec /\ RelaySpec => [](GuardCurrent /\ HandlersRight /\ GoneKilled)
  BY RuleIsCurrent, HandlersCounted, CommandGone, PTL
<1> QED
  BY <1>1, <1>2, <1>3, <1>4, PartsHold, PTL
=============================================================================
