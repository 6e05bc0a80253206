--------------------------- MODULE Pointer_proofs ---------------------------
(***************************************************************************)
(* The pointer stays hidden while a shot or a recording holds it so and    *)
(* after pointer hide, and is as it was once nothing hides it, for any     *)
(* commands, kills and calls that are not answered.                        *)
(*                                                                         *)
(* Whoever has the lock has a plan that keeps the holds there are          *)
(* (HoldsKept) and what pointer hide asked (HideKept), so that the flag    *)
(* for a reload is there as long (Recorded); what cursor:invisible was is  *)
(* in the record (Based), and a command that saw it hidden has nothing to  *)
(* set (Seen).                                                             *)
(***************************************************************************)
EXTENDS Pointer, TLAPS

USE PointerAssumption DEF Holders, PtrCmds

-----------------------------------------------------------------------------
\* The record by its fields: the steps below need no more of it than these lemmas say.
Records == [hidden : BOOLEAN, holds : SUBSET Holders, was : {"none", "true", "false"}]
Hid(r) == r.hidden
Holds(r) == r.holds
Was(r) == r.was

LEMMA Fields == \A r \in Records : /\ Hid(r) \in BOOLEAN /\ Holds(r) \in SUBSET Holders
                                   /\ Was(r) \in {"none", "true", "false"}
<1> QED  BY Zenon DEF Records, Hid, Holds, Was

LEMMA NoRecFields == NoRec \in Records /\ ~On(NoRec)
<1> QED  BY Zenon DEF Records, NoRec, On

LEMMA OnFields == \A r \in Records : On(r) <=> (Hid(r) \/ \E c \in Holders : c \in Holds(r))
<1>1. \A r \in Records : On(r) <=> (Hid(r) \/ Holds(r) # {})
  BY Zenon DEF On, Hid, Holds
<1>2. \A h \in SUBSET Holders : h # {} <=> \E c \in Holders : c \in h  OBVIOUS
<1> QED  BY <1>1, <1>2, Fields

\* One field of a record changed.
LEMMA WasSet ==
    ASSUME NEW r \in Records, NEW w \in {"none", "true", "false"}
    PROVE  LET n == [r EXCEPT !.was = w]
           IN  n \in Records /\ Hid(n) = Hid(r) /\ Holds(n) = Holds(r) /\ Was(n) = w
<1> QED  BY Zenon DEF Records, Hid, Holds, Was

LEMMA HoldsSet ==
    ASSUME NEW r \in Records, NEW h \in SUBSET Holders
    PROVE  LET n == [r EXCEPT !.holds = h]
           IN  n \in Records /\ Hid(n) = Hid(r) /\ Holds(n) = h /\ Was(n) = Was(r)
<1> QED  BY Zenon DEF Records, Hid, Holds, Was

LEMMA HiddenSet ==
    ASSUME NEW r \in Records, NEW b \in BOOLEAN
    PROVE  LET n == [r EXCEPT !.hidden = b]
           IN  n \in Records /\ Hid(n) = b /\ Holds(n) = Holds(r) /\ Was(n) = Was(r)
<1> QED  BY Zenon DEF Records, Hid, Holds, Was

LEMMA ShownSet ==
    ASSUME NEW r \in Records
    PROVE  LET n == [r EXCEPT !.hidden = FALSE, !.was = "false"]
           IN  n \in Records /\ Hid(n) = FALSE /\ Holds(n) = Holds(r) /\ Was(n) = "false"
<1> QED  BY Zenon DEF Records, Hid, Holds, Was

-----------------------------------------------------------------------------
\* Where a command stands.
Stages ==
    \A c \in PtrCmds :
        /\ c \notin Holders => stage[c] \in {"idle", "asking", "over"}
        /\ c \in Holders => stage[c] # "asking"
        /\ stage[c] = "stopping" => c \in Recs
        /\ stage[c] \in {"idle", "on", "over"} => pstep[c] = "none"
        /\ c \in dead => stage[c] = "over"

Changing == {"live", "write", "set", "clear", "unset"}

\* One command at a time is past its lock.
PtrLocked ==
    /\ \A c \in PtrCmds : pstep[c] \in Changing => plock = c
    /\ plock \in PtrCmds => pstep[plock] \in Changing

\* The flag is there with the record, and the record is the plan once it is written.
Recorded ==
    /\ flag <=> On(prec)
    /\ \A c \in PtrCmds :
          /\ pstep[c] \in {"live", "write", "set"} => On(plan)
          /\ pstep[c] = "clear" => ~On(plan)
          /\ pstep[c] = "set" => prec = plan
          /\ pstep[c] = "unset" => ~On(prec)

\* What a command asks is in its plan.
Doing ==
    \A c \in PtrCmds :
        /\ pstep[c] \in {"live", "write", "set", "clear"} =>
              /\ stage[c] = "holding" => c \in Holds(plan)
              /\ c \in Hides => Hid(plan)
        /\ pstep[c] = "unset" => stage[c] # "holding" /\ c \notin Hides

\* A command has its hold, with no other recording about.
PtrHeld(c) == stage[c] = "on" /\ (c \in Recs => \A d \in Recs \ {c} : stage[d] = "idle")

HoldsKept ==
    \A c \in Holders : PtrHeld(c) =>
        /\ c \in Holds(prec)
        /\ \A d \in PtrCmds : pstep[d] \in {"live", "write", "clear"} => c \in Holds(plan)

\* The last word was pointer hide.
HideAsked == asked = "hide" /\ \A c \in Shows : stage[c] = "idle"

HideKept ==
    HideAsked =>
        /\ Hid(prec)
        /\ \A d \in PtrCmds : pstep[d] \in {"live", "write", "clear"} => Hid(plan)

\* What cursor:invisible is but for the hiding: in the record, in the plan of who shows it again,
\* and in the box while nothing hides it.
Based ==
    ~lost =>
        /\ On(prec) => Was(prec) = Word(base)
        /\ base => conf
        /\ (~flag /\ \A c \in PtrCmds : pstep[c] \notin {"write", "unset"}) => (live <=> base)
        /\ \A c \in PtrCmds :
              /\ pstep[c] \in {"live", "clear"} =>
                    Was(plan) = IF c \in Shows THEN "false" ELSE Was(prec)
              /\ pstep[c] = "live" /\ c \in Shows => On(prec)
              /\ pstep[c] = "write" /\ On(prec) =>
                    Was(plan) = IF c \in Shows THEN "false" ELSE Word(base)
              /\ pstep[c] = "write" /\ ~On(prec) =>
                    Was(plan) = Word(base) /\ c \notin Shows /\ (live => conf) /\ (seen <=> base)
              /\ pstep[c] = "unset" =>
                    Was(plan) = IF c \in Shows THEN "false" ELSE Word(base)

\* The box is hidden, if a command that is to hide it saw that.
Seen ==
    /\ orphans # {} => dead # {}
    /\ ~lost => \A c \in PtrCmds : (pstep[c] \in {"write", "set"} /\ seen) => live

\* PtrTypeOK, the records apart.
Typed ==
    /\ stage \in [PtrCmds -> {"idle", "holding", "on", "stopping", "releasing", "asking", "over"}]
    /\ pstep \in [PtrCmds -> {"none", "want", "live", "write", "set", "clear", "unset"}]
    /\ plock \in PtrCmds \cup {NoCmd} /\ recfile \in Recs \cup {NoCmd}
    /\ flag \in BOOLEAN /\ seen \in BOOLEAN /\ live \in BOOLEAN /\ conf \in BOOLEAN
    /\ base \in BOOLEAN /\ lost \in BOOLEAN
    /\ dead \subseteq PtrCmds /\ orphans \subseteq BOOLEAN
    /\ pfaults \in 0 .. MaxPtrFaults
    /\ asked \in {"none", "hide", "show"}
RecTyped == prec \in Records /\ plan \in Records

LEMMA TypeParts == PtrTypeOK <=> Typed /\ RecTyped
<1>1. {prec, plan} \subseteq Records <=> prec \in Records /\ plan \in Records  OBVIOUS
<1>2. {flag, seen, live, conf, base, lost} \subseteq BOOLEAN <=>
        /\ flag \in BOOLEAN /\ seen \in BOOLEAN /\ live \in BOOLEAN /\ conf \in BOOLEAN
        /\ base \in BOOLEAN /\ lost \in BOOLEAN
  OBVIOUS
<1> QED  BY <1>1, <1>2, Zenon DEF PtrTypeOK, Typed, RecTyped, Records

PtrInv == /\ Typed /\ RecTyped /\ Stages /\ PtrLocked /\ Recorded /\ Doing
        /\ HoldsKept /\ HideKept /\ Based /\ Seen /\ HiddenWhile /\ HideStays

-----------------------------------------------------------------------------
LEMMA InitPtrInv == PtrInit => PtrInv
<1> SUFFICES ASSUME PtrInit PROVE PtrInv  OBVIOUS
<1>1. prec \in Records /\ plan \in Records /\ ~On(prec)  BY NoRecFields DEF PtrInit
<1>2. Typed /\ RecTyped
  <2>1. pfaults \in 0 .. MaxPtrFaults  BY DEF PtrInit
  <2>2. flag \in BOOLEAN /\ seen \in BOOLEAN /\ live \in BOOLEAN /\ conf \in BOOLEAN
        /\ base \in BOOLEAN /\ lost \in BOOLEAN
    BY Zenon DEF PtrInit
  <2> QED  BY <1>1, <2>1, <2>2 DEF PtrInit, Typed, RecTyped
<1>3. Stages /\ PtrLocked /\ Recorded /\ Doing /\ Seen
  BY <1>1 DEF PtrInit, Stages, PtrLocked, Recorded, Doing, Seen, Changing
<1>4. HoldsKept /\ HideKept /\ HiddenWhile /\ HideStays
  BY DEF PtrInit, PtrHeld, HoldsKept, HideAsked, HideKept, HiddenWhile, HideStays
<1>5. Based  BY <1>1 DEF PtrInit, Based
<1> QED  BY <1>2, <1>3, <1>4, <1>5 DEF PtrInv

\* What a command makes of the record it read.
LEMMA ReadPlan ==
    ASSUME PtrInv, NEW c \in PtrCmds, PtrRead(c)
    PROVE  /\ plan' \in Records
           /\ Was(plan') = IF c \in Shows THEN "false" ELSE Was(prec)
           /\ Hid(plan') <=> (c \in Hides \/ (Hid(prec) /\ c \notin Shows))
           /\ stage[c] = "holding" => c \in Holds(plan')
           /\ \A h \in Holds(prec) :
                 (KeptHold(h) /\ h # c /\ (stage[c] = "stopping" => h \notin Recs)) => h \in Holds(plan')
           /\ (c \in Shows /\ On(plan')) => On(prec)
<1> DEFINE kept == {h \in Holds(prec) : KeptHold(h)}
           r == [prec EXCEPT !.holds = kept]
<1> USE DEF PtrInv
<1>1. prec \in Records /\ plan' = Asked(c, r)
  BY Zenon DEF PtrRead, RecTyped, Holds
<1>2. kept \in SUBSET Holders  BY <1>1, Fields
<1>3. r \in Records /\ Hid(r) = Hid(prec) /\ Holds(r) = kept /\ Was(r) = Was(prec)
  BY <1>1, <1>2, HoldsSet
<1> HIDE DEF r
<1>4. CASE c \in Hides
  <2>1. plan' = [r EXCEPT !.hidden = TRUE]  BY <1>1, <1>4, Zenon DEF Asked, Op
  <2>2. plan' \in Records /\ Hid(plan') = TRUE /\ Holds(plan') = kept /\ Was(plan') = Was(prec)
    BY <1>3, <2>1, HiddenSet
  <2> QED  BY <1>4, <2>2 DEF Stages, Typed
<1>5. CASE c \in Shows
  <2>1. plan' = [r EXCEPT !.hidden = FALSE, !.was = "false"]
    <3>1. Op(c) = "show"  BY <1>5 DEF Op
    <3> QED  BY <1>1, <3>1 DEF Asked
  <2>2. plan' \in Records /\ Hid(plan') = FALSE /\ Holds(plan') = kept /\ Was(plan') = "false"
    BY <1>3, <2>1, ShownSet
  <2>3. On(plan') => On(prec)  BY <1>1, <2>2, OnFields
  <2> QED  BY <1>5, <2>2, <2>3 DEF Stages, Typed
<1>6. CASE c \in Holders /\ stage[c] = "holding"
  <2>1. plan' = [r EXCEPT !.holds = kept \cup {c}]
    <3>1. Op(c) = "hold"  BY <1>6 DEF Op
    <3>2. plan' = [r EXCEPT !.holds = @ \cup {c}]  BY <1>1, <3>1 DEF Asked
    <3> QED  BY <1>3, <3>2, Zenon DEF Holds
  <2>2. kept \cup {c} \in SUBSET Holders  BY <1>2, <1>6
  <2>3. plan' \in Records /\ Hid(plan') = Hid(prec) /\ Holds(plan') = kept \cup {c}
        /\ Was(plan') = Was(prec)
    BY <1>3, <2>1, <2>2, HoldsSet
  <2> QED  BY <1>6, <2>3, Fields, <1>1
<1>7. CASE c \in Holders /\ stage[c] # "holding"
  <2> DEFINE less == kept \ (IF stage[c] = "stopping" THEN Recs ELSE {c})
  <2>1. plan' = [r EXCEPT !.holds = less]
    <3>1. Op(c) = "release"  BY <1>7 DEF Op
    <3>2. plan' = [r EXCEPT !.holds = @ \ (IF stage[c] = "stopping" THEN Recs ELSE {c})]
      BY <1>1, <3>1 DEF Asked
    <3> QED  BY <1>3, <3>2, Zenon DEF Holds
  <2>2. less \in SUBSET Holders  BY <1>2
  <2>3. plan' \in Records /\ Hid(plan') = Hid(prec) /\ Holds(plan') = less /\ Was(plan') = Was(prec)
    BY <1>3, <2>1, <2>2, HoldsSet
  <2> QED  BY <1>7, <2>3, Fields, <1>1
<1> QED  BY <1>4, <1>5, <1>6, <1>7

\* How ptr_change ends, in the stages a command may be in.
Ends(c, ok) ==
    /\ stage' = [stage EXCEPT ![c] = stage'[c]] /\ pstep' = [pstep EXCEPT ![c] = pstep'[c]]
    /\ stage'[c] \in {"on", "releasing", "over"} /\ pstep'[c] \in {"none", "want"}
    /\ stage'[c] # "releasing" => pstep'[c] = "none"
    /\ stage'[c] = "on" <=> (stage[c] = "holding" /\ ok)
    /\ stage'[c] \in {"on", "releasing"} => c \in Holders
    /\ c \notin dead
    /\ plock' = IF plock = c THEN NoCmd ELSE plock
    /\ asked' = IF ok /\ stage[c] = "asking" THEN (IF c \in Hides THEN "hide" ELSE "show") ELSE asked
    /\ stage[c] = "asking" <=> c \in Hides \cup Shows

LEMMA OverStep ==
    ASSUME PtrInv, NEW c \in PtrCmds, NEW ok \in BOOLEAN, PtrOver(c, ok), pstep[c] # "none"
    PROVE  Ends(c, ok)
<1>1. stage' = [stage EXCEPT ![c] = AfterChange(c, ok)]
      /\ pstep' = [pstep EXCEPT ![c] = IF AfterChange(c, ok) = "releasing" THEN "want" ELSE "none"]
      /\ plock' = IF plock = c THEN NoCmd ELSE plock
  BY DEF PtrOver
<1>2. AfterChange(c, ok) \in {"on", "releasing", "over"}
      /\ (AfterChange(c, ok) = "on" <=> (stage[c] = "holding" /\ ok))
      /\ (AfterChange(c, ok) = "releasing" => stage[c] = "holding")
  BY DEF AfterChange
<1>3. /\ c \notin dead /\ (stage[c] = "holding" => c \in Holders)
      /\ stage[c] = "asking" <=> c \in Hides \cup Shows
  BY DEF PtrInv, Stages, Typed
<1>4. stage'[c] = AfterChange(c, ok) /\ pstep'[c] \in {"none", "want"}
      /\ (stage'[c] # "releasing" => pstep'[c] = "none")
  BY <1>1, <1>2 DEF PtrInv, Typed
<1>5. asked' = IF ok /\ stage[c] = "asking" THEN (IF c \in Hides THEN "hide" ELSE "show") ELSE asked
  <2>1. stage[c] = "asking" => Op(c) = IF c \in Hides THEN "hide" ELSE "show"
    BY <1>3 DEF Op
  <2>2. CASE ok /\ stage[c] = "asking"
    <3>1. asked' = Op(c)  BY <2>2 DEF PtrOver
    <3> QED  BY <2>1, <2>2, <3>1
  <2>3. CASE ~(ok /\ stage[c] = "asking")
    <3>1. asked' = asked  BY <2>3 DEF PtrOver
    <3> QED  BY <2>3, <3>1
  <2> QED  BY <2>2, <2>3
<1>6. stage' = [stage EXCEPT ![c] = stage'[c]] /\ pstep' = [pstep EXCEPT ![c] = pstep'[c]]
  BY <1>1, <1>2, <1>4 DEF PtrInv, Typed
<1>7. /\ stage'[c] \in {"on", "releasing", "over"}
      /\ stage'[c] = "on" <=> (stage[c] = "holding" /\ ok)
      /\ stage'[c] \in {"on", "releasing"} => c \in Holders
  BY <1>2, <1>3, <1>4
<1> QED  BY <1>1, <1>3, <1>4, <1>5, <1>6, <1>7 DEF Ends

LEMMA SilentOnce == ASSUME Typed, Silent PROVE pfaults' \in 0 .. MaxPtrFaults
<1> QED  BY DEF Typed, Silent

LEMMA NextPtrInv == PtrInv /\ [PtrNext]_ptrVars => PtrInv'
<1> SUFFICES ASSUME PtrInv, [PtrNext]_ptrVars PROVE PtrInv'  OBVIOUS
<1> USE DEF PtrInv, disk, hist, Changing
<1>1. ASSUME NEW c \in PtrCmds, PtrStart(c) PROVE PtrInv'
  <2>1. Typed'  BY <1>1 DEF PtrStart, Typed, RecTyped
  <2>2. RecTyped'  BY <1>1 DEF PtrStart, Typed, RecTyped
  <2>3. Stages'  BY <1>1 DEF PtrStart, Typed, RecTyped, Stages, PtrLocked
  <2>4. PtrLocked'  BY <1>1 DEF PtrStart, Typed, RecTyped, PtrLocked, Stages
  <2>5. Recorded'  BY <1>1 DEF PtrStart, Typed, RecTyped, Recorded, PtrLocked, Doing
  <2>6. Doing'
    BY <1>1 DEF PtrStart, Typed, RecTyped, Doing, Stages, PtrLocked, Recorded
  <2>7. HoldsKept'
    BY <1>1 DEF PtrStart, Typed, RecTyped, HoldsKept, PtrHeld, Stages, PtrLocked,
       Recorded, Doing
  <2>8. HideKept'
    BY <1>1 DEF PtrStart, Typed, RecTyped, HideKept, HideAsked, Stages, PtrLocked,
       Recorded, Doing
  <2>9. Based'
    BY <1>1 DEF PtrStart, Typed, RecTyped, Based, Stages, PtrLocked, Recorded, Word
  <2>10. Seen'
    BY <1>1 DEF PtrStart, Typed, RecTyped, Seen, Stages, PtrLocked, Recorded, Based
  <2>11. HiddenWhile'
    BY <1>1, OnFields DEF PtrStart, Typed, RecTyped, HiddenWhile, PtrHeld,
       HoldsKept, Stages,
      PtrLocked, Recorded, Based, Seen, Doing
  <2>12. HideStays'
    BY <1>1, OnFields DEF PtrStart, Typed, RecTyped, HideStays, HideAsked,
       HideKept, Stages,
      PtrLocked, Recorded, Based, Seen, Doing
  <2> QED  BY <2>1, <2>2, <2>3, <2>4, <2>5, <2>6, <2>7, <2>8, <2>9, <2>10, <2>11, <2>12
<1>2. ASSUME NEW c \in PtrCmds, PtrRead(c) PROVE PtrInv'
  <2>a. /\ pstep[c] = "want" /\ plock = NoCmd /\ plock' = c
        /\ pstep' = [pstep EXCEPT ![c] = IF On(plan') THEN "live" ELSE "clear"]
        /\ UNCHANGED <<stage, prec, flag, recfile, seen, live, dead, orphans, conf, pfaults, base,
                       asked, lost>>
    BY <1>2, Zenon DEF PtrRead
  <2>b. /\ plan' \in Records
        /\ Was(plan') = IF c \in Shows THEN "false" ELSE Was(prec)
        /\ Hid(plan') <=> (c \in Hides \/ (Hid(prec) /\ c \notin Shows))
        /\ stage[c] = "holding" => c \in Holds(plan')
        /\ \A h \in Holds(prec) :
              (KeptHold(h) /\ h # c /\ (stage[c] = "stopping" => h \notin Recs)) => h \in Holds(plan')
        /\ (c \in Shows /\ On(plan')) => On(prec)
    BY <1>2, ReadPlan
  <2>1. Typed'  BY <2>a, <2>b DEF Typed, RecTyped
  <2>2. RecTyped'  BY <2>a, <2>b DEF Typed, RecTyped
  <2>3. Stages'  BY <2>a, <2>b DEF Typed, RecTyped, Stages, PtrLocked
  <2>4. PtrLocked'  BY <2>a, <2>b DEF Typed, RecTyped, PtrLocked, Stages
  <2>5. Recorded'  BY <2>a, <2>b DEF Typed, RecTyped, Recorded, PtrLocked, Doing
  <2>6. Doing'  BY <2>a, <2>b DEF Typed, RecTyped, Doing, Stages, PtrLocked, Recorded
  <2>7. HoldsKept'
    <3>1. ASSUME NEW h \in Holders, PtrHeld(h) PROVE h \in Holds(plan')
      <4>1. h \in Holds(prec) /\ stage[h] = "on"  BY <3>1 DEF HoldsKept, PtrHeld
      <4>2. KeptHold(h)  BY <4>1 DEF KeptHold, Running, Stages, Typed
      <4>3. h # c  BY <2>a, <4>1 DEF Stages
      <4>4. stage[c] = "stopping" => h \notin Recs  BY <3>1, <4>3 DEF PtrHeld, Stages
      <4> QED  BY <2>b, <4>1, <4>2, <4>3, <4>4
    <3> QED  BY <2>a, <3>1 DEF HoldsKept, PtrHeld
  <2>8. HideKept'
    BY <2>a, <2>b DEF Typed, RecTyped, HideKept, HideAsked, Stages, PtrLocked,
       Recorded, Doing
  <2>9. Based'
    BY <2>a, <2>b DEF Typed, RecTyped, Based, Stages, PtrLocked, Recorded, Word
  <2>10. Seen'
    BY <2>a, <2>b DEF Typed, RecTyped, Seen, Stages, PtrLocked, Recorded, Based
  <2>11. HiddenWhile'
    BY <2>a, <2>b, OnFields DEF Typed, RecTyped, HiddenWhile, PtrHeld, HoldsKept,
       Stages, PtrLocked,
      Recorded, Based, Seen, Doing
  <2>12. HideStays'
    BY <2>a, <2>b, OnFields DEF Typed, RecTyped, HideStays, HideAsked, HideKept,
       Stages, PtrLocked,
      Recorded, Based, Seen, Doing
  <2> QED  BY <2>1, <2>2, <2>3, <2>4, <2>5, <2>6, <2>7, <2>8, <2>9, <2>10, <2>11, <2>12
<1>3. ASSUME NEW c \in PtrCmds, PtrBusy(c) PROVE PtrInv'
  <2>a. Ends(c, FALSE)  BY <1>3, OverStep DEF PtrBusy
  <2>b. /\ pstep[c] = "want" /\ plock' = plock
        /\ UNCHANGED <<prec, plan, flag, recfile, seen, live, dead, orphans, conf, pfaults, base,
                       lost>>
    BY <1>3, <2>a DEF PtrBusy, Ends, PtrLocked
  <2>1. Typed'  BY <2>a, <2>b DEF Ends, Typed, RecTyped
  <2>2. RecTyped'  BY <2>a, <2>b DEF Ends, Typed, RecTyped
  <2>3. Stages'  BY <2>a, <2>b DEF Ends, Typed, RecTyped, Stages, PtrLocked
  <2>4. PtrLocked'  BY <2>a, <2>b DEF Ends, Typed, RecTyped, PtrLocked, Stages
  <2>5. Recorded'  BY <2>a, <2>b DEF Ends, Typed, RecTyped, Recorded, PtrLocked, Doing
  <2>6. Doing'
    BY <2>a, <2>b DEF Ends, Typed, RecTyped, Doing, Stages, PtrLocked, Recorded
  <2>7. HoldsKept'
    BY <2>a, <2>b DEF Ends, Typed, RecTyped, HoldsKept, PtrHeld, Stages, PtrLocked,
       Recorded, Doing
  <2>8. HideKept'
    BY <2>a, <2>b DEF Ends, Typed, RecTyped, HideKept, HideAsked, Stages,
       PtrLocked, Recorded,
      Doing
  <2>9. Based'
    BY <2>a, <2>b DEF Ends, Typed, RecTyped, Based, Stages, PtrLocked, Recorded,
       Word
  <2>10. Seen'
    BY <2>a, <2>b DEF Ends, Typed, RecTyped, Seen, Stages, PtrLocked, Recorded,
       Based
  <2>11. HiddenWhile'
    BY <2>a, <2>b, OnFields DEF Ends, Typed, RecTyped, HiddenWhile, PtrHeld,
       HoldsKept, Stages,
      PtrLocked, Recorded, Based, Seen, Doing
  <2>12. HideStays'
    BY <2>a, <2>b, OnFields DEF Ends, Typed, RecTyped, HideStays, HideAsked,
       HideKept, Stages,
      PtrLocked, Recorded, Based, Seen, Doing
  <2> QED  BY <2>1, <2>2, <2>3, <2>4, <2>5, <2>6, <2>7, <2>8, <2>9, <2>10, <2>11, <2>12
<1>4. ASSUME NEW c \in PtrCmds, PtrLive(c) PROVE PtrInv'
  <2>a. /\ pstep[c] = "live"
        /\ UNCHANGED <<prec, flag, recfile, live, dead, orphans, conf, base, lost>>
    BY <1>4 DEF PtrLive
  <2>b. \/ /\ pstep' = [pstep EXCEPT ![c] = "write"] /\ seen' = live
           /\ UNCHANGED <<stage, plock, asked, pfaults>>
           /\ plan' \in Records /\ (Hid(plan') <=> Hid(plan)) /\ Holds(plan') = Holds(plan)
           /\ Was(plan') = IF On(prec) /\ Was(plan) # "none" THEN Was(plan) ELSE Word(live)
        \/ /\ Ends(c, FALSE) /\ UNCHANGED <<plan, seen>>
           /\ pfaults' \in 0 .. MaxPtrFaults
    <3>1. CASE /\ pstep' = [pstep EXCEPT ![c] = "write"] /\ seen' = live
               /\ plan' = IF On(prec) /\ plan.was # "none" THEN plan ELSE [plan EXCEPT !.was = Word(live)]
               /\ UNCHANGED <<stage, plock, asked, pfaults>>
      <4>1. Word(live) \in {"none", "true", "false"}  BY DEF Word
      <4>2. plan' = IF On(prec) /\ Was(plan) # "none" THEN plan ELSE [plan EXCEPT !.was = Word(live)]
        BY <3>1, Zenon DEF Was
      <4>3. plan' \in Records /\ (Hid(plan') <=> Hid(plan)) /\ Holds(plan') = Holds(plan)
            /\ Was(plan') = IF On(prec) /\ Was(plan) # "none" THEN Was(plan) ELSE Word(live)
        <5>1. CASE On(prec) /\ Was(plan) # "none"  BY <4>2, <5>1 DEF RecTyped
        <5>2. CASE ~(On(prec) /\ Was(plan) # "none")
          <6>1. plan' = [plan EXCEPT !.was = Word(live)]  BY <4>2, <5>2
          <6>2. plan \in Records  BY DEF RecTyped
          <6>3. /\ [plan EXCEPT !.was = Word(live)] \in Records
                /\ Hid([plan EXCEPT !.was = Word(live)]) = Hid(plan)
                /\ Holds([plan EXCEPT !.was = Word(live)]) = Holds(plan)
                /\ Was([plan EXCEPT !.was = Word(live)]) = Word(live)
            BY <4>1, <6>2, WasSet
          <6> QED  BY <5>2, <6>1, <6>3, Zenon
        <5> QED  BY <5>1, <5>2
      <4> QED  BY <3>1, <4>3
    <3>2. CASE Silent /\ PtrOver(c, FALSE) /\ UNCHANGED <<plan, seen>>
      BY <2>a, <3>2, OverStep, SilentOnce
    <3> QED  BY <1>4, <3>1, <3>2, Zenon DEF PtrLive
  <2>c. plan \in Records /\ (On(plan') <=> On(plan))
    BY <2>b, OnFields DEF RecTyped
  <2>1. Typed'  BY <2>a, <2>b, <2>c DEF Ends, Typed, RecTyped
  <2>2. RecTyped'  BY <2>a, <2>b, <2>c DEF Ends, Typed, RecTyped
  <2>3. Stages'  BY <2>a, <2>b, <2>c DEF Ends, Typed, RecTyped, Stages, PtrLocked
  <2>4. PtrLocked'  BY <2>a, <2>b, <2>c DEF Ends, Typed, RecTyped, PtrLocked, Stages
  <2>5. Recorded'
    BY <2>a, <2>b, <2>c DEF Ends, Typed, RecTyped, Recorded, PtrLocked, Doing
  <2>6. Doing'
    BY <2>a, <2>b, <2>c DEF Ends, Typed, RecTyped, Doing, Stages, PtrLocked,
       Recorded
  <2>7. HoldsKept'
    BY <2>a, <2>b, <2>c DEF Ends, Typed, RecTyped, HoldsKept, PtrHeld, Stages,
       PtrLocked, Recorded,
      Doing
  <2>8. HideKept'
    BY <2>a, <2>b, <2>c DEF Ends, Typed, RecTyped, HideKept, HideAsked, Stages,
       PtrLocked,
      Recorded, Doing
  <2>9. Based'
    BY <2>a, <2>b, <2>c DEF Ends, Typed, RecTyped, Based, Stages, PtrLocked,
       Recorded, Word
  <2>10. Seen'
    BY <2>a, <2>b, <2>c DEF Ends, Typed, RecTyped, Seen, Stages, PtrLocked,
       Recorded, Based
  <2>11. HiddenWhile'
    BY <2>a, <2>b, <2>c, OnFields DEF Ends, Typed, RecTyped, HiddenWhile, PtrHeld,
       HoldsKept,
      Stages, PtrLocked, Recorded, Based, Seen, Doing
  <2>12. HideStays'
    BY <2>a, <2>b, <2>c, OnFields DEF Ends, Typed, RecTyped, HideStays, HideAsked,
       HideKept,
      Stages, PtrLocked, Recorded, Based, Seen, Doing
  <2> QED  BY <2>1, <2>2, <2>3, <2>4, <2>5, <2>6, <2>7, <2>8, <2>9, <2>10, <2>11, <2>12
<1>5. ASSUME NEW c \in PtrCmds, PtrWrite(c) PROVE PtrInv'
  <2>1. Typed'  BY <1>5 DEF PtrWrite, Typed, RecTyped
  <2>2. RecTyped'  BY <1>5 DEF PtrWrite, Typed, RecTyped
  <2>3. Stages'  BY <1>5 DEF PtrWrite, Typed, RecTyped, Stages, PtrLocked
  <2>4. PtrLocked'  BY <1>5 DEF PtrWrite, Typed, RecTyped, PtrLocked, Stages
  <2>5. Recorded'  BY <1>5 DEF PtrWrite, Typed, RecTyped, Recorded, PtrLocked, Doing
  <2>6. Doing'
    BY <1>5 DEF PtrWrite, Typed, RecTyped, Doing, Stages, PtrLocked, Recorded
  <2>7. HoldsKept'
    BY <1>5 DEF PtrWrite, Typed, RecTyped, HoldsKept, PtrHeld, Stages, PtrLocked,
       Recorded, Doing
  <2>8. HideKept'
    BY <1>5 DEF PtrWrite, Typed, RecTyped, HideKept, HideAsked, Stages, PtrLocked,
       Recorded, Doing
  <2>9. Based'
    <3>1. Op(c) = "show" <=> c \in Shows  BY DEF Op
    <3>2. /\ pstep[c] = "write" /\ prec' = plan /\ flag' = TRUE
          /\ pstep' = [pstep EXCEPT ![c] = "set"]
          /\ base' = IF c \in Shows THEN FALSE ELSE base
          /\ UNCHANGED <<live, conf, lost, plan, seen>>
      BY <1>5, <3>1 DEF PtrWrite
    <3>3. plock = c /\ \A d \in PtrCmds \ {c} : pstep'[d] \notin Changing
      BY <3>2 DEF PtrLocked, Typed
    <3>4. \A d \in PtrCmds : pstep'[d] \notin {"live", "clear", "write", "unset"}
      BY <3>2, <3>3 DEF Typed
    <3>5. ASSUME ~lost PROVE Was(prec') = Word(base') /\ (base' => conf')
      <4>1. CASE On(prec)
        BY <3>2, <3>5, <4>1 DEF Based, Word
      <4>2. CASE ~On(prec)
        BY <3>2, <3>5, <4>2 DEF Based, Word
      <4> QED  BY <4>1, <4>2
    <3> QED  BY <3>2, <3>4, <3>5 DEF Based
  <2>10. Seen'
    BY <1>5 DEF PtrWrite, Typed, RecTyped, Seen, Stages, PtrLocked, Recorded, Based
  <2>11. HiddenWhile'
    BY <1>5, OnFields DEF PtrWrite, Typed, RecTyped, HiddenWhile, PtrHeld,
       HoldsKept, Stages,
      PtrLocked, Recorded, Based, Seen, Doing
  <2>12. HideStays'
    BY <1>5, OnFields DEF PtrWrite, Typed, RecTyped, HideStays, HideAsked,
       HideKept, Stages,
      PtrLocked, Recorded, Based, Seen, Doing
  <2> QED  BY <2>1, <2>2, <2>3, <2>4, <2>5, <2>6, <2>7, <2>8, <2>9, <2>10, <2>11, <2>12
<1>6. ASSUME NEW c \in PtrCmds, PtrSet(c) PROVE PtrInv'
  <2>a. /\ pstep[c] = "set"
        /\ UNCHANGED <<prec, plan, flag, recfile, seen, dead, orphans, conf, base, lost>>
    BY <1>6 DEF PtrSet
  <2>b. \/ Ends(c, TRUE) /\ (live' <=> (live \/ ~seen)) /\ pfaults' = pfaults
        \/ Ends(c, FALSE) /\ live' = live /\ pfaults' \in 0 .. MaxPtrFaults
    BY <1>6, <2>a, OverStep, SilentOnce DEF PtrSet
  <2>c. live' \in BOOLEAN
    <3>1. live' = (live \/ ~seen) \/ live' = live  BY <1>6 DEF PtrSet
    <3> QED  BY <3>1, Zenon DEF Typed
  <2>1. Typed'  BY <2>a, <2>b, <2>c DEF Ends, Typed, RecTyped
  <2>2. RecTyped'  BY <2>a, <2>b, <2>c DEF Ends, Typed, RecTyped
  <2>3. Stages'  BY <2>a, <2>b, <2>c DEF Ends, Typed, RecTyped, Stages, PtrLocked
  <2>4. PtrLocked'  BY <2>a, <2>b, <2>c DEF Ends, Typed, RecTyped, PtrLocked, Stages
  <2>5. Recorded'
    BY <2>a, <2>b, <2>c DEF Ends, Typed, RecTyped, Recorded, PtrLocked, Doing
  <2>6. Doing'
    BY <2>a, <2>b, <2>c DEF Ends, Typed, RecTyped, Doing, Stages, PtrLocked,
       Recorded
  <2>7. HoldsKept'
    BY <2>a, <2>b, <2>c DEF Ends, Typed, RecTyped, HoldsKept, PtrHeld, Stages,
       PtrLocked, Recorded,
      Doing
  <2>8. HideKept'
    BY <2>a, <2>b, <2>c DEF Ends, Typed, RecTyped, HideKept, HideAsked, Stages,
       PtrLocked,
      Recorded, Doing
  <2>9. Based'
    BY <2>a, <2>b, <2>c DEF Ends, Typed, RecTyped, Based, Stages, PtrLocked,
       Recorded, Word
  <2>10. Seen'
    BY <2>a, <2>b, <2>c DEF Ends, Typed, RecTyped, Seen, Stages, PtrLocked,
       Recorded, Based
  <2>11. HiddenWhile'
    BY <2>a, <2>b, <2>c, OnFields DEF Ends, Typed, RecTyped, HiddenWhile, PtrHeld,
       HoldsKept,
      Stages, PtrLocked, Recorded, Based, Seen, Doing
  <2>12. HideStays'
    BY <2>a, <2>b, <2>c, OnFields DEF Ends, Typed, RecTyped, HideStays, HideAsked,
       HideKept,
      Stages, PtrLocked, Recorded, Based, Seen, Doing
  <2> QED  BY <2>1, <2>2, <2>3, <2>4, <2>5, <2>6, <2>7, <2>8, <2>9, <2>10, <2>11, <2>12
<1>7. ASSUME NEW c \in PtrCmds, PtrClear(c) PROVE PtrInv'
  <2>a. /\ pstep[c] = "clear" /\ prec' = NoRec /\ flag' = FALSE
        /\ UNCHANGED <<plan, seen, live, recfile, dead, orphans, conf, pfaults, base, lost>>
    BY <1>7 DEF PtrClear
  <2>b. Op(c) = "show" <=> c \in Shows  BY DEF Op
  <2>c. \/ /\ On(prec) \/ c \in Shows
           /\ pstep' = [pstep EXCEPT ![c] = "unset"] /\ UNCHANGED <<stage, plock, asked>>
        \/ ~On(prec) /\ c \notin Shows /\ Ends(c, TRUE)
    BY <1>7, <2>a, <2>b, OverStep DEF PtrClear
  <2>d. prec' \in Records /\ ~On(prec') /\ plan \in Records
    BY <2>a, NoRecFields DEF RecTyped
  <2>e. flag' \in BOOLEAN  BY <2>a, Zenon
  <2>1. Typed'  BY <2>a, <2>c, <2>d, <2>e, OnFields DEF Ends, Typed, RecTyped
  <2>2. RecTyped'  BY <2>a, <2>c, <2>d, <2>e, OnFields DEF Ends, Typed, RecTyped
  <2>3. Stages'
    BY <2>a, <2>c, <2>d, <2>e, OnFields DEF Ends, Typed, RecTyped, Stages, PtrLocked
  <2>4. PtrLocked'
    BY <2>a, <2>c, <2>d, <2>e, OnFields DEF Ends, Typed, RecTyped, PtrLocked, Stages
  <2>5. Recorded'
    BY <2>a, <2>c, <2>d, <2>e, OnFields DEF Ends, Typed, RecTyped, Recorded,
       PtrLocked, Doing
  <2>6. Doing'
    BY <2>a, <2>c, <2>d, <2>e, OnFields DEF Ends, Typed, RecTyped, Doing, Stages,
       PtrLocked,
      Recorded
  <2>7. HoldsKept'
    BY <2>a, <2>c, <2>d, <2>e, OnFields DEF Ends, Typed, RecTyped, HoldsKept,
       PtrHeld, Stages,
      PtrLocked, Recorded, Doing
  <2>8. HideKept'
    BY <2>a, <2>c, <2>d, <2>e, OnFields DEF Ends, Typed, RecTyped, HideKept,
       HideAsked, Stages,
      PtrLocked, Recorded, Doing
  <2>9. Based'
    BY <2>a, <2>c, <2>d, <2>e, OnFields DEF Ends, Typed, RecTyped, Based, Stages,
       PtrLocked,
      Recorded, Word
  <2>10. Seen'
    BY <2>a, <2>c, <2>d, <2>e, OnFields DEF Ends, Typed, RecTyped, Seen, Stages,
       PtrLocked,
      Recorded, Based
  <2>11. HiddenWhile'
    BY <2>a, <2>c, <2>d, <2>e, OnFields, OnFields DEF Ends, Typed, RecTyped,
       HiddenWhile, PtrHeld,
      HoldsKept, Stages, PtrLocked, Recorded, Based, Seen, Doing
  <2>12. HideStays'
    BY <2>a, <2>c, <2>d, <2>e, OnFields, OnFields DEF Ends, Typed, RecTyped,
       HideStays,
      HideAsked, HideKept, Stages, PtrLocked, Recorded, Based, Seen, Doing
  <2> QED  BY <2>1, <2>2, <2>3, <2>4, <2>5, <2>6, <2>7, <2>8, <2>9, <2>10, <2>11, <2>12
<1>8. ASSUME NEW c \in PtrCmds, PtrUnset(c) PROVE PtrInv'
  <2>a. /\ pstep[c] = "unset"
        /\ UNCHANGED <<prec, plan, flag, recfile, seen, dead, orphans, conf>>
        /\ base' = IF c \in Shows THEN FALSE ELSE base
    BY <1>8 DEF PtrUnset, Op
  <2>b. \/ Ends(c, TRUE) /\ live' = (Was(plan) = "true") /\ lost' = lost /\ pfaults' \in 0 .. MaxPtrFaults
        \/ Ends(c, FALSE) /\ live' = live /\ lost' = TRUE /\ pfaults' \in 0 .. MaxPtrFaults
    <3>1. CASE PtrOver(c, TRUE) /\ live' = (plan.was = "true") /\ UNCHANGED <<pfaults, lost>>
      <4>1. live' = (Was(plan) = "true")  BY <3>1, Zenon DEF Was
      <4>2. pfaults' \in 0 .. MaxPtrFaults /\ lost' = lost  BY <3>1 DEF Typed
      <4> QED  BY <2>a, <3>1, <4>1, <4>2, OverStep
    <3>2. CASE Silent /\ PtrOver(c, FALSE) /\ lost' = TRUE /\ UNCHANGED live
      BY <2>a, <3>2, OverStep, SilentOnce
    <3> QED  BY <1>8, <3>1, <3>2, Zenon DEF PtrUnset
  <2>c. live' \in BOOLEAN /\ base' \in BOOLEAN /\ lost' \in BOOLEAN
    <3>1. live' \in BOOLEAN  BY <2>b, Zenon DEF Typed
    <3>2. base' \in BOOLEAN  BY <2>a, Zenon DEF Typed
    <3>3. lost' \in BOOLEAN  BY <2>b, Zenon DEF Typed
    <3> QED  BY <3>1, <3>2, <3>3
  <2>1. Typed'
    <3>1. (Ends(c, TRUE) \/ Ends(c, FALSE)) /\ pfaults' \in 0 .. MaxPtrFaults
      BY <2>b, Zenon
    <3>2. /\ recfile' = recfile /\ flag' = flag /\ seen' = seen /\ conf' = conf
          /\ dead' = dead /\ orphans' = orphans
      BY <2>a
    <3> QED  BY <2>c, <3>1, <3>2 DEF Ends, Typed
  <2>2. RecTyped'  BY <2>a, <2>b, <2>c DEF Ends, Typed, RecTyped
  <2>3. Stages'  BY <2>a, <2>b, <2>c DEF Ends, Typed, RecTyped, Stages, PtrLocked
  <2>4. PtrLocked'  BY <2>a, <2>b, <2>c DEF Ends, Typed, RecTyped, PtrLocked, Stages
  <2>5. Recorded'
    BY <2>a, <2>b, <2>c DEF Ends, Typed, RecTyped, Recorded, PtrLocked, Doing
  <2>6. Doing'
    BY <2>a, <2>b, <2>c DEF Ends, Typed, RecTyped, Doing, Stages, PtrLocked,
       Recorded
  <2>7. HoldsKept'
    BY <2>a, <2>b, <2>c DEF Ends, Typed, RecTyped, HoldsKept, PtrHeld, Stages,
       PtrLocked, Recorded,
      Doing
  <2>8. HideKept'
    BY <2>a, <2>b, <2>c DEF Ends, Typed, RecTyped, HideKept, HideAsked, Stages,
       PtrLocked,
      Recorded, Doing
  <2>9. Based'
    BY <2>a, <2>b, <2>c DEF Ends, Typed, RecTyped, Based, Stages, PtrLocked,
       Recorded, Word
  <2>10. Seen'
    BY <2>a, <2>b, <2>c DEF Ends, Typed, RecTyped, Seen, Stages, PtrLocked,
       Recorded, Based
  <2>11. HiddenWhile'
    BY <2>a, <2>b, <2>c, OnFields DEF Ends, Typed, RecTyped, HiddenWhile, PtrHeld,
       HoldsKept,
      Stages, PtrLocked, Recorded, Based, Seen, Doing
  <2>12. HideStays'
    BY <2>a, <2>b, <2>c, OnFields DEF Ends, Typed, RecTyped, HideStays, HideAsked,
       HideKept,
      Stages, PtrLocked, Recorded, Based, Seen, Doing
  <2> QED  BY <2>1, <2>2, <2>3, <2>4, <2>5, <2>6, <2>7, <2>8, <2>9, <2>10, <2>11, <2>12
<1>9. ASSUME NEW c \in Shots, ShotEnds(c) PROVE PtrInv'
  <2>1. Typed'  BY <1>9 DEF ShotEnds, Typed, RecTyped
  <2>2. RecTyped'  BY <1>9 DEF ShotEnds, Typed, RecTyped
  <2>3. Stages'  BY <1>9 DEF ShotEnds, Typed, RecTyped, Stages, PtrLocked
  <2>4. PtrLocked'  BY <1>9 DEF ShotEnds, Typed, RecTyped, PtrLocked, Stages
  <2>5. Recorded'  BY <1>9 DEF ShotEnds, Typed, RecTyped, Recorded, PtrLocked, Doing
  <2>6. Doing'
    BY <1>9 DEF ShotEnds, Typed, RecTyped, Doing, Stages, PtrLocked, Recorded
  <2>7. HoldsKept'
    BY <1>9 DEF ShotEnds, Typed, RecTyped, HoldsKept, PtrHeld, Stages, PtrLocked,
       Recorded, Doing
  <2>8. HideKept'
    BY <1>9 DEF ShotEnds, Typed, RecTyped, HideKept, HideAsked, Stages, PtrLocked,
       Recorded, Doing
  <2>9. Based'
    BY <1>9 DEF ShotEnds, Typed, RecTyped, Based, Stages, PtrLocked, Recorded, Word
  <2>10. Seen'
    BY <1>9 DEF ShotEnds, Typed, RecTyped, Seen, Stages, PtrLocked, Recorded, Based
  <2>11. HiddenWhile'
    BY <1>9, OnFields DEF ShotEnds, Typed, RecTyped, HiddenWhile, PtrHeld,
       HoldsKept, Stages,
      PtrLocked, Recorded, Based, Seen, Doing
  <2>12. HideStays'
    BY <1>9, OnFields DEF ShotEnds, Typed, RecTyped, HideStays, HideAsked,
       HideKept, Stages,
      PtrLocked, Recorded, Based, Seen, Doing
  <2> QED  BY <2>1, <2>2, <2>3, <2>4, <2>5, <2>6, <2>7, <2>8, <2>9, <2>10, <2>11, <2>12
<1>10. ASSUME NEW c \in Recs, RecordRuns(c) PROVE PtrInv'
  <2>1. Typed'  BY <1>10 DEF RecordRuns, Typed, RecTyped
  <2>2. RecTyped'  BY <1>10 DEF RecordRuns, Typed, RecTyped
  <2>3. Stages'  BY <1>10 DEF RecordRuns, Typed, RecTyped, Stages, PtrLocked
  <2>4. PtrLocked'  BY <1>10 DEF RecordRuns, Typed, RecTyped, PtrLocked, Stages
  <2>5. Recorded'  BY <1>10 DEF RecordRuns, Typed, RecTyped, Recorded, PtrLocked, Doing
  <2>6. Doing'
    BY <1>10 DEF RecordRuns, Typed, RecTyped, Doing, Stages, PtrLocked, Recorded
  <2>7. HoldsKept'
    BY <1>10 DEF RecordRuns, Typed, RecTyped, HoldsKept, PtrHeld, Stages,
       PtrLocked, Recorded, Doing
  <2>8. HideKept'
    BY <1>10 DEF RecordRuns, Typed, RecTyped, HideKept, HideAsked, Stages,
       PtrLocked, Recorded,
      Doing
  <2>9. Based'
    BY <1>10 DEF RecordRuns, Typed, RecTyped, Based, Stages, PtrLocked, Recorded,
       Word
  <2>10. Seen'
    BY <1>10 DEF RecordRuns, Typed, RecTyped, Seen, Stages, PtrLocked, Recorded,
       Based
  <2>11. HiddenWhile'
    BY <1>10, OnFields DEF RecordRuns, Typed, RecTyped, HiddenWhile, PtrHeld,
       HoldsKept, Stages,
      PtrLocked, Recorded, Based, Seen, Doing
  <2>12. HideStays'
    BY <1>10, OnFields DEF RecordRuns, Typed, RecTyped, HideStays, HideAsked,
       HideKept, Stages,
      PtrLocked, Recorded, Based, Seen, Doing
  <2> QED  BY <2>1, <2>2, <2>3, <2>4, <2>5, <2>6, <2>7, <2>8, <2>9, <2>10, <2>11, <2>12
<1>11. ASSUME NEW c \in Recs, RecordFails(c) PROVE PtrInv'
  <2>1. Typed'  BY <1>11 DEF RecordFails, Typed, RecTyped
  <2>2. RecTyped'  BY <1>11 DEF RecordFails, Typed, RecTyped
  <2>3. Stages'  BY <1>11 DEF RecordFails, Typed, RecTyped, Stages, PtrLocked
  <2>4. PtrLocked'  BY <1>11 DEF RecordFails, Typed, RecTyped, PtrLocked, Stages
  <2>5. Recorded'  BY <1>11 DEF RecordFails, Typed, RecTyped, Recorded, PtrLocked, Doing
  <2>6. Doing'
    BY <1>11 DEF RecordFails, Typed, RecTyped, Doing, Stages, PtrLocked, Recorded
  <2>7. HoldsKept'
    BY <1>11 DEF RecordFails, Typed, RecTyped, HoldsKept, PtrHeld, Stages,
       PtrLocked, Recorded, Doing
  <2>8. HideKept'
    BY <1>11 DEF RecordFails, Typed, RecTyped, HideKept, HideAsked, Stages,
       PtrLocked, Recorded,
      Doing
  <2>9. Based'
    BY <1>11 DEF RecordFails, Typed, RecTyped, Based, Stages, PtrLocked, Recorded,
       Word
  <2>10. Seen'
    BY <1>11 DEF RecordFails, Typed, RecTyped, Seen, Stages, PtrLocked, Recorded,
       Based
  <2>11. HiddenWhile'
    BY <1>11, OnFields DEF RecordFails, Typed, RecTyped, HiddenWhile, PtrHeld,
       HoldsKept, Stages,
      PtrLocked, Recorded, Based, Seen, Doing
  <2>12. HideStays'
    BY <1>11, OnFields DEF RecordFails, Typed, RecTyped, HideStays, HideAsked,
       HideKept, Stages,
      PtrLocked, Recorded, Based, Seen, Doing
  <2> QED  BY <2>1, <2>2, <2>3, <2>4, <2>5, <2>6, <2>7, <2>8, <2>9, <2>10, <2>11, <2>12
<1>12. ASSUME NEW c \in Recs, RecordStops(c) PROVE PtrInv'
  <2>1. Typed'  BY <1>12 DEF RecordStops, Typed, RecTyped
  <2>2. RecTyped'  BY <1>12 DEF RecordStops, Typed, RecTyped
  <2>3. Stages'  BY <1>12 DEF RecordStops, Typed, RecTyped, Stages, PtrLocked
  <2>4. PtrLocked'  BY <1>12 DEF RecordStops, Typed, RecTyped, PtrLocked, Stages
  <2>5. Recorded'  BY <1>12 DEF RecordStops, Typed, RecTyped, Recorded, PtrLocked, Doing
  <2>6. Doing'
    BY <1>12 DEF RecordStops, Typed, RecTyped, Doing, Stages, PtrLocked, Recorded
  <2>7. HoldsKept'
    BY <1>12 DEF RecordStops, Typed, RecTyped, HoldsKept, PtrHeld, Stages,
       PtrLocked, Recorded, Doing
  <2>8. HideKept'
    BY <1>12 DEF RecordStops, Typed, RecTyped, HideKept, HideAsked, Stages,
       PtrLocked, Recorded,
      Doing
  <2>9. Based'
    BY <1>12 DEF RecordStops, Typed, RecTyped, Based, Stages, PtrLocked, Recorded,
       Word
  <2>10. Seen'
    BY <1>12 DEF RecordStops, Typed, RecTyped, Seen, Stages, PtrLocked, Recorded,
       Based
  <2>11. HiddenWhile'
    BY <1>12, OnFields DEF RecordStops, Typed, RecTyped, HiddenWhile, PtrHeld,
       HoldsKept, Stages,
      PtrLocked, Recorded, Based, Seen, Doing
  <2>12. HideStays'
    BY <1>12, OnFields DEF RecordStops, Typed, RecTyped, HideStays, HideAsked,
       HideKept, Stages,
      PtrLocked, Recorded, Based, Seen, Doing
  <2> QED  BY <2>1, <2>2, <2>3, <2>4, <2>5, <2>6, <2>7, <2>8, <2>9, <2>10, <2>11, <2>12
<1>13. ASSUME NEW c \in Recs, RecordReleases(c) PROVE PtrInv'
  <2>1. Typed'  BY <1>13 DEF RecordReleases, Typed, RecTyped
  <2>2. RecTyped'  BY <1>13 DEF RecordReleases, Typed, RecTyped
  <2>3. Stages'  BY <1>13 DEF RecordReleases, Typed, RecTyped, Stages, PtrLocked
  <2>4. PtrLocked'  BY <1>13 DEF RecordReleases, Typed, RecTyped, PtrLocked, Stages
  <2>5. Recorded'
    BY <1>13 DEF RecordReleases, Typed, RecTyped, Recorded, PtrLocked, Doing
  <2>6. Doing'
    BY <1>13 DEF RecordReleases, Typed, RecTyped, Doing, Stages, PtrLocked, Recorded
  <2>7. HoldsKept'
    BY <1>13 DEF RecordReleases, Typed, RecTyped, HoldsKept, PtrHeld, Stages,
       PtrLocked, Recorded,
      Doing
  <2>8. HideKept'
    BY <1>13 DEF RecordReleases, Typed, RecTyped, HideKept, HideAsked, Stages,
       PtrLocked, Recorded,
      Doing
  <2>9. Based'
    BY <1>13 DEF RecordReleases, Typed, RecTyped, Based, Stages, PtrLocked,
       Recorded, Word
  <2>10. Seen'
    BY <1>13 DEF RecordReleases, Typed, RecTyped, Seen, Stages, PtrLocked,
       Recorded, Based
  <2>11. HiddenWhile'
    BY <1>13, OnFields DEF RecordReleases, Typed, RecTyped, HiddenWhile, PtrHeld,
       HoldsKept,
      Stages, PtrLocked, Recorded, Based, Seen, Doing
  <2>12. HideStays'
    BY <1>13, OnFields DEF RecordReleases, Typed, RecTyped, HideStays, HideAsked,
       HideKept,
      Stages, PtrLocked, Recorded, Based, Seen, Doing
  <2> QED  BY <2>1, <2>2, <2>3, <2>4, <2>5, <2>6, <2>7, <2>8, <2>9, <2>10, <2>11, <2>12
<1>14. ASSUME NEW c \in PtrCmds, PtrKilled(c) PROVE PtrInv'
  <2>1. Typed'   BY <1>14, SilentOnce DEF PtrKilled, Typed
  <2>2. RecTyped'  BY <1>14 DEF PtrKilled, Typed, RecTyped
  <2>3. Stages'  BY <1>14 DEF PtrKilled, Typed, RecTyped, Stages, PtrLocked
  <2>4. PtrLocked'  BY <1>14 DEF PtrKilled, Typed, RecTyped, PtrLocked, Stages
  <2>5. Recorded'  BY <1>14 DEF PtrKilled, Typed, RecTyped, Recorded, PtrLocked, Doing
  <2>6. Doing'
    BY <1>14 DEF PtrKilled, Typed, RecTyped, Doing, Stages, PtrLocked, Recorded
  <2>7. HoldsKept'
    BY <1>14 DEF PtrKilled, Typed, RecTyped, HoldsKept, PtrHeld, Stages, PtrLocked,
       Recorded, Doing
  <2>8. HideKept'
    BY <1>14 DEF PtrKilled, Typed, RecTyped, HideKept, HideAsked, Stages,
       PtrLocked, Recorded,
      Doing
  <2>9. Based'
    BY <1>14 DEF PtrKilled, Typed, RecTyped, Based, Stages, PtrLocked, Recorded,
       Word
  <2>10. Seen'
    BY <1>14 DEF PtrKilled, Typed, RecTyped, Seen, Stages, PtrLocked, Recorded,
       Based
  <2>11. HiddenWhile'
    BY <1>14, OnFields DEF PtrKilled, Typed, RecTyped, HiddenWhile, PtrHeld,
       HoldsKept, Stages,
      PtrLocked, Recorded, Based, Seen, Doing
  <2>12. HideStays'
    BY <1>14, OnFields DEF PtrKilled, Typed, RecTyped, HideStays, HideAsked,
       HideKept, Stages,
      PtrLocked, Recorded, Based, Seen, Doing
  <2> QED  BY <2>1, <2>2, <2>3, <2>4, <2>5, <2>6, <2>7, <2>8, <2>9, <2>10, <2>11, <2>12
<1>15. ASSUME NEW v \in BOOLEAN, OrphanSets(v) PROVE PtrInv'
  <2>1. Typed'  BY <1>15 DEF OrphanSets, Typed, RecTyped
  <2>2. RecTyped'  BY <1>15 DEF OrphanSets, Typed, RecTyped
  <2>3. Stages'  BY <1>15 DEF OrphanSets, Typed, RecTyped, Stages, PtrLocked
  <2>4. PtrLocked'  BY <1>15 DEF OrphanSets, Typed, RecTyped, PtrLocked, Stages
  <2>5. Recorded'  BY <1>15 DEF OrphanSets, Typed, RecTyped, Recorded, PtrLocked, Doing
  <2>6. Doing'
    BY <1>15 DEF OrphanSets, Typed, RecTyped, Doing, Stages, PtrLocked, Recorded
  <2>7. HoldsKept'
    BY <1>15 DEF OrphanSets, Typed, RecTyped, HoldsKept, PtrHeld, Stages,
       PtrLocked, Recorded, Doing
  <2>8. HideKept'
    BY <1>15 DEF OrphanSets, Typed, RecTyped, HideKept, HideAsked, Stages,
       PtrLocked, Recorded,
      Doing
  <2>9. Based'
    <3>1. lost' = TRUE  BY <1>15 DEF OrphanSets, Seen, Typed
    <3> QED  BY <3>1 DEF Based
  <2>10. Seen'
    BY <1>15 DEF OrphanSets, Typed, RecTyped, Seen, Stages, PtrLocked, Recorded,
       Based
  <2>11. HiddenWhile'
    BY <1>15, OnFields DEF OrphanSets, Typed, RecTyped, HiddenWhile, PtrHeld,
       HoldsKept, Stages,
      PtrLocked, Recorded, Based, Seen, Doing
  <2>12. HideStays'
    BY <1>15, OnFields DEF OrphanSets, Typed, RecTyped, HideStays, HideAsked,
       HideKept, Stages,
      PtrLocked, Recorded, Based, Seen, Doing
  <2> QED  BY <2>1, <2>2, <2>3, <2>4, <2>5, <2>6, <2>7, <2>8, <2>9, <2>10, <2>11, <2>12
<1>16. ASSUME Reload PROVE PtrInv'
  <2>1. Typed'  BY <1>16 DEF Reload, Typed, RecTyped
  <2>2. RecTyped'  BY <1>16 DEF Reload, Typed, RecTyped
  <2>3. Stages'  BY <1>16 DEF Reload, Typed, RecTyped, Stages, PtrLocked
  <2>4. PtrLocked'  BY <1>16 DEF Reload, Typed, RecTyped, PtrLocked, Stages
  <2>5. Recorded'  BY <1>16 DEF Reload, Typed, RecTyped, Recorded, PtrLocked, Doing
  <2>6. Doing'  BY <1>16 DEF Reload, Typed, RecTyped, Doing, Stages, PtrLocked, Recorded
  <2>7. HoldsKept'
    BY <1>16 DEF Reload, Typed, RecTyped, HoldsKept, PtrHeld, Stages, PtrLocked,
       Recorded, Doing
  <2>8. HideKept'
    BY <1>16 DEF Reload, Typed, RecTyped, HideKept, HideAsked, Stages, PtrLocked,
       Recorded, Doing
  <2>9. Based'
    BY <1>16 DEF Reload, Typed, RecTyped, Based, Stages, PtrLocked, Recorded, Word
  <2>10. Seen'
    BY <1>16 DEF Reload, Typed, RecTyped, Seen, Stages, PtrLocked, Recorded, Based
  <2>11. HiddenWhile'
    BY <1>16, OnFields DEF Reload, Typed, RecTyped, HiddenWhile, PtrHeld,
       HoldsKept, Stages,
      PtrLocked, Recorded, Based, Seen, Doing
  <2>12. HideStays'
    BY <1>16, OnFields DEF Reload, Typed, RecTyped, HideStays, HideAsked, HideKept,
       Stages,
      PtrLocked, Recorded, Based, Seen, Doing
  <2> QED  BY <2>1, <2>2, <2>3, <2>4, <2>5, <2>6, <2>7, <2>8, <2>9, <2>10, <2>11, <2>12
<1>17. CASE UNCHANGED ptrVars
  <2>1. /\ UNCHANGED <<stage, pstep, plock, recfile, flag, seen, live, conf, base, lost, dead,
                       orphans, pfaults, asked>>
        /\ UNCHANGED <<prec, plan>>
    BY <1>17 DEF ptrVars
  <2> QED
    BY <2>1 DEF Typed, RecTyped, Stages, PtrLocked, Recorded, Doing, PtrHeld,
       HoldsKept, HideAsked,
      HideKept, Based, Seen, HiddenWhile, HideStays
<1> QED
  BY <1>1, <1>2, <1>3, <1>4, <1>5, <1>6, <1>7, <1>8, <1>9, <1>10, <1>11, <1>12,
     <1>13, <1>14,
    <1>15, <1>16, <1>17 DEF PtrNext, PtrChange

LEMMA PtrInductive == PtrSpec => []PtrInv
<1> QED  BY InitPtrInv, NextPtrInv, PTL DEF PtrSpec

-----------------------------------------------------------------------------
\* Every variable keeps its type.
THEOREM PtrTyped == PtrSpec => []PtrTypeOK
<1>1. PtrInv => PtrTypeOK  BY TypeParts DEF PtrInv
<1> QED  BY <1>1, PtrInductive, PTL

\* No frame of a shot or recording that holds the pointer hidden has it.
THEOREM HeldIsHidden == PtrSpec => []HiddenWhile
<1>1. PtrInv => HiddenWhile  BY DEF PtrInv
<1> QED  BY <1>1, PtrInductive, PTL

\* After pointer hide no end of a shot or recording brings the pointer back.
THEOREM HiddenUntilShow == PtrSpec => []HideStays
<1>1. PtrInv => HideStays  BY DEF PtrInv
<1> QED  BY <1>1, PtrInductive, PTL

\* Once nothing hides the pointer it is as it was before it was hidden.
THEOREM BackAsItWas == PtrSpec => []PointerBack
<1>1. ASSUME PtrInv, prec = NoRec, plock = NoCmd, ~lost
      PROVE  live = base
  <2>1. ~flag  BY <1>1, NoRecFields DEF PtrInv, Recorded
  <2>2. \A c \in PtrCmds : pstep[c] \notin {"write", "unset"}
    BY <1>1 DEF PtrInv, PtrLocked, Changing
  <2> QED  BY <1>1, <2>1, <2>2 DEF PtrInv, Typed, Based
<1>2. PtrInv => PointerBack  BY <1>1 DEF PointerBack
<1> QED  BY <1>2, PtrInductive, PTL
=============================================================================
