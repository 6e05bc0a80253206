------------------------------ MODULE Pointer -------------------------------
(***************************************************************************)
(* The pointer hidden (ptr.rs): shots and recordings with --no-pointer     *)
(* hold it hidden, omabox pointer hide and show set it, all in one record  *)
(* of the box dir; Hyprland's cursor:invisible follows.  Commands run at   *)
(* the same time, are killed, and Hyprland may not answer in time.         *)
(***************************************************************************)
EXTENDS Naturals

CONSTANTS
    Shots,      \* shots with --no-pointer
    Recs,       \* recordings with --no-pointer: a start, later a stop
    Hides,      \* omabox pointer hide
    Shows,      \* omabox pointer show
    NoCmd,      \* nobody, as the lock's owner; no recording
    PtrRounds,  \* bound: the sets of commands run together, a behaviour one of them
    MaxPtrFaults    \* bound: SIGKILLs, and calls Hyprland does not answer

Holders == Shots \cup Recs
PtrCmds == Holders \cup Hides \cup Shows

ASSUME PointerAssumption ==
    /\ NoCmd \notin PtrCmds
    /\ Shots \cap Recs = {} /\ Hides \cap Shows = {} /\ Holders \cap (Hides \cup Shows) = {}
    /\ PtrRounds \subseteq SUBSET PtrCmds /\ MaxPtrFaults \in Nat

VARIABLES
    stage,      \* each command: idle, holding, on, stopping (a recording), releasing, asking, over
    pstep,      \* where its ptr_change is: none, want, live, write, set, clear, unset
    plock,      \* who has .pointer.lock
    prec,       \* $D/pointer: hidden, the holds, was (none: not read yet); empty: no file
    plan,       \* what the lock's owner made of it
    seen,       \* cursor:invisible as it read it before it hid the pointer
    flag,       \* whether the runtime dir's omabox.pointer is there
    live,       \* cursor:invisible in the box
    recfile,    \* the recording $D/record is of
    dead,       \* commands SIGKILLed
    orphans,    \* what the watches in the box, of killed commands, will yet set
    conf,       \* cursor:invisible as the box's config has it
    pfaults,    \* how many faults came
    base,       \* history: what cursor:invisible is, but for omabox's hiding, from the read before it on
    asked,      \* history: what the last pointer hide or show to succeed was
    lost        \* history: whether a showing again was killed or not answered, or a killed
                \* command's call came late

ptrVars == <<stage, pstep, plock, prec, plan, seen, flag, live, recfile, dead, orphans, conf,
             pfaults, base, asked, lost>>

disk == <<prec, flag, recfile>>
hist == <<base, asked, lost>>

NoRec == [hidden |-> FALSE, holds |-> {}, was |-> "none"]
On(r) == r.hidden \/ r.holds # {}
Word(b) == IF b THEN "true" ELSE "false"

PtrInit ==
    /\ stage = [c \in PtrCmds |-> "idle"]
    /\ pstep = [c \in PtrCmds |-> "none"]
    /\ plock = NoCmd /\ recfile = NoCmd
    /\ prec = NoRec /\ plan = NoRec /\ seen = FALSE
    /\ conf \in BOOLEAN /\ base = conf /\ live = conf /\ flag = FALSE
    /\ dead = {} /\ orphans = {} /\ pfaults = 0
    /\ asked = "none" /\ lost = FALSE

-----------------------------------------------------------------------------
\* A process of the hold's pid: a shot's until it ends, a recording's until its start has ended.
Running(c) == stage[c] \notin {"idle", "over", "stopping"} /\ c \notin dead
              /\ ~(c \in Recs /\ recfile = c)

\* (mutant of KeptHold: a recording's hold goes with its start's pid)
KeptHoldPid(c) == Running(c)
\* A hold that is not dropped: its omabox runs, or it is a recording's and $D/record is there.
KeptHold(c) == Running(c) \/ (c \in Recs /\ recfile # NoCmd)

Op(c) == IF c \in Hides THEN "hide" ELSE IF c \in Shows THEN "show"
         ELSE IF stage[c] = "holding" THEN "hold" ELSE "release"

\* (mutant of Asked: giving a hold back shows the pointer)
AskedShown(c, r) ==
    CASE Op(c) = "hide" -> [r EXCEPT !.hidden = TRUE]
      [] Op(c) = "show" -> [r EXCEPT !.hidden = FALSE, !.was = "false"]
      [] Op(c) = "hold" -> [r EXCEPT !.holds = @ \cup {c}]
      [] OTHER -> [r EXCEPT !.hidden = FALSE,
                            !.holds = @ \ (IF stage[c] = "stopping" THEN Recs ELSE {c})]
\* What a command's operation makes of the record: record stop gives any recording's hold back.
Asked(c, r) ==
    CASE Op(c) = "hide" -> [r EXCEPT !.hidden = TRUE]
      [] Op(c) = "show" -> [r EXCEPT !.hidden = FALSE, !.was = "false"]
      [] Op(c) = "hold" -> [r EXCEPT !.holds = @ \cup {c}]
      [] OTHER -> [r EXCEPT !.holds = @ \ (IF stage[c] = "stopping" THEN Recs ELSE {c})]

\* A command begins its ptr_change; a recording only while none is there.
PtrStart(c) ==
    /\ stage[c] = "idle"
    /\ \E r \in PtrRounds : {c} \cup {d \in PtrCmds : stage[d] # "idle"} \subseteq r
    /\ c \in Recs => recfile = NoCmd
    /\ stage' = [stage EXCEPT ![c] = IF c \in Holders THEN "holding" ELSE "asking"]
    /\ pstep' = [pstep EXCEPT ![c] = "want"]
    /\ UNCHANGED <<plock, disk, plan, seen, live, dead, orphans, conf, pfaults, hist>>

\* The lock, then the record read: dead holds dropped, the operation done to what is left.
PtrRead(c) ==
    /\ pstep[c] = "want" /\ plock = NoCmd
    /\ plock' = c
    /\ plan' = Asked(c, [prec EXCEPT !.holds = {h \in @ : KeptHold(h)}])
    /\ pstep' = [pstep EXCEPT ![c] = IF On(plan') THEN "live" ELSE "clear"]
    /\ UNCHANGED <<stage, disk, seen, live, dead, orphans, conf, pfaults, hist>>

\* ptr_change over: what a command goes on to, having succeeded or not.  A hold that was not had
\* ends the command, whose end gives back what of it may be recorded.
AfterChange(c, ok) ==
    CASE stage[c] = "holding" -> IF ok THEN "on" ELSE IF prec # NoRec THEN "releasing" ELSE "over"
      [] OTHER -> "over"

PtrOver(c, ok) ==
    /\ plock' = IF plock = c THEN NoCmd ELSE plock
    /\ stage' = [stage EXCEPT ![c] = AfterChange(c, ok)]
    /\ pstep' = [pstep EXCEPT ![c] = IF AfterChange(c, ok) = "releasing" THEN "want" ELSE "none"]
    /\ asked' = IF ok /\ stage[c] = "asking" THEN Op(c) ELSE asked

\* Hyprland does not answer within the limit.
Silent == pfaults < MaxPtrFaults /\ pfaults' = pfaults + 1

\* The lock is busy for 10 s: nothing is changed.
PtrBusy(c) ==
    /\ pstep[c] = "want" /\ plock # NoCmd
    /\ PtrOver(c, FALSE)
    /\ UNCHANGED <<disk, plan, seen, live, dead, orphans, conf, pfaults, base, lost>>

\* Hidden from now on: cursor:invisible is read, for was when nothing hid it yet ...
PtrLive(c) ==
    /\ pstep[c] = "live"
    /\ \/ /\ pstep' = [pstep EXCEPT ![c] = "write"]
          /\ seen' = live
          /\ plan' = IF On(prec) /\ plan.was # "none" THEN plan ELSE [plan EXCEPT !.was = Word(live)]
          /\ UNCHANGED <<stage, plock, asked, pfaults>>
       \/ Silent /\ PtrOver(c, FALSE) /\ UNCHANGED <<plan, seen>>
    /\ UNCHANGED <<disk, live, dead, orphans, conf, base, lost>>

\* ... then the record is written, for a reload meanwhile ...
PtrWrite(c) ==
    /\ pstep[c] = "write"
    /\ prec' = plan /\ flag' = TRUE
    /\ pstep' = [pstep EXCEPT ![c] = "set"]
    /\ base' = IF Op(c) = "show" THEN FALSE ELSE base
    /\ UNCHANGED <<stage, plock, plan, seen, live, recfile, dead, orphans, conf, pfaults, asked, lost>>

\* ... and it is hidden, unless it was.
PtrSet(c) ==
    /\ pstep[c] = "set"
    /\ \/ PtrOver(c, TRUE) /\ live' = (live \/ ~seen) /\ UNCHANGED pfaults
       \/ ~seen /\ Silent /\ PtrOver(c, FALSE) /\ UNCHANGED live
    /\ UNCHANGED <<disk, plan, seen, dead, orphans, conf, base, lost>>

\* Nothing hides it any more: the record goes, then it is shown, if it was hidden or asked to be.
PtrClear(c) ==
    /\ pstep[c] = "clear"
    /\ prec' = NoRec /\ flag' = FALSE
    /\ IF On(prec) \/ Op(c) = "show"
       THEN pstep' = [pstep EXCEPT ![c] = "unset"] /\ UNCHANGED <<stage, plock, asked>>
       ELSE PtrOver(c, TRUE)
    /\ UNCHANGED <<plan, seen, live, recfile, dead, orphans, conf, pfaults, base, lost>>

PtrUnset(c) ==
    /\ pstep[c] = "unset"
    /\ \/ PtrOver(c, TRUE) /\ live' = (plan.was = "true") /\ UNCHANGED <<pfaults, lost>>
       \/ Silent /\ PtrOver(c, FALSE) /\ lost' = TRUE /\ UNCHANGED live
    /\ base' = IF Op(c) = "show" THEN FALSE ELSE base
    /\ UNCHANGED <<disk, plan, seen, dead, orphans, conf>>

-----------------------------------------------------------------------------
\* (mutant of ShotEnds: a signal's release does not wait for the gate)
ShotEndsAtOnce(c) ==
    /\ stage[c] \in {"holding", "on"} /\ pstep[c] \in {"none", "set"} /\ c \in Shots \ dead
    /\ orphans' = IF pstep[c] = "set" /\ ~seen THEN orphans \cup {TRUE} ELSE orphans
    /\ plock' = IF plock = c THEN NoCmd ELSE plock
    /\ stage' = [stage EXCEPT ![c] = "releasing"]
    /\ pstep' = [pstep EXCEPT ![c] = "want"]
    /\ UNCHANGED <<disk, plan, seen, live, dead, conf, pfaults, hist>>
\* The shot is taken, or a signal comes, whose thread has waited for the gate: the hold is given
\* back by this process, or by _ptr-release in its pid.
ShotEnds(c) ==
    /\ stage[c] = "on" /\ c \in Shots \ dead
    /\ stage' = [stage EXCEPT ![c] = "releasing"]
    /\ pstep' = [pstep EXCEPT ![c] = "want"]
    /\ UNCHANGED <<plock, disk, plan, seen, live, dead, orphans, conf, pfaults, hist>>

\* wf-recorder runs and $D/record says so; the start ends, its hold kept (hold_keep).
RecordRuns(c) ==
    /\ stage[c] = "on" /\ c \in Recs \ dead /\ recfile # c
    /\ recfile' = c
    /\ UNCHANGED <<stage, pstep, plock, prec, flag, plan, seen, live, dead, orphans, conf, pfaults, hist>>

\* wf-recorder does not start: the start's end gives the hold back.
RecordFails(c) ==
    /\ stage[c] = "on" /\ c \in Recs \ dead /\ recfile # c
    /\ stage' = [stage EXCEPT ![c] = "releasing"]
    /\ pstep' = [pstep EXCEPT ![c] = "want"]
    /\ UNCHANGED <<plock, disk, plan, seen, live, dead, orphans, conf, pfaults, hist>>

\* record stop: $D/record goes ...
RecordStops(c) ==
    /\ stage[c] = "on" /\ recfile = c
    /\ recfile' = NoCmd
    /\ stage' = [stage EXCEPT ![c] = "stopping"]
    /\ UNCHANGED <<pstep, plock, prec, flag, plan, seen, live, dead, orphans, conf, pfaults, hist>>

\* ... and later the hold, where the record has a recording's.
RecordReleases(c) ==
    /\ stage[c] = "stopping" /\ pstep[c] = "none"
    /\ IF prec.holds \cap Recs # {}
       THEN pstep' = [pstep EXCEPT ![c] = "want"] /\ UNCHANGED stage
       ELSE stage' = [stage EXCEPT ![c] = "over"] /\ UNCHANGED pstep
    /\ UNCHANGED <<plock, disk, plan, seen, live, dead, orphans, conf, pfaults, hist>>

\* The box's config is loaded again: hidden while omabox.pointer is there.
Reload ==
    /\ live' = (flag \/ conf)
    /\ base' = IF flag \/ \E c \in PtrCmds : pstep[c] \in {"write", "unset"} THEN base ELSE conf
    /\ UNCHANGED <<stage, pstep, plock, disk, plan, seen, dead, orphans, conf, pfaults, asked, lost>>

\* SIGKILL: the lock goes with it, the call it has in the box goes on.
PtrKilled(c) ==
    /\ pstep[c] # "none" \/ Running(c)
    /\ Silent
    /\ dead' = dead \cup {c}
    /\ stage' = [stage EXCEPT ![c] = "over"]
    /\ pstep' = [pstep EXCEPT ![c] = "none"]
    /\ plock' = IF plock = c THEN NoCmd ELSE plock
    /\ orphans' = orphans \cup (IF pstep[c] = "set" /\ ~seen THEN {TRUE}
                                ELSE IF pstep[c] = "unset" THEN {plan.was = "true"} ELSE {})
    /\ lost' = (lost \/ pstep[c] = "unset")
    /\ base' = IF pstep[c] = "write" /\ ~On(prec) THEN live ELSE base
    /\ UNCHANGED <<disk, plan, seen, live, conf, asked>>

OrphanSets(v) ==
    /\ v \in orphans
    /\ live' = v
    /\ orphans' = orphans \ {v}
    /\ lost' = (lost \/ dead # {})
    /\ UNCHANGED <<stage, pstep, plock, disk, plan, seen, dead, conf, pfaults, base, asked>>

PtrChange(c) ==
    \/ PtrRead(c) \/ PtrBusy(c) \/ PtrLive(c) \/ PtrWrite(c) \/ PtrSet(c)
    \/ PtrClear(c) \/ PtrUnset(c)

PtrNext ==
    \/ \E c \in PtrCmds : PtrStart(c) \/ PtrChange(c) \/ PtrKilled(c)
    \/ \E v \in BOOLEAN : OrphanSets(v)
    \/ \E c \in Shots : ShotEnds(c)
    \/ \E c \in Recs : RecordRuns(c) \/ RecordFails(c) \/ RecordStops(c) \/ RecordReleases(c)
    \/ Reload

PtrSpec == PtrInit /\ [][PtrNext]_ptrVars

-----------------------------------------------------------------------------
PtrTypeOK ==
    /\ stage \in [PtrCmds -> {"idle", "holding", "on", "stopping", "releasing", "asking", "over"}]
    /\ pstep \in [PtrCmds -> {"none", "want", "live", "write", "set", "clear", "unset"}]
    /\ plock \in PtrCmds \cup {NoCmd} /\ recfile \in Recs \cup {NoCmd}
    /\ {prec, plan} \subseteq [hidden : BOOLEAN, holds : SUBSET Holders, was : {"none", "true", "false"}]
    /\ {flag, seen, live, conf, base, lost} \subseteq BOOLEAN
    /\ dead \subseteq PtrCmds /\ orphans \subseteq BOOLEAN
    /\ pfaults \in 0 .. MaxPtrFaults
    /\ asked \in {"none", "hide", "show"}

\* From when a shot has its hold until it ends no frame has the pointer: whatever other commands
\* hide, show, give back or leave by dying, and whatever is reloaded.  A recording's too, as long as
\* no other recording has ever begun: a record stop gives back the one hold of all of them.
HiddenWhile ==
    \A c \in Holders :
        (stage[c] = "on" /\ ~lost /\ (c \in Recs => \A d \in Recs \ {c} : stage[d] = "idle"))
        => live

\* pointer hide lasts until a show: no end of a shot or recording brings the pointer back.
HideStays ==
    (asked = "hide" /\ ~lost /\ \A c \in Shows : stage[c] # "asking" /\ stage[c] # "over") => live

\* Once nothing hides the pointer it is as it was when omabox read it before hiding it, unless the
\* very step that shows it again was killed or not answered.
PointerBack == (prec = NoRec /\ plock = NoCmd /\ ~lost) => live = base
=============================================================================
