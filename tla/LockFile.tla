------------------------------ MODULE LockFile ------------------------------
(***************************************************************************)
(* boxes::lock_file (crates/omabox/src/boxes.rs) and its callers' ways of  *)
(* giving the lock back.  The lock of a name is an flock on the file       *)
(* BOXES/.lock-NAME, which `down`, a sweep and a cancelled `up` delete     *)
(* while they hold it.  A process that opened the file before that then    *)
(* gets an flock on a file nobody else can open: it compares the inode it  *)
(* holds with the one at the path and opens the path again.                *)
(*                                                                         *)
(* An inode number is free for a new file once it has no name and no open  *)
(* descriptor, so the comparison may meet a number that was used before.   *)
(***************************************************************************)
EXTENDS Naturals

CONSTANTS Proc, NoProc,     \* processes calling lock_file on one name; nobody
          Inode, NoInode,   \* inode numbers of the directory's file system; no file
          MaxCalls          \* bound: calls of lock_file by one process

ASSUME LockFileAssumption ==
    /\ NoProc \notin Proc
    /\ NoInode \notin Inode
    /\ MaxCalls \in Nat

VARIABLES path,    \* the inode the name .lock-NAME leads to
          fd,      \* the inode each process has open
          flock,   \* who has the flock of each inode
          pc,      \* where each process is in lock_file or after it
          calls    \* the calls each process has made

vars == <<path, fd, flock, pc, calls>>

Waiting == {"open", "flock", "stat"}
States  == {"idle", "held", "removed"} \union Waiting

TypeOK ==
    /\ path \in Inode \union {NoInode}
    /\ fd \in [Proc -> Inode \union {NoInode}]
    /\ flock \in [Inode -> Proc \union {NoProc}]
    /\ pc \in [Proc -> States]
    /\ calls \in [Proc -> 0 .. MaxCalls]

Init ==
    /\ path = NoInode
    /\ fd = [p \in Proc |-> NoInode]
    /\ flock = [i \in Inode |-> NoProc]
    /\ pc = [p \in Proc |-> "idle"]
    /\ calls = [p \in Proc |-> 0]
-----------------------------------------------------------------------------
\* No name and no descriptor: the file system may give the number out again.
Free(i) == i # path /\ \A p \in Proc : fd[p] # i

\* Closing a descriptor gives up the flock taken through it.
Unlocked(p) == [i \in Inode |-> IF flock[i] = p THEN NoProc ELSE flock[i]]

\* (mutant of Begin: the bound met one call late)
BeginLate(p) ==
    /\ pc[p] = "idle"
    /\ calls[p] <= MaxCalls
    /\ calls' = [calls EXCEPT ![p] = @ + 1]
    /\ pc' = [pc EXCEPT ![p] = "open"]
    /\ UNCHANGED <<path, fd, flock>>

Begin(p) ==
    /\ pc[p] = "idle"
    /\ calls[p] < MaxCalls
    /\ calls' = [calls EXCEPT ![p] = @ + 1]
    /\ pc' = [pc EXCEPT ![p] = "open"]
    /\ UNCHANGED <<path, fd, flock>>

\* File::create: the file at the path, or a new one.
Open(p) ==
    /\ pc[p] = "open"
    /\ \E i \in Inode :
          /\ IF path = NoInode THEN Free(i) ELSE i = path
          /\ path' = i
          /\ fd' = [fd EXCEPT ![p] = i]
    /\ pc' = [pc EXCEPT ![p] = "flock"]
    /\ UNCHANGED <<flock, calls>>

\* (mutant of Flock: LOCK_SH)
FlockShared(p) ==
    /\ pc[p] = "flock"
    /\ flock' = [flock EXCEPT ![fd[p]] = p]
    /\ pc' = [pc EXCEPT ![p] = "stat"]
    /\ UNCHANGED <<path, fd, calls>>

\* flock(LOCK_EX | LOCK_NB), polled every 20 ms.
Flock(p) ==
    /\ pc[p] = "flock"
    /\ flock[fd[p]] = NoProc
    /\ flock' = [flock EXCEPT ![fd[p]] = p]
    /\ pc' = [pc EXCEPT ![p] = "stat"]
    /\ UNCHANGED <<path, fd, calls>>

\* (mutant of GiveUp: the wait has no deadline)
GiveUpNever(p) == FALSE /\ pc[p] = "flock" /\ UNCHANGED vars

\* The deadline passed and the flock is still another's: None, the file closed.
GiveUp(p) ==
    /\ pc[p] = "flock"
    /\ flock[fd[p]] # NoProc
    /\ fd' = [fd EXCEPT ![p] = NoInode]
    /\ pc' = [pc EXCEPT ![p] = "idle"]
    /\ UNCHANGED <<path, flock, calls>>

\* (mutants of Check: any file locked will do; any file at the path will)
CheckNothing(p) ==
    /\ pc[p] = "stat"
    /\ pc' = [pc EXCEPT ![p] = "held"]
    /\ UNCHANGED <<path, fd, flock, calls>>
CheckExists(p) == path # NoInode /\ CheckNothing(p)

\* The file locked is the one at the path: the lock is had.
Check(p) ==
    /\ pc[p] = "stat"
    /\ fd[p] = path
    /\ pc' = [pc EXCEPT ![p] = "held"]
    /\ UNCHANGED <<path, fd, flock, calls>>

\* It is not (removed, or removed and made again): closed, the path opened again.
Reopen(p) ==
    /\ pc[p] = "stat"
    /\ fd[p] # path
    /\ fd' = [fd EXCEPT ![p] = NoInode]
    /\ flock' = Unlocked(p)
    /\ pc' = [pc EXCEPT ![p] = "open"]
    /\ UNCHANGED <<path, calls>>

\* down_one, sweep_one, up_owner_check: the lock file removed while it is held.
Remove(p) ==
    /\ pc[p] = "held"
    /\ path' = NoInode
    /\ pc' = [pc EXCEPT ![p] = "removed"]
    /\ UNCHANGED <<fd, flock, calls>>

\* The lock dropped; a process that dies anywhere closes its descriptor too.
Close(p) ==
    /\ pc[p] # "idle"
    /\ fd' = [fd EXCEPT ![p] = NoInode]
    /\ flock' = Unlocked(p)
    /\ pc' = [pc EXCEPT ![p] = "idle"]
    /\ UNCHANGED <<path, calls>>

Try(p) == Flock(p) \/ GiveUp(p)

Step(p) == \/ Begin(p) \/ Open(p) \/ Try(p) \/ Check(p) \/ Reopen(p)
           \/ Remove(p) \/ Close(p)

Next == \E p \in Proc : Step(p)

Spec == Init /\ [][Next]_vars

\* lock_file runs on once called: it polls, and its wait ends.  Whoever has
\* the lock may keep it for good, and nobody has to ask for it.
Fairness == \A p \in Proc : WF_vars(Open(p) \/ Try(p) \/ Check(p) \/ Reopen(p))

FairSpec == Spec /\ Fairness
-----------------------------------------------------------------------------
\* lock_file's answer holds for as long as the lock is kept: the file a holder
\* has locked is the one at the path, so whoever comes next waits on that file.
HeldIsLinked == \A p \in Proc : pc[p] = "held" => path = fd[p]

\* "One `up` or `down` per name at a time" (up.rs:1191): two processes never
\* both have the lock of a name, whatever was deleted in between.
MutualExclusion ==
    \A p, q \in Proc : pc[p] = "held" /\ pc[q] = "held" => p = q

\* A call of lock_file is answered (the lock, or None at its deadline) even if
\* its holder never lets go.
Answered ==
    \A p \in Proc : pc[p] \in Waiting ~> pc[p] \notin Waiting

\* The holder an observer of the whole system sees.
Holder == IF \E p \in Proc : pc[p] = "held"
          THEN CHOOSE p \in Proc : pc[p] = "held"
          ELSE NoProc

Abstract == INSTANCE NameLock WITH owner <- Holder

\* Deleting the file included, the lock behaves as one plain lock (NameLock).
ImplementsNameLock == Abstract!Spec
=============================================================================
