-------------------------- MODULE LockFile_proofs --------------------------
(***************************************************************************)
(* The lock file is a lock, for any number of processes and inode numbers. *)
(* HeldIsLinked and MutualExclusion are not inductive on their own: that a *)
(* process past its flock call owns the flock of the inode it has open     *)
(* (LockedIsOwned), and that no flock is left with anyone else             *)
(* (OwnedIsLocked), has to be carried along.                               *)
(***************************************************************************)
EXTENDS LockFile, TLAPS

HasFlock == {"stat", "held", "removed"}

\* A process about to flock has a file open.
OpenedToFlock == \A p \in Proc : pc[p] = "flock" => fd[p] \in Inode

\* Past the flock call, the process has the flock of the file it has open.
LockedIsOwned ==
    \A p \in Proc : pc[p] \in HasFlock => fd[p] \in Inode /\ flock[fd[p]] = p

\* An flock is some process's past the flock call, through its open file.
OwnedIsLocked ==
    \A i \in Inode : \A p \in Proc :
        flock[i] = p => pc[p] \in HasFlock /\ fd[p] = i

IInv ==
    /\ TypeOK
    /\ OpenedToFlock
    /\ LockedIsOwned
    /\ OwnedIsLocked
    /\ HeldIsLinked

USE LockFileAssumption

\* The initial state has the inductive invariant.
LEMMA InitEstablishes == Init => IInv
BY DEF Init, IInv, TypeOK, OpenedToFlock, LockedIsOwned, OwnedIsLocked,
       HeldIsLinked, States, Waiting, HasFlock

\* The type of the state is kept by every step.
LEMMA TypeKept ==
    ASSUME TypeOK, [Next]_vars
    PROVE  TypeOK'
<1>1. CASE UNCHANGED vars
  BY <1>1 DEF vars, TypeOK
<1>2. ASSUME NEW p \in Proc, Step(p)
      PROVE  TypeOK'
  <2>1. CASE Begin(p)
    BY <2>1 DEF Begin, TypeOK, States, Waiting
  <2>2. CASE Open(p)
    BY <2>2 DEF Open, Free, TypeOK, States, Waiting
  <2>3. CASE Flock(p)
    BY <2>3 DEF Flock, TypeOK, States, Waiting
  <2>4. CASE GiveUp(p)
    BY <2>4 DEF GiveUp, TypeOK, States, Waiting
  <2>5. CASE Check(p)
    BY <2>5 DEF Check, TypeOK, States, Waiting
  <2>6. CASE Reopen(p)
    BY <2>6 DEF Reopen, Unlocked, TypeOK, States, Waiting
  <2>7. CASE Remove(p)
    BY <2>7 DEF Remove, TypeOK, States, Waiting
  <2>8. CASE Close(p)
    BY <2>8 DEF Close, Unlocked, TypeOK, States, Waiting
  <2> QED
    BY <1>2, <2>1, <2>2, <2>3, <2>4, <2>5, <2>6, <2>7, <2>8 DEF Step, Try
<1> QED
  BY <1>1, <1>2 DEF Next

\* Every step keeps the inductive invariant.
LEMMA StepPreserves ==
    ASSUME IInv, [Next]_vars
    PROVE  IInv'
<1> USE DEF IInv
<1>1. TypeOK'
  BY TypeKept
<1>2. CASE UNCHANGED vars
  BY <1>1, <1>2 DEF vars, OpenedToFlock, LockedIsOwned, OwnedIsLocked, HeldIsLinked
<1>3. ASSUME NEW p \in Proc, Step(p)
      PROVE  IInv'
  <2> USE DEF TypeOK, HasFlock
  <2>1. CASE Begin(p)
    BY <1>1, <2>1
       DEF Begin, OpenedToFlock, LockedIsOwned, OwnedIsLocked, HeldIsLinked
  <2>2. CASE Open(p)
    <3>1. PICK i \in Inode : /\ IF path = NoInode THEN Free(i) ELSE i = path
                             /\ path' = i
                             /\ fd' = [fd EXCEPT ![p] = i]
      BY <2>2 DEF Open
    <3>2. pc[p] = "open" /\ pc' = [pc EXCEPT ![p] = "flock"] /\ flock' = flock
      BY <2>2 DEF Open
    <3>3. OpenedToFlock'
      BY <3>1, <3>2 DEF OpenedToFlock
    <3>4. LockedIsOwned' /\ OwnedIsLocked'
      BY <3>1, <3>2 DEF LockedIsOwned, OwnedIsLocked
    <3>5. HeldIsLinked'
      \* The path only changes when it led nowhere, and then nobody holds the lock.
      BY <3>1, <3>2 DEF HeldIsLinked, LockedIsOwned
    <3> QED
      BY <1>1, <3>3, <3>4, <3>5
  <2>3. CASE Flock(p)
    BY <1>1, <2>3
       DEF Flock, OpenedToFlock, LockedIsOwned, OwnedIsLocked, HeldIsLinked
  <2>4. CASE GiveUp(p)
    BY <1>1, <2>4
       DEF GiveUp, OpenedToFlock, LockedIsOwned, OwnedIsLocked, HeldIsLinked
  <2>5. CASE Check(p)
    BY <1>1, <2>5
       DEF Check, OpenedToFlock, LockedIsOwned, OwnedIsLocked, HeldIsLinked
  <2>6. CASE Reopen(p)
    BY <1>1, <2>6
       DEF Reopen, Unlocked, OpenedToFlock, LockedIsOwned, OwnedIsLocked, HeldIsLinked
  <2>7. CASE Remove(p)
    <3>1. \A q \in Proc : pc[q] = "held" => q = p
      \* Two holders would have the same inode open, whose flock is one process's.
      BY <2>7 DEF Remove, HeldIsLinked, LockedIsOwned
    <3> QED
      BY <1>1, <2>7, <3>1
         DEF Remove, OpenedToFlock, LockedIsOwned, OwnedIsLocked, HeldIsLinked
  <2>8. CASE Close(p)
    BY <1>1, <2>8
       DEF Close, Unlocked, OpenedToFlock, LockedIsOwned, OwnedIsLocked, HeldIsLinked
  <2> QED
    BY <1>3, <2>1, <2>2, <2>3, <2>4, <2>5, <2>6, <2>7, <2>8 DEF Step, Try
<1> QED
  BY <1>2, <1>3 DEF Next

\* The inductive invariant holds in every behaviour.
THEOREM Invariance == Spec => []IInv
<1>1. IInv /\ [Next]_vars => IInv'
  BY StepPreserves
<1> QED
  BY InitEstablishes, <1>1, PTL DEF Spec

\* Type correctness of lock_file's state.
THEOREM TypeCorrect == Spec => []TypeOK
<1>1. IInv => TypeOK
  BY DEF IInv
<1> QED
  BY Invariance, <1>1, PTL

\* The file a holder has locked is the one at the path, however often the file
\* was removed and its inode number used again.
THEOREM HolderIsLinked == Spec => []HeldIsLinked
<1>1. IInv => HeldIsLinked
  BY DEF IInv
<1> QED
  BY Invariance, <1>1, PTL

\* Two holders would have one inode open, whose flock is one process's.
LEMMA InvExcludes == IInv => MutualExclusion
BY DEF IInv, MutualExclusion, HeldIsLinked, LockedIsOwned, HasFlock

\* At most one process has the lock of a name (boxes::lock_file).
THEOREM Exclusive == Spec => []MutualExclusion
BY Invariance, InvExcludes, PTL
-----------------------------------------------------------------------------
\* What an outside observer calls the holder, given the invariant.
LEMMA HolderIs ==
    ASSUME IInv, NEW p \in Proc, pc[p] = "held"
    PROVE  Holder = p
<1>1. \A q \in Proc : pc[q] = "held" => q = p
  BY InvExcludes DEF MutualExclusion
<1> QED
  BY <1>1 DEF Holder

\* Where nobody holds, there is no holder.
LEMMA NoHolderIs ==
    ASSUME \A p \in Proc : pc[p] # "held"
    PROVE  Holder = NoProc
BY DEF Holder

\* The initial state is the abstract lock's.
LEMMA InitRefines == Init => Abstract!Init
BY NoHolderIs DEF Init, Abstract!Init

\* A step that leaves everybody's hold alone is a stutter of the abstract lock.
LEMMA SameHolder ==
    ASSUME \A q \in Proc : pc'[q] = "held" <=> pc[q] = "held"
    PROVE  Holder' = Holder
BY DEF Holder

\* Every step is one of the abstract lock's, or leaves its owner alone.
LEMMA StepRefines ==
    ASSUME IInv, IInv', [Next]_vars
    PROVE  [Abstract!Next]_Holder
<1>1. CASE UNCHANGED vars
  BY <1>1, SameHolder DEF vars
<1>2. ASSUME NEW p \in Proc, Step(p)
      PROVE  [Abstract!Next]_Holder
  <2> USE DEF IInv, TypeOK
  <2>1. CASE Begin(p) \/ Open(p) \/ Try(p) \/ Reopen(p)
    <3>1. \A q \in Proc : pc'[q] = "held" <=> pc[q] = "held"
      BY <2>1 DEF Begin, Open, Try, Flock, GiveUp, Reopen
    <3> QED
      BY <3>1, SameHolder
  <2>2. CASE Check(p)
    <3>1. pc'[p] = "held"
      BY <2>2 DEF Check
    <3>2. Holder' = p
      <4>1. \A q \in Proc : pc'[q] = "held" => q = p
        BY <3>1, <2>2 DEF Check, HeldIsLinked, LockedIsOwned, HasFlock
      <4> QED
        BY <3>1, <4>1 DEF Holder
    <3>3. \A q \in Proc : pc[q] # "held"
      \* A holder q would have the same inode locked as p.
      BY <2>2 DEF Check, HeldIsLinked, LockedIsOwned, HasFlock
    <3>4. Holder = NoProc
      BY <3>3, NoHolderIs
    <3> QED
      BY <3>2, <3>4 DEF Abstract!Next, Abstract!Acquire
  <2>3. CASE Remove(p) \/ Close(p)
    <3>1. pc'[p] # "held"
      BY <2>3 DEF Remove, Close
    <3>2. \A q \in Proc \ {p} : pc'[q] = pc[q]
      BY <2>3 DEF Remove, Close
    <3>3. CASE pc[p] = "held"
      <4>1. Holder = p
        BY <3>3, HolderIs
      <4>2. \A q \in Proc : pc'[q] # "held"
        BY <3>1, <3>2, <3>3, InvExcludes DEF MutualExclusion
      <4>3. Holder' = NoProc
        BY <4>2 DEF Holder
      <4> QED
        BY <4>1, <4>3 DEF Abstract!Next, Abstract!Release
    <3>4. CASE pc[p] # "held"
      <4>1. \A q \in Proc : pc'[q] = "held" <=> pc[q] = "held"
        BY <3>1, <3>2, <3>4
      <4> QED
        BY <4>1, SameHolder
    <3> QED
      BY <3>3, <3>4
  <2> QED
    BY <1>2, <2>1, <2>2, <2>3 DEF Step
<1> QED
  BY <1>1, <1>2 DEF Next

\* The lock file, removed and made again at will, implements the plain lock of
\* NameLock: what its users build on.
THEOREM Refinement == Spec => ImplementsNameLock
<1>1. IInv /\ IInv' /\ [Next]_vars => [Abstract!Next]_Holder
  BY StepRefines
<1> QED
  BY Invariance, InitRefines, <1>1, PTL DEF Spec, ImplementsNameLock, Abstract!Spec
=============================================================================
