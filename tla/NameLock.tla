------------------------------ MODULE NameLock ------------------------------
(***************************************************************************)
(* What every user of boxes::lock_file relies on: the lock of a box name   *)
(* is one thing that at most one process has, handed over only after it    *)
(* was given back ("One `up` or `down` per name at a time", up.rs).        *)
(* LockFile implements it with a file that its holders also delete.        *)
(***************************************************************************)
CONSTANTS Proc,     \* the processes that call lock_file on one name
          NoProc    \* nobody: none of them

VARIABLE owner

Init == owner = NoProc

Acquire(p) == owner = NoProc /\ owner' = p

\* Given back: dropped, or the lock file removed with its box, or the holder died.
Release(p) == owner = p /\ owner' = NoProc

Next == \E p \in Proc : Acquire(p) \/ Release(p)

Spec == Init /\ [][Next]_owner
=============================================================================
