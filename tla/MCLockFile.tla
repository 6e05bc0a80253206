----------------------------- MODULE MCLockFile -----------------------------
\* Three processes over three inode numbers: enough for a number to be freed
\* by one, given out to the second and met again by the third.
EXTENDS LockFile

CONSTANTS a, b, c, i1, i2, i3

MCProc  == {a, b, c}
MCInode == {i1, i2, i3}
=============================================================================
