------------------------------- MODULE Guard --------------------------------
(***************************************************************************)
(* A box's protected ports (cmd/reap.rs: Guard, Sched): its reaper keeps   *)
(* the host's addresses in the box's rule as they change, told by events   *)
(* that come before an address gone is out of what it reads, by looks no   *)
(* closer than GAP, tried again with growing waits while nft fails; a look *)
(* lasts as long as its nft does.                                          *)
(***************************************************************************)
EXTENDS Naturals

CONSTANTS
    Addrs,      \* what the host's addresses may be
    NoAddrs,    \* nothing set in the rule by the reaper yet
    Gap,        \* GAP, in the clock's steps
    FailingMax, \* FAILING_MAX
    NftWait,    \* NFT_WAIT
    Lag,        \* how long an address gone is still read
    MaxFailed   \* bound: looks that fail in a row

ASSUME GuardAssumption ==
    /\ NoAddrs \notin Addrs
    /\ {Gap, FailingMax, NftWait, Lag, MaxFailed} \subseteq Nat
    /\ Lag < Gap /\ 2 * Gap <= FailingMax

VARIABLES
    gaddrs,     \* the host's addresses
    gread,      \* what net::host_addrs reads
    gevent,     \* whether an event is in the socket
    gpending,   \* Sched: an event that no look has followed
    gtrailing,  \* how long until the look after the last event; Never: none
    gwait,      \* how long until a look may be (next_ok)
    gfailed,    \* looks failed in a row
    grule,      \* the addresses in the box's rule, as the reaper last set them
    gage,       \* history: how long ago an event was last seen or a look failed
    glag,       \* history: how long the host's addresses have been as they are, up to Lag
    glook,      \* what the look under way read; NoAddrs: none is
    gnft,       \* how long its nft has run
    glost       \* history: the trailing look's time came during the last look

guardVars == <<gaddrs, gread, gevent, gpending, gtrailing, gwait, gfailed, grule, gage, glag, glook,
               gnft, glost>>
sched == <<gpending, gtrailing, gwait, gfailed>>

Never == Gap + 1

GuardInit ==
    /\ gaddrs \in Addrs /\ gread = gaddrs
    /\ gevent = FALSE /\ gpending = FALSE /\ gtrailing = Never
    /\ gwait = 0 /\ gfailed = 0 /\ gage = 0 /\ glag = 0
    /\ grule = NoAddrs
    /\ gnft = 0 /\ glost = FALSE
    /\ glook = gaddrs           \* run's first look, whatever was set at up

-----------------------------------------------------------------------------
\* Sched::due, now: an event or a failure waits for next_ok, a trailing look for its time too.
Due == (gpending \/ gfailed > 0 \/ gtrailing = 0) /\ gwait = 0

\* The host's addresses change, whatever the reaper is doing.
AddrsChange(a) ==
    /\ a # gaddrs
    /\ gaddrs' = a
    /\ gevent' = TRUE
    /\ glag' = 0
    /\ UNCHANGED <<gread, sched, grule, gage, glook, gnft, glost>>

\* The kernel's table has them by now.
AddrsRead ==
    /\ gread # gaddrs
    /\ gread' = gaddrs
    /\ UNCHANGED <<gaddrs, gevent, sched, grule, gage, glag, glook, gnft, glost>>

\* nap: woken by the socket, which is emptied.
GuardEvent ==
    /\ gevent /\ glook = NoAddrs
    /\ gevent' = FALSE
    /\ gpending' = TRUE
    /\ gtrailing' = Gap
    /\ gage' = 0
    /\ UNCHANGED <<gaddrs, gread, gwait, gfailed, grule, glag, glook, gnft, glost>>

\* guard_look begins: when one is due, or at a poll; the addresses read.
GuardLook(poll) ==
    /\ glook = NoAddrs
    /\ Due \/ poll
    /\ glook' = gread
    /\ glost' = FALSE
    /\ UNCHANGED <<gaddrs, gread, gevent, sched, grule, gage, glag, gnft>>

\* The wait after one more failure: GAP << failed.min(4), up to FAILING_MAX.
Shifted == <<1, 2, 4, 8, 16>>
FailedWait ==
    LET wait == Gap * Shifted[IF gfailed < 4 THEN gfailed + 1 ELSE 5]
    IN  IF wait < FailingMax THEN wait ELSE FailingMax

\* (mutant of Looked: any look is the last event's trailing one)
LookedAll(ok) ==
    /\ gpending' = FALSE
    /\ gtrailing' = Never
    /\ IF ok THEN gfailed' = 0 /\ gwait' = Gap
       ELSE /\ gfailed' = gfailed + 1
            /\ gwait' = FailedWait
\* Sched::looked, by the clock once nft has ended.
Looked(ok) ==
    /\ gpending' = FALSE
    /\ gtrailing' = IF gtrailing = 0 THEN Never ELSE gtrailing
    /\ IF ok THEN gfailed' = 0 /\ gwait' = Gap
       ELSE /\ gfailed' = gfailed + 1
            /\ gwait' = FailedWait

\* guard_look ends: what it read is what was last set, or nft sets it, or fails.
GuardSet ==
    /\ glook # NoAddrs
    /\ \/ Looked(TRUE) /\ grule' = glook /\ UNCHANGED gage
       \/ /\ glook # grule /\ gfailed < MaxFailed
          /\ Looked(FALSE) /\ gage' = 0 /\ UNCHANGED grule
    /\ glook' = NoAddrs /\ gnft' = 0
    /\ UNCHANGED <<gaddrs, gread, gevent, glag, glost>>

\* A step of the clock: as nft runs, until it is killed; else none passes with a look due or an event
\* unseen.
GuardTick ==
    /\ IF glook = NoAddrs THEN ~Due /\ ~gevent ELSE glook # grule /\ gnft < NftWait
    /\ gnft' = IF glook = NoAddrs THEN 0 ELSE gnft + 1
    /\ glost' = (glost \/ (glook # NoAddrs /\ gtrailing = 1))
    /\ gread # gaddrs => glag < Lag
    /\ glag' = IF glag = Lag THEN Lag ELSE glag + 1
    /\ gage' = IF gage > FailingMax THEN gage ELSE gage + 1
    /\ gwait' = IF gwait = 0 THEN 0 ELSE gwait - 1
    /\ gtrailing' = IF gtrailing \in {0, Never} THEN gtrailing ELSE gtrailing - 1
    /\ UNCHANGED <<gaddrs, gread, gevent, gpending, gfailed, grule, glook>>

GuardNext ==
    \/ \E a \in Addrs : AddrsChange(a)
    \/ AddrsRead \/ GuardEvent \/ GuardSet \/ GuardTick
    \/ \E poll \in BOOLEAN : GuardLook(poll)

GuardSpec == GuardInit /\ [][GuardNext]_guardVars

-----------------------------------------------------------------------------
GuardTypeOK ==
    /\ {gaddrs, gread} \subseteq Addrs
    /\ gevent \in BOOLEAN /\ gpending \in BOOLEAN
    /\ gtrailing \in 0 .. Never /\ gwait \in 0 .. FailingMax
    /\ gfailed \in 0 .. MaxFailed
    /\ {grule, glook} \subseteq Addrs \cup {NoAddrs}
    /\ gage \in 0 .. FailingMax + 1 /\ glag \in 0 .. Lag
    /\ gnft \in 0 .. NftWait /\ glost \in BOOLEAN

\* FAILING_MAX after the reaper has seen the last event of the host's addresses, and after the last
\* failure of nft, no event unseen, the rule has them, polls or no: no burst of events and no slow nft
\* puts the look off, and one that read an address on its way out is followed by another; unless
\* that one's time came while nft still ran.
GuardCurrent == (gage > FailingMax /\ ~gevent /\ glook = NoAddrs /\ ~glost) => grule = gaddrs
=============================================================================
