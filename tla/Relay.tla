-------------------------------- MODULE Relay -------------------------------
(***************************************************************************)
(* The broker's listen and its callers (tools/relay/relay.c): a handler    *)
(* forked per connection, counted by a loop and a SIGCHLD handler, which   *)
(* runs the caller's command in a session of its own and ends it when the  *)
(* caller goes.                                                            *)
(***************************************************************************)
EXTENDS Naturals, FiniteSets

CONSTANTS
    Callers,        \* the omabox-relay call processes, each of one connection
    MaxHandlers     \* MAX_HANDLERS

ASSUME RelayAssumption ==
    IsFiniteSet(Callers) /\ Callers # {} /\ MaxHandlers \in Nat \ {0}

VARIABLES
    caller,     \* away, waiting (for its status), gone, answered, refused
    accepted,   \* the connections listen has accepted
    listen,     \* where its loop is: accept, room, fork, load, add
    conn,       \* the connection it is at
    handlers,   \* handlers
    loaded,     \* what `handlers++` has read
    chld,       \* SIGCHLD is pending
    serve,      \* each connection's handler process
    command     \* its command: none, forked, session, runs, told (a SIGTERM), ended

relayVars == <<caller, accepted, listen, conn, handlers, loaded, chld, serve, command>>
loop == <<accepted, listen, conn, handlers, loaded>>

RelayInit ==
    /\ caller = [c \in Callers |-> "away"]
    /\ accepted = {} /\ listen = "accept" /\ conn = CHOOSE c \in Callers : TRUE
    /\ handlers = 0 /\ loaded = 0 /\ chld = FALSE
    /\ serve = [c \in Callers |-> "none"]
    /\ command = [c \in Callers |-> "none"]

-----------------------------------------------------------------------------
\* A caller that waits is told no status: its connection is closed.
Refuse(c) == caller' = [caller EXCEPT ![c] = IF @ = "waiting" THEN "refused" ELSE @]

CallerCalls(c) ==
    /\ caller[c] = "away"
    /\ caller' = [caller EXCEPT ![c] = "waiting"]
    /\ UNCHANGED <<loop, chld, serve, command>>

CallerGoes(c) ==
    /\ caller[c] = "waiting"
    /\ caller' = [caller EXCEPT ![c] = "gone"]
    /\ UNCHANGED <<loop, chld, serve, command>>

\* accept4, of a connection its caller may have left already.
ListenAccept(c) ==
    /\ listen = "accept"
    /\ caller[c] \in {"waiting", "gone"} /\ c \notin accepted
    /\ listen' = "room" /\ conn' = c /\ accepted' = accepted \cup {c}
    /\ UNCHANGED <<caller, handlers, loaded, chld, serve, command>>

\* As many handlers as there may be: closed at once; else SIGCHLD is blocked.
ListenRoom ==
    /\ listen = "room"
    /\ IF handlers >= MaxHandlers THEN listen' = "accept" /\ Refuse(conn)
       ELSE listen' = "fork" /\ UNCHANGED caller
    /\ UNCHANGED <<accepted, conn, handlers, loaded, chld, serve, command>>

\* fork, which may fail: no handler, and SIGCHLD unblocked.
ListenFork ==
    /\ listen = "fork"
    /\ \/ /\ serve' = [serve EXCEPT ![conn] = "read"]
          /\ listen' = "load"
          /\ UNCHANGED caller
       \/ listen' = "accept" /\ Refuse(conn) /\ UNCHANGED serve
    /\ UNCHANGED <<accepted, conn, handlers, loaded, chld, command>>

ListenLoad ==
    /\ listen = "load"
    /\ loaded' = handlers
    /\ listen' = "add"
    /\ UNCHANGED <<caller, accepted, conn, handlers, chld, serve, command>>

ListenAdd ==
    /\ listen = "add"
    /\ handlers' = loaded + 1
    /\ listen' = "accept"
    /\ UNCHANGED <<caller, accepted, conn, loaded, chld, serve, command>>

\* (mutant of Masked: SIGCHLD is not blocked while the count is added to)
MaskedNever == FALSE
Masked == listen \in {"fork", "load", "add"}

Zombies == {c \in Callers : serve[c] = "zombie"}

\* reap_handlers: every handler that has ended is waited for and counted off.
ReapHandlers ==
    /\ chld /\ ~Masked
    /\ chld' = FALSE
    /\ handlers' = handlers - Cardinality(Zombies)
    /\ serve' = [c \in Callers |-> IF c \in Zombies THEN "reaped" ELSE serve[c]]
    /\ UNCHANGED <<caller, accepted, listen, conn, loaded, command>>

-----------------------------------------------------------------------------
ServeGoes(c, a, b) == serve[c] = a /\ serve' = [serve EXCEPT ![c] = b]

\* The handler ends, its connection closed.
ServeExits(c) ==
    /\ serve' = [serve EXCEPT ![c] = "zombie"]
    /\ chld' = TRUE

\* The request is read; or it is none it serves, or does not come in time.
ServeReads(c) ==
    /\ \/ ServeGoes(c, "read", "fork") /\ UNCHANGED <<chld, caller>>
       \/ serve[c] = "read" /\ ServeExits(c) /\ Refuse(c)
    /\ UNCHANGED <<loop, command>>

ServeForks(c) ==
    /\ \/ /\ ServeGoes(c, "fork", "started")
          /\ command' = [command EXCEPT ![c] = "forked"]
          /\ UNCHANGED <<chld, caller>>
       \/ serve[c] = "fork" /\ ServeExits(c) /\ Refuse(c) /\ UNCHANGED command
    /\ UNCHANGED loop

\* The child: setsid, then execve of the command, or an exit (126, 127).
CommandStarts(c) ==
    /\ \/ command[c] = "forked" /\ command' = [command EXCEPT ![c] = "session"]
       \/ command[c] = "session" /\ \E w \in {"runs", "ended"} : command' = [command EXCEPT ![c] = w]
    /\ UNCHANGED <<caller, loop, chld, serve>>

CommandEnds(c) ==
    /\ command[c] \in {"runs", "told"}
    /\ command' = [command EXCEPT ![c] = "ended"]
    /\ UNCHANGED <<caller, loop, chld, serve>>

\* (mutant of ServeStarted: the hangup is looked for at once)
ServeStartedAtOnce(c) ==
    /\ ServeGoes(c, "started", "poll")
    /\ UNCHANGED <<caller, loop, chld, command>>
\* The started pipe is closed: the child has exec'd, in its session, or ended.
ServeStarted(c) ==
    /\ ServeGoes(c, "started", "poll")
    /\ command[c] \notin {"forked", "session"}
    /\ UNCHANGED <<caller, loop, chld, command>>

\* kill(-child, ...) with a signal that leaves it w: it finds no group before the child's setsid.
Signalled(c, w) ==
    command' = [command EXCEPT ![c] = IF @ \in {"session", "runs", "told"} THEN w ELSE @]

\* pidfd_open fails: the command is killed, the handler ends.
ServeNoPidfd(c) ==
    /\ serve[c] = "poll"
    /\ Signalled(c, "ended")
    /\ ServeExits(c) /\ Refuse(c)
    /\ UNCHANGED loop

\* poll: the command's end first, then the caller's going.
ServePolls(c) ==
    /\ \/ command[c] = "ended" /\ ServeGoes(c, "poll", "wait")
       \/ command[c] # "ended" /\ caller[c] = "gone" /\ ServeGoes(c, "poll", "gone")
    /\ UNCHANGED <<caller, loop, chld, command>>

ServeTerms(c) ==
    /\ ServeGoes(c, "gone", "grace")
    /\ Signalled(c, "told")
    /\ UNCHANGED <<caller, loop, chld>>

\* It ends within 3 s, or SIGKILL.
ServeKills(c) ==
    /\ ServeGoes(c, "grace", "killed")
    /\ Signalled(c, "ended")
    /\ UNCHANGED <<caller, loop, chld>>

\* waitpid; the status is sent to a caller that has not gone.
ServeSays(c) ==
    /\ serve[c] \in {"wait", "killed"} /\ command[c] = "ended"
    /\ caller' = [caller EXCEPT ![c] = IF @ = "waiting" THEN "answered" ELSE @]
    /\ ServeExits(c)
    /\ UNCHANGED <<loop, command>>

RelayNext ==
    \/ ListenRoom \/ ListenFork \/ ListenLoad \/ ListenAdd \/ ReapHandlers
    \/ \E c \in Callers :
          \/ CallerCalls(c) \/ CallerGoes(c) \/ ListenAccept(c) \/ ServeReads(c) \/ ServeForks(c)
          \/ CommandStarts(c) \/ CommandEnds(c) \/ ServeStarted(c) \/ ServeNoPidfd(c)
          \/ ServePolls(c) \/ ServeTerms(c) \/ ServeKills(c) \/ ServeSays(c)

RelaySpec == RelayInit /\ [][RelayNext]_relayVars

-----------------------------------------------------------------------------
RelayTypeOK ==
    /\ caller \in [Callers -> {"away", "waiting", "gone", "answered", "refused"}]
    /\ accepted \subseteq Callers /\ conn \in Callers
    /\ listen \in {"accept", "room", "fork", "load", "add"}
    /\ {handlers, loaded} \subseteq 0 .. MaxHandlers
    /\ chld \in BOOLEAN
    /\ serve \in [Callers -> {"none", "read", "fork", "started", "poll", "gone", "grace", "killed",
                              "wait", "zombie", "reaped"}]
    /\ command \in [Callers -> {"none", "forked", "session", "runs", "told", "ended"}]

Unreaped == {c \in Callers : serve[c] \notin {"none", "reaped"}}

\* Between two connections the count is that of the handler processes not waited for yet, however
\* their ends fall on the loop's own counting, so there are never more than MAX_HANDLERS.
HandlersRight ==
    /\ listen \in {"accept", "room"} => handlers = Cardinality(Unreaped)
    /\ Cardinality(Unreaped) <= MaxHandlers

\* When the caller goes its command is told and then killed, however early it goes: no signal of
\* the handler's comes before there is a session to get it.
GoneKilled ==
    \A c \in Callers :
        /\ serve[c] = "grace" => command[c] \in {"told", "ended"}
        /\ serve[c] = "killed" => command[c] = "ended"
=============================================================================
