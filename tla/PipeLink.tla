------------------------------ MODULE PipeLink ------------------------------
(***************************************************************************)
(* The control link: commands of the tray (send_command in eir-ui/main.rs) *)
(* queued for the pipe client (pipe_client.rs), written to the pipe, read  *)
(* by the service's connection handler (pipe_server/mod.rs), queued for    *)
(* the decision loop, and answered through a broadcast ring whose lagging  *)
(* reader loses the oldest; status goes the same way through a watch that  *)
(* keeps only the newest.  Either side may end the connection, either side *)
(* checks who the other is (windows.rs, unix.rs), and the tray reconnects. *)
(* One connection at a time; each has its own reader of the ring.          *)
(***************************************************************************)
EXTENDS Integers, Sequences, FiniteSets

CONSTANTS
    Requests,     \* request ids
    Clients,      \* kinds of client process, by what the service can see of it
    Servers,      \* kinds of server process, by what the tray can see of it
    QueueCap,     \* capacity of the tray's and the service's command queues
    RingCap,      \* capacity of the result broadcast
    MaxLinks,     \* bound: connections
    PipeCap       \* bound: messages in one direction of the pipe

ASSUME PipeLinkAssumption ==
    {QueueCap, RingCap, MaxLinks, PipeCap} \subseteq Nat \ {0}

VARIABLES
    caller,      \* [Requests -> how far its sender is]
    queuedLink,  \* [Requests -> connection it was queued under, 0: none undrained]
    sentLink,    \* [Requests -> connection it was written to, 0 before]
    answered,    \* [Requests -> BOOLEAN]: the decision loop handled it
    trayLink,    \* "down", "up", or closing: "ended", "drained"
    flag,        \* `connected`
    caps,        \* it shows this service's status, which names command_results
    waiting,     \* ids with a reply sender in `waiters`
    cmdQueue,    \* cmd_rx
    link,        \* number of the current or last connection
    serving,     \* the service's handle_connection runs
    session,     \* its session_rx
    up, down,    \* bytes in the pipe, as messages
    uiQueue,     \* ui_rx of the decision loop
    ring,        \* result_rx of this connection
    fresh,       \* the status watch changed since this connection took from it
    writer       \* its write task: "new", "greeted" by a first status, "ended"

callerVars == <<caller, queuedLink, sentLink>>
trayVars == <<trayLink, flag, caps, waiting, cmdQueue>>
pipeVars == <<link, serving, session, up, down, ring, fresh, writer>>
linkVars == <<callerVars, trayVars, pipeVars, answered, uiQueue>>

LinkInit ==
    /\ caller = [r \in Requests |-> "new"]
    /\ queuedLink = [r \in Requests |-> 0] /\ sentLink = queuedLink
    /\ answered = [r \in Requests |-> FALSE]
    /\ trayLink = "down" /\ flag = FALSE /\ caps = FALSE /\ waiting = {} /\ cmdQueue = <<>>
    /\ link = 0 /\ serving = FALSE /\ session = FALSE /\ up = <<>> /\ down = <<>>
    /\ uiQueue = <<>> /\ ring = <<>> /\ fresh = TRUE /\ writer = "new"

-----------------------------------------------------------------------------
(* The messages of the service: ServiceMsg *)

\* StatusPayload, for what the link makes of it: it names the capabilities.
Status == [kind |-> "status", id |-> "none", ok |-> TRUE]

\* CommandResult, with the id of the UiRequest it answers.
Result(r, ok) == [kind |-> "result", id |-> r, ok |-> ok]

-----------------------------------------------------------------------------
(* Who may talk to whom *)

\* The service's view of a client: the active session, and either an
\* elevated administrator or the installed tray's own image; a portable
\* service asks for its own user and the image beside it instead.
ClientAllowed(c) ==
    IF c.portable THEN c.active /\ c.sameUser /\ c.image = "beside"
    ELSE c.active /\ (c.elevated \/ c.image = "installed")

\* On Linux: root, or a user or group on the list.
PeerAllowed(c) == c.uid = "root" \/ c.uid = "listed" \/ c.gid = "listed"

\* The tray's view of the server: the pipe's owner, still the same after the
\* checks, is the running EirSvc, LocalSystem's own process from a trusted
\* image; a portable service is a process of the same user and session, not
\* elevated, from the image beside the tray.
ServerAllowed(s) ==
    /\ ~s.changed
    /\ IF s.portable THEN s.sameUser /\ ~s.elevated /\ s.image = "beside"
       ELSE s.running /\ s.account = "system" /\ s.image = "trusted"

\* create, connect, verify on both sides; a service without a client waits here.
Connect(c, s) ==
    /\ trayLink = "down" /\ ~serving /\ link < MaxLinks
    /\ (IF c.unix THEN PeerAllowed(c) ELSE ClientAllowed(c)) /\ ServerAllowed(s)
    /\ trayLink' = "up" /\ flag' = TRUE
    /\ serving' = TRUE /\ session' = TRUE /\ link' = link + 1
    /\ up' = <<>> /\ down' = <<>> /\ ring' = <<>> /\ fresh' = TRUE /\ writer' = "new"
    /\ UNCHANGED <<callerVars, caps, waiting, cmdQueue, answered, uiQueue>>

\* The tray's failed attempt drops what was queued and waits five seconds.
ConnectFails(c, s) ==
    /\ trayLink = "down" /\ ~serving
    /\ ~((IF c.unix THEN PeerAllowed(c) ELSE ClientAllowed(c)) /\ ServerAllowed(s))
    /\ cmdQueue' = <<>> /\ waiting' = {} /\ caps' = FALSE
    /\ UNCHANGED <<callerVars, trayLink, flag, pipeVars, answered, uiQueue>>

-----------------------------------------------------------------------------
(* One command of the tray: send_command_with_timeout.  Its checks and its *)
(* send are separate steps of the caller's thread.                         *)

At(r, s) == caller[r] = s /\ UNCHANGED <<answered, pipeVars, uiQueue>>
To(r, s) == caller' = [caller EXCEPT ![r] = s]

EnsureConnected(r) ==
    /\ At(r, "new")
    /\ To(r, IF flag THEN "checked" ELSE "refused")
    /\ UNCHANGED <<queuedLink, sentLink, trayVars>>

\* A reply is awaited only when the shown status says the service sends one.
AwaitReply(r) ==
    /\ At(r, "checked")
    /\ To(r, IF caps THEN "registered" ELSE "plain")
    /\ waiting' = IF caps THEN waiting \cup {r} ELSE waiting
    /\ UNCHANGED <<queuedLink, sentLink, trayLink, flag, caps, cmdQueue>>

TrySend(r) ==
    /\ \E s \in {"registered", "plain"} : At(r, s)
    /\ IF Len(cmdQueue) < QueueCap
       THEN /\ cmdQueue' = Append(cmdQueue, r)
            /\ To(r, IF caller[r] = "plain" THEN "unconfirmed" ELSE "waiting")
            /\ queuedLink' = [queuedLink EXCEPT ![r] =
                   IF trayLink \in {"up", "ended"} THEN link ELSE 0]
            /\ UNCHANGED waiting
       ELSE /\ waiting' = waiting \ {r}
            /\ To(r, "refused")
            /\ UNCHANGED <<cmdQueue, queuedLink>>
    /\ UNCHANGED <<sentLink, trayLink, flag, caps>>

\* The reply sender was dropped with the connection.
ReplyDropped(r) ==
    /\ At(r, "waiting") /\ r \notin waiting
    /\ To(r, "disconnected")
    /\ UNCHANGED <<queuedLink, sentLink, trayVars>>

ReplyTimeout(r) ==
    /\ At(r, "waiting") /\ r \in waiting
    /\ To(r, "timed_out")
    /\ waiting' = waiting \ {r}
    /\ UNCHANGED <<queuedLink, sentLink, trayLink, flag, caps, cmdQueue>>

-----------------------------------------------------------------------------
(* The tray's end of the connection: connect_and_run *)

\* write_loop
TrayWrites ==
    /\ trayLink = "up" /\ cmdQueue # <<>>
    /\ cmdQueue' = Tail(cmdQueue)
    /\ up' = Append(up, Head(cmdQueue))
    /\ sentLink' = [sentLink EXCEPT ![Head(cmdQueue)] = link]
    /\ UNCHANGED <<caller, queuedLink, trayLink, flag, caps, waiting, link,
                   serving, session, down, ring, fresh, writer, answered, uiQueue>>

\* Mutant: any reply wakes any waiting caller.
AnyWaiter(m) == waiting

Waiter(m) == waiting \cap {m.id}

\* read_loop: a status replaces the shown one, a result wakes its caller.
TrayReads ==
    /\ trayLink = "up" /\ down # <<>>
    /\ down' = Tail(down)
    /\ LET m == Head(down)
       IN  IF m.kind = "status"
           THEN caps' = TRUE /\ UNCHANGED <<caller, waiting>>
           ELSE /\ caller' = [r \in Requests |->
                       IF r \in Waiter(m) /\ caller[r] = "waiting"
                       THEN (IF m.ok THEN "ok" ELSE "rejected") ELSE caller[r]]
                /\ waiting' = waiting \ Waiter(m)
                /\ UNCHANGED caps
    /\ UNCHANGED <<queuedLink, sentLink, trayLink, flag, cmdQueue, link, serving,
                   session, up, ring, fresh, writer, answered, uiQueue>>

\* The service is gone, or a read or write failed.  `connected` goes first.
TrayEnds ==
    /\ trayLink = "up"
    /\ trayLink' = "ended" /\ flag' = FALSE /\ caps' = FALSE
    /\ UNCHANGED <<callerVars, waiting, cmdQueue, pipeVars, answered, uiQueue>>

\* Mutant: the commands of the dead connection stay queued.
KeepQueue == cmdQueue

NoQueue == <<>>

\* Commands queued for it are dropped, not replayed.
TrayDrains ==
    /\ trayLink = "ended"
    /\ trayLink' = "drained" /\ cmdQueue' = NoQueue
    /\ UNCHANGED <<callerVars, flag, caps, waiting, pipeVars, answered, uiQueue>>

TrayClears ==
    /\ trayLink = "drained"
    /\ trayLink' = "down" /\ waiting' = {}
    /\ UNCHANGED <<callerVars, flag, caps, cmdQueue, pipeVars, answered, uiQueue>>

-----------------------------------------------------------------------------
(* The service's end: handle_connection, and the decision loop behind it *)

ServiceReads ==
    /\ serving /\ session /\ up # <<>>
    /\ Len(uiQueue) < QueueCap
    /\ up' = Tail(up)
    /\ uiQueue' = Append(uiQueue, Head(up))
    /\ UNCHANGED <<callerVars, trayVars, link, serving, session, down, ring, fresh, writer, answered>>

\* The decision loop handles one command and answers it, if it asked for an
\* answer, to whoever is connected by then; a full ring loses its oldest.
ServiceHandles(ok) ==
    /\ uiQueue # <<>>
    /\ LET r == Head(uiQueue)
           kept == IF Len(ring) = RingCap THEN Tail(ring) ELSE ring
       IN  /\ answered' = [answered EXCEPT ![r] = TRUE]
           /\ ring' = IF serving /\ caller[r] # "unconfirmed" THEN Append(kept, Result(r, ok))
                      ELSE ring
    /\ uiQueue' = Tail(uiQueue)
    /\ UNCHANGED <<callerVars, trayVars, link, serving, session, up, down, fresh, writer>>

\* broadcast_status: the watch keeps only the newest.
StatusChanges ==
    /\ serving /\ ~fresh
    /\ fresh' = TRUE
    /\ UNCHANGED <<callerVars, trayVars, link, serving, session, up, down, ring, writer,
                   answered, uiQueue>>

\* The writer takes either, the first status before any result.
WriteStatus ==
    /\ serving /\ session /\ fresh /\ writer # "ended" /\ Len(down) < PipeCap
    /\ down' = Append(down, Status)
    /\ fresh' = FALSE /\ writer' = "greeted"
    /\ UNCHANGED <<callerVars, trayVars, link, serving, session, up, ring, answered, uiQueue>>

WriteResult ==
    /\ serving /\ session /\ writer = "greeted" /\ ring # <<>> /\ Len(down) < PipeCap
    /\ down' = Append(down, Head(ring))
    /\ ring' = Tail(ring)
    /\ UNCHANGED <<callerVars, trayVars, link, serving, session, up, fresh, writer, answered,
                   uiQueue>>

\* A failed write, or a line that cannot be made, ends the write task; the
\* reader goes on.
WriterEnds ==
    /\ serving /\ writer # "ended"
    /\ writer' = "ended"
    /\ UNCHANGED <<callerVars, trayVars, link, serving, session, up, down, ring, fresh,
                   answered, uiQueue>>

\* The session watcher: the client's session is no longer the active one.
SessionLost ==
    /\ serving /\ session
    /\ session' = FALSE
    /\ UNCHANGED <<callerVars, trayVars, link, serving, up, down, ring, fresh, writer, answered,
                   uiQueue>>

\* EOF, a bad or oversized line, a lost session or a read error: both tasks
\* end.  What the tray has not read of it may still arrive.
ServiceEnds ==
    /\ serving
    /\ serving' = FALSE /\ session' = FALSE /\ up' = <<>> /\ ring' = <<>>
    /\ fresh' = FALSE /\ writer' = "ended"
    /\ UNCHANGED <<callerVars, trayVars, link, down, answered, uiQueue>>

\* The service process stops, or restarts after a settings change, whose
\* result it waited for no longer than five seconds.
ServiceStops ==
    /\ link > 0
    /\ serving' = FALSE /\ session' = FALSE /\ up' = <<>> /\ ring' = <<>>
    /\ fresh' = FALSE /\ writer' = "ended"
    /\ uiQueue' = <<>>
    /\ UNCHANGED <<callerVars, trayVars, link, down, answered>>

LinkNext ==
    \/ \E c \in Clients, s \in Servers : Connect(c, s) \/ ConnectFails(c, s)
    \/ \E r \in Requests : EnsureConnected(r) \/ AwaitReply(r) \/ TrySend(r)
                           \/ ReplyDropped(r) \/ ReplyTimeout(r)
    \/ TrayWrites \/ TrayReads \/ TrayEnds \/ TrayDrains \/ TrayClears
    \/ ServiceReads \/ \E ok \in BOOLEAN : ServiceHandles(ok)
    \/ StatusChanges \/ WriteStatus \/ WriteResult \/ WriterEnds
    \/ SessionLost \/ ServiceEnds \/ ServiceStops

LinkSpec == LinkInit /\ [][LinkNext]_linkVars

-----------------------------------------------------------------------------
(* Properties *)

LinkTypeOK ==
    /\ caller \in [Requests -> {"new", "checked", "registered", "plain", "waiting",
          "unconfirmed", "ok", "rejected", "refused", "disconnected", "timed_out"}]
    /\ waiting \subseteq Requests /\ Len(cmdQueue) <= QueueCap /\ Len(uiQueue) <= QueueCap
    /\ Len(ring) <= RingCap /\ trayLink \in
          {"down", "up", "ended", "drained"}

Told(r, S) == caller[r] \in S

(* What a caller is told is true: an answer comes from the handling of its *)
(* own command, a command refused was never sent, and one that was sent is *)
(* in one place only, so it cannot be handled twice (eir-ui/main.rs:132).  *)
ToldTrue ==
    \A r \in Requests :
        /\ Told(r, {"ok", "rejected"}) => answered[r]
        /\ Told(r, {"refused"}) => ~answered[r] /\ sentLink[r] = 0
        /\ Cardinality({i \in DOMAIN cmdQueue : cmdQueue[i] = r})
           + Cardinality({i \in DOMAIN up : up[i] = r})
           + Cardinality({i \in DOMAIN uiQueue : uiQueue[i] = r})
           + (IF answered[r] THEN 1 ELSE 0) <= 1

(* Once the tray is between connections nobody waits on the dead one, and  *)
(* it shows none of its status (pipe_client.rs:160, 196).                  *)
NothingLeftOver ==
    /\ trayLink # "up" => ~flag /\ ~caps
    /\ \A r \in waiting : caller[r] \in {"registered", "waiting"}

(* A command queued before the drain of its connection is never replayed   *)
(* on a later one (pipe_client.rs:192).                                    *)
DrainedNotReplayed ==
    \A r \in Requests : sentLink[r] # 0 /\ queuedLink[r] # 0 => sentLink[r] = queuedLink[r]

(* What the control link promises. *)
LinkSound == LinkTypeOK /\ ToldTrue /\ NothingLeftOver /\ DrainedNotReplayed
=============================================================================
