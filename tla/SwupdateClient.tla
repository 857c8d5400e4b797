--------------------------- MODULE SwupdateClient ---------------------------
(***************************************************************************)
(* The command line client (src/src/bin/swupdate-client.rs): one process    *)
(* that runs one subcommand.  `install` uses the control socket and, with    *)
(* --progress, the progress socket beside it; `progress` only watches; each  *)
(* of the others is one call on the control socket.  The daemon installs,    *)
(* fails, stops and broadcasts at its own pace, for other clients as well.   *)
(*                                                                         *)
(* The two connections are those of ControlClient and ProgressClient, each  *)
(* of them used straight and undisturbed; here a message is atomic and only *)
(* the order of messages across the two sockets matters.                    *)
(***************************************************************************)
EXTENDS SocketConfig, Sequences

CONSTANTS
    ImageCells,    \* chunks in a complete image
    SocketCells,   \* chunks the control socket holds
    QueueLength,   \* messages the progress socket holds
    MaxOthers      \* bound: updates that other clients run

ASSUME ConstantsAssumption ==
    /\ ImageCells \in Nat \ {0}
    /\ SocketCells \in Nat \ {0}
    /\ QueueLength \in Nat \ {0}
    /\ MaxOthers \in Nat

\* Orders expect an ACK, queries take any reply for an answer.
Orders  == {"SetState", "PostUpdate", "SetAesKey", "SetVersionsRange", "SetVar",
            "Subprocess", "SetDeltaUrl"}
Queries == {"GetStatus", "GetState", "GetHwRevision", "GetVar"}

Commands == [cmd : {"Install"}, progress : BOOLEAN]
            \cup [cmd : {"Progress"}, progress : {TRUE}]
            \cup [cmd : Orders \cup Queries, progress : {FALSE}]

Errors == {"Connection", "Protocol", "Rejected", "VersionMismatch", "Timeout", "InvalidPath"}

Kinds == {"Started", "Installing", "Success", "Failed"}
is_terminal(kind) == kind \in {"Success", "Failed"}

Event == [kind : Kinds, own : BOOLEAN]   \* own: of the installation we asked for

VARIABLES
    cli,        \* the subcommand
    supply,     \* chunks the file or stdin yields before its end
    pc,         \* where run() is
    socket,     \* the socket it is resolving or connecting
    streaming,  \* the stream task: "off", "on" or "done"
    watching,   \* the progress task: "off", "on" or "done"
    sent,       \* chunks written to the control socket
    last,       \* kind of the terminal event the progress task ended on
    lastOwn,    \* and whether that event was of our installation
    exit,       \* "none", "ok", or the error main() exits with
    ctrl,       \* control connection, as the daemon keeps it
    call,       \* the request on it: "none", "asked", "refused" or "carried" out
    reply,      \* and the reply
    unread,     \* chunks it has not read
    prog,       \* progress connection, as the daemon keeps it
    queue,      \* messages on it that the client has not read
    inst,       \* our installation
    taken,      \* chunks of it the installer has read
    others      \* updates run for others

input     == <<cli, supply, situation>>
tasks     == <<streaming, watching, sent, last, lastOwn>>
client    == <<config, pc, socket, tasks, exit>>
control   == <<ctrl, call, reply, unread>>
progress_ == <<prog, queue>>
installer == <<inst, taken, others>>
vars      == <<input, client, control, progress_, installer, world>>

TypeOK ==
    /\ SocketTypeOK
    /\ cli \in Commands /\ supply \in 0..ImageCells
    /\ pc \in {"config", "find", "connect", "request", "reply", "handshake", "join", "exit"}
    /\ socket \in Sockets
    /\ streaming \in {"off", "on", "done"} /\ watching \in {"off", "on", "done"}
    /\ sent \in 0..ImageCells
    /\ last \in {"none", "Success", "Failed"} /\ lastOwn \in BOOLEAN
    /\ exit \in {"none", "ok"} \cup Errors
    /\ ctrl \in {"none", "open", "closed"}
    /\ call \in {"none", "asked", "refused", "carried"}
    /\ reply \in {"none", "ACK", "NACK"}
    /\ unread \in 0..SocketCells
    /\ prog \in {"none", "pending", "acked", "closed"}
    /\ queue \in Seq(Event) /\ Len(queue) <= QueueLength
    /\ inst \in {"none", "accepted", "reading", "installing", "success", "failure"}
    /\ taken \in 0..ImageCells
    /\ others \in 0..MaxOthers

-----------------------------------------------------------------------------
(* run(): finding the sockets, and the one call.                            *)

Init ==
    /\ SocketInit
    /\ cli \in Commands
    /\ supply \in (IF cli.cmd = "Install" THEN 0..ImageCells ELSE {0})
    /\ pc = "config" /\ socket = "ctrl" /\ exit = "none"
    /\ streaming = "off" /\ watching = "off" /\ sent = 0 /\ last = "none" /\ lastOwn = FALSE
    /\ ctrl = "none" /\ call = "none" /\ reply = "none" /\ unread = 0
    /\ prog = "none" /\ queue = <<>>
    /\ inst = "none" /\ taken = 0 /\ others = 0

\* The process ends, and its connections with it.
Exit(status) ==
    /\ exit' = status /\ pc' = "exit"
    /\ prog' = (IF prog = "none" THEN "none" ELSE "closed") /\ queue' = <<>>

Leaked == FALSE
Closed == exit # "none"

Config ==
    /\ pc = "config"
    /\ build_config(socket)
    /\ IF socket = "ctrl"
       THEN socket' = "progress" /\ UNCHANGED pc
       ELSE /\ socket' = (IF cli.cmd = "Progress" THEN "progress" ELSE "ctrl")
            /\ pc' = "find"
    /\ UNCHANGED <<input, tasks, exit, control, progress_, installer, world>>

\* connect_socket looks for the file ...
Find ==
    /\ pc = "find" /\ exists(socket)
    /\ pc' = "connect"
    /\ UNCHANGED <<input, config, socket, tasks, exit, control, progress_, installer, world>>

NotFound ==
    /\ pc = "find" /\ ~exists(socket)
    /\ Exit("InvalidPath")
    /\ UNCHANGED <<input, config, socket, tasks, control, installer, world>>

\* ... and then connects, if somebody still listens there.
Connect ==
    /\ pc = "connect" /\ Listening(socket)
    /\ IF socket = "ctrl"
       THEN ctrl' = "open" /\ pc' = "request" /\ UNCHANGED prog
       ELSE prog' = "pending" /\ pc' = "handshake" /\ UNCHANGED ctrl
    /\ UNCHANGED <<input, config, socket, tasks, exit, call, reply, unread, queue, installer,
                   world>>

\* Nobody does, or the backlog stays full.
NotConnected ==
    /\ pc = "connect"
    /\ \/ Exit("Connection")
       \/ Listening(socket) /\ Exit("Timeout")
    /\ UNCHANGED <<input, config, socket, tasks, control, installer, world>>

Request ==
    /\ pc = "request" /\ ctrl = "open"
    /\ call' = "asked" /\ pc' = "reply"
    /\ UNCHANGED <<input, config, socket, tasks, exit, ctrl, reply, unread, progress_, installer,
                   world>>

\* The daemon hung up before the request was written or answered.
CallLost ==
    /\ pc \in {"request", "reply"} /\ ctrl = "closed" /\ reply = "none"
    /\ Exit("Connection")
    /\ UNCHANGED <<input, config, socket, tasks, control, installer, world>>

\* What each method makes of the reply.
AnyReply(cmd, r) == {"ok"}
Outcomes(cmd, r) ==
    IF cmd \in Queries THEN {"ok", "Protocol"}
    ELSE IF r = "ACK" THEN {"ok"} ELSE {"Rejected"}

Returned ==
    /\ pc = "reply" /\ reply # "none"
    /\ \E outcome \in Outcomes(cli.cmd, reply) :
          /\ outcome = "ok" => cli.cmd # "Install"
          /\ Exit(outcome)
    /\ UNCHANGED <<input, config, socket, tasks, control, installer, world>>

-----------------------------------------------------------------------------
(* run(): streaming and watching.                                           *)

\* install() returns an Installation: install.progress() comes first, if it is
\* asked for, and streaming otherwise.
Accepted ==
    /\ pc = "reply" /\ reply # "none" /\ cli.cmd = "Install"
    /\ "ok" \in Outcomes(cli.cmd, reply)
    /\ IF cli.progress
       THEN pc' = "find" /\ socket' = "progress" /\ UNCHANGED <<streaming, watching>>
       ELSE pc' = "join" /\ streaming' = "on" /\ watching' = "done" /\ UNCHANGED socket
    /\ UNCHANGED <<input, config, sent, last, lastOwn, exit, control, progress_, installer, world>>

Unacknowledged == prog \in {"pending", "acked"}
Acknowledged == prog = "acked"

\* The handshake is done: try_join! polls the two tasks from now on.
Subscribed ==
    /\ pc = "handshake" /\ Acknowledged
    /\ pc' = "join" /\ watching' = "on"
    /\ streaming' = (IF cli.cmd = "Install" THEN "on" ELSE "done")
    /\ UNCHANGED <<input, config, socket, sent, last, lastOwn, exit, control, progress_, installer,
                   world>>

NotSubscribed ==
    /\ pc = "handshake"
    /\ \/ prog = "acked" /\ \E error \in {"Protocol", "VersionMismatch"} : Exit(error)
       \/ prog = "closed" /\ Exit("Connection")
       \/ Exit("Timeout")
    /\ UNCHANGED <<input, config, socket, tasks, control, installer, world>>

PastEnd == sent > supply
AtEnd == sent = supply

Forward ==
    /\ pc = "join" /\ streaming = "on"
    /\ ~AtEnd /\ ctrl = "open" /\ unread < SocketCells
    /\ sent' = sent + 1 /\ unread' = unread + 1
    /\ UNCHANGED <<input, config, pc, socket, streaming, watching, last, lastOwn, exit,
                   ctrl, call, reply, progress_, installer, world>>

EndOfInput ==
    /\ pc = "join" /\ streaming = "on" /\ AtEnd
    /\ streaming' = "done"
    /\ UNCHANGED <<input, config, pc, socket, watching, sent, last, lastOwn, exit,
                   control, progress_, installer, world>>

\* The daemon has hung up on the stream ...
StreamLost ==
    /\ pc = "join" /\ streaming = "on" /\ ~AtEnd /\ ctrl = "closed"
    /\ Exit("Connection")
    /\ UNCHANGED <<input, config, socket, tasks, control, installer, world>>

\* ... or the file cannot be opened, or reading it or stdin fails.
ReaderFailed ==
    /\ pc = "join" /\ streaming = "on"
    /\ \/ sent = 0 /\ Exit("Protocol")
       \/ Exit("Connection")
    /\ UNCHANGED <<input, config, socket, tasks, control, installer, world>>

\* The progress task is polled beside the stream task, not after it.
StreamFirst == pc = "join" /\ streaming = "done"
Joined == pc = "join"

ReceiveEvent ==
    /\ Joined /\ watching = "on" /\ queue # <<>>
    /\ queue' = Tail(queue)
    /\ IF is_terminal(Head(queue).kind)
       THEN watching' = "done" /\ last' = Head(queue).kind /\ lastOwn' = Head(queue).own
       ELSE UNCHANGED <<watching, last, lastOwn>>
    /\ UNCHANGED <<input, config, pc, socket, streaming, sent, exit, control, prog, installer,
                   world>>

WatchFailed ==
    /\ pc = "join" /\ watching = "on" /\ queue = <<>> /\ prog = "closed"
    /\ Exit("Connection")
    /\ UNCHANGED <<input, config, socket, tasks, control, installer, world>>

BothDone == streaming = "done" /\ watching = "done"

Finish ==
    /\ pc = "join" /\ BothDone
    /\ Exit("ok")
    /\ UNCHANGED <<input, config, socket, tasks, control, installer, world>>

-----------------------------------------------------------------------------
(* The daemon.                                                              *)

Busy == inst \in {"accepted", "reading", "installing"}

\* A broadcast waits for room on a subscriber's socket.
Broadcast(kind, own) ==
    IF prog = "acked"
    THEN Len(queue) < QueueLength /\ queue' = Append(queue, [kind |-> kind, own |-> own])
    ELSE UNCHANGED queue

DaemonCarryOut ==
    /\ call = "asked" /\ ctrl = "open"
    /\ call' = "carried"
    /\ inst' = (IF cli.cmd = "Install" THEN "accepted" ELSE inst)
    /\ UNCHANGED <<input, client, ctrl, reply, unread, progress_, taken, others, world>>

DaemonRefuse ==
    /\ call = "asked" /\ ctrl = "open"
    /\ call' = "refused"
    /\ UNCHANGED <<input, client, ctrl, reply, unread, progress_, installer, world>>

DaemonReply ==
    /\ call \in {"carried", "refused"} /\ reply = "none" /\ ctrl = "open"
    /\ reply' = (IF call = "carried" THEN "ACK" ELSE "NACK")
    /\ UNCHANGED <<input, client, ctrl, call, unread, progress_, installer, world>>

DaemonSubscribe ==
    /\ prog = "pending"
    /\ prog' = "acked"
    /\ UNCHANGED <<input, client, control, queue, installer, world>>

DaemonBegin ==
    /\ inst = "accepted"
    /\ inst' = "reading"
    /\ Broadcast("Started", TRUE)
    /\ UNCHANGED <<input, client, control, prog, taken, others, world>>

\* It reads a chunk and reports its progress.
DaemonRead ==
    /\ inst = "reading" /\ unread > 0
    /\ unread' = unread - 1 /\ taken' = taken + 1
    /\ inst' = (IF taken' = ImageCells THEN "installing" ELSE "reading")
    /\ Broadcast("Installing", TRUE)
    /\ UNCHANGED <<input, client, ctrl, call, reply, prog, others, world>>

DaemonSucceed ==
    /\ inst = "installing"
    /\ inst' = "success" /\ ctrl' = "closed"
    /\ Broadcast("Success", TRUE)
    /\ UNCHANGED <<input, client, call, reply, unread, prog, taken, others, world>>

\* The installation fails.
Failure ==
    /\ inst' = "failure" /\ ctrl' = "closed" /\ unread' = 0
    /\ Broadcast("Failed", TRUE)
    /\ UNCHANGED <<input, client, call, reply, prog, taken, others, world>>

DaemonFail == Busy /\ Failure

\* The installer reads the end of the stream before the end of the image.
DaemonEndOfStream == inst = "reading" /\ unread = 0 /\ Closed /\ Failure

\* Between our installations an update runs for another client.
DaemonServeOther ==
    /\ home # "none" /\ ~Busy /\ others < MaxOthers
    /\ others' = others + 1
    /\ \E kind \in {"Success", "Failed"} : Broadcast(kind, FALSE)
    /\ UNCHANGED <<input, client, control, prog, inst, taken, world>>

\* It drops the control connection while it installs nothing, or the progress
\* connection.
DaemonDropControl ==
    /\ ctrl = "open" /\ ~Busy
    /\ ctrl' = "closed"
    /\ UNCHANGED <<input, client, call, reply, unread, progress_, installer, world>>

DaemonDropProgress ==
    /\ prog \in {"pending", "acked"}
    /\ prog' = "closed"
    /\ UNCHANGED <<input, client, control, queue, installer, world>>

\* Its directory is made; it starts, and binds its sockets one by one; it stops, and
\* an installation and the connections with it.
Surroundings ==
    /\ MakeRunDir \/ Start \/ \E s \in Sockets : Bind(s)
    /\ UNCHANGED <<input, client, control, progress_, installer>>

DaemonStop ==
    /\ Stop
    /\ ctrl' = (IF ctrl = "none" THEN "none" ELSE "closed") /\ unread' = 0
    /\ prog' = (IF prog = "none" THEN "none" ELSE "closed")
    /\ inst' = (IF Busy THEN "failure" ELSE inst)
    /\ UNCHANGED <<input, client, call, reply, queue, taken, others>>

-----------------------------------------------------------------------------
Next ==
    \/ Config \/ Find \/ NotFound \/ Connect \/ NotConnected
    \/ Request \/ CallLost \/ Returned
    \/ Accepted \/ Subscribed \/ NotSubscribed
    \/ Forward \/ EndOfInput \/ StreamLost \/ ReaderFailed
    \/ ReceiveEvent \/ WatchFailed \/ Finish
    \/ DaemonCarryOut \/ DaemonRefuse \/ DaemonReply \/ DaemonSubscribe
    \/ DaemonBegin \/ DaemonRead \/ DaemonSucceed \/ DaemonFail \/ DaemonEndOfStream
    \/ DaemonServeOther \/ DaemonDropControl \/ DaemonDropProgress
    \/ Surroundings \/ DaemonStop

Spec == Init /\ [][Next]_vars

\* The runtime polls what is ready, and `swupdate --version`, which the client waits
\* for without a timeout before it looks for the progress socket, ends (a step of
\* ProgressClient).  The daemon answers what it is asked, reads what
\* it is sent, notices the end of a stream, and brings an installation that has its
\* whole image to an end.  Nothing makes it start, or acknowledge a subscription.
Fairness ==
    /\ WF_vars(Config \/ Find \/ NotFound \/ Connect \/ NotConnected)
    /\ WF_vars(Request \/ CallLost \/ Returned \/ Accepted)
    /\ WF_vars(Subscribed \/ NotSubscribed)
    /\ WF_vars(Forward \/ EndOfInput \/ StreamLost \/ Finish)
    /\ WF_vars(ReceiveEvent \/ WatchFailed)
    /\ WF_vars(DaemonCarryOut \/ DaemonRefuse)
    /\ WF_vars(DaemonReply)
    /\ WF_vars(DaemonBegin)
    /\ WF_vars(DaemonRead \/ DaemonEndOfStream)
    /\ WF_vars(DaemonSucceed \/ (inst = "installing" /\ DaemonFail))

FairSpec == Spec /\ Fairness

-----------------------------------------------------------------------------
(* Properties.                                                              *)

\* install ends well only after try_join! has seen the whole input written and, with
\* --progress, the end of this very installation.  The subscription is
\* acknowledged before the first chunk is sent, so that the event is not missed
\* and no other client's update is taken for it.
ExitMeansEnded ==
    exit = "ok" /\ cli.cmd = "Install" =>
        /\ sent = supply
        /\ cli.progress /\ supply > 0 =>
              /\ lastOwn
              /\ last = "Success" => inst = "success"
              /\ last = "Failed" => inst = "failure"

\* What the exit status of an order says of the daemon, then and later: it was
\* carried out if it ended well, and was not and will not be if it was rejected,
\* timed out or found no socket.  Only Error::Connection, which stands both for a
\* daemon that was not reached and for a reply that was lost, leaves it open.
StatusIsTrue ==
    cli.cmd \in Orders =>
        /\ exit = "ok" => call = "carried"
        /\ exit \in {"Rejected", "Timeout", "InvalidPath"} => call \notin {"asked", "carried"}

\* A client that has the environment of the daemon finds the socket of one that has
\* been listening all the while; and so does one without any, if the daemon is
\* where the init system puts it.
FindsDaemon ==
    /\ steady
    /\ \A s \in Sockets : situation.option[s] = "unset"
    /\ \/ situation.client = situation.daemon
       \/ home = "/run/swupdate" /\ \A v \in EnvVars : situation.client[v] = "unset"
    => exit # "InvalidPath"

\* The client and the daemon never wait for each other, though each may hold the other
\* up: a full control socket holds the client, and a progress socket that is not
\* read holds the daemon before it reads more of the image.  While the two tasks run
\* on a complete image (or without --progress) one of them is ready or the daemon
\* has a step; and once the client has exited the daemon has one until it has the
\* whole image or has seen the end of the stream.
ClientCanGoOn ==
    \/ BothDone
    \/ streaming = "on" /\ (AtEnd \/ ctrl = "closed" \/ unread < SocketCells)
    \/ Joined /\ watching = "on" /\ queue # <<>>
    \/ watching = "on" /\ queue = <<>> /\ prog = "closed"

DaemonCanGoOn ==
    /\ prog = "acked" => Len(queue) < QueueLength
    /\ \/ inst \in {"accepted", "installing"}
       \/ inst = "reading" /\ (unread > 0 \/ Closed)

NoStandoff ==
    /\ pc = "join" /\ cli.cmd = "Install" /\ (cli.progress => supply = ImageCells)
          => ClientCanGoOn \/ DaemonCanGoOn
    /\ exit # "none" /\ inst \in {"accepted", "reading"} => DaemonCanGoOn

\* The one call of an order or of install keeps the promise of ControlClient's
\* methods, although run() may go on for long after it, or exit at any time: it is
\* carried out at most once and only until it returns, and what run() makes of it
\* tells whether it was.
Ordered == cli.cmd \in Orders \cup {"Install"}

Status ==
    CASE ~Ordered \/ call = "none" -> "Unused"
      [] Ordered /\ call # "none" /\ pc = "reply" -> "Pending"
      [] OTHER -> IF exit = "ok" \/ (cli.cmd = "Install" /\ reply = "ACK") THEN "Ok" ELSE exit

Promise == INSTANCE ControlCalls WITH
    MaxCalls <- 1,
    status <- [i \in {1} |-> Status],
    done <- [i \in {1} |-> IF Ordered /\ call = "carried" THEN 1 ELSE 0]

ImplementsCalls == Promise!FairSpec

\* A command ends.  With --progress neither side waits for ever for the other, though
\* the daemon may wait for its messages to be read before it reads more of the
\* image.  (A truncated image and --progress do: the daemon waits for the rest of
\* the image, the client for the end of the update.  And `progress` waits for one.)
CommandEnds ==
    (cli.cmd # "Progress" /\ (cli.progress => supply = ImageCells)) ~> exit # "none"

\* An installation whose client has exited for whatever reason, the progress socket
\* not being there yet among them, does not hold the installer: it is over, or has
\* its whole image.
InstallerFreed ==
    exit # "none" ~> inst \notin {"accepted", "reading"}

\* "swupdate reboots into the new image" (README.md:39), after the try_join! that
\* run() shares with the README: once it has returned Ok, the update succeeded.
OkMeansInstalled ==
    exit = "ok" /\ cli.cmd = "Install" /\ cli.progress => last = "Success"
=============================================================================
