--------------------------- MODULE ProgressClient ---------------------------
(***************************************************************************)
(* The progress client (src/src/progress.rs): one ProgressClient, the       *)
(* stream it reads, and the daemon that broadcasts progress messages, which *)
(* may stop, be upgraded and be started again meanwhile.                    *)
(*                                                                         *)
(* A stream is a sequence of 8-byte cells.  progress_connect_ack is one     *)
(* cell.  A progress message is FrameCells cells in the packed layout and   *)
(* one more in the unpacked one.  In all three the first cell is apiversion *)
(* followed by four more bytes: the ack's magic, or the message's status.   *)
(***************************************************************************)
EXTENDS Naturals, Sequences

CONSTANTS
    Versions,     \* daemons there may be: their layout, major version, and
                  \* whether they acknowledge a connection
    Statuses,     \* statuses they broadcast
    FrameCells,   \* cells of a packed progress message
    MaxEvents,    \* bound: messages broadcast
    MaxConns,     \* bound: connections attempted
    Habits        \* "cancel": the caller may drop a pending future

Layouts == {"packed", "unpacked"}

\* wire::RecoveryStatus, and a number it does not know.
AllStatuses == {"Idle", "Start", "Run", "Success", "Failure", "Download", "Done",
                "Subprocess", "Progress", "unknown"}

\* The upper half of PROGRESS_API_VERSION.
ClientMajor == 2

ASSUME ConstantsAssumption ==
    /\ Versions \subseteq [layout : Layouts, major : Nat, acks : BOOLEAN]
    /\ Versions # {}
    /\ Statuses \subseteq AllStatuses
    /\ FrameCells \in Nat \ {0, 1}
    /\ MaxEvents \in Nat
    /\ MaxConns \in Nat \ {0}
    /\ Habits \subseteq {"cancel"}

Events == {"Started", "Downloading", "Installing", "Success", "Failed", "Idle"}

AckCell   == [kind : {"ack"}, n : {0}, part : {1}]
FrameCell == [kind : {"frame"}, n : 1..MaxEvents, part : 1..(FrameCells + 1)]

LogEntry == [n : 0..MaxEvents,          \* the message returned, 0 if no one sent it
             event : Events,
             conn : 1..MaxConns,
             sound : BOOLEAN,           \* was the stream sound then?
             major : Nat]

VARIABLES
    pc,         \* where the caller's task awaits ("none": there is no client)
    doing,      \* the method it awaits there
    retried,    \* receive_or_reconnect has reconnected
    layout,     \* layout connect() detects
    got,        \* cells read_exact has read
    log,        \* history: events returned
    delivered,  \* history: the messages that those returned on a sound stream were
    conn,       \* connections made so far: the stream is the last one
    shaken,     \* history: the handshake on this stream succeeded
    aligned,    \* history: no partly read message was dropped on it
    server,     \* the daemon at the other end of the stream
    peer,       \* and what that end is doing
    wire,       \* cells on their way to the client
    installed,  \* the swupdate binary in the path
    running,    \* the daemon is running,
    version,    \* and is this one
    feed        \* history: messages broadcast

results == <<log, delivered>>
client == <<pc, doing, retried, layout, got, results, conn, shaken, aligned>>
socket == <<server, peer, wire>>
daemon == <<installed, running, version, feed>>
vars   == <<client, socket, daemon>>

TypeOK ==
    /\ pc \in {"none", "detecting", "connecting", "handshaking", "ready", "receiving"}
    /\ doing \in {"none", "connect", "receive", "receive_or_reconnect"}
    /\ retried \in BOOLEAN /\ shaken \in BOOLEAN /\ aligned \in BOOLEAN
    /\ layout \in Layouts
    /\ got \in Seq(AckCell \cup FrameCell)
    /\ Len(got) <= FrameCells
    /\ log \in Seq(LogEntry) /\ delivered \in Seq(0..MaxEvents)
    /\ conn \in 0..MaxConns
    /\ pc \in {"ready", "receiving", "handshaking"} => conn > 0
    /\ server \in Versions
    /\ peer \in {"none", "pending", "open", "closed"}
    /\ wire \in Seq(AckCell \cup FrameCell)
    /\ installed \in Versions /\ version \in Versions /\ running \in BOOLEAN
    /\ feed \in Seq(Statuses) /\ Len(feed) <= MaxEvents

-----------------------------------------------------------------------------
(* Decoding.                                                                *)

\* The two C structures.
CellsOf(l) == IF l = "packed" THEN FrameCells ELSE FrameCells + 1

Frame(n, l) == [j \in 1..CellsOf(l) |-> [kind |-> "frame", n |-> n, part |-> j]]

\* The bytes read_raw_packed or read_raw_unpacked waits for.
PackedSize(l) == FrameCells
PaddedSize(l) == CellsOf(l) + 1
ReadSize(l) == CellsOf(l)

Ack == [kind |-> "ack", n |-> 0, part |-> 1]

from_fields(status) ==
    CASE status = "Idle"     -> "Idle"
      [] status = "Start"    -> "Started"
      [] status = "Download" -> "Downloading"
      [] status \in {"Run", "Progress", "Subprocess"} -> "Installing"
      [] status \in {"Success", "Done"} -> "Success"
      [] status \in {"Failure", "unknown"} -> "Failed"

is_terminal(event) == event \in {"Success", "Failed"}

\* from_raw and from_raw_unpacked look at the status in the first cell, wherever
\* the reader took its first cell from.  An ack's magic is no known status.
FromRaw(m) ==
    CASE m[1].kind = "ack" -> {from_fields("unknown")}
      [] m[1].kind = "frame" /\ m[1].part = 1 -> {from_fields(feed[m[1].n])}
      [] m[1].kind = "frame" /\ m[1].part # 1 -> Events

\* The layout that the version of the installed binary stands for; packed if the
\* binary does not run or its output has no version.
detect_layout == {installed.layout, "packed"}

Sound == shaken /\ aligned /\ layout = server.layout

-----------------------------------------------------------------------------
(* The client.                                                              *)

Init ==
    /\ pc = "none" /\ doing = "none" /\ retried = FALSE
    /\ layout = "packed" /\ got = <<>> /\ log = <<>> /\ delivered = <<>> /\ conn = 0
    /\ shaken = FALSE /\ aligned = TRUE
    /\ installed \in Versions /\ version = installed /\ server = installed
    /\ running \in BOOLEAN /\ peer = "none" /\ wire = <<>> /\ feed = <<>>

\* A method returns, with an event or an error.
Return == got' = <<>> /\ retried' = FALSE /\ doing' = "none"

\* A method is left in error: connect() then drops its half-built client, the
\* others leave theirs to the caller as it is.
Fail ==
    /\ Return
    /\ IF doing = "connect"
       THEN pc' = "none" /\ peer' = "none" /\ wire' = <<>>
       ELSE pc' = "ready" /\ UNCHANGED <<peer, wire>>

\* connect() spawns `swupdate --version`, which is the binary installed by then ...
connect ==
    /\ pc = "none" /\ conn < MaxConns
    /\ layout' \in detect_layout
    /\ pc' = "detecting" /\ doing' = "connect"
    /\ UNCHANGED <<retried, got, results, conn, shaken, aligned, socket, daemon>>

\* ... and waits for its end, which may be long in coming.
Detected ==
    /\ pc = "detecting"
    /\ pc' = "connecting"
    /\ UNCHANGED <<doing, retried, layout, got, results, conn, shaken, aligned, socket, daemon>>

receive ==
    /\ pc = "ready"
    /\ pc' = "receiving" /\ doing' = "receive"
    /\ UNCHANGED <<retried, layout, got, results, conn, shaken, aligned, socket, daemon>>

receive_or_reconnect ==
    /\ pc = "ready"
    /\ pc' = "receiving" /\ doing' = "receive_or_reconnect"
    /\ UNCHANGED <<retried, layout, got, results, conn, shaken, aligned, socket, daemon>>

\* connect_progress succeeds: the stream is the new one from here on.
Connected ==
    /\ pc = "connecting" /\ running /\ conn < MaxConns
    /\ conn' = conn + 1 /\ shaken' = FALSE /\ aligned' = TRUE
    /\ server' = version /\ peer' = "pending" /\ wire' = <<>>
    /\ pc' = "handshaking"
    /\ UNCHANGED <<doing, retried, layout, got, results, daemon>>

\* The socket file is missing (InvalidPath), nobody listens (Connection), or
\* nobody accepts in time (Timeout).
Unconnected ==
    /\ pc = "connecting"
    /\ Fail
    /\ UNCHANGED <<layout, results, conn, shaken, aligned, server, daemon>>

AnyMajor(v) == TRUE
SameMajor(v) == v.major = ClientMajor

\* read_ack has eight bytes, with the magic and a version handshake() accepts.
Acknowledged ==
    /\ pc = "handshaking" /\ wire # <<>>
    /\ Head(wire).kind = "ack" /\ SameMajor(server)
    /\ wire' = Tail(wire)
    /\ shaken' = TRUE
    /\ \/ doing = "connect" /\ pc' = "ready" /\ Return
       \/ doing # "connect" /\ pc' = "receiving" /\ UNCHANGED <<doing, retried, got>>
    /\ UNCHANGED <<layout, results, conn, aligned, server, peer, daemon>>

\* Another magic (Protocol) or another major version (VersionMismatch).
NotAcknowledged ==
    /\ pc = "handshaking" /\ wire # <<>>
    /\ Head(wire).kind # "ack" \/ ~SameMajor(server)
    /\ Return
    /\ IF doing = "connect"
       THEN pc' = "none" /\ peer' = "none" /\ wire' = <<>>
       ELSE pc' = "ready" /\ peer' = peer /\ wire' = Tail(wire)
    /\ UNCHANGED <<layout, results, conn, shaken, aligned, server, daemon>>

Untimed == FALSE
TimesOut == pc = "handshaking"

HandshakeTimeout ==
    /\ TimesOut
    /\ Fail
    /\ UNCHANGED <<layout, results, conn, shaken, aligned, server, daemon>>

ReadFrame ==
    /\ pc = "receiving" /\ wire # <<>>
    /\ wire' = Tail(wire)
    /\ LET m == Append(got, Head(wire))
           whole == m[1].part = 1 /\ m[1].n # 0 /\ m = Frame(m[1].n, layout) IN
       \/ /\ Len(m) < ReadSize(layout)
          /\ got' = m
          /\ UNCHANGED <<pc, doing, retried, results>>
       \/ /\ Len(m) = ReadSize(layout)
          /\ LET n == IF whole THEN m[1].n ELSE 0 IN
             /\ \E event \in FromRaw(m) :
                   log' = Append(log, [n |-> n, event |-> event, conn |-> conn,
                                       sound |-> Sound, major |-> server.major])
             /\ delivered' = IF Sound THEN Append(delivered, n) ELSE delivered
          /\ pc' = "ready" /\ Return
    /\ UNCHANGED <<layout, conn, shaken, aligned, server, peer, daemon>>

Unnoticed == FALSE
HungUp == peer = "closed"
EndOfFile == peer = "closed" /\ wire = <<>>

\* The read fails: receive() returns the error, receive_or_reconnect() replaces
\* the stream, once.
ConnectionLost ==
    /\ \/ /\ pc = "handshaking" /\ EndOfFile
          /\ Fail
       \/ /\ pc = "receiving" /\ EndOfFile
          /\ doing = "receive_or_reconnect" /\ ~retried
          /\ pc' = "connecting" /\ retried' = TRUE /\ got' = <<>>
          /\ UNCHANGED <<doing, peer, wire>>
       \/ /\ pc = "receiving" /\ EndOfFile
          /\ doing = "receive" \/ retried
          /\ Fail
    /\ UNCHANGED <<layout, results, conn, shaken, aligned, server, daemon>>

\* A pending future is dropped, and with it the cells it has read.
Cancel ==
    /\ "cancel" \in Habits
    /\ pc \in {"detecting", "connecting", "handshaking", "receiving"}
    /\ Fail
    /\ aligned' = (aligned /\ got = <<>>)
    /\ UNCHANGED <<layout, results, conn, shaken, server, daemon>>

Drop ==
    /\ pc = "ready"
    /\ pc' = "none" /\ peer' = "none" /\ wire' = <<>>
    /\ UNCHANGED <<doing, retried, layout, got, results, conn, shaken, aligned, server, daemon>>

-----------------------------------------------------------------------------
(* The daemon.                                                              *)

\* It accepts the connection, and acknowledges it if it knows how to.
DaemonServe ==
    /\ peer = "pending"
    /\ peer' = "open"
    /\ wire' = IF server.acks THEN <<Ack>> ELSE <<>>
    /\ UNCHANGED <<client, server, daemon>>

DaemonBroadcast ==
    /\ running /\ Len(feed) < MaxEvents
    /\ \E status \in Statuses : feed' = Append(feed, status)
    /\ wire' = IF peer = "open"
               THEN wire \o Frame(Len(feed) + 1, server.layout) ELSE wire
    /\ UNCHANGED <<client, server, peer, installed, running, version>>

\* It gives up on this client, or stops: what it has written can still be read.
Hangup == peer' = IF peer \in {"pending", "open"} THEN "closed" ELSE peer

DaemonDisconnect ==
    /\ peer \in {"pending", "open"}
    /\ Hangup
    /\ UNCHANGED <<client, server, wire, daemon>>

DaemonStop ==
    /\ running
    /\ running' = FALSE
    /\ Hangup
    /\ UNCHANGED <<client, server, wire, installed, version, feed>>

DaemonStart ==
    /\ ~running
    /\ running' = TRUE /\ version' = installed
    /\ UNCHANGED <<client, socket, installed, feed>>

\* Another swupdate is installed, whether or not the daemon is running.
Upgrade ==
    /\ installed' \in Versions \ {installed}
    /\ UNCHANGED <<client, socket, running, version, feed>>

-----------------------------------------------------------------------------
Next ==
    \/ connect
    \/ Detected
    \/ receive
    \/ receive_or_reconnect
    \/ Connected
    \/ Unconnected
    \/ Acknowledged
    \/ NotAcknowledged
    \/ HandshakeTimeout
    \/ ReadFrame
    \/ ConnectionLost
    \/ Cancel
    \/ Drop
    \/ DaemonServe
    \/ DaemonBroadcast
    \/ DaemonDisconnect
    \/ DaemonStop
    \/ DaemonStart
    \/ Upgrade

Spec == Init /\ [][Next]_vars

\* The runtime polls a task whose socket is ready or whose timer has run out.
\* Nothing is assumed of the daemon, or of `swupdate --version`.
Fairness ==
    /\ WF_vars(Connected \/ Unconnected)
    /\ WF_vars(Acknowledged \/ NotAcknowledged \/ HandshakeTimeout)
    /\ WF_vars(ReadFrame \/ ConnectionLost)

FairSpec == Spec /\ Fairness

-----------------------------------------------------------------------------
(* Properties.                                                              *)

\* On a sound stream (its handshake succeeded, no message was left half read,
\* and connect() picked the layout the daemon uses) receive() returns what the
\* daemon broadcast, in that order, and skips nothing while the stream lasts.
SoundEvents ==
    /\ \A k \in DOMAIN log : log[k].sound =>
          log[k].n # 0 /\ log[k].event = from_fields(feed[log[k].n])
    /\ \A j, k \in DOMAIN log : j < k /\ log[j].sound /\ log[k].sound =>
          /\ log[j].n < log[k].n
          /\ log[j].conn = log[k].conn /\ k = j + 1 => log[k].n = log[j].n + 1

\* handshake() lets no daemon of another major version through: no event of one
\* is returned before some method has returned an error.
VersionsAgree ==
    \A k \in DOMAIN log : log[k].sound => log[k].major = ClientMajor

\* The sound events implement EventFeed, whatever the others are.
Feed == INSTANCE EventFeed WITH seen <- delivered

ImplementsFeed == Feed!Spec

\* receive_or_reconnect() leaves a stream only when it has returned every event
\* that had reached it.
NothingDiscarded ==
    [][conn' # conn /\ doing = "receive_or_reconnect" => wire = <<>>]_vars

\* A method waits for a message only when none is owed to it: on a sound stream that has
\* run dry it has read no part of a message, and while the daemon keeps the stream
\* open the event returned last on it is the last one broadcast.
NothingOwed ==
    pc = "receiving" /\ Sound /\ wire = <<>> =>
        /\ got = <<>>
        /\ LET latest == log[Len(log)] IN
              peer = "open" /\ log # <<>> /\ latest.conn = conn /\ latest.sound =>
                  latest.n = Len(feed)

\* connect(), once it knows the layout, and the reconnect of receive_or_reconnect()
\* end, whatever the daemon does: it may never accept, never acknowledge, or stop.
\* (`swupdate --version` is waited for without a timeout.)
HandshakeEnds ==
    pc \in {"connecting", "handshaking"} ~> pc \in {"none", "ready", "receiving"}

\* A pending receive() or receive_or_reconnect() on a sound stream returns once a
\* message has arrived, and returns or reconnects once the daemon is gone.
ReceiveEnds ==
    (pc = "receiving" /\ Sound /\ (wire # <<>> \/ peer = "closed")) ~>
        pc \in {"ready", "none", "connecting"}

\* "Whether this event indicates the update is complete" (types.rs:274): the daemon
\* has broadcast an end of the update whenever is_terminal() says so.
TerminalIsGenuine ==
    \A k \in DOMAIN log : is_terminal(log[k].event) =>
        \E n \in DOMAIN feed : is_terminal(from_fields(feed[n]))
=============================================================================
