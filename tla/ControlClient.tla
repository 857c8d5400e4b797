---------------------------- MODULE ControlClient ----------------------------
(***************************************************************************)
(* The control client of swupdate-ipc (src/src/control.rs): one caller, the *)
(* control sockets it opens one after the other, and the SWUpdate daemon at *)
(* their other end, of which only what control.rs relies on is modelled.    *)
(*                                                                         *)
(* An ipc_message has no correlation identifier: the client pairs replies   *)
(* with requests by their order on the stream and by byte counts alone.     *)
(* A stream is therefore a sequence of cells, MsgCells to a message, so     *)
(* that a write_all or a read_exact can be left half-way.  REQ_INSTALL      *)
(* turns the same stream into a raw byte pipe for the image, which carries  *)
(* its own end mark (its last cell).                                        *)
(*                                                                         *)
(* Habits says what a caller does beyond straight-line use: it may drop a   *)
(* pending future ("cancel"), drop an Installation whose image is not yet   *)
(* entirely streamed ("abandon"), or call stream() again with a reader that *)
(* is not where the last call stopped ("restream").                         *)
(***************************************************************************)
EXTENDS Naturals, Sequences

CONSTANTS
    Commands,     \* the commands this caller uses
    MsgCells,     \* cells of one ipc_message
    ImageCells,   \* cells of one update image
    SocketCells,  \* cells the socket buffer towards the daemon holds
    MaxCalls,     \* bound: method calls made
    MaxConns,     \* bound: control connections opened
    Habits        \* what the caller does beyond straight-line use

\* The methods that end in send_and_expect_ack, by message type.
AckCommands == {"REQ_INSTALL", "SET_UPDATE_STATE", "POST_UPDATE", "SET_AES_KEY",
                "SET_VERSIONS_RANGE", "SET_SWUPDATE_VARS", "SWUPDATE_SUBPROCESS",
                "SET_DELTA_URL"}

\* The methods that decode the reply themselves.
Queries == {"GET_STATUS", "GET_UPDATE_STATE", "GET_HW_REVISION", "GET_SWUPDATE_VARS"}

ASSUME ConstantsAssumption ==
    /\ Commands \subseteq AckCommands \cup Queries
    /\ MsgCells \in Nat \ {0}
    /\ ImageCells \in Nat \ {0}
    /\ SocketCells \in Nat /\ SocketCells >= MsgCells
    /\ MaxCalls \in Nat
    /\ MaxConns \in Nat \ {0}
    /\ Habits \subseteq {"cancel", "abandon", "restream"}

Calls == 1..MaxCalls
Conns == 1..MaxConns

\* What a method call returns, and what it has returned while it has not.
Results == {"Unused", "Pending", "Ok", "Rejected", "Protocol", "Connection", "Cancelled"}

\* MsgType as send_and_expect_ack tells them apart.
ReplyTypes == {"ACK", "NACK", "UNEXPECTED"}

RequestCell == [id : Calls, cmd : Commands, part : 1..MsgCells]
ImageCell   == [id : Calls, cmd : {"IMAGE"}, part : 1..ImageCells]
ReplyCell   == [to : {0} \cup Calls, type : ReplyTypes, part : 1..MsgCells]

CallRecord == [cmd : Commands \cup {"IMAGE", "none"}, result : Results,
               from : {0} \cup Calls,             \* request the reply it read answers
               type : ReplyTypes \cup {"none"},   \* type of that reply
               clean : BOOLEAN]                   \* was the stream clean at its return?

VARIABLES
    pc,        \* where the caller's task awaits
    n,         \* number of method calls made: the current call is n
    calls,     \* the calls and what they returned
    sent,      \* request cells write_all has written
    got,       \* reply cells read_exact has read
    pos,       \* cells taken from the image reader
    fwd,       \* image cells forwarded in sequence on this Installation
    handle,    \* an Installation borrows the client
    cur,       \* the connection self.stream is
    wopen,     \* its write half has not been shut down
    clean,     \* history: no habit has disturbed the current stream
    up, down,  \* the two directions of every connection
    dopen,     \* the daemon's end is open
    dmode,     \* what the daemon reads there: commands or an image
    image,     \* image cells of the last install it took (0: not from an image)
    executed   \* number of times the daemon carried a request out

client == <<pc, n, calls, sent, got, pos, fwd, handle, cur, wopen, clean>>
wire   == <<up, down>>
daemon == <<dopen, dmode, image, executed>>
vars   == <<client, wire, daemon>>

TypeOK ==
    /\ pc \in {"idle", "writing", "reading", "fetching", "forwarding",
               "connecting", "dropped"}
    /\ n \in 0..MaxCalls
    /\ calls \in [Calls -> CallRecord]
    /\ pc \in {"writing", "reading", "fetching", "forwarding"} => n \in Calls
    /\ pc \in {"writing", "reading"} => calls[n].cmd \in Commands
    /\ sent \in 0..(MsgCells - 1)
    /\ got \in Seq(ReplyCell) /\ Len(got) < MsgCells
    /\ pos \in 0..ImageCells
    /\ pc = "forwarding" => pos > 0
    /\ fwd \in 0..ImageCells
    /\ handle \in BOOLEAN /\ wopen \in BOOLEAN /\ clean \in BOOLEAN
    /\ cur \in Conns
    /\ up \in [Conns -> Seq(RequestCell \cup ImageCell)]
    /\ \A c \in Conns : Len(up[c]) <= SocketCells
    /\ down \in [Conns -> Seq(ReplyCell)]
    /\ dopen \in [Conns -> BOOLEAN]
    /\ dmode \in [Conns -> {"command", "image"}]
    /\ image \in [Conns -> Seq(0..ImageCells)]
    /\ executed \in [Calls -> Nat]

-----------------------------------------------------------------------------
(* Replies and what the methods make of them.                               *)

\* read_exact is done once it has filled the whole buffer.
ShortRead(m) == Len(m) >= 1
ReadPast(m) == Len(m) = MsgCells + 1
ReadExact(m) == Len(m) = MsgCells

\* The cells are one message, from its first cell to its last.
Whole(m) == m = [j \in 1..MsgCells |-> [m[1] EXCEPT !.part = j]]

\* ipc_message_from_bytes takes any bytes of the right length.  The type is in the
\* first cell of a message; one spliced from two others has whatever type its bytes
\* spell.
Responses(m) ==
    IF m[1].part = 1 THEN {m[1].type} ELSE ReplyTypes

AckAlways(type) == {"Ok"}
send_and_expect_ack(type) ==
    CASE type = "ACK"  -> {"Ok"}
      [] type = "NACK" -> {"Rejected"}
      [] OTHER         -> {"Protocol"}

\* No query looks at the type of the reply.  A status or an update state in it may
\* be one that the client has no name for, and bytes that were not put there as one
\* may still have a name (all zeroes read as RecoveryStatus::Idle).
get_status       == {"Ok", "Protocol"}
get_update_state == {"Ok", "Protocol"}
get_hw_revision  == {"Ok"}
get_swupdate_var == {"Ok"}

Returned(cmd, type) ==
    CASE cmd \in AckCommands         -> send_and_expect_ack(type)
      [] cmd = "GET_STATUS"          -> get_status
      [] cmd = "GET_UPDATE_STATE"    -> get_update_state
      [] cmd = "GET_HW_REVISION"     -> get_hw_revision
      [] cmd = "GET_SWUPDATE_VARS"   -> get_swupdate_var

NoReply == [to |-> 0, type |-> "none"]

Begin(cmd) ==
    /\ n < MaxCalls
    /\ n' = n + 1
    /\ calls' = [calls EXCEPT ![n + 1] =
                    [cmd |-> cmd, result |-> "Pending", from |-> 0,
                     type |-> "none", clean |-> TRUE]]

Return(result, reply) ==
    /\ calls' = [calls EXCEPT ![n].result = result, ![n].from = reply.to,
                              ![n].type = reply.type, ![n].clean = clean]
    /\ pc' = "idle" /\ sent' = 0 /\ got' = <<>>

-----------------------------------------------------------------------------
(* The client.                                                              *)

Init ==
    /\ pc = "idle" /\ n = 0
    /\ calls = [i \in Calls |-> [cmd |-> "none", result |-> "Unused", from |-> 0,
                                 type |-> "none", clean |-> TRUE]]
    /\ sent = 0 /\ got = <<>> /\ pos = 0 /\ fwd = 0
    /\ handle = FALSE /\ cur = 1 /\ wopen = TRUE /\ clean = TRUE
    /\ up = [c \in Conns |-> <<>>] /\ down = [c \in Conns |-> <<>>]
    /\ dopen = [c \in Conns |-> TRUE] /\ dmode = [c \in Conns |-> "command"]
    /\ image = [c \in Conns |-> <<>>] /\ executed = [i \in Calls |-> 0]

Writable == wopen /\ dopen[cur]

\* A write_all makes progress: the socket has room and its other end is open.
Write(cell) ==
    /\ Writable /\ Len(up[cur]) < SocketCells
    /\ up' = [up EXCEPT ![cur] = Append(@, cell)]

\* An Installation holds the &mut borrow of the client.
Unborrowed(h) == pc = "idle"
Available(h) == pc = "idle" /\ ~h

\* A method builds its message and starts to send it.
Request(cmd) ==
    /\ Available(handle)
    /\ Begin(cmd)
    /\ pc' = "writing"
    /\ UNCHANGED <<sent, got, pos, fwd, handle, cur, wopen, clean, wire, daemon>>

WriteRequest ==
    /\ pc = "writing"
    /\ Write([id |-> n, cmd |-> calls[n].cmd, part |-> sent + 1])
    /\ IF sent + 1 = MsgCells
       THEN sent' = 0 /\ pc' = "reading"
       ELSE sent' = sent + 1 /\ pc' = pc
    /\ UNCHANGED <<n, calls, got, pos, fwd, handle, cur, wopen, clean, down, daemon>>

ReadReply ==
    /\ pc = "reading" /\ down[cur] # <<>>
    /\ down' = [down EXCEPT ![cur] = Tail(@)]
    /\ LET m == Append(got, Head(down[cur])) IN
       \/ /\ ~ReadExact(m)
          /\ got' = m
          /\ UNCHANGED <<pc, calls, sent, handle, pos, fwd>>
       \/ /\ ReadExact(m)
          /\ \E type \in Responses(m) : \E result \in Returned(calls[n].cmd, type) :
                /\ Return(result, [to |-> m[1].to, type |-> type])
                /\ handle' = (calls[n].cmd = "REQ_INSTALL" /\ result = "Ok")
          /\ pos' = 0 /\ fwd' = 0
    /\ UNCHANGED <<n, cur, wopen, clean, up, daemon>>

\* EPIPE on a write, end of file in a read.
Hung == FALSE
LostWrite == pc \in {"writing", "forwarding"} /\ ~Writable
TimedOut == pc = "reading"
LostRead == pc = "reading" /\ down[cur] = <<>> /\ ~dopen[cur]

ConnectionLost ==
    /\ LostWrite \/ LostRead
    /\ Return("Connection", NoReply)
    /\ UNCHANGED <<n, pos, fwd, handle, cur, wopen, clean, wire, daemon>>

\* Installation::stream with a reader at its start or where the last one is.
stream ==
    /\ pc = "idle" /\ handle
    /\ Begin("IMAGE")
    /\ \E p \in {0, pos} :
          /\ p = fwd \/ "restream" \in Habits
          /\ pos' = p
          /\ clean' = (clean /\ p = fwd)
    /\ pc' = "fetching"
    /\ UNCHANGED <<sent, got, fwd, handle, cur, wopen, wire, daemon>>

\* Installation::stream_file when the file cannot be opened.
stream_file_unopened ==
    /\ pc = "idle" /\ handle /\ n < MaxCalls
    /\ n' = n + 1
    /\ calls' = [calls EXCEPT ![n + 1] =
                    [cmd |-> "IMAGE", result |-> "Protocol", from |-> 0,
                     type |-> "none", clean |-> clean]]
    /\ UNCHANGED <<pc, sent, got, pos, fwd, handle, cur, wopen, clean, wire, daemon>>

\* reader.read fills the buffer ...
Fetch ==
    /\ pc = "fetching" /\ pos < ImageCells
    /\ pos' = pos + 1
    /\ pc' = "forwarding"
    /\ UNCHANGED <<n, calls, sent, got, fwd, handle, cur, wopen, clean, wire, daemon>>

\* ... or ends the call: at the end of its data, which may come early, or in an
\* error, which is an io::Error as well.
FetchNone ==
    /\ pc = "fetching"
    /\ \E result \in {"Ok", "Connection"} : Return(result, NoReply)
    /\ UNCHANGED <<n, pos, fwd, handle, cur, wopen, clean, wire, daemon>>

\* The chunk just read is written to the control socket.
Forward ==
    /\ pc = "forwarding"
    /\ Write([id |-> n, cmd |-> "IMAGE", part |-> pos])
    /\ fwd' = IF pos = fwd + 1 THEN pos ELSE fwd
    /\ pc' = "fetching"
    /\ UNCHANGED <<n, calls, sent, got, pos, handle, cur, wopen, clean, down, daemon>>

\* The Installation goes out of scope: nothing is sent.
DropInstallation ==
    /\ pc = "idle" /\ handle
    /\ fwd = ImageCells \/ ~dopen[cur] \/ "abandon" \in Habits
    /\ handle' = FALSE
    /\ clean' = (clean /\ (fwd = ImageCells \/ ~dopen[cur]))
    /\ UNCHANGED <<pc, n, calls, sent, got, pos, fwd, cur, wopen, wire, daemon>>

reconnect ==
    /\ Available(handle)
    /\ wopen' = FALSE
    /\ pc' = "connecting"
    /\ UNCHANGED <<n, calls, sent, got, pos, fwd, handle, cur, clean, wire, daemon>>

\* self.stream is replaced, which closes the old one.
SameStream == cur
NextStream == cur + 1

Connected ==
    /\ pc = "connecting" /\ cur < MaxConns
    /\ cur' = NextStream
    /\ wopen' = TRUE /\ clean' = TRUE /\ pos' = 0 /\ fwd' = 0
    /\ down' = [down EXCEPT ![cur] = <<>>]
    /\ pc' = "idle"
    /\ UNCHANGED <<n, calls, sent, got, handle, up, daemon>>

\* connect_ctrl fails: self.stream is the old stream, half shut down.
Unconnected ==
    /\ pc = "connecting"
    /\ pc' = "idle"
    /\ UNCHANGED <<n, calls, sent, got, pos, fwd, handle, cur, wopen, clean, wire, daemon>>

\* A pending future is dropped: what it wrote stays written, what it read is lost.
Cancel ==
    /\ "cancel" \in Habits
    /\ pc \notin {"idle", "dropped"}
    /\ pc' = "idle" /\ sent' = 0 /\ got' = <<>>
    /\ clean' = (clean /\ pc # "reading" /\ sent = 0)
    /\ IF pc = "connecting"
       THEN UNCHANGED calls
       ELSE calls' = [calls EXCEPT ![n].result = "Cancelled", ![n].clean = clean']
    /\ UNCHANGED <<n, pos, fwd, handle, cur, wopen, wire, daemon>>

\* impl Drop for ControlClient, then the stream's own drop closes the socket.
DropClient ==
    /\ pc = "idle"
    /\ pc' = "dropped" /\ handle' = FALSE /\ wopen' = FALSE
    /\ down' = [down EXCEPT ![cur] = <<>>]
    /\ UNCHANGED <<n, calls, sent, got, pos, fwd, cur, clean, up, daemon>>

-----------------------------------------------------------------------------
(* The daemon.                                                              *)

\* The daemon can see the end of the client's stream on connection c.
Leaked(c) == c = cur /\ ~wopen
ClientDone(c) == c < cur \/ (c = cur /\ ~wopen)

\* A reply reaches the client unless the client has closed the connection.
Reply(c, to, type) ==
    down' = IF c = cur /\ pc # "dropped"
            THEN [down EXCEPT ![c] =
                    @ \o [j \in 1..MsgCells |-> [to |-> to, type |-> type, part |-> j]]]
            ELSE down

HasMessage(c) == dopen[c] /\ dmode[c] = "command" /\ Len(up[c]) >= MsgCells
Message(c) == SubSeq(up[c], 1, MsgCells)
TakeMessage(c) == up' = [up EXCEPT ![c] = SubSeq(@, MsgCells + 1, Len(@))]

\* What the client sent is a request, and not image data or a spliced message.
IsRequest(m) == Whole(m) /\ m[1].cmd # "IMAGE"

\* Queries are answered with a message type of the daemon's choice.
Accepting(cmd) == IF cmd \in Queries THEN {"ACK", "UNEXPECTED"} ELSE {"ACK"}

DaemonAccept(c) ==
    /\ HasMessage(c) /\ IsRequest(Message(c))
    /\ LET req == Message(c)[1]
           install == req.cmd = "REQ_INSTALL" IN
       /\ install => \A d \in Conns : dmode[d] = "command"
       /\ executed' = [executed EXCEPT ![req.id] = @ + 1]
       /\ dmode' = [dmode EXCEPT ![c] = IF install THEN "image" ELSE @]
       /\ image' = [image EXCEPT ![c] = IF install THEN <<>> ELSE @]
       /\ \E type \in Accepting(req.cmd) : Reply(c, req.id, type)
    /\ TakeMessage(c)
    /\ UNCHANGED <<client, dopen>>

DaemonRefuse(c) ==
    /\ HasMessage(c)
    /\ Reply(c, IF IsRequest(Message(c)) THEN Message(c)[1].id ELSE 0, "NACK")
    /\ TakeMessage(c)
    /\ UNCHANGED <<client, daemon>>

\* In an install every cell is image data; the image's last cell ends it.
DaemonTakeImage(c) ==
    /\ dopen[c] /\ dmode[c] = "image" /\ up[c] # <<>>
    /\ LET cell == Head(up[c])
           data == IF cell.cmd = "IMAGE" THEN cell.part ELSE 0 IN
       /\ image' = [image EXCEPT ![c] = Append(@, data)]
       /\ dmode' = [dmode EXCEPT ![c] = IF data = ImageCells THEN "command" ELSE @]
    /\ up' = [up EXCEPT ![c] = Tail(@)]
    /\ UNCHANGED <<client, down, dopen, executed>>

\* The daemon closes a connection: a failed install, a crash, its own policy.
Close(c) ==
    /\ dopen' = [dopen EXCEPT ![c] = FALSE]
    /\ dmode' = [dmode EXCEPT ![c] = "command"]
    /\ up' = [up EXCEPT ![c] = <<>>]
    /\ UNCHANGED <<client, down, image, executed>>

DaemonClose(c) ==
    /\ c <= cur /\ dopen[c]
    /\ Close(c)

\* The daemon reads end of file where it expects a command or more image.
DaemonHangUp(c) ==
    /\ dopen[c] /\ ClientDone(c)
    /\ IF dmode[c] = "image" THEN up[c] = <<>> ELSE Len(up[c]) < MsgCells
    /\ Close(c)

-----------------------------------------------------------------------------
ClientIO == WriteRequest \/ ReadReply \/ ConnectionLost \/ Forward

Next ==
    \/ \E cmd \in Commands : Request(cmd)
    \/ WriteRequest
    \/ ReadReply
    \/ ConnectionLost
    \/ stream
    \/ stream_file_unopened
    \/ Fetch
    \/ FetchNone
    \/ Forward
    \/ DropInstallation
    \/ reconnect
    \/ Connected
    \/ Unconnected
    \/ Cancel
    \/ DropClient
    \/ \E c \in Conns : DaemonAccept(c)
    \/ \E c \in Conns : DaemonRefuse(c)
    \/ \E c \in Conns : DaemonTakeImage(c)
    \/ \E c \in Conns : DaemonClose(c)
    \/ \E c \in Conns : DaemonHangUp(c)

Spec == Init /\ [][Next]_vars

\* The runtime polls a task whose socket is ready; the daemon reads what it has
\* been sent and notices a closed connection.  Nothing is assumed of the caller,
\* of the image reader, or of the daemon's choice between its replies.
Fairness ==
    /\ WF_vars(ClientIO)
    /\ \A c \in Conns : /\ WF_vars(DaemonAccept(c) \/ DaemonRefuse(c))
                        /\ WF_vars(DaemonTakeImage(c))
                        /\ WF_vars(DaemonHangUp(c))

FairSpec == Spec /\ Fairness

-----------------------------------------------------------------------------
(* Properties.                                                              *)

HasReturned(i) == calls[i].result \notin {"Unused", "Pending"}

\* send_and_receive pairs a request with the next whole message on the stream:
\* as long as no future was dropped half-way, that message is the answer to
\* this very request, however the two sockets' reads and writes interleave,
\* and across a reconnect.
OwnReply ==
    \A i \in Calls : calls[i].clean /\ calls[i].type # "none" => calls[i].from = i

\* What send_and_expect_ack returns is what the daemon did: after Ok the request
\* has been carried out, once; after Rejected it has not been.
AckIsTruthful ==
    \A i \in Calls :
        calls[i].clean /\ calls[i].cmd \in AckCommands =>
            /\ calls[i].result = "Ok" => executed[i] = 1
            /\ calls[i].result = "Rejected" => executed[i] = 0

\* Once send_and_receive has returned, in whatever way, or was dropped before its
\* first byte, its request has no further effect: none that was left in a socket
\* buffer before a reconnect is carried out behind the caller's back.
NoLateExecution ==
    [][\A i \in Calls : calls[i].clean /\ HasReturned(i) => executed'[i] = executed[i]]_vars

\* Installation::stream delivers the image in order and nothing else reaches the
\* installer: the &mut borrow keeps every command off the stream meanwhile.
ImageIntact ==
    clean => \A j \in DOMAIN image[cur] : image[cur][j] = j

\* The client implements ControlCalls, the promise to the callers of the methods
\* that end in send_and_expect_ack: a call is carried out at most once, and only
\* while it is pending, its result tells whether it was, and it returns.  Calls on
\* a stream that is disturbed when they are made or return are Undefined there.
Disturbed(i) == ~calls[i].clean \/ (calls[i].result = "Pending" /\ ~clean)

Status(i) ==
    CASE calls[i].cmd \notin AckCommands -> "Unused"
      [] calls[i].cmd \in AckCommands /\ Disturbed(i) -> "Undefined"
      [] OTHER -> calls[i].result

Promise == INSTANCE ControlCalls WITH
    status <- [i \in Calls |-> Status(i)],
    done <- [i \in Calls |-> IF calls[i].cmd \in AckCommands THEN executed[i] ELSE 0]

ImplementsCalls == Promise!FairSpec

\* The caller and the daemon never both wait for the other: on an undisturbed stream
\* a method that is under way can do its next write or read, or sees that the
\* connection is lost, or else the daemon has what it waits for in its socket, which
\* is the next of the image or the whole request of this call.  A socket left full,
\* a request short of a byte or a reply already consumed would hold both for ever.
\* And an installer whose client is gone has more of the image, or the end of it.
CallerCanGoOn ==
    \/ pc \in {"writing", "forwarding"} /\ Writable /\ Len(up[cur]) < SocketCells
    \/ pc = "reading" /\ down[cur] # <<>>
    \/ LostWrite \/ LostRead

DaemonCanGoOn ==
    \/ /\ dopen[cur] /\ dmode[cur] = "image"
       /\ up[cur] # <<>> /\ Head(up[cur]).cmd = "IMAGE"
    \/ HasMessage(cur) /\ IsRequest(Message(cur)) /\ Message(cur)[1].id = n

NoStandoff ==
    /\ clean /\ pc \in {"writing", "reading", "forwarding"} => CallerCanGoOn \/ DaemonCanGoOn
    /\ \A c \in Conns :
          dmode[c] = "image" /\ (c < cur \/ pc = "dropped") =>
              dopen[c] /\ (up[c] # <<>> \/ ClientDone(c))

\* A method whose stream is undisturbed returns: the daemon answers, refuses or
\* hangs up, and each of the three ends the call.
CallReturns ==
    (pc \in {"writing", "reading"} /\ clean) ~> pc \in {"idle", "dropped"}

\* An installer that waits for the rest of an image is released once the client
\* has been dropped or has replaced the stream.
InstallerReleased ==
    \A c \in Conns :
        (dmode[c] = "image" /\ (c < cur \/ pc = "dropped")) ~> dmode[c] = "command"

\* "Server rejected the request (NACK)" (error.rs:14): a method that reads a NACK
\* for its request returns Error::Rejected.
NackIsRejected ==
    \A i \in Calls : calls[i].type = "NACK" => calls[i].result = "Rejected"

\* "no other commands can be sent while the installation is in progress"
\* (control.rs:29-30): no byte of a command is taken for image data.
NoCommandInImage ==
    \A c \in Conns : \A j \in DOMAIN image[c] : image[c][j] # 0
=============================================================================
