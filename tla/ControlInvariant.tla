-------------------------- MODULE ControlInvariant --------------------------
(***************************************************************************)
(* The inductive invariant behind OwnReply and ImageIntact: what an         *)
(* undisturbed stream holds, cell by cell, at every step of a call.         *)
(***************************************************************************)
EXTENDS ControlClient

\* A reply to the current request is on its way, or partly read.
Answered == got # <<>> \/ down[cur] # <<>>

RequestPart(j) == [id |-> n, cmd |-> calls[n].cmd, part |-> j]

\* The cells of the current request that the daemon has not consumed.
Outstanding ==
    IF dopen[cur] /\ pc = "writing" THEN sent
    ELSE IF dopen[cur] /\ pc = "reading" /\ ~Answered THEN MsgCells
    ELSE 0

\* The image data in the socket: whatever the stream holds before that.
Backlog == Len(up[cur]) - Outstanding

\* The socket towards the daemon: image data in order from where the installer
\* is, then the part of the request already written.
Upstream ==
    /\ Backlog >= 0
    /\ \A j \in 1..Len(up[cur]) :
          IF j <= Backlog
          THEN up[cur][j].cmd = "IMAGE" /\ up[cur][j].part = Len(image[cur]) + j
          ELSE up[cur][j] = RequestPart(j - Backlog)

\* The socket towards the client: the rest of one reply to the current request.
Downstream ==
    IF pc = "reading" /\ Answered
    THEN /\ Len(got) + Len(down[cur]) = MsgCells
         /\ \E type \in ReplyTypes :
              /\ \A j \in 1..Len(got) :
                    got[j] = [to |-> n, type |-> type, part |-> j]
              /\ \A j \in 1..Len(down[cur]) :
                    down[cur][j] = [to |-> n, type |-> type, part |-> Len(got) + j]
              /\ dopen[cur] =>
                    (dmode[cur] = "image" <=>
                        calls[n].cmd = "REQ_INSTALL" /\ type = "ACK")
    ELSE ~Answered

\* The installer and the handle agree on how much of the image is left.
Installing ==
    /\ \A j \in DOMAIN image[cur] : image[cur][j] = j
    /\ dmode[cur] = "command" => Backlog = 0
    /\ dmode[cur] = "image" =>
          /\ dopen[cur]
          /\ Len(image[cur]) < ImageCells
          /\ Len(image[cur]) + Backlog <= ImageCells
          /\ pc # "dropped" =>
                Len(image[cur]) + Backlog =
                    IF handle THEN fwd
                    ELSE IF pc = "reading" /\ Answered THEN 0 ELSE ImageCells
    /\ handle /\ dopen[cur] /\ dmode[cur] = "command" => fwd = ImageCells

\* Where the reader of a stream() call is.
Streaming ==
    /\ pc = "fetching" => pos = fwd
    /\ pc = "forwarding" => pos = fwd + 1

\* The counters of one call are back at zero before the next begins, and only
\* the calls of an Installation run while there is one.
Between ==
    /\ pc # "writing" \/ ~wopen => sent = 0
    /\ pc # "reading" => got = <<>>
    /\ handle => pc \in {"idle", "fetching", "forwarding"}
    /\ pc = "dropped" => ~wopen
    /\ pc \in {"fetching", "forwarding"} => handle
    /\ pc \in {"writing", "reading", "fetching", "forwarding"} => calls[n].type = "none"

\* A connection not opened yet has carried nothing.
Unopened ==
    \A c \in Conns : c > cur =>
        /\ up[c] = <<>> /\ down[c] = <<>>
        /\ dopen[c] /\ dmode[c] = "command" /\ image[c] = <<>>

Closed == \A c \in Conns : ~dopen[c] => up[c] = <<>> /\ dmode[c] = "command"

Cleanly == clean => Upstream /\ Downstream /\ Installing /\ Streaming

IInv == TypeOK /\ Between /\ Unopened /\ Closed /\ Cleanly /\ OwnReply
=============================================================================
