----------------------- MODULE ControlInvariantProofs -----------------------
(***************************************************************************)
(* IInv is inductive, for every choice of the constants: an undisturbed     *)
(* stream keeps a reply for its own request, and the image in order.        *)
(***************************************************************************)
EXTENDS ControlClientProofs

LEMMA InitIInv == Init => IInv
  <1> SUFFICES ASSUME Init PROVE IInv  OBVIOUS
  <1>1. TypeOK
    BY InitTypeOK
  <1>2. cur \in Conns /\ pc = "idle" /\ ~handle
    BY ConstantsAssumption DEF Init, Conns
  <1>3. Between /\ Unopened /\ Closed /\ OwnReply
    BY <1>2 DEF Init, Between, Unopened, Closed, OwnReply
  <1>4. up[cur] = <<>> /\ down[cur] = <<>> /\ image[cur] = <<>> /\ got = <<>>
        /\ dopen[cur] /\ dmode[cur] = "command"
    BY <1>2 DEF Init
  <1>5. Outstanding = 0 /\ Len(up[cur]) = 0 /\ Backlog = 0
    BY <1>2, <1>4 DEF Outstanding, Backlog
  <1>6. Upstream /\ Downstream /\ Installing /\ Streaming
    BY <1>2, <1>4, <1>5 DEF Upstream, Downstream, Answered, Installing, Streaming
  <1> QED
    BY <1>1, <1>3, <1>6 DEF IInv, Cleanly

\* A daemon step on another connection leaves the current stream alone.
LEMMA FrameCleanly ==
  ASSUME TypeOK, Cleanly, UNCHANGED client,
         up'[cur] = up[cur], down'[cur] = down[cur], dopen'[cur] = dopen[cur],
         dmode'[cur] = dmode[cur], image'[cur] = image[cur]
  PROVE  Cleanly'
  <1>1. Answered' <=> Answered
    BY DEF Answered, client
  <1>2. Outstanding' = Outstanding
    BY <1>1 DEF Outstanding, client
  <1>3. Backlog' = Backlog
    BY <1>2 DEF Backlog, client
  <1>4. Upstream => Upstream'
    BY <1>3 DEF Upstream, RequestPart, client
  <1>5. Downstream => Downstream'
    <2>1. UNCHANGED <<pc, n, calls, got, cur>>
      BY DEF client
    <2>2. CASE pc = "reading" /\ Answered
      BY <1>1, <2>1, <2>2 DEF Downstream
    <2>3. CASE ~(pc = "reading" /\ Answered)
      BY <1>1, <2>1, <2>3 DEF Downstream
    <2> QED
      BY <2>2, <2>3
  <1>6. Installing => Installing'
    BY <1>1, <1>3 DEF Installing, client
  <1>7. Streaming => Streaming'
    BY DEF Streaming, client
  <1> QED
    BY <1>4, <1>5, <1>6, <1>7 DEF Cleanly, client

-----------------------------------------------------------------------------
(* Structure: what holds of every stream, disturbed or not.                 *)

LEMMA NextBetween == TypeOK /\ TypeOK' /\ Between /\ [Next]_vars => Between'
  <1> SUFFICES ASSUME TypeOK, TypeOK', Between, [Next]_vars PROVE Between'
    OBVIOUS
  <1>1. ASSUME NEW cmd \in Commands, Request(cmd) PROVE Between'
    <2>1. n + 1 \in Calls
      BY <1>1 DEF Request, Begin, TypeOK, Calls
    <2>2. calls'[n'].type = "none"
      BY <1>1, <2>1 DEF Request, Begin, TypeOK
    <2> QED
      BY <1>1, <2>2 DEF Request, Available, Between
  <1>2. CASE WriteRequest
    <2>1. /\ pc = "writing" /\ wopen /\ UNCHANGED <<n, calls, got, handle, wopen>>
          /\ \/ sent' = 0 /\ pc' = "reading"
             \/ pc' = pc
      BY <1>2 DEF WriteRequest, Write, Writable
    <2> QED
      BY <2>1 DEF Between
  <1>3. CASE ReadReply
    <2>1. CASE UNCHANGED <<pc, calls, sent, handle>>
      BY <1>3, <2>1 DEF ReadReply, Between
    <2>2. CASE pc' = "idle" /\ sent' = 0 /\ got' = <<>>
      BY <1>3, <2>2 DEF ReadReply, Between
    <2>3. \/ UNCHANGED <<pc, calls, sent, handle>>
          \/ pc' = "idle" /\ sent' = 0 /\ got' = <<>>
      BY Zenon, <1>3 DEF ReadReply, Return
    <2> QED
      BY <2>1, <2>2, <2>3
  <1>4. CASE ConnectionLost
    BY <1>4 DEF ConnectionLost, LostWrite, LostRead, Return, Between
  <1>5. CASE stream
    <2>1. n + 1 \in Calls
      BY <1>5 DEF stream, Begin, TypeOK, Calls
    <2>2. calls'[n'].type = "none"
      BY <1>5, <2>1 DEF stream, Begin, TypeOK
    <2> QED
      BY <1>5, <2>2 DEF stream, Between
  <1>6. CASE stream_file_unopened
    BY <1>6 DEF stream_file_unopened, Between
  <1>7. CASE Fetch \/ FetchNone \/ Forward
    BY <1>7 DEF Fetch, FetchNone, Forward, Return, Between
  <1>8. CASE DropInstallation \/ reconnect \/ Connected \/ Unconnected \/ Cancel \/ DropClient
    BY <1>8 DEF DropInstallation, reconnect, Available, Connected, Unconnected, Cancel,
                DropClient, Between
  <1>9. ASSUME UNCHANGED client PROVE Between'
    BY SMTT(30), <1>9 DEF client, Between
  <1> QED
    BY <1>1, <1>2, <1>3, <1>4, <1>5, <1>6, <1>7, <1>8, <1>9
    DEF Next, vars, DaemonAccept, DaemonRefuse, DaemonTakeImage, DaemonClose,
        DaemonHangUp, Close

\* Only the current connection is written to; the next one is opened untouched.
LEMMA NextUnopened == TypeOK /\ Unopened /\ [Next]_vars => Unopened'
  <1> SUFFICES ASSUME TypeOK, Unopened, [Next]_vars,
                      NEW c \in Conns, c > cur'
               PROVE  /\ up'[c] = <<>> /\ down'[c] = <<>>
                      /\ dopen'[c] /\ dmode'[c] = "command" /\ image'[c] = <<>>
    BY DEF Unopened
  <1>0. cur \in Conns /\ cur \in Nat /\ c \in Nat
    BY DEF TypeOK, Conns
  <1>1. cur' = cur \/ cur' = cur + 1
    BY DEF Next, Request, WriteRequest, ReadReply, ConnectionLost, stream, stream_file_unopened,
           Fetch, FetchNone, Forward, DropInstallation, reconnect, Connected, NextStream,
           Unconnected, Cancel, DropClient, DaemonAccept, DaemonRefuse, DaemonTakeImage,
           DaemonClose, DaemonHangUp, Close, client, vars
  <1>2. c > cur /\ c # cur
    BY <1>0, <1>1
  <1>3. /\ up[c] = <<>> /\ down[c] = <<>>
        /\ dopen[c] /\ dmode[c] = "command" /\ image[c] = <<>>
    BY <1>2 DEF Unopened
  <1> DEFINE Untouched == /\ up'[c] = <<>> /\ down'[c] = <<>>
                          /\ dopen'[c] /\ dmode'[c] = "command" /\ image'[c] = <<>>
  <1> SUFFICES Untouched
    OBVIOUS
  <1>4. ASSUME UNCHANGED daemon, up'[c] = up[c], down'[c] = down[c] PROVE Untouched
    BY <1>3, <1>4 DEF daemon
  <1>5. CASE WriteRequest \/ Forward
    BY <1>0, <1>2, <1>4, <1>5 DEF WriteRequest, Forward, Write, TypeOK
  <1>6. CASE ReadReply \/ Connected \/ DropClient
    BY <1>0, <1>2, <1>4, <1>6 DEF ReadReply, Connected, DropClient, TypeOK
  <1>7. ASSUME NEW d \in Conns, UNCHANGED client,
               DaemonAccept(d) \/ DaemonRefuse(d) \/ DaemonTakeImage(d)
                 \/ DaemonClose(d) \/ DaemonHangUp(d)
        PROVE  Untouched
    <2>1. d # c
      <3>1. CASE DaemonAccept(d) \/ DaemonRefuse(d)
        BY <1>3, <3>1, ConstantsAssumption DEF DaemonAccept, DaemonRefuse, HasMessage
      <3>2. CASE DaemonTakeImage(d)
        BY <1>3, <3>2 DEF DaemonTakeImage
      <3>3. CASE DaemonClose(d) \/ DaemonHangUp(d)
        BY <1>0, <1>2, <3>3 DEF DaemonClose, DaemonHangUp, ClientDone, Conns
      <3> QED
        BY <1>7, <3>1, <3>2, <3>3
    <2>2. up'[c] = up[c] /\ dopen'[c] = dopen[c] /\ dmode'[c] = dmode[c] /\ image'[c] = image[c]
      BY ZenonT(30), <1>7, <2>1 DEF DaemonAccept, DaemonRefuse, DaemonTakeImage, DaemonClose,
                        DaemonHangUp, Close, TakeMessage, TypeOK, daemon
    <2>3. down'[c] = down[c]
      BY SMTT(30), <1>7, <2>1 DEF DaemonAccept, DaemonRefuse, DaemonTakeImage, DaemonClose,
                        DaemonHangUp, Close, Reply, TypeOK
    <2> QED
      BY <1>3, <2>2, <2>3
  <1> QED
    BY <1>4, <1>5, <1>6, <1>7
    DEF Next, Request, ConnectionLost, stream, stream_file_unopened, Fetch, FetchNone,
        DropInstallation, reconnect, Unconnected, Cancel, DaemonAccept, DaemonRefuse,
        DaemonTakeImage, DaemonClose, DaemonHangUp, Close, vars, wire, daemon

\* A closed connection holds nothing towards the daemon, and is not written to.
LEMMA NextClosed == TypeOK /\ Closed /\ [Next]_vars => Closed'
  <1> SUFFICES ASSUME TypeOK, Closed, [Next]_vars,
                      NEW c \in Conns, ~dopen'[c]
               PROVE  up'[c] = <<>> /\ dmode'[c] = "command"
    BY DEF Closed
  <1> DEFINE Empty == up'[c] = <<>> /\ dmode'[c] = "command"
  <1>1. ASSUME UNCHANGED <<up[c], dopen[c], dmode[c]>> PROVE Empty
    BY <1>1 DEF Closed
  <1>2. CASE WriteRequest \/ Forward
    <2>1. UNCHANGED daemon
      BY <1>2 DEF WriteRequest, Forward
    <2>2. c # cur
      BY <1>2, <2>1 DEF WriteRequest, Forward, Write, Writable, daemon
    <2>3. up'[c] = up[c]
      BY <1>2, <2>2 DEF WriteRequest, Forward, Write, TypeOK
    <2> QED
      BY <1>1, <2>1, <2>3 DEF daemon
  <1>3. ASSUME NEW d \in Conns,
               DaemonAccept(d) \/ DaemonRefuse(d) \/ DaemonTakeImage(d)
        PROVE  Empty
    <2>1. dopen[d] /\ UNCHANGED dopen
      BY <1>3 DEF DaemonAccept, DaemonRefuse, DaemonTakeImage, HasMessage, daemon
    <2>2. c # d
      BY <2>1
    <2>3. up'[c] = up[c] /\ dmode'[c] = dmode[c]
      BY <1>3, <2>2 DEF DaemonAccept, DaemonRefuse, DaemonTakeImage, TakeMessage, TypeOK, daemon
    <2> QED
      BY <1>1, <2>1, <2>3
  <1>4. ASSUME NEW d \in Conns, Close(d) PROVE Empty
    <2>1. CASE c = d
      BY <1>4, <2>1 DEF Close, TypeOK
    <2>2. CASE c # d
      BY <1>1, <1>4, <2>2 DEF Close, TypeOK
    <2> QED
      BY <2>1, <2>2
  <1>5. ASSUME UNCHANGED up, UNCHANGED daemon PROVE Empty
    BY <1>1, <1>5 DEF daemon
  <1> QED
    BY <1>2, <1>3, <1>4, <1>5
    DEF Next, Request, ReadReply, ConnectionLost, stream, stream_file_unopened, Fetch,
        FetchNone, DropInstallation, reconnect, Connected, Unconnected, Cancel, DropClient,
        DaemonClose, DaemonHangUp, vars, wire, daemon

-----------------------------------------------------------------------------
(* A reply that is complete on an undisturbed stream answers this request.  *)

LEMMA FullReply ==
  ASSUME TypeOK, Downstream, pc = "reading", down[cur] # <<>>,
         NEW m, m = Append(got, Head(down[cur])), ReadExact(m)
  PROVE  /\ Whole(m) /\ m[1].part = 1
         /\ m[1].to = n
         /\ Tail(down[cur]) = <<>>
         /\ dopen[cur] => (dmode[cur] = "image" <=>
                             calls[n].cmd = "REQ_INSTALL" /\ m[1].type = "ACK")
  <1>1. got \in Seq(ReplyCell) /\ down[cur] \in Seq(ReplyCell)
    BY DEF TypeOK
  <1>2. /\ Head(down[cur]) = down[cur][1] /\ Head(down[cur]) \in ReplyCell
        /\ Tail(down[cur]) \in Seq(ReplyCell)
        /\ Len(down[cur]) \in Nat \ {0} /\ Len(Tail(down[cur])) = Len(down[cur]) - 1
    BY <1>1, HeadTailProperties, LenProperties
  <1>3. /\ m \in Seq(ReplyCell) /\ Len(m) = Len(got) + 1 /\ Len(got) \in Nat
        /\ \A j \in 1..Len(got) : m[j] = got[j]
        /\ m[Len(got) + 1] = down[cur][1]
    BY <1>1, <1>2, AppendProperties, LenProperties
  <1>4. PICK type \in ReplyTypes :
          /\ \A j \in 1..Len(got) : got[j] = [to |-> n, type |-> type, part |-> j]
          /\ \A j \in 1..Len(down[cur]) :
                down[cur][j] = [to |-> n, type |-> type, part |-> Len(got) + j]
          /\ dopen[cur] =>
                (dmode[cur] = "image" <=> calls[n].cmd = "REQ_INSTALL" /\ type = "ACK")
    BY DEF Downstream, Answered
  <1>5. Len(got) + Len(down[cur]) = MsgCells /\ Len(m) = MsgCells
    BY DEF Downstream, Answered, ReadExact
  <1>6. Len(down[cur]) = 1 /\ Tail(down[cur]) = <<>>
    <2> DEFINE a == Len(got)
               b == Len(down[cur])
    <2>1. a \in Nat /\ b \in Nat /\ a + 1 = a + b
      BY <1>2, <1>3, <1>5
    <2>2. b = 1
      <3> HIDE DEF a, b
      <3> QED  BY <2>1
    <2>3. Len(Tail(down[cur])) = 0
      BY <1>2, <2>2
    <2> QED
      BY <1>2, <2>2, <2>3, EmptySeq
  <1>7. \A j \in 1..MsgCells : m[j] = [to |-> n, type |-> type, part |-> j]
    BY <1>3, <1>4, <1>5, <1>6
  <1>8. m[1] = [to |-> n, type |-> type, part |-> 1]
    BY <1>7, ConstantsAssumption
  <1>9. Whole(m)
    <2>1. \A j \in 1..MsgCells :
             [[to |-> n, type |-> type, part |-> 1] EXCEPT !.part = j]
               = [to |-> n, type |-> type, part |-> j]
      OBVIOUS
    <2>2. ASSUME NEW j \in 1..MsgCells PROVE [m[1] EXCEPT !.part = j] = m[j]
      <3>1. m[j] = [to |-> n, type |-> type, part |-> j]
        BY <1>7
      <3>2. [[to |-> n, type |-> type, part |-> 1] EXCEPT !.part = j] = m[j]
        BY <2>1, <3>1
      <3> QED
        BY <1>8, <3>2, Zenon
    <2>3. m = [j \in 1..MsgCells |-> m[j]]
      BY <1>3, <1>5
    <2> QED
      BY <2>2, <2>3 DEF Whole
  <1> QED
    BY <1>4, <1>6, <1>8, <1>9

\* What a call that returns leaves in its record.
LEMMA ReturnOwnReply ==
  ASSUME TypeOK, OwnReply, n \in Calls, NEW result, NEW reply, Return(result, reply),
         clean /\ reply.type # "none" => reply.to = n
  PROVE  OwnReply'
  <1>1. calls[n] \in CallRecord
    BY DEF TypeOK
  <1>2. calls'[n].from = reply.to /\ calls'[n].type = reply.type /\ calls'[n].clean = clean
    BY <1>1 DEF Return, TypeOK, CallRecord
  <1>3. \A i \in Calls : i # n => calls'[i] = calls[i]
    BY DEF Return, TypeOK
  <1> QED
    BY <1>2, <1>3 DEF OwnReply

LEMMA BeginOwnReply ==
  ASSUME TypeOK, OwnReply, NEW rec, rec.type = "none",
         n + 1 \in Calls, calls' = [calls EXCEPT ![n + 1] = rec]
  PROVE  OwnReply'
  BY DEF OwnReply, TypeOK

LEMMA NextOwnReply == IInv /\ [Next]_vars => OwnReply'
  <1> SUFFICES ASSUME IInv, [Next]_vars PROVE OwnReply'
    OBVIOUS
  <1>0. TypeOK /\ OwnReply /\ Between /\ Cleanly
    BY DEF IInv
  <1>1. ASSUME UNCHANGED calls PROVE OwnReply'
    BY <1>0, <1>1 DEF OwnReply
  <1>2. ASSUME NEW cmd, Begin(cmd) PROVE OwnReply'
    <2>1. n + 1 \in Calls
      BY <1>0, <1>2, ConstantsAssumption DEF Begin, TypeOK, Calls
    <2> DEFINE rec == [cmd |-> cmd, result |-> "Pending", from |-> 0,
                       type |-> "none", clean |-> TRUE]
    <2>2. calls' = [calls EXCEPT ![n + 1] = rec] /\ rec.type = "none"
      BY <1>2 DEF Begin
    <2> QED
      BY <1>0, <2>1, <2>2, BeginOwnReply
  <1>3. CASE ReadReply
    <2> DEFINE m == Append(got, Head(down[cur]))
    <2>1. CASE ~ReadExact(m)
      BY <1>1, <1>3, <2>1 DEF ReadReply
    <2>2. CASE ReadExact(m)
      <3>1. PICK type \in Responses(m) :
              \E result : Return(result, [to |-> m[1].to, type |-> type])
        BY <1>3, <2>2 DEF ReadReply
      <3>2. PICK result : Return(result, [to |-> m[1].to, type |-> type])
        BY <3>1
      <3>3. n \in Calls
        BY <1>0, <1>3 DEF ReadReply, TypeOK
      <3>4. clean => m[1].to = n
        BY <1>0, <1>3, <2>2, FullReply DEF ReadReply, Cleanly
      <3> QED
        BY <1>0, <3>2, <3>3, <3>4, ReturnOwnReply
    <2> QED
      BY <2>1, <2>2
  <1>4. CASE ConnectionLost \/ FetchNone
    <2>1. PICK result : Return(result, NoReply)
      BY <1>4 DEF ConnectionLost, FetchNone
    <2>2. n \in Calls
      BY <1>0, <1>4 DEF ConnectionLost, LostWrite, LostRead, FetchNone, TypeOK
    <2> QED
      BY <1>0, <2>1, <2>2, ReturnOwnReply DEF NoReply
  <1>5. CASE stream_file_unopened
    <2>1. n + 1 \in Calls
      BY <1>0, <1>5, ConstantsAssumption DEF stream_file_unopened, TypeOK, Calls
    <2> DEFINE rec == [cmd |-> "IMAGE", result |-> "Protocol", from |-> 0,
                       type |-> "none", clean |-> clean]
    <2>2. calls' = [calls EXCEPT ![n + 1] = rec] /\ rec.type = "none"
      BY <1>5 DEF stream_file_unopened
    <2> QED
      BY <1>0, <2>1, <2>2, BeginOwnReply
  <1>6. CASE Cancel
    <2>1. CASE pc = "connecting"
      BY <1>1, <1>6, <2>1 DEF Cancel
    <2>2. CASE pc # "connecting"
      <3>1. n \in Calls /\ calls[n].type = "none" /\ calls[n] \in CallRecord
        BY <1>0, <1>6, <2>2 DEF Cancel, TypeOK, Between
      <3>2. calls' = [calls EXCEPT ![n].result = "Cancelled", ![n].clean = clean']
        BY <1>6, <2>2 DEF Cancel
      <3>3. calls'[n].type = "none"
        BY <1>0, <3>1, <3>2 DEF TypeOK, CallRecord
      <3>4. \A i \in Calls : i # n => calls'[i] = calls[i]
        BY <1>0, <3>2 DEF TypeOK
      <3> QED
        BY <1>0, <3>3, <3>4 DEF OwnReply
    <2> QED
      BY <2>1, <2>2
  <1> QED
    BY <1>1, <1>2, <1>3, <1>4, <1>5, <1>6
    DEF Next, Request, WriteRequest, stream, Fetch, Forward, DropInstallation, reconnect,
        Connected, Unconnected, DropClient, DaemonAccept, DaemonRefuse, DaemonTakeImage,
        DaemonClose, DaemonHangUp, Close, vars, client

-----------------------------------------------------------------------------
(* Steps on an undisturbed stream.                                          *)

\* A step of the client that touches neither direction of the stream, while no
\* request is outstanding and no reply is on its way.
LEMMA QuietCleanly ==
  ASSUME TypeOK, Cleanly, clean, cur' = cur, UNCHANGED <<up, daemon>>,
         Outstanding = 0, Outstanding' = 0, ~Answered, ~Answered',
         pc # "dropped", Streaming',
         \/ handle' = handle /\ fwd' = fwd
         \/ ~handle' /\ handle /\ fwd = ImageCells /\ fwd' = fwd
         \/ ~handle' /\ dmode[cur] = "command"
         \/ ~handle' /\ pc' = "dropped"
  PROVE  Cleanly'
  <1>1. Backlog' = Backlog /\ Backlog = Len(up[cur]) /\ Len(up[cur]) \in Nat
    BY LenProperties DEF Backlog, daemon, TypeOK
  <1>2. Upstream'
    BY <1>1 DEF Cleanly, Upstream, daemon
  <1>3. Downstream'
    BY DEF Downstream
  <1>4. Installing'
    <2>1. Installing
      BY DEF Cleanly
    <2>2. dmode' = dmode /\ dopen' = dopen /\ image' = image
      BY DEF daemon
    <2>3. dmode[cur] = "image" /\ pc' # "dropped" =>
             Len(image[cur]) + Backlog = IF handle' THEN fwd' ELSE ImageCells
      BY <2>1 DEF Installing
    <2>4. handle' /\ dopen[cur] /\ dmode[cur] = "command" => fwd' = ImageCells
      BY <2>1 DEF Installing
    <2> QED
      BY <1>1, <2>1, <2>2, <2>3, <2>4 DEF Installing
  <1> QED
    BY <1>2, <1>3, <1>4 DEF Cleanly

LEMMA NextQuiet ==
  ASSUME IInv, clean',
         \/ \E cmd \in Commands : Request(cmd)
         \/ ConnectionLost \/ stream \/ stream_file_unopened \/ Fetch \/ FetchNone
         \/ DropInstallation \/ reconnect \/ Unconnected \/ Cancel \/ DropClient
  PROVE  Cleanly'
  <1>0. TypeOK /\ Between /\ Closed /\ Cleanly
    BY DEF IInv
  <1>1. clean /\ cur' = cur /\ UNCHANGED <<up, daemon>> /\ pc # "dropped"
    BY DEF Request, Available, ConnectionLost, LostWrite, LostRead, stream, stream_file_unopened,
           Fetch, FetchNone, DropInstallation, reconnect, Unconnected, Cancel, DropClient, wire
  <1>2. Upstream /\ Downstream /\ Installing /\ Streaming
    BY <1>0, <1>1 DEF Cleanly
  <1>3. pc # "reading" \/ (LostRead /\ ConnectionLost)
    BY DEF Request, Available, ConnectionLost, LostWrite, stream, stream_file_unopened,
           Fetch, FetchNone, DropInstallation, reconnect, Unconnected, Cancel, DropClient
  <1>4. ~Answered
    <2>1. CASE pc # "reading"
      BY <1>2, <2>1 DEF Downstream
    <2>2. CASE LostRead
      <3>1. got # <<>> => Len(got) + Len(down[cur]) = MsgCells
        BY <1>2, <2>2 DEF Downstream, Answered, LostRead
      <3>2. Len(down[cur]) = 0 /\ Len(got) \in Nat /\ Len(got) < MsgCells
        BY <1>0, <2>2, LenProperties DEF LostRead, TypeOK
      <3> QED
        BY <2>2, <3>1, <3>2, ConstantsAssumption DEF Answered, LostRead
    <2> QED
      BY <1>3, <2>1, <2>2
  <1>5. Outstanding = 0
    <2>1. pc = "writing" => sent = 0 \/ ~dopen[cur]
      BY <1>0 DEF Request, Available, ConnectionLost, LostWrite, LostRead, Writable, stream,
           stream_file_unopened, Fetch, FetchNone, DropInstallation, reconnect, Unconnected,
           Cancel, DropClient, Between
    <2> QED
      BY <1>3, <2>1 DEF Outstanding, LostRead
  <1>6. Answered' <=> FALSE
    <2>1. got' = <<>>
      BY <1>0, <1>4 DEF Answered, Request, ConnectionLost, stream, stream_file_unopened, Return,
           Fetch, FetchNone, DropInstallation, reconnect, Unconnected, Cancel, DropClient
    <2>2. down'[cur] = <<>>
      <3>1. down' = down \/ down' = [down EXCEPT ![cur] = <<>>]
        BY DEF Request, ConnectionLost, stream, stream_file_unopened, wire,
           Fetch, FetchNone, DropInstallation, reconnect, Unconnected, Cancel, DropClient
      <3> QED
        BY <1>0, <1>4, <3>1 DEF Answered, TypeOK
    <2> QED
      BY <1>1, <2>1, <2>2 DEF Answered
  <1>7. Outstanding' = 0
    <2>1. pc' # "reading" /\ (pc' = "writing" => sent' = 0)
      BY <1>0 DEF Request, Available, ConnectionLost, LostWrite, LostRead, stream, Return, Between,
           stream_file_unopened, Fetch, FetchNone, DropInstallation, reconnect, Unconnected,
           Cancel, DropClient
    <2> QED
      BY <2>1 DEF Outstanding
  <1>8. Streaming'
    BY <1>1, <1>2 DEF Streaming, Request, ConnectionLost, stream, Return,
       stream_file_unopened, Fetch, FetchNone, DropInstallation, reconnect, Unconnected,
       Cancel, DropClient
  <1>9. \/ handle' = handle /\ fwd' = fwd
        \/ ~handle' /\ handle /\ fwd = ImageCells /\ fwd' = fwd
        \/ ~handle' /\ dmode[cur] = "command"
        \/ ~handle' /\ pc' = "dropped"
    <2>1. CASE DropInstallation
      BY <1>0, <2>1 DEF DropInstallation, Closed, TypeOK
    <2>2. CASE DropClient
      BY <2>2 DEF DropClient
    <2> QED
      BY <2>1, <2>2 DEF Request, ConnectionLost, stream, stream_file_unopened, Fetch, FetchNone,
         reconnect, Unconnected, Cancel
  <1> QED
    BY <1>0, <1>1, <1>4, <1>5, <1>6, <1>7, <1>8, <1>9, QuietCleanly

\* A cell written to an undisturbed stream goes behind those that are there.
LEMMA WriteCell ==
  ASSUME TypeOK, NEW cell \in RequestCell \cup ImageCell, Write(cell)
  PROVE  /\ dopen[cur] /\ wopen /\ Len(up[cur]) \in Nat
         /\ Len(up'[cur]) = Len(up[cur]) + 1
         /\ \A j \in 1..Len(up[cur]) : up'[cur][j] = up[cur][j]
         /\ up'[cur][Len(up[cur]) + 1] = cell
  <1>1. cur \in Conns /\ up[cur] \in Seq(RequestCell \cup ImageCell)
    BY DEF TypeOK
  <1>2. up'[cur] = Append(up[cur], cell) /\ dopen[cur] /\ wopen
    BY <1>1 DEF Write, Writable, TypeOK
  <1> QED
    BY <1>1, <1>2, AppendProperties, LenProperties

LEMMA NextWriteRequest == ASSUME IInv, clean', WriteRequest PROVE Cleanly'
  <1>0. TypeOK /\ Between /\ Cleanly /\ clean
    BY DEF IInv, WriteRequest
  <1>1. Upstream /\ Downstream /\ Installing /\ Streaming
    BY <1>0 DEF Cleanly
  <1>2. pc = "writing" /\ sent \in Nat /\ ~Answered /\ ~Answered' /\ cur' = cur
    BY <1>0, <1>1 DEF WriteRequest, Downstream, Answered, TypeOK
  <1> DEFINE cell == [id |-> n, cmd |-> calls[n].cmd, part |-> sent + 1]
  <1>3. cell \in RequestCell /\ Write(cell)
    BY <1>0, ConstantsAssumption DEF WriteRequest, TypeOK, RequestCell
  <1>4. /\ dopen[cur] /\ Len(up[cur]) \in Nat
        /\ Len(up'[cur]) = Len(up[cur]) + 1
        /\ \A j \in 1..Len(up[cur]) : up'[cur][j] = up[cur][j]
        /\ up'[cur][Len(up[cur]) + 1] = cell
    BY <1>0, <1>3, WriteCell
  <1>5. Outstanding = sent /\ Outstanding' = sent + 1
    <2>1. Outstanding = sent
      BY <1>2, <1>4 DEF Outstanding
    <2>2. dopen'[cur']
      BY <1>2, <1>4 DEF WriteRequest, daemon
    <2>3. CASE sent + 1 = MsgCells
      <3>1. pc' = "reading"
        BY <2>3 DEF WriteRequest
      <3> QED
        BY <1>2, <2>1, <2>2, <2>3, <3>1 DEF Outstanding
    <2>4. CASE sent + 1 # MsgCells
      <3>1. pc' = "writing" /\ sent' = sent + 1
        BY <2>4 DEF WriteRequest
      <3> QED
        BY <2>1, <2>2, <3>1 DEF Outstanding
    <2> QED
      BY <2>1, <2>3, <2>4
  <1>6. Backlog' = Backlog /\ Len(up[cur]) = Backlog + sent /\ Backlog \in Nat
    BY <1>1, <1>2, <1>4, <1>5 DEF Backlog, Upstream
  <1>7. Upstream'
    <2>1. \A j \in 1..Len(up'[cur]) :
             IF j <= Backlog
             THEN up'[cur][j].cmd = "IMAGE" /\ up'[cur][j].part = Len(image[cur]) + j
             ELSE up'[cur][j] = RequestPart(j - Backlog)
      <3> SUFFICES ASSUME NEW j \in 1..Len(up'[cur])
                   PROVE  IF j <= Backlog
                          THEN up'[cur][j].cmd = "IMAGE" /\ up'[cur][j].part = Len(image[cur]) + j
                          ELSE up'[cur][j] = RequestPart(j - Backlog)
        OBVIOUS
      <3>1. CASE j \in 1..Len(up[cur])
        BY <1>1, <1>4, <3>1 DEF Upstream
      <3>2. CASE j = Len(up[cur]) + 1
        <4>1. up'[cur][j] = RequestPart(sent + 1)
          BY <1>4, <3>2 DEF RequestPart
        <4>2. j - Backlog = sent + 1 /\ ~(j <= Backlog)
          BY <1>2, <1>6, <3>2
        <4> QED
          BY <4>1, <4>2
      <3> QED
        BY <1>4, <3>1, <3>2
    <2>2. image' = image /\ n' = n /\ calls' = calls
      BY DEF WriteRequest, daemon
    <2> QED
      BY <1>2, <1>6, <2>1, <2>2 DEF Upstream, RequestPart
  <1>8. Downstream'
    BY <1>2 DEF Downstream
  <1>9. Installing'
    BY <1>1, <1>2, <1>6 DEF Installing, WriteRequest, daemon
  <1>10. Streaming'
    BY DEF Streaming, WriteRequest
  <1> QED
    BY <1>7, <1>8, <1>9, <1>10 DEF Cleanly

LEMMA NextForward == ASSUME IInv, clean', Forward PROVE Cleanly'
  <1>0. TypeOK /\ Between /\ Cleanly /\ clean /\ handle
    BY DEF IInv, Forward, Between
  <1>1. Upstream /\ Downstream /\ Installing /\ Streaming
    BY <1>0 DEF Cleanly
  <1>2. /\ pc = "forwarding" /\ pc' = "fetching" /\ pos = fwd + 1 /\ fwd \in Nat
        /\ pos \in 1..ImageCells /\ fwd' = pos /\ pos' = pos
        /\ ~Answered /\ ~Answered' /\ cur' = cur
    BY <1>0, <1>1 DEF Forward, Streaming, Downstream, Answered, TypeOK
  <1> DEFINE cell == [id |-> n, cmd |-> "IMAGE", part |-> pos]
  <1>3. cell \in RequestCell \cup ImageCell /\ Write(cell)
    BY <1>0 DEF Forward, TypeOK, ImageCell
  <1>4. /\ dopen[cur] /\ Len(up[cur]) \in Nat
        /\ Len(up'[cur]) = Len(up[cur]) + 1
        /\ \A j \in 1..Len(up[cur]) : up'[cur][j] = up[cur][j]
        /\ up'[cur][Len(up[cur]) + 1] = cell
    BY <1>0, <1>3, WriteCell
  <1>5. Backlog = Len(up[cur]) /\ Backlog' = Len(up[cur]) + 1
    BY <1>2, <1>4 DEF Backlog, Outstanding
  <1>6. dmode[cur] = "image"
    BY <1>0, <1>1, <1>2, <1>4, ConstantsAssumption DEF Installing, TypeOK
  <1>7. Len(image[cur]) + Backlog = fwd
    BY <1>0, <1>1, <1>2, <1>6 DEF Installing
  <1>8. UNCHANGED <<n, calls, handle, dopen, dmode, image>>
    BY DEF Forward, daemon
  <1>9. Len(image[cur]) + (Len(up[cur]) + 1) = pos
    <2> DEFINE a == Len(image[cur])
               b == Len(up[cur])
    <2>1. a \in Nat /\ b \in Nat /\ a + b = fwd /\ pos = fwd + 1
      BY <1>0, <1>2, <1>4, <1>5, <1>7, LenProperties DEF TypeOK
    <2>2. a + (b + 1) = pos
      <3> HIDE DEF a, b
      <3> QED  BY <2>1
    <2> QED
      BY <2>2
  <1>10. Upstream'
    <2>1. \A j \in 1..Len(up'[cur]) :
             up'[cur][j].cmd = "IMAGE" /\ up'[cur][j].part = Len(image[cur]) + j
      <3> SUFFICES ASSUME NEW j \in 1..Len(up'[cur])
                   PROVE  up'[cur][j].cmd = "IMAGE" /\ up'[cur][j].part = Len(image[cur]) + j
        OBVIOUS
      <3>1. CASE j \in 1..Len(up[cur])
        BY SMTT(30), <1>1, <1>4, <1>5, <3>1 DEF Upstream
      <3>2. CASE j = Len(up[cur]) + 1
        <4>1. up'[cur][j] = cell /\ cell.cmd = "IMAGE" /\ cell.part = pos
          BY <1>4, <3>2
        <4>2. Len(image[cur]) + j = pos
          BY <1>9, <3>2
        <4> QED
          BY <4>1, <4>2
      <3> QED
        BY <1>4, <3>1, <3>2
    <2> QED
      BY <1>2, <1>4, <1>5, <1>8, <2>1 DEF Upstream
  <1>11. Downstream'
    BY <1>2 DEF Downstream
  <1>12. Installing'
    <2>1. Len(image'[cur']) + Backlog' = fwd' /\ fwd' <= ImageCells
      <3>1. Len(image'[cur']) = Len(image[cur])
        BY <1>2, <1>8
      <3>2. Len(image'[cur']) + Backlog' = Len(image[cur]) + (Len(up[cur]) + 1)
        BY <1>5, <3>1
      <3>3. pos <= ImageCells
        BY <1>2, ConstantsAssumption
      <3> QED
        BY <1>2, <1>9, <3>2, <3>3
    <2> QED
      BY <1>0, <1>1, <1>2, <1>6, <1>8, <2>1 DEF Installing
  <1>13. Streaming'
    BY <1>2 DEF Streaming
  <1> QED
    BY <1>10, <1>11, <1>12, <1>13 DEF Cleanly

\* The replacement of a stream that was disturbed starts clean.
LEMMA NextConnected == ASSUME IInv, Connected PROVE Cleanly'
  <1>0. TypeOK /\ Between /\ Unopened
    BY DEF IInv
  <1>1. /\ cur \in Nat /\ cur' = cur + 1 /\ cur' \in Conns
        /\ pc' = "idle" /\ got' = <<>> /\ handle' = handle /\ ~handle
        /\ UNCHANGED daemon /\ up' = up
    BY <1>0, ConstantsAssumption DEF Connected, NextStream, TypeOK, Conns, Between
  <1>2. /\ up'[cur'] = <<>> /\ down'[cur'] = <<>> /\ image'[cur'] = <<>>
        /\ dopen'[cur'] /\ dmode'[cur'] = "command"
    BY <1>0, <1>1 DEF Connected, Unopened, TypeOK, daemon
  <1>3. ~Answered' /\ Outstanding' = 0 /\ Backlog' = 0
    BY <1>1, <1>2 DEF Answered, Outstanding, Backlog
  <1>4. Upstream' /\ Downstream' /\ Installing' /\ Streaming'
    BY <1>1, <1>2, <1>3 DEF Upstream, Downstream, Installing, Streaming
  <1> QED
    BY <1>4 DEF Cleanly

LEMMA NextReadPart ==
  ASSUME IInv, clean', ReadReply, ~ReadExact(Append(got, Head(down[cur])))
  PROVE  Cleanly'
  <1> DEFINE m == Append(got, Head(down[cur]))
             d == down[cur]
  <1>0. TypeOK /\ Cleanly /\ clean /\ cur \in Conns
    BY DEF IInv, ReadReply, TypeOK
  <1>1. Upstream /\ Downstream /\ Installing
    BY <1>0 DEF Cleanly
  <1>2. /\ pc = "reading" /\ d # <<>> /\ got' = m /\ down'[cur] = Tail(d)
        /\ UNCHANGED <<pc, n, calls, sent, handle, pos, fwd, cur, up, daemon>>
    BY <1>0 DEF ReadReply, TypeOK
  <1>3. got \in Seq(ReplyCell) /\ d \in Seq(ReplyCell)
    BY <1>0 DEF TypeOK
  <1>4. /\ Head(d) = d[1] /\ Head(d) \in ReplyCell
        /\ Len(d) \in Nat \ {0} /\ Len(Tail(d)) = Len(d) - 1
        /\ \A j \in 1..Len(Tail(d)) : Tail(d)[j] = d[j + 1]
    BY <1>2, <1>3, HeadTailProperties, LenProperties
  <1>5. /\ Len(m) = Len(got) + 1 /\ Len(got) \in Nat
        /\ \A j \in 1..Len(got) : m[j] = got[j]
        /\ m[Len(got) + 1] = d[1]
        /\ m # <<>>
    BY <1>3, <1>4, AppendProperties, LenProperties
  <1>6. Answered /\ Answered'
    BY <1>2, <1>5 DEF Answered
  <1>7. PICK type \in ReplyTypes :
          /\ \A j \in 1..Len(got) : got[j] = [to |-> n, type |-> type, part |-> j]
          /\ \A j \in 1..Len(d) : d[j] = [to |-> n, type |-> type, part |-> Len(got) + j]
          /\ dopen[cur] =>
                (dmode[cur] = "image" <=> calls[n].cmd = "REQ_INSTALL" /\ type = "ACK")
    BY <1>1, <1>2, <1>6 DEF Downstream
  <1>8. Len(m) + Len(Tail(d)) = MsgCells
    <2>1. Len(got) + Len(d) = MsgCells
      BY <1>1, <1>2, <1>6 DEF Downstream
    <2> DEFINE a == Len(got)
               b == Len(d)
               a1 == Len(m)
               b1 == Len(Tail(d))
    <2>2. a \in Nat /\ b \in Nat /\ a1 = a + 1 /\ b1 = b - 1
      BY <1>4, <1>5
    <2>3. a1 + b1 = a + b
      <3> HIDE DEF a, b, a1, b1
      <3> QED  BY <2>2
    <2> QED
      BY <2>1, <2>3
  <1>9. \A j \in 1..Len(m) : m[j] = [to |-> n, type |-> type, part |-> j]
    <2> SUFFICES ASSUME NEW j \in 1..Len(m)
                 PROVE  m[j] = [to |-> n, type |-> type, part |-> j]
      OBVIOUS
    <2>1. CASE j \in 1..Len(got)
      BY <1>5, <1>7, <2>1
    <2>2. CASE j = Len(got) + 1
      BY <1>4, <1>5, <1>7, <2>2
    <2> QED
      BY <1>5, <2>1, <2>2
  <1>10. \A j \in 1..Len(Tail(d)) : Tail(d)[j] = [to |-> n, type |-> type, part |-> Len(m) + j]
    <2> SUFFICES ASSUME NEW j \in 1..Len(Tail(d))
                 PROVE  Tail(d)[j] = [to |-> n, type |-> type, part |-> Len(m) + j]
      OBVIOUS
    <2>1. j + 1 \in 1..Len(d) /\ Tail(d)[j] = d[j + 1] /\ Len(got) + (j + 1) = Len(m) + j
      BY SMTT(30), <1>4, <1>5
    <2> QED
      BY <1>7, <2>1
  <1>11. Downstream'
    <2>1. got' = m /\ down'[cur'] = Tail(d) /\ pc' = "reading" /\ n' = n /\ calls' = calls
          /\ dopen'[cur'] = dopen[cur] /\ dmode'[cur'] = dmode[cur]
      BY <1>2 DEF daemon
    <2> HIDE DEF m, d
    <2>2. Len(got') + Len(down'[cur']) = MsgCells
      BY <1>8, <2>1
    <2>3. /\ \A j \in 1..Len(got') : got'[j] = [to |-> n', type |-> type, part |-> j]
          /\ \A j \in 1..Len(down'[cur']) :
                down'[cur'][j] = [to |-> n', type |-> type, part |-> Len(got') + j]
          /\ dopen'[cur'] =>
                (dmode'[cur'] = "image" <=> calls'[n'].cmd = "REQ_INSTALL" /\ type = "ACK")
      BY <1>7, <1>9, <1>10, <2>1
    <2> QED
      BY <1>6, <2>1, <2>2, <2>3 DEF Downstream
  <1>12. Outstanding = 0 /\ Outstanding' = 0
    BY <1>2, <1>6 DEF Outstanding
  <1>13. Upstream' /\ Backlog' = Backlog
    <2>1. Backlog' = Backlog /\ Backlog = Len(up[cur]) /\ Len(up[cur]) \in Nat
      BY <1>0, <1>2, <1>12, LenProperties DEF Backlog, TypeOK
    <2> QED
      BY <1>1, <1>2, <2>1 DEF Upstream, daemon
  <1>14. Installing'
    BY <1>1, <1>2, <1>6, <1>13 DEF Installing, daemon
  <1>15. Streaming'
    BY <1>2 DEF Streaming
  <1> QED
    BY <1>11, <1>13, <1>14, <1>15 DEF Cleanly

LEMMA NextReadWhole ==
  ASSUME IInv, clean', ReadReply, ReadExact(Append(got, Head(down[cur])))
  PROVE  Cleanly'
  <1> DEFINE m == Append(got, Head(down[cur]))
  <1>0. TypeOK /\ Between /\ Closed /\ Cleanly /\ clean /\ cur \in Conns
    BY DEF IInv, ReadReply, TypeOK
  <1>1. Upstream /\ Downstream /\ Installing
    BY <1>0 DEF Cleanly
  <1>1a. PICK type \in Responses(m) : \E result \in Returned(calls[n].cmd, type) :
          /\ Return(result, [to |-> m[1].to, type |-> type])
          /\ handle' = (calls[n].cmd = "REQ_INSTALL" /\ result = "Ok")
    BY DEF ReadReply
  <1>2. PICK result \in Returned(calls[n].cmd, type) :
          /\ Return(result, [to |-> m[1].to, type |-> type])
          /\ handle' = (calls[n].cmd = "REQ_INSTALL" /\ result = "Ok")
    BY <1>1a
  <1>3. /\ pc = "reading" /\ down[cur] # <<>> /\ down'[cur] = Tail(down[cur])
        /\ pos' = 0 /\ fwd' = 0 /\ UNCHANGED <<n, cur, up, daemon>>
    BY <1>0 DEF ReadReply, TypeOK
  <1>4. /\ m[1].part = 1 /\ Tail(down[cur]) = <<>>
        /\ dopen[cur] => (dmode[cur] = "image" <=>
                             calls[n].cmd = "REQ_INSTALL" /\ m[1].type = "ACK")
    BY <1>0, <1>1, <1>3, FullReply
  <1>5. handle' <=> calls[n].cmd = "REQ_INSTALL" /\ m[1].type = "ACK"
    <2>1. type = m[1].type
      BY <1>4 DEF Responses
    <2>2. CASE calls[n].cmd = "REQ_INSTALL"
      <3>1. result \in send_and_expect_ack(type)
        BY <1>2, <2>2 DEF Returned, AckCommands
      <3>2. result = "Ok" <=> type = "ACK"
        BY <3>1 DEF send_and_expect_ack
      <3> QED
        BY <1>2, <2>1, <2>2, <3>2
    <2>3. CASE calls[n].cmd # "REQ_INSTALL"
      BY <1>2, <2>3
    <2> QED
      BY <2>2, <2>3
  <1>6. pc' = "idle" /\ got' = <<>> /\ down'[cur'] = <<>> /\ ~Answered'
    BY <1>2, <1>3, <1>4 DEF Return, Answered
  <1>7. Answered /\ Outstanding = 0 /\ Outstanding' = 0
    BY <1>3, <1>6 DEF Answered, Outstanding
  <1>8. Backlog' = Backlog /\ Backlog = Len(up[cur]) /\ Len(up[cur]) \in Nat
    BY <1>0, <1>3, <1>7, LenProperties DEF Backlog, TypeOK
  <1>9. Upstream'
    BY <1>1, <1>3, <1>8 DEF Upstream, daemon
  <1>10. Downstream'
    BY <1>6 DEF Downstream
  <1>11. Installing'
    <2>1. ~handle
      BY <1>0, <1>3 DEF Between
    <2>2. dmode[cur] = "image" => Len(image[cur]) + Backlog = 0 /\ handle'
      BY <1>1, <1>3, <1>4, <1>5, <1>7, <2>1 DEF Installing
    <2>3. handle' /\ dopen[cur] => dmode[cur] = "image"
      BY <1>4, <1>5
    <2> QED
      BY <1>1, <1>3, <1>8, <2>2, <2>3 DEF Installing, daemon
  <1>12. Streaming'
    BY <1>6 DEF Streaming
  <1> QED
    BY <1>9, <1>10, <1>11, <1>12 DEF Cleanly

\* A whole message on an undisturbed stream is the request of the call that
\* waits for its reply, and there is nothing behind it.
LEMMA CurrentRequest ==
  ASSUME IInv, clean, HasMessage(cur)
  PROVE  /\ pc = "reading" /\ ~Answered /\ dopen[cur] /\ dmode[cur] = "command"
         /\ Message(cur)[1] = RequestPart(1) /\ IsRequest(Message(cur))
         /\ SubSeq(up[cur], MsgCells + 1, Len(up[cur])) = <<>>
  <1> DEFINE u == up[cur]
             m == Message(cur)
  <1>0. TypeOK /\ Upstream /\ Downstream /\ Installing
    BY DEF IInv, Cleanly
  <1>1. u \in Seq(RequestCell \cup ImageCell) /\ Len(u) \in Nat
    BY <1>0, LenProperties DEF TypeOK
  <1>2. dopen[cur] /\ dmode[cur] = "command" /\ Len(u) >= MsgCells
    BY DEF HasMessage
  <1>3. Backlog = 0
    BY <1>0, <1>2 DEF Installing
  <1>4. Len(u) = Outstanding
    <2>1. Outstanding \in Nat
      BY <1>0, ConstantsAssumption DEF Outstanding, TypeOK
    <2> QED
      BY <1>1, <1>3, <2>1 DEF Backlog
  <1>5. pc = "reading" /\ ~Answered /\ Len(u) = MsgCells
    BY <1>0, <1>2, <1>4, ConstantsAssumption DEF Outstanding, TypeOK
  <1>6. \A j \in 1..MsgCells : u[j] = RequestPart(j)
    <2> SUFFICES ASSUME NEW j \in 1..MsgCells PROVE u[j] = RequestPart(j)
      OBVIOUS
    <2>1. u[j] = RequestPart(j - Backlog)
      BY <1>0, <1>3, <1>5, ConstantsAssumption DEF Upstream
    <2>2. j - Backlog = j
      BY <1>3
    <2> QED
      BY <2>1, <2>2
  <1>7. m = [j \in 1..MsgCells |-> u[j]]
    <2>1. \A j \in 1..MsgCells : u[j] \in RequestCell \cup ImageCell
      BY <1>1, <1>5, ElementOfSeq
    <2>2. /\ m \in Seq(RequestCell \cup ImageCell) /\ Len(m) = MsgCells
          /\ \A j \in 1..MsgCells : m[j] = u[j]
      <3>1. 1 \in Int /\ MsgCells \in Int /\ 1 <= MsgCells /\ MsgCells - 1 + 1 = MsgCells
            /\ \A j \in Int : 1 + j - 1 = j
        BY ConstantsAssumption
      <3>2. /\ SubSeq(u, 1, MsgCells) \in Seq(RequestCell \cup ImageCell)
            /\ Len(SubSeq(u, 1, MsgCells)) = MsgCells
            /\ \A j \in 1..MsgCells : SubSeq(u, 1, MsgCells)[j] = u[j]
        BY <1>1, <2>1, <3>1, SubSeqProperties
      <3> QED
        BY <3>2 DEF Message
    <2>3. m = [j \in 1..MsgCells |-> m[j]]
      BY <2>2
    <2> QED
      BY <2>2, <2>3
  <1>8. /\ m[1] = RequestPart(1)
        /\ \A j \in 1..MsgCells : m[j] = RequestPart(j)
    BY <1>6, <1>7, ConstantsAssumption
  <1>9. Whole(m)
    <2>1. \A j \in 1..MsgCells : [RequestPart(1) EXCEPT !.part = j] = RequestPart(j)
      BY DEF RequestPart
    <2>2. m = [j \in 1..MsgCells |-> RequestPart(j)]
      BY <1>6, <1>7
    <2> QED
      BY <1>8, <2>1, <2>2 DEF Whole
  <1>10. m[1].cmd # "IMAGE"
    BY <1>0, <1>5, <1>8, ConstantsAssumption DEF RequestPart, TypeOK, AckCommands, Queries
  <1>11. SubSeq(u, MsgCells + 1, Len(u)) = <<>>
    <2>1. MsgCells + 1 > MsgCells
      BY ConstantsAssumption
    <2> QED
      BY <1>5, <2>1, ConstantsAssumption
  <1> QED
    BY <1>2, <1>5, <1>8, <1>9, <1>10, <1>11 DEF IsRequest

\* The reply to it, and nothing else, is then on its way.
LEMMA AnswerCleanly ==
  ASSUME IInv, clean', HasMessage(cur), TakeMessage(cur), UNCHANGED <<client, dopen>>,
         NEW type \in ReplyTypes, Reply(cur, n, type),
         IF calls[n].cmd = "REQ_INSTALL" /\ type = "ACK"
         THEN dmode'[cur] = "image" /\ image'[cur] = <<>>
         ELSE dmode'[cur] = dmode[cur] /\ image'[cur] = image[cur]
  PROVE  Cleanly'
  <1> DEFINE msg == [j \in 1..MsgCells |-> [to |-> n, type |-> type, part |-> j]]
  <1>0. TypeOK /\ Between /\ Cleanly /\ clean /\ cur \in Conns
    BY DEF IInv, TypeOK, client
  <1>1. Upstream /\ Downstream /\ Installing /\ Streaming
    BY <1>0 DEF Cleanly
  <1>2. /\ pc = "reading" /\ ~Answered /\ dopen[cur] /\ dmode[cur] = "command"
        /\ up'[cur] = <<>>
    BY <1>0, CurrentRequest DEF TakeMessage, TypeOK
  <1>3. UNCHANGED <<pc, n, calls, got, handle, fwd, pos, cur, dopen>>
    BY DEF client
  <1>4. got = <<>> /\ down[cur] = <<>>
    BY <1>2 DEF Answered
  <1>5. down'[cur] = msg
    <2>1. down'[cur] = <<>> \o msg
      BY <1>0, <1>2, <1>4 DEF Reply, TypeOK
    <2>2. msg \in Seq(ReplyCell)
      <3>1. n \in Calls
        BY <1>0, <1>2 DEF TypeOK
      <3> QED
        BY <3>1, ConstantsAssumption DEF ReplyCell
    <2> QED
      BY <2>1, <2>2, ConcatEmptySeq
  <1>6. Len(msg) = MsgCells /\ \A j \in 1..MsgCells : msg[j] = [to |-> n, type |-> type, part |-> j]
    BY ConstantsAssumption
  <1>7. down'[cur'] # <<>> /\ Answered'
    <2>1. Len(down'[cur']) # 0
      BY <1>3, <1>5, <1>6, ConstantsAssumption
    <2> QED
      BY <2>1 DEF Answered
  <1>8. Outstanding' = 0 /\ Backlog' = 0 /\ Len(up'[cur']) = 0
    BY <1>2, <1>3, <1>7 DEF Outstanding, Backlog
  <1>9. Upstream'
    BY <1>8 DEF Upstream
  <1>10. Downstream'
    <2>1. Len(got') = 0 /\ Len(down'[cur']) = MsgCells
      BY <1>3, <1>4, <1>5, <1>6
    <2>2. \A j \in 1..MsgCells :
             down'[cur'][j] = [to |-> n', type |-> type, part |-> Len(got') + j]
      BY <1>3, <1>5, <2>1
    <2>3. dmode'[cur'] = "image" <=> calls'[n'].cmd = "REQ_INSTALL" /\ type = "ACK"
      BY <1>2, <1>3
    <2> QED
      BY <1>2, <1>3, <1>7, <2>1, <2>2, <2>3, ConstantsAssumption DEF Downstream
  <1>11. Installing'
    <2>1. ~handle
      BY <1>0, <1>2 DEF Between
    <2>2. dmode'[cur'] = "image" => image'[cur'] = <<>>
      BY <1>2, <1>3
    <2>3. image'[cur'] = <<>> \/ image'[cur'] = image[cur]
      BY <1>3
    <2> QED
      BY <1>1, <1>2, <1>3, <1>7, <1>8, <2>1, <2>2, <2>3, ConstantsAssumption DEF Installing
  <1>12. Streaming'
    BY <1>1, <1>3 DEF Streaming
  <1> QED
    BY <1>9, <1>10, <1>11, <1>12 DEF Cleanly

LEMMA NextAnswer ==
  ASSUME IInv, clean', DaemonAccept(cur) \/ DaemonRefuse(cur)
  PROVE  Cleanly'
  <1>0. TypeOK /\ clean /\ cur \in Conns /\ HasMessage(cur) /\ UNCHANGED client
    BY DEF IInv, DaemonAccept, DaemonRefuse, TypeOK, client
  <1>1. /\ pc = "reading" /\ dmode[cur] = "command"
        /\ IsRequest(Message(cur)) /\ Message(cur)[1] = RequestPart(1)
    BY <1>0, CurrentRequest
  <1>2. Message(cur)[1].id = n /\ Message(cur)[1].cmd = calls[n].cmd
    BY <1>1 DEF RequestPart
  <1>3. CASE DaemonAccept(cur)
    <2>1. PICK type \in Accepting(calls[n].cmd) : Reply(cur, n, type)
      BY <1>2, <1>3 DEF DaemonAccept
    <2>2. type \in ReplyTypes /\ (calls[n].cmd = "REQ_INSTALL" => type = "ACK")
      BY DEF Accepting, ReplyTypes, Queries
    <2>3. IF calls[n].cmd = "REQ_INSTALL" /\ type = "ACK"
          THEN dmode'[cur] = "image" /\ image'[cur] = <<>>
          ELSE dmode'[cur] = dmode[cur] /\ image'[cur] = image[cur]
      BY <1>0, <1>2, <1>3, <2>2 DEF DaemonAccept, TypeOK
    <2> QED
      BY <1>0, <1>3, <2>1, <2>2, <2>3, AnswerCleanly DEF DaemonAccept
  <1>4. CASE DaemonRefuse(cur)
    <2>1. Reply(cur, n, "NACK") /\ "NACK" \in ReplyTypes
      BY <1>1, <1>2, <1>4 DEF DaemonRefuse, ReplyTypes
    <2> QED
      BY <1>0, <1>4, <2>1, AnswerCleanly DEF DaemonRefuse, daemon
  <1> QED
    BY <1>3, <1>4

LEMMA NextTakeImage == ASSUME IInv, clean', DaemonTakeImage(cur) PROVE Cleanly'
  <1> DEFINE u == up[cur]
             im == image[cur]
             data == IF Head(u).cmd = "IMAGE" THEN Head(u).part ELSE 0
  <1>0. TypeOK /\ Between /\ Cleanly /\ clean /\ cur \in Conns
    BY DEF IInv, TypeOK, DaemonTakeImage, client
  <1>1. Upstream /\ Downstream /\ Installing /\ Streaming
    BY <1>0 DEF Cleanly
  <1>2. /\ dopen[cur] /\ dmode[cur] = "image" /\ u # <<>>
        /\ up'[cur] = Tail(u) /\ image'[cur] = Append(im, data)
        /\ dmode'[cur] = IF data = ImageCells THEN "command" ELSE "image"
        /\ UNCHANGED <<pc, n, calls, sent, got, handle, fwd, pos, cur, down, dopen>>
    BY <1>0 DEF DaemonTakeImage, TypeOK, client
  <1>3. u \in Seq(RequestCell \cup ImageCell) /\ im \in Seq(0..ImageCells)
    BY <1>0 DEF TypeOK
  <1>4. /\ Head(u) = u[1] /\ Len(u) \in Nat \ {0} /\ Len(Tail(u)) = Len(u) - 1
        /\ \A j \in 1..Len(Tail(u)) : Tail(u)[j] = u[j + 1]
    BY <1>2, <1>3, HeadTailProperties, LenProperties
  <1>5. /\ Len(im) < ImageCells /\ Len(im) + Backlog <= ImageCells
        /\ pc # "dropped" =>
              Len(im) + Backlog = IF handle THEN fwd
                                  ELSE IF pc = "reading" /\ Answered THEN 0 ELSE ImageCells
        /\ Len(im) \in Nat /\ Backlog \in Nat
    <2>1. Outstanding \in Int
      BY <1>0, ConstantsAssumption DEF Outstanding, TypeOK
    <2>2. Backlog \in Nat
      BY <1>1, <1>4, <2>1 DEF Upstream, Backlog
    <2> QED
      BY <1>1, <1>2, <1>3, <2>2, LenProperties DEF Installing
  <1>6. Outstanding' = Outstanding /\ (Answered' <=> Answered)
    BY <1>2 DEF Outstanding, Answered
  <1>7. Len(u) = Backlog + Outstanding /\ Outstanding \in Nat
    BY <1>0, <1>4, ConstantsAssumption DEF Backlog, Outstanding, TypeOK
  <1>8. Backlog > 0
    <2>1. CASE Outstanding = 0
      BY <1>4, <1>5, <1>7, <2>1
    <2>2. CASE Outstanding # 0
      <3>1. pc \in {"writing", "reading"} /\ (pc = "reading" => ~Answered) /\ ~handle
        BY <1>0, <2>2 DEF Outstanding, Between
      <3> QED
        BY <1>5, <3>1, ConstantsAssumption
    <2> QED
      BY <2>1, <2>2
  <1>9. Backlog' = Backlog - 1
    <2>1. Backlog' = Len(Tail(u)) - Outstanding
      BY <1>2, <1>6 DEF Backlog
    <2>2. Backlog = Len(u) - Outstanding
      BY DEF Backlog
    <2> QED
      BY <1>4, <1>7, <2>1, <2>2
  <1>10. data = Len(im) + 1
    BY <1>1, <1>4, <1>5, <1>8 DEF Upstream
  <1>11. /\ Len(image'[cur]) = Len(im) + 1
         /\ \A j \in 1..Len(im) : image'[cur][j] = im[j]
         /\ image'[cur][Len(im) + 1] = Len(im) + 1
    <2>1. data \in 0..ImageCells
      BY <1>5, <1>10, ConstantsAssumption
    <2> QED
      BY <1>2, <1>3, <1>10, <2>1, AppendProperties
  <1>12. Upstream'
    <2>1. \A j \in 1..Len(Tail(u)) :
             IF j <= Backlog - 1
             THEN Tail(u)[j].cmd = "IMAGE" /\ Tail(u)[j].part = (Len(im) + 1) + j
             ELSE Tail(u)[j] = RequestPart(j - (Backlog - 1))
      <3> SUFFICES ASSUME NEW j \in 1..Len(Tail(u))
                   PROVE  IF j <= Backlog - 1
                          THEN Tail(u)[j].cmd = "IMAGE" /\ Tail(u)[j].part = (Len(im) + 1) + j
                          ELSE Tail(u)[j] = RequestPart(j - (Backlog - 1))
        OBVIOUS
      <3>1. /\ j + 1 \in 1..Len(u) /\ Tail(u)[j] = u[j + 1] /\ j \in Nat
            /\ (j <= Backlog - 1 <=> j + 1 <= Backlog)
            /\ Len(im) + (j + 1) = (Len(im) + 1) + j
            /\ (j + 1) - Backlog = j - (Backlog - 1)
        <4> DEFINE a == Len(im)
        <4>1. j + 1 \in 1..Len(u) /\ Tail(u)[j] = u[j + 1] /\ j \in Nat
          BY <1>4
        <4>2. a \in Nat /\ Backlog \in Nat
          BY <1>5
        <4>3. /\ (j <= Backlog - 1 <=> j + 1 <= Backlog)
              /\ a + (j + 1) = (a + 1) + j
              /\ (j + 1) - Backlog = j - (Backlog - 1)
          <5> HIDE DEF a
          <5> QED  BY <4>1, <4>2
        <4> QED
          BY <4>1, <4>3
      <3>2. IF j + 1 <= Backlog
            THEN u[j + 1].cmd = "IMAGE" /\ u[j + 1].part = Len(im) + (j + 1)
            ELSE u[j + 1] = RequestPart((j + 1) - Backlog)
        BY <1>1, <3>1 DEF Upstream
      <3> QED
        BY <3>1, <3>2
    <2>2. Backlog' >= 0
      BY <1>5, <1>8, <1>9
    <2>3. n' = n /\ calls' = calls /\ up'[cur'] = Tail(u) /\ Len(image'[cur']) = Len(im) + 1
      BY <1>2, <1>11
    <2> QED
      BY <1>9, <2>1, <2>2, <2>3 DEF Upstream, RequestPart
  <1>13. Downstream'
    <2>1. ~(pc = "reading" /\ Answered)
      <3>1. CASE pc = "reading" /\ Answered
        BY <1>0, <1>5, <1>8, <3>1 DEF Between
      <3> QED
        BY <3>1
    <2> QED
      BY <1>1, <1>2, <1>6, <2>1 DEF Downstream
  <1>14. Installing'
    <2>1. cur' = cur /\ pc' = pc /\ handle' = handle /\ fwd' = fwd /\ dopen' = dopen
      BY <1>2
    <2>2. \A j \in DOMAIN image'[cur] : image'[cur][j] = j
      <3>1. image'[cur] \in Seq(0..ImageCells) /\ DOMAIN image'[cur] = 1..(Len(im) + 1)
        <4>1. data \in 0..ImageCells
          BY <1>5, <1>10, ConstantsAssumption
        <4> QED
          BY <1>2, <1>3, <1>11, <4>1, AppendProperties, LenProperties
      <3>2. \A j \in 1..Len(im) : im[j] = j
        BY <1>1, <1>3, LenProperties DEF Installing
      <3> QED
        BY SMTT(30), <1>5, <1>11, <3>1, <3>2
    <2>3. Len(image'[cur]) + Backlog' = Len(im) + Backlog
      BY <1>5, <1>9, <1>11
    <2>4. CASE data = ImageCells
      <3>1. Backlog = 1 /\ Len(im) + Backlog = ImageCells
        BY <1>5, <1>8, <1>10, <2>4, ConstantsAssumption
      <3>2. dmode'[cur] = "command" /\ Backlog' = 0
        BY <1>2, <1>9, <2>4, <3>1
      <3>3. handle => fwd = ImageCells
        BY <1>0, <1>5, <3>1 DEF Between
      <3> QED
        BY <2>1, <2>2, <3>2, <3>3 DEF Installing
    <2>5. CASE data # ImageCells
      <3>1. dmode'[cur] = "image" /\ Len(image'[cur]) < ImageCells
        BY <1>2, <1>5, <1>10, <1>11, <2>5, ConstantsAssumption
      <3>2. /\ Len(image'[cur]) + Backlog' <= ImageCells
            /\ pc # "dropped" =>
                  Len(image'[cur]) + Backlog' =
                      IF handle THEN fwd
                      ELSE IF pc = "reading" /\ Answered THEN 0 ELSE ImageCells
        BY <1>5, <2>3
      <3> QED
        BY SMTT(30), <1>2, <1>6, <2>1, <2>2, <3>1, <3>2 DEF Installing
    <2> QED
      BY <2>4, <2>5
  <1>15. Streaming'
    BY <1>1, <1>2 DEF Streaming
  <1> QED
    BY <1>12, <1>13, <1>14, <1>15 DEF Cleanly

LEMMA NextClose == ASSUME IInv, clean', Close(cur) PROVE Cleanly'
  <1>0. TypeOK /\ Between /\ Cleanly /\ clean /\ cur \in Conns
    BY DEF IInv, TypeOK, Close, client
  <1>1. Upstream /\ Downstream /\ Installing /\ Streaming
    BY <1>0 DEF Cleanly
  <1>2. /\ up'[cur] = <<>> /\ ~dopen'[cur] /\ dmode'[cur] = "command"
        /\ UNCHANGED <<pc, n, calls, got, handle, fwd, pos, cur, down, image>>
    BY <1>0 DEF Close, TypeOK, client
  <1>3. Outstanding' = 0 /\ Backlog' = 0 /\ Len(up'[cur']) = 0 /\ (Answered' <=> Answered)
    BY <1>2 DEF Outstanding, Backlog, Answered
  <1>4. Upstream'
    BY <1>3 DEF Upstream
  <1>5. Downstream'
    BY <1>1, <1>2, <1>3 DEF Downstream
  <1>6. Installing'
    BY <1>1, <1>2, <1>3 DEF Installing
  <1>7. Streaming'
    BY <1>1, <1>2 DEF Streaming
  <1> QED
    BY <1>4, <1>5, <1>6, <1>7 DEF Cleanly

-----------------------------------------------------------------------------
(* The invariant and what it implies.                                       *)

LEMMA NextCleanly == IInv /\ [Next]_vars => Cleanly'
  <1> SUFFICES ASSUME IInv, [Next]_vars, clean' PROVE Cleanly'
    BY DEF Cleanly
  <1>0. TypeOK /\ Cleanly /\ cur \in Conns
    BY DEF IInv, TypeOK
  <1>1. CASE \/ \E cmd \in Commands : Request(cmd)
             \/ ConnectionLost \/ stream \/ stream_file_unopened \/ Fetch \/ FetchNone
             \/ DropInstallation \/ reconnect \/ Unconnected \/ Cancel \/ DropClient
    BY <1>1, NextQuiet
  <1>2. CASE WriteRequest \/ Forward \/ ReadReply \/ Connected
    BY <1>2, NextWriteRequest, NextForward, NextReadPart, NextReadWhole, NextConnected
  <1>3. ASSUME NEW c \in Conns,
               \/ DaemonAccept(c) \/ DaemonRefuse(c) \/ DaemonTakeImage(c)
               \/ DaemonClose(c) \/ DaemonHangUp(c)
        PROVE  Cleanly'
    <2>1. CASE c = cur
      BY <1>3, <2>1, NextAnswer, NextTakeImage, NextClose DEF DaemonClose, DaemonHangUp
    <2>2. CASE c # cur
      <3>1. UNCHANGED client
        BY <1>3 DEF DaemonAccept, DaemonRefuse, DaemonTakeImage, DaemonClose, DaemonHangUp, Close
      <3>2. down'[cur] = down[cur]
        BY <1>3, <2>2 DEF DaemonAccept, DaemonRefuse, DaemonTakeImage, DaemonClose,
                          DaemonHangUp, Close, Reply
      <3>3. up'[cur] = up[cur] /\ dopen'[cur] = dopen[cur]
        BY <1>0, <1>3, <2>2 DEF DaemonAccept, DaemonRefuse, DaemonTakeImage, DaemonClose,
                                DaemonHangUp, Close, TakeMessage, TypeOK, daemon
      <3>4. dmode'[cur] = dmode[cur] /\ image'[cur] = image[cur]
        BY SMTT(30), <1>0, <1>3, <2>2 DEF DaemonAccept, DaemonRefuse, DaemonTakeImage, DaemonClose,
                                DaemonHangUp, Close, TypeOK, daemon
      <3> QED
        BY <1>0, <3>1, <3>2, <3>3, <3>4, FrameCleanly
    <2> QED
      BY <2>1, <2>2
  <1>4. CASE UNCHANGED vars
    BY <1>0, <1>4, FrameCleanly DEF vars, wire, daemon
  <1> QED
    BY <1>1, <1>2, <1>3, <1>4 DEF Next

LEMMA NextIInv == IInv /\ [Next]_vars => IInv'
  <1> SUFFICES ASSUME IInv, [Next]_vars PROVE IInv'
    OBVIOUS
  <1>1. TypeOK'
    BY NextTypeOK DEF IInv
  <1>2. Between' /\ Unopened' /\ Closed'
    BY <1>1, NextBetween, NextUnopened, NextClosed DEF IInv
  <1>3. Cleanly' /\ OwnReply'
    BY NextCleanly, NextOwnReply
  <1> QED
    BY <1>1, <1>2, <1>3 DEF IInv

\* What an undisturbed stream holds, at every step: no reply but the one to the
\* pending request, the written part of that request, and image data in order.
THEOREM StreamInvariant == Spec => []IInv
  BY InitIInv, NextIInv, PTL DEF Spec

\* send_and_receive hands every caller the reply to its own request, although no
\* message carries an identifier, as long as no future was dropped half-way.
THEOREM RepliesPaired == Spec => []OwnReply
  <1>1. IInv => OwnReply
    BY DEF IInv
  <1> QED
    BY <1>1, StreamInvariant, PTL

\* Installation::stream delivers the image in order, with nothing between.
THEOREM ImageDelivered == Spec => []ImageIntact
  <1>1. IInv => ImageIntact
    BY DEF IInv, Cleanly, Installing, ImageIntact
  <1> QED
    BY <1>1, StreamInvariant, PTL


\* An image that the installer still waits for is next in its socket, unless the
\* caller has yet to send it.
LEMMA ImageInFront ==
  ASSUME IInv, clean, dmode[cur] = "image", Backlog > 0
  PROVE  DaemonCanGoOn
  <1>1. TypeOK /\ Upstream /\ Installing
    BY DEF IInv, Cleanly
  <1>2. dopen[cur]
    BY <1>1 DEF Installing
  <1>3. up[cur] \in Seq(RequestCell \cup ImageCell) /\ Len(up[cur]) \in Nat
    BY <1>1, LenProperties DEF TypeOK
  <1>4. Outstanding \in Nat
    BY <1>1, ConstantsAssumption DEF Outstanding, TypeOK
  <1>5. Backlog \in Int /\ 1 <= Backlog /\ Len(up[cur]) >= 1
    BY <1>3, <1>4 DEF Backlog
  <1>6. up[cur][1].cmd = "IMAGE"
    BY <1>1, <1>3, <1>5 DEF Upstream
  <1>7. up[cur] # <<>> /\ Head(up[cur]) = up[cur][1]
    BY <1>3, <1>5
  <1> QED
    BY <1>2, <1>6, <1>7 DEF DaemonCanGoOn

\* A method that writes finds room in the socket, or image data ahead of it.
LEMMA WriterGoesOn ==
  ASSUME IInv, clean, pc \in {"writing", "forwarding"}
  PROVE  CallerCanGoOn \/ DaemonCanGoOn
  <1>1. TypeOK /\ Upstream /\ Installing /\ Streaming /\ Between
    BY DEF IInv, Cleanly
  <1>2. SUFFICES ASSUME Writable, Len(up[cur]) >= SocketCells
                 PROVE  DaemonCanGoOn
    <2>1. Len(up[cur]) \in Nat
      BY <1>1, LenProperties DEF TypeOK
    <2> QED
      BY <1>2, <2>1, ConstantsAssumption DEF CallerCanGoOn, LostWrite
  <1>3. dopen[cur] /\ Len(up[cur]) \in Nat
    BY <1>1, <1>2, LenProperties DEF TypeOK, Writable
  <1>4. Outstanding \in 0..(MsgCells - 1)
    BY <1>1, ConstantsAssumption DEF Outstanding, TypeOK
  <1>5. Backlog > 0
    BY <1>2, <1>3, <1>4, ConstantsAssumption DEF Backlog
  <1>6. dmode[cur] = "image"
    <2>1. dmode[cur] \in {"command", "image"}
      BY <1>1 DEF TypeOK
    <2> QED
      BY <1>1, <1>5, <2>1 DEF Installing
  <1> QED
    BY <1>5, <1>6, ImageInFront

\* A method that reads has a reply, a lost connection, or the daemon behind it: its
\* whole request in front of the daemon, or image data before that.
LEMMA ReaderGoesOn ==
  ASSUME IInv, clean, pc = "reading"
  PROVE  CallerCanGoOn \/ DaemonCanGoOn
  <1>1. TypeOK /\ Upstream /\ Downstream /\ Installing /\ Between
    BY DEF IInv, Cleanly
  <1>2. SUFFICES ASSUME down[cur] = <<>>, dopen[cur]
                 PROVE  DaemonCanGoOn
    BY <1>2 DEF CallerCanGoOn, LostRead
  <1>3. ~Answered
    <2>1. Len(down[cur]) = 0 /\ Len(got) \in Nat /\ Len(got) < MsgCells
      BY <1>1, <1>2, LenProperties DEF TypeOK
    <2>2. Len(got) + Len(down[cur]) # MsgCells
      BY <2>1, ConstantsAssumption
    <2> QED
      BY <1>1, <2>2 DEF Downstream
  <1>4. Outstanding = MsgCells
    BY <1>2, <1>3 DEF Outstanding
  <1>5. Len(up[cur]) \in Nat /\ Len(up[cur]) = Backlog + MsgCells /\ Backlog \in Nat
    <2>1. Len(up[cur]) \in Nat /\ MsgCells \in Nat
      BY <1>1, LenProperties, ConstantsAssumption DEF TypeOK
    <2> QED
      BY <1>1, <1>4, <2>1 DEF Backlog, Upstream
  <1>6. CASE dmode[cur] = "command"
    <2>1. HasMessage(cur)
      BY <1>1, <1>2, <1>5, <1>6, ConstantsAssumption DEF Installing, HasMessage
    <2>2. IsRequest(Message(cur)) /\ Message(cur)[1].id = n
      BY <2>1, CurrentRequest DEF RequestPart
    <2> QED
      BY <2>1, <2>2 DEF DaemonCanGoOn
  <1>7. CASE dmode[cur] = "image"
    <2>1. Len(image[cur]) \in Nat
      BY <1>1, LenProperties DEF TypeOK
    <2>2. ~handle
      BY <1>1 DEF Between
    <2>3. Len(image[cur]) + Backlog = ImageCells /\ Len(image[cur]) < ImageCells
      BY <1>1, <1>3, <1>7, <2>2 DEF Installing
    <2>4. Backlog > 0
      BY <1>5, <2>1, <2>3, ConstantsAssumption
    <2> QED
      BY <1>7, <2>4, ImageInFront
  <1> QED
    BY <1>1, <1>6, <1>7 DEF TypeOK

\* The caller and the daemon never both wait for the other: on an undisturbed
\* stream each call under way has a step of its own or a daemon that has one, in
\* command mode and in the raw byte pipe of an install alike.
THEOREM NeitherWaits == Spec => []NoStandoff
  <1>1. ASSUME IInv, NEW c \in Conns, dmode[c] = "image", c < cur \/ pc = "dropped"
        PROVE  dopen[c] /\ (up[c] # <<>> \/ ClientDone(c))
    <2>1. dopen[c]
      BY <1>1 DEF IInv, Closed
    <2>2. CASE c = cur
      BY <1>1, <2>1, <2>2 DEF IInv, TypeOK, Between, ClientDone, Conns
    <2>3. CASE c < cur
      BY <2>1, <2>3 DEF ClientDone
    <2>4. CASE c > cur
      BY <1>1, <2>4 DEF IInv, Unopened
    <2> QED
      BY <1>1, <2>2, <2>3, <2>4, ConstantsAssumption DEF IInv, TypeOK, Conns
  <1>2. IInv => NoStandoff
    BY <1>1, WriterGoesOn, ReaderGoesOn DEF NoStandoff
  <1> QED
    BY <1>2, StreamInvariant, PTL
=============================================================================
