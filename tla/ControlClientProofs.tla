------------------------- MODULE ControlClientProofs -------------------------
(***************************************************************************)
(* Theorems about ControlClient, for every choice of its constants.         *)
(***************************************************************************)
EXTENDS ControlInvariant, SequenceTheorems, TLAPS

LEMMA InitTypeOK == Init => TypeOK
  <1> SUFFICES ASSUME Init PROVE TypeOK  OBVIOUS
  <1>1. 1 \in Conns /\ 0 \in 0..(MsgCells - 1) /\ 0 \in 0..ImageCells /\ SocketCells \in Nat
    BY ConstantsAssumption DEF Conns
  <1>2. calls \in [Calls -> CallRecord]
    BY DEF Init, CallRecord, Results
  <1>3. up \in [Conns -> Seq(RequestCell \cup ImageCell)] /\ down \in [Conns -> Seq(ReplyCell)]
    BY DEF Init
  <1>4. image \in [Conns -> Seq(0..ImageCells)]
    BY DEF Init
  <1>5. \A c \in Conns : Len(up[c]) <= SocketCells
    BY <1>1 DEF Init
  <1>6. got \in Seq(ReplyCell) /\ Len(got) < MsgCells
    BY ConstantsAssumption DEF Init
  <1>7. n \in 0..MaxCalls
    BY ConstantsAssumption DEF Init
  <1> QED
    BY <1>1, <1>2, <1>3, <1>4, <1>5, <1>6, <1>7 DEF Init, TypeOK

\* A call begun takes the next number, and its record is well formed.
LEMMA BeginTypeOK ==
  ASSUME TypeOK, NEW cmd \in Commands \cup {"IMAGE"}, Begin(cmd)
  PROVE  /\ n' \in Calls
         /\ calls' \in [Calls -> CallRecord]
         /\ calls'[n'].cmd = cmd
  <1> DEFINE rec == [cmd |-> cmd, result |-> "Pending", from |-> 0,
                     type |-> "none", clean |-> TRUE]
  <1>1. n + 1 \in Calls /\ n' = n + 1
    BY ConstantsAssumption DEF TypeOK, Begin, Calls
  <1>2. rec \in CallRecord
    BY DEF CallRecord, Results
  <1>3. calls' = [calls EXCEPT ![n + 1] = rec] /\ calls \in [Calls -> CallRecord]
    BY DEF Begin, TypeOK
  <1> QED
    BY <1>1, <1>2, <1>3

\* A call that returns leaves the caller idle, with its buffers reset.
LEMMA ReturnTypeOK ==
  ASSUME TypeOK, n \in Calls, NEW result \in Results,
         NEW reply \in [to : {0} \cup Calls, type : ReplyTypes \cup {"none"}],
         Return(result, reply)
  PROVE  /\ calls' \in [Calls -> CallRecord]
         /\ pc' = "idle"
         /\ sent' \in 0..(MsgCells - 1)
         /\ got' \in Seq(ReplyCell) /\ Len(got') < MsgCells
  <1>1. calls' = [calls EXCEPT ![n] =
                    [[[[calls[n] EXCEPT !.result = result] EXCEPT !.from = reply.to]
                        EXCEPT !.type = reply.type] EXCEPT !.clean = clean]]
    BY DEF Return, TypeOK, CallRecord
  <1>2. calls[n] \in CallRecord
    BY DEF TypeOK
  <1>3. [[[[calls[n] EXCEPT !.result = result] EXCEPT !.from = reply.to]
            EXCEPT !.type = reply.type] EXCEPT !.clean = clean] \in CallRecord
    BY <1>2 DEF CallRecord, TypeOK
  <1>4. calls' \in [Calls -> CallRecord]
    BY <1>1, <1>3 DEF TypeOK
  <1> QED
    BY <1>4, ConstantsAssumption DEF Return

\* A cell written fits the socket it is written to.
LEMMA WriteTypeOK ==
  ASSUME TypeOK, NEW cell \in RequestCell \cup ImageCell, Write(cell)
  PROVE  /\ up' \in [Conns -> Seq(RequestCell \cup ImageCell)]
         /\ \A c \in Conns : Len(up'[c]) <= SocketCells
  <1>1. cur \in Conns /\ up[cur] \in Seq(RequestCell \cup ImageCell)
    BY DEF TypeOK
  <1>2. /\ Append(up[cur], cell) \in Seq(RequestCell \cup ImageCell)
        /\ Len(Append(up[cur], cell)) = Len(up[cur]) + 1
        /\ Len(up[cur]) \in Nat
    BY <1>1, AppendProperties, LenProperties
  <1>3. up' = [up EXCEPT ![cur] = Append(up[cur], cell)] /\ Len(up[cur]) < SocketCells
    BY DEF Write
  <1>4. \A c \in Conns : Len(up'[c]) <= SocketCells
    BY <1>1, <1>2, <1>3, ConstantsAssumption DEF TypeOK
  <1> QED
    BY <1>1, <1>2, <1>3, <1>4 DEF TypeOK

\* Whatever a message is made of, it has a type, and a method returns a result.
LEMMA ResponsesTypeOK ==
  ASSUME NEW m, m[1] \in ReplyCell, NEW type \in Responses(m)
  PROVE  type \in ReplyTypes
  BY DEF Responses, ReplyCell

LEMMA ReturnedTypeOK ==
  ASSUME NEW cmd \in AckCommands \cup Queries, NEW type, NEW result \in Returned(cmd, type)
  PROVE  result \in Results
  <1>1. CASE cmd \in AckCommands
    BY <1>1 DEF Returned, send_and_expect_ack, Results, AckCommands
  <1>2. CASE cmd \in Queries
    BY <1>2 DEF Returned, get_status, get_update_state, get_hw_revision,
                get_swupdate_var, Results, AckCommands, Queries
  <1> QED
    BY <1>1, <1>2

LEMMA ReplyTypeOK ==
  ASSUME TypeOK, NEW c \in Conns, NEW to \in {0} \cup Calls, NEW type \in ReplyTypes,
         Reply(c, to, type)
  PROVE  down' \in [Conns -> Seq(ReplyCell)]
  <1> DEFINE msg == [j \in 1..MsgCells |-> [to |-> to, type |-> type, part |-> j]]
  <1>1. msg \in Seq(ReplyCell)
    BY ConstantsAssumption DEF ReplyCell
  <1>2. down[c] \in Seq(ReplyCell)
    BY DEF TypeOK
  <1>3. down[c] \o msg \in Seq(ReplyCell)
    BY <1>1, <1>2, ConcatProperties
  <1> QED
    BY <1>3 DEF Reply, TypeOK

\* What is left of the socket once the daemon has read k cells of it.
LEMMA ConsumeTypeOK ==
  ASSUME TypeOK, NEW c \in Conns, NEW k \in 0..Len(up[c]),
         up' = [up EXCEPT ![c] = SubSeq(up[c], k + 1, Len(up[c]))]
  PROVE  /\ up' \in [Conns -> Seq(RequestCell \cup ImageCell)]
         /\ \A d \in Conns : Len(up'[d]) <= SocketCells
  <1> DEFINE S == RequestCell \cup ImageCell
             rest == SubSeq(up[c], k + 1, Len(up[c]))
  <1>1. up[c] \in Seq(S) /\ Len(up[c]) \in Nat /\ Len(up[c]) <= SocketCells
    BY LenProperties DEF TypeOK
  <1>2. k + 1 \in Int /\ \A i \in (k + 1)..Len(up[c]) : up[c][i] \in S
    BY <1>1, ElementOfSeq
  <1>3. rest \in Seq(S) /\ Len(rest) = IF k + 1 <= Len(up[c]) THEN Len(up[c]) - (k + 1) + 1 ELSE 0
    BY <1>1, <1>2, SubSeqProperties
  <1>4. rest \in Seq(S) /\ Len(rest) <= SocketCells
    BY <1>1, <1>3, ConstantsAssumption
  <1> QED
    BY <1>4 DEF TypeOK

LEMMA NextTypeOK == TypeOK /\ [Next]_vars => TypeOK'
  <1> SUFFICES ASSUME TypeOK, [Next]_vars PROVE TypeOK'
    OBVIOUS
  <1> USE ConstantsAssumption
  <1>1. ASSUME NEW cmd \in Commands, Request(cmd) PROVE TypeOK'
    <2>1. Begin(cmd) /\ pc' = "writing"
      BY <1>1 DEF Request
    <2>2. n' \in Calls /\ calls' \in [Calls -> CallRecord] /\ calls'[n'].cmd = cmd
      BY <2>1, BeginTypeOK
    <2> QED
      BY SMTT(30), <1>1, <2>1, <2>2 DEF Request, TypeOK, Calls, wire, daemon
  <1>2. CASE WriteRequest
    <2> DEFINE cell == [id |-> n, cmd |-> calls[n].cmd, part |-> sent + 1]
    <2>1. cell \in RequestCell
      BY <1>2 DEF WriteRequest, TypeOK, RequestCell
    <2>2. /\ up' \in [Conns -> Seq(RequestCell \cup ImageCell)]
          /\ \A c \in Conns : Len(up'[c]) <= SocketCells
      BY <1>2, <2>1, WriteTypeOK DEF WriteRequest
    <2>3. sent' \in 0..(MsgCells - 1) /\ pc' \in {"writing", "reading"}
      BY <1>2 DEF WriteRequest, TypeOK
    <2> QED
      BY <1>2, <2>2, <2>3 DEF WriteRequest, TypeOK, daemon
  <1>3. CASE ReadReply
    <2> DEFINE m == Append(got, Head(down[cur]))
    <2>1. n \in Calls /\ cur \in Conns
      BY <1>3 DEF ReadReply, TypeOK
    <2>2. /\ Head(down[cur]) \in ReplyCell
          /\ Tail(down[cur]) \in Seq(ReplyCell)
      BY <1>3, <2>1, HeadTailProperties DEF ReadReply, TypeOK
    <2>3. m \in Seq(ReplyCell) /\ Len(m) = Len(got) + 1 /\ m # <<>>
      <3>1. got \in Seq(ReplyCell)
        BY DEF TypeOK
      <3> QED
        BY <2>2, <3>1, AppendProperties
    <2>4. down' \in [Conns -> Seq(ReplyCell)]
      BY <1>3, <2>1, <2>2 DEF ReadReply, TypeOK
    <2>5. CASE ~ReadExact(m)
      <3>1. Len(got) \in Nat /\ Len(m) < MsgCells
        BY SMTT(30), <2>3, <2>5, LenProperties DEF ReadExact, TypeOK
      <3>2. got' = m /\ UNCHANGED <<pc, calls, sent, handle, pos, fwd>>
        BY <1>3, <2>5 DEF ReadReply
      <3> QED
        BY <1>3, <2>3, <2>4, <3>1, <3>2 DEF ReadReply, TypeOK, daemon
    <2>6. CASE ReadExact(m)
      <3>0. PICK type \in Responses(m) : \E result \in Returned(calls[n].cmd, type) :
              /\ Return(result, [to |-> m[1].to, type |-> type])
              /\ handle' = (calls[n].cmd = "REQ_INSTALL" /\ result = "Ok")
        BY <1>3, <2>6 DEF ReadReply
      <3>1. PICK result \in Returned(calls[n].cmd, type) :
              /\ Return(result, [to |-> m[1].to, type |-> type])
              /\ handle' = (calls[n].cmd = "REQ_INSTALL" /\ result = "Ok")
        BY <3>0
      <3>2. m[1] \in ReplyCell
        BY <2>3, ElementOfSeq, LenProperties
      <3>3. type \in ReplyTypes
        BY <3>2, ResponsesTypeOK
      <3>4. result \in Results
        <4>1. calls[n].cmd \in AckCommands \cup Queries
          BY <1>3 DEF ReadReply, TypeOK
        <4> QED
          BY <4>1, ReturnedTypeOK
      <3>5. [to |-> m[1].to, type |-> type] \in [to : {0} \cup Calls, type : ReplyTypes \cup {"none"}]
        BY <3>2, <3>3 DEF ReplyCell
      <3>6. /\ calls' \in [Calls -> CallRecord] /\ pc' = "idle"
            /\ sent' \in 0..(MsgCells - 1)
            /\ got' \in Seq(ReplyCell) /\ Len(got') < MsgCells
        BY <2>1, <3>1, <3>4, <3>5, ReturnTypeOK
      <3>7. pos' = 0 /\ fwd' = 0 /\ handle' \in BOOLEAN
            /\ UNCHANGED <<n, cur, wopen, clean, up, daemon>>
        BY <1>3, <2>6, <3>1 DEF ReadReply
      <3> QED
        BY SMTT(30), <2>4, <3>6, <3>7 DEF TypeOK, daemon
    <2> QED
      BY <2>5, <2>6
  <1>4. CASE ConnectionLost
    <2>1. n \in Calls
      BY <1>4 DEF ConnectionLost, LostWrite, LostRead, TypeOK
    <2>2. "Connection" \in Results /\ NoReply \in [to : {0} \cup Calls, type : ReplyTypes \cup {"none"}]
      BY DEF Results, NoReply
    <2>3. /\ calls' \in [Calls -> CallRecord] /\ pc' = "idle"
          /\ sent' \in 0..(MsgCells - 1)
          /\ got' \in Seq(ReplyCell) /\ Len(got') < MsgCells
      BY <1>4, <2>1, <2>2, ReturnTypeOK DEF ConnectionLost
    <2> QED
      BY <1>4, <2>3 DEF ConnectionLost, TypeOK, wire, daemon
  <1>5. CASE stream
    <2>1. Begin("IMAGE") /\ pc' = "fetching"
      BY <1>5 DEF stream
    <2>2. n' \in Calls /\ calls' \in [Calls -> CallRecord]
      BY <2>1, BeginTypeOK
    <2>3. pos' \in 0..ImageCells /\ clean' \in BOOLEAN
      BY <1>5 DEF stream, TypeOK
    <2>4. UNCHANGED <<sent, got, fwd, handle, cur, wopen, wire, daemon>>
      BY <1>5 DEF stream
    <2>5. n' \in 0..MaxCalls /\ pc' = "fetching"
      BY <2>1, <2>2 DEF Calls
    <2> QED
      BY <2>2, <2>3, <2>4, <2>5 DEF TypeOK, wire, daemon
  <1>6. CASE stream_file_unopened
    <2> DEFINE rec == [cmd |-> "IMAGE", result |-> "Protocol", from |-> 0,
                       type |-> "none", clean |-> clean]
    <2>1. rec \in CallRecord
      BY DEF CallRecord, Results, TypeOK
    <2>2. calls' = [calls EXCEPT ![n + 1] = rec] /\ n' \in 0..MaxCalls
      BY <1>6 DEF stream_file_unopened, TypeOK
    <2>3. calls' \in [Calls -> CallRecord]
      BY <2>1, <2>2 DEF TypeOK
    <2> QED
      BY <1>6, <2>2, <2>3 DEF stream_file_unopened, TypeOK, wire, daemon
  <1>7. CASE Fetch
    BY SMTT(30), <1>7 DEF Fetch, TypeOK, wire, daemon
  <1>8. CASE FetchNone
    <2>1. PICK result \in {"Ok", "Connection"} : Return(result, NoReply)
      BY <1>8 DEF FetchNone
    <2>2. n \in Calls /\ result \in Results
          /\ NoReply \in [to : {0} \cup Calls, type : ReplyTypes \cup {"none"}]
      BY <1>8 DEF FetchNone, TypeOK, Results, NoReply
    <2>3. /\ calls' \in [Calls -> CallRecord] /\ pc' = "idle"
          /\ sent' \in 0..(MsgCells - 1)
          /\ got' \in Seq(ReplyCell) /\ Len(got') < MsgCells
      BY <2>1, <2>2, ReturnTypeOK
    <2> QED
      BY <1>8, <2>3 DEF FetchNone, TypeOK, wire, daemon
  <1>9. CASE Forward
    <2> DEFINE cell == [id |-> n, cmd |-> "IMAGE", part |-> pos]
    <2>1. cell \in ImageCell
      BY <1>9 DEF Forward, TypeOK, ImageCell
    <2>2. /\ up' \in [Conns -> Seq(RequestCell \cup ImageCell)]
          /\ \A c \in Conns : Len(up'[c]) <= SocketCells
      BY <1>9, <2>1, WriteTypeOK DEF Forward
    <2> QED
      BY <1>9, <2>2 DEF Forward, TypeOK, daemon
  <1>10. CASE DropInstallation
    BY <1>10 DEF DropInstallation, TypeOK, wire, daemon
  <1>11. CASE reconnect
    BY <1>11 DEF reconnect, TypeOK, wire, daemon
  <1>12. CASE Connected
    <2>1. cur' \in Conns
      BY <1>12 DEF Connected, NextStream, TypeOK, Conns
    <2>2. down' \in [Conns -> Seq(ReplyCell)]
      BY <1>12 DEF Connected, TypeOK
    <2> QED
      BY SMTT(30), <1>12, <2>1, <2>2 DEF Connected, TypeOK, daemon
  <1>13. CASE Unconnected
    BY <1>13 DEF Unconnected, TypeOK, wire, daemon
  <1>14. CASE Cancel
    <2>1. calls' \in [Calls -> CallRecord]
      <3>1. CASE pc = "connecting"
        BY <1>14, <3>1 DEF Cancel, TypeOK
      <3>2. CASE pc # "connecting"
        <4>1. n \in Calls
          BY <1>14, <3>2 DEF Cancel, TypeOK
        <4>2. calls[n] \in CallRecord /\ clean' \in BOOLEAN
          BY <1>14, <4>1 DEF Cancel, TypeOK
        <4>3. calls' = [calls EXCEPT ![n] =
                          [[calls[n] EXCEPT !.result = "Cancelled"] EXCEPT !.clean = clean']]
          BY ZenonT(30), <1>14, <3>2, <4>1, <4>2 DEF Cancel, TypeOK, CallRecord
        <4>4. [[calls[n] EXCEPT !.result = "Cancelled"] EXCEPT !.clean = clean'] \in CallRecord
          BY <4>2 DEF CallRecord, Results
        <4> QED
          BY <4>3, <4>4 DEF TypeOK
      <3> QED
        BY <3>1, <3>2
    <2>2. clean' \in BOOLEAN /\ sent' \in 0..(MsgCells - 1) /\ got' = <<>> /\ Len(got') < MsgCells
      BY SMTT(30), <1>14 DEF Cancel, TypeOK
    <2>3. pc' = "idle" /\ UNCHANGED <<n, pos, fwd, handle, cur, wopen, wire, daemon>>
      BY <1>14 DEF Cancel
    <2> QED
      BY SMTT(30), <2>1, <2>2, <2>3 DEF TypeOK, wire, daemon
  <1>15. CASE DropClient
    <2>1. down' \in [Conns -> Seq(ReplyCell)]
      BY <1>15 DEF DropClient, TypeOK
    <2> QED
      BY <1>15, <2>1 DEF DropClient, TypeOK, daemon
  <1>16. ASSUME NEW c \in Conns, DaemonAccept(c) PROVE TypeOK'
    <2> DEFINE m == Message(c)
    <2>1. MsgCells \in 0..Len(up[c]) /\ up[c] \in Seq(RequestCell \cup ImageCell)
      BY SMTT(30), <1>16, LenProperties DEF DaemonAccept, HasMessage, TypeOK
    <2>2. m[1] \in RequestCell
      <3>1. 1 \in 1..Len(up[c]) /\ up[c][1] \in RequestCell \cup ImageCell
        BY <2>1, ElementOfSeq, LenProperties
      <3>2. m[1] = up[c][1]
        BY <2>1, <3>1, LenProperties, SubSeqProperties DEF Message
      <3>3. m[1].cmd # "IMAGE"
        BY <1>16 DEF DaemonAccept, IsRequest
      <3> QED
        BY <3>1, <3>2, <3>3 DEF ImageCell
    <2>3. /\ up' \in [Conns -> Seq(RequestCell \cup ImageCell)]
          /\ \A d \in Conns : Len(up'[d]) <= SocketCells
      BY <1>16, <2>1, ConsumeTypeOK DEF DaemonAccept, TakeMessage
    <2>4. m[1].id \in Calls
      BY <2>2 DEF RequestCell
    <2>5. PICK type \in Accepting(m[1].cmd) : Reply(c, m[1].id, type)
      BY <1>16 DEF DaemonAccept
    <2>6. type \in ReplyTypes
      BY DEF Accepting, ReplyTypes
    <2>7. down' \in [Conns -> Seq(ReplyCell)]
      BY <2>4, <2>5, <2>6, ReplyTypeOK
    <2>8. executed' \in [Calls -> Nat]
      BY SMTT(30), <1>16, <2>4 DEF DaemonAccept, TypeOK
    <2>9. dmode' \in [Conns -> {"command", "image"}] /\ image' \in [Conns -> Seq(0..ImageCells)]
      <3>1. dmode' \in [Conns -> {"command", "image"}]
        BY <1>16 DEF DaemonAccept, TypeOK
      <3>2. <<>> \in Seq(0..ImageCells) /\ image[c] \in Seq(0..ImageCells)
        BY DEF TypeOK
      <3>3. image' \in [Conns -> Seq(0..ImageCells)]
        BY <1>16, <3>2 DEF DaemonAccept, TypeOK
      <3> QED
        BY <3>1, <3>3
    <2> QED
      BY <1>16, <2>3, <2>7, <2>8, <2>9 DEF DaemonAccept, TypeOK, client
  <1>17. ASSUME NEW c \in Conns, DaemonRefuse(c) PROVE TypeOK'
    <2> DEFINE m == Message(c)
    <2>1. MsgCells \in 0..Len(up[c]) /\ up[c] \in Seq(RequestCell \cup ImageCell)
      BY SMTT(30), <1>17, LenProperties DEF DaemonRefuse, HasMessage, TypeOK
    <2>2. m[1] \in RequestCell \cup ImageCell
      <3>1. 1 \in 1..Len(up[c]) /\ up[c][1] \in RequestCell \cup ImageCell
        BY <2>1, ElementOfSeq, LenProperties
      <3> QED
        BY <2>1, <3>1, LenProperties, SubSeqProperties DEF Message
    <2>3. /\ up' \in [Conns -> Seq(RequestCell \cup ImageCell)]
          /\ \A d \in Conns : Len(up'[d]) <= SocketCells
      BY <1>17, <2>1, ConsumeTypeOK DEF DaemonRefuse, TakeMessage
    <2>4. (IF IsRequest(m) THEN m[1].id ELSE 0) \in {0} \cup Calls
      BY <2>2 DEF RequestCell, ImageCell
    <2>5. down' \in [Conns -> Seq(ReplyCell)]
      BY <1>17, <2>4, ReplyTypeOK DEF DaemonRefuse, ReplyTypes
    <2> QED
      BY ZenonT(30), <1>17, <2>3, <2>5 DEF DaemonRefuse, TypeOK, client, daemon
  <1>18. ASSUME NEW c \in Conns, DaemonTakeImage(c) PROVE TypeOK'
    <2> DEFINE cell == Head(up[c])
               data == IF cell.cmd = "IMAGE" THEN cell.part ELSE 0
    <2>1. up[c] \in Seq(RequestCell \cup ImageCell) /\ up[c] # <<>>
      BY <1>18 DEF DaemonTakeImage, TypeOK
    <2>2. cell \in RequestCell \cup ImageCell /\ 1 \in 0..Len(up[c])
      BY <2>1, HeadTailProperties, LenProperties
    <2>3. data \in 0..ImageCells
      BY <2>2 DEF RequestCell, ImageCell, AckCommands, Queries
    <2>4. image' \in [Conns -> Seq(0..ImageCells)]
      <3>1. Append(image[c], data) \in Seq(0..ImageCells)
        BY <2>3, AppendProperties DEF TypeOK
      <3> QED
        BY <1>18, <3>1 DEF DaemonTakeImage, TypeOK
    <2>5. dmode' \in [Conns -> {"command", "image"}]
      BY <1>18 DEF DaemonTakeImage, TypeOK
    <2>6. up' = [up EXCEPT ![c] = SubSeq(up[c], 1 + 1, Len(up[c]))]
      <3>1. Tail(up[c]) = SubSeq(up[c], 2, Len(up[c]))
        BY <2>1, TailIsSubSeq
      <3>2. up' = [up EXCEPT ![c] = Tail(up[c])]
        BY <1>18 DEF DaemonTakeImage
      <3>3. 1 + 1 = 2
        OBVIOUS
      <3> QED
        BY <3>1, <3>2, <3>3, Zenon
    <2>7. /\ up' \in [Conns -> Seq(RequestCell \cup ImageCell)]
          /\ \A d \in Conns : Len(up'[d]) <= SocketCells
      BY <2>2, <2>6, ConsumeTypeOK
    <2> QED
      BY <1>18, <2>4, <2>5, <2>7 DEF DaemonTakeImage, TypeOK, client
  <1>19. ASSUME NEW c \in Conns, Close(c) PROVE TypeOK'
    <2>1. /\ up' \in [Conns -> Seq(RequestCell \cup ImageCell)]
          /\ \A d \in Conns : Len(up'[d]) <= SocketCells
      BY SMTT(30), <1>19 DEF Close, TypeOK
    <2>2. dopen' \in [Conns -> BOOLEAN] /\ dmode' \in [Conns -> {"command", "image"}]
      BY <1>19 DEF Close, TypeOK
    <2> QED
      BY <1>19, <2>1, <2>2 DEF Close, TypeOK, client
  <1>20. CASE UNCHANGED vars
    BY SMTT(30), <1>20 DEF TypeOK, vars, client, wire, daemon
  <1> QED
    BY <1>1, <1>2, <1>3, <1>4, <1>5, <1>6, <1>7, <1>8, <1>9, <1>10, <1>11, <1>12, <1>13,
       <1>14, <1>15, <1>16, <1>17, <1>18, <1>19, <1>20
    DEF Next, DaemonClose, DaemonHangUp

\* The variables stay in their types: a count, a position or a cell never leaves
\* the range the code gives it, whatever the caller and the daemon do.
THEOREM TypeCorrect == Spec => []TypeOK
  BY InitTypeOK, NextTypeOK, PTL DEF Spec
=============================================================================
