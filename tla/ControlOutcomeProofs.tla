------------------------ MODULE ControlOutcomeProofs ------------------------
(***************************************************************************)
(* Outcome is inductive, for every choice of the constants: what a call on  *)
(* an undisturbed stream returns tells what the daemon did, it stays true,  *)
(* and ControlClient implements ControlCalls.                               *)
(***************************************************************************)
EXTENDS ControlOutcome, ControlInvariantProofs

\* The variables as the lemmas below see them.
LEMMA Ranges ==
  ASSUME TypeOK
  PROVE  /\ n \in Nat /\ n <= MaxCalls /\ MaxCalls \in Nat /\ MsgCells \in Nat /\ MsgCells > 0
         /\ sent \in Nat /\ sent < MsgCells /\ cur \in Conns
         /\ DOMAIN calls = Calls /\ DOMAIN executed = Calls
         /\ Calls = 1..MaxCalls /\ (Awaited => n \in Calls)
         /\ \A i \in Calls : i \in Nat
  BY ConstantsAssumption DEF TypeOK, Calls, Awaited

\* The cells in the sockets.
LEMMA CellRanges ==
  ASSUME TypeOK, NEW c \in Conns
  PROVE  /\ up[c] \in Seq(RequestCell \cup ImageCell) /\ Len(up[c]) \in Nat
         /\ DOMAIN up[c] = 1..Len(up[c])
         /\ \A j \in DOMAIN up[c] : /\ up[c][j].id \in Calls
                                    /\ up[c][j].cmd # "IMAGE" => up[c][j].part \in 1..MsgCells
  <1>1. up[c] \in Seq(RequestCell \cup ImageCell)
    BY DEF TypeOK
  <1>2. \A x \in RequestCell \cup ImageCell :
           x.id \in Calls /\ (x.cmd # "IMAGE" => x.part \in 1..MsgCells)
    BY DEF RequestCell, ImageCell
  <1> QED
    BY <1>1, <1>2

\* No call is made and no cell written yet.
LEMMA InitOutcome == Init => Outcome
  <1> SUFFICES ASSUME Init PROVE Outcome
    OBVIOUS
  <1>1. \A c \in Conns : DOMAIN up[c] = {}
    BY DEF Init
  <1>2. Pending
    <2>1. \A i \in Calls : ~(i <= n)
      BY ConstantsAssumption DEF Init, Calls
    <2> QED
      BY <2>1 DEF Init, Pending, Awaited
  <1>3. Leftovers
    BY <1>1 DEF Leftovers
  <1>4. Once
    BY <1>1 DEF Init, Once
  <1>5. Told /\ Settled
    BY DEF Init, Told, Settled, AckCommands
  <1> QED
    BY <1>2, <1>3, <1>4, <1>5 DEF Outcome

-----------------------------------------------------------------------------
(* Steps of the client that write nothing.                                  *)

\* An undisturbed stream that holds nothing of the current request has none of it.
LEMMA NothingLeft ==
  ASSUME IInv, Outcome, Awaited, clean, Outstanding = 0,
         NEW c \in Conns, NEW j \in DOMAIN up[c], up[c][j].cmd # "IMAGE"
  PROVE  up[c][j].id # n
  <1>1. TypeOK /\ Upstream /\ Leftovers
    BY DEF IInv, Cleanly, Outcome
  <1>2. CASE c # cur
    BY <1>1, <1>2 DEF Leftovers
  <1>3. CASE c = cur
    <2>1. Len(up[cur]) \in Nat /\ j \in 1..Len(up[cur])
      BY <1>1, <1>3, CellRanges
    <2>2. Backlog = Len(up[cur])
      BY <2>1 DEF Backlog
    <2>3. j <= Backlog
      BY <2>1, <2>2
    <2>4. up[cur][j].cmd = "IMAGE"
      BY <1>1, <2>1, <2>3 DEF Upstream
    <2> QED
      BY <1>3, <2>4
  <1> QED
    BY <1>2, <1>3

\* A call returns.
LEMMA ReturnStep ==
  ASSUME IInv, Outcome, Awaited, UNCHANGED <<n, cur, up, executed>>, pc' = "idle",
         \A i \in Calls : i # n => calls'[i] = calls[i],
         calls'[n].cmd = calls[n].cmd,
         calls'[n].result \notin {"Unused", "Pending"},
         calls'[n].clean => clean /\ Outstanding = 0,
         calls'[n].clean /\ calls[n].cmd \in AckCommands =>
            /\ calls'[n].result = "Ok" => executed[n] = 1
            /\ calls'[n].result \in {"Rejected", "Cancelled"} => executed[n] = 0
            /\ calls'[n].result # "Protocol"
  PROVE  Outcome'
  <1>1. TypeOK /\ Pending /\ Leftovers /\ Once /\ Settled
    BY DEF IInv, Outcome
  <1>2. n \in Calls /\ n \in Nat
    BY <1>1, Ranges
  <1>3. Pending'
    BY ZenonT(30), <1>1, <1>2 DEF Pending, Awaited
  <1>4. Leftovers'
    <2> SUFFICES ASSUME NEW c \in Conns, NEW j \in DOMAIN up[c], up[c][j].cmd # "IMAGE"
                 PROVE  Unsettled(up[c][j].id)'
      BY DEF Leftovers, Awaited
    <2>1. Unsettled(up[c][j].id) /\ up[c][j].id \in Calls
      BY <1>1, CellRanges DEF Leftovers
    <2>2. CASE up[c][j].id # n
      BY <2>1, <2>2 DEF Unsettled, HasReturned
    <2>3. CASE up[c][j].id = n
      <3>1. ~calls'[n].clean
        BY <2>3, NothingLeft
      <3> QED
        BY <1>2, <2>3, <3>1 DEF Unsettled
    <2> QED
      BY <2>2, <2>3
  <1>5. Once'
    BY <1>1 DEF Once, EndsAt
  <1>6. Told'
    BY DEF Told
  <1>7. Settled'
    <2> SUFFICES ASSUME NEW i \in Calls, calls'[i].clean, calls'[i].cmd \in AckCommands
                 PROVE  /\ calls'[i].result = "Ok" => executed[i] = 1
                        /\ calls'[i].result \in {"Rejected", "Cancelled"} => executed[i] = 0
                        /\ calls'[i].result # "Protocol"
      BY DEF Settled
    <2>1. CASE i = n
      BY <2>1
    <2>2. CASE i # n
      BY <1>1, <2>2 DEF Settled
    <2> QED
      BY <2>1, <2>2
  <1> QED
    BY <1>3, <1>4, <1>5, <1>6, <1>7 DEF Outcome

\* A call begins, or fails at once before anything is sent.
LEMMA BeginStep ==
  ASSUME IInv, Outcome, pc = "idle", n + 1 \in Calls, n' = n + 1,
         UNCHANGED <<up, executed>>,
         \A i \in Calls : i # n + 1 => calls'[i] = calls[i],
         \/ calls'[n + 1].result = "Pending" /\ calls'[n + 1].clean /\ pc' \in {"writing", "fetching"}
         \/ calls'[n + 1].result = "Protocol" /\ pc' = "idle" /\ calls'[n + 1].cmd \notin AckCommands,
         pc' = "fetching" => calls'[n + 1].cmd = "IMAGE"
  PROVE  Outcome'
  <1>1. TypeOK /\ Pending /\ Leftovers /\ Once /\ Settled /\ n \in Nat
    BY Ranges DEF IInv, Outcome
  <1>2. \A i \in Calls : i \in Nat /\ (i <= n + 1 <=> i <= n \/ i = n + 1)
    BY <1>1, Ranges
  <1>3. \A i \in Calls : calls[i].result # "Pending"
    BY <1>1 DEF Pending, Awaited
  <1>4. Pending'
    BY <1>1, <1>2, <1>3 DEF Pending, Awaited
  <1>5. Leftovers'
    <2> SUFFICES ASSUME NEW c \in Conns, NEW j \in DOMAIN up[c], up[c][j].cmd # "IMAGE"
                 PROVE  Unsettled(up[c][j].id)' /\ up[c][j].id # n + 1
      BY DEF Leftovers
    <2>1. Unsettled(up[c][j].id) /\ up[c][j].id \in Calls
      BY <1>1, CellRanges DEF Leftovers
    <2>2. up[c][j].id <= n /\ up[c][j].id \in Nat
      BY <1>2, <2>1 DEF Unsettled
    <2>3. up[c][j].id # n + 1 /\ up[c][j].id <= n + 1
      BY <1>1, <2>2
    <2> QED
      BY <2>1, <2>3 DEF Unsettled, HasReturned
  <1>6. Once'
    BY <1>1, <1>2 DEF Once, EndsAt
  <1>7. Told'
    BY DEF Told
  <1>8. Settled'
    <2> SUFFICES ASSUME NEW i \in Calls, calls'[i].clean, calls'[i].cmd \in AckCommands
                 PROVE  /\ calls'[i].result = "Ok" => executed[i] = 1
                        /\ calls'[i].result \in {"Rejected", "Cancelled"} => executed[i] = 0
                        /\ calls'[i].result # "Protocol"
      BY DEF Settled
    <2>1. CASE i = n + 1
      BY <2>1
    <2>2. CASE i # n + 1
      BY <1>1, <2>2 DEF Settled
    <2> QED
      BY <2>1, <2>2
  <1> QED
    BY <1>4, <1>5, <1>6, <1>7, <1>8 DEF Outcome

\* Neither a call nor the daemon makes a step.
LEMMA StillStep ==
  ASSUME IInv, Outcome, UNCHANGED <<n, calls, up, executed>>,
         pc' \notin {"writing", "reading"},
         IF pc' \in {"fetching", "forwarding"}
         THEN pc \in {"fetching", "forwarding"} /\ cur' = cur
         ELSE ~Awaited
  PROVE  Outcome'
  <1>1. Pending /\ Leftovers /\ Once /\ Settled
    BY DEF Outcome
  <1>2. Awaited' => Awaited /\ cur' = cur
    BY DEF Awaited
  <1>3. Awaited => Awaited'
    BY DEF Awaited
  <1>4. Pending'
    BY <1>1, <1>2, <1>3 DEF Pending
  <1>5. Leftovers'
    BY <1>1, <1>2 DEF Leftovers, Unsettled, HasReturned
  <1>6. Once' /\ Told' /\ Settled'
    BY <1>1 DEF Once, EndsAt, Told, Settled
  <1> QED
    BY <1>4, <1>5, <1>6 DEF Outcome

\* A method returns with a result and what it has read.
LEMMA ReturnEffect ==
  ASSUME TypeOK, n \in Calls, NEW result, NEW reply, Return(result, reply)
  PROVE  /\ pc' = "idle" /\ \A i \in Calls : i # n => calls'[i] = calls[i]
         /\ calls'[n].cmd = calls[n].cmd /\ calls'[n].result = result
         /\ calls'[n].clean = clean
  <1>1. calls \in [Calls -> CallRecord] /\ calls[n] \in CallRecord
    BY DEF TypeOK
  <1>2. calls' = [calls EXCEPT ![n].result = result, ![n].from = reply.to,
                               ![n].type = reply.type, ![n].clean = clean]
    BY DEF Return
  <1> QED
    BY <1>1, <1>2 DEF Return, CallRecord

\* A method is called.
LEMMA BeginSteps ==
  ASSUME IInv, Outcome, (\E cmd \in Commands : Request(cmd)) \/ stream \/ stream_file_unopened
  PROVE  Outcome'
  <1>1. TypeOK /\ Between /\ calls \in [Calls -> CallRecord]
    BY DEF IInv, TypeOK
  <1>2. pc = "idle" /\ n < MaxCalls /\ n' = n + 1 /\ UNCHANGED <<up, executed, sent>>
    BY DEF Request, stream, stream_file_unopened, Begin, Available, wire, daemon
  <1>3. n + 1 \in Calls
    BY <1>1, <1>2, Ranges
  <1>4. ASSUME NEW rec, calls' = [calls EXCEPT ![n + 1] = rec]
        PROVE  calls'[n + 1] = rec /\ \A i \in Calls : i # n + 1 => calls'[i] = calls[i]
    BY <1>1, <1>3, <1>4
  <1>5. CASE \E cmd \in Commands : Request(cmd)
    <2>1. PICK cmd \in Commands : Request(cmd)
      BY <1>5
    <2>2. pc' = "writing" /\ calls' = [calls EXCEPT ![n + 1] =
             [cmd |-> cmd, result |-> "Pending", from |-> 0, type |-> "none", clean |-> TRUE]]
      BY <2>1 DEF Request, Begin
    <2>3. calls'[n + 1].result = "Pending" /\ calls'[n + 1].clean
          /\ \A i \in Calls : i # n + 1 => calls'[i] = calls[i]
      BY <1>4, <2>2
    <2> QED
      BY <1>2, <1>3, <2>2, <2>3, BeginStep
  <1>6. CASE stream
    <2>2. pc' = "fetching" /\ calls' = [calls EXCEPT ![n + 1] =
             [cmd |-> "IMAGE", result |-> "Pending", from |-> 0, type |-> "none", clean |-> TRUE]]
      BY <1>6 DEF stream, Begin
    <2>3. calls'[n + 1].result = "Pending" /\ calls'[n + 1].clean /\ calls'[n + 1].cmd = "IMAGE"
          /\ \A i \in Calls : i # n + 1 => calls'[i] = calls[i]
      BY <1>4, <2>2
    <2> QED
      BY <1>2, <1>3, <2>2, <2>3, BeginStep
  <1>7. CASE stream_file_unopened
    <2>2. pc' = "idle" /\ calls' = [calls EXCEPT ![n + 1] =
             [cmd |-> "IMAGE", result |-> "Protocol", from |-> 0, type |-> "none", clean |-> clean]]
      BY <1>2, <1>7 DEF stream_file_unopened
    <2>3. calls'[n + 1].result = "Protocol" /\ calls'[n + 1].cmd = "IMAGE"
          /\ \A i \in Calls : i # n + 1 => calls'[i] = calls[i]
      BY <1>4, <2>2
    <2> QED
      BY <1>2, <1>3, <2>2, <2>3, BeginStep DEF AckCommands
  <1> QED
    BY <1>5, <1>6, <1>7

\* The caller's other steps: fetching, dropping, reconnecting.
LEMMA StillSteps ==
  ASSUME IInv, Outcome,
         \/ Fetch \/ DropInstallation \/ reconnect \/ Connected \/ Unconnected \/ DropClient
         \/ Cancel /\ pc = "connecting"
  PROVE  Outcome'
  <1>1. UNCHANGED <<n, calls, up, executed>>
    BY DEF Fetch, DropInstallation, reconnect, Connected, Unconnected, DropClient, Cancel, wire, daemon
  <1>2. CASE Fetch
    BY <1>1, <1>2, StillStep DEF Fetch
  <1>3. CASE ~Fetch
    <2>1. pc \in {"idle", "connecting"} /\ pc' \in {"idle", "connecting", "dropped"}
      BY <1>3 DEF DropInstallation, reconnect, Connected, Unconnected, DropClient, Cancel, Available
    <2> QED
      BY <1>1, <2>1, StillStep DEF Awaited
  <1> QED
    BY <1>2, <1>3

\* The ways to return without a reply.
LEMMA FailingSteps ==
  ASSUME IInv, Outcome, ConnectionLost \/ FetchNone \/ (Cancel /\ pc # "connecting")
  PROVE  Outcome'
  <1>1. TypeOK /\ Between /\ Once /\ Pending
    BY DEF IInv, Outcome
  <1>2. Awaited /\ n \in Calls
    <2>1. Awaited
      BY <1>1 DEF ConnectionLost, LostWrite, LostRead, FetchNone, Cancel, Awaited, TypeOK
    <2> QED
      BY <1>1, <2>1, Ranges
  <1>3. UNCHANGED <<n, cur, up, executed>>
    BY DEF ConnectionLost, FetchNone, Cancel, wire, daemon
  <1>4. ASSUME sent = 0 \/ pc # "writing", pc # "reading" \/ ~dopen[cur] \/ Answered
        PROVE  Outstanding = 0
    BY <1>4 DEF Outstanding
  <1>5. CASE ConnectionLost
    <2>1. /\ pc' = "idle" /\ \A i \in Calls : i # n => calls'[i] = calls[i]
          /\ calls'[n].cmd = calls[n].cmd /\ calls'[n].result = "Connection"
          /\ calls'[n].clean = clean
      BY <1>1, <1>2, <1>5, ReturnEffect DEF ConnectionLost
    <2>2. Outstanding = 0
      <3>1. CASE ~dopen[cur]
        BY <3>1 DEF Outstanding
      <3>2. CASE dopen[cur]
        BY <1>1, <1>5, <3>2 DEF ConnectionLost, LostWrite, LostRead, Writable, Between, Outstanding
      <3> QED
        BY <3>1, <3>2
    <2> QED
      BY <1>2, <1>3, <2>1, <2>2, ReturnStep
  <1>6. CASE FetchNone
    <2>1. PICK result \in {"Ok", "Connection"} : Return(result, NoReply)
      BY <1>6 DEF FetchNone
    <2>2. /\ pc' = "idle" /\ \A i \in Calls : i # n => calls'[i] = calls[i]
          /\ calls'[n].cmd = calls[n].cmd /\ calls'[n].result = result
          /\ calls'[n].clean = clean
      BY <1>1, <1>2, <2>1, ReturnEffect
    <2>3. Outstanding = 0 /\ calls[n].cmd \notin AckCommands
      BY <1>1, <1>6 DEF FetchNone, Outstanding, Pending, AckCommands
    <2> QED
      BY <1>2, <1>3, <2>2, <2>3, ReturnStep
  <1>7. CASE Cancel /\ pc # "connecting"
    <2>1. /\ pc' = "idle" /\ clean' = (clean /\ pc # "reading" /\ sent = 0)
          /\ calls' = [calls EXCEPT ![n].result = "Cancelled", ![n].clean = clean']
      BY <1>7 DEF Cancel
    <2>2. /\ \A i \in Calls : i # n => calls'[i] = calls[i]
          /\ calls'[n].cmd = calls[n].cmd /\ calls'[n].result = "Cancelled"
          /\ calls'[n].clean = clean'
      <3>1. calls \in [Calls -> CallRecord] /\ calls[n] \in CallRecord
        BY <1>1, <1>2 DEF TypeOK
      <3> DEFINE k == clean'
      <3>2. calls' = [calls EXCEPT ![n].result = "Cancelled", ![n].clean = k]
        BY <2>1
      <3> HIDE DEF k
      <3>3. /\ \A i \in Calls : i # n => calls'[i] = calls[i]
            /\ calls'[n].cmd = calls[n].cmd /\ calls'[n].result = "Cancelled"
            /\ calls'[n].clean = k
        BY <1>2, <3>1, <3>2 DEF CallRecord
      <3> QED
        BY <3>3 DEF k
    <2>3. calls'[n].clean => clean /\ pc # "reading" /\ sent = 0
      BY <2>1, <2>2, Zenon
    <2>4. calls'[n].clean => Outstanding = 0
      BY <2>3 DEF Outstanding
    <2>5. calls'[n].clean /\ calls[n].cmd \in AckCommands => executed[n] = 0
      <3>1. calls[n].cmd \in AckCommands => pc \notin {"fetching", "forwarding"}
        BY <1>1 DEF Pending, AckCommands
      <3> QED
        BY <1>1, <1>2, <2>3, <3>1 DEF Once, Awaited
    <2> QED
      BY <1>2, <1>3, <2>1, <2>2, <2>3, <2>4, <2>5, ReturnStep
  <1> QED
    BY <1>5, <1>6, <1>7

\* A reply is read, in part or to its end.
LEMMA ReadSteps ==
  ASSUME IInv, Outcome, ReadReply
  PROVE  Outcome'
  <1> DEFINE m == Append(got, Head(down[cur]))
  <1>1. /\ TypeOK /\ Between /\ Cleanly /\ Pending /\ Leftovers /\ Once /\ Told /\ Settled
        /\ got \in Seq(ReplyCell) /\ cur \in Conns /\ down[cur] \in Seq(ReplyCell)
    BY DEF IInv, Outcome, TypeOK
  <1>2. /\ pc = "reading" /\ down[cur] # <<>> /\ Answered /\ Awaited /\ n \in Calls
        /\ UNCHANGED <<n, cur, clean, up, dopen, executed>>
        /\ down' = [down EXCEPT ![cur] = Tail(@)]
    BY <1>1, Ranges DEF ReadReply, Answered, Awaited, daemon
  <1>3. /\ Head(down[cur]) = down[cur][1] /\ Tail(down[cur]) \in Seq(ReplyCell)
        /\ 1 \in DOMAIN down[cur]
        /\ \A j \in DOMAIN Tail(down[cur]) : j + 1 \in DOMAIN down[cur] /\ Tail(down[cur])[j] = down[cur][j + 1]
    BY <1>1, <1>2
  <1>4. /\ Len(m) = Len(got) + 1 /\ DOMAIN m = 1..(Len(got) + 1) /\ Len(got) \in Nat
        /\ DOMAIN got = 1..Len(got)
        /\ \A j \in 1..Len(got) : m[j] = got[j]
        /\ m[Len(got) + 1] = down[cur][1]
    BY <1>1, <1>2, <1>3, AppendProperties
  <1>5. ASSUME clean, calls[n].cmd \in AckCommands, NEW j \in DOMAIN m
        PROVE  Tells(m[j].type)
    <2>1. j \in 1..Len(got) \/ j = Len(got) + 1
      BY <1>4
    <2> QED
      BY <1>1, <1>2, <1>3, <1>4, <1>5, <2>1 DEF Told
  <1>6. CASE ~ReadExact(m)
    <2>1. got' = m /\ UNCHANGED <<pc, calls, sent>>
      BY <1>6 DEF ReadReply
    <2>2. Pending' /\ Leftovers' /\ Once' /\ Settled'
      BY <1>1, <1>2, <2>1 DEF Pending, Leftovers, Once, Settled, Awaited, Unsettled, HasReturned, EndsAt
    <2>3. Told'
      <3>1. got' # <<>>
        BY <1>4, <2>1
      <3>2. down'[cur] = Tail(down[cur])
        BY <1>1, <1>2 DEF TypeOK
      <3>3. ASSUME clean, calls[n].cmd \in AckCommands, NEW j \in DOMAIN Tail(down[cur])
            PROVE  Tells(Tail(down[cur])[j].type)
        BY <1>1, <1>2, <1>3, <3>3 DEF Told
      <3>4. \A type : Tells(type)' <=> Tells(type)
        BY <1>2 DEF Tells
      <3> QED
        BY <1>2, <1>5, <2>1, <3>1, <3>2, <3>3, <3>4 DEF Told, Answered
    <2> QED
      BY <2>2, <2>3 DEF Outcome
  <1>7. CASE ReadExact(m)
    <2>0. PICK type \in Responses(m) : \E result \in Returned(calls[n].cmd, type) :
             Return(result, [to |-> m[1].to, type |-> type])
      BY <1>7 DEF ReadReply
    <2>1. PICK result \in Returned(calls[n].cmd, type) :
             Return(result, [to |-> m[1].to, type |-> type])
      BY <2>0
    <2>2. /\ pc' = "idle" /\ \A i \in Calls : i # n => calls'[i] = calls[i]
          /\ calls'[n].cmd = calls[n].cmd /\ calls'[n].result = result
          /\ calls'[n].clean = clean
      BY <1>1, <1>2, <2>1, ReturnEffect
    <2>3. calls[n].cmd \in Commands
      BY <1>1, <1>2 DEF TypeOK
    <2>4. result \notin {"Unused", "Pending"}
      BY <2>1, <2>3, ConstantsAssumption DEF Returned, send_and_expect_ack, get_status,
         get_update_state, get_hw_revision, get_swupdate_var, Queries
    <2>5. Outstanding = 0
      BY <1>2 DEF Outstanding
    <2>6. ASSUME clean, calls[n].cmd \in AckCommands
          PROVE  /\ result = "Ok" => executed[n] = 1
                 /\ result \in {"Rejected", "Cancelled"} => executed[n] = 0
                 /\ result # "Protocol"
      <3>1. m[1].part = 1
        BY <1>1, <1>2, <1>7, <2>6, FullReply DEF Cleanly
      <3>2. type = m[1].type
        BY <2>0, <3>1 DEF Responses
      <3>3. Tells(m[1].type)
        BY <1>4, <1>5, <2>6
      <3>4. result \in send_and_expect_ack(type)
        BY <2>1, <2>6 DEF Returned, AckCommands
      <3> QED
        BY <3>2, <3>3, <3>4 DEF Tells, send_and_expect_ack
    <2> QED
      BY <1>2, <2>2, <2>4, <2>5, <2>6, ReturnStep
  <1> QED
    BY <1>6, <1>7

-----------------------------------------------------------------------------
(* Writes.                                                                  *)

\* The socket after a write.
LEMMA WriteEffect ==
  ASSUME TypeOK, NEW cell, Write(cell)
  PROVE  /\ \A c \in Conns : c # cur => up'[c] = up[c]
         /\ DOMAIN up'[cur] = 1..(Len(up[cur]) + 1) /\ DOMAIN up[cur] = 1..Len(up[cur])
         /\ Len(up[cur]) \in Nat
         /\ \A j \in DOMAIN up[cur] : up'[cur][j] = up[cur][j]
         /\ up'[cur][Len(up[cur]) + 1] = cell
         /\ \A c \in Conns : \A j \in DOMAIN up'[c] :
               \/ j \in DOMAIN up[c] /\ up'[c][j] = up[c][j]
               \/ c = cur /\ j = Len(up[cur]) + 1 /\ up'[c][j] = cell
  <1> DEFINE u == up[cur]
             S == RequestCell \cup ImageCell \cup {cell}
  <1>1. u \in Seq(S) /\ Len(u) \in Nat /\ DOMAIN u = 1..Len(u) /\ cell \in S
    <2>1. u \in Seq(RequestCell \cup ImageCell)
      BY DEF TypeOK
    <2> QED
      BY <2>1
  <1>2. up' = [up EXCEPT ![cur] = Append(u, cell)] /\ cur \in Conns /\ DOMAIN up = Conns
    BY DEF Write, TypeOK
  <1>3. /\ Len(Append(u, cell)) = Len(u) + 1 /\ DOMAIN Append(u, cell) = 1..(Len(u) + 1)
        /\ \A j \in 1..Len(u) : Append(u, cell)[j] = u[j]
        /\ Append(u, cell)[Len(u) + 1] = cell
    <2> HIDE DEF u, S
    <2> QED
      BY <1>1, AppendProperties
  <1>4. up'[cur] = Append(u, cell) /\ \A c \in Conns : c # cur => up'[c] = up[c]
    BY <1>2
  <1>5. \A j \in 1..(Len(u) + 1) : j \in 1..Len(u) \/ j = Len(u) + 1
    BY <1>1
  <1> QED
    BY <1>1, <1>3, <1>4, <1>5

\* A cell of the request is written, the last of them once.
LEMMA RequestSteps ==
  ASSUME IInv, Outcome, WriteRequest
  PROVE  Outcome'
  <1> DEFINE cell == [id |-> n, cmd |-> calls[n].cmd, part |-> sent + 1]
             L == Len(up[cur])
  <1>1. /\ TypeOK /\ Cleanly /\ Between /\ Pending /\ Leftovers /\ Once /\ Settled
        /\ n \in Calls /\ n \in Nat /\ Awaited /\ Awaited'
    BY Ranges DEF IInv, Outcome, WriteRequest, Awaited
  <1>2. /\ pc = "writing" /\ Write(cell) /\ UNCHANGED <<n, calls, got, cur, clean, down, dopen, executed>>
        /\ sent + 1 # MsgCells => sent' = sent + 1 /\ pc' = "writing"
        /\ sent + 1 = MsgCells => pc' = "reading"
    BY DEF WriteRequest, daemon
  <1>3. /\ L \in Nat /\ DOMAIN up[cur] = 1..L
        /\ \A c \in Conns : \A j \in DOMAIN up'[c] :
               \/ j \in DOMAIN up[c] /\ up'[c][j] = up[c][j]
               \/ c = cur /\ j = L + 1 /\ up'[c][j] = cell
    BY <1>1, <1>2, WriteEffect
  <1>4. Pending'
    BY <1>1, <1>2 DEF Pending
  <1>5. sent \in Nat /\ sent < MsgCells /\ MsgCells \in Nat
    BY <1>1, Ranges
  <1>6. ASSUME NEW c \in Conns, NEW j \in DOMAIN up[c], up[c][j].cmd # "IMAGE", up[c][j].id = n
        PROVE  up[c][j].part <= sent /\ up[c][j].part \in Nat
    BY <1>1, <1>2, <1>6, CellRanges, Ranges DEF Leftovers
  <1>7. Leftovers'
    <2> SUFFICES ASSUME NEW c \in Conns, NEW j \in DOMAIN up'[c], up'[c][j].cmd # "IMAGE"
                 PROVE  /\ Unsettled(up'[c][j].id)
                        /\ up'[c][j].id = n => c = cur
                        /\ pc' = "writing" /\ up'[c][j].id = n => up'[c][j].part <= sent'
      BY <1>2 DEF Leftovers, Unsettled, HasReturned
    <2>1. CASE j \in DOMAIN up[c] /\ up'[c][j] = up[c][j]
      <3>1. Unsettled(up[c][j].id) /\ (up[c][j].id = n => c = cur)
        BY <1>1, <2>1 DEF Leftovers
      <3>2. pc' = "writing" /\ up[c][j].id = n => up[c][j].part <= sent'
        BY <1>2, <1>5, <1>6, <2>1
      <3> QED
        BY <2>1, <3>1, <3>2
    <2>2. CASE c = cur /\ j = L + 1 /\ up'[c][j] = cell
      <3>1. Unsettled(n)
        BY <1>1 DEF Unsettled, Pending, HasReturned
      <3> QED
        BY <1>2, <1>5, <2>2, <3>1
    <2> QED
      BY <1>3, <2>1, <2>2
  <1>8. Once'
    <2>1. ASSUME NEW c \in Conns, NEW j \in DOMAIN up'[c], NEW i \in Calls, EndsAt(c, j, i)'
          PROVE  \/ EndsAt(c, j, i) /\ i # n /\ j \in DOMAIN up[c]
                 \/ c = cur /\ j = L + 1 /\ i = n
      <3>1. up'[c][j].cmd # "IMAGE" /\ up'[c][j].id = i /\ up'[c][j].part = MsgCells
        BY <2>1 DEF EndsAt
      <3>2. CASE j \in DOMAIN up[c] /\ up'[c][j] = up[c][j]
        <4>1. EndsAt(c, j, i)
          BY <3>1, <3>2 DEF EndsAt
        <4>2. i # n
          <5>1. i = n => MsgCells <= sent
            BY <1>6, <3>1, <3>2
          <5> QED
            BY <1>5, <5>1
        <4> QED
          BY <3>2, <4>1, <4>2
      <3>3. CASE c = cur /\ j = L + 1 /\ up'[c][j] = cell
        BY <3>1, <3>3
      <3> QED
        BY <1>3, <3>2, <3>3
    <2>2. executed[n] = 0
      BY <1>1, <1>2 DEF Once
    <2>3. ASSUME NEW i \in Calls, NEW c \in Conns, NEW j \in DOMAIN up'[c], EndsAt(c, j, i)'
          PROVE  executed[i] = 0
      BY <1>1, <2>1, <2>2, <2>3 DEF Once
    <2>4. ASSUME NEW i \in Calls, NEW c \in Conns, NEW j \in DOMAIN up'[c], EndsAt(c, j, i)',
                 NEW d \in Conns, NEW k \in DOMAIN up'[d], EndsAt(d, k, i)'
          PROVE  c = d /\ j = k
      BY <1>1, <2>1, <2>4 DEF Once
    <2> QED
      BY <1>1, <1>2, <2>2, <2>3, <2>4 DEF Once
  <1>9. Told'
    <2>1. clean => got = <<>> /\ down[cur] = <<>>
      BY <1>1, <1>2 DEF Cleanly, Downstream, Answered
    <2>2. executed'[n'] = 0
      BY <1>1, <1>2 DEF Once
    <2> QED
      BY <1>2, <2>1, <2>2 DEF Told
  <1>10. Settled'
    BY <1>1, <1>2 DEF Settled
  <1> QED
    BY <1>4, <1>7, <1>8, <1>9, <1>10 DEF Outcome

\* Image data is not a request.
LEMMA ForwardSteps ==
  ASSUME IInv, Outcome, Forward
  PROVE  Outcome'
  <1> DEFINE cell == [id |-> n, cmd |-> "IMAGE", part |-> pos]
             L == Len(up[cur])
  <1>1. TypeOK /\ Pending /\ Leftovers /\ Once /\ Settled
    BY DEF IInv, Outcome
  <1>2. /\ pc = "forwarding" /\ pc' = "fetching" /\ Write(cell)
        /\ UNCHANGED <<n, calls, cur, executed>> /\ Awaited /\ Awaited'
    BY DEF Forward, daemon, Awaited
  <1>3. \A c \in Conns : \A j \in DOMAIN up'[c] : up'[c][j].cmd # "IMAGE" =>
            j \in DOMAIN up[c] /\ up'[c][j] = up[c][j]
    BY <1>1, <1>2, WriteEffect
  <1>4. Pending' /\ Settled' /\ Told'
    BY <1>1, <1>2 DEF Pending, Settled, Told
  <1>5. Leftovers'
    BY <1>1, <1>2, <1>3 DEF Leftovers, Unsettled, HasReturned
  <1>6. \A i \in Calls : \A c \in Conns : \A j \in DOMAIN up'[c] :
            EndsAt(c, j, i)' => j \in DOMAIN up[c] /\ EndsAt(c, j, i)
    BY <1>3 DEF EndsAt
  <1>7. Once'
    BY <1>1, <1>2, <1>6 DEF Once
  <1> QED
    BY <1>4, <1>5, <1>7 DEF Outcome

-----------------------------------------------------------------------------
(* Steps of the daemon.                                                     *)

\* The daemon takes cells off the front of a socket; what it carries out is then in
\* no socket any more.
LEMMA ShrinkStep ==
  ASSUME IInv, Outcome, UNCHANGED client, NEW c \in Conns, NEW s \in Nat,
         \A d \in Conns : d # c => up'[d] = up[d],
         \A j \in DOMAIN up'[c] :
            j \in Nat /\ j + s \in DOMAIN up[c] /\ up'[c][j] = up[c][j + s],
         \A i \in Calls : \/ executed'[i] = executed[i]
                         \/ /\ executed'[i] = 1 /\ Unsettled(i) /\ ~(pc = "writing" /\ i = n)
                            /\ \A d \in Conns : \A j \in DOMAIN up'[d] : ~EndsAt(d, j, i)',
         Told'
  PROVE  Outcome'
  <1>1. TypeOK /\ Pending /\ Leftovers /\ Once /\ Settled
    BY DEF IInv, Outcome
  <1>2. UNCHANGED <<pc, n, calls, sent, cur, clean>>
    BY DEF client
  <1>3. Pending'
    BY <1>1, <1>2 DEF Pending, Awaited
  <1> DEFINE at(d, j) == IF d = c THEN j + s ELSE j
  <1>4. ASSUME NEW d \in Conns, NEW j \in DOMAIN up'[d]
        PROVE  at(d, j) \in DOMAIN up[d] /\ up'[d][j] = up[d][at(d, j)]
    BY <1>4
  <1>5. Leftovers'
    <2> SUFFICES ASSUME NEW d \in Conns, NEW j \in DOMAIN up'[d], up'[d][j].cmd # "IMAGE"
                 PROVE  /\ Unsettled(up'[d][j].id)
                        /\ Awaited /\ up'[d][j].id = n => d = cur
                        /\ pc = "writing" /\ up'[d][j].id = n => up'[d][j].part <= sent
      BY <1>2 DEF Leftovers, Unsettled, HasReturned, Awaited
    <2> QED
      BY <1>1, <1>4 DEF Leftovers
  <1>6. ASSUME NEW i \in Calls, NEW d \in Conns, NEW j \in DOMAIN up'[d], EndsAt(d, j, i)'
        PROVE  EndsAt(d, at(d, j), i)
    BY <1>4, <1>6 DEF EndsAt
  <1>7. Once'
    <2>1. \A i \in Calls : executed'[i] \in {0, 1} /\ (i > n => executed'[i] = 0)
      <3> SUFFICES ASSUME NEW i \in Calls
                   PROVE  executed'[i] \in {0, 1} /\ (i > n => executed'[i] = 0)
        OBVIOUS
      <3>1. Unsettled(i) => ~(i > n)
        BY <1>1, Ranges DEF Unsettled
      <3> QED
        BY <1>1, <3>1 DEF Once
    <2>2. pc = "writing" => executed'[n] = 0
      BY <1>1, Ranges DEF Once, Awaited
    <2>3. ASSUME NEW i \in Calls, NEW d \in Conns, NEW j \in DOMAIN up'[d], EndsAt(d, j, i)'
          PROVE  executed'[i] = 0
      <3>1. executed[i] = 0
        BY <1>1, <1>4, <1>6, <2>3 DEF Once
      <3> QED
        BY <2>3, <3>1
    <2>4. ASSUME NEW i \in Calls, NEW d \in Conns, NEW j \in DOMAIN up'[d], EndsAt(d, j, i)',
                 NEW e \in Conns, NEW k \in DOMAIN up'[e], EndsAt(e, k, i)'
          PROVE  d = e /\ j = k
      <3>1. EndsAt(d, at(d, j), i) /\ EndsAt(e, at(e, k), i)
        BY <1>6, <2>4
      <3>2. d = e /\ at(d, j) = at(e, k)
        BY <1>1, <1>4, <3>1 DEF Once
      <3>3. CASE d = c
        <4>1. j + s = k + s /\ j \in Nat /\ k \in Nat
          BY <3>2, <3>3
        <4> QED
          BY <3>2, <4>1
      <3>4. CASE d # c
        BY <3>2, <3>4
      <3> QED
        BY <3>3, <3>4
    <2> QED
      BY <1>2, <2>1, <2>2, <2>3, <2>4 DEF Once
  <1>8. Settled'
    <2> SUFFICES ASSUME NEW i \in Calls, calls[i].clean, calls[i].cmd \in AckCommands
                 PROVE  /\ calls[i].result = "Ok" => executed'[i] = 1
                        /\ calls[i].result \in {"Rejected", "Cancelled"} => executed'[i] = 0
                        /\ calls[i].result # "Protocol"
      BY <1>2 DEF Settled
    <2>1. Unsettled(i) => calls[i].result \in {"Unused", "Pending"}
      BY DEF Unsettled, HasReturned
    <2> QED
      BY <1>1, <2>1 DEF Settled
  <1> QED
    BY <1>3, <1>5, <1>7, <1>8 DEF Outcome

\* A message is taken: MsgCells cells.
LEMMA TakeFacts ==
  ASSUME TypeOK, NEW c \in Conns, HasMessage(c), TakeMessage(c)
  PROVE  /\ \A d \in Conns : d # c => up'[d] = up[d]
         /\ \A j \in DOMAIN up'[c] :
               j \in Nat /\ j > 0 /\ j + MsgCells \in DOMAIN up[c] /\ up'[c][j] = up[c][j + MsgCells]
  <1> DEFINE u == up[c]
             t == SubSeq(u, MsgCells + 1, Len(u))
  <1>1. u \in Seq(RequestCell \cup ImageCell) /\ Len(u) \in Nat /\ DOMAIN u = 1..Len(u)
        /\ MsgCells \in Nat /\ MsgCells > 0
    BY CellRanges, Ranges
  <1>2. up'[c] = t /\ \A d \in Conns : d # c => up'[d] = up[d]
    BY DEF TakeMessage, TypeOK
  <1>3. Len(u) >= MsgCells
    BY DEF HasMessage
  <1>4. DOMAIN t = 1..(Len(u) - MsgCells) /\ \A j \in 1..(Len(u) - MsgCells) : t[j] = u[j + MsgCells]
    <2> HIDE DEF u
    <2>1. DOMAIN t = 1..(Len(u) - MsgCells)
      BY <1>1, <1>3
    <2>2. \A j \in 1..(Len(u) - MsgCells) : t[j] = u[j + MsgCells]
      BY <1>1, <1>3
    <2> QED
      BY <2>1, <2>2
  <1>5. \A j \in 1..(Len(u) - MsgCells) : j \in Nat /\ j > 0 /\ j + MsgCells \in 1..Len(u)
    <2> HIDE DEF u
    <2> QED
      BY <1>1, <1>3
  <1> QED
    BY <1>1, <1>2, <1>4, <1>5

\* The request the daemon carries out, cell by cell.
LEMMA MessageFacts ==
  ASSUME TypeOK, NEW c \in Conns, HasMessage(c), IsRequest(Message(c))
  PROVE  /\ 1 \in DOMAIN up[c] /\ MsgCells \in DOMAIN up[c]
         /\ Message(c)[1] = up[c][1] /\ Message(c)[1].id \in Calls
         /\ EndsAt(c, MsgCells, Message(c)[1].id)
  <1> DEFINE u == up[c]
             m == Message(c)
             r == m[1].id
  <1>1. u \in Seq(RequestCell \cup ImageCell) /\ Len(u) \in Nat /\ DOMAIN u = 1..Len(u)
        /\ MsgCells \in Nat /\ MsgCells > 0 /\ Len(u) >= MsgCells
    BY CellRanges, Ranges DEF HasMessage
  <1>2. \A j \in 1..MsgCells : m[j] = u[j] /\ j \in DOMAIN u
    <2>1. \A j \in 1..MsgCells : SubSeq(u, 1, MsgCells)[j] = u[j] /\ j \in 1..Len(u)
      <3> HIDE DEF u
      <3> QED
        BY <1>1
    <2> QED
      BY <1>1, <2>1 DEF Message
  <1>3. 1 \in 1..MsgCells /\ MsgCells \in 1..MsgCells
    BY <1>1
  <1>4. m[1] \in RequestCell
    <2>1. m[1] = u[1] /\ u[1] \in RequestCell \cup ImageCell
      BY <1>1, <1>2, <1>3
    <2>2. m[1].cmd # "IMAGE"
      BY DEF IsRequest
    <2> QED
      BY <2>1, <2>2 DEF ImageCell
  <1>5. m[MsgCells] = [m[1] EXCEPT !.part = MsgCells]
    BY <1>3 DEF IsRequest, Whole
  <1>6. m[MsgCells].id = m[1].id /\ m[MsgCells].cmd = m[1].cmd /\ m[MsgCells].part = MsgCells
    <2> DEFINE x == m[1]
               y == m[MsgCells]
    <2>1. x \in RequestCell /\ y = [x EXCEPT !.part = MsgCells]
      BY <1>4, <1>5
    <2> HIDE DEF x, y
    <2>2. y.id = x.id /\ y.cmd = x.cmd /\ y.part = MsgCells
      BY <2>1 DEF RequestCell
    <2> QED
      BY <2>2 DEF x, y
  <1>7. m[1].id \in Calls /\ m[1].cmd # "IMAGE"
    BY <1>4 DEF IsRequest, RequestCell
  <1> QED
    BY <1>2, <1>3, <1>6, <1>7 DEF EndsAt

\* The cells of a reply to a caller that waits for it and has read nothing.
LEMMA ReplyCells ==
  ASSUME TypeOK, NEW to \in {0} \cup Calls, NEW type \in ReplyTypes, Reply(cur, to, type),
         pc = "reading", down[cur] = <<>>
  PROVE  down'[cur] # <<>> /\ \A j \in DOMAIN down'[cur] : down'[cur][j].type = type
  <1> DEFINE reply == [j \in 1..MsgCells |-> [to |-> to, type |-> type, part |-> j]]
  <1>1. cur \in Conns /\ down \in [Conns -> Seq(ReplyCell)] /\ MsgCells \in Nat /\ MsgCells > 0
    BY Ranges DEF TypeOK
  <1>2. reply \in Seq(ReplyCell) /\ Len(reply) = MsgCells /\ DOMAIN reply = 1..MsgCells
    BY <1>1 DEF ReplyCell
  <1>3. down' = [down EXCEPT ![cur] = @ \o reply]
    BY DEF Reply
  <1>4. down'[cur] = <<>> \o reply
    BY <1>1, <1>3
  <1>5. <<>> \o reply = reply
    <2> HIDE DEF reply
    <2> QED
      BY <1>2
  <1>6. down'[cur] = reply
    BY <1>4, <1>5
  <1>7. reply # <<>>
    BY SMTT(30), <1>1, <1>2
  <1>8. \A j \in DOMAIN reply : reply[j].type = type
    OBVIOUS
  <1> QED
    BY <1>6, <1>7, <1>8

\* Whatever answer a request is given, it tells what was done.
LEMMA AnswerTold ==
  ASSUME IInv, Outcome, UNCHANGED <<client, dopen>>, NEW c \in Conns, HasMessage(c),
         NEW to \in {0} \cup Calls, NEW type \in ReplyTypes, Reply(c, to, type),
         c = cur /\ clean /\ calls[n].cmd \in AckCommands => Tells(type)',
         c # cur /\ pc = "reading" => executed'[n] = executed[n]
  PROVE  Told'
  <1>1. TypeOK /\ Told /\ cur \in Conns
    BY DEF IInv, Outcome, TypeOK
  <1>2. UNCHANGED <<pc, n, calls, got, cur, clean>> /\ dopen' = dopen
    BY DEF client
  <1> SUFFICES ASSUME clean, pc = "reading" PROVE Told'
    BY <1>2 DEF Told
  <1>3. CASE c # cur
    <2>1. down'[cur] = down[cur]
      BY <1>1, <1>3 DEF Reply, TypeOK
    <2>2. \A t : Tells(t)' <=> Tells(t)
      BY <1>2, <1>3 DEF Tells
    <2>3. Answered' <=> Answered
      BY <1>2, <2>1 DEF Answered
    <2> QED
      BY <1>1, <1>2, <1>3, <2>1, <2>2, <2>3 DEF Told
  <1>4. CASE c = cur
    <2>1. got = <<>> /\ down[cur] = <<>>
      BY <1>4, CurrentRequest DEF Answered
    <2>2. down'[cur] # <<>> /\ \A j \in DOMAIN down'[cur] : down'[cur][j].type = type
      BY <1>1, <1>4, <2>1, ReplyCells
    <2>3. Answered' /\ got' = <<>>
      BY <1>2, <2>1, <2>2 DEF Answered
    <2> QED
      BY <1>2, <1>4, <2>2, <2>3 DEF Told
  <1> QED
    BY <1>3, <1>4

\* The daemon carries a request out and says so.
LEMMA AcceptSteps ==
  ASSUME IInv, Outcome, NEW c \in Conns, DaemonAccept(c)
  PROVE  Outcome'
  <1>1. TypeOK /\ Leftovers /\ Once /\ Told
    BY DEF IInv, Outcome
  <1>0. PICK r \in Calls : r = Message(c)[1].id
    BY <1>1, MessageFacts DEF DaemonAccept
  <1>2. /\ HasMessage(c) /\ IsRequest(Message(c)) /\ TakeMessage(c) /\ UNCHANGED <<client, dopen>>
        /\ executed' = [executed EXCEPT ![r] = @ + 1]
        /\ \E type \in Accepting(Message(c)[1].cmd) : Reply(c, r, type)
    BY <1>0 DEF DaemonAccept
  <1>3. /\ 1 \in DOMAIN up[c] /\ MsgCells \in DOMAIN up[c] /\ r \in Calls
        /\ r = up[c][1].id /\ up[c][1].cmd # "IMAGE" /\ EndsAt(c, MsgCells, r)
    BY <1>0, <1>1, <1>2, MessageFacts DEF IsRequest
  <1>4. executed'[r] = 1 /\ executed[r] = 0 /\ \A i \in Calls : i # r => executed'[i] = executed[i]
    BY SMTT(30), <1>1, <1>2, <1>3 DEF Once, TypeOK
  <1>5. Unsettled(r) /\ (Awaited /\ r = n => c = cur)
    BY <1>1, <1>3 DEF Leftovers
  <1>6. ~(pc = "writing" /\ r = n)
    <2>1. pc = "writing" /\ r = n => MsgCells <= sent
      BY <1>1, <1>3 DEF Leftovers, EndsAt
    <2> QED
      BY <1>1, <2>1, Ranges
  <1>7. /\ \A d \in Conns : d # c => up'[d] = up[d]
        /\ \A j \in DOMAIN up'[c] :
              j \in Nat /\ j > 0 /\ j + MsgCells \in DOMAIN up[c] /\ up'[c][j] = up[c][j + MsgCells]
    BY <1>1, <1>2, TakeFacts
  <1>8. ASSUME NEW d \in Conns, NEW j \in DOMAIN up'[d], EndsAt(d, j, r)' PROVE FALSE
    <2>1. CASE d # c
      BY <1>1, <1>3, <1>7, <1>8, <2>1 DEF EndsAt, Once
    <2>2. CASE d = c
      <3>1. EndsAt(c, j + MsgCells, r) /\ j + MsgCells \in DOMAIN up[c]
        BY <1>7, <1>8, <2>2 DEF EndsAt
      <3>2. j + MsgCells = MsgCells
        BY <1>1, <1>3, <3>1 DEF Once
      <3> QED
        BY <1>1, <1>7, <2>2, <3>2, Ranges
    <2> QED
      BY <2>1, <2>2
  <1>9. Told'
    <2>1. PICK type \in Accepting(Message(c)[1].cmd) : Reply(c, r, type)
      BY <1>2
    <2>2. type \in ReplyTypes /\ r \in {0} \cup Calls
      BY <1>3 DEF Accepting, ReplyTypes
    <2>3. ASSUME c = cur, clean, calls[n].cmd \in AckCommands PROVE Tells(type)'
      <3>1. Message(c)[1] = RequestPart(1)
        BY <1>2, <2>3, CurrentRequest
      <3>2. r = n /\ Message(c)[1].cmd = calls[n].cmd
        BY <1>0, <3>1 DEF RequestPart
      <3>3. type = "ACK"
        BY <2>1, <2>3, <3>2 DEF Accepting, AckCommands, Queries
      <3>4. n' = n
        BY <1>2 DEF client
      <3> QED
        BY <1>4, <3>2, <3>3, <3>4 DEF Tells
    <2>4. ASSUME c # cur, pc = "reading" PROVE executed'[n] = executed[n]
      <3>1. Awaited /\ n \in Calls
        BY <1>1, <2>4, Ranges DEF Awaited
      <3> QED
        BY <1>4, <1>5, <2>4, <3>1
    <2> QED
      BY <1>2, <2>1, <2>2, <2>3, <2>4, AnswerTold
  <1>10. \A i \in Calls : \/ executed'[i] = executed[i]
                          \/ /\ executed'[i] = 1 /\ Unsettled(i) /\ ~(pc = "writing" /\ i = n)
                             /\ \A d \in Conns : \A j \in DOMAIN up'[d] : ~EndsAt(d, j, i)'
    <2> SUFFICES ASSUME NEW i \in Calls, executed'[i] # executed[i]
                 PROVE  /\ executed'[i] = 1 /\ Unsettled(i) /\ ~(pc = "writing" /\ i = n)
                        /\ \A d \in Conns : \A j \in DOMAIN up'[d] : ~EndsAt(d, j, i)'
      OBVIOUS
    <2>1. i = r
      BY <1>4
    <2> QED
      BY <1>4, <1>5, <1>6, <1>8, <2>1
  <1>11. MsgCells \in Nat
    BY <1>1, Ranges
  <1> QED
    BY <1>2, <1>7, <1>9, <1>10, <1>11, ShrinkStep

\* The daemon refuses a request and says so.
LEMMA RefuseSteps ==
  ASSUME IInv, Outcome, NEW c \in Conns, DaemonRefuse(c)
  PROVE  Outcome'
  <1> DEFINE to == IF IsRequest(Message(c)) THEN Message(c)[1].id ELSE 0
  <1>1. TypeOK /\ Told /\ MsgCells \in Nat
    BY Ranges DEF IInv, Outcome
  <1>2. /\ HasMessage(c) /\ TakeMessage(c) /\ UNCHANGED <<client, dopen, executed>>
        /\ Reply(c, to, "NACK")
    BY DEF DaemonRefuse, daemon
  <1>3. to \in {0} \cup Calls /\ "NACK" \in ReplyTypes
    BY <1>1, <1>2, MessageFacts DEF ReplyTypes
  <1>4. ASSUME c = cur, clean PROVE Tells("NACK")'
    <2>1. executed[n] = 0
      BY <1>1, <1>2, <1>4, CurrentRequest DEF Told
    <2> QED
      BY <1>2, <2>1 DEF Tells, client
  <1>5. Told'
    <2> HIDE DEF to
    <2> QED
      BY <1>2, <1>3, <1>4, AnswerTold
  <1>6. /\ \A d \in Conns : d # c => up'[d] = up[d]
        /\ \A j \in DOMAIN up'[c] :
              j \in Nat /\ j > 0 /\ j + MsgCells \in DOMAIN up[c] /\ up'[c][j] = up[c][j + MsgCells]
    BY <1>1, <1>2, TakeFacts
  <1> QED
    BY <1>1, <1>2, <1>5, <1>6, ShrinkStep

\* What the daemon takes as image data is no longer a request.
LEMMA TakeImageSteps ==
  ASSUME IInv, Outcome, NEW c \in Conns, DaemonTakeImage(c)
  PROVE  Outcome'
  <1>1. /\ TypeOK /\ Told /\ up[c] \in Seq(RequestCell \cup ImageCell) /\ up[c] # <<>>
        /\ UNCHANGED <<client, down, dopen, executed>> /\ up' = [up EXCEPT ![c] = Tail(@)]
    BY DEF DaemonTakeImage, IInv, Outcome, TypeOK
  <1>2. up'[c] = Tail(up[c]) /\ \A d \in Conns : d # c => up'[d] = up[d]
    BY <1>1 DEF TypeOK
  <1>3. \A j \in DOMAIN Tail(up[c]) : j \in Nat /\ j + 1 \in DOMAIN up[c] /\ Tail(up[c])[j] = up[c][j + 1]
    BY <1>1
  <1>4. Told'
    BY <1>1 DEF Told, Answered, Tells, client
  <1>5. 1 \in Nat /\ \A j \in DOMAIN up'[c] :
                        j \in Nat /\ j + 1 \in DOMAIN up[c] /\ up'[c][j] = up[c][j + 1]
    BY <1>2, <1>3
  <1> QED
    BY <1>1, <1>2, <1>4, <1>5, ShrinkStep

\* What was in a socket that the daemon closes is lost.
LEMMA CloseSteps ==
  ASSUME IInv, Outcome, NEW c \in Conns, Close(c)
  PROVE  Outcome'
  <1>1. /\ TypeOK /\ Told /\ UNCHANGED <<client, down, executed>>
        /\ up' = [up EXCEPT ![c] = <<>>] /\ dopen' = [dopen EXCEPT ![c] = FALSE]
    BY DEF Close, IInv, Outcome
  <1>2. up'[c] = <<>> /\ \A d \in Conns : d # c => up'[d] = up[d]
    BY <1>1 DEF TypeOK
  <1>3. Told'
    <2>1. cur \in Conns /\ dopen \in [Conns -> BOOLEAN]
      BY <1>1 DEF TypeOK
    <2>2. dopen'[cur] => dopen[cur]
      BY <1>1, <2>1
    <2> QED
      BY <1>1, <2>2 DEF Told, Answered, Tells, client
  <1>4. 0 \in Nat /\ \A j \in DOMAIN up'[c] : FALSE
    BY <1>2
  <1> QED
    BY <1>1, <1>2, <1>3, <1>4, ShrinkStep

\* Outcome is inductive, given IInv.
LEMMA NextOutcome == IInv /\ Outcome /\ [Next]_vars => Outcome'
  <1> SUFFICES ASSUME IInv, Outcome, [Next]_vars PROVE Outcome'
    OBVIOUS
  <1>1. CASE UNCHANGED vars
    BY <1>1 DEF vars, client, wire, daemon, Outcome, Pending, Leftovers, Once, Told, Settled,
       Awaited, Unsettled, HasReturned, EndsAt, Tells, Answered
  <1>2. CASE (\E cmd \in Commands : Request(cmd)) \/ stream \/ stream_file_unopened
    BY <1>2, BeginSteps
  <1>3. CASE \/ Fetch \/ DropInstallation \/ reconnect \/ Connected \/ Unconnected \/ DropClient
             \/ Cancel /\ pc = "connecting"
    BY <1>3, StillSteps
  <1>4. CASE ConnectionLost \/ FetchNone \/ (Cancel /\ pc # "connecting")
    BY <1>4, FailingSteps
  <1>5. CASE WriteRequest \/ ReadReply \/ Forward
    BY <1>5, RequestSteps, ReadSteps, ForwardSteps
  <1>6. CASE \E c \in Conns : \/ DaemonAccept(c) \/ DaemonRefuse(c) \/ DaemonTakeImage(c)
                              \/ DaemonClose(c) \/ DaemonHangUp(c)
    BY <1>6, AcceptSteps, RefuseSteps, TakeImageSteps, CloseSteps DEF DaemonClose, DaemonHangUp
  <1> QED
    BY <1>1, <1>2, <1>3, <1>4, <1>5, <1>6 DEF Next

-----------------------------------------------------------------------------
(* What the steps make of the calls.                                        *)

\* The daemon carries out request r, which no clean call has left behind.
CarriesOut(r) ==
    /\ UNCHANGED client
    /\ Unsettled(r) /\ executed[r] = 0
    /\ executed' = [executed EXCEPT ![r] = 1]

\* Call n + 1 is made.
Starts ==
    /\ ~Awaited /\ n + 1 \in Calls /\ UNCHANGED executed
    /\ \A i \in Calls : i # n + 1 => calls'[i] = calls[i]
    /\ calls'[n + 1].cmd \in AckCommands => calls'[n + 1].clean /\ calls'[n + 1].result = "Pending"

\* The pending call returns.
Ends ==
    /\ Awaited /\ UNCHANGED <<n, executed>>
    /\ \A i \in Calls : i # n => calls'[i] = calls[i]
    /\ calls'[n].cmd = calls[n].cmd
    /\ calls'[n].result \notin {"Unused", "Pending"}
    /\ calls'[n].clean => clean

\* Every step is one of these for the calls, or none of their business.
LEMMA CallSteps ==
  ASSUME IInv, Outcome, [Next]_vars
  PROVE  \/ UNCHANGED <<calls, executed>> /\ (clean' = clean \/ ~Awaited)
         \/ Starts
         \/ Ends
         \/ \E r \in Calls : CarriesOut(r)
  <1>1. TypeOK /\ Leftovers /\ Once /\ calls \in [Calls -> CallRecord]
    BY DEF IInv, Outcome, TypeOK
  <1>2. CASE UNCHANGED vars
    BY <1>2 DEF vars, client, daemon
  <1>3. CASE (\E cmd \in Commands : Request(cmd)) \/ stream \/ stream_file_unopened
    <2>1. pc = "idle" /\ n < MaxCalls /\ UNCHANGED executed
      BY <1>3 DEF Request, stream, stream_file_unopened, Begin, Available, daemon
    <2>2. n + 1 \in Calls /\ ~Awaited
      BY <1>1, <2>1, Ranges DEF Awaited
    <2>3. \E rec : /\ calls' = [calls EXCEPT ![n + 1] = rec]
                   /\ rec.cmd \in AckCommands => rec.clean /\ rec.result = "Pending"
      <3>1. \A cmd : Request(cmd) => calls' = [calls EXCEPT ![n + 1] =
               [cmd |-> cmd, result |-> "Pending", from |-> 0, type |-> "none", clean |-> TRUE]]
        BY DEF Request, Begin
      <3>2. stream => calls' = [calls EXCEPT ![n + 1] =
               [cmd |-> "IMAGE", result |-> "Pending", from |-> 0, type |-> "none", clean |-> TRUE]]
        BY DEF stream, Begin
      <3>3. stream_file_unopened => calls' = [calls EXCEPT ![n + 1] =
               [cmd |-> "IMAGE", result |-> "Protocol", from |-> 0, type |-> "none", clean |-> clean]]
        BY DEF stream_file_unopened
      <3>4. CASE \E cmd \in Commands : Request(cmd)
        <4>1. PICK cmd \in Commands : Request(cmd)
          BY <3>4
        <4> DEFINE new == [cmd |-> cmd, result |-> "Pending", from |-> 0, type |-> "none", clean |-> TRUE]
        <4>2. calls' = [calls EXCEPT ![n + 1] = new] /\ new.clean /\ new.result = "Pending"
          BY <3>1, <4>1
        <4> HIDE DEF new
        <4> QED
          BY <4>2
      <3>5. CASE stream
        BY <3>2, <3>5
      <3>6. CASE stream_file_unopened
        BY <3>3, <3>6 DEF AckCommands
      <3> QED
        BY <1>3, <3>4, <3>5, <3>6
    <2> QED
      BY <1>1, <2>1, <2>2, <2>3 DEF Starts
  <1>4. CASE \/ Fetch \/ WriteRequest \/ Forward \/ DropInstallation \/ reconnect \/ Connected
             \/ Unconnected \/ DropClient \/ (Cancel /\ pc = "connecting")
    <2>1. UNCHANGED <<calls, executed>>
      BY <1>4 DEF Fetch, WriteRequest, Forward, DropInstallation, reconnect, Connected, Unconnected,
         DropClient, Cancel, daemon
    <2>2. clean' = clean \/ ~Awaited
      BY <1>4 DEF Fetch, WriteRequest, Forward, DropInstallation, reconnect, Connected, Unconnected,
         DropClient, Cancel, Awaited
    <2> QED
      BY <2>1, <2>2
  <1>5. CASE ConnectionLost \/ FetchNone \/ ReadReply
    <2>1. Awaited /\ n \in Calls /\ UNCHANGED <<n, clean, executed>>
      BY <1>1, <1>5, Ranges DEF ConnectionLost, LostWrite, LostRead, FetchNone, ReadReply, Awaited, daemon
    <2>2. CASE UNCHANGED calls
      BY <2>1, <2>2
    <2>3. CASE ~UNCHANGED calls
      <3>1. PICK result, reply : Return(result, reply) /\ result \notin {"Unused", "Pending"}
        <4>1. CASE ConnectionLost \/ FetchNone
          BY <4>1 DEF ConnectionLost, FetchNone
        <4>2. CASE ReadReply
          <5>1. calls[n].cmd \in Commands
            BY <1>1, <2>1, <4>2 DEF ReadReply, TypeOK
          <5> DEFINE m == Append(got, Head(down[cur]))
          <5>2. PICK type \in Responses(m) : \E result \in Returned(calls[n].cmd, type) :
                   Return(result, [to |-> m[1].to, type |-> type])
            BY <2>3, <4>2 DEF ReadReply
          <5>3. \A result \in Returned(calls[n].cmd, type) : result \notin {"Unused", "Pending"}
            BY <5>1, ConstantsAssumption DEF Returned, send_and_expect_ack, get_status,
               get_update_state, get_hw_revision, get_swupdate_var, Queries
          <5> HIDE DEF m
          <5> QED
            BY <5>2, <5>3
        <4> QED
          BY <1>5, <4>1, <4>2
      <3>2. /\ \A i \in Calls : i # n => calls'[i] = calls[i]
            /\ calls'[n].cmd = calls[n].cmd /\ calls'[n].result = result /\ calls'[n].clean = clean
        BY <1>1, <2>1, <3>1, ReturnEffect
      <3> QED
        BY <2>1, <3>1, <3>2 DEF Ends
    <2> QED
      BY <2>2, <2>3
  <1>6. CASE Cancel /\ pc # "connecting"
    <2>1. Awaited /\ n \in Calls /\ UNCHANGED <<n, executed>>
      BY <1>1, <1>6, Ranges DEF Cancel, Awaited, TypeOK, daemon
    <2> DEFINE k == clean'
    <2>2. /\ calls' = [calls EXCEPT ![n].result = "Cancelled", ![n].clean = k]
          /\ k => clean
      BY <1>6 DEF Cancel
    <2>3. calls[n] \in CallRecord
      BY <1>1, <2>1
    <2> HIDE DEF k
    <2>4. /\ \A i \in Calls : i # n => calls'[i] = calls[i]
          /\ calls'[n].cmd = calls[n].cmd /\ calls'[n].result = "Cancelled" /\ calls'[n].clean = k
      BY <1>1, <2>1, <2>2, <2>3 DEF CallRecord
    <2> QED
      BY <2>1, <2>2, <2>4 DEF Ends
  <1>7. CASE \E c \in Conns : DaemonAccept(c)
    <2>1. PICK c \in Conns : DaemonAccept(c)
      BY <1>7
    <2>2. PICK r \in Calls : r = Message(c)[1].id /\ executed' = [executed EXCEPT ![r] = @ + 1]
      BY <1>1, <2>1, MessageFacts DEF DaemonAccept
    <2>3. /\ 1 \in DOMAIN up[c] /\ MsgCells \in DOMAIN up[c] /\ EndsAt(c, MsgCells, r)
          /\ up[c][1].id = r /\ up[c][1].cmd # "IMAGE"
      BY <1>1, <2>1, <2>2, MessageFacts DEF DaemonAccept, IsRequest
    <2>4. Unsettled(r)
      BY <1>1, <2>3 DEF Leftovers
    <2>5. executed[r] = 0
      BY <1>1, <2>3 DEF Once
    <2>6. executed' = [executed EXCEPT ![r] = 1] /\ UNCHANGED client
      BY <2>1, <2>2, <2>5 DEF DaemonAccept
    <2> QED
      BY <2>4, <2>5, <2>6 DEF CarriesOut
  <1>8. CASE \E c \in Conns : \/ DaemonRefuse(c) \/ DaemonTakeImage(c)
                              \/ DaemonClose(c) \/ DaemonHangUp(c)
    BY <1>8 DEF DaemonRefuse, DaemonTakeImage, DaemonClose, DaemonHangUp, Close, client, daemon
  <1> QED
    BY <1>2, <1>3, <1>4, <1>5, <1>6, <1>7, <1>8 DEF Next

-----------------------------------------------------------------------------
(* The theorems.                                                            *)

\* However requests, replies, lost connections, dropped futures and reconnects
\* interleave, no request is carried out twice, none in the socket belongs to a clean
\* call that has returned, and every answer on an undisturbed stream tells the truth.
THEOREM OutcomeHolds == Spec => []Outcome
  BY InitOutcome, NextOutcome, StreamInvariant, PTL DEF Spec

\* After Ok from send_and_expect_ack the daemon has carried the request out once,
\* after Rejected it has not, and that stays so for the rest of the session.
THEOREM AnswersAreTruthful == Spec => []AckIsTruthful
  <1>1. Outcome => AckIsTruthful
    BY DEF Outcome, Settled, AckIsTruthful
  <1> QED
    BY <1>1, OutcomeHolds, PTL

\* A request whose call has returned on an undisturbed stream has no further effect,
\* on that connection or after a reconnect.
THEOREM NothingExecutedLate == Spec => NoLateExecution
  <1>1. IInv /\ Outcome /\ [Next]_vars =>
           [\A i \in Calls : calls[i].clean /\ HasReturned(i) => executed'[i] = executed[i]]_vars
    <2> SUFFICES ASSUME IInv, Outcome, [Next]_vars, NEW i \in Calls, calls[i].clean, HasReturned(i)
                 PROVE  executed'[i] = executed[i]
      OBVIOUS
    <2>1. executed \in [Calls -> Nat]
      BY DEF IInv, TypeOK
    <2>2. ~Unsettled(i)
      BY DEF Unsettled
    <2> QED
      BY <2>1, <2>2, CallSteps DEF CarriesOut, Starts, Ends
  <1> QED
    BY <1>1, OutcomeHolds, StreamInvariant, PTL DEF Spec, NoLateExecution

\* Promise sees the calls as functions of their number.
Shown == [i \in Calls |-> Status(i)]
Done == [i \in Calls |-> IF calls[i].cmd \in AckCommands THEN executed[i] ELSE 0]

\* A call that is not pending shows the same whether or not the stream is clean.
LEMMA StatusStays ==
  ASSUME NEW i \in Calls, calls'[i] = calls[i], clean' = clean \/ calls[i].result # "Pending"
  PROVE  Status(i)' = Status(i)
  BY DEF Status, Disturbed

\* A stutter of ControlCalls.
LEMMA SameShown ==
  ASSUME \A i \in Calls : Status(i)' = Status(i),
         UNCHANGED <<calls, executed>>
  PROVE  Shown' = Shown /\ Done' = Done
  BY DEF Shown, Done

\* Every step maps to a step of ControlCalls or to a stutter.
LEMMA PromiseStep ==
  ASSUME IInv, IInv', Outcome, Outcome', [Next]_vars
  PROVE  [Promise!Next]_<<Shown, Done>>
  <1>1. /\ TypeOK /\ TypeOK' /\ Pending /\ Once /\ Settled /\ Settled' /\ n \in Nat
        /\ executed \in [Calls -> Nat] /\ Promise!Calls = Calls
    BY Ranges DEF IInv, Outcome, TypeOK, Promise!Calls, Calls
  <1>2. ~Awaited => \A i \in Calls : calls[i].result # "Pending"
    BY <1>1 DEF Pending
  <1>3. ~Awaited => \A i \in Calls : Shown[i] # "Pending"
    BY <1>2 DEF Shown, Status
  <1>4. CASE UNCHANGED <<calls, executed>> /\ (clean' = clean \/ ~Awaited)
    <2>1. \A i \in Calls : Status(i)' = Status(i)
      BY <1>2, <1>4, StatusStays
    <2> QED
      BY <1>4, <2>1, SameShown
  <1>5. CASE Starts
    <2>1. PICK i \in Calls : i = n + 1
      BY <1>5 DEF Starts
    <2>2. /\ calls[i].cmd = "none" /\ calls[i].result = "Unused" /\ executed[i] = 0
          /\ UNCHANGED executed
      BY <1>1, <1>5, <2>1 DEF Pending, Once, Starts
    <2>3. \A j \in Calls : j # i => calls'[j] = calls[j] /\ Status(j)' = Status(j)
      BY <1>2, <1>5, <2>1, StatusStays DEF Starts
    <2>4. Status(i) = "Unused"
      BY <2>2 DEF Status, AckCommands
    <2>5. Done' = Done
      BY <2>2, <2>3 DEF Done, AckCommands
    <2>6. CASE calls'[i].cmd \in AckCommands
      <3>1. Status(i)' \in {"Pending", "Undefined"}
        BY <1>5, <2>1, <2>6 DEF Starts, Status, Disturbed
      <3>2. Shown' = [Shown EXCEPT ![i] = Status(i)']
        BY <2>3 DEF Shown
      <3>3. Shown[i] = "Unused" /\ \A j \in Calls : Shown[j] # "Pending"
        BY <1>3, <1>5, <2>4 DEF Starts, Shown
      <3>4. Promise!Call(i)
        BY <1>1, <2>5, <3>1, <3>2, <3>3 DEF Promise!Call, Shown, Done
      <3> QED
        BY <1>1, <3>4 DEF Promise!Next
    <2>7. CASE calls'[i].cmd \notin AckCommands
      <3>1. Status(i)' = "Unused"
        BY <2>7 DEF Status
      <3>2. Shown' = Shown
        BY <2>3, <2>4, <3>1 DEF Shown
      <3> QED
        BY <2>5, <3>2
    <2> QED
      BY <2>6, <2>7
  <1>6. CASE Ends
    <2>1. PICK i \in Calls : i = n
      BY <1>1, <1>6, Ranges DEF Ends
    <2>2. /\ calls[i].result = "Pending" /\ calls[i].clean /\ calls'[i].cmd = calls[i].cmd
          /\ calls'[i].result \notin {"Unused", "Pending"} /\ calls'[i].result \in Results
          /\ (calls'[i].clean => clean) /\ UNCHANGED executed
      <3>1. calls'[i] \in CallRecord
        BY <1>1 DEF TypeOK
      <3> QED
        BY <1>1, <1>6, <2>1, <3>1 DEF Pending, Ends, CallRecord
    <2>3. \A j \in Calls : j # i => calls'[j] = calls[j] /\ Status(j)' = Status(j)
      BY <1>1, <1>6, <2>1, StatusStays DEF Ends, Pending
    <2>4. Done' = Done
      BY <2>2, <2>3 DEF Done
    <2>5. Shown' = [Shown EXCEPT ![i] = Status(i)']
      BY <2>3 DEF Shown
    <2>6. CASE calls[i].cmd \in AckCommands /\ clean
      <3>1. Shown[i] = "Pending"
        BY <2>2, <2>6 DEF Shown, Status, Disturbed
      <3>2. Done[i] = executed[i]
        BY <2>6 DEF Done
      <3>3. CASE calls'[i].clean
        <4>1. Status(i)' = calls'[i].result
          BY <2>2, <2>6, <3>3 DEF Status, Disturbed
        <4>2. /\ calls'[i].result = "Ok" => executed[i] = 1
              /\ calls'[i].result \in {"Rejected", "Cancelled"} => executed[i] = 0
              /\ calls'[i].result # "Protocol"
          BY <1>1, <2>2, <2>6, <3>3 DEF Settled
        <4>3. calls'[i].result \in {"Ok", "Rejected", "Connection", "Cancelled", "Undefined"}
          BY <2>2, <4>2 DEF Results
        <4>4. Promise!Return(i)
          BY <2>4, <2>5, <3>1, <3>2, <4>1, <4>2, <4>3 DEF Promise!Return, Shown, Done
        <4> QED
          BY <1>1, <4>4 DEF Promise!Next
      <3>4. CASE ~calls'[i].clean
        <4>1. Status(i)' = "Undefined"
          BY <2>2, <2>6, <3>4 DEF Status, Disturbed
        <4>2. Promise!Return(i)
          BY <2>4, <2>5, <3>1, <4>1 DEF Promise!Return, Shown, Done
        <4> QED
          BY <1>1, <4>2 DEF Promise!Next
      <3> QED
        BY <3>3, <3>4
    <2>7. CASE ~(calls[i].cmd \in AckCommands /\ clean)
      <3>1. Status(i)' = Status(i)
        BY <2>2, <2>7 DEF Status, Disturbed
      <3>2. Shown' = Shown
        BY <2>3, <3>1 DEF Shown
      <3> QED
        BY <2>4, <3>2
    <2> QED
      BY <2>6, <2>7
  <1>7. CASE \E r \in Calls : CarriesOut(r)
    <2>1. PICK r \in Calls : CarriesOut(r)
      BY <1>7
    <2>2. /\ UNCHANGED <<calls, clean>> /\ executed' = [executed EXCEPT ![r] = 1]
          /\ executed[r] = 0 /\ Unsettled(r)
      BY <2>1 DEF CarriesOut, client
    <2>3. Shown' = Shown
      <3>1. \A i \in Calls : Status(i)' = Status(i)
        BY <2>2, StatusStays
      <3> QED
        BY <3>1 DEF Shown
    <2>4. CASE calls[r].cmd \in AckCommands
      <3>1. Shown[r] \in {"Pending", "Undefined"}
        <4>1. calls[r].clean => calls[r].result = "Pending"
          BY <1>1, <2>2 DEF Unsettled, HasReturned, Pending
        <4> QED
          BY <2>4, <4>1 DEF Shown, Status, Disturbed
      <3>2. Done[r] = 0 /\ Done' = [Done EXCEPT ![r] = 1]
        BY <1>1, <2>2, <2>4 DEF Done
      <3>3. Promise!CarryOut(r)
        BY <2>3, <3>1, <3>2 DEF Promise!CarryOut, Shown, Done
      <3> QED
        BY <1>1, <3>3 DEF Promise!Next
    <2>5. CASE calls[r].cmd \notin AckCommands
      <3>1. Done' = Done
        BY <1>1, <2>2, <2>5 DEF Done
      <3> QED
        BY <2>3, <3>1
    <2> QED
      BY <2>4, <2>5
  <1> QED
    BY <1>4, <1>5, <1>6, <1>7, CallSteps

\* The client implements ControlCalls, its liveness apart: each call of a method that
\* ends in send_and_expect_ack is carried out at most once and while it is pending, and
\* what it returns tells whether it was; a call on a disturbed stream is Undefined.
THEOREM CallsKept == Spec => Promise!Spec
  <1>1. Init => Promise!Init
    <2> SUFFICES ASSUME Init PROVE Promise!Init
      OBVIOUS
    <2>1. \A i \in Calls : calls[i].cmd = "none"
      BY DEF Init
    <2>2. \A i \in Calls : Status(i) = "Unused" /\ calls[i].cmd \notin AckCommands
      BY <2>1 DEF Status, AckCommands
    <2> QED
      BY <2>2 DEF Promise!Init, Promise!Calls, Calls
  <1>2. IInv /\ IInv' /\ Outcome /\ Outcome' /\ [Next]_vars =>
           [Promise!Next]_<<[i \in Calls |-> Status(i)],
                            [i \in Calls |-> IF calls[i].cmd \in AckCommands THEN executed[i] ELSE 0]>>
    BY PromiseStep DEF Shown, Done
  <1> QED
    BY <1>1, <1>2, StreamInvariant, OutcomeHolds, PTL DEF Spec, Promise!Spec
=============================================================================
