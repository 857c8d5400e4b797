--------------------------- MODULE ControlOutcome ---------------------------
(***************************************************************************)
(* The inductive invariant behind AckIsTruthful, NoLateExecution and the    *)
(* refinement of ControlCalls: which requests the sockets of all the        *)
(* connections still hold, and how often the daemon has carried each out.   *)
(***************************************************************************)
EXTENDS ControlInvariant

Awaited == pc \in {"writing", "reading", "fetching", "forwarding"}

\* One call is pending while the caller awaits one, and no other is.
Pending ==
    /\ \A i \in Calls : IF i <= n THEN calls[i].result # "Unused"
                                  ELSE calls[i].cmd = "none" /\ calls[i].result = "Unused"
    /\ \A i \in Calls : calls[i].result = "Pending" => Awaited /\ i = n
    /\ Awaited => calls[n].result = "Pending" /\ calls[n].clean
    /\ pc \in {"fetching", "forwarding"} => calls[n].cmd = "IMAGE"

\* Its request may still be carried out.
Unsettled(i) == i <= n /\ ~(calls[i].clean /\ HasReturned(i))

\* A request in any socket is the pending one, in the current socket and as far as
\* it is written, or that of a disturbed call.
Leftovers ==
    \A c \in Conns : \A j \in DOMAIN up[c] :
        LET cell == up[c][j] IN
        cell.cmd # "IMAGE" =>
            /\ Unsettled(cell.id)
            /\ Awaited /\ cell.id = n => c = cur
            /\ pc = "writing" /\ cell.id = n => cell.part <= sent

\* A request ends with its last cell, which is written once: it has not been carried
\* out while that cell is in a socket.
EndsAt(c, j, i) ==
    j \in DOMAIN up[c] /\ up[c][j].cmd # "IMAGE" /\ up[c][j].id = i /\ up[c][j].part = MsgCells

Once ==
    /\ \A i \in Calls : executed[i] \in {0, 1} /\ (i > n => executed[i] = 0)
    /\ pc = "writing" => executed[n] = 0
    /\ \A i \in Calls : \A c \in Conns : \A j \in DOMAIN up[c] :
          EndsAt(c, j, i) =>
              /\ executed[i] = 0
              /\ \A d \in Conns : \A k \in DOMAIN up[d] : EndsAt(d, k, i) => c = d /\ j = k

\* An answer says what was done.
Tells(type) ==
    \/ type = "ACK" /\ executed[n] = 1
    \/ type = "NACK" /\ executed[n] = 0

Told ==
    clean /\ pc = "reading" =>
        /\ dopen[cur] /\ ~Answered => executed[n] = 0
        /\ calls[n].cmd \in AckCommands =>
              /\ \A j \in DOMAIN got : Tells(got[j].type)
              /\ \A j \in DOMAIN down[cur] : Tells(down[cur][j].type)

\* And so does what the call returns.
Settled ==
    \A i \in Calls : calls[i].clean /\ calls[i].cmd \in AckCommands =>
        /\ calls[i].result = "Ok" => executed[i] = 1
        /\ calls[i].result \in {"Rejected", "Cancelled"} => executed[i] = 0
        /\ calls[i].result # "Protocol"

\* On every stream, disturbed or not, a request is carried out at most once, and
\* none that a clean call has left behind is still to be: what the call returned
\* stays true.
Outcome == Pending /\ Leftovers /\ Once /\ Told /\ Settled
=============================================================================
