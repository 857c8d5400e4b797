-------------------------- MODULE ProgressInvariant --------------------------
(***************************************************************************)
(* The inductive invariant behind the safety properties of ProgressClient:  *)
(* what is on the stream, cell by cell, once the handshake has succeeded.   *)
(***************************************************************************)
EXTENDS ProgressClient

Width == CellsOf(server.layout)

\* The cell that comes behind another in a stream of whole messages.
Successor(cell) ==
    IF cell.part = Width
    THEN [kind |-> "frame", n |-> cell.n + 1, part |-> 1]
    ELSE [kind |-> "frame", n |-> cell.n, part |-> cell.part + 1]

\* From its cell f on the stream carries consecutive messages, up to the end of one;
\* up to the last broadcast while the connection is open.
Ordered(f) ==
    /\ \A j \in DOMAIN wire : j >= f => wire[j].kind = "frame" /\ wire[j].part <= Width
    /\ \A j \in DOMAIN wire : j >= f /\ j # Len(wire) => wire[j + 1] = Successor(wire[j])
    /\ Len(wire) >= f =>
          /\ wire[Len(wire)].part = Width
          /\ peer = "open" => wire[Len(wire)].n = Len(feed)

Returned == {k \in DOMAIN log : log[k].sound}

\* And every event returned before is of an earlier message.
Later(f) == f \in DOMAIN wire => \A k \in Returned : log[k].n < wire[f].n

AckAhead == pc = "handshaking" /\ wire # <<>> /\ wire[1].kind = "ack"

Resting ==
    /\ pc # "receiving" => got = <<>>
    /\ pc \in {"none", "detecting"} => peer = "none" /\ wire = <<>>
    /\ pc = "detecting" => doing = "connect"
    /\ pc = "connecting" => peer \in {"none", "closed"} /\ wire = <<>>
    /\ pc = "connecting" /\ doing # "connect" => conn > 0
    /\ pc = "handshaking" => ~shaken
    /\ peer = "pending" => wire = <<>> /\ ~shaken

\* Nothing is on the stream that was not broadcast.
Broadcast ==
    /\ \A j \in DOMAIN wire : wire[j].n <= Len(feed)
    /\ \A j \in DOMAIN got : got[j].n <= Len(feed)

Streaming ==
    /\ AckAhead => /\ Ordered(2) /\ Later(2)
                   /\ Len(wire) > 1 => wire[2].part = 1
    /\ shaken => Ordered(1) /\ Later(1) /\ server.major = ClientMajor

\* On a sound stream the cells read so far are the beginning of one message, and the
\* stream goes on with its next cell.
InStep ==
    Sound =>
        /\ Len(got) < Width
        /\ got # <<>> => wire # <<>>
        /\ wire # <<>> =>
              /\ wire[1].part = Len(got) + 1
              /\ \A j \in DOMAIN got : got[j] = [kind |-> "frame", n |-> wire[1].n, part |-> j]

\* The events of this connection end where the stream begins.
Latest ==
    /\ \A k \in Returned : log[k].n \in DOMAIN feed
    /\ \A k \in DOMAIN log : log[k].conn <= conn /\ (log[k].conn = conn /\ log[k].sound => shaken)
    /\ Sound /\ Len(log) \in Returned /\ log[Len(log)].conn = conn =>
          /\ wire # <<>> => wire[1].n = log[Len(log)].n + 1
          /\ wire = <<>> /\ peer = "open" => log[Len(log)].n = Len(feed)
    /\ delivered # <<>> =>
          \E k \in Returned : log[k].n = delivered[Len(delivered)]

\* Everything that ProgressClient's safety properties rest on holds at every step:
\* an acknowledged stream carries whole messages in order, from the one behind the
\* last event returned, and the partly read one agrees with it.
IInv ==
    /\ TypeOK
    /\ Resting /\ Broadcast /\ Streaming /\ InStep /\ Latest
    /\ SoundEvents /\ VersionsAgree
=============================================================================
