----------------------- MODULE ProgressInvariantProofs -----------------------
(***************************************************************************)
(* Proofs about ProgressClient: its invariant is inductive, the safety       *)
(* properties follow from it, and the client implements EventFeed.          *)
(***************************************************************************)
EXTENDS ProgressInvariant, TLAPS

Cells == AckCell \cup FrameCell

-----------------------------------------------------------------------------
(* Cells and messages.                                                      *)

\* A sequence that is left as it is or emptied.
LEMMA SameOrEmpty ==
    ASSUME NEW S, NEW s \in Seq(S), NEW t, t = s \/ t = <<>>
    PROVE  t \in Seq(S) /\ Len(t) <= Len(s)
<1>1. CASE t = s
  BY <1>1
<1>2. CASE t = <<>>
  <2>1. t \in Seq(S) /\ Len(t) = 0
    BY <1>2
  <2>. QED
    BY <2>1
<1>. QED
  BY <1>1, <1>2

\* What has been read when one more cell is.
LEMMA OneMore ==
    ASSUME NEW S, NEW g \in Seq(S), NEW w \in Seq(S), w # <<>>
    PROVE  /\ Append(g, Head(w)) \in Seq(S) /\ Append(g, Head(w)) # <<>>
           /\ Len(Append(g, Head(w))) = Len(g) + 1
           /\ Append(g, Head(w))[1] = (IF g = <<>> THEN w[1] ELSE g[1])
           /\ \A j \in 1..Len(g) : Append(g, Head(w))[j] = g[j]
           /\ Append(g, Head(w))[Len(g) + 1] = w[1]
<1>1. Head(w) \in S /\ Head(w) = w[1]
  OBVIOUS
<1>2. CASE g = <<>>
  BY <1>1, <1>2
<1>3. CASE g # <<>>
  BY <1>1, <1>3
<1>. QED
  BY <1>2, <1>3

\* A sequence and one element more.
LEMMA AppendFacts ==
    ASSUME NEW S, NEW s \in Seq(S), NEW e
    PROVE  /\ Len(Append(s, e)) = Len(s) + 1 /\ DOMAIN Append(s, e) = 1..(Len(s) + 1)
           /\ \A k \in DOMAIN s : Append(s, e)[k] = s[k]
           /\ Append(s, e)[Len(s) + 1] = e
           /\ \A k \in DOMAIN Append(s, e) : k \in DOMAIN s \/ k = Len(s) + 1
<1>1. s \in Seq(S \cup {e}) /\ DOMAIN s = 1..Len(s) /\ Len(s) \in Nat
  OBVIOUS
<1>. QED
  BY <1>1

\* A sequence is the function of its elements.
LEMMA SeqFunction ==
    ASSUME NEW S, NEW s \in Seq(S)
    PROVE  s = [j \in 1..Len(s) |-> s[j]]
<1>1. s \in [1..Len(s) -> S]
  OBVIOUS
<1>. QED
  BY <1>1

\* A message has at least two cells.
LEMMA CellCounts ==
    ASSUME NEW l \in Layouts
    PROVE  /\ CellsOf(l) \in Nat /\ CellsOf(l) > 1
           /\ CellsOf(l) \in {FrameCells, FrameCells + 1}
BY ConstantsAssumption DEF CellsOf, Layouts

\* The fields of a cell.
LEMMA CellFacts ==
    ASSUME NEW c \in Cells
    PROVE  /\ c.n \in 0..MaxEvents /\ c.part \in 1..(FrameCells + 1)
           /\ c = [kind |-> c.kind, n |-> c.n, part |-> c.part]
           /\ c.kind = "frame" => c.n \in 1..MaxEvents
           /\ c.kind # "frame" => c.kind = "ack"
<1>1. CASE c \in AckCell
  BY <1>1, ConstantsAssumption DEF AckCell
<1>2. CASE c \in FrameCell
  BY <1>2, ConstantsAssumption DEF FrameCell
<1>. QED
  BY <1>1, <1>2 DEF Cells

\* A cell is its fields.
LEMMA CellRecord ==
    ASSUME NEW w \in Seq(Cells), NEW j \in DOMAIN w
    PROVE  w[j] = [kind |-> w[j].kind, n |-> w[j].n, part |-> w[j].part]
<1>. DEFINE c == w[j]
<1>1. c \in Cells
  OBVIOUS
<1>. HIDE DEF c
<1>2. c = [kind |-> c.kind, n |-> c.n, part |-> c.part]
  BY <1>1, CellFacts
<1>. QED
  BY <1>2 DEF c

\* The cells on the stream and those read.
LEMMA CellTypes ==
    ASSUME TypeOK
    PROVE  /\ wire \in Seq(Cells) /\ got \in Seq(Cells) /\ Len(got) <= FrameCells
           /\ FrameCells \in Nat /\ FrameCells > 1
           /\ \A j \in DOMAIN wire : wire[j] \in Cells /\ wire[j].n \in Nat /\ wire[j].part \in Nat
           /\ \A j \in DOMAIN got : got[j] \in Cells /\ got[j].n \in Nat /\ got[j].part \in Nat
<1>1. /\ wire \in Seq(Cells) /\ got \in Seq(Cells) /\ Len(got) <= FrameCells
      /\ FrameCells \in Nat /\ FrameCells > 1
  BY ConstantsAssumption DEF TypeOK, Cells
<1>2. /\ \A j \in DOMAIN wire : wire[j] \in Cells
      /\ \A j \in DOMAIN got : got[j] \in Cells
  BY <1>1
<1>3. \A c \in Cells : c.n \in Nat /\ c.part \in Nat
  BY CellFacts, ConstantsAssumption
<1>. QED
  BY <1>1, <1>2, <1>3

\* The messages of the daemon connected to.
LEMMA WidthType ==
    ASSUME TypeOK
    PROVE  server.layout \in Layouts /\ server.major \in Nat /\ Width \in Nat /\ Width > 1
<1>1. server \in [layout : Layouts, major : Nat, acks : BOOLEAN]
  BY ConstantsAssumption DEF TypeOK
<1>. QED
  BY <1>1, CellCounts DEF Width

\* A message, cell by cell.
LEMMA FrameFacts ==
    ASSUME NEW n \in 1..MaxEvents, NEW l \in Layouts
    PROVE  /\ Frame(n, l) \in Seq(Cells) /\ Len(Frame(n, l)) = CellsOf(l)
           /\ \A j \in 1..CellsOf(l) : Frame(n, l)[j] = [kind |-> "frame", n |-> n, part |-> j]
<1>1. CellsOf(l) \in Nat /\ CellsOf(l) <= FrameCells + 1
  BY CellCounts, ConstantsAssumption
<1>2. \A j \in 1..CellsOf(l) : [kind |-> "frame", n |-> n, part |-> j] \in Cells
  BY <1>1, ConstantsAssumption DEF FrameCell, Cells
<1>. QED
  BY <1>1, <1>2 DEF Frame

\* What a message decodes to is an event.
LEMMA DecodedEvent ==
    ASSUME TypeOK, NEW m, m # <<>>, m \in Seq(Cells),
           m[1].kind = "frame" => m[1].n <= Len(feed)
    PROVE  FromRaw(m) \subseteq Events
<1>1. m[1] \in Cells
  OBVIOUS
<1>2. CASE m[1].kind = "frame"
  <2>1. m[1].n \in 1..MaxEvents /\ m[1].n <= Len(feed)
    <3>. DEFINE c == m[1]
    <3>1. c \in Cells
      BY <1>1
    <3>. HIDE DEF c
    <3>2. c.kind = "frame" => c.n \in 1..MaxEvents
      BY <3>1, CellFacts
    <3>. QED
      BY <3>2, <1>2 DEF c
  <2>2. m[1].n \in DOMAIN feed /\ feed \in Seq(Statuses)
    BY SMTT(30), <2>1, ConstantsAssumption DEF TypeOK
  <2>3. feed[m[1].n] \in AllStatuses
    BY <2>2, ConstantsAssumption
  <2>4. from_fields(feed[m[1].n]) \in Events
    BY <2>3 DEF from_fields, AllStatuses, Events
  <2>. QED
    BY <1>2, <2>4 DEF FromRaw
<1>3. CASE m[1].kind # "frame"
  <2>1. m[1].kind = "ack"
    BY <1>1, <1>3, CellFacts
  <2>2. from_fields("unknown") = "Failed"
    BY DEF from_fields
  <2>. QED
    BY <1>3, <2>1, <2>2 DEF FromRaw, Events
<1>. QED
  BY <1>2, <1>3

-----------------------------------------------------------------------------
(* The initial states.                                                      *)

\* The invariant holds before connect().
LEMMA InitIInv == Init => IInv
<1>. SUFFICES ASSUME Init PROVE IInv
  OBVIOUS
<1>1. TypeOK
  <2>1. /\ got \in Seq(AckCell \cup FrameCell) /\ wire \in Seq(AckCell \cup FrameCell)
        /\ log \in Seq(LogEntry) /\ delivered \in Seq(0..MaxEvents) /\ feed \in Seq(Statuses)
    BY DEF Init
  <2>2. Len(got) <= FrameCells /\ Len(feed) <= MaxEvents /\ conn \in 0..MaxConns
    BY ConstantsAssumption DEF Init
  <2>. QED
    BY <2>1, <2>2, ConstantsAssumption DEF Init, TypeOK, Layouts
<1>2. Resting /\ Broadcast /\ Streaming
  BY DEF Init, Resting, Broadcast, Streaming, AckAhead
<1>3. InStep /\ Latest
  BY DEF Init, InStep, Latest, Sound, Returned
<1>4. SoundEvents /\ VersionsAgree
  BY DEF Init, SoundEvents, VersionsAgree
<1>. QED
  BY <1>1, <1>2, <1>3, <1>4 DEF IInv
-----------------------------------------------------------------------------
(* Types.                                                                   *)

\* How a method that fails leaves the client.
LEMMA FailEffect ==
    ASSUME Fail
    PROVE  /\ got' = <<>> /\ retried' = FALSE /\ doing' = "none"
           /\ \/ doing = "connect" /\ pc' = "none" /\ peer' = "none" /\ wire' = <<>>
              \/ doing # "connect" /\ pc' = "ready" /\ peer' = peer /\ wire' = wire
BY DEF Fail, Return

\* The cells that are on the stream, or read, are of the two kinds.
LEMMA NextWireType ==
    ASSUME IInv, Next
    PROVE  wire' \in Seq(Cells) /\ got' \in Seq(Cells) /\ Len(got') <= FrameCells
<1>1. wire \in Seq(Cells) /\ got \in Seq(Cells) /\ Len(got) <= FrameCells /\ FrameCells \in Nat
  BY CellTypes DEF IInv
<1>2. CASE (wire' = wire \/ wire' = <<>>) /\ (got' = got \/ got' = <<>>)
  <2>1. wire' \in Seq(Cells) /\ got' \in Seq(Cells) /\ Len(got') <= Len(got)
    BY <1>1, <1>2, SameOrEmpty
  <2>. QED
    BY <1>1, <2>1
<1>3. CASE Acknowledged \/ NotAcknowledged
  <2>1. wire # <<>> /\ (wire' = Tail(wire) \/ wire' = <<>>) /\ (got' = got \/ got' = <<>>)
    BY <1>3 DEF Acknowledged, NotAcknowledged, Return
  <2>2. Tail(wire) \in Seq(Cells)
    BY <1>1, <2>1
  <2>3. wire' \in Seq(Cells) /\ got' \in Seq(Cells) /\ Len(got') <= Len(got)
    BY <1>1, <2>1, <2>2, SameOrEmpty
  <2>. QED
    BY <1>1, <2>3
<1>4. CASE ReadFrame
  <2>1. wire # <<>> /\ wire' = Tail(wire)
        /\ \/ got' = <<>>
           \/ got' = Append(got, Head(wire)) /\ Len(Append(got, Head(wire))) < CellsOf(layout)
    BY <1>4 DEF ReadFrame, Return, ReadSize
  <2>2. wire' \in Seq(Cells) /\ Append(got, Head(wire)) \in Seq(Cells)
    BY <1>1, <2>1
  <2>3. CellsOf(layout) <= FrameCells + 1 /\ CellsOf(layout) \in Nat
    <3>1. layout \in Layouts
      BY DEF IInv, TypeOK
    <3>2. CellsOf(layout) \in Nat /\ CellsOf(layout) \in {FrameCells, FrameCells + 1}
      BY <3>1, CellCounts
    <3>. QED
      BY <1>1, <3>2
  <2>4. CASE got' = <<>>
    <3>1. got' \in Seq(Cells) /\ Len(got') <= Len(got)
      BY <1>1, <2>4, SameOrEmpty
    <3>. QED
      BY <1>1, <2>2, <3>1
  <2>5. CASE got' = Append(got, Head(wire)) /\ Len(Append(got, Head(wire))) < CellsOf(layout)
    <3>1. got' \in Seq(Cells)
      BY <2>2, <2>5
    <3>2. Len(got') \in Nat /\ Len(got') < CellsOf(layout)
      BY <2>5, <3>1
    <3>. QED
      BY <1>1, <2>2, <2>3, <3>1, <3>2
  <2>. QED
    BY <2>1, <2>4, <2>5
<1>5. CASE DaemonServe
  <2>1. (wire' = <<Ack>> \/ wire' = <<>>) /\ got' = got
    BY <1>5 DEF DaemonServe, client
  <2>2. Ack \in Cells
    BY DEF Ack, AckCell, Cells
  <2>3. <<Ack>> \in Seq(Cells)
    BY <2>2
  <2>4. wire' \in Seq(Cells)
    BY <2>1, <2>3, SameOrEmpty
  <2>. QED
    BY <1>1, <2>1, <2>4
<1>6. CASE DaemonBroadcast
  <2>1. /\ got' = got
        /\ wire' = wire \/ wire' = wire \o Frame(Len(feed) + 1, server.layout)
    BY <1>6 DEF DaemonBroadcast, client
  <2>2. Len(feed) + 1 \in 1..MaxEvents
    BY SMTT(30), <1>6, ConstantsAssumption DEF DaemonBroadcast, IInv, TypeOK
  <2>3. Frame(Len(feed) + 1, server.layout) \in Seq(Cells)
    BY <2>2, FrameFacts, WidthType DEF IInv
  <2>4. wire \o Frame(Len(feed) + 1, server.layout) \in Seq(Cells)
    BY <1>1, <2>3
  <2>5. wire' \in Seq(Cells)
    BY <1>1, <2>1, <2>4
  <2>. QED
    BY <1>1, <2>1, <2>5
<1>7. \/ (wire' = wire \/ wire' = <<>>) /\ (got' = got \/ got' = <<>>)
      \/ Acknowledged \/ NotAcknowledged \/ ReadFrame \/ DaemonServe \/ DaemonBroadcast
  BY DEF Next, client, socket, connect, Detected, receive, receive_or_reconnect, Connected,
     Unconnected, HandshakeTimeout, ConnectionLost, Cancel, Fail, Return, Drop, DaemonDisconnect, DaemonStop,
     DaemonStart, Upgrade
<1>. QED
  BY <1>2, <1>3, <1>4, <1>5, <1>6, <1>7

\* What is returned is an event, of a message or of none.
LEMMA NextLogType ==
    ASSUME IInv, Next
    PROVE  log' \in Seq(LogEntry) /\ delivered' \in Seq(0..MaxEvents)
<1>1. log \in Seq(LogEntry) /\ delivered \in Seq(0..MaxEvents) /\ TypeOK
  BY DEF IInv, TypeOK
<1>2. CASE ReadFrame
  <2>. DEFINE m == Append(got, Head(wire))
              whole == m[1].part = 1 /\ m[1].n # 0 /\ m = Frame(m[1].n, layout)
              n == IF whole THEN m[1].n ELSE 0
              entry(event) == [n |-> n, event |-> event, conn |-> conn,
                               sound |-> Sound, major |-> server.major]
  <2>1. /\ wire # <<>> /\ conn \in 1..MaxConns
        /\ got \in Seq(Cells) /\ wire \in Seq(Cells)
    BY <1>1, <1>2, CellTypes, ConstantsAssumption DEF ReadFrame, TypeOK
  <2>2. m # <<>> /\ m \in Seq(Cells)
        /\ m[1] = (IF got = <<>> THEN wire[1] ELSE got[1]) /\ m[1] \in Cells
    BY <2>1, OneMore
  <2>3. n \in 0..MaxEvents
    BY <2>2, CellFacts, ConstantsAssumption
  <2>4. m[1].n <= Len(feed)
    BY <2>1, <2>2 DEF IInv, Broadcast
  <2>5. FromRaw(m) \subseteq Events
    BY <1>1, <2>2, <2>4, DecodedEvent
  <2>6. Sound \in BOOLEAN /\ server.major \in Nat
    BY <1>1, WidthType DEF Sound, TypeOK
  <2>7. \A event \in FromRaw(m) : entry(event) \in LogEntry
    BY SMTT(30), <2>1, <2>3, <2>5, <2>6 DEF LogEntry
  <2>8. /\ log' = log \/ \E event \in FromRaw(m) : log' = Append(log, entry(event))
        /\ (delivered' = delivered \/ delivered' = Append(delivered, n))
    BY <1>2 DEF ReadFrame, results
  <2>. HIDE DEF m, n, entry
  <2>9. delivered' \in Seq(0..MaxEvents)
    <3>1. Append(delivered, n) \in Seq(0..MaxEvents)
      BY <1>1, <2>3
    <3>. QED
      BY <1>1, <2>8, <3>1
  <2>10. log' \in Seq(LogEntry)
    <3>1. CASE log' = log
      BY <1>1, <3>1
    <3>2. CASE \E event \in FromRaw(m) : log' = Append(log, entry(event))
      <4>1. PICK event \in FromRaw(m) : log' = Append(log, entry(event))
        BY <3>2
      <4>. QED
        BY <1>1, <2>7, <4>1
    <3>. QED
      BY <2>8, <3>1, <3>2
  <2>. QED
    BY SMTT(30), <2>9, <2>10
<1>3. CASE ~ReadFrame
  <2>1. UNCHANGED <<log, delivered>>
    BY <1>3 DEF Next, client, results, connect, Detected, receive, receive_or_reconnect, Connected,
       Unconnected, Acknowledged, NotAcknowledged, HandshakeTimeout, ConnectionLost, Cancel, Drop,
       DaemonServe, DaemonBroadcast, DaemonDisconnect, DaemonStop, DaemonStart, Upgrade
  <2>. QED
    BY <1>1, <2>1
<1>. QED
  BY <1>2, <1>3
\* Where the task may be, and that there is a stream there.
LEMMA NextClientType ==
    ASSUME IInv, Next
    PROVE  /\ pc' \in {"none", "detecting", "connecting", "handshaking", "ready", "receiving"}
           /\ doing' \in {"none", "connect", "receive", "receive_or_reconnect"}
           /\ retried' \in BOOLEAN /\ shaken' \in BOOLEAN /\ aligned' \in BOOLEAN
           /\ conn' \in 0..MaxConns
           /\ pc' \in {"ready", "receiving", "handshaking"} => conn' > 0
<1>1. /\ pc \in {"none", "detecting", "connecting", "handshaking", "ready", "receiving"}
      /\ doing \in {"none", "connect", "receive", "receive_or_reconnect"}
      /\ retried \in BOOLEAN /\ shaken \in BOOLEAN /\ aligned \in BOOLEAN
      /\ conn \in 0..MaxConns /\ MaxConns \in Nat
      /\ pc \in {"ready", "receiving", "handshaking"} => conn > 0
      /\ pc \in {"detecting", "connecting"} /\ doing # "connect" => conn > 0
  BY ConstantsAssumption DEF IInv, TypeOK, Resting
<1>2. CASE connect \/ Detected \/ receive \/ receive_or_reconnect
  BY <1>1, <1>2 DEF connect, Detected, receive, receive_or_reconnect
<1>3. CASE Connected
  <2>1. /\ conn < MaxConns /\ conn' = conn + 1 /\ pc' = "handshaking"
        /\ shaken' = FALSE /\ aligned' = TRUE /\ UNCHANGED <<doing, retried>>
    BY <1>3 DEF Connected
  <2>2. conn' \in 0..MaxConns /\ conn' > 0
    BY <1>1, <2>1
  <2>. QED
    BY <1>1, <2>1, <2>2
<1>4. CASE Unconnected \/ HandshakeTimeout \/ Cancel
  <2>1. Fail /\ UNCHANGED <<conn, shaken>>
        /\ pc \in {"detecting", "connecting", "handshaking", "receiving"}
        /\ (aligned' = aligned \/ aligned' = (aligned /\ got = <<>>))
    BY <1>4 DEF Unconnected, HandshakeTimeout, Cancel, TimesOut
  <2>. QED
    BY <1>1, <2>1, FailEffect
<1>5. CASE Acknowledged \/ NotAcknowledged
  BY <1>1, <1>5 DEF Acknowledged, NotAcknowledged, Return
<1>6. CASE ReadFrame
  BY <1>1, <1>6 DEF ReadFrame, Return
<1>7. CASE ConnectionLost
  <2>1. CASE Fail
    BY <1>1, <1>7, <2>1, FailEffect DEF ConnectionLost
  <2>2. CASE ~Fail
    BY <1>1, <1>7, <2>2 DEF ConnectionLost
  <2>. QED
    BY <2>1, <2>2
<1>8. CASE Drop
  BY <1>1, <1>8 DEF Drop
<1>9. CASE UNCHANGED client
  BY <1>1, <1>9 DEF client
<1>10. DaemonServe \/ DaemonBroadcast \/ DaemonDisconnect \/ DaemonStop \/ DaemonStart \/ Upgrade
       => UNCHANGED client
  BY DEF DaemonServe, DaemonBroadcast, DaemonDisconnect, DaemonStop, DaemonStart, Upgrade
<1>. QED
  BY <1>2, <1>3, <1>4, <1>5, <1>6, <1>7, <1>8, <1>9, <1>10 DEF Next

\* The daemon at the other end is one of Versions; so are those started and installed.
LEMMA NextDaemonType ==
    ASSUME IInv, Next
    PROVE  /\ layout' \in Layouts /\ server' \in Versions
           /\ installed' \in Versions /\ version' \in Versions /\ running' \in BOOLEAN
           /\ peer' \in {"none", "pending", "open", "closed"}
           /\ feed' \in Seq(Statuses) /\ Len(feed') <= MaxEvents
<1>1. /\ layout \in Layouts /\ server \in Versions
      /\ installed \in Versions /\ version \in Versions /\ running \in BOOLEAN
      /\ peer \in {"none", "pending", "open", "closed"}
      /\ feed \in Seq(Statuses) /\ Len(feed) <= MaxEvents /\ MaxEvents \in Nat
  BY ConstantsAssumption DEF IInv, TypeOK
<1>2. installed.layout \in Layouts
  <2>1. installed \in [layout : Layouts, major : Nat, acks : BOOLEAN]
    BY <1>1, ConstantsAssumption
  <2>. QED
    BY <2>1
<1>3. layout' \in Layouts
  <2>1. \/ layout' = layout
        \/ layout' = installed.layout \/ layout' = "packed"
    BY SMTT(30) DEF Next, client, connect, Detected, receive, receive_or_reconnect, Connected,
       Unconnected, Acknowledged, NotAcknowledged, HandshakeTimeout, ReadFrame, ConnectionLost, Cancel, Drop,
       DaemonServe, DaemonBroadcast, DaemonDisconnect, DaemonStop, DaemonStart, Upgrade,
       detect_layout
  <2>. QED
    BY SMTT(30), <1>1, <1>2, <2>1 DEF Layouts
<1>4. server' \in Versions /\ installed' \in Versions /\ version' \in Versions /\ running' \in BOOLEAN
  BY <1>1 DEF Next, socket, daemon, connect, Detected, receive, receive_or_reconnect, Connected,
     Unconnected, Acknowledged, NotAcknowledged, HandshakeTimeout, ReadFrame, ConnectionLost,
     Cancel, Drop, DaemonServe, DaemonBroadcast, DaemonDisconnect, DaemonStop, DaemonStart, Upgrade
<1>5. peer' \in {"none", "pending", "open", "closed"}
  BY <1>1 DEF Next, socket, connect, Detected, receive, receive_or_reconnect, Connected,
     Unconnected, Fail,
     Acknowledged, NotAcknowledged, HandshakeTimeout, ReadFrame, ConnectionLost, Cancel, Drop,
     DaemonServe, DaemonBroadcast, DaemonDisconnect, DaemonStop, DaemonStart, Upgrade, Hangup
<1>6. feed' \in Seq(Statuses) /\ Len(feed') <= MaxEvents
  <2>1. CASE DaemonBroadcast
    <3>1. PICK status \in Statuses : feed' = Append(feed, status)
      BY <2>1 DEF DaemonBroadcast
    <3>2. Len(feed) < MaxEvents
      BY <2>1 DEF DaemonBroadcast
    <3>3. Append(feed, status) \in Seq(Statuses) /\ Len(Append(feed, status)) = Len(feed) + 1
      BY <1>1
    <3>. QED
      BY <1>1, <3>1, <3>2, <3>3
  <2>2. CASE ~DaemonBroadcast
    <3>1. feed' = feed
      BY <2>2 DEF Next, daemon, connect, Detected, receive, receive_or_reconnect, Connected,
         Unconnected, Acknowledged, NotAcknowledged, HandshakeTimeout, ReadFrame, ConnectionLost, Cancel, Drop,
         DaemonServe, DaemonDisconnect, DaemonStop, DaemonStart, Upgrade
    <3>. QED
      BY SMTT(30), <1>1, <3>1
  <2>. QED
    BY <2>1, <2>2
<1>. QED
  BY <1>3, <1>4, <1>5, <1>6

\* Every step keeps the types.
LEMMA NextTypeOK ==
    ASSUME IInv, Next
    PROVE  TypeOK'
BY NextWireType, NextLogType, NextClientType, NextDaemonType DEF TypeOK, Cells

-----------------------------------------------------------------------------
(* Resting.                                                                 *)

\* Every step keeps what is known outside of a read.
LEMMA NextResting ==
    ASSUME IInv, Next
    PROVE  Resting'
<1>1. TypeOK /\ Resting
  BY DEF IInv
<1>2. CASE connect \/ Detected \/ receive \/ receive_or_reconnect
  BY <1>1, <1>2 DEF connect, Detected, receive, receive_or_reconnect, Resting, TypeOK, socket
<1>3. CASE Connected
  BY <1>1, <1>3 DEF Connected, Resting, TypeOK
<1>4. CASE Unconnected \/ HandshakeTimeout \/ Cancel
  <2>1. Fail /\ UNCHANGED <<conn, shaken>>
    BY <1>4 DEF Unconnected, HandshakeTimeout, Cancel
  <2>. QED
    BY <1>1, <2>1, FailEffect DEF Resting
<1>5. CASE Acknowledged \/ NotAcknowledged
  BY <1>1, <1>5 DEF Acknowledged, NotAcknowledged, Return, Resting
<1>6. CASE ReadFrame
  BY <1>1, <1>6 DEF ReadFrame, Return, Resting
<1>7. CASE ConnectionLost
  <2>1. CASE Fail
    BY <1>1, <1>7, <2>1, FailEffect DEF ConnectionLost, Resting
  <2>2. CASE ~Fail
    BY <1>1, <1>7, <2>2 DEF ConnectionLost, EndOfFile, Resting, TypeOK
  <2>. QED
    BY <2>1, <2>2
<1>8. CASE Drop
  BY <1>1, <1>8 DEF Drop, Resting
<1>9. CASE DaemonServe
  BY <1>1, <1>9 DEF DaemonServe, Resting, client
<1>10. CASE DaemonBroadcast
  BY <1>1, <1>10 DEF DaemonBroadcast, Resting, client
<1>11. CASE DaemonDisconnect \/ DaemonStop \/ DaemonStart \/ Upgrade
  BY <1>1, <1>11 DEF DaemonDisconnect, DaemonStop, DaemonStart, Upgrade, Hangup, Resting, client,
     socket
<1>. QED
  BY <1>2, <1>3, <1>4, <1>5, <1>6, <1>7, <1>8, <1>9, <1>10, <1>11 DEF Next

-----------------------------------------------------------------------------
(* The stream.                                                              *)

\* Entries of the log as the lemmas below see them.
LEMMA LogTypes ==
    ASSUME TypeOK
    PROVE  /\ log \in Seq(LogEntry) /\ Len(log) \in Nat /\ conn \in Nat
           /\ \A k \in DOMAIN log : /\ log[k].n \in Nat /\ log[k].conn \in Nat
                                    /\ log[k].sound \in BOOLEAN
           /\ feed \in Seq(Statuses) /\ Len(feed) \in Nat
<1>1. log \in Seq(LogEntry) /\ feed \in Seq(Statuses) /\ conn \in Nat
  BY ConstantsAssumption DEF TypeOK
<1>2. \A e \in LogEntry : e.n \in Nat /\ e.conn \in Nat /\ e.sound \in BOOLEAN
  BY ConstantsAssumption DEF LogEntry
<1>. QED
  BY <1>1, <1>2

\* A step that reads nothing: the stream and what was read of it stay, or both are gone.
LEMMA QuietStep ==
    ASSUME IInv,
           UNCHANGED <<log, delivered, feed, conn, server, shaken>>,
           wire' = wire \/ wire' = <<>>,
           got' = got \/ got' = <<>>,
           peer' = "open" => peer = "open",
           AckAhead' => AckAhead /\ wire' = wire,
           Sound' => \/ Sound /\ got' = got /\ wire' = wire
                     \/ wire' = <<>> /\ got' = <<>> /\ peer' # "open"
    PROVE  (Broadcast /\ Streaming /\ InStep /\ Latest /\ SoundEvents /\ VersionsAgree)'
<1>1. /\ Broadcast /\ Streaming /\ InStep /\ Latest /\ SoundEvents /\ VersionsAgree
      /\ server.layout \in Layouts /\ Width \in Nat /\ Width > 1 /\ Width' = Width
  BY WidthType DEF IInv, Width
<1>2. Len(<<>>) = 0 /\ DOMAIN <<>> = {}
  OBVIOUS
<1>3. Broadcast'
  BY <1>1, <1>2 DEF Broadcast
<1>4. Streaming'
  <2>1. CASE wire' = wire
    BY <1>1, <2>1 DEF Streaming, Ordered, Later, Returned, Successor, Width
  <2>2. CASE wire' = <<>>
    <3>1. shaken' => Ordered(1)' /\ Later(1)' /\ server'.major = ClientMajor
      BY <1>1, <1>2, <2>2 DEF Streaming, Ordered, Later
    <3>2. ~AckAhead'
      BY <2>2 DEF AckAhead
    <3>. QED
      BY <3>1, <3>2 DEF Streaming
  <2>. QED
    BY <2>1, <2>2
<1>5. InStep'
  BY <1>1, <1>2 DEF InStep
<1>6. Latest'
  BY <1>1 DEF Latest, Returned
<1>7. SoundEvents' /\ VersionsAgree'
  BY <1>1 DEF SoundEvents, VersionsAgree
<1>. QED
  BY <1>3, <1>4, <1>5, <1>6, <1>7

\* A step of a stream that is not acknowledged, or not yet.
LEMMA UnshakenStep ==
    ASSUME IInv,
           UNCHANGED <<log, delivered, feed>>, got' = got \/ got' = <<>>,
           ~shaken', ~shaken \/ conn' > conn, conn' \in Nat, conn' >= conn,
           wire' \in Seq(Cells), ~AckAhead' \/ Len(wire') = 1,
           \A j \in DOMAIN wire' : wire'[j].n <= Len(feed)
    PROVE  (Broadcast /\ Streaming /\ InStep /\ Latest /\ SoundEvents /\ VersionsAgree)'
<1>1. TypeOK /\ Latest /\ SoundEvents /\ VersionsAgree
  BY DEF IInv
<1>2. Broadcast' /\ InStep'
  BY DEF IInv, Broadcast, InStep, Sound
<1>3. Streaming'
  <2>1. CASE ~AckAhead'
    BY <2>1 DEF Streaming
  <2>2. CASE Len(wire') = 1
    <3>1. DOMAIN (wire') \subseteq {1}
      BY <2>2
    <3>. QED
      BY <2>2, <3>1 DEF Streaming, Ordered, Later
  <2>. QED
    BY <2>1, <2>2
<1>4. Latest'
  BY <1>1, LogTypes DEF Latest, Returned, Sound
<1>5. SoundEvents' /\ VersionsAgree'
  BY <1>1 DEF SoundEvents, VersionsAgree
<1>. QED
  BY <1>2, <1>3, <1>4, <1>5

\* A sequence without its first element.
LEMMA TailFacts ==
    ASSUME NEW S, NEW w \in Seq(S), w # <<>>
    PROVE  /\ Tail(w) \in Seq(S) /\ Len(Tail(w)) = Len(w) - 1 /\ Len(w) \in Nat /\ Len(w) > 0
           /\ \A j \in DOMAIN Tail(w) : j \in Nat /\ j + 1 \in DOMAIN w /\ Tail(w)[j] = w[j + 1]
           /\ Tail(w) # <<>> => Len(w) > 1
           /\ Tail(w) = <<>> => Len(w) = 1
<1>1. /\ Tail(w) \in Seq(S) /\ Len(Tail(w)) = Len(w) - 1 /\ Len(w) \in Nat /\ Len(w) > 0
      /\ DOMAIN w = 1..Len(w) /\ DOMAIN Tail(w) = 1..(Len(w) - 1)
  OBVIOUS
<1>2. \A j \in 1..(Len(w) - 1) : Tail(w)[j] = w[j + 1]
  OBVIOUS
<1>3. Tail(w) # <<>> => Len(Tail(w)) # 0
  BY <1>1
<1>4. Tail(w) = <<>> => Len(Tail(w)) = 0
  <2>. DEFINE t == Tail(w)
  <2>. HIDE DEF t
  <2>1. t = <<>> => Len(t) = 0
    OBVIOUS
  <2>. QED
    BY <2>1 DEF t
<1>. QED
  BY <1>1, <1>2, <1>3, <1>4

\* What was in order behind the cell that is read is in order at the front.
LEMMA TailOrdered ==
    ASSUME TypeOK, NEW f \in {1, 2}, Ordered(f), wire # <<>>, wire' = Tail(wire),
           UNCHANGED <<server, feed>>, peer' = "open" => peer = "open"
    PROVE  Ordered(1)'
<1>1. wire \in Seq(Cells) /\ Width' = Width
  BY CellTypes DEF Width
<1>2. /\ wire' \in Seq(Cells) /\ Len(wire') = Len(wire) - 1 /\ Len(wire) \in Nat /\ Len(wire) > 0
      /\ \A j \in DOMAIN wire' : j \in Nat /\ j + 1 \in DOMAIN wire /\ wire'[j] = wire[j + 1]
      /\ DOMAIN wire' = 1..Len(wire') /\ DOMAIN wire = 1..Len(wire)
  BY <1>1, TailFacts
<1>3. \A j \in DOMAIN wire' : wire'[j].kind = "frame" /\ wire'[j].part <= Width
  BY <1>2 DEF Ordered
<1>4. ASSUME NEW j \in DOMAIN wire', j # Len(wire')
      PROVE  wire'[j + 1] = Successor(wire[j])'
  <2>1. j \in Nat /\ j + 1 \in DOMAIN wire' /\ j + 1 \in DOMAIN wire /\ j + 1 # Len(wire) /\ j + 1 >= f
    BY <1>2, <1>4
  <2>2. wire'[j] = wire[j + 1] /\ wire'[j + 1] = wire[(j + 1) + 1]
    BY <1>2, <2>1
  <2>3. wire[(j + 1) + 1] = Successor(wire[j + 1])
    BY <2>1 DEF Ordered
  <2>. QED
    BY <1>1, <2>2, <2>3 DEF Successor
<1>5. ASSUME Len(wire') >= 1
      PROVE  wire'[Len(wire')].part = Width /\ (peer' = "open" => wire'[Len(wire')].n = Len(feed'))
  <2>1. Len(wire) >= f /\ wire'[Len(wire')] = wire[Len(wire)]
    BY <1>2, <1>5
  <2>. QED
    BY <2>1 DEF Ordered
<1>. QED
  BY <1>1, <1>3, <1>4, <1>5 DEF Ordered

\* The acknowledgement is read: the messages behind it come to the front.
LEMMA AcknowledgedStep ==
    ASSUME IInv, Acknowledged
    PROVE  (Broadcast /\ Streaming /\ InStep /\ Latest /\ SoundEvents /\ VersionsAgree)'
<1>1. /\ TypeOK /\ Resting /\ Broadcast /\ Streaming /\ Latest /\ SoundEvents /\ VersionsAgree
      /\ wire \in Seq(Cells) /\ Width \in Nat /\ Width > 1
  BY CellTypes, WidthType DEF IInv
<1>2. /\ pc = "handshaking" /\ pc' # "handshaking" /\ wire # <<>> /\ wire' = Tail(wire)
      /\ shaken' = TRUE /\ ~shaken /\ got = <<>> /\ got' = <<>>
      /\ UNCHANGED <<log, delivered, conn, server, peer, feed>>
      /\ AckAhead /\ server.major = ClientMajor
  BY <1>1 DEF Acknowledged, Return, results, daemon, Resting, AckAhead, SameMajor
<1>3. /\ wire' \in Seq(Cells) /\ Len(wire') = Len(wire) - 1 /\ Len(wire) \in Nat
      /\ \A j \in DOMAIN wire' : j \in Nat /\ j + 1 \in DOMAIN wire /\ wire'[j] = wire[j + 1]
      /\ Len(<<>>) = 0 /\ DOMAIN <<>> = {} /\ Width' = Width
  BY <1>1, <1>2, TailFacts DEF Width
<1>4. Broadcast'
  BY <1>1, <1>2, <1>3 DEF Broadcast
<1>5. Ordered(2) /\ Later(2) /\ (Len(wire) > 1 => wire[2].part = 1)
  BY <1>1, <1>2 DEF Streaming
<1>6. Streaming'
  <2>1. Ordered(1)'
    BY <1>1, <1>2, <1>5, TailOrdered
  <2>2. Later(1)'
    BY <1>2, <1>3, <1>5 DEF Later, Returned
  <2>. QED
    BY <1>2, <2>1, <2>2 DEF Streaming, AckAhead
<1>7. InStep'
  BY <1>1, <1>2, <1>3, <1>5 DEF InStep
<1>8. Latest'
  BY <1>1, <1>2 DEF Latest, Returned
<1>9. SoundEvents' /\ VersionsAgree'
  BY <1>1, <1>2 DEF SoundEvents, VersionsAgree
<1>. QED
  BY <1>4, <1>6, <1>7, <1>8, <1>9

-----------------------------------------------------------------------------
(* A broadcast.                                                             *)

\* Two sequences, one behind the other.
LEMMA ConcatFacts ==
    ASSUME NEW S, NEW v \in Seq(S), NEW w \in Seq(S)
    PROVE  /\ v \o w \in Seq(S) /\ Len(v \o w) = Len(v) + Len(w)
           /\ Len(v) \in Nat /\ Len(w) \in Nat
           /\ DOMAIN (v \o w) = 1..(Len(v) + Len(w))
           /\ \A j \in 1..Len(v) : (v \o w)[j] = v[j]
           /\ \A j \in 1..Len(w) : (v \o w)[Len(v) + j] = w[j]
OBVIOUS

\* A message is put behind those on the stream.
LEMMA BroadcastStep ==
    ASSUME IInv, DaemonBroadcast
    PROVE  (Broadcast /\ Streaming /\ InStep /\ Latest /\ SoundEvents /\ VersionsAgree)'
<1>. DEFINE N == Len(feed) + 1
            F == Frame(N, server.layout)
            L == Len(wire)
<1>1. /\ TypeOK /\ Broadcast /\ Streaming /\ InStep /\ Latest /\ SoundEvents /\ VersionsAgree
      /\ wire \in Seq(Cells) /\ L \in Nat /\ Width \in Nat /\ Width > 1
      /\ \A k \in DOMAIN log : log[k].n \in Nat
      /\ feed \in Seq(Statuses) /\ Len(feed) \in Nat /\ DOMAIN feed = 1..Len(feed)
  BY CellTypes, WidthType, LogTypes DEF IInv
<1>2. /\ UNCHANGED <<pc, log, delivered, conn, got, layout, shaken, aligned, server, peer>>
      /\ (peer # "open" => wire' = wire) /\ (peer = "open" => wire' = wire \o F)
  BY DEF DaemonBroadcast, client, results
<1>3. /\ Len(feed') = N /\ DOMAIN feed' = 1..N /\ \A n \in DOMAIN feed : feed'[n] = feed[n]
      /\ DOMAIN feed \subseteq DOMAIN feed'
  BY <1>1 DEF DaemonBroadcast
<1>4. N \in 1..MaxEvents
  BY <1>1, ConstantsAssumption DEF DaemonBroadcast
<1>5. /\ F \in Seq(Cells) /\ Len(F) = Width
      /\ \A j \in 1..Width : F[j] = [kind |-> "frame", n |-> N, part |-> j]
  BY <1>1, <1>4, FrameFacts, WidthType DEF Width
<1>6. SoundEvents' /\ VersionsAgree'
  <2>1. \A k \in DOMAIN log : log[k].sound => log[k].n \in DOMAIN feed
    BY <1>1 DEF Latest, Returned
  <2>. QED
    BY <1>1, <1>2, <1>3, <2>1 DEF SoundEvents, VersionsAgree
<1>. HIDE DEF F
<1>7. CASE peer # "open"
  <2>1. wire' = wire /\ peer' # "open" /\ Width' = Width
    BY <1>2, <1>7 DEF Width
  <2>2. Broadcast'
    <3>1. /\ \A j \in DOMAIN wire : wire[j].n <= N
          /\ \A j \in DOMAIN got : got[j].n <= N
      BY <1>1, CellTypes DEF Broadcast
    <3>. QED
      BY <1>2, <1>3, <2>1, <3>1 DEF Broadcast
  <2>3. Streaming'
    BY <1>1, <1>2, <2>1 DEF Streaming, AckAhead, Ordered, Later, Returned, Successor, Width
  <2>4. InStep' /\ Latest'
    BY <1>1, <1>2, <1>3, <2>1 DEF InStep, Latest, Sound, Returned
  <2>. QED
    BY <1>6, <2>2, <2>3, <2>4
<1>8. CASE peer = "open"
  <2>1. /\ wire' \in Seq(Cells) /\ Len(wire') = L + Width /\ DOMAIN wire' = 1..(L + Width)
        /\ DOMAIN wire = 1..L /\ Width' = Width
        /\ \A j \in 1..L : wire'[j] = wire[j]
    <3>1. /\ wire \o F \in Seq(Cells) /\ Len(wire \o F) = L + Len(F)
          /\ DOMAIN (wire \o F) = 1..(L + Len(F))
          /\ \A j \in 1..L : (wire \o F)[j] = wire[j]
      <4>1. wire \in Seq(Cells) /\ F \in Seq(Cells)
        BY <1>1, <1>5
      <4>. QED
        BY <4>1, ConcatFacts
    <3>2. wire' = wire \o F
      BY <1>2, <1>8
    <3>3. DOMAIN wire = 1..L /\ Width' = Width
      BY <1>1, <1>2 DEF Width
    <3>. QED
      BY <1>5, <3>1, <3>2, <3>3
  <2>2. ASSUME NEW j \in DOMAIN wire', j > L
        PROVE  wire'[j].kind = "frame" /\ wire'[j].n = N /\ wire'[j].part = j - L
    <3>1. j - L \in 1..Width /\ L + (j - L) = j
      BY <1>1, <2>1, <2>2
    <3>2. \A i \in 1..Width : (wire \o F)[L + i] = F[i]
      BY <1>1, <1>5, ConcatFacts
    <3>3. wire'[j] = F[j - L]
      BY <1>2, <1>8, <3>1, <3>2
    <3>. QED
      BY <1>5, <3>1, <3>3
  <2>3. Broadcast'
    <3>1. ASSUME NEW j \in DOMAIN wire' PROVE wire'[j].n <= N
      <4>1. CASE j <= L
        BY <1>1, <2>1, <4>1, CellTypes DEF Broadcast
      <4>2. CASE j > L
        BY <1>1, <2>2, <4>2
      <4>. QED
        BY <1>1, <2>1, <4>1, <4>2
    <3>2. \A j \in DOMAIN got : got[j].n <= N
      BY <1>1, CellTypes DEF Broadcast
    <3>. QED
      BY <1>2, <1>3, <3>1, <3>2 DEF Broadcast
  <2>4. ASSUME NEW f \in {1, 2}, Ordered(f), L >= f - 1
        PROVE  Ordered(f)'
    <3>1. ASSUME NEW j \in DOMAIN wire', j >= f
          PROVE  wire'[j].kind = "frame" /\ wire'[j].part <= Width
      <4>1. CASE j <= L
        BY <1>1, <2>1, <2>4, <3>1, <4>1 DEF Ordered
      <4>2. CASE j > L
        BY <1>1, <2>1, <2>2, <4>2
      <4>. QED
        BY <1>1, <2>1, <4>1, <4>2
    <3>2. ASSUME NEW j \in DOMAIN wire', j >= f, j # Len(wire')
          PROVE  wire'[j + 1] = Successor(wire[j])'
      <4>1. CASE j < L
        <5>1. j \in 1..L /\ j + 1 \in 1..L /\ j \in DOMAIN wire /\ j # Len(wire)
          BY <1>1, <2>1, <4>1
        <5>2. wire[j + 1] = Successor(wire[j])
          BY <2>4, <3>2, <5>1 DEF Ordered
        <5>. QED
          BY <2>1, <5>1, <5>2 DEF Successor
      <4>2. CASE j = L
        <5>1. wire[L].part = Width /\ wire[L].n = Len(feed) /\ wire'[L] = wire[L]
          <6>1. L >= f /\ L \in 1..L
            <7>1. L \in Nat /\ j >= f /\ j = L /\ f \in Nat /\ f >= 1
              BY <1>1, <3>2, <4>2
            <7>. HIDE DEF L
            <7>. QED
              BY <7>1
          <6>. QED
            BY <1>8, <2>1, <2>4, <6>1 DEF Ordered
        <5>2. L + 1 \in DOMAIN wire' /\ (L + 1) - L = 1
          BY <1>1, <2>1
        <5>3. wire'[L + 1].kind = "frame" /\ wire'[L + 1].n = N /\ wire'[L + 1].part = 1
          BY <1>1, <2>2, <5>2
        <5>4. wire'[L + 1] = [kind |-> "frame", n |-> N, part |-> 1]
          BY <2>1, <5>2, <5>3, CellRecord
        <5>. QED
          BY <2>1, <4>2, <5>1, <5>4 DEF Successor
      <4>3. CASE j > L
        <5>1. j + 1 \in DOMAIN wire' /\ j + 1 > L /\ (j + 1) - L = (j - L) + 1 /\ j - L # Width
          <6>1. j \in 1..(L + Width) /\ j # L + Width
            BY <2>1, <3>2
          <6>2. L \in Nat /\ Width \in Nat /\ DOMAIN wire' = 1..(L + Width)
            BY <1>1, <2>1
          <6>. HIDE DEF L
          <6>. QED
            BY <4>3, <6>1, <6>2
        <5>2. /\ wire'[j].part = j - L /\ wire'[j].n = N
              /\ wire'[j + 1].kind = "frame" /\ wire'[j + 1].n = N /\ wire'[j + 1].part = (j - L) + 1
          BY <2>2, <4>3, <5>1
        <5>3. wire'[j + 1] = [kind |-> "frame", n |-> N, part |-> (j - L) + 1]
          BY <2>1, <5>1, <5>2, CellRecord
        <5>. QED
          BY <2>1, <5>1, <5>2, <5>3 DEF Successor
      <4>. QED
        BY <1>1, <2>1, <4>1, <4>2, <4>3
    <3>3. wire'[Len(wire')].n = N /\ wire'[Len(wire')].part = Width
      <4>1. L + Width \in DOMAIN wire' /\ L + Width > L /\ (L + Width) - L = Width
        BY <1>1, <2>1
      <4>. QED
        BY <2>1, <2>2, <4>1
    <3>. QED
      BY <1>3, <2>1, <3>1, <3>2, <3>3 DEF Ordered
  <2>5. ASSUME NEW f \in {1, 2}, Later(f), L >= f - 1
        PROVE  Later(f)'
    <3>1. CASE f \in 1..L
      BY <1>2, <2>1, <2>5, <3>1 DEF Later, Returned
    <3>2. CASE f = L + 1
      <4>1. wire'[f].n = N
        <5>1. f \in DOMAIN wire' /\ f > L
          BY <1>1, <2>1, <3>2
        <5>. QED
          BY <2>2, <5>1
      <4>2. \A k \in Returned : log[k].n < N
        BY <1>1 DEF Latest, Returned
      <4>. QED
        BY <1>2, <4>1, <4>2 DEF Later, Returned
    <3>. QED
      BY <1>1, <2>5, <3>1, <3>2
  <2>6. Streaming'
    <3>1. ASSUME AckAhead'
          PROVE  Ordered(2)' /\ Later(2)' /\ (Len(wire') > 1 => wire'[2].part = 1)
      <4>1. L >= 1 /\ AckAhead
        <5>1. L = 0 => wire'[1].kind = "frame"
          <6>1. L = 0 => 1 \in DOMAIN wire' /\ 1 > L
            BY <1>1, <2>1
          <6>. QED
            BY <2>2, <6>1
        <5>2. L # 0 => L >= 1 /\ wire # <<>> /\ wire'[1] = wire[1]
          BY <1>1, <2>1
        <5>. QED
          BY <1>2, <3>1, <5>1, <5>2 DEF AckAhead
      <4>2. Ordered(2) /\ Later(2) /\ (L > 1 => wire[2].part = 1)
        BY <1>1, <4>1 DEF Streaming
      <4>3. wire'[2].part = 1
        <5>1. CASE L > 1
          BY <1>1, <2>1, <4>2, <5>1
        <5>2. CASE L = 1
          <6>1. 2 \in DOMAIN wire' /\ 2 > L /\ 2 - L = 1
            BY <1>1, <2>1, <5>2
          <6>. QED
            BY <2>2, <6>1
        <5>3. L = 1 \/ L > 1
          <6>1. L \in Nat /\ L >= 1
            BY <1>1, <4>1
          <6>. HIDE DEF L
          <6>. QED
            BY <6>1
        <5>. QED
          BY <5>1, <5>2, <5>3
      <4>. QED
        BY <2>4, <2>5, <4>1, <4>2, <4>3
    <3>2. ASSUME shaken'
          PROVE  Ordered(1)' /\ Later(1)' /\ server'.major = ClientMajor
      BY <1>1, <1>2, <2>4, <2>5, <3>2 DEF Streaming
    <3>. QED
      BY <3>1, <3>2 DEF Streaming
  <2>7. InStep'
    <3>1. CASE wire = <<>>
      <4>1. Sound => got = <<>> /\ Len(got) = 0
        BY <1>1, <3>1 DEF InStep
      <4>2. wire'[1].part = 1 /\ L = 0
        <5>1. L = 0 /\ 1 \in DOMAIN wire' /\ 1 > L /\ 1 - L = 1
          BY <1>1, <2>1, <3>1
        <5>. QED
          BY <2>2, <5>1
      <4>3. DOMAIN <<>> = {}
        OBVIOUS
      <4>. QED
        BY <1>1, <1>2, <2>1, <4>1, <4>2, <4>3 DEF InStep, Sound
    <3>2. CASE wire # <<>>
      <4>1. wire'[1] = wire[1] /\ wire' # <<>>
        BY <1>1, <2>1, <3>2
      <4>. QED
        BY <1>1, <1>2, <2>1, <3>2, <4>1 DEF InStep, Sound
    <3>. QED
      BY <3>1, <3>2
  <2>8. Latest'
    <3>1. wire' # <<>>
      BY <1>1, <2>1
    <3>2. wire'[1].n = IF wire = <<>> THEN N ELSE wire[1].n
      <4>1. CASE wire = <<>>
        <5>1. L = 0 /\ 1 \in DOMAIN wire' /\ 1 > L
          BY <1>1, <2>1, <4>1
        <5>. QED
          BY <2>2, <4>1, <5>1
      <4>2. CASE wire # <<>>
        BY <1>1, <2>1, <4>2
      <4>. QED
        BY <4>1, <4>2
    <3>. QED
      BY <1>1, <1>2, <1>3, <1>8, <3>1, <3>2 DEF Latest, Returned, Sound
  <2>. QED
    BY <1>6, <2>3, <2>6, <2>7, <2>8
<1>. QED
  BY <1>7, <1>8

-----------------------------------------------------------------------------
(* A cell is read.                                                          *)

\* What is known of the cell that is read and of the one behind it.
LEMMA CellRead ==
    ASSUME IInv, wire # <<>>, shaken
    PROVE  /\ wire[1].kind = "frame" /\ wire[1].part <= Width
           /\ wire[1].n \in 1..Len(feed) /\ wire[1].n \in Nat
           /\ Tail(wire) # <<>> =>
                 /\ wire[2] = Successor(wire[1]) /\ wire[2].n \in Nat /\ wire[2].n >= wire[1].n
                 /\ wire[1].part = Width => wire[2].n = wire[1].n + 1 /\ wire[2].part = 1
                 /\ wire[1].part # Width => wire[2].n = wire[1].n /\ wire[2].part = wire[1].part + 1
           /\ Tail(wire) = <<>> =>
                 wire[1].part = Width /\ (peer = "open" => wire[1].n = Len(feed))
           /\ \A k \in Returned : log[k].n < wire[1].n
<1>1. /\ TypeOK /\ Broadcast /\ Ordered(1) /\ Later(1)
      /\ wire \in Seq(Cells) /\ Len(feed) \in Nat
  BY CellTypes, LogTypes DEF IInv, Streaming
<1>2. /\ Len(wire) \in Nat /\ 1 \in DOMAIN wire /\ DOMAIN wire = 1..Len(wire)
      /\ Tail(wire) # <<>> => 1 # Len(wire) /\ 2 \in DOMAIN wire
      /\ Tail(wire) = <<>> => Len(wire) = 1
  BY <1>1, TailFacts
<1>3. wire[1].kind = "frame" /\ wire[1].part <= Width /\ wire[1].n <= Len(feed)
  BY <1>1, <1>2 DEF Ordered, Broadcast
<1>4. wire[1].n \in 1..MaxEvents /\ wire[1].n \in Nat /\ wire[1].part \in Nat
  <2>1. wire[1] \in Cells
    BY <1>1, <1>2
  <2>2. wire[1].kind = "frame" => wire[1].n \in 1..MaxEvents
    BY <2>1, CellFacts
  <2>. QED
    BY <1>1, <1>2, <1>3, <2>2, CellTypes
<1>5. Tail(wire) # <<>> =>
          /\ wire[2] = Successor(wire[1]) /\ wire[2].n \in Nat /\ wire[2].n >= wire[1].n
          /\ wire[1].part = Width => wire[2].n = wire[1].n + 1 /\ wire[2].part = 1
          /\ wire[1].part # Width => wire[2].n = wire[1].n /\ wire[2].part = wire[1].part + 1
  <2>1. Tail(wire) # <<>> => wire[1 + 1] = Successor(wire[1])
    BY SMTT(30), <1>1, <1>2 DEF Ordered
  <2>. QED
    BY SMTT(30), <1>4, <2>1 DEF Successor
<1>6. Tail(wire) = <<>> => wire[1].part = Width /\ (peer = "open" => wire[1].n = Len(feed))
  BY <1>1, <1>2 DEF Ordered
<1>7. \A k \in Returned : log[k].n < wire[1].n
  BY <1>1, <1>2 DEF Later
<1>. QED
  BY SMTT(30), <1>1, <1>3, <1>4, <1>5, <1>6, <1>7

\* The effect that all reads have.
LEMMA ReadEffect ==
    ASSUME IInv, ReadFrame
    PROVE  /\ wire # <<>> /\ wire' = Tail(wire)
           /\ UNCHANGED <<feed, layout, conn, shaken, aligned, server, peer>>
           /\ pc' # "handshaking" /\ Sound' = Sound /\ Width' = Width
           /\ got' = <<>> \/ got' = Append(got, Head(wire))
           /\ wire \in Seq(Cells) /\ got \in Seq(Cells) /\ Width \in Nat /\ Width > 1
           /\ wire' \in Seq(Cells)
           /\ wire' # <<>> => wire'[1] = wire[2]
<1>1. TypeOK /\ wire \in Seq(Cells) /\ got \in Seq(Cells) /\ Width \in Nat /\ Width > 1
  BY CellTypes, WidthType DEF IInv
<1>2. /\ wire # <<>> /\ wire' = Tail(wire) /\ pc' # "handshaking"
      /\ UNCHANGED <<feed, layout, conn, shaken, aligned, server, peer>>
      /\ got' = <<>> \/ got' = Append(got, Head(wire))
  BY DEF ReadFrame, Return, daemon
<1>3. wire' \in Seq(Cells) /\ (wire' # <<>> => 1 \in DOMAIN Tail(wire))
  BY <1>1, <1>2, TailFacts
<1>4. wire' # <<>> => wire'[1] = wire[1 + 1]
  BY <1>1, <1>2, <1>3, TailFacts
<1>. QED
  BY SMTT(30), <1>1, <1>2, <1>3, <1>4 DEF Sound, Width

\* Nothing is read that was not broadcast.
LEMMA ReadBroadcast ==
    ASSUME IInv, ReadFrame
    PROVE  Broadcast'
<1>1. Broadcast /\ TypeOK
  BY DEF IInv
<1>2. \A j \in DOMAIN wire' : wire'[j].n <= Len(feed')
  BY <1>1, ReadEffect, TailFacts DEF Broadcast
<1>3. \A j \in DOMAIN got' : got'[j].n <= Len(feed')
  <2>1. CASE got' = <<>>
    BY <2>1
  <2>2. CASE got' = Append(got, Head(wire))
    <3>1. /\ DOMAIN got' = 1..(Len(got) + 1) /\ DOMAIN got = 1..Len(got) /\ Len(got) \in Nat
          /\ got'[Len(got) + 1] = wire[1] /\ 1 \in DOMAIN wire
          /\ \A j \in 1..Len(got) : got'[j] = got[j]
      BY <2>2, ReadEffect, OneMore
    <3>2. ASSUME NEW j \in DOMAIN got' PROVE got'[j].n <= Len(feed)
      <4>1. j \in 1..Len(got) \/ j = Len(got) + 1
        BY <3>1
      <4>. QED
        BY <1>1, <3>1, <4>1 DEF Broadcast
    <3>. QED
      BY <3>2, ReadEffect
  <2>. QED
    BY <2>1, <2>2, ReadEffect
<1>. QED
  BY <1>2, <1>3 DEF Broadcast

\* The cell is not the last one of its message.
LEMMA PartRead ==
    ASSUME IInv, ReadFrame, UNCHANGED <<log, delivered>>,
           got' = Append(got, Head(wire)), Len(got') < CellsOf(layout)
    PROVE  (Streaming /\ InStep /\ Latest /\ SoundEvents /\ VersionsAgree)'
<1>1. TypeOK /\ Streaming /\ InStep /\ Latest /\ SoundEvents /\ VersionsAgree
  BY DEF IInv
<1>2. Streaming'
  <2>1. ASSUME shaken
        PROVE  Ordered(1)' /\ Later(1)' /\ server'.major = ClientMajor
    <3>1. Ordered(1) /\ server.major = ClientMajor
      BY <1>1, <2>1 DEF Streaming
    <3>2. Ordered(1)'
      BY <1>1, <3>1, ReadEffect, TailOrdered
    <3>3. Later(1)'
      <4>1. wire' # <<>> => wire'[1].n >= wire[1].n
        BY <2>1, ReadEffect, CellRead
      <4>2. \A k \in Returned : log[k].n < wire[1].n
        BY <2>1, ReadEffect, CellRead
      <4>3. \A k \in Returned : log[k].n \in Nat
        BY <1>1, LogTypes DEF Returned
      <4>4. 1 \in DOMAIN wire' => wire' # <<>> /\ wire'[1].n \in Nat /\ wire[1].n \in Nat
        <5>1. 1 \in DOMAIN wire' => wire' # <<>>
          OBVIOUS
        <5>2. wire[1].n \in Nat
          BY <2>1, ReadEffect, CellRead
        <5>3. wire' # <<>> => wire'[1].n \in Nat
          BY <2>1, ReadEffect, CellRead
        <5>. QED
          BY <5>1, <5>2, <5>3
      <4>. QED
        BY <4>1, <4>2, <4>3, <4>4 DEF Later, Returned
    <3>. QED
      BY <3>1, <3>2, <3>3, ReadEffect
  <2>. QED
    BY <2>1, ReadEffect DEF Streaming, AckAhead
<1>3. ASSUME Sound
      PROVE  /\ wire' # <<>> /\ wire'[1].n = wire[1].n /\ wire'[1].part = Len(got') + 1
             /\ Len(got') < Width
             /\ \A j \in DOMAIN got' : got'[j] = [kind |-> "frame", n |-> wire[1].n, part |-> j]
  <2>1. /\ shaken /\ layout = server.layout /\ wire[1].part = Len(got) + 1
        /\ \A j \in DOMAIN got : got[j] = [kind |-> "frame", n |-> wire[1].n, part |-> j]
    BY <1>1, <1>3, ReadEffect DEF InStep, Sound
  <2>2. /\ Len(got') = Len(got) + 1 /\ Len(got) \in Nat
        /\ DOMAIN got' = 1..(Len(got) + 1) /\ DOMAIN got = 1..Len(got)
        /\ got'[Len(got) + 1] = wire[1] /\ 1 \in DOMAIN wire
        /\ \A j \in 1..Len(got) : got'[j] = got[j]
    BY ReadEffect, OneMore
  <2>3. Len(got') < Width /\ wire[1].part # Width
    BY <2>1, <2>2, ReadEffect DEF Width
  <2>4. wire' # <<>> /\ wire'[1].n = wire[1].n /\ wire'[1].part = wire[1].part + 1
    BY <2>1, <2>3, ReadEffect, CellRead
  <2>5. wire[1] = [kind |-> "frame", n |-> wire[1].n, part |-> Len(got) + 1]
    BY <2>1, <2>2, ReadEffect, CellRead, CellRecord
  <2>6. \A j \in DOMAIN got' : j \in 1..Len(got) \/ j = Len(got) + 1
    BY <2>2
  <2>. QED
    BY <2>1, <2>2, <2>3, <2>4, <2>5, <2>6
<1>4. InStep'
  BY <1>3, ReadEffect DEF InStep
<1>5. Latest'
  BY <1>1, <1>3, ReadEffect DEF Latest, Returned
<1>6. SoundEvents' /\ VersionsAgree'
  BY <1>1, ReadEffect DEF SoundEvents, VersionsAgree
<1>. QED
  BY <1>2, <1>4, <1>5, <1>6

\* On a sound stream the cells of a whole length are one message.
LEMMA SoundMessage ==
    ASSUME IInv, ReadFrame, Sound,
           NEW m, m = Append(got, Head(wire)), Len(m) = CellsOf(layout)
    PROVE  /\ m = Frame(wire[1].n, layout) /\ wire[1].part = Width
           /\ m[1].kind = "frame" /\ m[1].part = 1 /\ m[1].n = wire[1].n
<1>1. /\ wire[1].part = Len(got) + 1 /\ layout = server.layout /\ shaken /\ wire # <<>>
      /\ \A j \in DOMAIN got : got[j] = [kind |-> "frame", n |-> wire[1].n, part |-> j]
  BY ReadEffect DEF IInv, InStep, Sound
<1>2. /\ m \in Seq(Cells) /\ Len(m) = Len(got) + 1 /\ Len(got) \in Nat
      /\ DOMAIN got = 1..Len(got)
      /\ m[Len(got) + 1] = wire[1] /\ 1 \in DOMAIN wire
      /\ \A j \in 1..Len(got) : m[j] = got[j]
  BY ReadEffect, OneMore
<1>3. wire[1] = [kind |-> "frame", n |-> wire[1].n, part |-> Len(got) + 1]
  BY <1>1, <1>2, ReadEffect, CellRead, CellRecord
<1>4. Width = Len(m) /\ Width = CellsOf(layout) /\ Width \in Nat /\ Width > 1
  BY <1>1, ReadEffect DEF Width
<1>5. ASSUME NEW j \in 1..Width
      PROVE  m[j] = [kind |-> "frame", n |-> wire[1].n, part |-> j]
  <2>1. j \in 1..Len(got) \/ j = Len(got) + 1
    BY <1>2, <1>4
  <2>. QED
    BY <1>1, <1>2, <1>3, <2>1
<1>6. m = [j \in 1..Width |-> m[j]]
  <2>1. m = [j \in 1..Len(m) |-> m[j]]
    BY <1>2, SeqFunction
  <2>. QED
    BY <1>4, <2>1
<1>7. m = Frame(wire[1].n, layout)
  BY <1>4, <1>5, <1>6 DEF Frame
<1>8. m[1] = [kind |-> "frame", n |-> wire[1].n, part |-> 1]
  BY <1>4, <1>5
<1>. QED
  BY <1>1, <1>2, <1>4, <1>7, <1>8

\* The last cell of a message is read.
LEMMA WholeRead ==
    ASSUME IInv, ReadFrame, ~UNCHANGED <<log, delivered>>
    PROVE  (Streaming /\ InStep /\ Latest /\ SoundEvents /\ VersionsAgree)'
<1>. DEFINE m == Append(got, Head(wire))
            whole == m[1].part = 1 /\ m[1].n # 0 /\ m = Frame(m[1].n, layout)
            n == IF whole THEN m[1].n ELSE 0
            K == Len(log) + 1
<1>1. /\ TypeOK /\ Streaming /\ InStep /\ Latest /\ SoundEvents /\ VersionsAgree
      /\ log \in Seq(LogEntry) /\ Len(log) \in Nat /\ DOMAIN log = 1..Len(log)
      /\ \A k \in DOMAIN log : log[k].n \in Nat /\ log[k].conn \in Nat /\ log[k].sound \in BOOLEAN
      /\ delivered \in Seq(0..MaxEvents)
      /\ Len(feed) \in Nat /\ DOMAIN feed = 1..Len(feed)
  BY SMTT(30), LogTypes DEF IInv, TypeOK
<1>2. PICK event \in FromRaw(m) :
          log' = Append(log, [n |-> n, event |-> event, conn |-> conn,
                              sound |-> Sound, major |-> server.major])
  BY DEF ReadFrame, results
<1>3. /\ Len(m) = CellsOf(layout) /\ got' = <<>>
      /\ delivered' = IF Sound THEN Append(delivered, n) ELSE delivered
  BY SMTT(30) DEF ReadFrame, results, Return, ReadSize
<1>4. Sound => /\ n = wire[1].n /\ n \in 1..Len(feed) /\ event = from_fields(feed[n])
               /\ wire[1].part = Width /\ shaken
  <2>1. ASSUME Sound
        PROVE  /\ m = Frame(wire[1].n, layout) /\ wire[1].part = Width
               /\ m[1].kind = "frame" /\ m[1].part = 1 /\ m[1].n = wire[1].n
    BY <1>3, <2>1, SoundMessage
  <2>2. Sound => shaken /\ wire[1].n \in 1..Len(feed)
    BY ReadEffect, CellRead DEF Sound
  <2>3. Sound => whole /\ n = wire[1].n
    BY SMTT(30), <1>1, <2>1, <2>2
  <2>4. Sound => event = from_fields(feed[m[1].n])
    BY <1>2, <2>1 DEF FromRaw
  <2>. QED
    BY <2>1, <2>2, <2>3, <2>4
<1>. HIDE DEF m, n
<1>. DEFINE entry == [n |-> n, event |-> event, conn |-> conn,
                      sound |-> Sound, major |-> server.major]
<1>5. /\ Len(log') = K /\ DOMAIN log' = 1..K /\ \A k \in DOMAIN log : log'[k] = log[k]
      /\ log'[K] = entry
      /\ \A k \in DOMAIN log' : k \in DOMAIN log \/ k = K
  <2>1. log' = Append(log, entry)
    BY <1>2
  <2>. HIDE DEF entry
  <2>2. log \in Seq(LogEntry)
    BY <1>1
  <2>3. /\ Len(Append(log, entry)) = Len(log) + 1 /\ DOMAIN Append(log, entry) = 1..(Len(log) + 1)
        /\ \A k \in DOMAIN log : Append(log, entry)[k] = log[k]
        /\ Append(log, entry)[Len(log) + 1] = entry
        /\ \A k \in DOMAIN Append(log, entry) : k \in DOMAIN log \/ k = Len(log) + 1
    BY <2>2, AppendFacts
  <2>. QED
    BY <2>1, <2>3
<1>6. /\ log'[K].n = n /\ log'[K].event = event /\ log'[K].conn = conn
      /\ log'[K].sound = Sound /\ log'[K].major = server.major
  BY <1>5
<1>7. Returned' = Returned \cup (IF Sound THEN {K} ELSE {})
  BY <1>1, <1>5, <1>6 DEF Returned
<1>8. wire' # <<>> /\ Sound => wire'[1].n = n + 1 /\ wire'[1].part = 1
  BY <1>4, ReadEffect, CellRead
<1>9. Streaming'
  <2>1. ASSUME shaken
        PROVE  Ordered(1)' /\ Later(1)' /\ server'.major = ClientMajor
    <3>1. Ordered(1) /\ server.major = ClientMajor
      BY <1>1, <2>1 DEF Streaming
    <3>2. Ordered(1)'
      BY <1>1, <3>1, ReadEffect, TailOrdered
    <3>3. ASSUME 1 \in DOMAIN wire', NEW k \in Returned'
          PROVE  log'[k].n < wire'[1].n
      <4>1. wire' # <<>> /\ wire'[1].n \in Nat /\ wire[1].n \in Nat /\ wire'[1].n >= wire[1].n
        <5>1. wire' # <<>>
          BY <3>3
        <5>2. wire[1].n \in Nat /\ wire[2].n \in Nat /\ wire[2].n >= wire[1].n
          BY <2>1, <5>1, ReadEffect, CellRead
        <5>. QED
          BY <5>1, <5>2, ReadEffect
      <4>2. CASE k \in Returned
        <5>1. log'[k].n = log[k].n /\ log[k].n < wire[1].n /\ log[k].n \in Nat
          BY <1>1, <1>5, <2>1, <4>2, ReadEffect, CellRead DEF Returned
        <5>. QED
          BY <4>1, <5>1
      <4>3. CASE k = K /\ Sound
        BY <1>4, <1>6, <1>8, <4>1, <4>3
      <4>. QED
        BY <1>7, <3>3, <4>2, <4>3
    <3>. QED
      BY <3>1, <3>2, <3>3, ReadEffect DEF Later
  <2>. QED
    BY <2>1, ReadEffect DEF Streaming, AckAhead
<1>10. InStep'
  <2>1. got' = <<>> /\ Len(got') = 0 /\ DOMAIN got' = {}
    BY <1>3
  <2>2. Width' = Width /\ 0 < Width /\ Sound' = Sound
    BY ReadEffect
  <2>3. Sound' /\ wire' # <<>> => wire'[1].part = Len(got') + 1
    BY <1>8, <2>1, <2>2
  <2>. QED
    BY <2>1, <2>2, <2>3 DEF InStep
<1>11. Latest'
  <2>1. ASSUME NEW k \in Returned'
        PROVE  log'[k].n \in DOMAIN feed'
    <3>1. CASE k \in Returned
      BY <1>1, <1>5, <3>1, ReadEffect DEF Latest, Returned
    <3>2. CASE k = K /\ Sound
      BY <1>1, <1>4, <1>6, <3>2, ReadEffect
    <3>. QED
      BY <1>7, <2>1, <3>1, <3>2
  <2>2. ASSUME NEW k \in DOMAIN log'
        PROVE  log'[k].conn <= conn' /\ (log'[k].conn = conn' /\ log'[k].sound => shaken')
    <3>1. CASE k \in DOMAIN log
      BY SMTT(30), <1>1, <1>5, <3>1, ReadEffect DEF Latest
    <3>2. CASE k = K
      BY <1>1, <1>4, <1>6, <3>2, ReadEffect, LogTypes
    <3>. QED
      BY <1>5, <3>1, <3>2
  <2>3. Sound' => /\ wire' # <<>> => wire'[1].n = log'[Len(log')].n + 1
                  /\ wire' = <<>> /\ peer' = "open" => log'[Len(log')].n = Len(feed')
    BY <1>4, <1>5, <1>6, <1>8, ReadEffect, CellRead
  <2>4. delivered' # <<>> => \E k \in Returned' : log'[k].n = delivered'[Len(delivered')]
    <3>1. CASE Sound
      <4>1. Append(delivered, n)[Len(Append(delivered, n))] = n
        BY <1>1
      <4>. QED
        BY <1>3, <1>6, <1>7, <3>1, <4>1
    <3>2. CASE ~Sound
      <4>1. delivered' = delivered /\ Returned' = Returned
        BY <1>3, <1>7, <3>2
      <4>. QED
        BY <1>1, <1>5, <4>1 DEF Latest, Returned
    <3>. QED
      BY <3>1, <3>2
  <2>. QED
    BY <2>1, <2>2, <2>3, <2>4 DEF Latest
<1>12. SoundEvents'
  <2>1. ASSUME NEW k \in DOMAIN log', log'[k].sound
        PROVE  log'[k].n # 0 /\ log'[k].event = from_fields(feed'[log'[k].n])
    <3>1. CASE k \in DOMAIN log
      BY ZenonT(30), <1>1, <1>5, <2>1, <3>1, ReadEffect DEF SoundEvents
    <3>2. CASE k = K
      BY <1>1, <1>4, <1>6, <2>1, <3>2, ReadEffect
    <3>. QED
      BY <1>5, <3>1, <3>2
  <2>2. ASSUME NEW j \in DOMAIN log', NEW k \in DOMAIN log', j < k, log'[j].sound, log'[k].sound
        PROVE  /\ log'[j].n < log'[k].n
               /\ log'[j].conn = log'[k].conn /\ k = j + 1 => log'[k].n = log'[j].n + 1
    <3>1. CASE k \in DOMAIN log
      <4>1. j \in DOMAIN log
        BY <1>1, <1>5, <2>2, <3>1
      <4>2. log'[j] = log[j] /\ log'[k] = log[k]
        BY <1>5, <3>1, <4>1
      <4>3. /\ log[j].n < log[k].n
            /\ log[j].conn = log[k].conn /\ k = j + 1 => log[k].n = log[j].n + 1
        BY <1>1, <2>2, <3>1, <4>1, <4>2 DEF SoundEvents
      <4>. QED
        BY <4>2, <4>3
    <3>2. CASE k = K
      <4>1. j \in DOMAIN log /\ Sound /\ j \in Returned /\ log'[j] = log[j]
        BY <1>1, <1>5, <1>6, <2>2, <3>2 DEF Returned
      <4>2. log[j].n < n
        BY <1>4, <4>1, ReadEffect, CellRead
      <4>3. log[j].conn = conn /\ k = j + 1 => wire[1].n = log[j].n + 1
        <5>1. k = j + 1 => j = Len(log)
          BY <1>1, <3>2, <4>1
        <5>. QED
          BY <1>1, <4>1, <5>1, ReadEffect DEF Latest
      <4>. QED
        BY <1>4, <1>6, <3>2, <4>1, <4>2, <4>3
    <3>. QED
      BY <1>5, <3>1, <3>2
  <2>. QED
    BY <2>1, <2>2 DEF SoundEvents
<1>13. VersionsAgree'
  <2>1. Sound => server.major = ClientMajor
    BY <1>1 DEF Streaming, Sound
  <2>. QED
    BY <1>1, <1>5, <1>6, <2>1 DEF VersionsAgree
<1>. QED
  BY <1>9, <1>10, <1>11, <1>12, <1>13

-----------------------------------------------------------------------------
(* The invariant.                                                           *)

\* The steps that read nothing and on which nothing arrives.
LEMMA QuietSteps ==
    ASSUME IInv,
           \/ connect \/ Detected \/ receive \/ receive_or_reconnect
           \/ Unconnected \/ HandshakeTimeout \/ ConnectionLost \/ Cancel \/ Drop
           \/ DaemonDisconnect \/ DaemonStop \/ DaemonStart \/ Upgrade
    PROVE  (Broadcast /\ Streaming /\ InStep /\ Latest /\ SoundEvents /\ VersionsAgree)'
<1>1. Resting /\ InStep
  BY DEF IInv
<1>2. UNCHANGED <<log, delivered, feed, conn, server, shaken>>
  BY DEF connect, Detected, receive, receive_or_reconnect, Unconnected, HandshakeTimeout,
     ConnectionLost, Cancel, Drop, DaemonDisconnect, DaemonStop, DaemonStart, Upgrade, client, results, socket, daemon
<1>3. CASE connect
  <2>1. /\ wire' = <<>> /\ wire' = wire /\ got' = <<>> /\ got' = got
        /\ peer' = peer /\ peer' # "open" /\ pc' # "handshaking"
    BY <1>1, <1>3 DEF connect, Resting, socket
  <2>. QED
    BY <1>2, <2>1, QuietStep DEF AckAhead
<1>4. CASE Detected \/ receive \/ receive_or_reconnect
  <2>1. /\ wire' = wire /\ got' = got /\ peer' = peer /\ pc' # "handshaking" /\ Sound' = Sound
    BY <1>4 DEF Detected, receive, receive_or_reconnect, socket, Sound
  <2>. QED
    BY <1>2, <2>1, QuietStep DEF AckAhead
<1>5. CASE Unconnected \/ HandshakeTimeout \/ Cancel \/ (ConnectionLost /\ pc = "handshaking")
  <2>1. Fail /\ layout' = layout /\ (aligned' => aligned) /\ (aligned' => got = <<>> \/ pc # "receiving")
    <3>1. CASE Unconnected \/ HandshakeTimeout
      BY <3>1 DEF Unconnected, HandshakeTimeout, TimesOut
    <3>2. CASE Cancel
      <4>1. Fail /\ layout' = layout /\ aligned' = (aligned /\ got = <<>>)
        BY <3>2 DEF Cancel
      <4>. QED
        BY <4>1, Zenon
    <3>3. CASE ConnectionLost /\ pc = "handshaking"
      BY <3>3 DEF ConnectionLost
    <3>. QED
      BY <1>5, <3>1, <3>2, <3>3
  <2>2. /\ got' = <<>> /\ pc' # "handshaking"
        /\ \/ peer' = "none" /\ wire' = <<>>
           \/ peer' = peer /\ wire' = wire
    BY <2>1, FailEffect
  <2>3. Sound' => Sound /\ got' = got
    BY <1>1, <1>2, <2>1, <2>2 DEF Sound, Resting
  <2>. QED
    BY <1>2, <2>2, <2>3, QuietStep DEF AckAhead
<1>6. CASE ConnectionLost /\ pc # "handshaking"
  <2>1. wire = <<>> /\ peer = "closed"
    BY <1>6 DEF ConnectionLost, EndOfFile
  <2>2. wire' = <<>> /\ got' = <<>> /\ peer' # "open"
    <3>1. CASE Fail
      BY <2>1, <3>1, FailEffect
    <3>2. CASE ~Fail
      BY <1>6, <2>1, <3>2 DEF ConnectionLost
    <3>. QED
      BY <3>1, <3>2
  <2>. QED
    BY <1>2, <2>2, QuietStep DEF AckAhead
<1>7. CASE Drop
  <2>1. /\ wire' = <<>> /\ got' = <<>> /\ got' = got /\ peer' # "open" /\ pc' # "handshaking"
    BY <1>1, <1>7 DEF Drop, Resting
  <2>. QED
    BY <1>2, <2>1, QuietStep DEF AckAhead
<1>8. CASE DaemonDisconnect \/ DaemonStop \/ DaemonStart \/ Upgrade
  <2>1. /\ wire' = wire /\ got' = got /\ pc' = pc /\ Sound' = Sound
        /\ peer' = "open" => peer = "open"
    BY <1>8 DEF DaemonDisconnect, DaemonStop, DaemonStart, Upgrade, Hangup, client, socket, Sound
  <2>. QED
    BY <1>2, <2>1, QuietStep DEF AckAhead
<1>. QED
  BY <1>3, <1>4, <1>5, <1>6, <1>7, <1>8

\* The steps of a stream that is not acknowledged.
LEMMA UnshakenSteps ==
    ASSUME IInv, Connected \/ NotAcknowledged \/ DaemonServe
    PROVE  (Broadcast /\ Streaming /\ InStep /\ Latest /\ SoundEvents /\ VersionsAgree)'
<1>1. /\ TypeOK /\ Resting /\ Broadcast /\ conn \in Nat /\ Len(feed) \in Nat
      /\ wire \in Seq(Cells)
  BY LogTypes, CellTypes DEF IInv
<1>2. wire' \in Seq(Cells)
  BY NextWireType DEF Next
<1>3. UNCHANGED <<log, delivered, feed>>
  BY DEF Connected, NotAcknowledged, DaemonServe, client, results, daemon
<1>4. CASE Connected
  <2>1. /\ wire' = <<>> /\ got' = got /\ ~shaken' /\ conn' > conn /\ conn' \in Nat /\ conn' >= conn
    BY <1>1, <1>4 DEF Connected
  <2>2. ~AckAhead' /\ DOMAIN wire' = {}
    BY <2>1 DEF AckAhead
  <2>. QED
    BY <1>2, <1>3, <2>1, <2>2, UnshakenStep
<1>5. CASE NotAcknowledged
  <2>1. /\ got' = <<>> /\ ~shaken /\ ~shaken' /\ conn' = conn /\ pc' # "handshaking" /\ wire # <<>>
        /\ wire' = Tail(wire) \/ wire' = <<>>
    BY <1>1, <1>5 DEF NotAcknowledged, Return, Resting
  <2>2. \A j \in DOMAIN wire' : wire'[j].n <= Len(feed)
    <3>1. CASE wire' = Tail(wire)
      BY <1>1, <2>1, <3>1, TailFacts DEF Broadcast
    <3>2. CASE wire' = <<>>
      BY <3>2
    <3>. QED
      BY <2>1, <3>1, <3>2
  <2>. QED
    BY <1>1, <1>2, <1>3, <2>1, <2>2, UnshakenStep DEF AckAhead
<1>6. CASE DaemonServe
  <2>1. got' = got /\ ~shaken /\ ~shaken' /\ conn' = conn /\ (wire' = <<Ack>> \/ wire' = <<>>)
    BY <1>1, <1>6 DEF DaemonServe, client, Resting
  <2>2. (~AckAhead' \/ Len(wire') = 1) /\ \A j \in DOMAIN wire' : wire'[j].n <= Len(feed)
    <3>1. CASE wire' = <<Ack>>
      BY <1>1, <3>1 DEF Ack
    <3>2. CASE wire' = <<>>
      BY <3>2 DEF AckAhead
    <3>. QED
      BY <2>1, <3>1, <3>2
  <2>. QED
    BY <1>1, <1>2, <1>3, <2>1, <2>2, UnshakenStep
<1>. QED
  BY <1>4, <1>5, <1>6

\* Any read keeps the invariant.
LEMMA ReadStep ==
    ASSUME IInv, ReadFrame
    PROVE  (Broadcast /\ Streaming /\ InStep /\ Latest /\ SoundEvents /\ VersionsAgree)'
<1>1. CASE UNCHANGED <<log, delivered>>
  <2>1. log \in Seq(LogEntry) /\ Len(log) \in Nat
    BY LogTypes DEF IInv
  <2>2. \A e : Append(log, e) # log
    BY SMTT(30), <2>1, AppendFacts
  <2>3. got' = Append(got, Head(wire)) /\ Len(got') < CellsOf(layout)
    BY <1>1, <2>2 DEF ReadFrame, ReadSize
  <2>. QED
    BY <1>1, <2>3, ReadBroadcast, PartRead
<1>2. CASE ~UNCHANGED <<log, delivered>>
  BY <1>2, ReadBroadcast, WholeRead
<1>. QED
  BY <1>1, <1>2

\* The invariant is inductive.
LEMMA NextIInv == IInv /\ [Next]_vars => IInv'
<1>. SUFFICES ASSUME IInv, [Next]_vars PROVE IInv'
  OBVIOUS
<1>1. CASE Next
  <2>1. TypeOK' /\ Resting'
    BY <1>1, NextTypeOK, NextResting
  <2>2. (Broadcast /\ Streaming /\ InStep /\ Latest /\ SoundEvents /\ VersionsAgree)'
    BY <1>1, QuietSteps, UnshakenSteps, AcknowledgedStep, BroadcastStep, ReadStep DEF Next
  <2>. QED
    BY <2>1, <2>2 DEF IInv
<1>2. CASE UNCHANGED vars
  <2>1. /\ UNCHANGED <<pc, doing, retried, layout, got, log, delivered, conn, shaken, aligned>>
        /\ UNCHANGED <<server, peer, wire, installed, running, version, feed>>
    BY <1>2 DEF vars, client, results, socket, daemon
  <2>2. TypeOK' /\ Resting'
    BY <2>1 DEF IInv, TypeOK, Resting
  <2>3. (Broadcast /\ Streaming /\ InStep /\ Latest /\ SoundEvents /\ VersionsAgree)'
    BY <2>1, QuietStep DEF Sound, AckAhead
  <2>. QED
    BY <2>2, <2>3 DEF IInv
<1>. QED
  BY <1>1, <1>2

\* At every step an acknowledged stream carries whole messages in order, from the
\* one behind the last event returned, and the partly read one agrees with it.
THEOREM ProgressInvariantHolds == Spec => []IInv
<1>1. Init => IInv
  BY InitIInv
<1>2. IInv /\ [Next]_vars => IInv'
  BY NextIInv
<1>. QED
  BY <1>1, <1>2, PTL DEF Spec

\* Every variable of the progress client keeps its type.
THEOREM ProgressTypeCorrect == Spec => []TypeOK
<1>1. IInv => TypeOK
  BY DEF IInv
<1>. QED
  BY <1>1, ProgressInvariantHolds, PTL

\* While the stream is sound receive() decodes what the daemon broadcast, in that
\* order, and skips nothing as long as the connection lasts.
THEOREM EventsAreSound == Spec => []SoundEvents
<1>1. IInv => SoundEvents
  BY DEF IInv
<1>. QED
  BY <1>1, ProgressInvariantHolds, PTL

\* handshake() lets no daemon of another major version through.
THEOREM EventsAgreeOnVersion == Spec => []VersionsAgree
<1>1. IInv => VersionsAgree
  BY DEF IInv
<1>. QED
  BY <1>1, ProgressInvariantHolds, PTL

\* receive_or_reconnect() gives a stream up only once it has read all of it.
THEOREM ReconnectDiscardsNothing == Spec => NothingDiscarded
<1>1. IInv /\ [Next]_vars => [conn' # conn /\ doing = "receive_or_reconnect" => wire = <<>>]_vars
  <2>. SUFFICES ASSUME IInv, Next, conn' # conn PROVE wire = <<>>
    BY SMTT(30) DEF vars, client
  <2>1. Connected
    BY DEF Next, client, connect, Detected, receive, receive_or_reconnect, Unconnected, Acknowledged,
       NotAcknowledged, HandshakeTimeout, ReadFrame, ConnectionLost, Cancel, Drop,
       DaemonServe, DaemonBroadcast, DaemonDisconnect, DaemonStop, DaemonStart, Upgrade
  <2>. QED
    BY <2>1 DEF Connected, IInv, Resting
<1>. QED
  BY <1>1, ProgressInvariantHolds, PTL DEF Spec, NothingDiscarded

\* receive() and receive_or_reconnect() wait only when nothing is owed to them: no part
\* of a message has been read, and the last event returned is the last broadcast.
THEOREM WaitsForNothingOwed == Spec => []NothingOwed
<1>1. IInv => NothingOwed
  <2>. SUFFICES ASSUME IInv, pc = "receiving", Sound, wire = <<>>
                PROVE  /\ got = <<>>
                       /\ peer = "open" /\ log # <<>> /\ log[Len(log)].conn = conn
                             /\ log[Len(log)].sound => log[Len(log)].n = Len(feed)
    BY DEF NothingOwed
  <2>1. got = <<>>
    BY DEF IInv, InStep
  <2>2. log # <<>> => Len(log) \in DOMAIN log
    BY DEF IInv, TypeOK
  <2>3. ASSUME peer = "open", log # <<>>, log[Len(log)].conn = conn, log[Len(log)].sound
        PROVE  log[Len(log)].n = Len(feed)
    BY <2>2, <2>3 DEF IInv, Latest, Returned
  <2>. QED
    BY <2>1, <2>3
<1>. QED
  BY <1>1, ProgressInvariantHolds, PTL

-----------------------------------------------------------------------------
(* The refinement.                                                          *)

\* Every step publishes, delivers or stutters.
LEMMA FeedStep ==
    IInv /\ [Next]_vars => [Feed!Publish \/ Feed!Deliver]_<<feed, delivered>>
<1>. SUFFICES ASSUME IInv, Next, ~UNCHANGED <<feed, delivered>>
              PROVE  Feed!Publish \/ Feed!Deliver
  BY DEF vars, client, results, daemon
<1>1. ReadFrame \/ DaemonBroadcast
  BY DEF Next, client, results, daemon, connect, Detected, receive, receive_or_reconnect, Connected,
     Unconnected, Acknowledged, NotAcknowledged, HandshakeTimeout, ConnectionLost, Cancel, Drop,
     DaemonServe, DaemonDisconnect, DaemonStop, DaemonStart, Upgrade
<1>2. CASE DaemonBroadcast
  BY <1>2 DEF DaemonBroadcast, client, results, Feed!Publish
<1>3. CASE ReadFrame
  <2>. DEFINE n == wire[1].n
              m == Append(got, Head(wire))
  <2>1. feed' = feed
    BY SMTT(30), <1>3, ReadEffect
  <2>2. Sound /\ Len(m) = CellsOf(layout)
    BY <1>3, <2>1 DEF ReadFrame, results, ReadSize
  <2>3. m = Frame(n, layout) /\ m[1].part = 1 /\ m[1].n = n
    BY <1>3, <2>2, SoundMessage
  <2>4. n \in 1..Len(feed) /\ \A k \in Returned : log[k].n < n
    BY <1>3, <2>2, ReadEffect, CellRead DEF Sound
  <2>5. Len(feed) \in Nat /\ n # 0 /\ n \in DOMAIN feed
    BY <2>4, LogTypes DEF IInv
  <2>6. delivered' = Append(delivered, n)
    BY <1>3, <2>1, <2>2, <2>3, <2>5 DEF ReadFrame, results, ReadSize
  <2>7. delivered # <<>> => n > delivered[Len(delivered)]
    <3>1. delivered # <<>> => \E k \in Returned : log[k].n = delivered[Len(delivered)]
      BY DEF IInv, Latest
    <3>2. \A k \in Returned : log[k].n \in Nat
      BY LogTypes DEF IInv, Returned
    <3>. QED
      BY <2>4, <3>1, <3>2
  <2>. QED
    BY <2>1, <2>5, <2>6, <2>7 DEF Feed!Deliver
<1>. QED
  BY <1>1, <1>2, <1>3

\* The events of sound streams are handed on as a subscription promises: published
\* statuses only, each at most once, in their order, across connections, reconnects,
\* cancelled calls and the daemon's restarts.
THEOREM ClientImplementsFeed == Spec => ImplementsFeed
<1>1. Init => Feed!Init
  BY DEF Init, Feed!Init
<1>2. IInv /\ [Next]_vars => [Feed!Publish \/ Feed!Deliver]_<<feed, delivered>>
  BY FeedStep
<1>. QED
  BY <1>1, <1>2, ProgressInvariantHolds, PTL DEF Spec, ImplementsFeed, Feed!Spec
=============================================================================
