----------------------- MODULE SwupdateInvariantProofs -----------------------
(***************************************************************************)
(* Proofs about SwupdateClient: its invariant is inductive, and the safety   *)
(* properties follow from it.                                               *)
(***************************************************************************)
EXTENDS SwupdateInvariant, TLAPS

USE DEF Installs

-----------------------------------------------------------------------------
(* The initial states.                                                      *)

LEMMA PathTypes ==
    ASSUME SituationsAssumption, situation \in Situations, runDir \in BOOLEAN
    PROVE  /\ DaemonPath \in Dirs
           /\ \A s \in Sockets : Resolved(s) \in Dirs
<1>1. situation \in Situation
  BY DEF SituationsAssumption
<1>2. /\ situation.client \in Environments /\ situation.daemon \in Environments
      /\ situation.option \in [Sockets -> Dirs \cup {"unset"}]
  BY <1>1 DEF Situation
<1>3. resolve_socket_path(situation.client, runDir) \in Dirs
  BY <1>2 DEF resolve_socket_path, Environments, EnvVars, Dirs
<1>4. DaemonPath \in Dirs
  BY <1>2 DEF DaemonPath, Environments, EnvVars, Dirs
<1>. QED
  BY <1>2, <1>3, <1>4 DEF Resolved, Dirs

LEMMA InitIInv ==
    ASSUME SituationsAssumption, ConstantsAssumption, Init
    PROVE  IInv
<1>1. situation \in Situations /\ runDir \in BOOLEAN
  BY DEF Init, SocketInit
<1>2. DaemonPath \in Dirs
  BY <1>1, PathTypes
<1>3. TypeOK
  <2>1. SocketTypeOK
    <3>1. files \subseteq Sockets \X Dirs
      BY <1>2 DEF Init, SocketInit, Dirs
    <3>2. home \in Dirs \cup {"none"} /\ bound \subseteq Sockets /\ starts \in 0..MaxStarts
      BY <1>2 DEF Init, SocketInit, SituationsAssumption
    <3>3. config \in [Sockets -> Dirs \cup {"unset"}] /\ steady \in BOOLEAN
      BY DEF Init, SocketInit
    <3>. QED
      BY <1>1, <3>1, <3>2, <3>3 DEF SocketTypeOK
  <2>2. supply \in 0..ImageCells
    BY DEF Init, ConstantsAssumption
  <2>3. queue \in Seq(Event) /\ Len(queue) <= QueueLength
    BY DEF Init, ConstantsAssumption
  <2>4. sent \in 0..ImageCells /\ unread \in 0..SocketCells /\ taken \in 0..ImageCells
        /\ others \in 0..MaxOthers
    BY DEF Init, ConstantsAssumption
  <2>5. /\ cli \in Commands /\ socket \in Sockets
        /\ pc \in {"config", "find", "connect", "request", "reply", "handshake", "join", "exit"}
        /\ streaming \in {"off", "on", "done"} /\ watching \in {"off", "on", "done"}
        /\ last \in {"none", "Success", "Failed"} /\ lastOwn \in BOOLEAN
        /\ exit \in {"none", "ok"} \cup Errors
    BY DEF Init, Sockets
  <2>6. /\ ctrl \in {"none", "open", "closed"}
        /\ call \in {"none", "asked", "refused", "carried"}
        /\ reply \in {"none", "ACK", "NACK"}
        /\ prog \in {"none", "pending", "acked", "closed"}
        /\ inst \in {"none", "accepted", "reading", "installing", "success", "failure"}
    BY DEF Init
  <2>. QED
    BY <2>1, <2>2, <2>3, <2>4, <2>5, <2>6 DEF TypeOK
<1>4. Paths
  BY <1>1, <1>2 DEF Init, SocketInit, Paths, Sockets, Dirs
<1>5. Calling /\ Installing /\ Tasks /\ StatusIsTrue
  BY DEF Init, Calling, BeforeCall, Installing, Tasks, StatusIsTrue, ConstantsAssumption, Commands
<1>6. Watching /\ FindsDaemon
  BY DEF Init, Watching, Busy, FindsDaemon
<1>7. Awaiting
  BY DEF Init, Awaiting, Busy
<1>. QED
  BY <1>3, <1>4, <1>5, <1>6, <1>7 DEF IInv
-----------------------------------------------------------------------------
(* What the groups of actions have in common.                               *)

\* Nine actions end the process; they touch nothing but the progress connection.
Exiting ==
    \/ NotFound \/ NotConnected \/ CallLost \/ Returned \/ NotSubscribed
    \/ StreamLost \/ ReaderFailed \/ WatchFailed \/ Finish

LEMMA ExitEffect ==
    ASSUME Exiting
    PROVE  /\ \E status \in {"ok"} \cup Errors : Exit(status)
           /\ UNCHANGED <<input, config, socket, tasks, control, installer, world>>
<1>1. Outcomes(cli.cmd, reply) \subseteq {"ok"} \cup Errors
  BY DEF Outcomes, Errors
<1>2. CASE Returned
  BY <1>1, <1>2 DEF Returned
<1>3. CASE ~Returned
  BY <1>3 DEF Exiting, NotFound, NotConnected, CallLost, NotSubscribed, StreamLost,
              ReaderFailed, WatchFailed, Finish, Errors
<1>. QED
  BY <1>2, <1>3

DaemonStep ==
    \/ DaemonCarryOut \/ DaemonRefuse \/ DaemonReply \/ DaemonSubscribe
    \/ DaemonBegin \/ DaemonRead \/ DaemonSucceed \/ DaemonFail \/ DaemonEndOfStream
    \/ DaemonServeOther \/ DaemonDropControl \/ DaemonDropProgress
    \/ Surroundings \/ DaemonStop

LEMMA DaemonEffect ==
    ASSUME DaemonStep
    PROVE  UNCHANGED <<input, client>>
BY DEF DaemonStep, DaemonCarryOut, DaemonRefuse, DaemonReply, DaemonSubscribe, DaemonBegin,
   DaemonRead, DaemonSucceed, DaemonFail, DaemonEndOfStream, Failure, DaemonServeOther,
   DaemonDropControl, DaemonDropProgress, Surroundings, DaemonStop

\* What the daemon does to the call: it decides on one that was asked, and answers
\* one it has decided on.  Its connection may close, and never opens by itself.
LEMMA DaemonCallEffect ==
    ASSUME DaemonStep
    PROVE  /\ call' # call => call = "asked" /\ call' \in {"carried", "refused"}
           /\ reply' # reply => /\ reply = "none" /\ call' = call
                                /\ reply' = "ACK" => call = "carried"
                                /\ reply' = "NACK" => call = "refused"
           /\ ctrl' # ctrl => ctrl' = "closed"
<1>1. CASE DaemonReply
  BY <1>1 DEF DaemonReply
<1>2. CASE DaemonCarryOut
  BY <1>2 DEF DaemonCarryOut
<1>3. CASE DaemonStop
  BY <1>3 DEF DaemonStop
<1>4. CASE DaemonRefuse
  BY <1>4 DEF DaemonRefuse
<1>5. CASE ~(DaemonReply \/ DaemonCarryOut \/ DaemonStop \/ DaemonRefuse)
  BY <1>5 DEF DaemonStep, control, DaemonSubscribe, DaemonBegin, DaemonRead, DaemonSucceed,
     DaemonFail, DaemonEndOfStream, Failure, DaemonServeOther, DaemonDropControl,
     DaemonDropProgress, Surroundings
<1>. QED
  BY <1>1, <1>2, <1>3, <1>4, <1>5

\* What the daemon does to the progress connection: it acknowledges it, or closes it.
LEMMA DaemonProgEffect ==
    ASSUME DaemonStep
    PROVE  /\ prog = "none" => prog' = "none"
           /\ prog' # prog => \/ prog' = "acked" /\ prog = "pending"
                              \/ prog' = "closed"
<1>1. CASE DaemonStop
  BY <1>1 DEF DaemonStop
<1>2. CASE DaemonSubscribe
  BY <1>2 DEF DaemonSubscribe
<1>3. CASE DaemonDropProgress
  BY <1>3 DEF DaemonDropProgress
<1>4. CASE ~(DaemonStop \/ DaemonSubscribe \/ DaemonDropProgress)
  BY <1>4 DEF DaemonStep, progress_, DaemonReply, DaemonCarryOut, DaemonRefuse, DaemonBegin,
     DaemonRead, DaemonSucceed, DaemonFail, DaemonEndOfStream, Failure, DaemonServeOther,
     DaemonDropControl, Surroundings
<1>. QED
  BY <1>1, <1>2, <1>3, <1>4

LEMMA BroadcastEffect ==
    ASSUME NEW kind \in Kinds, NEW own \in BOOLEAN, TypeOK, ConstantsAssumption,
           Broadcast(kind, own)
    PROVE  /\ queue' \in Seq(Event) /\ Len(queue') <= QueueLength
           /\ prog = "acked" => queue' = Append(queue, [kind |-> kind, own |-> own])
           /\ prog # "acked" => queue' = queue
<1>1. [kind |-> kind, own |-> own] \in Event
  BY DEF Event
<1>. DEFINE event == [kind |-> kind, own |-> own]
<1>2. CASE prog = "acked"
  <2>1. queue' = Append(queue, event) /\ Len(queue) < QueueLength
    BY <1>2 DEF Broadcast
  <2>2. queue \in Seq(Event) /\ event \in Event
    BY <1>1 DEF TypeOK
  <2>. HIDE DEF event
  <2>3. queue' \in Seq(Event) /\ Len(queue') = Len(queue) + 1 /\ Len(queue) \in Nat
    BY <2>1, <2>2
  <2>4. Len(queue') <= QueueLength
    BY <2>1, <2>3 DEF ConstantsAssumption
  <2>. QED
    BY <1>2, <2>1, <2>3, <2>4 DEF event
<1>3. CASE prog # "acked"
  BY <1>3 DEF Broadcast, TypeOK
<1>. QED
  BY <1>2, <1>3

\* No step changes the command line; only the daemon and its surroundings change
\* the files, and only Config the paths.
LEMMA NextSocketTypeOK ==
    ASSUME SituationsAssumption, IInv, Next
    PROVE  SocketTypeOK'
<1>1. SocketTypeOK /\ socket \in Sockets
  BY DEF IInv, TypeOK
<1>2. situation' = situation
  BY ExitEffect DEF Exiting, Next, input, Config, Find, Connect, Request, Accepted, Subscribed,
     Forward, EndOfInput, ReceiveEvent, DaemonCarryOut, DaemonRefuse, DaemonReply,
     DaemonSubscribe, DaemonBegin, DaemonRead, DaemonSucceed, DaemonFail, DaemonEndOfStream,
     Failure, DaemonServeOther, DaemonDropControl, DaemonDropProgress, Surroundings, DaemonStop
<1>3. CASE Config
  <2>1. UNCHANGED world /\ config' = [config EXCEPT ![socket] = Resolved(socket)]
    BY <1>3 DEF Config, build_config
  <2>2. Resolved(socket) \in Dirs
    BY <1>1, PathTypes DEF SocketTypeOK
  <2>. QED
    BY <1>1, <1>2, <2>1, <2>2 DEF SocketTypeOK, world
<1>4. CASE Surroundings
  <2>1. config' = config /\ DaemonPath \in Dirs
    BY <1>1, <1>4, PathTypes DEF Surroundings, client, SocketTypeOK
  <2>2. CASE MakeRunDir
    BY <1>1, <1>2, <2>1, <2>2 DEF MakeRunDir, SocketTypeOK
  <2>3. CASE Start
    BY <1>1, <1>2, <2>1, <2>3, SituationsAssumption DEF Start, SocketTypeOK, SituationsAssumption
  <2>4. ASSUME NEW s \in Sockets, Bind(s) PROVE SocketTypeOK'
    BY <1>1, <1>2, <2>1, <2>4 DEF Bind, SocketTypeOK
  <2>. QED
    BY <1>4, <2>2, <2>3, <2>4 DEF Surroundings
<1>5. CASE DaemonStop
  BY <1>1, <1>2, <1>5 DEF DaemonStop, Stop, client, SocketTypeOK
<1>6. CASE ~(Config \/ Surroundings \/ DaemonStop)
  <2>1. UNCHANGED <<config, world>>
    BY <1>6, ExitEffect DEF Exiting, Next, client, Find, Connect, Request, Accepted, Subscribed,
       Forward, EndOfInput, ReceiveEvent, DaemonCarryOut, DaemonRefuse, DaemonReply,
       DaemonSubscribe, DaemonBegin, DaemonRead, DaemonSucceed, DaemonFail, DaemonEndOfStream,
       Failure, DaemonServeOther, DaemonDropControl, DaemonDropProgress
  <2>. QED
    BY <1>1, <1>2, <2>1 DEF SocketTypeOK, world
<1>. QED
  BY <1>3, <1>4, <1>5, <1>6
-----------------------------------------------------------------------------
(* Types.                                                                   *)

LEMMA NextQueue ==
    ASSUME ConstantsAssumption, IInv, Next
    PROVE  queue' \in Seq(Event) /\ Len(queue') <= QueueLength
<1>1. TypeOK /\ queue \in Seq(Event) /\ Len(queue) <= QueueLength
  BY DEF IInv, TypeOK
<1>2. CASE Exiting
  <2>1. queue' = <<>>
    BY <1>2, ExitEffect DEF Exit
  <2>. QED
    BY <2>1 DEF ConstantsAssumption
<1>3. CASE ReceiveEvent
  <2>1. queue # <<>> /\ queue' = Tail(queue)
    BY <1>3 DEF ReceiveEvent
  <2>2. queue' \in Seq(Event) /\ Len(queue') = Len(queue) - 1 /\ Len(queue) \in Nat
    BY <1>1, <2>1
  <2>. QED
    BY <1>1, <2>2 DEF ConstantsAssumption
<1>4. CASE \E kind \in Kinds, own \in BOOLEAN : Broadcast(kind, own)
  BY <1>1, <1>4, BroadcastEffect
<1>5. CASE UNCHANGED queue
  BY <1>1, <1>5
<1>6. Exiting \/ ReceiveEvent \/ (\E kind \in Kinds, own \in BOOLEAN : Broadcast(kind, own))
      \/ UNCHANGED queue
  BY DEF Next, Exiting, progress_, Kinds, Config, Find, Connect, Request, Accepted, Subscribed,
     Forward, EndOfInput, DaemonCarryOut, DaemonRefuse, DaemonReply, DaemonSubscribe, DaemonBegin,
     DaemonRead, DaemonSucceed, DaemonFail, DaemonEndOfStream, Failure, DaemonServeOther,
     DaemonDropControl, DaemonDropProgress, Surroundings, DaemonStop
<1>. QED
  BY <1>2, <1>3, <1>4, <1>5, <1>6

\* A chunk is forwarded when there is one and room for it, and read when there is
\* one and the image is not complete.
LEMMA NextCounters ==
    ASSUME ConstantsAssumption, IInv, Next
    PROVE  /\ sent' \in 0..ImageCells /\ unread' \in 0..SocketCells
           /\ taken' \in 0..ImageCells /\ others' \in 0..MaxOthers
           /\ sent' <= supply /\ supply' = supply
<1>1. /\ sent \in 0..ImageCells /\ unread \in 0..SocketCells
      /\ taken \in 0..ImageCells /\ others \in 0..MaxOthers
      /\ sent <= supply /\ supply \in 0..ImageCells
      /\ inst = "reading" => taken < ImageCells
  BY DEF IInv, TypeOK, Tasks, Installing
<1>2. CASE Exiting
  BY <1>1, <1>2, ExitEffect DEF input, tasks, control, installer
<1>3. CASE Forward
  BY <1>1, <1>3 DEF Forward, AtEnd, input, installer, ConstantsAssumption
<1>4. CASE DaemonRead
  BY <1>1, <1>4 DEF DaemonRead, input, client, tasks, ConstantsAssumption
<1>5. CASE DaemonServeOther
  BY <1>1, <1>5 DEF DaemonServeOther, input, client, tasks, control, ConstantsAssumption
<1>6. CASE DaemonFail \/ DaemonEndOfStream \/ DaemonStop
  <2>1. unread' = 0 /\ UNCHANGED <<sent, taken, others, supply>>
    BY <1>6 DEF DaemonFail, DaemonEndOfStream, Failure, DaemonStop, input, client, tasks
  <2>. QED
    BY <1>1, <2>1 DEF ConstantsAssumption
<1>7. CASE ~(Exiting \/ Forward \/ DaemonRead \/ DaemonServeOther \/ DaemonFail
             \/ DaemonEndOfStream \/ DaemonStop)
  <2>1. UNCHANGED <<sent, unread, taken, others, supply>>
    BY <1>7 DEF Next, Exiting, input, client, tasks, control, installer, Config, Find, Connect,
       Request, Accepted, Subscribed, EndOfInput, ReceiveEvent, DaemonCarryOut, DaemonRefuse,
       DaemonReply, DaemonSubscribe, DaemonBegin, DaemonSucceed, DaemonDropControl,
       DaemonDropProgress, Surroundings
  <2>. QED
    BY <1>1, <2>1
<1>. QED
  BY <1>2, <1>3, <1>4, <1>5, <1>6, <1>7

LEMMA NextTypeOK ==
    ASSUME SituationsAssumption, ConstantsAssumption, IInv, Next
    PROVE  TypeOK'
<1>. USE DEF input, client, tasks, control, progress_, installer
<1>1. TypeOK
  BY DEF IInv
<1>2. CASE DaemonStep
  <2>1. UNCHANGED <<cli, supply, pc, socket, streaming, watching, last, lastOwn, exit>>
    BY <1>2, DaemonEffect
  <2>2. /\ ctrl' \in {"none", "open", "closed"}
        /\ call' \in {"none", "asked", "refused", "carried"}
        /\ reply' \in {"none", "ACK", "NACK"}
    <3>1. reply' # reply => reply' \in {"ACK", "NACK"}
      BY <1>2 DEF DaemonStep, DaemonCarryOut, DaemonRefuse, DaemonReply, DaemonSubscribe,
         DaemonBegin, DaemonRead, DaemonSucceed, DaemonFail, DaemonEndOfStream, Failure,
         DaemonServeOther, DaemonDropControl, DaemonDropProgress, Surroundings, DaemonStop
    <3>. QED
      BY <1>1, <1>2, <3>1, DaemonCallEffect DEF TypeOK
  <2>3. prog' \in {"none", "pending", "acked", "closed"}
    BY <1>1, <1>2, DaemonProgEffect DEF TypeOK
  <2>4. inst' \in {inst, "accepted", "reading", "installing", "success", "failure"}
    BY <1>2 DEF DaemonStep, DaemonCarryOut, DaemonRefuse, DaemonReply, DaemonSubscribe,
       DaemonBegin, DaemonRead, DaemonSucceed, DaemonFail, DaemonEndOfStream, Failure,
       DaemonServeOther, DaemonDropControl, DaemonDropProgress, Surroundings, DaemonStop
  <2>. QED
    BY <1>1, <2>1, <2>2, <2>3, <2>4, NextQueue, NextCounters, NextSocketTypeOK DEF TypeOK
<1>3. CASE Exiting
  <2>1. /\ UNCHANGED <<cli, supply, socket, streaming, watching, last, lastOwn, ctrl, call, reply,
                       inst>>
        /\ pc' = "exit" /\ exit' \in {"ok"} \cup Errors /\ prog' \in {"none", "closed"}
    BY <1>3, ExitEffect DEF Exit
  <2>. QED
    BY <1>1, <2>1, NextQueue, NextCounters, NextSocketTypeOK DEF TypeOK
<1>4. CASE ReceiveEvent
  <2>1. Head(queue) \in Event
    BY <1>1, <1>4 DEF TypeOK, ReceiveEvent
  <2>2. /\ UNCHANGED <<cli, supply, pc, socket, streaming, exit, ctrl, call, reply, prog, inst>>
        /\ watching' \in {watching, "done"}
        /\ last' \in {last, "Success", "Failed"} /\ lastOwn' \in {lastOwn} \cup BOOLEAN
    BY <1>4, <2>1 DEF ReceiveEvent, Event, is_terminal
  <2>. QED
    BY <1>1, <2>2, NextQueue, NextCounters, NextSocketTypeOK DEF TypeOK
<1>5. CASE Connect \/ Request
  <2>1. /\ UNCHANGED <<cli, supply, socket, streaming, watching, last, lastOwn, exit, reply, inst>>
        /\ pc' \in {"request", "handshake", "reply"} /\ call' \in {call, "asked"}
        /\ ctrl' \in {ctrl, "open"} /\ prog' \in {prog, "pending"}
    BY <1>5 DEF Connect, Request
  <2>. QED
    BY <1>1, <2>1, NextQueue, NextCounters, NextSocketTypeOK DEF TypeOK
<1>6. CASE Config \/ Find \/ Accepted \/ Subscribed \/ Forward \/ EndOfInput
  <2>1. UNCHANGED <<cli, supply, last, lastOwn, exit, ctrl, call, reply, prog, inst>>
    BY <1>6 DEF Config, Find, Accepted, Subscribed, Forward, EndOfInput
  <2>2. /\ pc' \in {pc, "find", "connect", "join"}
        /\ socket' \in {socket, "ctrl", "progress"}
        /\ streaming' \in {streaming, "on", "done"} /\ watching' \in {watching, "on", "done"}
    BY <1>6 DEF Config, Find, Accepted, Subscribed, Forward, EndOfInput
  <2>. QED
    BY <1>1, <2>1, <2>2, NextQueue, NextCounters, NextSocketTypeOK DEF TypeOK, Sockets
<1>. QED
  BY <1>2, <1>3, <1>4, <1>5, <1>6 DEF Next, Exiting, DaemonStep
-----------------------------------------------------------------------------
(* The paths.                                                               *)

\* Whatever happens to a daemon and its directories ends its steady time.
LEMMA SurroundingsEffect ==
    ASSUME SituationsAssumption, IInv, Surroundings \/ DaemonStop
    PROVE  ~steady' /\ UNCHANGED <<input, client>>
<1>1. steady => home \in Dirs /\ bound = Sockets
  BY PathTypes DEF IInv, TypeOK, SocketTypeOK, Paths
<1>2. steady \in BOOLEAN
  BY DEF IInv, TypeOK, SocketTypeOK
<1>3. ASSUME MakeRunDir \/ Start \/ (\E s \in Sockets : Bind(s)) \/ Stop
      PROVE  ~steady'
  BY <1>1, <1>2, <1>3 DEF MakeRunDir, Start, Bind, Stop, Dirs
<1>. QED
  BY <1>3 DEF Surroundings, DaemonStop

LEMMA NextPaths ==
    ASSUME SituationsAssumption, IInv, Next
    PROVE  Paths'
<1>. USE DEF input, client
<1>1. /\ Paths /\ socket \in Sockets /\ situation \in Situations /\ runDir \in BOOLEAN
      /\ config \in [Sockets -> Dirs \cup {"unset"}]
  BY DEF IInv, TypeOK, SocketTypeOK
<1>2. CASE Surroundings \/ DaemonStop
  BY <1>1, <1>2, SurroundingsEffect DEF Paths
<1>3. CASE ~(Surroundings \/ DaemonStop)
  <2>1. UNCHANGED <<situation, world>>
    BY <1>3, ExitEffect DEF Next, Exiting, Config, Find, Connect, Request, Accepted, Subscribed,
       Forward, EndOfInput, ReceiveEvent, DaemonCarryOut, DaemonRefuse, DaemonReply,
       DaemonSubscribe, DaemonBegin, DaemonRead, DaemonSucceed, DaemonFail, DaemonEndOfStream,
       Failure, DaemonServeOther, DaemonDropControl, DaemonDropProgress
  <2>2. /\ DaemonPath' = DaemonPath
        /\ \A s \in Sockets : Resolved(s)' = Resolved(s)
    BY <2>1 DEF world, DaemonPath, Resolved
  <2>3. steady' => /\ home' = DaemonPath' /\ bound' = Sockets /\ files' = Sockets \X {home'}
                   /\ home' = "/run/swupdate" => runDir'
    BY <1>1, <2>1, <2>2 DEF Paths, world
  <2>4. CASE Config
    <3>1. /\ config' = [config EXCEPT ![socket] = Resolved(socket)] /\ steady' = steady
          /\ \/ socket = "ctrl" /\ socket' = "progress" /\ pc' = "config"
             \/ socket # "ctrl" /\ pc' = "find"
          /\ pc = "config"
      BY <2>1, <2>4 DEF Config, build_config, world
    <3>2. Resolved(socket) \in Dirs
      BY <1>1, PathTypes
    <3>3. \A s \in Sockets : config'[s] = IF s = socket THEN Resolved(socket) ELSE config[s]
      BY <1>1, <3>1
    <3>4. \A s \in Sockets : steady' /\ config'[s] # "unset" => config'[s] = Resolved(s)'
      BY <1>1, <2>2, <3>1, <3>3 DEF Paths
    <3>5. config'[socket] # "unset"
      BY <1>1, <3>2, <3>3 DEF Dirs
    <3>6. pc' # "config" => \A s \in Sockets : config'[s] # "unset"
      BY <1>1, <3>1, <3>3, <3>5 DEF Paths, Sockets
    <3>7. pc' = "config" /\ socket' = "progress" => config'["ctrl"] # "unset"
      BY <1>1, <3>1, <3>5
    <3>. QED
      BY <2>3, <3>4, <3>6, <3>7 DEF Paths
  <2>5. CASE ~Config
    <3>1. /\ config' = config
          /\ pc' = "config" => pc = "config" /\ socket' = socket
      BY <1>3, <2>5, ExitEffect DEF Exit, Next, Exiting, Find, Connect, Request,
         Accepted, Subscribed, Forward, EndOfInput, ReceiveEvent, DaemonCarryOut, DaemonRefuse,
         DaemonReply, DaemonSubscribe, DaemonBegin, DaemonRead, DaemonSucceed, DaemonFail,
         DaemonEndOfStream, Failure, DaemonServeOther, DaemonDropControl, DaemonDropProgress
    <3>2. pc' # "config" => pc # "config" 
      BY <1>3, <2>5, ExitEffect DEF Exit, Next, Exiting, NotFound, NotConnected, CallLost,
         Returned, NotSubscribed, StreamLost, ReaderFailed, WatchFailed, Finish, Find, Connect,
         Request,
         Accepted, Subscribed, Forward, EndOfInput, ReceiveEvent, DaemonCarryOut, DaemonRefuse,
         DaemonReply, DaemonSubscribe, DaemonBegin, DaemonRead, DaemonSucceed, DaemonFail,
         DaemonEndOfStream, Failure, DaemonServeOther, DaemonDropControl, DaemonDropProgress
    <3>. QED
      BY <1>1, <2>1, <2>2, <2>3, <3>1, <3>2 DEF Paths, world
  <2>. QED
    BY <2>4, <2>5
<1>. QED
  BY <1>2, <1>3

\* Only NotFound ends with InvalidPath, and it found no file; a steady daemon has one
\* where the client looks.
LEMMA NextFindsDaemon ==
    ASSUME SituationsAssumption, IInv, Next
    PROVE  FindsDaemon'
<1>. USE DEF input, client
<1>1. /\ Paths /\ FindsDaemon /\ socket \in Sockets /\ situation \in Situation /\ steady \in BOOLEAN
  BY DEF IInv, TypeOK, SocketTypeOK, SituationsAssumption
<1>2. CASE Surroundings \/ DaemonStop
  BY <1>2, SurroundingsEffect DEF FindsDaemon
<1>3. CASE ~(Surroundings \/ DaemonStop)
  <2>1. UNCHANGED <<situation, home, steady>>
    BY <1>3, ExitEffect DEF world, Next, Exiting, Config, Find, Connect, Request, Accepted,
       Subscribed, Forward, EndOfInput, ReceiveEvent, DaemonCarryOut, DaemonRefuse, DaemonReply,
       DaemonSubscribe, DaemonBegin, DaemonRead, DaemonSucceed, DaemonFail, DaemonEndOfStream,
       Failure, DaemonServeOther, DaemonDropControl, DaemonDropProgress
  <2>2. CASE NotFound
    <3>1. pc = "find" /\ <<socket, config[socket]>> \notin files
      BY <2>2 DEF NotFound, exists
    <3>2. steady => /\ home = DaemonPath /\ (home = "/run/swupdate" => runDir)
                    /\ config[socket] = Resolved(socket) /\ files = Sockets \X {home}
      BY <1>1, <3>1 DEF Paths
    <3>3. steady => Resolved(socket) # home
      BY <1>1, <3>1, <3>2
    <3>4. ASSUME steady, situation.option[socket] = "unset",
                 \/ situation.client = situation.daemon
                 \/ home = "/run/swupdate" /\ \A v \in EnvVars : situation.client[v] = "unset"
          PROVE  FALSE
      <4>1. Resolved(socket) = resolve_socket_path(situation.client, runDir)
        BY <3>4 DEF Resolved
      <4>2. CASE situation.client = situation.daemon
        BY <3>2, <3>3, <3>4, <4>1, <4>2 DEF resolve_socket_path, DaemonPath, EnvVars
      <4>3. CASE home = "/run/swupdate" /\ \A v \in EnvVars : situation.client[v] = "unset"
        BY <3>2, <3>3, <3>4, <4>1, <4>3 DEF resolve_socket_path, EnvVars
      <4>. QED
        BY <3>4, <4>2, <4>3
    <3>. QED
      BY <1>1, <2>1, <3>4 DEF FindsDaemon
  <2>3. CASE ~NotFound
    <3>1. exit' = "InvalidPath" => exit = "InvalidPath"
      BY <1>3, <2>3 DEF Exit, Outcomes, Next, NotConnected, CallLost, Returned, NotSubscribed,
         StreamLost, ReaderFailed, WatchFailed, Finish, Config, Find, Connect, Request, Accepted,
         Subscribed, Forward, EndOfInput, ReceiveEvent, DaemonCarryOut, DaemonRefuse, DaemonReply,
         DaemonSubscribe, DaemonBegin, DaemonRead, DaemonSucceed, DaemonFail, DaemonEndOfStream,
         Failure, DaemonServeOther, DaemonDropControl, DaemonDropProgress
    <3>. QED
      BY <1>1, <2>1, <3>1 DEF FindsDaemon
  <2>. QED
    BY <2>2, <2>3
<1>. QED
  BY <1>2, <1>3
-----------------------------------------------------------------------------
(* The call and the installation.                                           *)

LEMMA NextCalling ==
    ASSUME IInv, Next
    PROVE  Calling'
<1>. USE DEF input, client, control
<1>1. Calling /\ call \in {"none", "asked", "refused", "carried"} /\ socket \in Sockets
  BY DEF IInv, TypeOK
<1>2. CASE DaemonStep
  <2>1. UNCHANGED <<cli, pc, socket, exit>> /\ (ctrl' = "none" => ctrl = "none")
    BY <1>2, DaemonEffect, DaemonCallEffect
  <2>2. (BeforeCall' <=> BeforeCall) /\ (call = "none" => call' = "none")
    BY <1>2, <2>1, DaemonCallEffect DEF BeforeCall
  <2>3. (reply' = "ACK" => call' = "carried") /\ (reply' = "NACK" => call' = "refused")
    BY <1>1, <1>2, DaemonCallEffect DEF Calling
  <2>4. call' # "none" => ctrl' # "none"
    BY <1>1, <1>2, <2>1, DaemonCallEffect DEF Calling
  <2>. QED
    BY <1>1, <2>1, <2>2, <2>3, <2>4 DEF Calling
<1>3. CASE Exiting
  <2>1. /\ UNCHANGED <<cli, ctrl, call, reply>>
        /\ pc' = "exit" /\ exit' # "none"
    BY <1>3, ExitEffect DEF Exit, Errors
  <2>. QED
    BY <1>1, <2>1 DEF Calling, BeforeCall
<1>4. CASE Config \/ Find \/ Request
  BY <1>1, <1>4 DEF Calling, BeforeCall, Config, Find, Request, Orders
<1>5. CASE Connect
  BY <1>1, <1>5 DEF Calling, BeforeCall, Connect, Orders
<1>6. CASE Accepted \/ Subscribed
  BY <1>1, <1>6 DEF Calling, BeforeCall, Accepted, Subscribed, Orders
<1>7. CASE Forward \/ EndOfInput \/ ReceiveEvent
  BY <1>1, <1>7 DEF Calling, BeforeCall, Forward, EndOfInput, ReceiveEvent
<1>. QED
  BY <1>2, <1>3, <1>4, <1>5, <1>6, <1>7 DEF Next, Exiting, DaemonStep

LEMMA NextInstalling ==
    ASSUME ConstantsAssumption, IInv, Next
    PROVE  Installing'
<1>. USE DEF input, client, control, installer, progress_
<1>1. /\ Calling /\ Installing /\ taken \in 0..ImageCells
      /\ inst \in {"none", "accepted", "reading", "installing", "success", "failure"}
  BY DEF IInv, TypeOK
<1>2. CASE Exiting
  <2>1. UNCHANGED <<cli, ctrl, call, inst, taken>>
    BY <1>2, ExitEffect
  <2>. QED
    BY <1>1, <2>1 DEF Installing
<1>3. CASE Config \/ Find \/ Accepted \/ Subscribed \/ Forward \/ EndOfInput \/ ReceiveEvent
  <2>1. UNCHANGED <<cli, ctrl, call, inst, taken>>
    BY <1>3 DEF Config, Find, Accepted, Subscribed, Forward, EndOfInput, ReceiveEvent
  <2>. QED
    BY <1>1, <2>1 DEF Installing
<1>4. CASE Connect
  BY <1>1, <1>4 DEF Connect, Installing, Calling, BeforeCall
<1>5. CASE Request
  BY <1>1, <1>5 DEF Request, Installing, Calling, BeforeCall
<1>6. CASE DaemonCarryOut
  BY <1>1, <1>6 DEF DaemonCarryOut, Installing
<1>7. CASE DaemonRefuse \/ DaemonReply \/ DaemonSubscribe \/ DaemonServeOther \/ DaemonDropControl
           \/ DaemonDropProgress \/ Surroundings
  BY <1>1, <1>7 DEF Installing, DaemonRefuse, DaemonReply, DaemonSubscribe, DaemonServeOther,
     DaemonDropControl, DaemonDropProgress, Surroundings
<1>8. CASE DaemonBegin
  BY <1>1, <1>8 DEF Installing, DaemonBegin, ConstantsAssumption
<1>12. CASE DaemonSucceed
  BY <1>1, <1>12 DEF Installing, DaemonSucceed
<1>9. CASE DaemonRead
  BY <1>1, <1>9 DEF Installing, DaemonRead, ConstantsAssumption
<1>10. CASE DaemonFail \/ DaemonEndOfStream
  BY <1>1, <1>10 DEF Installing, DaemonFail, DaemonEndOfStream, Failure, Busy
<1>11. CASE DaemonStop
  BY <1>1, <1>11 DEF Installing, Calling, DaemonStop, Busy
<1>. QED
  BY <1>2, <1>3, <1>4, <1>5, <1>6, <1>7, <1>8, <1>9, <1>10, <1>11, <1>12 DEF Next, Exiting

\* An order that ends well was acknowledged, and so carried out; one that ends with
\* Rejected, Timeout or InvalidPath was never asked, or refused.
LEMMA NextStatusIsTrue ==
    ASSUME IInv, Next
    PROVE  StatusIsTrue'
<1>. USE DEF input, client, control
<1>1. Calling /\ StatusIsTrue /\ reply \in {"none", "ACK", "NACK"} /\ socket \in Sockets
  BY DEF IInv, TypeOK
<1>2. CASE DaemonStep
  BY <1>1, <1>2, DaemonEffect, DaemonCallEffect DEF StatusIsTrue
<1>3. CASE NotFound \/ NotConnected
  BY <1>1, <1>3 DEF NotFound, NotConnected, Exit, StatusIsTrue, Calling, BeforeCall
<1>4. CASE CallLost
  BY <1>1, <1>4 DEF CallLost, Exit, StatusIsTrue
<1>5. CASE Returned
  <2>1. cli.cmd \in Orders => \/ reply = "ACK" /\ exit' = "ok"
                              \/ reply = "NACK" /\ exit' = "Rejected"
    BY <1>1, <1>5 DEF Returned, Outcomes, Exit, Orders, Queries
  <2>2. UNCHANGED <<cli, call>>
    BY <1>5 DEF Returned
  <2>. QED
    BY <1>1, <2>1, <2>2 DEF StatusIsTrue, Calling
<1>6. CASE NotSubscribed \/ StreamLost \/ ReaderFailed \/ WatchFailed \/ Finish
  BY <1>1, <1>6 DEF NotSubscribed, StreamLost, ReaderFailed, WatchFailed, Finish, StatusIsTrue,
     Calling
<1>7. CASE Config \/ Find \/ Connect \/ Request \/ Accepted \/ Subscribed \/ Forward \/ EndOfInput
           \/ ReceiveEvent
  <2>1. UNCHANGED <<cli, exit>> /\ (call' = call \/ pc = "request")
    BY <1>7 DEF Config, Find, Connect, Request, Accepted, Subscribed, Forward, EndOfInput,
       ReceiveEvent
  <2>. QED
    BY <1>1, <2>1 DEF StatusIsTrue, Calling
<1>. QED
  BY <1>2, <1>3, <1>4, <1>5, <1>6, <1>7 DEF Next, DaemonStep
-----------------------------------------------------------------------------
(* The two tasks.                                                           *)

\* Only try_join!, or an order's reply, ends the process well.
LEMMA WellEnded ==
    ASSUME IInv, Exiting, exit' = "ok", Installs
    PROVE  streaming = "done" /\ watching = "done"
<1>1. CASE Finish
  BY <1>1 DEF Finish, BothDone
<1>2. CASE Returned
  BY <1>2 DEF Returned, Exit
<1>3. CASE ~Finish /\ ~Returned
  BY <1>3 DEF Exiting, NotFound, NotConnected, CallLost, NotSubscribed, StreamLost, ReaderFailed,
     WatchFailed, Exit
<1>. QED
  BY <1>1, <1>2, <1>3

LEMMA NextTasks ==
    ASSUME ConstantsAssumption, IInv, Next
    PROVE  Tasks'
<1>. USE DEF input, client, tasks, control, progress_
<1>1. /\ Tasks /\ Calling /\ reply \in {"none", "ACK", "NACK"} /\ socket \in Sockets
      /\ sent \in 0..ImageCells /\ supply \in 0..ImageCells
      /\ streaming \in {"off", "on", "done"} /\ watching \in {"off", "on", "done"}
  BY DEF IInv, TypeOK
<1>2. sent' <= supply' /\ sent' \in Nat
  BY NextCounters
<1>3. CASE DaemonStep
  <2>1. UNCHANGED <<cli, supply, pc, socket, streaming, watching, sent, last, exit>>
    BY <1>3, DaemonEffect
  <2>2. reply = "ACK" => reply' = "ACK"
    BY <1>3, DaemonCallEffect
  <2>3. (BeforeCall' <=> BeforeCall) /\ (prog' = "none" <=> prog = "none")
    BY <1>3, <2>1, DaemonProgEffect DEF BeforeCall
  <2>4. prog \in {"acked", "closed"} => prog' \in {"acked", "closed"}
    BY <1>3, DaemonProgEffect
  <2>. QED
    BY <1>1, <1>2, <2>1, <2>2, <2>3, <2>4 DEF Tasks
<1>4. CASE Exiting
  <2>1. /\ UNCHANGED <<cli, supply, streaming, watching, sent, last, reply>>
        /\ pc' = "exit" /\ prog' = (IF prog = "none" THEN "none" ELSE "closed")
    BY <1>4, ExitEffect DEF Exit
  <2>2. exit' = "ok" /\ Installs => streaming = "done" /\ watching = "done"
    BY <1>4, WellEnded
  <2>. QED
    BY <1>1, <1>2, <2>1, <2>2 DEF Tasks
<1>5. CASE Config \/ Find \/ Request
  BY <1>1, <1>2, <1>5 DEF Config, Find, Request, Tasks, BeforeCall
<1>6. CASE Connect
  BY <1>1, <1>2, <1>6 DEF Connect, Tasks, BeforeCall
<1>7. CASE Accepted
  <2>1. reply = "ACK" /\ exit = "none" /\ streaming = "off" /\ watching = "off"
    BY <1>1, <1>7 DEF Accepted, Outcomes, Queries, Calling, Tasks
  <2>. QED
    BY <1>1, <1>2, <1>7, <2>1 DEF Accepted, Tasks, BeforeCall
<1>8. CASE Subscribed
  <2>1. /\ exit = "none" /\ streaming = "off" /\ watching = "off" /\ prog = "acked"
        /\ Installs => reply = "ACK"
    BY <1>1, <1>8 DEF Subscribed, Acknowledged, Calling, Tasks, BeforeCall
  <2>. QED
    BY <1>1, <1>2, <1>8, <2>1 DEF Subscribed, Tasks, BeforeCall
<1>9. CASE Forward
  <2>1. streaming = "on" /\ UNCHANGED <<cli, pc, streaming, watching, last, exit, reply, prog>>
        /\ UNCHANGED <<supply, socket>> /\ pc = "join"
    BY <1>9 DEF Forward
  <2>. QED
    BY <1>1, <1>2, <2>1 DEF Tasks, BeforeCall
<1>10. CASE EndOfInput
  BY <1>1, <1>2, <1>10 DEF EndOfInput, AtEnd, Tasks, Calling, BeforeCall
<1>11. CASE ReceiveEvent
  BY <1>1, <1>2, <1>11 DEF ReceiveEvent, Joined, is_terminal, Tasks, Calling, BeforeCall
<1>. QED
  BY <1>3, <1>4, <1>5, <1>6, <1>7, <1>8, <1>9, <1>10, <1>11 DEF Next, Exiting, DaemonStep
-----------------------------------------------------------------------------
(* The messages on the progress socket.                                     *)

\* A broadcast to a subscriber leaves what was there and adds one event.
LEMMA BroadcastQueue ==
    ASSUME NEW kind \in Kinds, NEW own \in BOOLEAN, TypeOK, Broadcast(kind, own), prog = "acked"
    PROVE  /\ DOMAIN queue' = 1..(Len(queue) + 1) /\ DOMAIN queue = 1..Len(queue)
           /\ Len(queue) \in Nat
           /\ \A i \in DOMAIN queue : queue'[i] = queue[i]
           /\ queue'[Len(queue) + 1] = [kind |-> kind, own |-> own]
<1>. DEFINE event == [kind |-> kind, own |-> own]
<1>1. queue \in Seq(Event) /\ event \in Event /\ queue' = Append(queue, event)
  BY DEF TypeOK, Event, Broadcast
<1>. HIDE DEF event
<1>2. /\ Len(queue) \in Nat /\ DOMAIN queue = 1..Len(queue)
      /\ Len(queue') = Len(queue) + 1 /\ DOMAIN queue' = 1..Len(queue')
  BY <1>1
<1>3. \A i \in 1..Len(queue) : queue'[i] = queue[i]
  BY <1>1
<1>4. queue'[Len(queue) + 1] = event
  BY <1>1
<1>. QED
  BY <1>2, <1>3, <1>4 DEF event

\* The steps that leave queue, prog, installation and tasks alone, or close what has no
\* event left to give.
LEMMA QuietWatching ==
    ASSUME IInv, UNCHANGED <<cli, prog, queue, inst, last, lastOwn>>,
           sent' = sent \/ inst \notin {"success", "failure"}
    PROVE  Watching'
BY DEF IInv, Watching, Busy, Ends

\* A request that is carried out now has left nothing to watch yet.
LEMMA NothingWatched ==
    ASSUME IInv, call = "asked", Installs
    PROVE  prog = "none" /\ queue = <<>> /\ last = "none" /\ inst = "none"
<1>1. reply = "none"
  BY DEF IInv, TypeOK, Calling
<1>2. prog = "none" /\ watching = "off"
  BY <1>1 DEF IInv, TypeOK, Tasks
<1>3. last = "none" /\ queue = <<>>
  BY <1>2 DEF IInv, Tasks, Watching
<1>. QED
  BY <1>2, <1>3 DEF IInv, Installing

\* While the installation goes on its events are not terminal.
LEMMA BusyBroadcast ==
    ASSUME IInv, Busy, UNCHANGED <<cli, prog, last, lastOwn, sent>>,
           inst' \in {"reading", "installing"},
           NEW kind \in {"Started", "Installing"}, Broadcast(kind, TRUE)
    PROVE  Watching'
<1>1. TypeOK /\ Watching
  BY DEF IInv
<1>2. CASE prog = "acked"
  <2>1. /\ DOMAIN queue' = 1..(Len(queue) + 1) /\ DOMAIN queue = 1..Len(queue)
        /\ Len(queue) \in Nat
        /\ \A i \in DOMAIN queue : queue'[i] = queue[i]
        /\ queue'[Len(queue) + 1] = [kind |-> kind, own |-> TRUE]
    BY <1>1, <1>2, BroadcastQueue DEF Kinds
  <2>2. ~is_terminal(kind)
    BY DEF is_terminal
  <2>3. Installs /\ cli.progress =>
            last = "none" /\ \A i \in DOMAIN queue : ~is_terminal(queue[i].kind)
    BY <1>1 DEF Watching
  <2>4. Installs /\ cli.progress => \A i \in DOMAIN queue' : ~is_terminal(queue'[i].kind)
    BY <2>1, <2>2, <2>3
  <2>. QED
    BY <1>2, <2>3, <2>4 DEF Watching
<1>3. CASE prog # "acked"
  <2>1. queue' = queue
    BY <1>3 DEF Broadcast
  <2>. QED
    BY <1>1, <2>1 DEF Watching
<1>. QED
  BY <1>2, <1>3

\* The end of the installation is its one terminal event.
LEMMA EndBroadcast ==
    ASSUME IInv, Busy, UNCHANGED <<cli, prog, last, lastOwn, sent>>,
           NEW kind \in {"Success", "Failed"}, Broadcast(kind, TRUE),
           inst' = IF kind = "Success" THEN "success" ELSE "failure"
    PROVE  Watching'
<1>1. TypeOK /\ Watching
  BY DEF IInv
<1>2. Installs /\ cli.progress =>
          last = "none" /\ \A i \in DOMAIN queue : ~is_terminal(queue[i].kind)
  BY <1>1 DEF Watching
<1>3. ~Busy' /\ (inst' = "success" <=> kind = "Success")
  BY DEF Busy
<1>4. CASE prog = "acked"
  <2>1. /\ DOMAIN queue' = 1..(Len(queue) + 1) /\ DOMAIN queue = 1..Len(queue)
        /\ Len(queue) \in Nat
        /\ \A i \in DOMAIN queue : queue'[i] = queue[i]
        /\ queue'[Len(queue) + 1] = [kind |-> kind, own |-> TRUE]
    BY <1>1, <1>4, BroadcastQueue DEF Kinds
  <2>2. ASSUME NEW i \in DOMAIN queue', i = Len(queue) + 1
        PROVE  Ends(queue[i])' /\ is_terminal(queue'[i].kind)
    BY <1>3, <2>1, <2>2 DEF Ends, is_terminal
  <2>3. Installs /\ cli.progress => \A i \in DOMAIN queue' :
            is_terminal(queue'[i].kind) => i = Len(queue) + 1
    BY <1>2, <2>1
  <2>4. Len(queue) + 1 \in DOMAIN queue'
    BY <2>1
  <2>5. Installs /\ cli.progress => \A i \in DOMAIN queue' :
            is_terminal(queue'[i].kind) => Ends(queue[i])'
    BY <2>2, <2>3
  <2>. QED
    BY <1>2, <1>3, <1>4, <2>2, <2>4, <2>5 DEF Watching
<1>5. CASE prog # "acked"
  <2>1. queue' = queue
    BY <1>5 DEF Broadcast
  <2>. QED
    BY <1>1, <1>2, <1>3, <1>5, <2>1 DEF Watching
<1>. QED
  BY <1>4, <1>5

\* An update of another client comes behind the end of ours.
LEMMA OtherBroadcast ==
    ASSUME IInv, ~Busy, UNCHANGED <<cli, prog, last, lastOwn, sent, inst>>,
           NEW kind \in {"Success", "Failed"}, Broadcast(kind, FALSE)
    PROVE  Watching'
<1>1. TypeOK /\ Watching
  BY DEF IInv
<1>2. CASE prog = "acked"
  <2>1. /\ DOMAIN queue' = 1..(Len(queue) + 1) /\ DOMAIN queue = 1..Len(queue)
        /\ Len(queue) \in Nat
        /\ \A i \in DOMAIN queue : queue'[i] = queue[i]
    BY <1>1, <1>2, BroadcastQueue DEF Kinds
  <2>2. ASSUME Installs, cli.progress, sent > 0, inst \in {"success", "failure"}, last = "none"
        PROVE  /\ \E i \in DOMAIN queue' : is_terminal(queue'[i].kind)
               /\ \A i \in DOMAIN queue' : is_terminal(queue'[i].kind) =>
                     \/ Ends(queue[i])'
                     \/ \E j \in 1..(i - 1) : is_terminal(queue'[j].kind)
    <3>1. PICK t \in DOMAIN queue : is_terminal(queue[t].kind)
      BY <1>1, <1>2, <2>2 DEF Watching
    <3>2. t \in DOMAIN queue' /\ is_terminal(queue'[t].kind)
      BY <2>1, <3>1
    <3>3. ASSUME NEW i \in DOMAIN queue', is_terminal(queue'[i].kind)
          PROVE  Ends(queue[i])' \/ \E j \in 1..(i - 1) : is_terminal(queue'[j].kind)
      <4>1. CASE i = Len(queue) + 1
        BY <2>1, <3>1, <3>2, <4>1
      <4>2. CASE i # Len(queue) + 1
        <5>1. i \in DOMAIN queue /\ queue'[i] = queue[i]
          BY <2>1, <3>3, <4>2
        <5>2. Ends(queue[i]) \/ \E j \in 1..(i - 1) : is_terminal(queue[j].kind)
          BY <1>1, <2>2, <3>3, <5>1 DEF Watching
        <5>3. \A j \in 1..(i - 1) : queue'[j] = queue[j]
          BY <2>1, <5>1
        <5>. QED
          BY <5>1, <5>2, <5>3 DEF Ends
      <4>. QED
        BY <4>1, <4>2
    <3>. QED
      BY <3>2, <3>3
  <2>3. Installs /\ cli.progress /\ sent > 0 /\ inst \in {"success", "failure"} /\ last # "none"
           => Ends([kind |-> last, own |-> lastOwn])'
    BY <1>1 DEF Watching, Ends
  <2>. QED
    BY <1>2, <2>2, <2>3 DEF Watching, Busy
<1>3. CASE prog # "acked"
  <2>1. queue' = queue
    BY <1>3 DEF Broadcast
  <2>. QED
    BY <1>1, <2>1 DEF Watching, Ends, Busy
<1>. QED
  BY <1>2, <1>3

\* The first message is read: it is the end of ours if it is terminal, and what is
\* behind it moves up.
LEMMA ReceiveWatching ==
    ASSUME IInv, ReceiveEvent
    PROVE  Watching'
<1>. USE DEF input, client, installer
<1>1. /\ Watching /\ Tasks /\ queue \in Seq(Event) /\ queue # <<>>
      /\ watching = "on" /\ queue' = Tail(queue)
      /\ UNCHANGED <<cli, sent, inst, prog>>
  BY DEF IInv, TypeOK, ReceiveEvent
<1>2. last = "none"
  BY <1>1 DEF Tasks
<1>3. /\ Len(queue) \in Nat /\ DOMAIN queue = 1..Len(queue) /\ 1 \in DOMAIN queue
      /\ Head(queue) = queue[1] /\ queue[1] \in Event
      /\ DOMAIN queue' = 1..(Len(queue) - 1)
      /\ \A i \in DOMAIN queue' : i + 1 \in DOMAIN queue /\ queue'[i] = queue[i + 1]
  BY <1>1
<1>4. CASE is_terminal(queue[1].kind)
  <2>1. last' = queue[1].kind /\ lastOwn' = queue[1].own /\ last' # "none"
    BY <1>3, <1>4 DEF ReceiveEvent, is_terminal
  <2>2. ~(Installs /\ cli.progress /\ Busy)
    BY <1>1, <1>3, <1>4 DEF Watching
  <2>3. ASSUME Installs, cli.progress, sent > 0, inst \in {"success", "failure"}
        PROVE  Ends([kind |-> last, own |-> lastOwn])'
    <3>1. Ends(queue[1]) \/ \E j \in 1..(1 - 1) : is_terminal(queue[j].kind)
      BY <1>1, <1>2, <1>3, <1>4, <2>3 DEF Watching
    <3>2. Ends(queue[1])
      BY <3>1
    <3>. QED
      BY <1>1, <2>1, <3>2 DEF Ends
  <2>4. prog' \in {"none", "pending"} => queue' = <<>>
    BY <1>1 DEF Watching
  <2>. QED
    BY <1>1, <2>1, <2>2, <2>3, <2>4 DEF Watching, Busy
<1>5. CASE ~is_terminal(queue[1].kind)
  <2>1. UNCHANGED <<last, lastOwn>>
    BY <1>3, <1>5 DEF ReceiveEvent
  <2>2. Installs /\ cli.progress /\ Busy =>
            \A i \in DOMAIN queue' : ~is_terminal(queue'[i].kind)
    BY <1>1, <1>3 DEF Watching
  <2>3. ASSUME Installs, cli.progress, sent > 0, inst \in {"success", "failure"}
        PROVE  /\ prog = "acked" => \E i \in DOMAIN queue' : is_terminal(queue'[i].kind)
               /\ \A i \in DOMAIN queue' : is_terminal(queue'[i].kind) =>
                     \/ Ends(queue[i])'
                     \/ \E j \in 1..(i - 1) : is_terminal(queue'[j].kind)
    <3>1. ASSUME prog = "acked"
          PROVE  \E i \in DOMAIN queue' : is_terminal(queue'[i].kind)
      <4>1. PICK t \in DOMAIN queue : is_terminal(queue[t].kind)
        BY <1>1, <1>2, <2>3, <3>1 DEF Watching
      <4>2. t # 1 /\ t - 1 \in DOMAIN queue' /\ queue'[t - 1] = queue[t]
        BY <1>3, <1>5, <4>1
      <4>. QED
        BY <4>1, <4>2
    <3>2. ASSUME NEW i \in DOMAIN queue', is_terminal(queue'[i].kind)
          PROVE  Ends(queue[i])' \/ \E j \in 1..(i - 1) : is_terminal(queue'[j].kind)
      <4>1. i + 1 \in DOMAIN queue /\ queue'[i] = queue[i + 1]
        BY <1>3
      <4>2. Ends(queue[i + 1]) \/ \E j \in 1..(i + 1 - 1) : is_terminal(queue[j].kind)
        BY <1>1, <1>2, <2>3, <3>2, <4>1 DEF Watching
      <4>3. CASE Ends(queue[i + 1])
        BY <1>1, <4>1, <4>3 DEF Ends
      <4>4. ASSUME NEW j \in 1..i, is_terminal(queue[j].kind)
            PROVE  \E k \in 1..(i - 1) : is_terminal(queue'[k].kind)
        <5>1. j # 1 /\ j - 1 \in 1..(i - 1)
          BY <1>3, <1>5, <3>2, <4>4
        <5>2. queue'[j - 1] = queue[j]
          BY <1>3, <3>2, <5>1
        <5>. QED
          BY <4>4, <5>1, <5>2
      <4>5. i + 1 - 1 = i
        BY <1>3
      <4>. QED
        BY <4>2, <4>3, <4>4, <4>5
    <3>. QED
      BY <3>1, <3>2
  <2>4. prog' \in {"none", "pending"} => queue' = <<>>
    BY <1>1 DEF Watching
  <2>. QED
    BY <1>1, <1>2, <2>1, <2>2, <2>3, <2>4 DEF Watching, Busy
<1>. QED
  BY <1>4, <1>5

LEMMA NextWatching ==
    ASSUME ConstantsAssumption, IInv, Next
    PROVE  Watching'
<1>. USE DEF input, client, tasks, control, progress_, installer
<1>1. TypeOK /\ Watching /\ Installing /\ Tasks /\ Calling
  BY DEF IInv
<1>2. CASE Exiting
  <2>1. /\ UNCHANGED <<cli, sent, last, lastOwn, inst>> /\ queue' = <<>>
        /\ prog' = (IF prog = "none" THEN "none" ELSE "closed")
    BY <1>2, ExitEffect DEF Exit
  <2>. QED
    BY <1>1, <2>1 DEF Watching, Busy, Ends
<1>3. CASE Config \/ Find \/ Request \/ Accepted \/ Subscribed \/ EndOfInput \/ Forward
  <2>1. UNCHANGED <<cli, prog, queue, inst, last, lastOwn>>
    BY <1>3 DEF Config, Find, Request, Accepted, Subscribed, EndOfInput, Forward
  <2>2. sent' = sent \/ inst \notin {"success", "failure"}
    BY <1>1, <1>3 DEF Config, Find, Request, Accepted, Subscribed, EndOfInput, Forward, Installing
  <2>. QED
    BY <2>1, <2>2, QuietWatching
<1>4. CASE Connect
  <2>1. UNCHANGED <<cli, sent, last, lastOwn, inst, queue>> /\ prog' \in {prog, "pending"}
    BY <1>4 DEF Connect
  <2>2. prog = "none" /\ queue = <<>>
    BY <1>1, <1>4 DEF Connect, Tasks, Watching
  <2>. QED
    BY <1>1, <2>1, <2>2 DEF Watching, Busy, Ends
<1>5. CASE ReceiveEvent
  BY <1>5, ReceiveWatching
<1>6. CASE DaemonCarryOut
  <2>1. UNCHANGED <<cli, prog, queue, last, lastOwn, sent>>
    BY <1>6 DEF DaemonCarryOut
  <2>2. CASE Installs
    <3>1. queue = <<>> /\ last = "none" /\ inst' = "accepted"
      BY <1>6, <2>2, NothingWatched DEF DaemonCarryOut
    <3>. QED
      BY <2>1, <3>1 DEF Watching
  <2>3. CASE ~Installs
    BY <1>1, <2>1, <2>3 DEF Watching
  <2>. QED
    BY <2>2, <2>3
<1>7. CASE DaemonRefuse \/ DaemonReply \/ DaemonDropControl \/ Surroundings
  BY <1>7, QuietWatching DEF DaemonRefuse, DaemonReply, DaemonDropControl, Surroundings
<1>8. CASE DaemonSubscribe \/ DaemonDropProgress
  <2>1. UNCHANGED <<cli, queue, inst, last, lastOwn, sent>>
    BY <1>8 DEF DaemonSubscribe, DaemonDropProgress
  <2>2. CASE DaemonSubscribe
    <3>1. prog = "pending" /\ prog' = "acked" /\ queue = <<>>
      BY <1>1, <2>2 DEF DaemonSubscribe, Watching
    <3>2. ~(Installs /\ cli.progress /\ sent > 0)
      BY <1>1, <3>1 DEF Tasks
    <3>. QED
      BY <1>1, <2>1, <3>1, <3>2 DEF Watching, Busy
  <2>3. CASE DaemonDropProgress
    <3>1. prog' = "closed"
      BY <2>3 DEF DaemonDropProgress
    <3>. QED
      BY <1>1, <2>1, <3>1 DEF Watching, Busy, Ends
  <2>. QED
    BY <1>8, <2>2, <2>3
<1>9. CASE DaemonBegin
  BY <1>9, BusyBroadcast DEF DaemonBegin, Busy
<1>10. CASE DaemonRead
  BY <1>10, BusyBroadcast DEF DaemonRead, Busy
<1>11. CASE DaemonSucceed
  BY <1>11, EndBroadcast DEF DaemonSucceed, Busy
<1>12. CASE DaemonFail \/ DaemonEndOfStream
  BY <1>12, EndBroadcast DEF DaemonFail, DaemonEndOfStream, Failure, Busy
<1>13. CASE DaemonServeOther
  BY <1>13, OtherBroadcast DEF DaemonServeOther
<1>14. CASE DaemonStop
  <2>1. /\ UNCHANGED <<cli, queue, last, lastOwn, sent>>
        /\ prog' = (IF prog = "none" THEN "none" ELSE "closed")
        /\ inst' = (IF Busy THEN "failure" ELSE inst)
    BY <1>14 DEF DaemonStop
  <2>. QED
    BY <1>1, <2>1 DEF Watching, Busy, Ends
<1>. QED
  BY <1>2, <1>3, <1>4, <1>5, <1>6, <1>7, <1>8, <1>9, <1>10, <1>11, <1>12, <1>13, <1>14
     DEF Next, Exiting
-----------------------------------------------------------------------------
(* What one side relies on while it waits for the other.                    *)

\* A call that is lost was given up because the daemon had hung up.
LEMMA ExitUnanswered ==
    ASSUME IInv, Exiting, Ordered, call # "none", reply = "none"
    PROVE  ctrl = "closed"
<1>1. Calling /\ Tasks /\ socket \in Sockets
  BY DEF IInv, TypeOK
<1>2. CASE CallLost
  BY <1>2 DEF CallLost
<1>3. CASE Returned
  BY <1>3 DEF Returned
<1>4. CASE ~CallLost /\ ~Returned
  <2>1. pc \in {"find", "connect", "handshake", "join"}
    BY <1>4 DEF Exiting, NotFound, NotConnected, NotSubscribed, StreamLost, ReaderFailed,
       WatchFailed, Finish
  <2>2. ~BeforeCall
    BY <1>1 DEF Calling
  <2>3. CASE Installs
    BY <1>1, <2>1, <2>2, <2>3 DEF Tasks
  <2>4. CASE ~Installs
    BY <1>1, <2>1, <2>2, <2>4 DEF Calling, BeforeCall, Ordered
  <2>. QED
    BY <2>3, <2>4
<1>. QED
  BY <1>2, <1>3, <1>4

\* Nothing is streamed to an installation that there is not.
LEMMA NothingStreamed ==
    ASSUME IInv, inst = "none"
    PROVE  sent = 0 /\ taken = 0
BY DEF IInv, TypeOK, Calling, Installing, Tasks

\* Every chunk that was written is in the control socket or in the installer, as long as
\* the installation is not over, and its connection stays open as long.
LEMMA NextChunks ==
    ASSUME ConstantsAssumption, IInv, Next
    PROVE  /\ Busy' => ctrl' = "open"
           /\ inst' \notin {"success", "failure"} => sent' = taken' + unread'
<1>. USE DEF input, client, tasks, control, installer
<1>1. /\ Awaiting /\ sent \in Nat /\ taken \in Nat /\ unread \in Nat
      /\ inst \in {"none", "accepted", "reading", "installing", "success", "failure"}
  BY DEF IInv, TypeOK
<1>2. CASE Forward
  <2>1. sent' = sent + 1 /\ unread' = unread + 1 /\ UNCHANGED <<ctrl, taken, inst>>
    BY <1>2 DEF Forward
  <2>. QED
    BY <1>1, <2>1 DEF Awaiting, Busy
<1>3. CASE DaemonRead
  <2>1. /\ taken' = taken + 1 /\ unread' = unread - 1 /\ UNCHANGED <<ctrl, sent>>
        /\ Busy /\ inst = "reading"
    BY <1>3 DEF DaemonRead, Busy
  <2>. QED
    BY <1>1, <2>1 DEF Awaiting
<1>4. CASE DaemonSucceed \/ DaemonFail \/ DaemonEndOfStream
  <2>1. inst' \in {"success", "failure"}
    BY <1>4 DEF DaemonSucceed, DaemonFail, DaemonEndOfStream, Failure
  <2>. QED
    BY <2>1 DEF Busy
<1>5. CASE DaemonStop
  <2>1. /\ inst' = (IF Busy THEN "failure" ELSE inst) /\ unread' = 0
        /\ UNCHANGED <<sent, taken>>
    BY <1>5 DEF DaemonStop
  <2>2. inst' \notin {"success", "failure"} => inst = "none" /\ inst' = "none"
    BY <1>1, <2>1 DEF Busy
  <2>3. inst = "none" => sent = 0 /\ taken = 0
    BY NothingStreamed
  <2>. QED
    BY <1>1, <2>1, <2>2, <2>3 DEF Busy
<1>6. CASE DaemonCarryOut
  <2>1. /\ ctrl' = "open" /\ UNCHANGED <<sent, taken, unread>>
        /\ inst' = inst \/ Installs
    BY <1>6 DEF DaemonCarryOut
  <2>2. Installs => inst = "none"
    BY <1>6, NothingWatched DEF DaemonCarryOut
  <2>. QED
    BY <1>1, <2>1, <2>2 DEF Awaiting
<1>7. CASE DaemonBegin
  <2>1. UNCHANGED <<ctrl, sent, taken, unread>> /\ Busy /\ inst = "accepted"
    BY <1>7 DEF DaemonBegin, Busy
  <2>. QED
    BY <1>1, <2>1 DEF Awaiting
<1>8. CASE ~(Forward \/ DaemonRead \/ DaemonSucceed \/ DaemonFail \/ DaemonEndOfStream
             \/ DaemonStop \/ DaemonCarryOut \/ DaemonBegin)
  <2>1. UNCHANGED <<sent, taken, unread, inst>> /\ (ctrl' \in {ctrl, "open"} \/ ~Busy)
    BY <1>8, ExitEffect DEF Next, Exiting, Config, Find, Connect, Request, Accepted, Subscribed,
       EndOfInput, ReceiveEvent, DaemonRefuse, DaemonReply, DaemonSubscribe, DaemonServeOther,
       DaemonDropControl, DaemonDropProgress, Surroundings
  <2>. QED
    BY <1>1, <2>1 DEF Awaiting, Busy
<1>. QED
  BY <1>2, <1>3, <1>4, <1>5, <1>6, <1>7, <1>8

LEMMA NextAwaiting ==
    ASSUME ConstantsAssumption, IInv, Next
    PROVE  Awaiting'
<1>. USE DEF input, client, tasks, control, progress_, Ordered
<1>1. /\ Awaiting /\ Calling /\ Tasks /\ socket \in Sockets
      /\ prog \in {"none", "pending", "acked", "closed"}
  BY DEF IInv, TypeOK
<1>2. /\ Busy' => ctrl' = "open"
      /\ inst' \notin {"success", "failure"} => sent' = taken' + unread'
  BY NextChunks
<1>3. CASE DaemonStep
  <2>1. UNCHANGED <<cli, pc, socket, streaming, watching, exit>>
    BY <1>3, DaemonEffect
  <2>2. /\ call' # "none" => call # "none"
        /\ reply' = "none" => reply = "none"
        /\ ctrl = "closed" => ctrl' = "closed"
    BY <1>3, DaemonCallEffect
  <2>3. /\ prog = "none" => prog' = "none"
        /\ prog \in {"none", "closed"} => prog' \in {"none", "closed"}
    BY <1>3, DaemonProgEffect
  <2>. QED
    BY <1>1, <1>2, <2>1, <2>2, <2>3 DEF Awaiting
<1>4. CASE Exiting
  <2>1. /\ UNCHANGED <<cli, socket, streaming, watching, ctrl, call, reply>>
        /\ pc' = "exit" /\ prog' = (IF prog = "none" THEN "none" ELSE "closed")
    BY <1>4, ExitEffect DEF Exit
  <2>2. Ordered /\ call # "none" /\ reply = "none" => ctrl = "closed"
    BY <1>4, ExitUnanswered
  <2>. QED
    BY <1>1, <1>2, <2>1, <2>2 DEF Awaiting
<1>5. CASE Config \/ Find \/ Connect \/ Request
  <2>1. /\ UNCHANGED <<cli, watching, exit>>
        /\ pc' \notin {"exit", "join"} /\ exit = "none"
    BY <1>1, <1>5 DEF Config, Find, Connect, Request, Calling
  <2>2. /\ prog' # prog => pc = "connect" /\ socket # "ctrl"
        /\ pc' \in {"find", "connect"} =>
              \/ socket' = socket /\ pc = "find"
              \/ socket' = "ctrl" \/ ~Installs
    BY <1>5 DEF Config, Find, Connect, Request
  <2>. QED
    BY <1>1, <1>2, <2>1, <2>2 DEF Awaiting
<1>6. CASE Accepted
  <2>1. /\ UNCHANGED <<cli, exit, prog>> /\ exit = "none" /\ Installs /\ pc' # "exit"
        /\ ~cli.progress => pc' = "join"
        /\ pc' = "join" => streaming' = "on" /\ watching' = "done"
        /\ cli.progress => pc' # "join"
    BY <1>1, <1>6 DEF Accepted, Calling
  <2>. QED
    BY <1>1, <1>2, <2>1 DEF Awaiting
<1>7. CASE Subscribed
  <2>1. /\ UNCHANGED <<cli, exit, prog>> /\ exit = "none" /\ prog = "acked"
        /\ pc' = "join" /\ streaming' # "off" /\ watching' # "off"
    BY <1>1, <1>7 DEF Subscribed, Acknowledged, Calling
  <2>2. ~(Installs /\ ~cli.progress)
    BY <1>1, <2>1 DEF Awaiting
  <2>. QED
    BY <1>2, <2>1, <2>2 DEF Awaiting
<1>8. CASE Forward \/ EndOfInput \/ ReceiveEvent
  <2>1. /\ UNCHANGED <<cli, pc, exit, prog>> /\ pc = "join"
        /\ streaming' \in {streaming, "done"} /\ watching' \in {watching, "done"}
    BY <1>8 DEF Forward, EndOfInput, ReceiveEvent, Joined
  <2>. QED
    BY <1>1, <1>2, <2>1 DEF Awaiting
<1>. QED
  BY <1>3, <1>4, <1>5, <1>6, <1>7, <1>8 DEF Next, Exiting, DaemonStep

-----------------------------------------------------------------------------
(* The invariant, and what follows from it.                                 *)

LEMMA StutterIInv ==
    ASSUME IInv, UNCHANGED vars
    PROVE  IInv'
<1>. USE DEF vars, input, client, tasks, control, progress_, installer, world
<1>1. TypeOK'
  BY DEF IInv, TypeOK, SocketTypeOK
<1>2. Paths' /\ FindsDaemon'
  BY DEF IInv, Paths, DaemonPath, Resolved, FindsDaemon
<1>3. Calling' /\ Installing' /\ Tasks' /\ StatusIsTrue'
  BY DEF IInv, Calling, BeforeCall, Installing, Tasks, StatusIsTrue
<1>4. Watching'
  BY QuietWatching
<1>5. Awaiting'
  BY DEF IInv, Awaiting, Busy, Ordered
<1>. QED
  BY <1>1, <1>2, <1>3, <1>4, <1>5 DEF IInv

\* What is in the progress socket, what the daemon does with the installation, where
\* the sockets are and how far run() has come agree at every step: the invariant
\* that the other theorems follow from.
THEOREM InvariantHolds == Spec => []IInv
<1>1. Init => IInv
  BY SituationsAssumption, ConstantsAssumption, InitIInv
<1>2. IInv /\ [Next]_vars => IInv'
  <2>. SUFFICES ASSUME IInv, [Next]_vars
                PROVE  IInv'
    OBVIOUS
  <2>1. CASE Next
    BY <2>1, SituationsAssumption, ConstantsAssumption, NextTypeOK, NextPaths, NextCalling,
       NextInstalling, NextTasks, NextWatching, NextAwaiting, NextStatusIsTrue, NextFindsDaemon
       DEF IInv
  <2>2. CASE UNCHANGED vars
    BY <2>2, StutterIInv
  <2>. QED
    BY <2>1, <2>2
<1>. QED
  BY <1>1, <1>2, PTL DEF Spec

\* Every variable stays within its range: no chunk is written past the socket's room
\* or the end of the input, and no message past the progress socket's room.
THEOREM TypeCorrect == Spec => []TypeOK
<1>1. IInv => TypeOK
  BY DEF IInv
<1>. QED
  BY <1>1, InvariantHolds, PTL

\* install ends well only when the whole input is written and, with --progress, this
\* very installation has ended, as the event it waited for says: try_join! of
\* swupdate-client.rs after the progress subscription.
THEOREM InstallEndsTruly == Spec => []ExitMeansEnded
<1>1. IInv => ExitMeansEnded
  <2>. SUFFICES ASSUME IInv, exit = "ok", Installs
                PROVE  /\ sent = supply
                       /\ cli.progress /\ supply > 0 =>
                             /\ lastOwn
                             /\ last = "Success" => inst = "success"
                             /\ last = "Failed" => inst = "failure"
    BY DEF ExitMeansEnded
  <2>1. sent = supply /\ reply = "ACK" /\ (cli.progress => last # "none")
    BY DEF IInv, Tasks
  <2>2. inst \in {"accepted", "reading", "installing", "success", "failure"}
    BY <2>1 DEF IInv, TypeOK, Calling, Installing
  <2>3. ASSUME cli.progress, supply > 0
        PROVE  /\ lastOwn
               /\ last = "Success" => inst = "success"
               /\ last = "Failed" => inst = "failure"
    <3>1. inst \in {"success", "failure"}
      BY <2>1, <2>2, <2>3 DEF IInv, Watching, Busy
    <3>2. Ends([kind |-> last, own |-> lastOwn])
      BY <2>1, <2>3, <3>1 DEF IInv, Watching
    <3>. QED
      BY <3>1, <3>2 DEF Ends
  <2>. QED
    BY <2>1, <2>3
<1>. QED
  BY <1>1, InvariantHolds, PTL

\* What the exit status of an order says of the daemon is true, then and later: ok,
\* that it was carried out; Rejected, Timeout and InvalidPath, that it was not and
\* will not be.
THEOREM StatusStaysTrue == Spec => []StatusIsTrue
<1>1. IInv => StatusIsTrue
  BY DEF IInv
<1>. QED
  BY <1>1, InvariantHolds, PTL

\* SocketConfig::default() leads a client to the sockets of a daemon that has been
\* listening all the while, if both have the same environment, or the client has
\* none and the daemon is where the init system puts it.
THEOREM DaemonFound == Spec => []FindsDaemon
<1>1. IInv => FindsDaemon
  BY DEF IInv
<1>. QED
  BY <1>1, InvariantHolds, PTL


\* try_join!: while both tasks run, one of them is ready or the daemon has a step.
LEMMA TasksGoOn ==
    ASSUME ConstantsAssumption, IInv, pc = "join", Installs, cli.progress => supply = ImageCells
    PROVE  ClientCanGoOn \/ DaemonCanGoOn
<1>1. /\ TypeOK /\ Calling /\ Installing /\ Tasks /\ Watching /\ Awaiting
  BY DEF IInv
<1>2. /\ reply = "ACK" /\ call = "carried" /\ ctrl # "none"
      /\ inst \in {"accepted", "reading", "installing", "success", "failure"}
  BY <1>1 DEF TypeOK, Calling, Installing, Tasks, BeforeCall
<1>3. streaming \in {"on", "done"} /\ watching \in {"on", "done"}
  BY <1>1 DEF TypeOK, Awaiting
<1>. SUFFICES ASSUME ~ClientCanGoOn
              PROVE  DaemonCanGoOn
  OBVIOUS
<1>4. watching = "on" => queue = <<>> /\ prog # "closed"
  BY DEF ClientCanGoOn, Joined
<1>5. CASE streaming = "on"
  <2>1. ctrl # "closed" /\ unread > 0
    <3>1. unread \in 0..SocketCells /\ ~(unread < SocketCells) /\ ctrl # "closed"
      BY <1>1, <1>5 DEF ClientCanGoOn, TypeOK
    <3>. QED
      BY <3>1 DEF ConstantsAssumption
  <2>2. Busy
    BY <1>1, <1>2, <2>1 DEF Installing, Busy
  <2>3. CASE watching = "on"
    BY <1>2, <1>4, <2>1, <2>2, <2>3 DEF DaemonCanGoOn, Busy, ConstantsAssumption
  <2>4. CASE watching = "done"
    <3>1. ~cli.progress
      BY <1>1, <2>2, <2>4 DEF Tasks, Watching
    <3>2. prog = "none"
      BY <1>1, <3>1 DEF Awaiting
    <3>. QED
      BY <2>1, <2>2, <3>2 DEF DaemonCanGoOn, Busy
  <2>. QED
    BY <1>3, <2>3, <2>4
<1>6. CASE streaming = "done"
  <2>1. watching = "on"
    BY <1>3, <1>6 DEF ClientCanGoOn, BothDone
  <2>2. cli.progress
    BY <1>1, <2>1 DEF Awaiting, TypeOK, Commands
  <2>3. sent = ImageCells /\ prog = "acked" /\ last = "none" /\ queue = <<>>
    BY <1>1, <1>4, <1>6, <2>1, <2>2 DEF Tasks
  <2>4. sent > 0
    BY <2>3 DEF ConstantsAssumption
  <2>5. Busy
    BY <1>1, <1>2, <2>2, <2>3, <2>4 DEF Watching, Busy
  <2>6. inst = "reading" => unread > 0
    <3>1. inst = "reading" => taken < ImageCells /\ sent = taken + unread
      BY <1>1 DEF Installing, Awaiting
    <3>2. taken \in Nat /\ unread \in Nat /\ ImageCells \in Nat
      BY <1>1 DEF TypeOK, ConstantsAssumption
    <3>. QED
      BY <2>3, <3>1, <3>2
  <2>. QED
    BY <2>3, <2>5, <2>6 DEF DaemonCanGoOn, Busy, ConstantsAssumption
<1>. QED
  BY <1>3, <1>5, <1>6

\* The client of swupdate-client.rs and the daemon never wait for each other, for all
\* that a full control socket holds the one and an unread progress socket the other:
\* a truncated image watched with --progress, and `progress`, apart.
THEOREM NeitherWaits == Spec => []NoStandoff
<1>1. IInv => NoStandoff
  <2>. SUFFICES ASSUME IInv PROVE NoStandoff
    OBVIOUS
  <2>1. ASSUME exit # "none", inst \in {"accepted", "reading"}
        PROVE  DaemonCanGoOn
    BY <2>1 DEF IInv, Awaiting, DaemonCanGoOn, Closed
  <2>. QED
    BY <2>1, TasksGoOn, ConstantsAssumption DEF NoStandoff
<1>. QED
  BY <1>1, InvariantHolds, PTL


-----------------------------------------------------------------------------
(* The one call, and what ControlClient promises of it.                     *)

Carried == IF Ordered /\ call = "carried" THEN 1 ELSE 0
Shown == [i \in {1} |-> Status]
Done == [i \in {1} |-> Carried]

\* A step as the caller sees it: nothing changes, the call is made, it is carried out
\* while it is pending, or it returns what is true.
CallStep ==
    \/ UNCHANGED <<Status, Carried>>
    \/ Status = "Unused" /\ Status' = "Pending" /\ UNCHANGED Carried
    \/ Status = "Pending" /\ Status' = Status /\ Carried = 0 /\ Carried' = 1
    \/ /\ Status = "Pending" /\ UNCHANGED Carried
       /\ Status' \in {"Ok", "Rejected", "Connection"}
       /\ Status' = "Ok" => Carried = 1
       /\ Status' = "Rejected" => Carried = 0

\* An unanswered call on an open connection is one that the client waits for.
LEMMA StillWaited ==
    ASSUME IInv, Ordered, call # "none", reply = "none", ctrl = "open"
    PROVE  pc = "reply"
<1>1. /\ Calling /\ Tasks /\ Awaiting /\ socket \in Sockets
      /\ pc \in {"config", "find", "connect", "request", "reply", "handshake", "join", "exit"}
  BY DEF IInv, TypeOK
<1>2. pc # "exit" /\ ~BeforeCall
  BY <1>1 DEF Calling, Awaiting
<1>3. CASE Installs
  BY <1>1, <1>2, <1>3 DEF Tasks
<1>4. CASE ~Installs
  BY <1>1, <1>2, <1>4 DEF Calling, BeforeCall, Ordered
<1>. QED
  BY <1>3, <1>4

\* Beyond its reply and before its exit there is only an install that was acknowledged.
LEMMA BeyondReply ==
    ASSUME IInv, Ordered, call # "none", pc \notin {"reply", "exit"}
    PROVE  Installs /\ reply = "ACK"
<1>1. /\ Calling /\ Tasks /\ socket \in Sockets
      /\ pc \in {"config", "find", "connect", "request", "reply", "handshake", "join", "exit"}
  BY DEF IInv, TypeOK
<1>2. ~BeforeCall
  BY <1>1 DEF Calling
<1>3. Installs
  BY <1>1, <1>2 DEF Calling, BeforeCall, Ordered
<1>. QED
  BY <1>1, <1>2, <1>3 DEF Tasks

LEMMA DaemonCallStep ==
    ASSUME IInv, DaemonStep
    PROVE  CallStep
<1>. USE DEF control
<1>1. UNCHANGED <<cli, pc, exit>>
  BY DaemonEffect DEF input, client
<1>2. Ordered' <=> Ordered
  BY <1>1 DEF Ordered
<1>3. reply = "none" \/ call # "asked"
  BY DEF IInv, TypeOK, Calling
<1>4. CASE DaemonCarryOut \/ DaemonRefuse
  <2>1. /\ call = "asked" /\ ctrl = "open" /\ reply = "none" /\ reply' = reply
        /\ call' \in {"carried", "refused"}
    BY <1>3, <1>4 DEF DaemonCarryOut, DaemonRefuse
  <2>2. Ordered => pc = "reply"
    BY <2>1, StillWaited
  <2>. QED
    BY <1>1, <1>2, <2>1, <2>2 DEF CallStep, Status, Carried
<1>5. CASE DaemonReply
  <2>1. /\ call \in {"carried", "refused"} /\ ctrl = "open" /\ reply = "none" /\ call' = call
    BY <1>5 DEF DaemonReply
  <2>2. Ordered => pc = "reply"
    BY <2>1, StillWaited
  <2>. QED
    BY <1>1, <1>2, <2>1, <2>2 DEF CallStep, Status, Carried
<1>6. CASE ~(DaemonCarryOut \/ DaemonRefuse \/ DaemonReply)
  <2>1. UNCHANGED <<call, reply>>
    BY <1>6 DEF DaemonStep, DaemonSubscribe, DaemonBegin, DaemonRead, DaemonSucceed, DaemonFail,
       DaemonEndOfStream, Failure, DaemonServeOther, DaemonDropControl, DaemonDropProgress,
       Surroundings, DaemonStop
  <2>. QED
    BY <1>1, <1>2, <2>1 DEF CallStep, Status, Carried
<1>. QED
  BY <1>4, <1>5, <1>6

\* The end of the process is the return of a call that is pending, and of no other.
LEMMA ExitCallStep ==
    ASSUME IInv, Exiting
    PROVE  CallStep
<1>1. /\ UNCHANGED <<cli, call, reply>> /\ pc' = "exit" /\ pc # "exit"
      /\ (Ordered' <=> Ordered)
  BY ExitEffect DEF Exit, input, control, Ordered, Exiting, NotFound, NotConnected, CallLost,
     Returned, NotSubscribed, StreamLost, ReaderFailed, WatchFailed, Finish
<1>2. Calling /\ reply \in {"none", "ACK", "NACK"}
  BY DEF IInv, TypeOK
<1>3. CASE ~Ordered \/ call = "none"
  BY <1>1, <1>3 DEF CallStep, Status, Carried
<1>4. CASE Ordered /\ call # "none" /\ pc # "reply"
  <2>1. Installs /\ reply = "ACK"
    BY <1>1, <1>4, BeyondReply
  <2>. QED
    BY <1>1, <1>4, <2>1 DEF CallStep, Status, Carried
<1>5. CASE Ordered /\ call # "none" /\ pc = "reply"
  <2>1. Status = "Pending" /\ Carried' = Carried
    BY <1>1, <1>5 DEF Status, Carried
  <2>2. CASE CallLost
    <3>1. reply = "none" /\ exit' = "Connection"
      BY <2>2 DEF CallLost, Exit
    <3>2. Status' = "Connection"
      BY <1>1, <1>5, <3>1 DEF Status
    <3>. QED
      BY <2>1, <3>2 DEF CallStep
  <2>3. CASE Returned
    <3>1. \/ reply = "ACK" /\ exit' = "ok"
          \/ reply = "NACK" /\ exit' = "Rejected"
      BY <1>2, <1>5, <2>3 DEF Returned, Outcomes, Exit, Ordered, Orders, Queries
    <3>2. CASE reply = "ACK" /\ exit' = "ok"
      <4>1. Status' = "Ok" /\ Carried = 1
        BY <1>1, <1>2, <1>5, <3>2 DEF Status, Carried, Calling
      <4>. QED
        BY <2>1, <4>1 DEF CallStep
    <3>3. CASE reply = "NACK" /\ exit' = "Rejected"
      <4>1. Status' = "Rejected" /\ Carried = 0
        BY <1>1, <1>2, <1>5, <3>3 DEF Status, Carried, Calling
      <4>. QED
        BY <2>1, <4>1 DEF CallStep
    <3>. QED
      BY <3>1, <3>2, <3>3
  <2>. QED
    BY <1>5, <2>2, <2>3 DEF Exiting, NotFound, NotConnected, NotSubscribed, StreamLost,
       ReaderFailed, WatchFailed, Finish
<1>. QED
  BY <1>3, <1>4, <1>5

LEMMA NextCallStep ==
    ASSUME IInv, Next
    PROVE  CallStep
<1>. USE DEF input, client, control
<1>1. Calling /\ reply \in {"none", "ACK", "NACK"}
  BY DEF IInv, TypeOK
<1>2. CASE Config \/ Find \/ Connect \/ Subscribed \/ Forward \/ EndOfInput \/ ReceiveEvent
  <2>1. UNCHANGED <<cli, exit, call, reply>> /\ pc # "reply" /\ pc' # "reply"
    BY <1>2 DEF Config, Find, Connect, Subscribed, Forward, EndOfInput, ReceiveEvent, Joined
  <2>. QED
    BY <2>1 DEF CallStep, Status, Carried, Ordered
<1>3. CASE Request
  <2>1. /\ cli' = cli /\ call' = "asked" /\ pc' = "reply" /\ call = "none"
    BY <1>1, <1>3 DEF Request, Calling, BeforeCall
  <2>. QED
    BY <2>1 DEF CallStep, Status, Carried, Ordered
<1>4. CASE Accepted
  <2>1. /\ UNCHANGED <<cli, call, reply>> /\ Installs /\ pc = "reply" /\ pc' # "reply"
        /\ reply = "ACK"
    BY <1>1, <1>4 DEF Accepted, Outcomes, Queries
  <2>2. Ordered /\ call = "carried"
    BY <1>1, <2>1 DEF Calling, Ordered
  <2>3. Status = "Pending" /\ Status' = "Ok" /\ Carried = 1 /\ Carried' = 1
    BY <2>1, <2>2 DEF Status, Carried, Ordered
  <2>. QED
    BY <2>3 DEF CallStep
<1>. QED
  BY <1>2, <1>3, <1>4, DaemonCallStep, ExitCallStep DEF Next, Exiting, DaemonStep

\* The step of the one call is a step of ControlCalls.
LEMMA PromiseStep ==
    ASSUME CallStep
    PROVE  [Promise!Next]_<<Shown, Done>>
<1>1. Promise!Calls = {1}
  BY DEF Promise!Calls
<1>2. Shown[1] = Status /\ Done[1] = Carried
  BY DEF Shown, Done
<1>3. Shown' = [Shown EXCEPT ![1] = Status'] /\ Done' = [Done EXCEPT ![1] = Carried']
  BY DEF Shown, Done
<1>4. Status' = Status => Shown' = Shown
  BY DEF Shown
<1>5. Carried' = Carried => Done' = Done
  BY DEF Done
<1>6. CASE Status = "Unused" /\ Status' = "Pending" /\ UNCHANGED Carried
  <2>1. /\ Shown[1] = "Unused" /\ \A j \in {1} : Shown[j] # "Pending"
        /\ Shown' = [Shown EXCEPT ![1] = "Pending"] /\ Done' = Done
    BY <1>2, <1>3, <1>5, <1>6
  <2>2. Promise!Call(1)
    BY <1>1, <2>1 DEF Promise!Call, Shown, Done, Carried
  <2>. QED
    BY <1>1, <2>2 DEF Promise!Next
<1>7. CASE Status = "Pending" /\ Status' = Status /\ Carried = 0 /\ Carried' = 1
  <2>1. /\ Shown[1] = "Pending" /\ Done[1] = 0
        /\ Done' = [Done EXCEPT ![1] = 1] /\ Shown' = Shown
    BY <1>2, <1>3, <1>4, <1>7
  <2>2. Promise!CarryOut(1)
    BY <2>1 DEF Promise!CarryOut, Shown, Done, Carried
  <2>. QED
    BY <1>1, <2>2 DEF Promise!Next
<1>8. CASE /\ Status = "Pending" /\ UNCHANGED Carried
           /\ Status' \in {"Ok", "Rejected", "Connection"}
           /\ Status' = "Ok" => Carried = 1
           /\ Status' = "Rejected" => Carried = 0
  <2>1. /\ Shown[1] = "Pending" /\ Done[1] = Carried /\ Done' = Done
        /\ Shown' = [Shown EXCEPT ![1] = Status']
    BY <1>2, <1>3, <1>5, <1>8
  <2>2. Promise!Return(1)
    BY <1>8, <2>1 DEF Promise!Return, Shown, Done, Carried
  <2>. QED
    BY <1>1, <2>2 DEF Promise!Next
<1>9. CASE UNCHANGED <<Status, Carried>>
  BY <1>4, <1>5, <1>9
<1>. QED
  BY <1>6, <1>7, <1>8, <1>9 DEF CallStep

\* The one call of an order or of install implements ControlCalls, its liveness apart: it is
\* carried out at most once and only while run() waits for it, and what run() makes of
\* it tells whether it was.
THEOREM CallKept == Spec => Promise!Spec
<1>1. Init => Promise!Init
  <2>. SUFFICES ASSUME Init PROVE Promise!Init
    OBVIOUS
  <2>1. call = "none"
    BY DEF Init
  <2>2. Status = "Unused" /\ call # "carried" /\ Promise!Calls = {1}
    BY <2>1 DEF Status, Promise!Calls
  <2>. QED
    BY <2>2 DEF Promise!Init
<1>2. IInv /\ [Next]_vars => [Promise!Next]_<<Shown, Done>>
  <2>. SUFFICES ASSUME IInv, [Next]_vars
                PROVE  [Promise!Next]_<<Shown, Done>>
    OBVIOUS
  <2>1. CASE UNCHANGED vars
    BY <2>1 DEF vars, input, client, control, Shown, Done, Status, Carried, Ordered
  <2>2. CASE Next
    BY <2>2, NextCallStep, PromiseStep
  <2>. QED
    BY <2>1, <2>2
<1>3. IInv /\ [Next]_vars =>
         [Promise!Next]_<<[i \in {1} |-> Status],
                          [i \in {1} |-> IF Ordered /\ call = "carried" THEN 1 ELSE 0]>>
  BY <1>2 DEF Shown, Done, Carried
<1>. QED
  BY <1>1, <1>3, InvariantHolds, PTL DEF Spec, Promise!Spec
=============================================================================
