-------------------------- MODULE SwupdateInvariant --------------------------
(***************************************************************************)
(* The inductive invariant behind the safety properties of SwupdateClient.  *)
(***************************************************************************)
EXTENDS SwupdateClient

Installs == cli.cmd = "Install"

\* The paths: a daemon that has been there all the while is where its environment
\* says, and the client has resolved what it looks for.
Paths ==
    /\ steady => /\ home = DaemonPath /\ bound = Sockets /\ files = Sockets \X {home}
                 /\ home = "/run/swupdate" => runDir
    /\ \A s \in Sockets :
          steady /\ config[s] # "unset" => config[s] = Resolved(s)
    /\ pc # "config" => \A s \in Sockets : config[s] # "unset"
    /\ pc = "config" /\ socket = "progress" => config["ctrl"] # "unset"

\* The one call, and what may follow it.
BeforeCall ==
    pc \in {"config", "request"} \/ (pc \in {"find", "connect"} /\ socket = "ctrl")

Calling ==
    /\ pc = "exit" <=> exit # "none"
    /\ BeforeCall => call = "none"
    /\ call # "none" => ctrl # "none"
    /\ reply = "ACK" => call = "carried"
    /\ reply = "NACK" => call = "refused"
    /\ cli.cmd \in Orders => pc \notin {"handshake", "join"}
    /\ cli.cmd \in Orders /\ pc \in {"find", "connect"} => socket = "ctrl"

\* The installation, as the daemon sees it.
Installing ==
    /\ inst # "none" => call = "carried" /\ Installs
    /\ Installs /\ call = "carried" => inst # "none"
    /\ inst \in {"none", "accepted"} => taken = 0
    /\ inst = "reading" => taken < ImageCells
    /\ inst \in {"success", "failure"} => ctrl = "closed"

\* The two tasks: the image is streamed once the request is accepted and, with
\* --progress, the subscription acknowledged.
Tasks ==
    /\ sent <= supply
    /\ ~BeforeCall /\ pc \notin {"reply", "exit"} /\ Installs => reply = "ACK"
    /\ Installs /\ (prog # "none" \/ streaming # "off") => reply = "ACK"
    /\ Installs /\ cli.progress /\ streaming # "off" => prog \in {"acked", "closed"}
    /\ pc \notin {"join", "exit"} => streaming = "off" /\ watching = "off"
    /\ pc \notin {"handshake", "join", "exit"} => prog = "none"
    /\ streaming = "on" => Installs
    /\ sent > 0 => Installs /\ streaming # "off"
    /\ Installs /\ streaming = "done" => sent = supply
    /\ Installs /\ watching # "off" => reply = "ACK"
    /\ last # "none" => watching = "done"
    /\ watching = "done" /\ cli.progress => last # "none"
    /\ exit = "ok" /\ Installs => streaming = "done" /\ watching = "done"

\* The messages that wait for the progress task.
Ends(event) == event.own /\ event.kind = (IF inst = "success" THEN "Success" ELSE "Failed")

Watching ==
    /\ prog \in {"none", "pending"} => queue = <<>>
    /\ Installs /\ cli.progress /\ Busy =>
          /\ last = "none"
          /\ \A i \in DOMAIN queue : ~is_terminal(queue[i].kind)
    /\ Installs /\ cli.progress /\ sent > 0 /\ inst \in {"success", "failure"} =>
          /\ last # "none" => Ends([kind |-> last, own |-> lastOwn])
          /\ last = "none" /\ prog = "acked" =>
                \E i \in DOMAIN queue : is_terminal(queue[i].kind)
          /\ last = "none" =>
                \A i \in DOMAIN queue :
                    is_terminal(queue[i].kind) =>
                        Ends(queue[i]) \/ \E j \in 1..(i - 1) : is_terminal(queue[j].kind)

\* What one side relies on while it waits for the other: the connections that are
\* still open, and the chunks that are still between them.
Awaiting ==
    /\ Busy => ctrl = "open"
    /\ inst \notin {"success", "failure"} => sent = taken + unread
    /\ Ordered /\ pc = "exit" /\ call # "none" /\ reply = "none" => ctrl = "closed"
    /\ exit # "none" => prog \in {"none", "closed"}
    /\ Installs /\ ~cli.progress =>
          /\ prog = "none" /\ watching # "on"
          /\ pc \in {"find", "connect"} => socket = "ctrl"
    /\ pc = "join" => streaming # "off" /\ watching # "off"

\* Everything that SwupdateClient's safety properties rest on holds at every step:
\* what is in the progress socket, what the daemon does with the installation and
\* how far run() has come agree.
IInv ==
    /\ TypeOK
    /\ Paths /\ Calling /\ Installing /\ Tasks /\ Watching /\ Awaiting
    /\ StatusIsTrue /\ FindsDaemon
=============================================================================
