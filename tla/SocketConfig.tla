---------------------------- MODULE SocketConfig ----------------------------
(***************************************************************************)
(* Where the client looks for the daemon's two sockets (src/src/socket.rs), *)
(* and where the daemon puts them.  The client resolves each path once, by   *)
(* its environment and the directories that exist at that moment, and later  *)
(* looks for the file before it connects; meanwhile the daemon may start,    *)
(* bind one socket after the other, stop and leave its socket files behind.  *)
(*                                                                         *)
(* SwupdateClient extends this module with the rest of the program.         *)
(***************************************************************************)
EXTENDS Naturals

CONSTANTS
    Situations,   \* environments and command line options there may be
    MaxStarts     \* bound: times the daemon starts

Sockets == {"ctrl", "progress"}   \* sockinstctrl, swupdateprog
EnvVars == {"RUNTIME_DIRECTORY", "TMPDIR"}
Dirs    == {"/run/swupdate", "/tmp", "elsewhere"}

Environments == [EnvVars -> Dirs \cup {"unset"}]

\* The environment of the client, the options --ctrl-socket and --progress-socket,
\* and the environment of the daemon.
Situation == [client : Environments, option : [Sockets -> Dirs \cup {"unset"}],
              daemon : Environments]

ASSUME SituationsAssumption ==
    /\ Situations \subseteq Situation
    /\ MaxStarts \in Nat

VARIABLES
    situation,
    config,     \* the client's SocketConfig: directory of each socket
    runDir,     \* /run/swupdate exists
    files,      \* socket files there are
    home,       \* directory the running daemon puts its sockets in
    bound,      \* sockets on which it listens
    starts,     \* times it has started
    steady      \* history: since the beginning it has listened on both sockets,
                \* and no directory has come or gone

world == <<runDir, files, home, bound, starts, steady>>

SocketTypeOK ==
    /\ situation \in Situations
    /\ config \in [Sockets -> Dirs \cup {"unset"}]
    /\ runDir \in BOOLEAN
    /\ files \subseteq Sockets \X Dirs
    /\ home \in Dirs \cup {"none"}
    /\ bound \subseteq Sockets
    /\ starts \in 0..MaxStarts
    /\ steady \in BOOLEAN

-----------------------------------------------------------------------------
(* The client.                                                              *)

TemporaryFirst(env, runDirExists) ==
    CASE env["TMPDIR"] # "unset" -> env["TMPDIR"]
      [] env["TMPDIR"] = "unset" /\ env["RUNTIME_DIRECTORY"] # "unset"
            -> env["RUNTIME_DIRECTORY"]
      [] OTHER -> IF runDirExists THEN "/run/swupdate" ELSE "/tmp"

resolve_socket_path(env, runDirExists) ==
    CASE env["RUNTIME_DIRECTORY"] # "unset" -> env["RUNTIME_DIRECTORY"]
      [] env["RUNTIME_DIRECTORY"] = "unset" /\ env["TMPDIR"] # "unset" -> env["TMPDIR"]
      [] OTHER -> IF runDirExists THEN "/run/swupdate" ELSE "/tmp"

\* SocketConfig::default() resolves the paths, at two moments; a path given on the
\* command line replaces what was found.
Resolved(socket) ==
    IF situation.option[socket] # "unset" THEN situation.option[socket]
    ELSE resolve_socket_path(situation.client, runDir)

build_config(socket) ==
    config' = [config EXCEPT ![socket] = Resolved(socket)]

exists(socket) == <<socket, config[socket]>> \in files
Listening(socket) == socket \in bound /\ home = config[socket]

-----------------------------------------------------------------------------
(* The daemon and its surroundings.                                         *)

DaemonPath ==
    LET env == situation.daemon
        given == {v \in EnvVars : env[v] # "unset"} IN
    IF given # {} THEN env[IF "RUNTIME_DIRECTORY" \in given THEN "RUNTIME_DIRECTORY" ELSE "TMPDIR"]
    ELSE IF runDir THEN "/run/swupdate" ELSE "/tmp"

\* The daemon is not running, with or without the files of an earlier one in /tmp,
\* or it has been listening on both sockets for long.
SocketInit ==
    /\ situation \in Situations
    /\ config = [socket \in Sockets |-> "unset"]
    /\ runDir \in BOOLEAN
    /\ \/ /\ home = "none" /\ bound = {} /\ starts = 0 /\ steady = FALSE
          /\ files \in {{}, Sockets \X {"/tmp"}}
       \/ /\ home = DaemonPath /\ (home = "/run/swupdate" => runDir)
          /\ bound = Sockets /\ starts = 0 /\ steady = TRUE
          /\ files = Sockets \X {home}

MakeRunDir ==
    /\ ~runDir
    /\ runDir' = TRUE /\ steady' = FALSE
    /\ UNCHANGED <<files, home, bound, starts>>

Start ==
    /\ home = "none" /\ starts < MaxStarts
    /\ DaemonPath = "/run/swupdate" => runDir
    /\ home' = DaemonPath /\ starts' = starts + 1
    /\ UNCHANGED <<runDir, files, bound, steady>>

Bind(socket) ==
    /\ home # "none" /\ socket \notin bound
    /\ bound' = bound \cup {socket} /\ files' = files \cup {<<socket, home>>}
    /\ UNCHANGED <<runDir, home, starts, steady>>

\* Its files stay behind, or are removed, and /run/swupdate with them.
Stop ==
    /\ home # "none"
    /\ home' = "none" /\ bound' = {} /\ steady' = FALSE
    /\ \/ UNCHANGED <<runDir, files>>
       \/ /\ files' = files \ (Sockets \X {home})
          /\ runDir' = (runDir /\ home # "/run/swupdate")
    /\ UNCHANGED starts
=============================================================================
