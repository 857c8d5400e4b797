# A TLA+ model of swupdate-ipc

`swupdate-ipc` is an asynchronous Rust client for the two Unix sockets of the
SWUpdate daemon, with a command line tool on top. The crate is small; what is
hard about it is the protocol: two byte streams without message identifiers,
one of which changes its meaning in the middle, futures that may be dropped at
any `await`, a daemon that may be slow, gone, or another version, and C
structures that are declared twice. These modules model that, TLC checks them on
small instances, and TLAPS proves the safety properties for all of them: those of the
three state machines (control client, progress client, command line tool), and
those of the two wire formats.

## The system

| component | source | state it keeps | operations |
|---|---|---|---|
| control client | `control.rs` | the control stream | 12 request methods, `connect`, `reconnect`, drop |
| installation handle | `control.rs` | a `&mut` borrow of the client | `stream`, `stream_file`, `progress`, drop |
| progress client | `progress.rs` | the progress stream, the detected message layout | `connect`, `receive`, `receive_or_reconnect`, drop |
| command line tool | `bin/swupdate-client.rs` | one process, one or two connections, one or two tasks, its exit status | `install`, `progress`, and one subcommand per request method |
| wire format | `wire.rs`, `types.rs` | none | structures, enumerators, C strings, `InstallRequest::to_raw`, `ProgressEvent::from_raw` |
| layout detection | `progress.rs` | the layout found | `parse_swupdate_version`, `detect_layout` |
| socket configuration | `socket.rs` | two paths, a timeout | path resolution from the environment, the setters, `connect_socket` |
| errors, crate root | `error.rs`, `lib.rs` | none | |
| the daemon | not in the repository, except for the vendored headers under `tests/c_compat` | its end of each stream, the installation in progress | accept, refuse, read the image, broadcast, hang up |

How they interact. A request method writes one `ipc_message` on the control
stream and reads one back. `install()` returns a handle that borrows the client;
from then on the same stream carries the raw image. `progress()` opens a second
connection, on which the daemon first acknowledges and then broadcasts progress
messages about every installation, also those of other clients. The tool runs
streaming and watching as two futures of one `try_join!`. Nothing is shared
between tasks except through the daemon; client and daemon agree on the place of
the sockets only in that both resolve the same environment variables.

What is hard, and which property watches it (`hazards` in `PROJECT.json` has the
full list, with lines):

* replies are paired with requests by order and byte count alone, and a dropped
  future can stop any write or read half-way: `OwnReply`, `AckIsTruthful`, `Outcome`;
* a request left in a socket buffer before a reconnect: `NoLateExecution`, `Outcome`,
  `ImplementsCalls`;
* the stream turns into an image pipe, and back only when the image is complete:
  `ImageIntact`, `NoCommandInImage`, `InstallerReleased`;
* buffers that fill up while the other side waits: `NoStandoff` (of both clients),
  `CallReturns`, `CommandEnds`;
* paths resolved once, a file looked for and then connected to, while the daemon
  starts, binds one socket after the other, or stops and leaves its files behind:
  `FindsDaemon`, `CommandEnds`, `StatusIsTrue`;
* a command that fails after the daemon has accepted its installation:
  `InstallerFreed`, `StatusIsTrue`;
* a reconnect that installs the new stream before its handshake, a timeout that
  races a late acknowledgement, a layout detected from the installed binary and
  not from the running daemon: `SoundEvents`, `VersionsAgree`,
  `TerminalIsGenuine`, `HandshakeEnds`, `ReceiveEnds`, `NothingOwed`;
* events lost on a reconnect: `NothingDiscarded`, `ImplementsFeed`;
* two sockets whose messages are not ordered with each other: `ExitMeansEnded`;
* a layout chosen by comparing year and month of a version text: `LayoutDetected`;
* structures declared in Rust and in C, strings that do not fit, numbers of four and
  of eight bytes, a number from the wire that cuts a text: `ArgumentsArrive`,
  `AnswerArrives`, `LengthArrives`, `EventsDecoded`, `FirstKindSurvives`.

Two hazards have no property, and say so there: a reader that is ahead of its stream
after an error or a dropped future (`stream()` promises nothing of it), and
`swupdate --version`, which `detect_layout()` waits for without a timeout.

## Modules

    ControlCalls         abstract: a synchronous call carried out at most once
      ^ implemented by, as is the one call of SwupdateClient
    ControlClient        control.rs, byte by byte (cells), with the daemon's end
    ControlInvariant     IInv: what the current stream holds
    ControlOutcome       Outcome: what all the connections hold, and what was done
    ControlClientProofs     theorems: types
    ControlInvariantProofs  theorems: IInv is inductive, replies are paired,
                            nobody waits in vain
    ControlOutcomeProofs    theorems: Outcome is inductive, the refinement
    MCControlClient      instances for TLC

    EventFeed            abstract: a subscription delivers in order, at most once
      ^ implemented by
    ProgressClient       progress.rs, with a daemon that stops and is upgraded
    ProgressInvariant    IInv: what an acknowledged stream holds
    ProgressInvariantProofs  theorems: types, events, the refinement
    MCProgressClient     instances

    SocketConfig         socket.rs: where client and daemon put and look for sockets
      ^ extended by
    SwupdateClient       run() of the tool over both sockets
    SwupdateInvariant    IInv: paths, call, installation, tasks and messages agree
    SwupdateInvariantProofs  theorems: types, exit statuses, finding the daemon,
                            nobody waits in vain, the one call
    MCSwupdateClient     deployments

    Wire                 layout of structures, integers, strings, enumerators
      ^ extended by
    ControlWire          one call as bytes, Rust on one side and C on the other
    ProgressWire         progress messages as bytes, in two layouts
    WireProofs           lemmas: fields, numbers and strings in a byte array
    ControlWireProofs    theorems: requests and answers arrive
    ProgressWireProofs   theorems: events, layouts
    MCControlWire, MCProgressWire

### ControlClient

A stream is a sequence of cells, `MsgCells` to a message, so that `write_all`
and `read_exact` can stop in the middle. A request cell carries the call it
belongs to, which the program's bytes do not: it is there for the properties, and
the client never looks at it. `pc` is the `await` the caller's task is at:

| `pc` | in the code |
|---|---|
| `writing` | `write_all` of `send_and_receive` |
| `reading` | `read_exact` of `send_and_receive` |
| `fetching`, `forwarding` | `reader.read` and `write_all` of `stream` |
| `connecting` | `connect_ctrl` of `reconnect` |
| `idle`, `dropped` | none |

`Request` is the entry of each of the twelve methods, `ReadReply` with
`Returned` their exit. `Cancel` drops a pending future, `DropInstallation` and
`DropClient` the two objects. Methods differ in what they make of the reply:
`send_and_expect_ack` looks at its type, the four queries do not, and two of them
end in `Error::Protocol` when the reply has a status or a state without a name, as any
reply may. `Responses` says what type a reply may spell when it is spliced from two
others.

`Habits` names what a caller may do beyond straight-line use, and the history
variable `clean` whether one of these habits has disturbed the current stream.
The safety properties are about undisturbed streams; what happens on the others
is in the model, and runs keep going on them.

Of the daemon the model has what `control.rs` relies on: it reads whole messages
in order, carries out or refuses each, replies once to each, installs one image
at a time, and may close a connection at any time (a crash, a failed
installation). Its definitions are marked external in `map`.

### ProgressClient

A stream is a sequence of 8-byte cells: the acknowledgement is one, a packed
message `FrameCells`, an unpacked one a cell more, so that the wrong layout
falls out of step as it does with 2408 and 2416 bytes. `connect()` detects a
layout (that of the *installed* binary, or `packed` when the version cannot be
told), for whose output it waits (`Detected`), and keeps it through reconnects; `DaemonStop`, `Upgrade` and
`DaemonStart` replace the daemon meanwhile. `receive_or_reconnect` is one method
with its reconnect inside (`retried`). The history variables `shaken` and
`aligned` say whether the stream is *sound*: handshake done, no message dropped
half read, layout right. `log` has every event returned, `delivered` the messages
behind those of sound streams, which is what `EventFeed` sees.

### SocketConfig

`resolve_socket_path` with its two variables and the directory it looks for, at
the two moments at which `SocketConfig::default()` calls it, the two options that
replace a path, and the two steps of `connect_socket` (`exists`, then connecting).
Directories are members of a small set; a *situation* is the environment of the
client, its options, and the environment of the daemon. The daemon (external)
resolves the same variables, binds its sockets one by one (`Bind`), and may stop
with or without removing its files (`Stop`); a socket file may also be there from an
earlier daemon. The history variable `steady` says that none of this has happened
since the client began.

### SwupdateClient

`run()` and `main()` for every subcommand. `pc` is where `run()` is:

| `pc` | in the code |
|---|---|
| `config` | `build_config`, once per socket |
| `find`, `connect` | `connect_socket`, on the control or the progress socket |
| `request`, `reply` | the one method call |
| `handshake` | `handshake` of `ProgressClient::connect` |
| `join` | `try_join!` of the two tasks, or the loop of `progress` |
| `exit` | `main()` has returned |

`detect_layout` is no step here, and assumed to end: in `ProgressClient` it is one.
A stream task whose file cannot be opened ends with `Protocol` before its first chunk,
one whose input fails with `Connection` at any chunk (`ReaderFailed`).

Subcommands fall in four kinds: orders, which expect an ACK, queries, which take
any reply, `install` with or without `--progress`, and `progress`. `exit` is `ok` or
the variant of `Error` that `main()` exits with. Each path resolution, `exists`, connect,
request, reply, chunk and event is a step, and every one of them may be followed
by any step of the daemon.

A message is atomic here; what matters is the order across the two sockets. The
progress connection holds `QueueLength` messages and the daemon waits for room in
it, which is the worst case for a deadlock with the image stream. The daemon also
runs updates for other clients, refuses, fails an installation at any point, drops
either connection, and stops.

### Wire, ControlWire, ProgressWire

Real structures with the real order, sizes and alignments of their fields, except
that the character arrays have the lengths of the constant `Sizes`, which the
runs scale down to three to six bytes (`SizesAsserted` evaluates 2408 and 2416
with the real lengths). The Rust and the C declarations are separate definitions:
the repository's own tests compare field offsets only for `progress_msg` and
`swupdate_request`, not for the other variants of the union. Strings are byte
sequences, with a two-byte character that truncation can cut. A message is written
(`Write`) as the code does it, one field after the other into an array of zeroes.
The numbers of a progress message are their bytes, eight of `dwl_bytes` and four of each
other, of any value; a u32 becomes a number only where the code compares it, the status
with the enumerators and `infolen` with the length of the array, and there everything above
`MaxNumber`, which is `i32::MAX`, is the same (`from_u32`). The numbers of a control message are those
of an i32, an image length is the eight bytes of its u64.

`ProgressWire` begins with the words `swupdate --version` prints:
`parse_swupdate_version` takes the first that is a `v` and two parts between points, and `detect_layout`
compares it with 2025.12. A part is a number or `NoNumber` (as in `v2025.05-rc1`).

What the two modules assume of their constants, and why:

* `PaddingAssumption`: `RawProgressMsgUnpacked` is as long as C's `progress_msg`. The
  crate asserts its sizes at compile time (`wire.rs:200`); `SizesAsserted` evaluates
  both sides at the real lengths. With other lengths of the arrays the padding written out
  would be wrong, so the runs choose lengths for which it is right.
* `MessagesAssumption`, `InputsAssumption`: the daemon's strings are C strings, without
  a zero inside; of the caller's texts nothing is assumed, they may have one.
* `ReleasesAssumption`: a release prints its year and month (1 to 12) in the first word like
  a version, and is packed from 2025.12 on.
* `UnionAssumption`: every variant fits into the union, whose length is that of the
  install request with its length and buffer (the tests in `wire.rs:477` compare it with
  the others).

`ControlWire` has no type invariant: its variables hold byte strings and
records of several shapes, and every property reads them anyway. `TypeOK` of
`ProgressWire` is a part of its `IInv`.

## Runs

| run | instance | shows |
|---|---|---|
| `control_safety` | 4 commands, 3 calls, 2 connections, 2 cells per message and image, 3 in the socket, all habits; 3.7 million states | `TypeOK`, `OwnReply`, `AckIsTruthful`, `ImageIntact`, `NoStandoff`, `NoLateExecution`, and the inductive invariants `IInv` and `Outcome` |
| `control_liveness` | 2 commands, otherwise the same, 2 cells in the socket | refinement of `ControlCalls` with its fairness, `CallReturns`, `InstallerReleased` |
| `control_nack` | a caller without habits | a query turns a NACK into something else than `Error::Rejected` |
| `control_abandoned` | a caller that drops installations | the next command is read as image data |
| `progress_safety` | 4 versions of the daemon (current, previous, another major version, one that never acknowledges), 2 events, 2 connections, dropped futures; 3.0 million states | `TypeOK`, `SoundEvents`, `VersionsAgree`, `NothingOwed`, `NothingDiscarded`, refinement of `EventFeed`, and the inductive invariant `IInv` |
| `progress_liveness` | 2 versions, 2 events, 2 connections | `HandshakeEnds`, `ReceiveEnds` |
| `progress_terminal` | 1 version, no dropped future | a late acknowledgement decoded as a failed update |
| `client_install` | every subcommand, 5 deployments, images of 3 chunks, buffers of 1, 2 updates of others, 1 start of the daemon; 0.40 million states | `TypeOK`, `ExitMeansEnded`, `StatusIsTrue`, `FindsDaemon`, `NoStandoff`, `CommandEnds`, `InstallerFreed`, refinement of `ControlCalls` with its fairness, and the inductive invariant `IInv` |
| `client_failed_update` | one deployment, a daemon that does not start again | exit status 0 after a failed update |
| `wire_control` | 12 methods, 7 strings in each string argument, 23 numbers in a timeout and in each number of an answer; 0.23 million states | `ArgumentsArrive`, `AnswerArrives` |
| `wire_length` | a 4-byte `size_t` | an image of 4 GiB announced with length 0 |
| `wire_progress` | 6 builds of swupdate (4 releases, a release candidate, one that does not run), 2 layouts of the running daemon, 16 messages, 3 on a stream | `EventsDecoded`, `FirstKindSurvives`, `LayoutDetected`, and the inductive invariant `IInv` |

Why the bounds are enough. Two cells are the least for which an operation stops
in the middle; three cells in a socket hold one message and half of the next, so
that splices arise. Three calls and two connections make the shortest stories
the properties are about: a disturbed call, a call that trips over it, and one
after a reconnect. Two events and two connections show an event before and one
after a reconnect; one of them partly read shows the shift of the layouts. Buffers
of one element are the worst case of a deadlock, and larger ones only remove
waiting. Three chunks let the stream task, the socket and the installer each hold
a different one. The five deployments are the cases of `resolve_socket_path` and the
ways in which client and daemon may differ: no variables, a service and a shell
command, the same two variables on both sides, a `TMPDIR` of the client's own, and
the option that makes up for it on one socket only. One start of the daemon is
enough for a file left behind to find a listener again. `MaxCalls`, `MaxConns`,
`MaxEvents`, `MaxOthers`, `MaxStarts` and `MaxMessages` are the only bounds that cut
behaviours off.

Every configuration has `CHECK_DEADLOCK FALSE`: the systems really stop, when the
client is dropped or the process exits, when a connection is gone and the bound
on calls is reached, or when the one call of `ControlWire` is over.

The five runs that end in a violation state what a comment of the repository says;
`findings` in `PROJECT.json` quotes it. Remarks that no run is spent on:
`swupdate-client install -` opens a file of the name `-`, where the help of the
option promises standard input (`swupdate-client.rs:33`, `:269`), and the README's
`confirm_update` uses `UpdateState::Start` and `UpdateState::Idle`, which do not
exist (`types.rs:83-100`); a comment in `lib.rs:63` says that `ProgressClient` cannot be
constructed on its own, but its `connect` is public; and `Error::Timeout` is
documented as "Timeout waiting for response" (`error.rs:25`), but a reply on the control
socket is awaited without one: only connecting and the progress handshake time out.

## Fairness

* Steps of the client at a socket that is ready (`ClientIO`, `ReadFrame`,
  `Forward`...) are weakly fair: a runtime polls a task whose socket is ready. So
  are the handshake timer and `connect_socket`, which ends by its own timeout.
* `swupdate --version` is awaited without a timeout, and nothing makes it end in
  `ProgressClient` (`Detected` is not fair): `HandshakeEnds` is of what comes behind it.
  `client_install` assumes that it ends.
* Nothing is assumed of the caller (it may stop calling), of the image reader, or
  of habits. In `SwupdateClient` the input is part of the program, and reading
  it is fair.
* Of the daemon, `control_liveness` assumes that it reads a complete request and
  answers, refuses or hangs up, reads the image and notices the end of a stream.
  Without the first, no synchronous call can return. `ProgressClient` assumes
  nothing of it: that is what its timeout is for. `client_install` assumes that the
  daemon answers a request, begins an installation it has accepted, reads the image
  and notices the end of a stream, and ends an installation that has its whole
  image. Nothing makes it start, or acknowledge a subscription: `run()` then ends by
  `InvalidPath`, `Connection` or `Timeout`.
* `control.rs` has no timeout of its own on a reply, which is why `CallReturns`
  needs the daemon's fairness.

## Proofs

Eight modules hold theorems and lemmas: five are about the three state machines, for any
commands, sizes, deployments, versions, bounds and habits, three about the wire,
for any lengths of the character arrays, any texts, any numbers and any messages. All theorems rest on
the assumptions on the constants alone (`ConstantsAssumption` of each state machine,
`SituationsAssumption` of `SocketConfig`, those of the wire modules listed above). TLC checks
each property first, on the instances above. Every invariant of every passing run is
a theorem.

| module | proves |
|---|---|
| `ControlClientProofs` | `TypeOK` |
| `ControlInvariantProofs` | `IInv`, `OwnReply`, `ImageIntact`, `NoStandoff` |
| `ControlOutcomeProofs` | `Outcome`, `AckIsTruthful`, `NoLateExecution`, the refinement of `ControlCalls` without its fairness |
| `ProgressInvariantProofs` | `IInv`, `TypeOK`, `SoundEvents`, `VersionsAgree`, `NothingOwed`, `NothingDiscarded`, the refinement of `EventFeed` |
| `SwupdateInvariantProofs` | `IInv`, `TypeOK`, `ExitMeansEnded`, `StatusIsTrue`, `FindsDaemon`, `NoStandoff`, the refinement of `ControlCalls` without its fairness |
| `ControlWireProofs` | `ArgumentsArrive`, `AnswerArrives` |
| `ProgressWireProofs` | `IInv`, `EventsDecoded`, `FirstKindSurvives`, `LayoutDetected` |
| `WireProofs` | the lemmas these two rest on |

### The control client

`TypeOK` is inductive as it stands. There is one lemma per group of actions: the
request and image writes (bounded by the socket), a reply that the daemon appends, a
reply that is consumed, and the return of a method, which needs that every `Returned`
is a result whatever the bytes spell (`ReturnedTypeOK`). The part that is not
obvious is that a partly read message never exceeds `MsgCells` and that `n` is a
call whenever a method is pending.

`OwnReply` and `ImageIntact` are not inductive: that a call reads its own reply
depends on what is still in the two directions of the stream, and on whether the
daemon is reading commands or an image. `IInv` says so cell by cell:

* `Upstream`: image data that the daemon has not consumed (`Backlog`), then the
  written part of the pending request (`Outstanding`), nothing else. It makes the
  next message the daemon takes the pending request.
* `Downstream`: nothing, or the rest of one reply to the pending request. It makes
  the message a method completes its own.
* `Installing`: the length taken by the installer, the backlog and what the handle
  has forwarded add up, so an installer never waits while a command is written.
* `Streaming`: the reader's place agrees with what was forwarded.
* `Between`, `Unopened`, `Closed`: facts of disturbed streams too; they are what a
  reconnect needs to start clean.

The first four hold while `clean`. The proof has a lemma per action that can
disturb them, one for all client steps that touch neither direction (`NextQuiet`),
and one for the daemon's steps on other connections (`FrameCleanly`). `NextQuiet`
uses that nothing is half written on a stream that is half shut down (in `Between`):
otherwise a `ConnectionLost` would leave part of a request behind on a stream still
`clean`.

`NoStandoff` is the part of `CallReturns` and `InstallerReleased` that can be proved:
of two sides that wait for each other neither has a step, and no fairness helps. It
spells out the conditions of the steps, for `ENABLED` is out of the provers' reach. It
follows from `IInv`: a full socket holds more than the part of a request that
is written, so a writer that is held up has image data ahead of it, and the installer
still reads (`WriterGoesOn`); a reader without a reply has its whole request in the
socket, behind image data or in front of the daemon (`ReaderGoesOn`). Both use
that a message fits the socket (`ConstantsAssumption`). That each step of the daemon
brings the end closer, so that the call returns, is what TLC checks with fairness.

`IInv` is about the current stream. What a call returned must also stay true, and
that depends on what is left in the sockets of connections that were replaced,
where the daemon is still reading. `Outcome` says what all of them hold, whether or
not the streams are disturbed:

* `Pending`: exactly the current call is pending, and only while the caller awaits.
* `Leftovers`: a request cell in any socket is of the pending call, in the current
  socket and no further than it is written, or of a call that is not clean. It makes
  `NoLateExecution` hold: nothing of a clean call that has returned can be carried out.
* `Once`: a request ends with its last cell, which is in at most one place, and
  while it is there the request has not been carried out. Without it a request
  spliced from two connections might be carried out twice.
* `Told`: an answer under way, or partly read, says what was done with the pending
  request, and before there is one nothing was.
* `Settled`: so does what the call returned.

A client step returns a call (`ReturnStep`), begins one (`BeginStep`), writes a cell,
or leaves the calls alone (`StillStep`); a daemon step takes cells off the front of
a socket (`ShrinkStep`), with what it answers in `AnswerTold`. `IInv` gives `ReturnStep`
what it needs: a call returns on a clean stream only when nothing of it is
`Outstanding` (`NothingLeft`). `CallSteps` sorts all steps by what they make of the
calls (`Starts`, `Ends`, `CarriesOut` or nothing), which is one case each for
`NothingExecutedLate` and for the refinement `CallsKept`: there `Starts` is `Call`,
`CarriesOut` is `CarryOut`, `Ends` is `Return`, and every one of them is a stutter for
a query, for the image, or for a call that is `Undefined`.

### The progress client

`IInv` of `ProgressInvariant` says what an acknowledged stream holds:

* `Streaming`: from its first cell (from its second while the acknowledgement is
  ahead) the stream carries whole messages, in the order of their broadcast, each
  the successor of the one before, up to the last broadcast while it is open; they
  are later than every event returned (`Ordered`, `Later`).
* `InStep`: on a sound stream the cells already read are the beginning of one
  message, and the stream goes on with its next cell. This is what goes wrong with the
  other layout, or after a dropped future.
* `Latest`: the events of this connection end where the stream begins, which makes
  the next event the next message, without a gap.
* `Broadcast`, `Resting`: nothing on the stream was not broadcast, and nothing is left
  of one call, or of one connection, when the next begins.

A step either leaves stream and events alone (`QuietStep`), or is part of a connection
that is not acknowledged (`UnshakenStep`), acknowledges it (`AcknowledgedStep`),
broadcasts (`BroadcastStep`), or reads cells: part of a message (`PartRead`) or its end
(`WholeRead`), where `SoundMessage` shows that what was read is one whole message.
`NothingOwed` is read off `InStep` and `Latest`: the safety part of `ReceiveEnds`.
`FeedStep` maps the latter to `Deliver` of `EventFeed`, a broadcast to `Publish`, and
everything else to a stutter.

### The command line tool

`IInv` of `SwupdateInvariant` relates the two sides:

* `Paths`: a daemon that has been there all the while is where its environment says,
  and the client has resolved what it looks for. `FindsDaemon` follows from it and the
  order of the variables, which both sides share.
* `Calling`: where `run()` is and what the daemon has done with the one request agree;
  an order never gets beyond its reply. `StatusIsTrue` needs it to say that a call
  that was refused, or never made, stays so.
* `Installing`: the installation exists exactly when the request was carried out,
  and its connection is closed when it has ended.
* `Tasks`: nothing is streamed before the subscription is acknowledged; a task that
  is done has reached its end.
* `Watching`: no terminal event is on the progress socket while our own installation
  runs, and once it has ended after a chunk was sent, the first terminal event there
  is its own (`Ends`). It is the reason for `ExitMeansEnded`: events of other clients'
  updates lie before our `Started` or behind our end.

* `Awaiting`: an installation that goes on has its connection; every chunk written is
  in the socket or in the installer; a call given up unanswered was on a
  connection that the daemon had closed; the progress connection of an exited client
  holds no broadcast up.

`Watching` has a lemma per kind of broadcast (`BusyBroadcast`, `EndBroadcast`,
`OtherBroadcast`) and one for the client's reading (`ReceiveWatching`).

`NoStandoff` (`TasksGoOn`) is the safety part of `CommandEnds` and `InstallerFreed`. If the stream
task is held up, the control socket is full and the installation goes on (`Awaiting`); the
daemon can then read, unless its last message has not been read, and in that case the
progress task is ready: it cannot have ended before the installation (`Watching`). If only the
progress task is left and has nothing to read, the whole image is written, and what the
installer has not taken is in the socket. With a truncated image that fails, which is why it
is left out.

`CallKept`: the one call of an order or of `install` implements `ControlCalls`, as the methods
of `ControlClient` do (`CallsKept`), so that the two models of the control connection, byte by byte
and message by message, keep one promise. `CallStep` sorts the steps by what they make of the call.
The daemon carries out only what `run()` still waits for (`StillWaited`), because a call is given
up unanswered only on a closed connection.

### The wire

`Offsets` and `Write` are recursive functions, and what they compute for every structure
is an induction over its fields. The library's induction theorems take an operator;
`InductionUpTo` and `RecursionUpTo` of `WireProofs` have the same of sets, from the
least-number principle (`LeastNatural`), which the library has for relations. On them rest:

* `FieldsApart`, `FieldWithin`: for any fields, sizes and alignments of C, the fields of a
  structure do not overlap and lie within it.
* `WriteBytes`, `FieldWritten`: what is written into a field is read back from it,
  zeroes follow it to the field's end, and all other bytes are as they were.
* `SignedRead`, `HoldsString`: an i32, negative or not, and a string without a zero
  inside are what they were.

`ProgressWireProofs` then shows that Rust and C agree. The packed declarations are the same
sequence of fields (`PackedAlike`). The padded ones are not: `UnpackedAlike` shows that
`_pad_align` is the gap that C leaves before the 64-bit `dwl_bytes`, and that every field after it is
at the place C gives it, whatever the lengths of the arrays. Then one message decodes to
what is meant (`MessageRead`), with every byte of its numbers (`NumberRead`), and `IInv` is inductive. Its parts:

* `InStep`: in the daemon's layout the bytes on the wire are the messages not yet received,
  each at its multiple of the length. `EventsDecoded` says nothing of the wire, so
  it needs this.
* `Fresh`: in either layout the first status is on a fresh stream where both layouts
  have it (`StatusPlace`). `FirstKindSurvives` needs it, because in the wrong layout nothing is
  known of the bytes behind it.

`FirstKindSurvives` also needs that *any* bytes decode to an event (`AnyMessage`), whose
kind is that of the status alone: an unknown status is an event too.

`ControlWireProofs` shows the same of the variants of the union (`UnionsAlike`,
`Variants`), that a method leaves the header alone (`HeaderKept`), and then for each method
that its arguments have fields (`ArgumentFields`) from which C reads them (`FieldFound`). `StringFound` is the
part that a test of a few strings does not settle: `write_cstr` copies one byte less than
the field is long, so a zero always remains, and C finds the text, up to a zero of its own, or the
beginning of it, and never the field behind. `InCourse`, the invariant, says that each
message is as its sender made it; requests and answers are then facts about one message
(`RequestReceived`, `ReplyReturned`).

The proof also corrected the model: with four bytes in a `size_t`, the field
`len` looked like a 32-bit number, so that two cases of `Encoded` overlapped. No run could show it, for
TLC takes the first case that holds; `IsNumber` now says what it means.

### Only model-checked

* Liveness (`CallReturns`, `InstallerReleased`, `HandshakeEnds`, `ReceiveEnds`,
  `CommandEnds`, `InstallerFreed`) and the fairness of the two `ImplementsCalls`, whose proofs
  need `ENABLED`. The two `NoStandoff` and `NothingOwed` are what of it is safety.
* What `from_utf8_lossy` makes of a string, a fold over its bytes: the proofs show that
  the string reaches it unchanged, and the runs what it becomes.
* `SizesAsserted`, the sizes at the real lengths of the arrays, which is one evaluation.
* The five disagreements with a comment, which are counterexamples.

## Not modelled

* Parsing of the command line and the conversion of its enumerated arguments, and
  everything that is printed or logged. `SwupdateClient` begins with the subcommand.
* Error texts and re-exports: the variants of `Error` are results and exit statuses.
* `RawNotifyData`, which no method uses.
* The test programs; the headers vendored with them are the C side of the wire modules.
* Sockets deliver in order and lose nothing, as Unix sockets do.
* Paths other than through the two variables, the two options and the two default
  directories; permissions of socket files are part of `NotConnected`.
* In `ProgressWire` the text of `swupdate --version` begins with its words, each with
  or without a `v` and the parts between its points as numbers or not.
* Big-endian machines, and the padding rules of ABIs that align a `u64` to four
  bytes.

## Plan

Done: `ControlClient` with its abstract specification, `ProgressClient` with its,
`SwupdateClient` with every subcommand and `SocketConfig`, the wire modules with the
version text, and the theorems above, which are all the safety properties that the
runs check.

Left, extending the model: several control clients on one daemon, whose installations
exclude one another (in `ControlClient` the connections of one caller do, in
`SwupdateClient` the updates of others are broadcasts only).

Left, proving more: that `SwupdateClient` uses its progress connection the way
`ProgressClient` describes it; of the control connection, `ControlCalls` says so.
