----------------------------- MODULE ControlWire -----------------------------
(***************************************************************************)
(* One call of ControlClient as bytes: what a method puts into the union of *)
(* an ipc_message, what the daemon's C code finds there, what the daemon    *)
(* puts into its reply and what the method makes of that.  The two ends     *)
(* declare the structures separately (wire.rs, network_ipc.h).              *)
(***************************************************************************)
EXTENDS Wire

CONSTANTS
    Texts,     \* strings a caller passes, as UTF-8
    CStrings,  \* strings the daemon puts into a reply
    Lengths,   \* image lengths a caller passes: u64, little-endian
    Codes      \* numbers: a timeout a caller passes, any number of a reply

ASSUME InputsAssumption ==
    /\ Texts \cup CStrings \cup Lengths \subseteq Seq(Byte)
    /\ \A len \in Lengths : Len(len) = 8
    /\ \A text \in CStrings : 0 \notin ToSet(text)
    /\ Codes \subseteq (-MaxNumber - 1)..MaxNumber

VARIABLES
    stage,    \* "called", "sent", "received", "answered", "returned"
    call,     \* the method and its arguments
    bytes,    \* the message on the socket
    view,     \* what the daemon found in the request
    answer,   \* what it puts into the reply
    result    \* what the method returns

vars == <<stage, call, bytes, view, answer, result>>

-----------------------------------------------------------------------------
(* The variants of the union in use, as wire.rs declares them ...            *)

Names(fields) == [i \in DOMAIN fields |-> Chars(fields[i], Sizes.name)]

RawSwupdateRequest ==
    <<Int32("apiversion"), Int32("source"), Int32("dry_run"), SizeT("len"),
      Chars("info", Sizes.info)>>
    \o Names(<<"software_set", "running_mode">>) \o <<Chars("disable_store_swu", 1)>>

RawMsgData ==
    [msg       |-> <<Chars("msg", Sizes.msg)>>,
     status    |-> <<Int32("current"), Int32("last_result"), Int32("error"),
                     Chars("desc", Sizes.text)>>,
     instmsg   |-> RawSwupdateRequest,
     procmsg   |-> <<Int32("source"), Int32("cmd"), Int32("timeout"), Int32("proclen")>>,
     aeskeymsg |-> <<Chars("key_ascii", Sizes.key), Chars("ivt_ascii", Sizes.iv)>>,
     versions  |-> Names(<<"minimum_version", "maximum_version", "current_version",
                           "update_type">>),
     revisions |-> Names(<<"boardname", "revision">>),
     vars      |-> Names(<<"varnamespace", "varname", "varvalue">>),
     dwl_url   |-> <<Chars("filename", Sizes.name), Chars("url", Sizes.url)>>]

\* ... and as network_ipc.h does.
swupdate_request ==
    <<Int32("apiversion"), Int32("source"), Int32("dry_run"), SizeT("len"),
      Chars("info", Sizes.info), Chars("software_set", Sizes.name),
      Chars("running_mode", Sizes.name), Chars("disable_store_swu", 1)>>

msgdata ==
    [msg       |-> <<Chars("msg", Sizes.msg)>>,
     status    |-> <<Int32("current"), Int32("last_result"), Int32("error"),
                     Chars("desc", Sizes.text)>>,
     instmsg   |-> swupdate_request,
     procmsg   |-> <<Int32("source"), Int32("cmd"), Int32("timeout"), Int32("proclen")>>,
     aeskeymsg |-> <<Chars("key_ascii", Sizes.key), Chars("ivt_ascii", Sizes.iv)>>,
     versions  |-> <<Chars("minimum_version", Sizes.name), Chars("maximum_version", Sizes.name),
                     Chars("current_version", Sizes.name), Chars("update_type", Sizes.name)>>,
     revisions |-> <<Chars("boardname", Sizes.name), Chars("revision", Sizes.name)>>,
     vars      |-> <<Chars("varnamespace", Sizes.name), Chars("varname", Sizes.name),
                     Chars("varvalue", Sizes.name)>>,
     dwl_url   |-> <<Chars("filename", Sizes.name), Chars("url", Sizes.url)>>]

\* The union follows magic and type, and is as long as its largest variant: the
\* install request, a length and a buffer.
DataAt == 8
MessageSize ==
    AlignUp(DataAt + SizeOf(RawSwupdateRequest) + 4 + Sizes.text, SizeBytes)

ASSUME UnionAssumption ==
    \A variant \in DOMAIN RawMsgData : DataAt + SizeOf(RawMsgData[variant]) <= MessageSize

-----------------------------------------------------------------------------
(* Methods.                                                                 *)

\* What a method writes, and into which variant.
RequestVariant ==
    [REQ_INSTALL |-> "instmsg", SET_AES_KEY |-> "aeskeymsg", SET_VERSIONS_RANGE |-> "versions",
     SET_SWUPDATE_VARS |-> "vars", GET_SWUPDATE_VARS |-> "vars",
     SWUPDATE_SUBPROCESS |-> "procmsg", SET_DELTA_URL |-> "dwl_url",
     SET_UPDATE_STATE |-> "msg", POST_UPDATE |-> "msg", GET_STATUS |-> "msg",
     GET_UPDATE_STATE |-> "msg", GET_HW_REVISION |-> "msg"]

\* Where a query finds its answer.
AnswerVariant ==
    [GET_STATUS |-> "status", GET_UPDATE_STATE |-> "msg",
     GET_HW_REVISION |-> "revisions", GET_SWUPDATE_VARS |-> "vars"]

Queries == DOMAIN AnswerVariant

TextArguments ==
    [SET_AES_KEY |-> {"key_ascii", "ivt_ascii"},
     SET_VERSIONS_RANGE |-> {"minimum_version", "maximum_version", "current_version",
                             "update_type"},
     SET_SWUPDATE_VARS |-> {"varnamespace", "varname", "varvalue"},
     GET_SWUPDATE_VARS |-> {"varnamespace", "varname"},
     SET_DELTA_URL |-> {"filename", "url"}]

\* InstallRequest: what its setters can leave in it.  A software set or a running
\* mode that is None is not written, which is what an empty one amounts to.
InstallRequests ==
    [source : ToSet(Sources), dry_run : ToSet(RunModes), len : Lengths,
     info : Texts, software_set : Texts, running_mode : Texts,
     disable_store_swu : {0, 1}]

Arguments(method) ==
    CASE method = "REQ_INSTALL" -> InstallRequests
      [] method = "SWUPDATE_SUBPROCESS" ->
            [source : ToSet(Sources), cmd : ToSet(SubprocessCmds), timeout : Codes]
      [] method = "SET_UPDATE_STATE" -> [msg : ToSet(UpdateStates)]
      [] method \in DOMAIN TextArguments -> [TextArguments[method] -> Texts]
      [] OTHER -> {<<>>}

\* to_wire, by the field it fills.
Number(name, value) ==
    CASE name = "source"  -> ToNumber(Sources, value)
      [] name = "dry_run" -> ToNumber(RunModes, value)
      [] name = "cmd"     -> ToNumber(SubprocessCmds, value)
      [] name = "msg"     -> UpdateStateToWire(value)
      [] OTHER            -> value

\* A 32-bit number, or the first character of a msg.  (A size_t is not one, whatever
\* its size.)
IsNumber(field) ==
    field.name = "msg" \/ (field.align = 4 /\ field.size = 4 /\ field.name # "len")

\* The bytes a field is given.  An image length is cut to a usize.
Encoded(field, value) ==
    CASE field.name = "len"               -> SubSeq(value, 1, SizeBytes)
      [] field.name = "disable_store_swu" -> <<value>>
      [] IsNumber(field)                  -> to_bytes(Number(field.name, value))
      [] OTHER                            -> write_cstr(field.size, value)

Store(message, struct, values) ==
    Write(message, DataAt, struct,
          [name \in DOMAIN values |-> Encoded(struct[Index(struct, name)], values[name])])

RawIpcMessage(type) ==
    Put(zeroed(MessageSize), 0, to_bytes(IPC_MAGIC) \o to_bytes(ToNumber(MsgTypes, type)))

\* apiversion is the one field a method sets by itself; every length is 0.
Given(method, args) ==
    [name \in DOMAIN args \cup (IF method = "REQ_INSTALL" THEN {"apiversion"} ELSE {}) |->
        IF name = "apiversion" THEN SWUPDATE_API_VERSION ELSE args[name]]

build(method, args) ==
    Store(RawIpcMessage(method), RawMsgData[RequestVariant[method]], Given(method, args))

\* A field of the union variant a method reads.
Text(message, struct, name) ==
    cstr_from_bytes(Field(message, DataAt, struct, name))
Number32(message, struct, name) ==
    from_i32(SubSeq(Field(message, DataAt, struct, name), 1, 4))

Ok(value) == [error |-> FALSE, value |-> value]
Protocol  == [error |-> TRUE, value |-> <<>>]

get_status(m) ==
    LET status == RawMsgData.status
        current == RecoveryStatus(Number32(m, status, "current"))
        last_result == RecoveryStatus(Number32(m, status, "last_result")) IN
    IF current = "None" \/ last_result = "None" THEN Protocol
    ELSE Ok([current |-> current, last_result |-> last_result,
             error |-> Number32(m, status, "error"), desc |-> Text(m, status, "desc")])

get_update_state(m) ==
    LET state == UpdateStateFromWire(Number32(m, RawMsgData.msg, "msg")) IN
    IF state = "None" THEN Protocol ELSE Ok([msg |-> state])

get_hw_revision(m) ==
    Ok([name \in {"boardname", "revision"} |-> Text(m, RawMsgData.revisions, name)])

get_swupdate_var(m) ==
    Ok([name \in {"varnamespace", "varname", "varvalue"} |-> Text(m, RawMsgData.vars, name)])

Decoded(method, m) ==
    CASE method = "GET_STATUS"        -> get_status(m)
      [] method = "GET_UPDATE_STATE"  -> get_update_state(m)
      [] method = "GET_HW_REVISION"   -> get_hw_revision(m)
      [] method = "GET_SWUPDATE_VARS" -> get_swupdate_var(m)

-----------------------------------------------------------------------------
(* The daemon.                                                              *)

\* C reads a string from its first byte up to a NUL, wherever that is.
Found(message, struct, field) ==
    LET raw == Field(message, DataAt, struct, field.name) IN
    CASE field.name = "len"               -> raw
      [] field.name = "disable_store_swu" -> raw[1]
      [] IsNumber(field)                  -> from_i32(SubSeq(raw, 1, 4))
      [] OTHER -> UpToNul(SubSeq(message, DataAt + OffsetOf(struct, field.name) + 1,
                                 Len(message)))

\* The request, if magic and type are right.
Read(message) ==
    LET type == MsgTypes[from_i32(SubSeq(message, 5, 8)) + 1]
        struct == msgdata[RequestVariant[type]] IN
    [type |-> type, magic |-> from_i32(SubSeq(message, 1, 4)),
     args |-> [name \in {struct[i].name : i \in DOMAIN struct} |->
                  Found(message, struct, struct[Index(struct, name)])]]

\* What it may put into a reply: its strings fit their fields.
Fitting == {text \in CStrings : Len(text) < Min({Sizes.name, Sizes.text})}

Answers(method) ==
    CASE method = "GET_STATUS" ->
            [current : Codes, last_result : Codes, error : Codes, desc : Fitting]
      [] method = "GET_UPDATE_STATE" -> [msg : Codes]
      [] method = "GET_HW_REVISION" -> [boardname : Fitting, revision : Fitting]
      [] method = "GET_SWUPDATE_VARS" ->
            [varnamespace : Fitting, varname : Fitting, varvalue : Fitting]

\* A reply to a query with these values.
Reply(method, values) ==
    LET struct == msgdata[AnswerVariant[method]] IN
    Write(RawIpcMessage("ACK"), DataAt, struct,
          [name \in DOMAIN values |->
              IF IsNumber(struct[Index(struct, name)]) THEN to_bytes(values[name])
              ELSE values[name]])

-----------------------------------------------------------------------------
Nothing == <<>>

Init ==
    /\ stage = "called"
    /\ \E method \in DOMAIN RequestVariant : \E args \in Arguments(method) :
          call = [method |-> method, args |-> args]
    /\ bytes = Nothing /\ view = Nothing /\ answer = Nothing /\ result = Nothing

Send ==
    /\ stage = "called"
    /\ bytes' = build(call.method, call.args) /\ stage' = "sent"
    /\ UNCHANGED <<call, view, answer, result>>

DaemonReceive ==
    /\ stage = "sent"
    /\ view' = Read(bytes) /\ bytes' = Nothing /\ stage' = "received"
    /\ UNCHANGED <<call, answer, result>>

DaemonAnswer ==
    /\ stage = "received" /\ call.method \in Queries
    /\ answer' \in Answers(call.method)
    /\ bytes' = Reply(call.method, answer') /\ stage' = "answered"
    /\ UNCHANGED <<call, view, result>>

Receive ==
    /\ stage = "answered"
    /\ result' = Decoded(call.method, bytes) /\ bytes' = Nothing /\ stage' = "returned"
    /\ UNCHANGED <<call, view, answer>>

Next == Send \/ DaemonReceive \/ DaemonAnswer \/ Receive

Spec == Init /\ [][Next]_vars

-----------------------------------------------------------------------------
(* Properties.                                                              *)

\* A text the field can hold arrives as it is; any other is cut, at a NUL of its
\* own or at the end of the field, and never runs into the next field.
Delivered(text, size, found) ==
    IF Len(text) < size /\ 0 \notin ToSet(text) THEN found = text
    ELSE IsPrefix(found, text) /\ Len(found) < size

\* What the daemon must find: each argument where the method put it.
Received(method, args, found) ==
    /\ found.magic = IPC_MAGIC /\ found.type = method
    /\ method = "REQ_INSTALL" => found.args.apiversion = SWUPDATE_API_VERSION
    /\ LET struct == msgdata[RequestVariant[method]] IN
       \A name \in DOMAIN args \ {"len"} :
          LET field == struct[Index(struct, name)] IN
          IF IsNumber(field) \/ name = "disable_store_swu"
          THEN found.args[name] = Number(name, args[name])
          ELSE Delivered(args[name], field.size, found.args[name])

\* The daemon's C code finds each argument of the method where the method put it,
\* whatever the other arguments are.  (Lengths beyond a size_t: LengthArrives.)
ArgumentsArrive ==
    stage \notin {"called", "sent"} => Received(call.method, call.args, view)

\* What a query must return.
Returned(method, values, returned) ==
    CASE method = "GET_STATUS" ->
            /\ returned.error = (\E f \in {"current", "last_result"} :
                                    values[f] \notin 0..(Len(RecoveryStatuses) - 1))
            /\ ~returned.error =>
                  /\ \A f \in {"current", "last_result"} :
                        ToNumber(RecoveryStatuses, returned.value[f]) = values[f]
                  /\ returned.value.error = values.error
                  /\ returned.value.desc = from_utf8_lossy(values.desc)
      [] method = "GET_UPDATE_STATE" ->
            /\ returned.error = (values.msg \notin 48..55)
            /\ ~returned.error => UpdateStateToWire(returned.value.msg) = values.msg
      [] OTHER ->
            /\ ~returned.error
            /\ returned.value = [f \in DOMAIN values |-> from_utf8_lossy(values[f])]

\* A query returns what the daemon answered, and Error::Protocol exactly when a
\* status in it has no name.  A string may only differ in a cut-off character.
AnswerArrives ==
    stage = "returned" => Returned(call.method, answer, result)

\* "Set the expected image length in bytes" (types.rs:346): the daemon is told the
\* length the caller gave, which is a u64 where the request has a size_t.
LengthArrives ==
    stage \notin {"called", "sent"} /\ call.method = "REQ_INSTALL" =>
        \A i \in 1..8 :
            call.args.len[i] = IF i <= SizeBytes THEN view.args.len[i] ELSE 0
=============================================================================
