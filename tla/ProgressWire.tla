---------------------------- MODULE ProgressWire ----------------------------
(***************************************************************************)
(* A progress message as bytes: what the daemon's C code broadcasts, packed *)
(* or not, and the ProgressEvent the client makes of it in the layout it    *)
(* has detected, which may be the other one (progress.rs, types.rs).        *)
(***************************************************************************)
EXTENDS Wire

CONSTANTS
    Builds,        \* swupdate binaries: what --version prints, their layout, and
                   \* whether they are a release
    Messages,      \* what the daemon broadcasts, by field
    MaxMessages    \* bound: messages broadcast

Layouts == {"packed", "unpacked"}

VARIABLES
    compiled,   \* layout of the running daemon
    build,      \* the binary installed beside the client
    layout,     \* layout the client has detected
    sent,       \* history: messages broadcast
    wire,       \* bytes on their way
    events      \* history: what receive() returned

vars == <<compiled, build, layout, sent, wire, events>>

-----------------------------------------------------------------------------
(* The two structures on each side.                                         *)

Reordered(sizes) ==
    Packed(<<Int32("apiversion"), Int32("dwl_percent"), Int32("status"), Int64("dwl_bytes"),
             Int32("nsteps"), Int32("cur_step"), Int32("cur_percent"),
             Chars("cur_image", sizes.name), Chars("hnd_name", sizes.handler),
             Int32("source"), Int32("infolen"), Chars("info", sizes.text)>>)

RawProgressMsg(sizes) ==
    Packed(<<Int32("apiversion"), Int32("status"), Int32("dwl_percent"), Int64("dwl_bytes"),
             Int32("nsteps"), Int32("cur_step"), Int32("cur_percent"),
             Chars("cur_image", sizes.name), Chars("hnd_name", sizes.handler),
             Int32("source"), Int32("infolen"), Chars("info", sizes.text)>>)

\* The padding is spelled out.
RawProgressMsgUnpacked(sizes) ==
    <<Int32("apiversion"), Int32("status"), Int32("dwl_percent"), Int32("_pad_align"),
      Int64("dwl_bytes"), Int32("nsteps"), Int32("cur_step"), Int32("cur_percent"),
      Chars("cur_image", sizes.name), Chars("hnd_name", sizes.handler),
      Int32("source"), Int32("infolen"), Chars("info", sizes.text), Int32("_pad_tail")>>

\* progress_ipc.h, before and after __packed__.
progress_msg(sizes) ==
    <<Int32("apiversion"), Int32("status"), Int32("dwl_percent"), Int64("dwl_bytes"),
      Int32("nsteps"), Int32("cur_step"), Int32("cur_percent"),
      Chars("cur_image", sizes.name), Chars("hnd_name", sizes.handler),
      Int32("source"), Int32("infolen"), Chars("info", sizes.text)>>

RustStruct(l) ==
    IF l = "packed" THEN RawProgressMsg(Sizes) ELSE RawProgressMsgUnpacked(Sizes)
CStruct(l) == IF l = "packed" THEN Packed(progress_msg(Sizes)) ELSE progress_msg(Sizes)

\* PROGRESS_MSG_SIZE_PACKED, PROGRESS_MSG_SIZE_UNPACKED.
ASSUME SizesAsserted ==
    /\ SizeOf(RawProgressMsg(ActualSizes)) = 2408
    /\ SizeOf(RawProgressMsgUnpacked(ActualSizes)) = 2416
    /\ SizeOf(progress_msg(ActualSizes)) = 2416

Numbers == {"status", "dwl_percent", "dwl_bytes", "nsteps", "cur_step", "cur_percent",
            "infolen"}
Strings == {"cur_image", "hnd_name", "info"}

\* A number is its bytes: of a u64 or of a u32, of any value.
Width(name) == IF name = "dwl_bytes" THEN 8 ELSE 4

\* The padding written out is the padding C inserts, which the crate asserts of
\* the real lengths when it is compiled.
ASSUME PaddingAssumption ==
    SizeOf(RawProgressMsgUnpacked(Sizes)) = SizeOf(progress_msg(Sizes))

\* C strings, which have no NUL inside; info needs none behind it either, for
\* infolen says where it ends.
ASSUME MessagesAssumption ==
    /\ \A m \in Messages :
          /\ DOMAIN m = Numbers \cup Strings
          /\ \A f \in Numbers : m[f] \in Seq(Byte) /\ Len(m[f]) = Width(f)
          /\ \A f \in Strings : m[f] \in Seq(1..255)
          /\ Len(m.cur_image) < Sizes.name /\ Len(m.hnd_name) < Sizes.handler
          /\ Len(m.info) <= Sizes.text
    /\ Sizes.text <= MaxNumber
    /\ MaxMessages \in Nat

\* A word of the output: does it start with v, and its parts between the points as
\* numbers, or NoNumber for a part that is none, such as 05-rc1.
NoNumber == -1
Words == [v : BOOLEAN, parts : Seq(Nat \cup {NoNumber})]

ASSUME BuildsAssumption ==
    \A b \in Builds : b.words \in Seq(Words) /\ b.layout \in Layouts /\ b.released \in BOOLEAN

\* A version is a month, counted from the year 0.
Month(version) == 12 * version[1] + version[2]

\* A release prints its version, that of a month, before any other word like one,
\* and is packed if it is not older than 2025.12.
ASSUME ReleasesAssumption ==
    \A b \in Builds : b.released =>
        \E w \in DOMAIN b.words :
            LET parts == b.words[w].parts IN
            /\ b.words[w].v /\ Len(parts) > 1 /\ parts[1] \in Nat /\ parts[2] \in 1..12
            /\ \A u \in 1..(w - 1) : ~(b.words[u].v /\ Len(b.words[u].parts) > 1)
            /\ b.layout = IF Month(parts) >= Month(<<2025, 12>>) THEN "packed" ELSE "unpacked"

-----------------------------------------------------------------------------
(* The client: the layout.                                                  *)

\* The first word like vYYYY.MM, with or without more behind another point.
IsVersion(word) == word.v /\ Len(word.parts) > 1
parse_swupdate_version(words) ==
    LET versions == {i \in DOMAIN words : IsVersion(words[i])}
        version == SubSeq(words[Min(versions)].parts, 1, 2) IN
    IF versions = {} \/ NoNumber \in ToSet(version) THEN <<>> ELSE version

EachAtLeast(v, w) == v[1] >= w[1] /\ v[2] >= w[2]
AtLeast(v, w) == v[1] > w[1] \/ (v[1] = w[1] /\ v[2] >= w[2])

\* There are no words if the binary does not run.
detect_layout(words) ==
    LET version == parse_swupdate_version(words) IN
    IF version = <<>> \/ AtLeast(version, <<2025, 12>>) THEN "packed" ELSE "unpacked"

-----------------------------------------------------------------------------
(* The client: the messages.                                                *)

LowHalf(raw, struct, name) == SubSeq(Field(raw, 0, struct, name), 1, 4)
Load(raw, struct, name) == Field(raw, 0, struct, name)

\* The n of raw.info[..n].
info_len(raw, l) ==
    Min({from_u32(Load(raw, RustStruct(l), "infolen")), Len(Field(raw, 0, RustStruct(l), "info"))})

\* ProgressFields.
Fields(raw, l) ==
    LET bytes(name) == Field(raw, 0, RustStruct(l), name) IN
    [name \in Numbers \cup Strings |->
        CASE name \in Numbers -> Load(raw, RustStruct(l), name)
          [] name = "info"    -> cstr_from_bytes(SubSeq(bytes(name), 1, info_len(raw, l)))
          [] name \in Strings \ {"info"} -> cstr_from_bytes(bytes(name))]

from_fields(f) ==
    LET status == RecoveryStatus(from_u32(f.status)) IN
    CASE status = "Idle"     -> [kind |-> "Idle"]
      [] status = "Start"    -> [kind |-> "Started"]
      [] status = "Download" -> [kind |-> "Downloading", percent |-> f.dwl_percent,
                                 bytes_total |-> f.dwl_bytes]
      [] status \in {"Run", "Progress", "Subprocess"} ->
            [kind |-> "Installing", step |-> f.cur_step, total_steps |-> f.nsteps,
             percent |-> f.cur_percent, image |-> f.cur_image, handler |-> f.hnd_name]
      [] status \in {"Success", "Done"} -> [kind |-> "Success"]
      [] status = "Failure"  -> [kind |-> "Failed", info |-> f.info]
      [] status = "None"     -> [kind |-> "Failed", unknown |-> f.status]

\* What read_raw_packed and read_raw_unpacked read.
UnpackedLen(l) == SizeOf(RawProgressMsgUnpacked(Sizes))
ReadLen(l) == SizeOf(RustStruct(l))

\* from_raw, from_raw_unpacked.
FromRaw(raw, l) == from_fields(Fields(raw, l))

-----------------------------------------------------------------------------
Init ==
    /\ compiled \in Layouts /\ build \in Builds /\ layout = detect_layout(build.words)
    /\ sent = <<>> /\ wire = <<>> /\ events = <<>>

\* The bytes of a message, by field and in a layout.
Contents(m) ==
    [name \in {"apiversion"} \cup Numbers \cup Strings |->
        IF name = "apiversion" THEN to_bytes(PROGRESS_API_VERSION) ELSE m[name]]

Encoded(m, l) == Write(zeroed(SizeOf(CStruct(l))), 0, CStruct(l), Contents(m))

DaemonBroadcast ==
    /\ Len(sent) < MaxMessages
    /\ \E m \in Messages : sent' = Append(sent, m) /\ wire' = wire \o Encoded(m, compiled)
    /\ UNCHANGED <<compiled, build, layout, events>>

\* read_exact of a message, then the conversion.
receive ==
    /\ LET size == ReadLen(layout) IN
       /\ Len(wire) >= size
       /\ events' = Append(events, FromRaw(SubSeq(wire, 1, size), layout))
       /\ wire' = SubSeq(wire, size + 1, Len(wire))
    /\ UNCHANGED <<compiled, build, layout, sent>>

Next == DaemonBroadcast \/ receive

Spec == Init /\ [][Next]_vars

-----------------------------------------------------------------------------
(* Properties.                                                              *)

\* The event that stands for message m: what from_fields() is meant to make of
\* it, of the names and numbers the daemon put there and of as much of info as
\* infolen says.
Meant(m) ==
    from_fields([m EXCEPT !.cur_image = from_utf8_lossy(@), !.hnd_name = from_utf8_lossy(@),
                          !.info = from_utf8_lossy(SubSeq(@, 1, Min({Len(@), from_u32(m.infolen)})))])

\* From the text of any release the client detects the layout that release was
\* compiled with, the years after the change of layouts included.  (A suffix right
\* behind the month hides the version, and an old daemon is then taken for a new one.)
LayoutDetected ==
    build.released => layout = build.layout

\* A client that has detected the daemon's layout decodes each message in full, every
\* byte of its numbers and as much of info as infolen says: the two padded
\* structures and the two packed ones are laid out alike.
EventsDecoded ==
    layout = compiled => events = [k \in DOMAIN events |-> Meant(sent[k])]

\* In the other layout too the first message of a stream has the right kind, for
\* the two layouts only part after the status: an update that is over is still
\* seen to be over if the subscription is fresh.
FirstKindSurvives ==
    events # <<>> => events[1].kind = Meant(sent[1]).kind

-----------------------------------------------------------------------------
(* The invariant.                                                           *)

TypeOK ==
    /\ compiled \in Layouts /\ build \in Builds /\ layout = detect_layout(build.words)
    /\ sent \in Seq(Messages) /\ wire \in Seq(Byte) /\ events \in Seq(ToSet(events))

\* In the daemon's layout the bytes on their way are the messages not yet received.
InStep ==
    layout = compiled =>
        LET size   == SizeOf(CStruct(compiled))
            unread == Len(sent) - Len(events) IN
        /\ unread \in Nat /\ Len(wire) = size * unread
        /\ \A k \in 1..unread :
              SubSeq(wire, size * (k - 1) + 1, size * k) = Encoded(sent[Len(events) + k], compiled)

\* In any layout the status of the first message is at its place on a fresh stream.
Fresh ==
    /\ sent = <<>> => wire = <<>> /\ events = <<>>
    /\ sent # <<>> /\ events = <<>> =>
          Len(wire) >= 8 /\ SubSeq(wire, 5, 8) = sent[1].status

\* The properties rest on this at every step: what is on the wire is what was sent
\* and not yet decoded.
IInv == TypeOK /\ InStep /\ Fresh /\ EventsDecoded /\ FirstKindSurvives
=============================================================================
