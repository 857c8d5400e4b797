-------------------------------- MODULE Wire --------------------------------
(***************************************************************************)
(* The wire format both sockets share (src/src/wire.rs): the C layout of a  *)
(* structure, integers and C strings in a byte array, and the numbers that  *)
(* stand for enumerators.                                                   *)
(*                                                                         *)
(* A structure is the sequence of its fields, each with a size and an       *)
(* alignment.  Bytes are 0..255 and integers little-endian; the two ends    *)
(* run on one machine, so that only agreement matters.  Sizes gives the     *)
(* lengths of the character arrays, which a model may scale down.           *)
(***************************************************************************)
EXTENDS Integers, Sequences, SequencesExt

CONSTANTS
    Sizes,      \* lengths of the character arrays
    SizeBytes   \* bytes of a size_t and of a usize

Arrays == {"key", "iv", "name", "info", "text", "url", "msg", "handler"}

ASSUME SizesAssumption ==
    /\ Sizes \in [Arrays -> Nat \ {0}]
    /\ Sizes.msg >= 4
    /\ SizeBytes \in {4, 8}

\* What wire.rs declares.
ActualSizes ==
    [key |-> 65, iv |-> 33, name |-> 256, info |-> 512, text |-> 2048,
     url |-> 1024, msg |-> 128, handler |-> 64]

-----------------------------------------------------------------------------
(* Structures.                                                              *)

Int32(name) == [name |-> name, size |-> 4, align |-> 4]
Int64(name) == [name |-> name, size |-> 8, align |-> 8]
SizeT(name) == [name |-> name, size |-> SizeBytes, align |-> SizeBytes]
Chars(name, size) == [name |-> name, size |-> size, align |-> 1]

AlignUp(at, align) == ((at + align - 1) \div align) * align

\* Where each field starts: directly after the one before it, aligned.
Offsets(struct) ==
    LET offset[i \in DOMAIN struct] ==
            IF i = 1 THEN 0
            ELSE AlignUp(offset[i - 1] + struct[i - 1].size, struct[i].align)
    IN  offset

AlignOf(struct) == Max({struct[i].align : i \in DOMAIN struct})
SizeOf(struct) ==
    AlignUp(Offsets(struct)[Len(struct)] + Last(struct).size, AlignOf(struct))

\* __attribute__((__packed__)), repr(C, packed).
Packed(struct) == [i \in DOMAIN struct |-> [struct[i] EXCEPT !.align = 1]]

Index(struct, name) == CHOOSE i \in DOMAIN struct : struct[i].name = name
OffsetOf(struct, name) == Offsets(struct)[Index(struct, name)]

-----------------------------------------------------------------------------
(* Bytes.                                                                   *)

Byte == 0..255

zeroed(size) == [i \in 1..size |-> 0]

Put(bytes, at, data) ==
    [i \in DOMAIN bytes |-> IF i - at \in DOMAIN data THEN data[i - at] ELSE bytes[i]]

\* The bytes of one field of a structure that starts at base.
Field(bytes, base, struct, name) ==
    LET at == base + OffsetOf(struct, name) IN
    SubSeq(bytes, at + 1, at + struct[Index(struct, name)].size)

\* Bytes with data, given by field, written into the structure that starts at
\* base, one field after the other.
Write(bytes, base, struct, data) ==
    LET written[n \in 0..Len(struct)] ==
            IF n = 0 THEN bytes
            ELSE IF struct[n].name \in DOMAIN data
                 THEN Put(written[n - 1], base + Offsets(struct)[n], data[struct[n].name])
                 ELSE written[n - 1]
    IN  written[Len(struct)]

MaxNumber == 2147483647   \* i32::MAX

to_bytes(v) == <<v % 256, (v \div 256) % 256, (v \div 65536) % 256, (v \div 16777216) % 256>>

from_i32(b) ==
    b[1] + 256 * b[2] + 65536 * b[3]
        + 16777216 * (IF b[4] >= 128 THEN b[4] - 256 ELSE b[4])

\* A u32 where it is compared, with enumerators and the length of an array: none of
\* them is above MaxNumber, which stands here for every number above it.
from_u32(b) ==
    IF b[4] >= 128 THEN MaxNumber
    ELSE b[1] + 256 * b[2] + 65536 * b[3] + 16777216 * b[4]

\* Anything up to the first NUL, or all of it.
UpToNul(bytes) ==
    SubSeq(bytes, 1, Min({i - 1 : i \in {j \in DOMAIN bytes : bytes[j] = 0}}
                         \cup {Len(bytes)}))

\* A two-byte character is Lead followed by Trail; a Lead that was cut off from
\* its Trail decodes as U+FFFD.
Lead == 195
Trail == 169
Replacement == <<239, 191, 189>>

from_utf8_lossy(bytes) ==
    FlattenSeq([i \in DOMAIN bytes |->
        IF bytes[i] = Lead /\ (i = Len(bytes) \/ bytes[i + 1] # Trail)
        THEN Replacement ELSE <<bytes[i]>>])

cstr_from_bytes(bytes) == from_utf8_lossy(UpToNul(bytes))

\* What write_cstr leaves in a field that is size bytes long: the rest of the
\* field is zero already.
WholeLength(size, src) == Min({Len(src), size})
copy_len(size, src) == Min({Len(src), size - 1})
write_cstr(size, src) == SubSeq(src, 1, copy_len(size, src))

-----------------------------------------------------------------------------
(* Enumerators.  Each is the place of its name in a sequence, from zero.     *)

FromNumber(names, v) == IF v \in 0..(Len(names) - 1) THEN names[v + 1] ELSE "None"
ToNumber(names, name) == CHOOSE v \in 0..(Len(names) - 1) : names[v + 1] = name

MsgTypes ==
    <<"REQ_INSTALL", "ACK", "NACK", "GET_STATUS", "POST_UPDATE", "SWUPDATE_SUBPROCESS",
      "SET_AES_KEY", "SET_UPDATE_STATE", "GET_UPDATE_STATE", "REQ_INSTALL_EXT",
      "SET_VERSIONS_RANGE", "NOTIFY_STREAM", "GET_HW_REVISION", "SET_SWUPDATE_VARS",
      "GET_SWUPDATE_VARS", "SET_DELTA_URL">>

RecoveryStatuses ==
    <<"Idle", "Start", "Run", "Success", "Failure", "Download", "Done", "Subprocess",
      "Progress">>

RecoveryStatus(v) == FromNumber(RecoveryStatuses, v)

Sources == <<"Unknown", "Webserver", "Suricatta", "Downloader", "Local", "ChunksDownloader">>
RunModes == <<"Default", "DryRun", "Install">>
SubprocessCmds == <<"Activation", "Config", "Enable", "GetStatus", "SetDownloadUrl">>
UpdateStates ==
    <<"Ok", "Installed", "Testing", "Failed", "NotAvailable", "Error", "Wait", "InProgress">>

\* Update states are the characters '0' to '7'.
UpdateStateToWire(state) == 48 + ToNumber(UpdateStates, state)
FromDigit(v) == FromNumber(UpdateStates, v)
UpdateStateFromWire(v) == FromNumber(UpdateStates, v - 48)

IPC_MAGIC == 335880193
SWUPDATE_API_VERSION == 1
PROGRESS_API_VERSION == 2 * 65536
=============================================================================
