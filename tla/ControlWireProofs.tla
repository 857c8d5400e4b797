-------------------------- MODULE ControlWireProofs --------------------------
(***************************************************************************)
(* Theorems about ControlWire, for character arrays of every length and     *)
(* every argument and answer: the daemon finds the arguments of each method *)
(* where the method put them, and each query returns what was answered.     *)
(***************************************************************************)
EXTENDS ControlWire, WireProofs

-----------------------------------------------------------------------------
(* The structures.                                                          *)

\* Names lists character arrays of one size.
LEMMA TwoNames ==
    ASSUME NEW a, NEW b
    PROVE  Names(<<a, b>>) = <<Chars(a, Sizes.name), Chars(b, Sizes.name)>>
BY DEF Names

\* The same of three and of four.
LEMMA ThreeNames ==
    ASSUME NEW a, NEW b, NEW c
    PROVE  Names(<<a, b, c>>) =
               <<Chars(a, Sizes.name), Chars(b, Sizes.name), Chars(c, Sizes.name)>>
BY DEF Names

\* The same of four.
LEMMA FourNames ==
    ASSUME NEW a, NEW b, NEW c, NEW d
    PROVE  Names(<<a, b, c, d>>) =
               <<Chars(a, Sizes.name), Chars(b, Sizes.name), Chars(c, Sizes.name),
                 Chars(d, Sizes.name)>>
BY DEF Names

\* Two sequences in a row.
LEMMA JoinedTwo ==
    ASSUME NEW S, NEW s \in Seq(S), NEW t \in Seq(S)
    PROVE  /\ s \o t \in Seq(S) /\ Len(s \o t) = Len(s) + Len(t)
           /\ \A i \in 1..Len(s) : (s \o t)[i] = s[i]
           /\ \A i \in 1..Len(t) : (s \o t)[Len(s) + i] = t[i]
OBVIOUS

\* The parts of the install request in a row.
LEMMA Joined ==
    ASSUME NEW a, NEW b, NEW c, NEW d, NEW e, NEW f, NEW g, NEW h
    PROVE  (<<a, b, c, d, e>> \o <<f, g>>) \o <<h>> = <<a, b, c, d, e, f, g, h>>
<1> DEFINE S == {a, b, c, d, e, f, g, h}
           five == <<a, b, c, d, e>>
           two == <<f, g>>
           one == <<h>>
           all == (five \o two) \o one
<1>1. five \in Seq(S) /\ Len(five) = 5 /\ two \in Seq(S) /\ Len(two) = 2
      /\ one \in Seq(S) /\ Len(one) = 1
  OBVIOUS
<1>2. /\ five[1] = a /\ five[2] = b /\ five[3] = c /\ five[4] = d /\ five[5] = e
      /\ two[1] = f /\ two[2] = g /\ one[1] = h
  OBVIOUS
<1> HIDE DEF S, five, two, one
<1> DEFINE seven == five \o two
<1>3. /\ seven \in Seq(S) /\ Len(seven) = 5 + 2
      /\ (\A i \in 1..5 : seven[i] = five[i]) /\ \A i \in 1..2 : seven[5 + i] = two[i]
  <2>1. /\ seven \in Seq(S) /\ Len(seven) = Len(five) + Len(two)
        /\ \A i \in 1..Len(five) : seven[i] = five[i]
        /\ \A i \in 1..Len(two) : seven[Len(five) + i] = two[i]
    <3>1. five \in Seq(S) /\ two \in Seq(S)
      BY <1>1
    <3> QED BY <3>1, JoinedTwo DEF seven
  <2> HIDE DEF seven
  <2> QED BY <1>1, <2>1
<1> HIDE DEF seven
<1>4. /\ all \in Seq(S) /\ Len(all) = 7 + 1
      /\ (\A i \in 1..7 : all[i] = seven[i]) /\ \A i \in 1..1 : all[7 + i] = one[i]
  <2>1. seven \in Seq(S) /\ Len(seven) = 7
    BY <1>3
  <2>2. all = seven \o one
    BY DEF seven
  <2> HIDE DEF all
  <2>3. /\ all \in Seq(S) /\ Len(all) = Len(seven) + Len(one)
        /\ \A i \in 1..Len(seven) : all[i] = seven[i]
        /\ \A i \in 1..Len(one) : all[Len(seven) + i] = one[i]
    <3>1. seven \in Seq(S) /\ one \in Seq(S)
      BY <1>1, <2>1
    <3> QED BY <3>1, <2>2, JoinedTwo
  <2> QED BY <1>1, <2>1, <2>3
<1> HIDE DEF all
<1>5. /\ all[1] = a /\ all[2] = b /\ all[3] = c /\ all[4] = d /\ all[5] = e
      /\ all[6] = f /\ all[7] = g /\ all[8] = h
  <2>1. /\ seven[1] = five[1] /\ seven[2] = five[2] /\ seven[3] = five[3] /\ seven[4] = five[4]
        /\ seven[5] = five[5]
    BY <1>3
  <2>2. seven[5 + 1] = two[1] /\ seven[5 + 2] = two[2] /\ 5 + 1 = 6 /\ 5 + 2 = 7
    BY <1>3
  <2>3. /\ all[1] = seven[1] /\ all[2] = seven[2] /\ all[3] = seven[3] /\ all[4] = seven[4]
        /\ all[5] = seven[5] /\ all[6] = seven[6] /\ all[7] = seven[7]
    BY <1>4
  <2>4. all[7 + 1] = one[1] /\ 7 + 1 = 8
    BY <1>4
  <2> QED BY <1>2, <2>1, <2>2, <2>3, <2>4
<1> HIDE DEF all
<1>6. all = <<a, b, c, d, e, f, g, h>>
  <2>1. Len(all) = 8
    BY <1>4
  <2> QED BY <1>4, <1>5, <2>1
<1> QED BY <1>6 DEF all, five, two, one

\* Rust and C declare the same install request.
LEMMA RequestsAlike == RawSwupdateRequest = swupdate_request
<1>1. RawSwupdateRequest =
          (<<Int32("apiversion"), Int32("source"), Int32("dry_run"), SizeT("len"),
            Chars("info", Sizes.info)>>
          \o <<Chars("software_set", Sizes.name), Chars("running_mode", Sizes.name)>>)
          \o <<Chars("disable_store_swu", 1)>>
  BY TwoNames DEF RawSwupdateRequest
<1> QED BY <1>1, Joined DEF swupdate_request

\* And the same unions.
LEMMA UnionsAlike == RawMsgData = msgdata
<1>1. RawMsgData.versions = msgdata.versions
  BY FourNames DEF RawMsgData, msgdata
<1>2. RawMsgData.revisions = msgdata.revisions
  BY TwoNames DEF RawMsgData, msgdata
<1>3. RawMsgData.vars = msgdata.vars
  BY ThreeNames DEF RawMsgData, msgdata
<1>4. RawMsgData.instmsg = msgdata.instmsg
  BY RequestsAlike DEF RawMsgData, msgdata
<1>5. RawMsgData.msg = msgdata.msg /\ RawMsgData.status = msgdata.status
      /\ RawMsgData.procmsg = msgdata.procmsg /\ RawMsgData.aeskeymsg = msgdata.aeskeymsg
      /\ RawMsgData.dwl_url = msgdata.dwl_url
  BY DEF RawMsgData, msgdata
<1>6. DOMAIN RawMsgData = {"msg", "status", "instmsg", "procmsg", "aeskeymsg", "versions",
                           "revisions", "vars", "dwl_url"}
      /\ DOMAIN msgdata = DOMAIN RawMsgData
  BY DEF RawMsgData, msgdata
<1>7. RawMsgData = [v \in DOMAIN RawMsgData |-> RawMsgData[v]]
      /\ msgdata = [v \in DOMAIN msgdata |-> msgdata[v]]
  BY DEF RawMsgData, msgdata
<1> QED BY <1>1, <1>2, <1>3, <1>4, <1>5, <1>6, <1>7

\* The lengths of the character arrays and of a size_t.
LEMMA SizeTypes ==
    /\ \A array \in Arrays : Sizes[array] \in Nat \ {0}
    /\ Sizes.key \in Nat /\ Sizes.iv \in Nat /\ Sizes.name \in Nat /\ Sizes.info \in Nat
    /\ Sizes.text \in Nat /\ Sizes.url \in Nat /\ Sizes.msg \in Nat
    /\ SizeBytes \in {4, 8}
BY SizesAssumption DEF Arrays

\* The install request has the layout of a structure.
LEMMA RequestIsStruct == IsStruct(swupdate_request)
<1> DEFINE s == swupdate_request
<1>1. Len(s) = 8 /\ DOMAIN s = 1..8
  BY DEF swupdate_request
<1>2. \A i \in 1..8 : DOMAIN s[i] = {"name", "size", "align"}
  BY DEF swupdate_request, Int32, SizeT, Chars
<1>3. \A i \in 1..8 : s[i].size \in Nat /\ s[i].align \in {1, 4, 8}
  BY SizeTypes DEF swupdate_request, Int32, SizeT, Chars
<1>4. \A i, j \in 1..8 : s[i].name = s[j].name => i = j
  BY DEF swupdate_request, Int32, SizeT, Chars
<1> QED BY <1>1, <1>2, <1>3, <1>4 DEF IsStruct

\* So has a text ...
LEMMA TextIsStruct == IsStruct(msgdata.msg)
<1> DEFINE s == msgdata.msg
<1>1. Len(s) = 1 /\ DOMAIN s = 1..1
  BY DEF msgdata
<1>2. \A i \in 1..1 : DOMAIN s[i] = {"name", "size", "align"}
  BY DEF msgdata, Chars
<1>3. \A i \in 1..1 : s[i].size \in Nat /\ s[i].align \in {1, 4, 8}
  BY SizeTypes DEF msgdata, Chars
<1>4. \A i, j \in 1..1 : s[i].name = s[j].name => i = j
  BY DEF msgdata, Chars
<1> QED BY <1>1, <1>2, <1>3, <1>4 DEF IsStruct

\* ... a status ...
LEMMA StatusIsStruct == IsStruct(msgdata.status)
<1> DEFINE s == msgdata.status
<1>1. Len(s) = 4 /\ DOMAIN s = 1..4
  BY DEF msgdata
<1>2. \A i \in 1..4 : DOMAIN s[i] = {"name", "size", "align"}
  BY DEF msgdata, Int32, Chars
<1>3. \A i \in 1..4 : s[i].size \in Nat /\ s[i].align \in {1, 4, 8}
  BY SizeTypes DEF msgdata, Int32, Chars
<1>4. \A i, j \in 1..4 : s[i].name = s[j].name => i = j
  BY DEF msgdata, Int32, Chars
<1> QED BY <1>1, <1>2, <1>3, <1>4 DEF IsStruct

\* ... a message to a subprocess ...
LEMMA SubprocessIsStruct == IsStruct(msgdata.procmsg)
<1> DEFINE s == msgdata.procmsg
<1>1. Len(s) = 4 /\ DOMAIN s = 1..4
  BY DEF msgdata
<1>2. \A i \in 1..4 : DOMAIN s[i] = {"name", "size", "align"}
  BY DEF msgdata, Int32
<1>3. \A i \in 1..4 : s[i].size \in Nat /\ s[i].align \in {1, 4, 8}
  BY SizeTypes DEF msgdata, Int32
<1>4. \A i, j \in 1..4 : s[i].name = s[j].name => i = j
  BY DEF msgdata, Int32
<1> QED BY <1>1, <1>2, <1>3, <1>4 DEF IsStruct

\* ... a key ...
LEMMA KeyIsStruct == IsStruct(msgdata.aeskeymsg)
<1> DEFINE s == msgdata.aeskeymsg
<1>1. Len(s) = 2 /\ DOMAIN s = 1..2
  BY DEF msgdata
<1>2. \A i \in 1..2 : DOMAIN s[i] = {"name", "size", "align"}
  BY DEF msgdata, Chars
<1>3. \A i \in 1..2 : s[i].size \in Nat /\ s[i].align \in {1, 4, 8}
  BY SizeTypes DEF msgdata, Chars
<1>4. \A i, j \in 1..2 : s[i].name = s[j].name => i = j
  BY DEF msgdata, Chars
<1> QED BY <1>1, <1>2, <1>3, <1>4 DEF IsStruct

\* ... a range of versions ...
LEMMA RangeIsStruct == IsStruct(msgdata.versions)
<1> DEFINE s == msgdata.versions
<1>1. Len(s) = 4 /\ DOMAIN s = 1..4
  BY DEF msgdata
<1>2. \A i \in 1..4 : DOMAIN s[i] = {"name", "size", "align"}
  BY DEF msgdata, Chars
<1>3. \A i \in 1..4 : s[i].size \in Nat /\ s[i].align \in {1, 4, 8}
  BY SizeTypes DEF msgdata, Chars
<1>4. \A i, j \in 1..4 : s[i].name = s[j].name => i = j
  BY DEF msgdata, Chars
<1> QED BY <1>1, <1>2, <1>3, <1>4 DEF IsStruct

\* ... and so is a hardware revision ...
LEMMA RevisionIsStruct == IsStruct(msgdata.revisions)
<1> DEFINE s == msgdata.revisions
<1>1. Len(s) = 2 /\ DOMAIN s = 1..2
  BY DEF msgdata
<1>2. \A i \in 1..2 : DOMAIN s[i] = {"name", "size", "align"}
  BY DEF msgdata, Chars
<1>3. \A i \in 1..2 : s[i].size \in Nat /\ s[i].align \in {1, 4, 8}
  BY SizeTypes DEF msgdata, Chars
<1>4. \A i, j \in 1..2 : s[i].name = s[j].name => i = j
  BY DEF msgdata, Chars
<1> QED BY <1>1, <1>2, <1>3, <1>4 DEF IsStruct

\* ... a variable ...
LEMMA VariableIsStruct == IsStruct(msgdata.vars)
<1> DEFINE s == msgdata.vars
<1>1. Len(s) = 3 /\ DOMAIN s = 1..3
  BY DEF msgdata
<1>2. \A i \in 1..3 : DOMAIN s[i] = {"name", "size", "align"}
  BY DEF msgdata, Chars
<1>3. \A i \in 1..3 : s[i].size \in Nat /\ s[i].align \in {1, 4, 8}
  BY SizeTypes DEF msgdata, Chars
<1>4. \A i, j \in 1..3 : s[i].name = s[j].name => i = j
  BY DEF msgdata, Chars
<1> QED BY <1>1, <1>2, <1>3, <1>4 DEF IsStruct

\* ... and an address.
LEMMA UrlIsStruct == IsStruct(msgdata.dwl_url)
<1> DEFINE s == msgdata.dwl_url
<1>1. Len(s) = 2 /\ DOMAIN s = 1..2
  BY DEF msgdata
<1>2. \A i \in 1..2 : DOMAIN s[i] = {"name", "size", "align"}
  BY DEF msgdata, Chars
<1>3. \A i \in 1..2 : s[i].size \in Nat /\ s[i].align \in {1, 4, 8}
  BY SizeTypes DEF msgdata, Chars
<1>4. \A i, j \in 1..2 : s[i].name = s[j].name => i = j
  BY DEF msgdata, Chars
<1> QED BY <1>1, <1>2, <1>3, <1>4 DEF IsStruct


\* Every variant has the layout of a structure and lies within the message.
LEMMA Variants ==
    ASSUME NEW v \in DOMAIN msgdata
    PROVE  /\ IsStruct(msgdata[v]) /\ SizeOf(msgdata[v]) \in Nat
           /\ MessageSize \in Nat /\ DataAt + SizeOf(msgdata[v]) <= MessageSize
<1>1. DOMAIN msgdata = {"msg", "status", "instmsg", "procmsg", "aeskeymsg", "versions",
                        "revisions", "vars", "dwl_url"}
  BY DEF msgdata
<1>2. msgdata.instmsg = swupdate_request
  BY DEF msgdata
<1>3. IsStruct(msgdata[v])
  BY <1>1, <1>2, RequestIsStruct, TextIsStruct, StatusIsStruct, SubprocessIsStruct,
     KeyIsStruct, RangeIsStruct, RevisionIsStruct, VariableIsStruct, UrlIsStruct
<1>4. SizeOf(msgdata[v]) \in Nat
  <2>1. 1 \in DOMAIN msgdata[v]
    BY <1>3, FieldTypes
  <2> QED BY <1>3, <2>1, FieldWithin
<1>5. MessageSize \in Nat
  <2>1. SizeOf(RawSwupdateRequest) \in Nat
    <3>1. 1 \in DOMAIN swupdate_request
      BY RequestIsStruct, FieldTypes
    <3> QED BY <3>1, RequestIsStruct, FieldWithin, RequestsAlike
  <2> DEFINE end == DataAt + SizeOf(RawSwupdateRequest) + 4 + Sizes.text
  <2>2. end \in Nat
    BY <2>1, SizeTypes DEF DataAt
  <2> HIDE DEF end
  <2>3. AlignUp(end, SizeBytes) \in Nat
    BY <2>2, SizeTypes, AlignUpBounds
  <2> QED BY <2>3 DEF MessageSize, end
<1>6. DataAt + SizeOf(msgdata[v]) <= MessageSize
  BY UnionAssumption, UnionsAlike
<1> QED BY <1>3, <1>4, <1>5, <1>6

-----------------------------------------------------------------------------
(* Enumerators.                                                             *)

\* Distinct names, none of which says that there is no name.
IsEnum(names) ==
    /\ DOMAIN names = 1..Len(names) /\ Len(names) \in Nat
    /\ \A i, j \in DOMAIN names : names[i] = names[j] => i = j
    /\ \A i \in DOMAIN names : names[i] # "None"

\* The number of a name is its place from zero.
LEMMA NumberOf ==
    ASSUME NEW names, IsEnum(names), NEW v \in 0..(Len(names) - 1)
    PROVE  ToNumber(names, names[v + 1]) = v
<1>1. \A u \in 0..(Len(names) - 1) : names[u + 1] = names[v + 1] => u = v
  BY DEF IsEnum
<1> DEFINE n == ToNumber(names, names[v + 1])
<1>2. n \in 0..(Len(names) - 1) /\ names[n + 1] = names[v + 1]
  BY DEF ToNumber
<1> HIDE DEF n
<1>3. n = v
  BY <1>1, <1>2
<1> QED BY <1>3 DEF n

\* Every name has a number.
LEMMA NumberFound ==
    ASSUME NEW names, IsEnum(names), NEW name \in ToSet(names)
    PROVE  ToNumber(names, name) \in 0..(Len(names) - 1)
           /\ names[ToNumber(names, name) + 1] = name
<1>1. PICK i \in DOMAIN names : names[i] = name
  BY DEF ToSet
<1>2. i - 1 \in 0..(Len(names) - 1) /\ (i - 1) + 1 = i
  BY DEF IsEnum
<1>3. \E v \in 0..(Len(names) - 1) : names[v + 1] = name
  BY <1>1, <1>2
<1> QED BY <1>3 DEF ToNumber

\* A number is that of a name, or of none.
LEMMA NameOf ==
    ASSUME NEW names, IsEnum(names), NEW v \in Int
    PROVE  /\ (FromNumber(names, v) = "None") = (v \notin 0..(Len(names) - 1))
           /\ v \in 0..(Len(names) - 1) => ToNumber(names, FromNumber(names, v)) = v
<1>1. (v + 1 \in DOMAIN names) = (v \in 0..(Len(names) - 1))
  BY DEF IsEnum
<1>2. CASE v \in 0..(Len(names) - 1)
  <2>1. FromNumber(names, v) = names[v + 1] /\ v + 1 \in DOMAIN names
    BY <1>1, <1>2 DEF FromNumber
  <2>2. names[v + 1] # "None"
    BY <2>1 DEF IsEnum
  <2> QED BY <1>2, <2>1, <2>2, NumberOf
<1>3. CASE v \notin 0..(Len(names) - 1)
  BY <1>1, <1>3 DEF FromNumber
<1> QED BY <1>2, <1>3

\* The names of wire.rs.
LEMMA Enums ==
    /\ IsEnum(MsgTypes) /\ Len(MsgTypes) = 16
    /\ IsEnum(RecoveryStatuses) /\ IsEnum(Sources) /\ IsEnum(RunModes)
    /\ IsEnum(SubprocessCmds) /\ IsEnum(UpdateStates)
    /\ Len(RecoveryStatuses) = 9 /\ Len(Sources) = 6 /\ Len(RunModes) = 3
    /\ Len(SubprocessCmds) = 5 /\ Len(UpdateStates) = 8
<1>1. IsEnum(MsgTypes) /\ Len(MsgTypes) = 16
  BY DEF IsEnum, MsgTypes
<1>2. IsEnum(RecoveryStatuses) /\ Len(RecoveryStatuses) = 9
  BY DEF IsEnum, RecoveryStatuses
<1>3. IsEnum(Sources) /\ Len(Sources) = 6
  BY DEF IsEnum, Sources
<1>4. IsEnum(RunModes) /\ Len(RunModes) = 3
  BY DEF IsEnum, RunModes
<1>5. IsEnum(SubprocessCmds) /\ Len(SubprocessCmds) = 5
  BY DEF IsEnum, SubprocessCmds
<1>6. IsEnum(UpdateStates) /\ Len(UpdateStates) = 8
  BY DEF IsEnum, UpdateStates
<1> QED BY <1>1, <1>2, <1>3, <1>4, <1>5, <1>6

\* The types of the requests and that of the replies.
LEMMA RequestTypes == DOMAIN RequestVariant \cup {"ACK"} \subseteq ToSet(MsgTypes)
<1>1. DOMAIN MsgTypes = 1..16
  BY DEF MsgTypes
<1>2. /\ MsgTypes[1] = "REQ_INSTALL" /\ MsgTypes[2] = "ACK" /\ MsgTypes[4] = "GET_STATUS"
      /\ MsgTypes[5] = "POST_UPDATE" /\ MsgTypes[6] = "SWUPDATE_SUBPROCESS"
      /\ MsgTypes[7] = "SET_AES_KEY" /\ MsgTypes[8] = "SET_UPDATE_STATE"
      /\ MsgTypes[9] = "GET_UPDATE_STATE" /\ MsgTypes[11] = "SET_VERSIONS_RANGE"
      /\ MsgTypes[13] = "GET_HW_REVISION" /\ MsgTypes[14] = "SET_SWUPDATE_VARS"
      /\ MsgTypes[15] = "GET_SWUPDATE_VARS" /\ MsgTypes[16] = "SET_DELTA_URL"
  BY DEF MsgTypes
<1>3. \A i \in 1..16 : MsgTypes[i] \in ToSet(MsgTypes)
  BY <1>1 DEF ToSet
<1> QED BY <1>2, <1>3 DEF RequestVariant


-----------------------------------------------------------------------------
(* A message.                                                               *)

\* A message of a type.
IsMessage(m, type) ==
    /\ m \in Seq(Byte) /\ Len(m) = MessageSize
    /\ \A k \in 1..4 : m[k] = to_bytes(IPC_MAGIC)[k]
    /\ \A k \in 1..4 : m[4 + k] = to_bytes(ToNumber(MsgTypes, type))[k]

\* There is room for the union behind the header.
LEMMA Room == MessageSize \in Nat /\ MessageSize >= 8 /\ DataAt = 8 /\ DataAt \in Nat
<1>1. "msg" \in DOMAIN msgdata
  BY DEF msgdata
<1>2. SizeOf(msgdata["msg"]) \in Nat /\ MessageSize \in Nat
      /\ DataAt + SizeOf(msgdata["msg"]) <= MessageSize
  BY <1>1, Variants
<1> QED BY <1>2 DEF DataAt

\* A new message has its type and nothing else.
LEMMA NewMessage ==
    ASSUME NEW type \in ToSet(MsgTypes)
    PROVE  /\ IsMessage(RawIpcMessage(type), type)
           /\ \A p \in 9..MessageSize : RawIpcMessage(type)[p] = 0
<1> DEFINE n == ToNumber(MsgTypes, type)
           a == to_bytes(IPC_MAGIC)
           b == to_bytes(n)
           data == a \o b
           z == zeroed(MessageSize)
           m == RawIpcMessage(type)
<1>1. n \in Int
  BY Enums, NumberFound
<1>2. a \in Seq(Byte) /\ Len(a) = 4
  BY NumberBytes DEF IPC_MAGIC
<1>3. b \in Seq(Byte) /\ Len(b) = 4
  <2> HIDE DEF n
  <2> QED BY <1>1, NumberBytes
<1>4. z \in Seq(Byte) /\ Len(z) = MessageSize /\ \A p \in 1..MessageSize : z[p] = 0
  BY Room, Zeroes
<1>5. m = Put(z, 0, data)
  BY DEF RawIpcMessage
<1> HIDE DEF a, b, z
<1>6. data \in Seq(Byte) /\ Len(data) = 8
      /\ (\A k \in 1..4 : data[k] = a[k]) /\ \A k \in 1..4 : data[4 + k] = b[k]
  <2>1. a \in Seq(Byte) /\ b \in Seq(Byte)
    BY <1>2, <1>3
  <2>2. /\ data \in Seq(Byte) /\ Len(data) = Len(a) + Len(b)
        /\ \A k \in 1..Len(a) : data[k] = a[k]
        /\ \A k \in 1..Len(b) : data[Len(a) + k] = b[k]
    BY <2>1, JoinedTwo
  <2> HIDE DEF data
  <2> QED BY <1>2, <1>3, <2>2
<1> HIDE DEF data
<1>7. /\ Put(z, 0, data) \in Seq(Byte)
      /\ Len(Put(z, 0, data)) = Len(z)
      /\ \A k \in 1..Len(data) : 0 + k <= Len(z) => Put(z, 0, data)[0 + k] = data[k]
      /\ \A p \in 1..Len(z) :
                 p \notin (0 + 1)..(0 + Len(data)) => Put(z, 0, data)[p] = z[p]
  <2>1. z \in Seq(Byte) /\ data \in Seq(Byte) /\ 0 \in Nat
    BY <1>4, <1>6
  <2> QED BY <2>1, PutBytes
<1> HIDE DEF m
<1>8. m \in Seq(Byte) /\ Len(m) = MessageSize /\ \A k \in 1..8 : m[k] = data[k]
  <2>1. \A k \in 1..8 : 0 + k = k /\ k <= MessageSize
    BY Room
  <2> QED BY <1>4, <1>5, <1>6, <1>7, <2>1
<1>9. \A p \in 9..MessageSize : m[p] = 0
  <2>1. \A p \in 9..MessageSize : p \in 1..MessageSize /\ p \notin (0 + 1)..(0 + 8)
    BY Room
  <2> QED BY <1>4, <1>5, <1>6, <1>7, <2>1
<1>10. \A k \in 1..4 : m[k] = a[k] /\ m[4 + k] = b[k]
  <2>1. \A k \in 1..4 : k \in 1..8 /\ 4 + k \in 1..8
    OBVIOUS
  <2> QED BY <1>6, <1>8, <2>1
<1> QED BY <1>8, <1>9, <1>10 DEF IsMessage, m, a, b

\* Its header is read as it was written.
LEMMA HeaderRead ==
    ASSUME NEW m, NEW type \in ToSet(MsgTypes), IsMessage(m, type)
    PROVE  /\ from_i32(SubSeq(m, 1, 4)) = IPC_MAGIC
           /\ MsgTypes[from_i32(SubSeq(m, 5, 8)) + 1] = type
<1> DEFINE n == ToNumber(MsgTypes, type)
           a == SubSeq(m, 1, 4)
           b == SubSeq(m, 5, 8)
<1>1. n \in 0..15 /\ MsgTypes[n + 1] = type
  <2>1. n \in 0..(Len(MsgTypes) - 1) /\ MsgTypes[n + 1] = type
    BY Enums, NumberFound
  <2> HIDE DEF n
  <2> QED BY <2>1, Enums
<1>2. m \in Seq(Byte) /\ Len(m) \in Nat /\ Len(m) >= 8
  BY Room DEF IsMessage
<1>3. \A k \in 1..4 : a[k] = m[k]
  BY <1>2
<1>4. \A k \in 1..4 : b[k] = m[4 + k]
  BY <1>2
<1>5. from_i32(a) = IPC_MAGIC
  <2>1. \A k \in 1..4 : a[k] = to_bytes(IPC_MAGIC)[k]
    BY <1>3 DEF IsMessage
  <2>2. IPC_MAGIC \in Int /\ -2147483648 <= IPC_MAGIC /\ IPC_MAGIC <= 2147483647
    BY DEF IPC_MAGIC
  <2> HIDE DEF a
  <2> QED BY <2>1, <2>2, SignedRead
<1>6. from_i32(b) = n
  <2>1. \A k \in 1..4 : b[k] = to_bytes(n)[k]
    BY <1>4 DEF IsMessage
  <2>2. n \in Int /\ -2147483648 <= n /\ n <= 2147483647
    BY <1>1
  <2> HIDE DEF b, n
  <2> QED BY <2>1, <2>2, SignedRead
<1> QED BY <1>1, <1>5, <1>6

\* What is written into a variant leaves the header alone ...
LEMMA HeaderKept ==
    ASSUME NEW type \in ToSet(MsgTypes), NEW v \in DOMAIN msgdata,
           NEW data, Fits(msgdata[v], data)
    PROVE  IsMessage(Write(RawIpcMessage(type), DataAt, msgdata[v], data), type)
<1> DEFINE s == msgdata[v]
           raw == RawIpcMessage(type)
           m == Write(raw, DataAt, s, data)
<1>1. raw \in Seq(Byte) /\ Len(raw) = MessageSize
      /\ (\A k \in 1..4 : raw[k] = to_bytes(IPC_MAGIC)[k])
      /\ \A k \in 1..4 : raw[4 + k] = to_bytes(ToNumber(MsgTypes, type))[k]
  BY NewMessage DEF IsMessage
<1>2. IsStruct(s) /\ DataAt \in Nat /\ DataAt = 8 /\ DataAt <= Len(raw)
  BY <1>1, Variants, Room
<1> HIDE DEF s, raw
<1>3. Fits(s, data)
  BY DEF s
<1>4. m \in Seq(Byte) /\ Len(m) = Len(raw)
  BY <1>1, <1>2, <1>3, WriteBytes
<1>5. \A p \in 1..DataAt : m[p] = raw[p]
  BY SMTT(30), <1>1, <1>2, <1>3, WriteBefore
<1> HIDE DEF m
<1>6. \A k \in 1..4 : m[k] = raw[k] /\ m[4 + k] = raw[4 + k]
  <2>1. \A k \in 1..4 : k \in 1..DataAt /\ 4 + k \in 1..DataAt
    BY <1>2
  <2> QED BY <1>5, <2>1
<1> QED BY <1>1, <1>4, <1>6 DEF IsMessage, m, s, raw

\* ... and is found in its field, with zeroes behind it.
LEMMA DataWritten ==
    ASSUME NEW type \in ToSet(MsgTypes), NEW v \in DOMAIN msgdata,
           NEW data, Fits(msgdata[v], data),
           NEW i \in DOMAIN msgdata[v], msgdata[v][i].name \in DOMAIN data
    PROVE  LET m == Write(RawIpcMessage(type), DataAt, msgdata[v], data)
               field == msgdata[v][i] IN
           /\ Holds(Field(m, DataAt, msgdata[v], field.name), data[field.name])
           /\ Len(Field(m, DataAt, msgdata[v], field.name)) = field.size
           /\ DataAt + Offsets(msgdata[v])[i] + field.size <= Len(m)
           /\ \A k \in 1..field.size :
                 m[DataAt + Offsets(msgdata[v])[i] + k]
                     = IF k <= Len(data[field.name]) THEN data[field.name][k] ELSE 0
<1> DEFINE s == msgdata[v]
           raw == RawIpcMessage(type)
           m == Write(raw, DataAt, s, data)
           name == s[i].name
           size == s[i].size
           at == DataAt + Offsets(s)[i]
           f == Field(m, DataAt, s, name)
<1>1. raw \in Seq(Byte) /\ Len(raw) = MessageSize /\ \A p \in 9..MessageSize : raw[p] = 0
  BY NewMessage DEF IsMessage
<1>2. /\ IsStruct(s) /\ DataAt \in Nat /\ DataAt = 8
      /\ SizeOf(s) \in Nat /\ DataAt + SizeOf(s) <= Len(raw) /\ Len(raw) \in Nat
  BY <1>1, Variants, Room
<1>3. Fits(s, data) /\ i \in DOMAIN s /\ s[i].name \in DOMAIN data
  OBVIOUS
<1> HIDE DEF s, raw
<1>4. Offsets(s)[i] \in Nat /\ size \in Nat /\ Offsets(s)[i] + size <= SizeOf(s)
  BY <1>2, <1>3, FieldTypes, FieldWithin
<1>5. at + size <= Len(raw) /\ at \in Nat /\ at >= 8
  BY SMTT(30), <1>2, <1>4
<1>6. m \in Seq(Byte) /\ Len(m) = Len(raw)
  BY <1>1, <1>2, <1>3, WriteBytes
<1>7. \A k \in 1..size :
         m[at + k] = IF name \in DOMAIN data /\ k <= Len(data[name]) THEN data[name][k]
                     ELSE raw[at + k]
  BY <1>1, <1>2, <1>3, <1>5, WriteField
<1>8. \A k \in 1..size : raw[at + k] = 0
  <2>1. \A k \in 1..size : at + k \in 9..MessageSize
    BY SMTT(30), <1>1, <1>2, <1>4, <1>5
  <2> QED BY <1>1, <2>1
<1>9. \A k \in 1..size : m[at + k] = IF k <= Len(data[name]) THEN data[name][k] ELSE 0
  BY <1>3, <1>7, <1>8
<1>10. /\ Field(m, DataAt, s, s[i].name) \in Seq(Byte)
       /\ Len(Field(m, DataAt, s, s[i].name)) = s[i].size
       /\ \A k \in 1..s[i].size :
             Field(m, DataAt, s, s[i].name)[k] = m[DataAt + Offsets(s)[i] + k]
  <2>1. DataAt + SizeOf(s) <= Len(m)
    BY <1>2, <1>6
  <2> HIDE DEF m
  <2> QED BY <1>2, <1>3, <1>6, <2>1, FieldBytes
<1> HIDE DEF m
<1>11. f \in Seq(Byte) /\ Len(f) = size /\ \A k \in 1..size : f[k] = m[at + k]
  BY <1>10
<1>12. Len(data[name]) <= size
  BY <1>3 DEF Fits
<1> HIDE DEF f, at, size, name
<1>13. Holds(f, data[name])
  BY <1>9, <1>11, <1>12 DEF Holds
<1>14. at + size <= Len(m)
  BY <1>5, <1>6
<1> QED BY <1>9, <1>11, <1>13, <1>14 DEF f, at, size, name, m, s, raw


-----------------------------------------------------------------------------
(* What the daemon finds.                                                   *)

\* In a field that text was copied into, C finds a string: the text or its beginning.
LEMMA StringFound ==
    ASSUME NEW m \in Seq(Byte), NEW at \in Nat, NEW size \in Nat \ {0}, at + size <= Len(m),
           NEW text \in Seq(Byte),
           \A k \in 1..size : m[at + k] = IF k <= Len(write_cstr(size, text))
                                          THEN write_cstr(size, text)[k] ELSE 0
    PROVE  Delivered(text, size, UpToNul(SubSeq(m, at + 1, Len(m))))
<1> DEFINE c == copy_len(size, text)
           w == write_cstr(size, text)
           tail == SubSeq(m, at + 1, Len(m))
<1>1. Len(text) \in Nat /\ Len(m) \in Nat
  OBVIOUS
<1>2. c \in 0..(size - 1) /\ c <= Len(text) /\ c = IF Len(text) <= size - 1 THEN Len(text) ELSE size - 1
  <2>1. Len(text) \in Int /\ size - 1 \in Int
    BY <1>1
  <2>2. c = IF Len(text) <= size - 1 THEN Len(text) ELSE size - 1
    BY <2>1, MinOfTwo DEF copy_len
  <2> HIDE DEF c
  <2> QED BY <1>1, <2>2
<1>3. Len(w) = c /\ \A k \in 1..c : w[k] = text[k]
  <2>1. w = SubSeq(text, 1, c)
    BY DEF write_cstr
  <2> HIDE DEF c, w
  <2> QED BY <1>1, <1>2, <2>1
<1> HIDE DEF c
<1>4. tail \in Seq(Byte) /\ Len(tail) = Len(m) - at /\ size <= Len(tail)
      /\ \A k \in 1..(Len(m) - at) : tail[k] = m[at + k]
  <2>1. tail = [k \in 1..(Len(m) - at) |-> m[at + k]]
    BY <1>1
  <2>2. \A k \in 1..(Len(m) - at) : at + k \in 1..Len(m)
    BY <1>1
  <2>3. \A k \in 1..(Len(m) - at) : m[at + k] \in Byte
    BY <2>2, Elements
  <2>4. Len(m) - at \in Nat
    BY <1>1
  <2> HIDE DEF tail
  <2> QED BY <1>1, <2>1, <2>3, <2>4
<1>5. \A k \in 1..size : tail[k] = IF k <= c THEN text[k] ELSE 0
  <2>1. \A k \in 1..size : k \in 1..(Len(m) - at)
    BY <1>1
  <2>2. \A k \in 1..size : m[at + k] = IF k <= c THEN text[k] ELSE 0
    BY <1>2, <1>3
  <2> QED BY <1>4, <2>1, <2>2
<1> HIDE DEF w, tail
<1>6. c \in 0..(Len(tail) - 1) /\ tail[c + 1] = 0 /\ \A k \in 1..c : tail[k] = text[k]
  <2>1. c + 1 \in 1..size /\ ~(c + 1 <= c) /\ \A k \in 1..c : k \in 1..size
    BY <1>2
  <2> QED BY <1>1, <1>2, <1>4, <1>5, <2>1
<1>7. CASE Len(text) < size /\ 0 \notin ToSet(text)
  <2>1. c = Len(text)
    BY <1>1, <1>2, <1>7
  <2>2. \A k \in 1..c : text[k] # 0
    <3>1. \A k \in DOMAIN text : text[k] \in ToSet(text)
      BY DEF ToSet
    <3>2. DOMAIN text = 1..c
      BY <2>1
    <3> QED BY <1>7, <3>1, <3>2
  <2>3. UpToNul(tail) = SubSeq(tail, 1, c)
    <3>1. \A k \in 1..c : tail[k] # 0
      BY <1>6, <2>2
    <3>2. c \in 0..Len(tail)
      BY <1>6
    <3> QED BY <1>4, <1>6, <3>1, <3>2, FirstNul
  <2>4. SubSeq(tail, 1, c) = text
    <3>1. text = [k \in 1..c |-> text[k]]
      BY <2>1
    <3>2. SubSeq(tail, 1, c) = [k \in 1..c |-> tail[k]]
      BY <1>4, <1>6
    <3> QED BY <1>6, <3>1, <3>2
  <2> QED BY <1>7, <2>3, <2>4 DEF Delivered, tail
<1>8. CASE ~(Len(text) < size /\ 0 \notin ToSet(text))
  <2>1. PICK n \in 0..c : UpToNul(tail) = SubSeq(tail, 1, n)
    BY <1>4, <1>6, BeforeNul
  <2>2. SubSeq(tail, 1, n) = [k \in 1..n |-> tail[k]]
    BY <1>4, <1>6
  <2>3. SubSeq(text, 1, n) = [k \in 1..n |-> text[k]]
    BY <1>1, <1>2
  <2>4. \A k \in 1..n : tail[k] = text[k]
    BY <1>2, <1>6
  <2> DEFINE found == SubSeq(text, 1, n)
  <2>5. UpToNul(tail) = found
    BY <2>1, <2>2, <2>3, <2>4
  <2>6. Len(found) = n /\ SubSeq(found, 1, n) = found
    BY <1>1, <1>2, <2>3
  <2>7. IsPrefix(found, text) /\ Len(found) < size
    BY <1>1, <1>2, <2>6 DEF IsPrefix
  <2> HIDE DEF found
  <2> QED BY <1>8, <2>5, <2>7 DEF Delivered, tail
<1> QED BY <1>7, <1>8

-----------------------------------------------------------------------------
(* Arguments.                                                               *)

\* A value a method gives a field.
IsArgument(field, value) ==
    \/ field.name = "len" /\ field.size = SizeBytes /\ value \in Seq(Byte) /\ Len(value) = 8
    \/ field.name = "disable_store_swu" /\ field.size = 1 /\ value \in Byte /\ ~IsNumber(field)
    \/ /\ IsNumber(field) /\ field.name \notin {"len", "disable_store_swu"}
       /\ field.size \in Nat /\ field.size >= 4
       /\ Number(field.name, value) \in (-MaxNumber - 1)..MaxNumber
    \/ /\ ~IsNumber(field) /\ field.name \notin {"len", "disable_store_swu"}
       /\ field.size \in Nat \ {0} /\ value \in Seq(Byte)

\* Small numbers are numbers.
LEMMA SmallNumbers == \A v \in -1..100 : v \in (-MaxNumber - 1)..MaxNumber
<1>1. \A v \in -1..100 : v \in Int /\ -1 <= v /\ v <= 100
  OBVIOUS
<1>2. MaxNumber \in Int /\ MaxNumber >= 100
  BY SMT DEF MaxNumber
<1>3. \A v \in Int : -1 <= v /\ v <= 100 => -MaxNumber - 1 <= v /\ v <= MaxNumber
  BY <1>2
<1>4. -MaxNumber - 1 \in Int
  BY <1>2
<1> QED BY <1>1, <1>2, <1>3, <1>4

\* Its bytes fit the field.
LEMMA EncodedFits ==
    ASSUME NEW field, NEW value, IsArgument(field, value)
    PROVE  Encoded(field, value) \in Seq(Byte) /\ Len(Encoded(field, value)) <= field.size
<1>1. CASE field.name = "len" /\ field.size = SizeBytes /\ value \in Seq(Byte) /\ Len(value) = 8
  <2>1. Encoded(field, value) = SubSeq(value, 1, SizeBytes)
    BY <1>1 DEF Encoded, IsNumber
  <2>2. SizeBytes \in 0..Len(value)
    BY <1>1, SizeTypes
  <2>3. SubSeq(value, 1, SizeBytes) \in Seq(Byte)
    BY <1>1, <2>2, Prefix
  <2>4. Len(SubSeq(value, 1, SizeBytes)) = SizeBytes
    BY <1>1, SizeTypes
  <2> QED BY <1>1, <2>1, <2>3, <2>4, SizeTypes
<1>2. CASE field.name = "disable_store_swu" /\ field.size = 1 /\ value \in Byte /\ ~IsNumber(field)
  <2>1. Encoded(field, value) = <<value>>
    BY <1>2 DEF Encoded
  <2> QED BY <1>2, <2>1
<1>3. CASE /\ IsNumber(field) /\ field.name \notin {"len", "disable_store_swu"}
           /\ field.size \in Nat /\ field.size >= 4
           /\ Number(field.name, value) \in (-MaxNumber - 1)..MaxNumber
  <2> DEFINE n == Number(field.name, value)
  <2>1. Encoded(field, value) = to_bytes(n)
    BY <1>3 DEF Encoded
  <2>2. n \in Int
    BY <1>3, NumberRange
  <2> HIDE DEF n
  <2>3. to_bytes(n) \in Seq(Byte) /\ Len(to_bytes(n)) = 4
    BY <2>2, NumberBytes
  <2> QED BY <1>3, <2>1, <2>3
<1>4. CASE /\ ~IsNumber(field) /\ field.name \notin {"len", "disable_store_swu"}
           /\ field.size \in Nat \ {0} /\ value \in Seq(Byte)
  <2> DEFINE c == copy_len(field.size, value)
  <2>1. Encoded(field, value) = write_cstr(field.size, value)
    BY <1>4 DEF Encoded
  <2>2. Len(value) \in Nat /\ field.size - 1 \in Nat
    BY <1>4
  <2>3. c = IF Len(value) <= field.size - 1 THEN Len(value) ELSE field.size - 1
    BY <2>2, MinOfTwo DEF copy_len
  <2>4. c \in 0..Len(value) /\ c <= field.size
    BY <1>4, <2>2, <2>3
  <2>5. write_cstr(field.size, value) = SubSeq(value, 1, c)
    BY DEF write_cstr
  <2> HIDE DEF c
  <2>6. SubSeq(value, 1, c) \in Seq(Byte)
    BY <1>4, <2>4, Prefix
  <2>7. Len(SubSeq(value, 1, c)) = c
    BY <1>4, <2>2, <2>4
  <2> QED BY <2>1, <2>4, <2>5, <2>6, <2>7
<1> QED BY <1>1, <1>2, <1>3, <1>4 DEF IsArgument


\* The texts a method takes go to character arrays of the variant it writes.
LEMMA TextFields ==
    ASSUME NEW method \in DOMAIN TextArguments, NEW name \in TextArguments[method]
    PROVE  /\ method \in DOMAIN RequestVariant /\ RequestVariant[method] \in DOMAIN msgdata
           /\ \E i \in DOMAIN msgdata[RequestVariant[method]] :
                 LET field == msgdata[RequestVariant[method]][i] IN
                 /\ field.name = name /\ field.size \in Nat \ {0} /\ ~IsNumber(field)
                 /\ name \notin {"len", "disable_store_swu"}
<1>1. DOMAIN TextArguments = {"SET_AES_KEY", "SET_VERSIONS_RANGE", "SET_SWUPDATE_VARS",
                              "GET_SWUPDATE_VARS", "SET_DELTA_URL"}
  BY DEF TextArguments
<1>2. Sizes.key \in Nat \ {0} /\ Sizes.iv \in Nat \ {0} /\ Sizes.name \in Nat \ {0}
      /\ Sizes.url \in Nat \ {0}
  BY SizeTypes DEF Arrays
<1>3. CASE method = "SET_AES_KEY"
  <2>1. RequestVariant[method] = "aeskeymsg" /\ name \in {"key_ascii", "ivt_ascii"}
    BY <1>3 DEF RequestVariant, TextArguments
  <2>2. /\ DOMAIN msgdata["aeskeymsg"] = 1..2
        /\ msgdata["aeskeymsg"][1] = Chars("key_ascii", Sizes.key)
        /\ msgdata["aeskeymsg"][2] = Chars("ivt_ascii", Sizes.iv)
    BY DEF msgdata
  <2>3. 1 \in DOMAIN msgdata["aeskeymsg"] /\ 2 \in DOMAIN msgdata["aeskeymsg"]
        /\ "aeskeymsg" \in DOMAIN msgdata /\ method \in DOMAIN RequestVariant
    BY <1>3, <2>2 DEF msgdata, RequestVariant
  <2> QED BY <1>2, <2>1, <2>2, <2>3 DEF Chars, IsNumber
<1>4. CASE method = "SET_VERSIONS_RANGE"
  <2>1. RequestVariant[method] = "versions"
        /\ name \in {"minimum_version", "maximum_version", "current_version", "update_type"}
    BY <1>4 DEF RequestVariant, TextArguments
  <2>2. /\ DOMAIN msgdata["versions"] = 1..4
        /\ msgdata["versions"][1] = Chars("minimum_version", Sizes.name)
        /\ msgdata["versions"][2] = Chars("maximum_version", Sizes.name)
        /\ msgdata["versions"][3] = Chars("current_version", Sizes.name)
        /\ msgdata["versions"][4] = Chars("update_type", Sizes.name)
    BY DEF msgdata
  <2>3. 1 \in DOMAIN msgdata["versions"] /\ 2 \in DOMAIN msgdata["versions"]
        /\ 3 \in DOMAIN msgdata["versions"] /\ 4 \in DOMAIN msgdata["versions"]
        /\ "versions" \in DOMAIN msgdata /\ method \in DOMAIN RequestVariant
    BY <1>4, <2>2 DEF msgdata, RequestVariant
  <2> QED BY <1>2, <2>1, <2>2, <2>3 DEF Chars, IsNumber
<1>5. CASE method \in {"SET_SWUPDATE_VARS", "GET_SWUPDATE_VARS"}
  <2>1. RequestVariant[method] = "vars" /\ name \in {"varnamespace", "varname", "varvalue"}
    BY <1>5 DEF RequestVariant, TextArguments
  <2>2. /\ DOMAIN msgdata["vars"] = 1..3
        /\ msgdata["vars"][1] = Chars("varnamespace", Sizes.name)
        /\ msgdata["vars"][2] = Chars("varname", Sizes.name)
        /\ msgdata["vars"][3] = Chars("varvalue", Sizes.name)
    BY DEF msgdata
  <2>3. 1 \in DOMAIN msgdata["vars"] /\ 2 \in DOMAIN msgdata["vars"]
        /\ 3 \in DOMAIN msgdata["vars"]
        /\ "vars" \in DOMAIN msgdata /\ method \in DOMAIN RequestVariant
    BY <1>5, <2>2 DEF msgdata, RequestVariant
  <2> QED BY <1>2, <2>1, <2>2, <2>3 DEF Chars, IsNumber
<1>6. CASE method = "SET_DELTA_URL"
  <2>1. RequestVariant[method] = "dwl_url" /\ name \in {"filename", "url"}
    BY <1>6 DEF RequestVariant, TextArguments
  <2>2. /\ DOMAIN msgdata["dwl_url"] = 1..2
        /\ msgdata["dwl_url"][1] = Chars("filename", Sizes.name)
        /\ msgdata["dwl_url"][2] = Chars("url", Sizes.url)
    BY DEF msgdata
  <2>3. 1 \in DOMAIN msgdata["dwl_url"] /\ 2 \in DOMAIN msgdata["dwl_url"]
        /\ "dwl_url" \in DOMAIN msgdata /\ method \in DOMAIN RequestVariant
    BY <1>6, <2>2 DEF msgdata, RequestVariant
  <2> QED BY <1>2, <2>1, <2>2, <2>3 DEF Chars, IsNumber
<1> QED BY <1>1, <1>3, <1>4, <1>5, <1>6

\* What is given is the arguments, and apiversion for an installation.
LEMMA GivenNames ==
    ASSUME NEW method \in DOMAIN RequestVariant, NEW args, "apiversion" \notin DOMAIN args
    PROVE  /\ \A name \in DOMAIN Given(method, args) :
                 \/ name \in DOMAIN args
                 \/ name = "apiversion" /\ method = "REQ_INSTALL"
           /\ \A name \in DOMAIN args :
                 name \in DOMAIN Given(method, args) /\ Given(method, args)[name] = args[name]
           /\ method = "REQ_INSTALL" => /\ "apiversion" \in DOMAIN Given(method, args)
                                        /\ Given(method, args)["apiversion"] = 1
BY DEF Given, SWUPDATE_API_VERSION

\* The arguments of an installation have fields.
LEMMA InstallFields ==
    ASSUME NEW args \in InstallRequests, NEW name \in DOMAIN args
    PROVE  \E i \in DOMAIN swupdate_request :
              swupdate_request[i].name = name /\ IsArgument(swupdate_request[i], args[name])
<1> DEFINE s == swupdate_request
<1>1. /\ DOMAIN s = 1..8
      /\ s[2] = Int32("source") /\ s[3] = Int32("dry_run") /\ s[4] = SizeT("len")
      /\ s[5] = Chars("info", Sizes.info) /\ s[6] = Chars("software_set", Sizes.name)
      /\ s[7] = Chars("running_mode", Sizes.name) /\ s[8] = Chars("disable_store_swu", 1)
  BY DEF swupdate_request
<1>2. 2 \in DOMAIN s /\ 3 \in DOMAIN s /\ 4 \in DOMAIN s /\ 5 \in DOMAIN s /\ 6 \in DOMAIN s
      /\ 7 \in DOMAIN s /\ 8 \in DOMAIN s
  BY <1>1
<1> HIDE DEF s
<1>3. /\ DOMAIN args = {"source", "dry_run", "len", "info", "software_set", "running_mode",
                        "disable_store_swu"}
      /\ args.source \in ToSet(Sources) /\ args.dry_run \in ToSet(RunModes)
      /\ args.len \in Lengths /\ args.info \in Texts /\ args.software_set \in Texts
      /\ args.running_mode \in Texts /\ args.disable_store_swu \in {0, 1}
  BY DEF InstallRequests
<1>4. Sizes.info \in Nat \ {0} /\ Sizes.name \in Nat \ {0}
  BY SizeTypes DEF Arrays
<1>5. CASE name = "source"
  <2> DEFINE n == ToNumber(Sources, args.source)
  <2>1. n \in 0..(Len(Sources) - 1)
    BY <1>3, Enums, NumberFound
  <2>2. Number("source", args.source) = n
    BY DEF Number
  <2> HIDE DEF n
  <2>3. n \in -1..100
    BY <2>1, Enums
  <2>4. IsArgument(s[2], args.source)
    BY <1>1, <2>2, <2>3, SmallNumbers DEF IsArgument, IsNumber, Int32
  <2> QED BY <1>1, <1>2, <1>5, <2>4 DEF Int32, s
<1>6. CASE name = "dry_run"
  <2> DEFINE n == ToNumber(RunModes, args.dry_run)
  <2>1. n \in 0..(Len(RunModes) - 1)
    BY <1>3, Enums, NumberFound
  <2>2. Number("dry_run", args.dry_run) = n
    BY DEF Number
  <2> HIDE DEF n
  <2>3. n \in -1..100
    BY <2>1, Enums
  <2>4. IsArgument(s[3], args.dry_run)
    BY <1>1, <2>2, <2>3, SmallNumbers DEF IsArgument, IsNumber, Int32
  <2> QED BY <1>1, <1>2, <1>6, <2>4 DEF Int32, s
<1>7. CASE name = "len"
  <2>1. args.len \in Seq(Byte) /\ Len(args.len) = 8
    BY <1>3, InputsAssumption
  <2> QED BY <1>1, <1>2, <1>7, <2>1 DEF IsArgument, SizeT, s
<1>8. CASE name = "info"
  <2>1. args.info \in Seq(Byte)
    BY <1>3, InputsAssumption
  <2> QED BY <1>1, <1>2, <1>4, <1>8, <2>1 DEF IsArgument, IsNumber, Chars, s
<1>9. CASE name = "software_set"
  <2>1. args.software_set \in Seq(Byte)
    BY <1>3, InputsAssumption
  <2> QED BY <1>1, <1>2, <1>4, <1>9, <2>1 DEF IsArgument, IsNumber, Chars, s
<1>10. CASE name = "running_mode"
  <2>1. args.running_mode \in Seq(Byte)
    BY <1>3, InputsAssumption
  <2> QED BY <1>1, <1>2, <1>4, <1>10, <2>1 DEF IsArgument, IsNumber, Chars, s
<1>11. CASE name = "disable_store_swu"
  <2>1. args.disable_store_swu \in Byte
    BY <1>3 DEF Byte
  <2> QED BY <1>1, <1>2, <1>11, <2>1 DEF IsArgument, IsNumber, Chars, s
<1> QED BY <1>3, <1>5, <1>6, <1>7, <1>8, <1>9, <1>10, <1>11

\* Those of a message to a subprocess.
LEMMA SubprocessFields ==
    ASSUME NEW args \in [source : ToSet(Sources), cmd : ToSet(SubprocessCmds),
                         timeout : Codes],
           NEW name \in DOMAIN args
    PROVE  \E i \in DOMAIN msgdata["procmsg"] :
              /\ msgdata["procmsg"][i].name = name
              /\ IsArgument(msgdata["procmsg"][i], args[name])
<1> DEFINE s == msgdata["procmsg"]
<1>1. /\ DOMAIN s = 1..4
      /\ s[1] = Int32("source") /\ s[2] = Int32("cmd") /\ s[3] = Int32("timeout")
  BY DEF msgdata
<1>2. 1 \in DOMAIN s /\ 2 \in DOMAIN s /\ 3 \in DOMAIN s
  BY <1>1
<1> HIDE DEF s
<1>3. /\ DOMAIN args = {"source", "cmd", "timeout"}
      /\ args.source \in ToSet(Sources) /\ args.cmd \in ToSet(SubprocessCmds)
      /\ args.timeout \in Codes
  OBVIOUS
<1>4. CASE name = "source"
  <2> DEFINE n == ToNumber(Sources, args.source)
  <2>1. n \in 0..(Len(Sources) - 1)
    BY <1>3, Enums, NumberFound
  <2>2. Number("source", args.source) = n
    BY DEF Number
  <2> HIDE DEF n
  <2>3. n \in -1..100
    BY <2>1, Enums
  <2>4. IsArgument(s[1], args.source)
    BY <1>1, <2>2, <2>3, SmallNumbers DEF IsArgument, IsNumber, Int32
  <2> QED BY <1>1, <1>2, <1>4, <2>4 DEF Int32, s
<1>5. CASE name = "cmd"
  <2> DEFINE n == ToNumber(SubprocessCmds, args.cmd)
  <2>1. n \in 0..(Len(SubprocessCmds) - 1)
    BY <1>3, Enums, NumberFound
  <2>2. Number("cmd", args.cmd) = n
    BY DEF Number
  <2> HIDE DEF n
  <2>3. n \in -1..100
    BY <2>1, Enums
  <2>4. IsArgument(s[2], args.cmd)
    BY <1>1, <2>2, <2>3, SmallNumbers DEF IsArgument, IsNumber, Int32
  <2> QED BY <1>1, <1>2, <1>5, <2>4 DEF Int32, s
<1>6. CASE name = "timeout"
  <2>1. Number("timeout", args.timeout) = args.timeout
    BY DEF Number
  <2>2. args.timeout \in (-MaxNumber - 1)..MaxNumber
    BY <1>3, InputsAssumption
  <2>3. IsArgument(s[3], args.timeout)
    BY <1>1, <2>1, <2>2 DEF IsArgument, IsNumber, Int32
  <2> QED BY <1>1, <1>2, <1>6, <2>3 DEF Int32, s
<1> QED BY <1>3, <1>4, <1>5, <1>6

\* And an update state.
LEMMA StateField ==
    ASSUME NEW args \in [msg : ToSet(UpdateStates)], NEW name \in DOMAIN args
    PROVE  \E i \in DOMAIN msgdata["msg"] :
              msgdata["msg"][i].name = name /\ IsArgument(msgdata["msg"][i], args[name])
<1> DEFINE s == msgdata["msg"]
           n == ToNumber(UpdateStates, args.msg)
<1>1. 1 \in DOMAIN s /\ s[1] = Chars("msg", Sizes.msg)
  BY DEF msgdata
<1>2. name = "msg" /\ args.msg \in ToSet(UpdateStates)
  OBVIOUS
<1>3. n \in 0..(Len(UpdateStates) - 1)
  BY <1>2, Enums, NumberFound
<1>4. Number("msg", args.msg) = 48 + n
  BY DEF Number, UpdateStateToWire
<1> HIDE DEF s, n
<1>5. 48 + n \in -1..100
  BY <1>3, Enums
<1>6. Sizes.msg \in Nat /\ Sizes.msg >= 4
  BY SizeTypes, SizesAssumption
<1>7. IsArgument(s[1], args.msg)
  BY <1>1, <1>4, <1>5, <1>6, SmallNumbers DEF IsArgument, IsNumber, Chars
<1> QED BY <1>1, <1>2, <1>7 DEF Chars, s


\* Every argument of every method has a field.
LEMMA ArgumentFields ==
    ASSUME NEW method \in DOMAIN RequestVariant, NEW args \in Arguments(method),
           NEW name \in DOMAIN Given(method, args)
    PROVE  /\ RequestVariant[method] \in DOMAIN msgdata
           /\ \E i \in DOMAIN msgdata[RequestVariant[method]] :
                 /\ msgdata[RequestVariant[method]][i].name = name
                 /\ IsArgument(msgdata[RequestVariant[method]][i], Given(method, args)[name])
<1>1. /\ DOMAIN RequestVariant =
             {"REQ_INSTALL", "SET_AES_KEY", "SET_VERSIONS_RANGE", "SET_SWUPDATE_VARS",
              "GET_SWUPDATE_VARS", "SWUPDATE_SUBPROCESS", "SET_DELTA_URL", "SET_UPDATE_STATE",
              "POST_UPDATE", "GET_STATUS", "GET_UPDATE_STATE", "GET_HW_REVISION"}
      /\ DOMAIN TextArguments = {"SET_AES_KEY", "SET_VERSIONS_RANGE", "SET_SWUPDATE_VARS",
                                 "GET_SWUPDATE_VARS", "SET_DELTA_URL"}
  BY DEF RequestVariant, TextArguments
<1>2. RequestVariant[method] \in DOMAIN msgdata
  BY DEF RequestVariant, msgdata
<1>3. CASE method = "REQ_INSTALL"
  <2>1. args \in InstallRequests
    BY <1>1, <1>3 DEF Arguments
  <2>2. msgdata[RequestVariant[method]] = swupdate_request
    BY <1>3 DEF RequestVariant, msgdata
  <2>3. "apiversion" \notin DOMAIN args
    BY <2>1 DEF InstallRequests
  <2>4. CASE name \in DOMAIN args
    <3>1. Given(method, args)[name] = args[name]
      BY <2>3, <2>4, GivenNames
    <3> QED BY <1>2, <2>1, <2>2, <2>4, <3>1, InstallFields
  <2>5. CASE name = "apiversion"
    <3>1. Given(method, args)[name] = 1
      BY <1>3, <2>3, <2>5, GivenNames
    <3>2. 1 \in DOMAIN swupdate_request /\ swupdate_request[1] = Int32("apiversion")
      BY DEF swupdate_request
    <3>3. Number("apiversion", 1) = 1 /\ 1 \in -1..100
      BY DEF Number
    <3>4. IsArgument(swupdate_request[1], 1)
      BY <3>2, <3>3, SmallNumbers DEF IsArgument, IsNumber, Int32
    <3> QED BY <1>2, <2>2, <2>5, <3>1, <3>2, <3>4 DEF Int32
  <2> QED BY <2>3, <2>4, <2>5, GivenNames
<1>4. CASE method # "REQ_INSTALL"
  <2> SUFFICES ASSUME "apiversion" \notin DOMAIN args => name \in DOMAIN args,
                      Given(method, args)[name] = args[name] \/ "apiversion" \in DOMAIN args
               PROVE  \E i \in DOMAIN msgdata[RequestVariant[method]] :
                         /\ msgdata[RequestVariant[method]][i].name = name
                         /\ IsArgument(msgdata[RequestVariant[method]][i],
                                       Given(method, args)[name])
    BY <1>2, <1>4, GivenNames
  <2>1. CASE method = "SWUPDATE_SUBPROCESS"
    <3>1. args \in [source : ToSet(Sources), cmd : ToSet(SubprocessCmds), timeout : Codes]
      BY <1>1, <2>1 DEF Arguments
    <3>2. "apiversion" \notin DOMAIN args
      BY <3>1
    <3>3. RequestVariant[method] = "procmsg"
      BY <2>1 DEF RequestVariant
    <3> QED BY <3>1, <3>2, <3>3, SubprocessFields
  <2>2. CASE method = "SET_UPDATE_STATE"
    <3>1. args \in [msg : ToSet(UpdateStates)]
      BY <1>1, <2>2 DEF Arguments
    <3>2. "apiversion" \notin DOMAIN args
      BY <3>1
    <3>3. RequestVariant[method] = "msg"
      BY <2>2 DEF RequestVariant
    <3> QED BY <3>1, <3>2, <3>3, StateField
  <2>3. CASE method \in DOMAIN TextArguments
    <3>1. args \in [TextArguments[method] -> Texts]
      BY <1>1, <2>3 DEF Arguments
    <3>2. "apiversion" \notin DOMAIN args
      BY <2>3, <3>1 DEF TextArguments
    <3>3. name \in TextArguments[method] /\ Given(method, args)[name] = args[name]
          /\ args[name] \in Texts
      BY <3>1, <3>2
    <3>4. args[name] \in Seq(Byte)
      BY <3>3, InputsAssumption
    <3>5. PICK i \in DOMAIN msgdata[RequestVariant[method]] :
             LET field == msgdata[RequestVariant[method]][i] IN
             /\ field.name = name /\ field.size \in Nat \ {0} /\ ~IsNumber(field)
             /\ name \notin {"len", "disable_store_swu"}
      BY <2>3, <3>3, TextFields
    <3>6. IsArgument(msgdata[RequestVariant[method]][i], Given(method, args)[name])
      BY <3>3, <3>4, <3>5 DEF IsArgument
    <3> QED BY <3>5, <3>6
  <2>4. CASE method \notin DOMAIN TextArguments \cup {"SWUPDATE_SUBPROCESS", "SET_UPDATE_STATE"}
    <3>1. args = <<>>
      BY <1>1, <1>4, <2>4 DEF Arguments
    <3>2. DOMAIN args = {}
      BY <3>1
    <3> QED BY <3>2
  <2> QED BY <2>1, <2>2, <2>3, <2>4
<1> QED BY <1>3, <1>4

-----------------------------------------------------------------------------
(* A request.                                                               *)

\* The bytes a request gives each field.
RequestData(method, args) ==
    LET struct == msgdata[RequestVariant[method]] IN
    [name \in DOMAIN Given(method, args) |->
        Encoded(struct[Index(struct, name)], Given(method, args)[name])]

\* A request is a new message with them in it.
LEMMA Built ==
    ASSUME NEW method \in DOMAIN RequestVariant, NEW args \in Arguments(method)
    PROVE  /\ method \in ToSet(MsgTypes)
           /\ build(method, args) = Write(RawIpcMessage(method), DataAt,
                                          msgdata[RequestVariant[method]],
                                          RequestData(method, args))
           /\ Fits(msgdata[RequestVariant[method]], RequestData(method, args))
<1> DEFINE v == RequestVariant[method]
           s == msgdata[v]
           g == Given(method, args)
           d == RequestData(method, args)
<1>1. v \in DOMAIN msgdata
  BY DEF RequestVariant, msgdata
<1>2. IsStruct(s)
  BY <1>1, Variants
<1>3. build(method, args) = Write(RawIpcMessage(method), DataAt, s, d)
  BY UnionsAlike DEF build, Store, RequestData
<1>4. \A i \in DOMAIN s : s[i].name \in DOMAIN d =>
         d[s[i].name] \in Seq(Byte) /\ Len(d[s[i].name]) <= s[i].size
  <2> SUFFICES ASSUME NEW i \in DOMAIN s, s[i].name \in DOMAIN g
               PROVE  d[s[i].name] \in Seq(Byte) /\ Len(d[s[i].name]) <= s[i].size
    BY DEF RequestData
  <2> DEFINE name == s[i].name
  <2>1. PICK j \in DOMAIN s : s[j].name = name /\ IsArgument(s[j], g[name])
    BY ArgumentFields
  <2>2. Index(s, name) = i /\ j = i
    <3> HIDE DEF s, g
    <3>1. Index(s, s[i].name) = i
      BY <1>2, IndexFound
    <3>2. Index(s, s[j].name) = j
      BY <1>2, <2>1, IndexFound
    <3> QED BY <2>1, <3>1, <3>2
  <2>3. d[name] = Encoded(s[i], g[name])
    BY <2>2 DEF RequestData
  <2> HIDE DEF s, g, d
  <2>4. IsArgument(s[i], g[name])
    BY <2>1, <2>2
  <2> HIDE DEF name
  <2>5. Encoded(s[i], g[name]) \in Seq(Byte) /\ Len(Encoded(s[i], g[name])) <= s[i].size
    BY <2>4, EncodedFits
  <2> QED BY <2>3, <2>5 DEF name
<1>5. Fits(s, d)
  <2> HIDE DEF s, d
  <2> QED BY <1>4 DEF Fits
<1> QED BY <1>3, <1>5, RequestTypes


\* The daemon knows the request for what it is.
LEMMA RequestRead ==
    ASSUME NEW method \in DOMAIN RequestVariant, NEW args \in Arguments(method)
    PROVE  LET m == build(method, args)
               s == msgdata[RequestVariant[method]] IN
           /\ Read(m).type = method /\ Read(m).magic = IPC_MAGIC
           /\ \A i \in DOMAIN s : Read(m).args[s[i].name] = Found(m, s, s[i])
<1> DEFINE v == RequestVariant[method]
           s == msgdata[v]
           d == RequestData(method, args)
           m == build(method, args)
<1>1. v \in DOMAIN msgdata
  BY DEF RequestVariant, msgdata
<1>2. IsStruct(s)
  BY <1>1, Variants
<1>3. method \in ToSet(MsgTypes) /\ m = Write(RawIpcMessage(method), DataAt, s, d) /\ Fits(s, d)
  BY Built
<1>4. IsMessage(m, method)
  <2> HIDE DEF d, m
  <2> QED BY <1>1, <1>3, HeaderKept
<1> HIDE DEF m
<1>5. from_i32(SubSeq(m, 1, 4)) = IPC_MAGIC /\ MsgTypes[from_i32(SubSeq(m, 5, 8)) + 1] = method
  BY <1>3, <1>4, HeaderRead
<1>6. Read(m) = [type |-> method, magic |-> IPC_MAGIC,
                 args |-> [name \in {s[i].name : i \in DOMAIN s} |->
                              Found(m, s, s[Index(s, name)])]]
  BY <1>5 DEF Read
<1> HIDE DEF s
<1>7. \A i \in DOMAIN s : Index(s, s[i].name) = i
  BY <1>2, IndexFound
<1>8. \A i \in DOMAIN s : Read(m).args[s[i].name] = Found(m, s, s[i])
  BY <1>6, <1>7
<1>9. Read(m).type = method /\ Read(m).magic = IPC_MAGIC
  BY <1>6
<1> QED BY <1>8, <1>9 DEF m, s

\* What the daemon makes of an argument.
Arrived(field, given, found) ==
    IF IsNumber(field) \/ field.name = "disable_store_swu"
    THEN found = Number(field.name, given)
    ELSE field.name # "len" => Delivered(given, field.size, found)

\* From a field that holds an argument the daemon reads that argument.
LEMMA FieldFound ==
    ASSUME NEW s, IsStruct(s), NEW i \in DOMAIN s, NEW m \in Seq(Byte), NEW value,
           IsArgument(s[i], value),
           Holds(Field(m, DataAt, s, s[i].name), Encoded(s[i], value)),
           Len(Field(m, DataAt, s, s[i].name)) = s[i].size,
           DataAt + Offsets(s)[i] + s[i].size <= Len(m),
           \A k \in 1..s[i].size :
              m[DataAt + Offsets(s)[i] + k] = IF k <= Len(Encoded(s[i], value))
                                              THEN Encoded(s[i], value)[k] ELSE 0
    PROVE  Arrived(s[i], value, Found(m, s, s[i]))
<1> DEFINE field == s[i]
           raw == Field(m, DataAt, s, field.name)
           data == Encoded(field, value)
           at == DataAt + Offsets(s)[i]
<1>1. CASE field.name = "len" /\ field.size = SizeBytes /\ value \in Seq(Byte) /\ Len(value) = 8
  <2> HIDE DEF field
  <2>1. ~IsNumber(field)
    <3>1. ~(field.name = "msg") /\ ~(field.name # "len")
      BY <1>1
    <3> QED BY <3>1 DEF IsNumber
  <2> QED BY <1>1, <2>1 DEF Arrived, field
<1>2. CASE field.name = "disable_store_swu" /\ field.size = 1 /\ value \in Byte /\ ~IsNumber(field)
  <2> HIDE DEF raw
  <2>1. Found(m, s, field) = raw[1]
    BY <1>2 DEF Found, raw
  <2>2. data = <<value>>
    BY <1>2 DEF Encoded
  <2>3. raw[1] = data[1] /\ Len(data) = 1
    BY <1>2, <2>2 DEF Holds, raw
  <2>4. Number(field.name, value) = value
    BY <1>2 DEF Number
  <2> QED BY <1>2, <2>1, <2>2, <2>3, <2>4 DEF Arrived
<1>3. CASE /\ IsNumber(field) /\ field.name \notin {"len", "disable_store_swu"}
           /\ field.size \in Nat /\ field.size >= 4
           /\ Number(field.name, value) \in (-MaxNumber - 1)..MaxNumber
  <2> DEFINE n == Number(field.name, value)
  <2>1. Found(m, s, field) = from_i32(SubSeq(raw, 1, 4))
    BY <1>3 DEF Found
  <2>2. data = to_bytes(n)
    BY <1>3 DEF Encoded
  <2>3. n \in (-MaxNumber - 1)..MaxNumber /\ Holds(raw, to_bytes(n))
    BY <1>3, <2>2
  <2> HIDE DEF n, raw, field
  <2>4. from_i32(SubSeq(raw, 1, 4)) = n
    BY <2>3, HoldsSigned
  <2> QED BY <1>3, <2>1, <2>4 DEF Arrived, n, field
<1>4. CASE /\ ~IsNumber(field) /\ field.name \notin {"len", "disable_store_swu"}
           /\ field.size \in Nat \ {0} /\ value \in Seq(Byte)
  <2> DEFINE size == field.size
  <2>1. Index(s, field.name) = i
    BY IndexFound
  <2>2. Found(m, s, field) = UpToNul(SubSeq(m, at + 1, Len(m)))
    <3> HIDE DEF raw
    <3>1. Found(m, s, field)
              = UpToNul(SubSeq(m, DataAt + OffsetOf(s, field.name) + 1, Len(m)))
      BY <1>4 DEF Found
    <3>2. OffsetOf(s, field.name) = Offsets(s)[i]
      BY <2>1 DEF OffsetOf
    <3> QED BY <3>1, <3>2
  <2>3. data = write_cstr(size, value)
    BY <1>4 DEF Encoded
  <2>4. at \in Nat /\ size \in Nat \ {0} /\ at + size <= Len(m)
    <3>1. Offsets(s)[i] \in Nat /\ DataAt \in Nat
      BY FieldTypes, Room
    <3> QED BY <1>4, <3>1
  <2>5. \A k \in 1..size : m[at + k] = IF k <= Len(write_cstr(size, value))
                                       THEN write_cstr(size, value)[k] ELSE 0
    BY <2>3
  <2> HIDE DEF at, size, data, raw, field
  <2>6. Delivered(value, size, UpToNul(SubSeq(m, at + 1, Len(m))))
    BY <1>4, <2>4, <2>5, StringFound
  <2> QED BY <1>4, <2>2, <2>6 DEF Arrived, size, field
<1> QED BY <1>1, <1>2, <1>3, <1>4 DEF IsArgument

\* Every argument arrives.
LEMMA ArgumentRead ==
    ASSUME NEW method \in DOMAIN RequestVariant, NEW args \in Arguments(method),
           NEW name \in DOMAIN Given(method, args)
    PROVE  LET s == msgdata[RequestVariant[method]]
               field == s[Index(s, name)] IN
           /\ field.name = name
           /\ Arrived(field, Given(method, args)[name], Read(build(method, args)).args[name])
<1> DEFINE v == RequestVariant[method]
           s == msgdata[v]
           d == RequestData(method, args)
           g == Given(method, args)
           m == build(method, args)
<1>1. v \in DOMAIN msgdata
  BY DEF RequestVariant, msgdata
<1>2. IsStruct(s)
  BY <1>1, Variants
<1>3. method \in ToSet(MsgTypes) /\ m = Write(RawIpcMessage(method), DataAt, s, d) /\ Fits(s, d)
  BY Built
<1>4. PICK i \in DOMAIN s : s[i].name = name /\ IsArgument(s[i], g[name])
  BY ArgumentFields
<1>5. Index(s, name) = i
  <2> HIDE DEF s
  <2>1. Index(s, s[i].name) = i
    BY <1>2, IndexFound
  <2> QED BY <1>4, <2>1
<1>6. s[i].name \in DOMAIN d /\ d[s[i].name] = Encoded(s[i], g[name])
  <2>1. name \in DOMAIN g
    OBVIOUS
  <2>2. d = [n \in DOMAIN g |-> Encoded(s[Index(s, n)], g[n])]
    BY DEF RequestData
  <2> HIDE DEF s, d, g
  <2> QED BY <1>4, <1>5, <2>1, <2>2
<1>7. Read(m).args[s[i].name] = Found(m, s, s[i])
  BY RequestRead
<1>8. /\ Holds(Field(m, DataAt, s, s[i].name), d[s[i].name])
      /\ Len(Field(m, DataAt, s, s[i].name)) = s[i].size
      /\ DataAt + Offsets(s)[i] + s[i].size <= Len(m)
      /\ \A k \in 1..s[i].size :
            m[DataAt + Offsets(s)[i] + k]
                = IF k <= Len(d[s[i].name]) THEN d[s[i].name][k] ELSE 0
  <2> HIDE DEF d, m
  <2> QED BY <1>1, <1>3, <1>6, DataWritten
<1>9. m \in Seq(Byte)
  <2> HIDE DEF d, m
  <2>1. IsMessage(m, method)
    BY <1>1, <1>3, HeaderKept
  <2> QED BY <2>1 DEF IsMessage
<1> HIDE DEF s, d, g, m, v
<1>10. Arrived(s[i], g[name], Found(m, s, s[i]))
  <2>1. /\ Holds(Field(m, DataAt, s, s[i].name), Encoded(s[i], g[name]))
        /\ \A k \in 1..s[i].size :
              m[DataAt + Offsets(s)[i] + k]
                  = IF k <= Len(Encoded(s[i], g[name])) THEN Encoded(s[i], g[name])[k] ELSE 0
    BY <1>6, <1>8
  <2> QED BY <1>2, <1>4, <1>8, <1>9, <2>1, FieldFound
<1> QED BY <1>4, <1>5, <1>7, <1>10 DEF s, g, m, v


-----------------------------------------------------------------------------
(* A reply.                                                                 *)

\* A value the daemon gives a field.
IsAnswer(field, value) ==
    \/ IsNumber(field) /\ field.size \in Nat /\ field.size >= 4
       /\ value \in (-MaxNumber - 1)..MaxNumber
    \/ ~IsNumber(field) /\ field.size \in Nat /\ NulFree(value) /\ Len(value) <= field.size

\* The strings of a reply are C strings that fit their fields.
LEMMA FittingStrings ==
    ASSUME NEW text \in Fitting
    PROVE  NulFree(text) /\ Len(text) <= Sizes.name /\ Len(text) <= Sizes.text
<1>1. text \in CStrings /\ Len(text) < Min({Sizes.name, Sizes.text})
  BY DEF Fitting
<1>2. text \in Seq(Byte) /\ 0 \notin ToSet(text)
  BY <1>1, InputsAssumption
<1>3. \A k \in 1..Len(text) : text[k] # 0
  <2>1. \A k \in DOMAIN text : text[k] \in ToSet(text)
    BY DEF ToSet
  <2>2. DOMAIN text = 1..Len(text)
    BY <1>2
  <2> QED BY <1>2, <2>1, <2>2
<1>4. Sizes.name \in Int /\ Sizes.text \in Int
  BY SizeTypes
<1>5. Min({Sizes.name, Sizes.text}) = IF Sizes.name <= Sizes.text THEN Sizes.name ELSE Sizes.text
  BY <1>4, MinOfTwo
<1>6. Len(text) <= Sizes.name /\ Len(text) <= Sizes.text
  <2>1. Len(text) \in Nat
    BY <1>2
  <2> QED BY <1>1, <1>4, <1>5, <2>1
<1> QED BY <1>2, <1>3, <1>6 DEF NulFree

\* A status has fields for what the daemon answers.
LEMMA StatusFields ==
    ASSUME NEW values \in [current : Codes, last_result : Codes, error : Codes,
                           desc : Fitting],
           NEW name \in DOMAIN values
    PROVE  \E i \in DOMAIN msgdata["status"] :
              /\ msgdata["status"][i].name = name
              /\ IsAnswer(msgdata["status"][i], values[name])
<1> DEFINE s == msgdata["status"]
<1>1. /\ DOMAIN s = 1..4 /\ s[1] = Int32("current") /\ s[2] = Int32("last_result")
      /\ s[3] = Int32("error") /\ s[4] = Chars("desc", Sizes.text)
  BY DEF msgdata
<1>2. 1 \in DOMAIN s /\ 2 \in DOMAIN s /\ 3 \in DOMAIN s /\ 4 \in DOMAIN s
  BY <1>1
<1>3. /\ DOMAIN values = {"current", "last_result", "error", "desc"}
      /\ values.current \in Codes /\ values.last_result \in Codes
      /\ values.error \in Codes /\ values.desc \in Fitting
  OBVIOUS
<1> HIDE DEF s
<1>4. CASE name = "current"
  <2>1. values.current \in (-MaxNumber - 1)..MaxNumber
    BY <1>3, InputsAssumption
  <2>2. IsAnswer(s[1], values.current)
    BY <1>1, <2>1 DEF IsAnswer, IsNumber, Int32
  <2> QED BY <1>1, <1>2, <1>4, <2>2 DEF Int32, s
<1>5. CASE name = "last_result"
  <2>1. values.last_result \in (-MaxNumber - 1)..MaxNumber
    BY <1>3, InputsAssumption
  <2>2. IsAnswer(s[2], values.last_result)
    BY <1>1, <2>1 DEF IsAnswer, IsNumber, Int32
  <2> QED BY <1>1, <1>2, <1>5, <2>2 DEF Int32, s
<1>6. CASE name = "error"
  <2>1. values.error \in (-MaxNumber - 1)..MaxNumber
    BY <1>3, InputsAssumption
  <2>2. IsAnswer(s[3], values.error)
    BY <1>1, <2>1 DEF IsAnswer, IsNumber, Int32
  <2> QED BY <1>1, <1>2, <1>6, <2>2 DEF Int32, s
<1>7. CASE name = "desc"
  <2>1. NulFree(values.desc) /\ Len(values.desc) <= Sizes.text /\ Sizes.text \in Nat
    BY <1>3, FittingStrings, SizeTypes
  <2>2. IsAnswer(s[4], values.desc)
    BY <1>1, <2>1 DEF IsAnswer, IsNumber, Chars
  <2> QED BY <1>1, <1>2, <1>7, <2>2 DEF Chars, s
<1> QED BY <1>3, <1>4, <1>5, <1>6, <1>7

\* The array of characters where an answer goes.
LEMMA AnswerArray ==
    ASSUME NEW s, NEW i \in DOMAIN s, NEW name, s[i] = Chars(name, Sizes.name), name # "msg",
           NEW text \in Fitting
    PROVE  s[i].name = name /\ IsAnswer(s[i], text)
<1>1. NulFree(text) /\ Len(text) <= Sizes.name /\ Sizes.name \in Nat
  BY FittingStrings, SizeTypes
<1> QED BY <1>1 DEF IsAnswer, IsNumber, Chars

\* Every answer has fields.
LEMMA AnswerFields ==
    ASSUME NEW method \in Queries, NEW values \in Answers(method), NEW name \in DOMAIN values
    PROVE  /\ AnswerVariant[method] \in DOMAIN msgdata
           /\ \E i \in DOMAIN msgdata[AnswerVariant[method]] :
                 /\ msgdata[AnswerVariant[method]][i].name = name
                 /\ IsAnswer(msgdata[AnswerVariant[method]][i], values[name])
<1>1. Queries = {"GET_STATUS", "GET_UPDATE_STATE", "GET_HW_REVISION", "GET_SWUPDATE_VARS"}
  BY DEF Queries, AnswerVariant
<1>2. AnswerVariant[method] \in DOMAIN msgdata
  BY DEF Queries, AnswerVariant, msgdata
<1>3. CASE method = "GET_STATUS"
  <2>1. values \in [current : Codes, last_result : Codes, error : Codes, desc : Fitting]
    BY <1>3 DEF Answers
  <2>2. AnswerVariant[method] = "status"
    BY <1>3 DEF AnswerVariant
  <2> QED BY <1>2, <2>1, <2>2, StatusFields
<1>4. CASE method = "GET_UPDATE_STATE"
  <2>1. values \in [msg : Codes]
    BY <1>4 DEF Answers
  <2>2. AnswerVariant[method] = "msg"
    BY <1>4 DEF AnswerVariant
  <2>3. name = "msg" /\ values[name] \in (-MaxNumber - 1)..MaxNumber
    BY <2>1, InputsAssumption
  <2>4. 1 \in DOMAIN msgdata["msg"] /\ msgdata["msg"][1] = Chars("msg", Sizes.msg)
    BY DEF msgdata
  <2>5. Sizes.msg \in Nat /\ Sizes.msg >= 4
    BY SizeTypes, SizesAssumption
  <2>6. IsAnswer(msgdata["msg"][1], values[name])
    BY <2>3, <2>4, <2>5 DEF IsAnswer, IsNumber, Chars
  <2> QED BY <1>2, <2>2, <2>3, <2>4, <2>6 DEF Chars
<1>5. CASE method = "GET_HW_REVISION"
  <2>1. values \in [boardname : Fitting, revision : Fitting]
    BY <1>5 DEF Answers
  <2>2. AnswerVariant[method] = "revisions"
    BY <1>5 DEF AnswerVariant
  <2>3. name \in {"boardname", "revision"} /\ values[name] \in Fitting
    BY <2>1
  <2>4. /\ 1 \in DOMAIN msgdata["revisions"] /\ 2 \in DOMAIN msgdata["revisions"]
        /\ msgdata["revisions"][1] = Chars("boardname", Sizes.name)
        /\ msgdata["revisions"][2] = Chars("revision", Sizes.name)
    BY DEF msgdata
  <2>5. \E i \in DOMAIN msgdata["revisions"] : msgdata["revisions"][i] = Chars(name, Sizes.name)
    BY <2>3, <2>4
  <2> QED BY <1>2, <2>2, <2>3, <2>5, AnswerArray
<1>6. CASE method = "GET_SWUPDATE_VARS"
  <2>1. values \in [varnamespace : Fitting, varname : Fitting, varvalue : Fitting]
    BY <1>6 DEF Answers
  <2>2. AnswerVariant[method] = "vars"
    BY <1>6 DEF AnswerVariant
  <2>3. name \in {"varnamespace", "varname", "varvalue"} /\ values[name] \in Fitting
    BY <2>1
  <2>4. /\ 1 \in DOMAIN msgdata["vars"] /\ 2 \in DOMAIN msgdata["vars"]
        /\ 3 \in DOMAIN msgdata["vars"]
        /\ msgdata["vars"][1] = Chars("varnamespace", Sizes.name)
        /\ msgdata["vars"][2] = Chars("varname", Sizes.name)
        /\ msgdata["vars"][3] = Chars("varvalue", Sizes.name)
    BY DEF msgdata
  <2>5. \E i \in DOMAIN msgdata["vars"] : msgdata["vars"][i] = Chars(name, Sizes.name)
    BY <2>3, <2>4
  <2> QED BY <1>2, <2>2, <2>3, <2>5, AnswerArray
<1> QED BY <1>1, <1>3, <1>4, <1>5, <1>6

\* The bytes of a value in a reply ...
AnswerBytes(field, value) == IF IsNumber(field) THEN to_bytes(value) ELSE value

\* ... fit its field ...
LEMMA AnswerFits ==
    ASSUME NEW field, NEW value, IsAnswer(field, value)
    PROVE  AnswerBytes(field, value) \in Seq(Byte) /\ Len(AnswerBytes(field, value)) <= field.size
<1>1. CASE IsNumber(field)
  <2>1. value \in Int /\ field.size >= 4
    BY <1>1, NumberRange DEF IsAnswer
  <2>2. to_bytes(value) \in Seq(Byte) /\ Len(to_bytes(value)) = 4
    BY <2>1, NumberBytes
  <2> QED BY <1>1, <2>1, <2>2 DEF AnswerBytes
<1>2. CASE ~IsNumber(field)
  BY <1>2 DEF AnswerBytes, IsAnswer, NulFree
<1> QED BY <1>1, <1>2

\* ... and are the ones that a reply is given.
ReplyData(method, values) ==
    LET struct == msgdata[AnswerVariant[method]] IN
    [name \in DOMAIN values |-> AnswerBytes(struct[Index(struct, name)], values[name])]

\* From each field of a reply a method reads what the daemon put there.
LEMMA AnswerRead ==
    ASSUME NEW method \in Queries, NEW values \in Answers(method), NEW name \in DOMAIN values
    PROVE  LET s == msgdata[AnswerVariant[method]]
               m == Reply(method, values) IN
           IF IsNumber(s[Index(s, name)]) THEN Number32(m, s, name) = values[name]
           ELSE Text(m, s, name) = from_utf8_lossy(values[name])
<1> DEFINE v == AnswerVariant[method]
           s == msgdata[v]
           d == ReplyData(method, values)
           m == Reply(method, values)
           f == Field(m, DataAt, s, name)
<1>1. v \in DOMAIN msgdata
  BY AnswerFields
<1>2. IsStruct(s)
  BY <1>1, Variants
<1>3. m = Write(RawIpcMessage("ACK"), DataAt, s, d) /\ "ACK" \in ToSet(MsgTypes)
  BY RequestTypes DEF Reply, ReplyData, AnswerBytes
<1>4. \A n \in DOMAIN values : s[Index(s, n)].name = n /\ Index(s, n) \in DOMAIN s
                               /\ IsAnswer(s[Index(s, n)], values[n])
  <2> SUFFICES ASSUME NEW n \in DOMAIN values
               PROVE  s[Index(s, n)].name = n /\ Index(s, n) \in DOMAIN s
                      /\ IsAnswer(s[Index(s, n)], values[n])
    OBVIOUS
  <2>1. PICK i \in DOMAIN s : s[i].name = n /\ IsAnswer(s[i], values[n])
    BY AnswerFields
  <2> HIDE DEF s
  <2>2. Index(s, s[i].name) = i
    BY <1>2, IndexFound
  <2> QED BY <2>1, <2>2
<1>5. \A n \in DOMAIN values : d[n] = AnswerBytes(s[Index(s, n)], values[n])
  BY DEF ReplyData
<1>6. DOMAIN d = DOMAIN values
  BY DEF ReplyData
<1> HIDE DEF d, s
<1>7. Fits(s, d)
  <2>1. \A n \in DOMAIN values :
           d[n] \in Seq(Byte) /\ Len(d[n]) <= s[Index(s, n)].size
    BY <1>4, <1>5, AnswerFits
  <2>2. \A i \in DOMAIN s : Index(s, s[i].name) = i
    BY <1>2, IndexFound
  <2> QED BY <1>6, <2>1, <2>2 DEF Fits
<1> DEFINE i == Index(s, name)
<1>8. i \in DOMAIN s /\ s[i].name = name /\ IsAnswer(s[i], values[name])
      /\ d[name] = AnswerBytes(s[i], values[name])
  BY <1>4, <1>5
<1> HIDE DEF i
<1>9. Holds(Field(m, DataAt, s, s[i].name), d[s[i].name])
  <2>1. s[i].name \in DOMAIN d /\ i \in DOMAIN s
    BY <1>6, <1>8
  <2> HIDE DEF m
  <2> QED BY <1>1, <1>3, <1>7, <2>1, DataWritten DEF s
<1>10. Holds(f, AnswerBytes(s[i], values[name]))
  BY <1>8, <1>9
<1> HIDE DEF f, m
<1>11. CASE IsNumber(s[i])
  <2>1. values[name] \in (-MaxNumber - 1)..MaxNumber /\ Holds(f, to_bytes(values[name]))
    BY <1>8, <1>10, <1>11 DEF IsAnswer, AnswerBytes
  <2>2. from_i32(SubSeq(f, 1, 4)) = values[name]
    BY <2>1, HoldsSigned
  <2> QED BY <1>11, <2>2 DEF Number32, f, m, s, i
<1>12. CASE ~IsNumber(s[i])
  <2>1. NulFree(values[name]) /\ Holds(f, values[name])
    BY <1>8, <1>10, <1>12 DEF IsAnswer, AnswerBytes
  <2>2. UpToNul(f) = values[name]
    BY <2>1, HoldsString
  <2> QED BY <1>12, <2>2 DEF Text, cstr_from_bytes, f, m, s, i
<1> QED BY <1>11, <1>12


\* The variants that queries read are those that the daemon writes.
LEMMA VariantsAlike ==
    /\ RawMsgData.status = msgdata["status"] /\ RawMsgData.msg = msgdata["msg"]
    /\ RawMsgData.revisions = msgdata["revisions"] /\ RawMsgData.vars = msgdata["vars"]
BY UnionsAlike

\* A status is returned as it was answered.
LEMMA StatusReturned ==
    ASSUME NEW method, method = "GET_STATUS", NEW values \in Answers(method)
    PROVE  Returned(method, values, get_status(Reply(method, values)))
<1> DEFINE s == msgdata["status"]
           m == Reply(method, values)
           c == values.current
           l == values.last_result
<1>1. values \in [current : Codes, last_result : Codes, error : Codes, desc : Fitting]
  BY DEF Answers
<1>2. c \in Int /\ l \in Int
  <2>1. c \in Codes /\ l \in Codes
    BY <1>1
  <2>2. \A code \in Codes : code \in Int
    BY SMT, InputsAssumption, NumberRange
  <2> QED BY <2>1, <2>2
<1>3. method \in Queries /\ AnswerVariant[method] = "status"
  BY DEF Queries, AnswerVariant
<1>4. /\ 1 \in DOMAIN s /\ s[1] = Int32("current") /\ 2 \in DOMAIN s /\ s[2] = Int32("last_result")
      /\ 3 \in DOMAIN s /\ s[3] = Int32("error")
      /\ 4 \in DOMAIN s /\ s[4] = Chars("desc", Sizes.text)
  BY DEF msgdata
<1>5. IsStruct(s)
  <2>1. "status" \in DOMAIN msgdata
    BY DEF msgdata
  <2> QED BY <2>1, Variants
<1>6. \A i \in DOMAIN s : Index(s, s[i].name) = i
  <2> HIDE DEF s
  <2> QED BY <1>5, IndexFound
<1>7. \A name \in DOMAIN values :
         IF IsNumber(s[Index(s, name)]) THEN Number32(m, s, name) = values[name]
         ELSE Text(m, s, name) = from_utf8_lossy(values[name])
  BY <1>3, AnswerRead
<1>8. get_status(m) =
          IF RecoveryStatus(Number32(m, s, "current")) = "None"
             \/ RecoveryStatus(Number32(m, s, "last_result")) = "None" THEN Protocol
          ELSE Ok([current |-> RecoveryStatus(Number32(m, s, "current")),
                   last_result |-> RecoveryStatus(Number32(m, s, "last_result")),
                   error |-> Number32(m, s, "error"), desc |-> Text(m, s, "desc")])
  BY VariantsAlike DEF get_status
<1> HIDE DEF s, m
<1>9. /\ Index(s, "current") = 1 /\ Index(s, "last_result") = 2
      /\ Index(s, "error") = 3 /\ Index(s, "desc") = 4
  BY <1>4, <1>6 DEF Int32, Chars
<1>10. /\ Number32(m, s, "current") = c /\ Number32(m, s, "last_result") = l
       /\ Number32(m, s, "error") = values.error
       /\ Text(m, s, "desc") = from_utf8_lossy(values.desc)
  <2>1. /\ IsNumber(s[1]) /\ IsNumber(s[2]) /\ IsNumber(s[3]) /\ ~IsNumber(s[4])
    BY <1>4 DEF IsNumber, Int32, Chars
  <2>2. /\ "current" \in DOMAIN values /\ "last_result" \in DOMAIN values
        /\ "error" \in DOMAIN values /\ "desc" \in DOMAIN values
    BY <1>1
  <2> QED BY <1>7, <1>9, <2>1, <2>2
<1> HIDE DEF c, l
<1>11. /\ (RecoveryStatus(c) = "None") = (c \notin 0..(Len(RecoveryStatuses) - 1))
       /\ (RecoveryStatus(l) = "None") = (l \notin 0..(Len(RecoveryStatuses) - 1))
       /\ c \in 0..(Len(RecoveryStatuses) - 1) =>
             ToNumber(RecoveryStatuses, RecoveryStatus(c)) = c
       /\ l \in 0..(Len(RecoveryStatuses) - 1) =>
             ToNumber(RecoveryStatuses, RecoveryStatus(l)) = l
  BY <1>2, Enums, NameOf DEF RecoveryStatus
<1> DEFINE r == get_status(m)
<1>12. CASE RecoveryStatus(c) = "None" \/ RecoveryStatus(l) = "None"
  <2>1. r.error = TRUE
    BY <1>8, <1>10, <1>12 DEF Protocol
  <2>2. \E f \in {"current", "last_result"} : values[f] \notin 0..(Len(RecoveryStatuses) - 1)
    BY <1>11, <1>12 DEF c, l
  <2> HIDE DEF r
  <2> QED BY <2>1, <2>2 DEF Returned, r, m
<1>13. CASE ~(RecoveryStatus(c) = "None" \/ RecoveryStatus(l) = "None")
  <2>1. /\ r.error = FALSE /\ r.value.current = RecoveryStatus(c)
        /\ r.value.last_result = RecoveryStatus(l) /\ r.value.error = values.error
        /\ r.value.desc = from_utf8_lossy(values.desc)
    BY <1>8, <1>10, <1>13 DEF Ok
  <2>2. ~\E f \in {"current", "last_result"} : values[f] \notin 0..(Len(RecoveryStatuses) - 1)
    BY <1>11, <1>13 DEF c, l
  <2>3. \A f \in {"current", "last_result"} :
           ToNumber(RecoveryStatuses, r.value[f]) = values[f]
    BY <1>11, <1>13, <2>1 DEF c, l
  <2> HIDE DEF r
  <2> QED BY <2>1, <2>2, <2>3 DEF Returned, r, m
<1> QED BY <1>12, <1>13

\* When an update state is returned as it was answered.
LEMMA StateCase ==
    ASSUME NEW method, method = "GET_UPDATE_STATE", NEW values, NEW returned,
           returned.error = (values.msg \notin 48..55),
           ~returned.error => UpdateStateToWire(returned.value.msg) = values.msg
    PROVE  Returned(method, values, returned)
BY DEF Returned

\* It is ...
LEMMA StateReturned ==
    ASSUME NEW method, method = "GET_UPDATE_STATE", NEW values \in Answers(method)
    PROVE  Returned(method, values, get_update_state(Reply(method, values)))
<1> DEFINE s == msgdata["msg"]
           m == Reply(method, values)
           c == values.msg
<1>1. values \in [msg : Codes]
  BY DEF Answers
<1>2. c \in Int
  <2>1. c \in Codes
    BY <1>1
  <2>2. \A code \in Codes : code \in Int
    BY SMT, InputsAssumption, NumberRange
  <2> QED BY <2>1, <2>2
<1>3. method \in Queries /\ AnswerVariant[method] = "msg"
  BY DEF Queries, AnswerVariant
<1>4. 1 \in DOMAIN s /\ s[1] = Chars("msg", Sizes.msg) /\ IsStruct(s)
  BY TextIsStruct DEF msgdata
<1>5. "msg" \in DOMAIN values /\
      IF IsNumber(s[Index(s, "msg")]) THEN Number32(m, s, "msg") = values["msg"]
      ELSE Text(m, s, "msg") = from_utf8_lossy(values["msg"])
  <2>1. "msg" \in DOMAIN values
    BY <1>1
  <2> QED BY <1>3, <2>1, AnswerRead
<1>6. get_update_state(m) =
          IF UpdateStateFromWire(Number32(m, s, "msg")) = "None" THEN Protocol
          ELSE Ok([msg |-> UpdateStateFromWire(Number32(m, s, "msg"))])
  BY VariantsAlike DEF get_update_state
<1> HIDE DEF s, m
<1>7. Number32(m, s, "msg") = c
  <2>1. Index(s, s[1].name) = 1
    BY <1>4, IndexFound
  <2> QED BY <1>4, <1>5, <2>1 DEF IsNumber, Chars
<1> HIDE DEF c
<1> DEFINE state == UpdateStateFromWire(c)
<1>8. c - 48 \in Int
  BY <1>2
<1>9. /\ (state = "None") = (c - 48 \notin 0..(Len(UpdateStates) - 1))
      /\ c - 48 \in 0..(Len(UpdateStates) - 1) => ToNumber(UpdateStates, state) = c - 48
  BY <1>8, Enums, NameOf DEF UpdateStateFromWire
<1> HIDE DEF state
<1>10. /\ (state = "None") = (c \notin 48..55)
       /\ c \in 48..55 => UpdateStateToWire(state) = c
  <2>1. (c - 48 \in 0..(Len(UpdateStates) - 1)) = (c \in 48..55)
    BY <1>2, Enums
  <2>2. 48 + (c - 48) = c
    BY <1>2
  <2> QED BY SMT, <1>9, <2>1, <2>2 DEF UpdateStateToWire
<1> DEFINE r == get_update_state(m)
<1>11. CASE state = "None"
  <2>1. r.error = TRUE
    BY <1>6, <1>7, <1>11 DEF Protocol, state
  <2> HIDE DEF r
  <2>2. values.msg \notin 48..55
    BY SMT, <1>10, <1>11 DEF c
  <2>3. r.error = (values.msg \notin 48..55) /\ ~(~r.error)
    BY <2>1, <2>2
  <2> QED BY <2>3, StateCase DEF r, m
<1>12. CASE state # "None"
  <2>1. r.error = FALSE /\ r.value.msg = state
    BY <1>6, <1>7, <1>12 DEF Ok, state
  <2> HIDE DEF r
  <2>2. values.msg \in 48..55 /\ UpdateStateToWire(r.value.msg) = values.msg
    BY SMT, <1>10, <1>12, <2>1 DEF c
  <2>3. r.error = (values.msg \notin 48..55)
    BY <2>1, <2>2
  <2> QED BY <2>2, <2>3, StateCase DEF r, m
<1> QED BY <1>11, <1>12

\* ... and so is a hardware revision ...
LEMMA RevisionReturned ==
    ASSUME NEW method, method = "GET_HW_REVISION", NEW values \in Answers(method)
    PROVE  Returned(method, values, get_hw_revision(Reply(method, values)))
<1> DEFINE s == msgdata["revisions"]
           m == Reply(method, values)
<1>1. DOMAIN values = {"boardname", "revision"}
  BY DEF Answers
<1>2. method \in Queries /\ AnswerVariant[method] = "revisions"
  BY DEF Queries, AnswerVariant
<1>3. /\ 1 \in DOMAIN s /\ s[1] = Chars("boardname", Sizes.name)
      /\ 2 \in DOMAIN s /\ s[2] = Chars("revision", Sizes.name) /\ IsStruct(s)
  BY RevisionIsStruct DEF msgdata
<1>4. \A name \in DOMAIN values :
         IF IsNumber(s[Index(s, name)]) THEN Number32(m, s, name) = values[name]
         ELSE Text(m, s, name) = from_utf8_lossy(values[name])
  BY <1>2, AnswerRead
<1>5. get_hw_revision(m) = Ok([name \in {"boardname", "revision"} |-> Text(m, s, name)])
  BY VariantsAlike DEF get_hw_revision
<1> HIDE DEF s, m
<1>6. \A name \in DOMAIN values : Text(m, s, name) = from_utf8_lossy(values[name])
  <2>1. Index(s, s[1].name) = 1 /\ Index(s, s[2].name) = 2
    BY <1>3, IndexFound
  <2>2. Index(s, "boardname") = 1 /\ Index(s, "revision") = 2
    BY <1>3, <2>1 DEF Chars
  <2>3. ~IsNumber(s[1]) /\ ~IsNumber(s[2])
    BY <1>3 DEF IsNumber, Chars
  <2> QED BY <1>1, <1>4, <2>2, <2>3
<1> DEFINE r == get_hw_revision(m)
<1>7. r.error = FALSE /\ r.value = [name \in DOMAIN values |-> from_utf8_lossy(values[name])]
  BY <1>1, <1>5, <1>6 DEF Ok
<1> HIDE DEF r
<1> QED BY <1>7 DEF Returned, r, m

\* ... and a variable.
LEMMA VariableReturned ==
    ASSUME NEW method, method = "GET_SWUPDATE_VARS", NEW values \in Answers(method)
    PROVE  Returned(method, values, get_swupdate_var(Reply(method, values)))
<1> DEFINE s == msgdata["vars"]
           m == Reply(method, values)
<1>1. DOMAIN values = {"varnamespace", "varname", "varvalue"}
  BY DEF Answers
<1>2. method \in Queries /\ AnswerVariant[method] = "vars"
  BY DEF Queries, AnswerVariant
<1>3. /\ 1 \in DOMAIN s /\ s[1] = Chars("varnamespace", Sizes.name)
      /\ 2 \in DOMAIN s /\ s[2] = Chars("varname", Sizes.name)
      /\ 3 \in DOMAIN s /\ s[3] = Chars("varvalue", Sizes.name) /\ IsStruct(s)
  BY VariableIsStruct DEF msgdata
<1>4. \A name \in DOMAIN values :
         IF IsNumber(s[Index(s, name)]) THEN Number32(m, s, name) = values[name]
         ELSE Text(m, s, name) = from_utf8_lossy(values[name])
  BY <1>2, AnswerRead
<1>5. get_swupdate_var(m) =
          Ok([name \in {"varnamespace", "varname", "varvalue"} |-> Text(m, s, name)])
  BY VariantsAlike DEF get_swupdate_var
<1> HIDE DEF s, m
<1>6. \A name \in DOMAIN values : Text(m, s, name) = from_utf8_lossy(values[name])
  <2>1. Index(s, s[1].name) = 1 /\ Index(s, s[2].name) = 2 /\ Index(s, s[3].name) = 3
    BY <1>3, IndexFound
  <2>2. Index(s, "varnamespace") = 1 /\ Index(s, "varname") = 2 /\ Index(s, "varvalue") = 3
    BY <1>3, <2>1 DEF Chars
  <2>3. ~IsNumber(s[1]) /\ ~IsNumber(s[2]) /\ ~IsNumber(s[3])
    BY <1>3 DEF IsNumber, Chars
  <2> QED BY <1>1, <1>4, <2>2, <2>3
<1> DEFINE r == get_swupdate_var(m)
<1>7. r.error = FALSE /\ r.value = [name \in DOMAIN values |-> from_utf8_lossy(values[name])]
  BY <1>1, <1>5, <1>6 DEF Ok
<1> HIDE DEF r
<1> QED BY <1>7 DEF Returned, r, m


-----------------------------------------------------------------------------
(* The invariant: every message is what one end made of what it knew.        *)

\* What was called, sent, found, answered and returned so far.
InCourse ==
    /\ stage \in {"called", "sent", "received", "answered", "returned"}
    /\ call.method \in DOMAIN RequestVariant /\ call.args \in Arguments(call.method)
    /\ stage = "sent" => bytes = build(call.method, call.args)
    /\ stage \notin {"called", "sent"} => view = Read(build(call.method, call.args))
    /\ stage \in {"answered", "returned"} =>
          call.method \in Queries /\ answer \in Answers(call.method)
    /\ stage = "answered" => bytes = Reply(call.method, answer)
    /\ stage = "returned" => result = Decoded(call.method, Reply(call.method, answer))

\* Init => InCourse.
LEMMA InitInCourse == Init => InCourse
<1> SUFFICES ASSUME Init PROVE InCourse
  OBVIOUS
<1>1. PICK method \in DOMAIN RequestVariant :
         \E args \in Arguments(method) : call = [method |-> method, args |-> args]
  BY DEF Init
<1>2. PICK args \in Arguments(method) : call = [method |-> method, args |-> args]
  BY <1>1
<1>3. call.method = method /\ call.args = args /\ stage = "called"
  BY <1>2 DEF Init
<1> QED BY <1>3 DEF InCourse

\* InCourse /\ [Next]_vars => InCourse'.
LEMMA NextInCourse == InCourse /\ [Next]_vars => InCourse'
<1> SUFFICES ASSUME InCourse, [Next]_vars PROVE InCourse'
  OBVIOUS
<1>1. CASE Send
  BY <1>1 DEF InCourse, Send
<1>2. CASE DaemonReceive
  BY <1>2 DEF InCourse, DaemonReceive
<1>3. CASE DaemonAnswer
  BY <1>3 DEF InCourse, DaemonAnswer
<1>4. CASE Receive
  BY <1>4 DEF InCourse, Receive
<1>5. CASE UNCHANGED vars
  BY <1>5 DEF InCourse, vars
<1> QED BY <1>1, <1>2, <1>3, <1>4, <1>5 DEF Next

\* Every message is as its sender made it.
THEOREM CallInCourse == Spec => []InCourse
<1>1. Init => InCourse
  BY InitInCourse
<1>2. InCourse /\ [Next]_vars => InCourse'
  BY NextInCourse
<1> QED BY <1>1, <1>2, PTL DEF Spec

\* What the daemon finds in a request is what it must find.
LEMMA RequestReceived ==
    ASSUME NEW method \in DOMAIN RequestVariant, NEW args \in Arguments(method)
    PROVE  Received(method, args, Read(build(method, args)))
<1> DEFINE s == msgdata[RequestVariant[method]]
           found == Read(build(method, args))
<1>1. found.magic = IPC_MAGIC /\ found.type = method
  BY RequestRead
<1>2. \A name \in DOMAIN Given(method, args) :
         /\ s[Index(s, name)].name = name
         /\ Arrived(s[Index(s, name)], Given(method, args)[name], found.args[name])
  BY ArgumentRead
<1>3. "apiversion" \notin DOMAIN args
  <2>1. DOMAIN TextArguments = {"SET_AES_KEY", "SET_VERSIONS_RANGE", "SET_SWUPDATE_VARS",
                                "GET_SWUPDATE_VARS", "SET_DELTA_URL"}
    BY DEF TextArguments
  <2>2. CASE method = "REQ_INSTALL"
    <3>1. args \in InstallRequests
      BY <2>1, <2>2 DEF Arguments
    <3> QED BY <3>1 DEF InstallRequests
  <2>3. CASE method = "SWUPDATE_SUBPROCESS"
    <3>1. args \in [source : ToSet(Sources), cmd : ToSet(SubprocessCmds), timeout : Codes]
      BY <2>1, <2>3 DEF Arguments
    <3> QED BY <3>1
  <2>4. CASE method = "SET_UPDATE_STATE"
    <3>1. args \in [msg : ToSet(UpdateStates)]
      BY <2>1, <2>4 DEF Arguments
    <3> QED BY <3>1
  <2>5. CASE method \in DOMAIN TextArguments
    <3>1. args \in [TextArguments[method] -> Texts]
      BY <2>1, <2>5 DEF Arguments
    <3>2. "apiversion" \notin TextArguments[method]
      BY <2>5 DEF TextArguments
    <3> QED BY <3>1, <3>2
  <2>6. CASE method \notin DOMAIN TextArguments
                           \cup {"REQ_INSTALL", "SWUPDATE_SUBPROCESS", "SET_UPDATE_STATE"}
    <3>1. args = <<>>
      BY <2>1, <2>6 DEF Arguments
    <3> QED BY <3>1
  <2> QED BY <2>2, <2>3, <2>4, <2>5, <2>6
<1>4. \A name \in DOMAIN args :
         name \in DOMAIN Given(method, args) /\ Given(method, args)[name] = args[name]
  BY <1>3, GivenNames
<1> HIDE DEF found
<1>5. \A name \in DOMAIN args \ {"len"} :
         IF IsNumber(s[Index(s, name)]) \/ name = "disable_store_swu"
         THEN found.args[name] = Number(name, args[name])
         ELSE Delivered(args[name], s[Index(s, name)].size, found.args[name])
  <2> SUFFICES ASSUME NEW name \in DOMAIN args \ {"len"}
               PROVE  IF IsNumber(s[Index(s, name)]) \/ name = "disable_store_swu"
                      THEN found.args[name] = Number(name, args[name])
                      ELSE Delivered(args[name], s[Index(s, name)].size, found.args[name])
    OBVIOUS
  <2>1. s[Index(s, name)].name = name
        /\ Arrived(s[Index(s, name)], args[name], found.args[name])
    BY <1>2, <1>4
  <2> HIDE DEF s
  <2> QED BY <2>1 DEF Arrived
<1>6. ASSUME method = "REQ_INSTALL"
      PROVE  found.args.apiversion = SWUPDATE_API_VERSION
  <2> DEFINE field == s[Index(s, "apiversion")]
  <2>1. "apiversion" \in DOMAIN Given(method, args) /\ Given(method, args)["apiversion"] = 1
    BY <1>3, <1>6, GivenNames
  <2>2. field.name = "apiversion" /\ Arrived(field, 1, found.args["apiversion"])
    BY <1>2, <2>1
  <2>3. IsNumber(field)
    <3>1. s = swupdate_request
      BY <1>6 DEF RequestVariant, msgdata
    <3>2. 1 \in DOMAIN swupdate_request /\ swupdate_request[1] = Int32("apiversion")
      BY DEF swupdate_request
    <3>3. Index(swupdate_request, swupdate_request[1].name) = 1
      BY <3>2, RequestIsStruct, IndexFound
    <3>4. field = Int32("apiversion")
      BY <3>1, <3>2, <3>3 DEF Int32
    <3> HIDE DEF field
    <3> QED BY <3>4 DEF IsNumber, Int32
  <2>4. Number("apiversion", 1) = 1
    BY DEF Number
  <2> HIDE DEF field
  <2> QED BY <2>2, <2>3, <2>4 DEF Arrived, SWUPDATE_API_VERSION
<1> QED BY <1>1, <1>5, <1>6 DEF Received, s, found

\* What a query makes of the reply is what it must return.
LEMMA ReplyReturned ==
    ASSUME NEW method \in Queries, NEW values \in Answers(method)
    PROVE  Returned(method, values, Decoded(method, Reply(method, values)))
<1>1. method \in {"GET_STATUS", "GET_UPDATE_STATE", "GET_HW_REVISION", "GET_SWUPDATE_VARS"}
  BY DEF Queries, AnswerVariant
<1>2. CASE method = "GET_STATUS"
  <2>1. Decoded(method, Reply(method, values)) = get_status(Reply(method, values))
    BY <1>2 DEF Decoded
  <2> QED BY <1>2, <2>1, StatusReturned
<1>3. CASE method = "GET_UPDATE_STATE"
  <2>1. Decoded(method, Reply(method, values)) = get_update_state(Reply(method, values))
    BY <1>3 DEF Decoded
  <2> QED BY <1>3, <2>1, StateReturned
<1>4. CASE method = "GET_HW_REVISION"
  <2>1. Decoded(method, Reply(method, values)) = get_hw_revision(Reply(method, values))
    BY <1>4 DEF Decoded
  <2> QED BY <1>4, <2>1, RevisionReturned
<1>5. CASE method = "GET_SWUPDATE_VARS"
  <2>1. Decoded(method, Reply(method, values)) = get_swupdate_var(Reply(method, values))
    BY <1>5 DEF Decoded
  <2> QED BY <1>5, <2>1, VariableReturned
<1> QED BY <1>1, <1>2, <1>3, <1>4, <1>5

\* The daemon's C code finds each argument of each method where the method put it,
\* for every length of the character arrays and every text, cut or not.
THEOREM RequestsArrive == Spec => []ArgumentsArrive
<1>1. InCourse => ArgumentsArrive
  BY RequestReceived DEF InCourse, ArgumentsArrive
<1> QED BY <1>1, CallInCourse, PTL

\* Each query returns what the daemon answered, or Error::Protocol when a status in
\* it has no name.
THEOREM AnswersReturn == Spec => []AnswerArrives
<1>1. InCourse => AnswerArrives
  BY ReplyReturned DEF InCourse, AnswerArrives
<1> QED BY <1>1, CallInCourse, PTL
=============================================================================
