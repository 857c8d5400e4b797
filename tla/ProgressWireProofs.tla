------------------------- MODULE ProgressWireProofs -------------------------
(***************************************************************************)
(* Theorems about ProgressWire, for character arrays of every length, every *)
(* message and every build: events are what the daemon meant, with numbers  *)
(* of any value, the first one has its kind in any layout, and the layout   *)
(* of a release is the one detected.                                        *)
(***************************************************************************)
EXTENDS ProgressWire, WireProofs

-----------------------------------------------------------------------------
(* The structures.                                                          *)

\* A packed structure is a structure.
LEMMA PackedStruct ==
    ASSUME NEW struct, IsStruct(struct)
    PROVE  IsStruct(Packed(struct))
<1>1. Len(struct) \in Nat \ {0} /\ DOMAIN struct = 1..Len(struct)
  BY DEF IsStruct
<1>2. DOMAIN Packed(struct) = 1..Len(struct) /\ Len(Packed(struct)) = Len(struct)
  BY <1>1 DEF Packed
<1>3. \A i \in 1..Len(struct) :
         DOMAIN Packed(struct)[i] = DOMAIN struct[i]
         /\ Packed(struct)[i].name = struct[i].name /\ Packed(struct)[i].size = struct[i].size
         /\ Packed(struct)[i].align = 1
  <2>1. \A i \in 1..Len(struct) : Packed(struct)[i] = [struct[i] EXCEPT !.align = 1]
    BY <1>1 DEF Packed
  <2>2. \A i \in 1..Len(struct) : DOMAIN struct[i] = {"name", "size", "align"}
    BY DEF IsStruct
  <2> QED BY <2>1, <2>2
<1> QED BY <1>1, <1>2, <1>3 DEF IsStruct

\* The declaration in C is one.
LEMMA CIsStruct == IsStruct(progress_msg(Sizes))
<1> DEFINE s == progress_msg(Sizes)
<1>1. Sizes.name \in Nat /\ Sizes.handler \in Nat /\ Sizes.text \in Nat
  BY SizesAssumption DEF Arrays
<1>2. Len(s) = 12 /\ DOMAIN s = 1..12
  BY DEF progress_msg
<1>3. \A i \in 1..12 : DOMAIN s[i] = {"name", "size", "align"}
  BY DEF progress_msg, Int32, Int64, Chars
<1>4. \A i \in 1..12 : s[i].size \in Nat /\ s[i].align \in {1, 4, 8}
  BY <1>1 DEF progress_msg, Int32, Int64, Chars
<1>5. \A i, j \in 1..12 : s[i].name = s[j].name => i = j
  BY SMTT(30) DEF progress_msg, Int32, Int64, Chars
<1> QED BY <1>2, <1>3, <1>4, <1>5 DEF IsStruct

\* So is the padded one in Rust.
LEMMA UnpackedIsStruct == IsStruct(RawProgressMsgUnpacked(Sizes))
<1> DEFINE s == RawProgressMsgUnpacked(Sizes)
<1>1. Sizes.name \in Nat /\ Sizes.handler \in Nat /\ Sizes.text \in Nat
  BY SizesAssumption DEF Arrays
<1>2. Len(s) = 14 /\ DOMAIN s = 1..14
  BY DEF RawProgressMsgUnpacked
<1>3. \A i \in 1..14 : DOMAIN s[i] = {"name", "size", "align"}
  BY DEF RawProgressMsgUnpacked, Int32, Int64, Chars
<1>4. \A i \in 1..14 : s[i].size \in Nat /\ s[i].align \in {1, 4, 8}
  BY <1>1 DEF RawProgressMsgUnpacked, Int32, Int64, Chars
<1>5. \A i, j \in 1..14 : s[i].name = s[j].name => i = j
  BY DEF RawProgressMsgUnpacked, Int32, Int64, Chars
<1> QED BY <1>2, <1>3, <1>4, <1>5 DEF IsStruct

\* The packed declarations of Rust and C are the same.
LEMMA PackedAlike == RawProgressMsg(Sizes) = Packed(progress_msg(Sizes))
BY DEF RawProgressMsg, progress_msg

\* Both sides have structures in either layout.
LEMMA BothAreStructs ==
    ASSUME NEW l \in Layouts
    PROVE  IsStruct(RustStruct(l)) /\ IsStruct(CStruct(l))
BY CIsStruct, UnpackedIsStruct, PackedAlike, PackedStruct DEF Layouts, RustStruct, CStruct


\* Where the padded declaration of Rust has a field that C has too.
InRust(i) == IF i <= 3 THEN i ELSE i + 1

\* With the padding written out, each field is where C's padding puts it.
LEMMA UnpackedAlike ==
    ASSUME NEW i \in 1..12
    PROVE  LET rust == RawProgressMsgUnpacked(Sizes)
               c    == progress_msg(Sizes) IN
           /\ rust[InRust(i)].name = c[i].name /\ rust[InRust(i)].size = c[i].size
           /\ Offsets(rust)[InRust(i)] = Offsets(c)[i]
<1> DEFINE rust == RawProgressMsgUnpacked(Sizes)
           c    == progress_msg(Sizes)
           r    == Offsets(rust)
           o    == Offsets(c)
<1>1. \A k \in 1..12 : /\ rust[InRust(k)].name = c[k].name /\ rust[InRust(k)].size = c[k].size
                       /\ rust[InRust(k)].align = c[k].align
  BY DEF RawProgressMsgUnpacked, progress_msg, Int32, Int64, Chars, InRust
<1>2. Len(rust) = 14 /\ Len(c) = 12
  BY DEF RawProgressMsgUnpacked, progress_msg
<1>3. /\ \A k \in 1..4 : rust[k].size = 4 /\ rust[k].align = 4
      /\ rust[5].align = 8 /\ c[4].align = 8
      /\ \A k \in 1..3 : c[k].size = 4 /\ c[k].align = 4
  BY DEF RawProgressMsgUnpacked, progress_msg, Int32, Int64, Chars
<1>4. r[1] = 0 /\ \A k \in 2..14 : r[k] = AlignUp(r[k - 1] + rust[k - 1].size, rust[k].align)
  BY <1>2, UnpackedIsStruct, OffsetsDefined
<1>5. o[1] = 0 /\ \A k \in 2..12 : o[k] = AlignUp(o[k - 1] + c[k - 1].size, c[k].align)
  BY <1>2, CIsStruct, OffsetsDefined
<1> HIDE DEF rust, c, r, o
<1>6. AlignUp(4, 4) = 4 /\ AlignUp(8, 4) = 8 /\ AlignUp(12, 4) = 12
      /\ AlignUp(12, 8) = 16 /\ AlignUp(16, 8) = 16
  BY DEF AlignUp
<1>7. r[2] = 4 /\ o[2] = 4
  BY <1>3, <1>4, <1>5, <1>6
<1>8. r[3] = 8 /\ o[3] = 8
  BY <1>3, <1>4, <1>5, <1>6, <1>7
<1>9. r[4] = 12 /\ o[4] = 16
  BY <1>3, <1>4, <1>5, <1>6, <1>8
<1>10. r[5] = 16
  BY <1>3, <1>4, <1>6, <1>9
<1>11. ASSUME NEW k \in 5..12, r[k] = o[k - 1] PROVE r[k + 1] = o[k]
  <2>1. r[k + 1] = AlignUp(r[k] + rust[k].size, rust[k + 1].align)
    <3>1. k + 1 \in 2..14 /\ (k + 1) - 1 = k
      OBVIOUS
    <3> QED BY <3>1, <1>4
  <2>2. o[k] = AlignUp(o[k - 1] + c[k - 1].size, c[k].align)
    BY <1>5
  <2>3. rust[k].size = c[k - 1].size /\ rust[k + 1].align = c[k].align
    <3>1. InRust(k - 1) = k /\ InRust(k) = k + 1 /\ k - 1 \in 1..12 /\ k \in 1..12
      BY DEF InRust
    <3> QED BY <3>1, <1>1
  <2> QED BY <1>11, <2>1, <2>2, <2>3
<1>12. r[6] = o[5] /\ r[7] = o[6] /\ r[8] = o[7] /\ r[9] = o[8] /\ r[10] = o[9]
       /\ r[11] = o[10] /\ r[12] = o[11] /\ r[13] = o[12]
  <2>1. r[6] = o[5]
    BY <1>9, <1>10, <1>11
  <2>2. r[7] = o[6]
    BY <2>1, <1>11
  <2>3. r[8] = o[7]
    BY <2>2, <1>11
  <2>4. r[9] = o[8]
    BY <2>3, <1>11
  <2>5. r[10] = o[9]
    BY <2>4, <1>11
  <2>6. r[11] = o[10]
    BY <2>5, <1>11
  <2>7. r[12] = o[11]
    BY <2>6, <1>11
  <2>8. r[13] = o[12]
    BY <2>7, <1>11
  <2> QED BY <2>1, <2>2, <2>3, <2>4, <2>5, <2>6, <2>7, <2>8
<1>13. r[InRust(i)] = o[i]
  <2>1. CASE i \in 1..3
    <3>1. InRust(i) = i
      BY <2>1 DEF InRust
    <3> QED BY <2>1, <3>1, <1>4, <1>5, <1>7, <1>8
  <2>2. CASE i \in 4..12
    <3>1. InRust(i) = i + 1
      BY <2>2 DEF InRust
    <3> QED BY <2>2, <3>1, <1>9, <1>10, <1>12
  <2> QED BY <2>1, <2>2
<1>14. rust[InRust(i)].name = c[i].name /\ rust[InRust(i)].size = c[i].size
  BY <1>1
<1> QED BY <1>13, <1>14 DEF rust, c, r, o

\* In one layout, each field of C is a field of Rust, of that size and at that place,
\* and the messages are equally long.
LEMMA LayoutsAlike ==
    ASSUME NEW l \in Layouts
    PROVE  /\ SizeOf(RustStruct(l)) = SizeOf(CStruct(l))
           /\ \A i \in DOMAIN CStruct(l) : \E j \in DOMAIN RustStruct(l) :
                 /\ RustStruct(l)[j].name = CStruct(l)[i].name
                 /\ RustStruct(l)[j].size = CStruct(l)[i].size
                 /\ Offsets(RustStruct(l))[j] = Offsets(CStruct(l))[i]
<1>1. CASE l = "packed"
  <2>1. RustStruct(l) = RawProgressMsg(Sizes) /\ CStruct(l) = Packed(progress_msg(Sizes))
    BY <1>1 DEF RustStruct, CStruct
  <2>2. RustStruct(l) = CStruct(l)
    BY Zenon, <2>1, PackedAlike
  <2> QED BY Zenon, <2>2
<1>2. CASE l = "unpacked"
  <2>1. RustStruct(l) = RawProgressMsgUnpacked(Sizes) /\ CStruct(l) = progress_msg(Sizes)
    BY <1>2 DEF RustStruct, CStruct
  <2>2. DOMAIN progress_msg(Sizes) = 1..12 /\ DOMAIN RawProgressMsgUnpacked(Sizes) = 1..14
    BY DEF progress_msg, RawProgressMsgUnpacked
  <2>3. ASSUME NEW i \in 1..12
        PROVE  \E j \in 1..14 :
                  /\ RawProgressMsgUnpacked(Sizes)[j].name = progress_msg(Sizes)[i].name
                  /\ RawProgressMsgUnpacked(Sizes)[j].size = progress_msg(Sizes)[i].size
                  /\ Offsets(RawProgressMsgUnpacked(Sizes))[j] = Offsets(progress_msg(Sizes))[i]
    <3>1. InRust(i) \in 1..14
      BY DEF InRust
    <3> QED BY Zenon, <3>1, UnpackedAlike
  <2> QED BY ZenonT(30), <2>1, <2>2, <2>3, PaddingAssumption
<1> QED BY <1>1, <1>2 DEF Layouts


-----------------------------------------------------------------------------
(* What the daemon writes.                                                  *)

\* The fields of C by name.
LEMMA CFields ==
    ASSUME NEW l \in Layouts
    PROVE  /\ DOMAIN CStruct(l) = 1..12
           /\ \A i \in 1..12 : LET field == CStruct(l)[i] IN
                 /\ field.name = "cur_image" => field.size = Sizes.name
                 /\ field.name = "hnd_name" => field.size = Sizes.handler
                 /\ field.name = "info" => field.size = Sizes.text
                 /\ field.name = "apiversion" => field.size = 4
                 /\ field.name \in Numbers => field.size = Width(field.name)
           /\ \A name \in Numbers \cup Strings : \E i \in 1..12 : CStruct(l)[i].name = name
<1> DEFINE c == progress_msg(Sizes)
<1>1. /\ \A i \in 1..12 :
            /\ c[i].name = "cur_image" => c[i].size = Sizes.name
            /\ c[i].name = "hnd_name" => c[i].size = Sizes.handler
            /\ c[i].name = "info" => c[i].size = Sizes.text
            /\ c[i].name = "apiversion" => c[i].size = 4
            /\ c[i].name \in Numbers => c[i].size = Width(c[i].name)
  BY DEF progress_msg, Int32, Int64, Chars, Numbers, Width
<1>2. \A name \in Numbers \cup Strings : \E i \in 1..12 : c[i].name = name
  <2>1. /\ c[2].name = "status" /\ c[3].name = "dwl_percent" /\ c[4].name = "dwl_bytes"
        /\ c[5].name = "nsteps" /\ c[6].name = "cur_step" /\ c[7].name = "cur_percent"
        /\ c[8].name = "cur_image" /\ c[9].name = "hnd_name" /\ c[11].name = "infolen"
        /\ c[12].name = "info"
    BY DEF progress_msg, Int32, Int64, Chars
  <2> HIDE DEF c
  <2> QED BY <2>1 DEF Numbers, Strings
<1>3. Len(c) = 12 /\ DOMAIN c = 1..12
  BY DEF progress_msg
<1>4. DOMAIN CStruct(l) = 1..12 /\ \A i \in 1..12 :
         CStruct(l)[i].name = c[i].name /\ CStruct(l)[i].size = c[i].size
  <2>1. CASE l = "unpacked"
    <3>1. CStruct(l) = c
      BY <2>1 DEF CStruct
    <3> HIDE DEF c
    <3> QED BY <3>1, <1>3
  <2>2. CASE l = "packed"
    <3>1. CStruct(l) = Packed(c)
      BY <2>2 DEF CStruct
    <3>2. \A i \in 1..12 : DOMAIN c[i] = {"name", "size", "align"}
      BY CIsStruct, <1>3 DEF IsStruct
    <3> HIDE DEF c
    <3>3. DOMAIN Packed(c) = 1..12 /\ \A i \in 1..12 : Packed(c)[i] = [c[i] EXCEPT !.align = 1]
      BY <1>3 DEF Packed
    <3> QED BY <3>1, <3>2, <3>3
  <2> QED BY <2>1, <2>2 DEF Layouts
<1> HIDE DEF c
<1> QED BY SMTT(30), <1>1, <1>2, <1>4

\* A message fits into its structure.
LEMMA ContentsFit ==
    ASSUME NEW l \in Layouts, NEW m \in Messages
    PROVE  /\ Fits(CStruct(l), Contents(m))
           /\ \A name \in Numbers :
                 Contents(m)[name] = m[name] /\ m[name] \in Seq(Byte) /\ Len(m[name]) = Width(name)
           /\ \A name \in Strings : Contents(m)[name] = m[name] /\ m[name] \in Seq(1..255)
<1> DEFINE api == to_bytes(PROGRESS_API_VERSION)
<1>1. DOMAIN m = Numbers \cup Strings
      /\ (\A f \in Numbers : m[f] \in Seq(Byte) /\ Len(m[f]) = Width(f))
      /\ (\A f \in Strings : m[f] \in Seq(1..255))
      /\ Len(m.cur_image) < Sizes.name /\ Len(m.hnd_name) < Sizes.handler
      /\ Len(m.info) <= Sizes.text
  BY ZenonT(30), MessagesAssumption
<1>2. "apiversion" \notin Numbers /\ Numbers \cap Strings = {} /\ "apiversion" \notin Strings
  BY DEF Numbers, Strings
<1>3. ASSUME NEW name \in Numbers PROVE Contents(m)[name] = m[name]
  BY <1>2, <1>3 DEF Contents
<1>4. ASSUME NEW name \in Strings PROVE Contents(m)[name] = m[name]
  <2>1. name \notin Numbers /\ name # "apiversion"
    BY <1>2
  <2> QED BY <2>1 DEF Contents
<1>5. Contents(m)["apiversion"] = api /\ DOMAIN Contents(m) = {"apiversion"} \cup Numbers \cup Strings
  <2> HIDE DEF api
  <2>1. Contents(m) = [name \in {"apiversion"} \cup Numbers \cup Strings |->
            IF name = "apiversion" THEN api ELSE m[name]]
    BY DEF Contents, api
  <2> QED BY <2>1, <1>2
<1>6. api \in Seq(Byte) /\ Len(api) = 4
  <2>1. PROGRESS_API_VERSION \in Int
    BY SMT DEF PROGRESS_API_VERSION
  <2> QED BY <2>1, NumberBytes
<1> HIDE DEF api
<1>7. ASSUME NEW i \in 1..12, CStruct(l)[i].name \in DOMAIN Contents(m)
      PROVE  /\ Contents(m)[CStruct(l)[i].name] \in Seq(Byte)
             /\ Len(Contents(m)[CStruct(l)[i].name]) <= CStruct(l)[i].size
  <2> DEFINE name == CStruct(l)[i].name
             size == CStruct(l)[i].size
  <2>1. /\ name = "cur_image" => size = Sizes.name
        /\ name = "hnd_name" => size = Sizes.handler
        /\ name = "info" => size = Sizes.text
        /\ name = "apiversion" => size = 4
        /\ name \in Numbers => size = Width(name)
    BY CFields
  <2>2. name \in {"apiversion"} \cup Numbers \cup Strings
    BY <1>5, <1>7
  <2> SUFFICES Contents(m)[name] \in Seq(Byte) /\ Len(Contents(m)[name]) <= size
    OBVIOUS
  <2> HIDE DEF name, size
  <2>3. CASE name = "apiversion"
    BY <2>1, <2>3, <1>5, <1>6
  <2>4. CASE name \in Numbers
    <3>1. m[name] \in Seq(Byte) /\ Len(m[name]) = size /\ Contents(m)[name] = m[name]
      BY <2>1, <2>4, <1>1, <1>3
    <3>2. Len(m[name]) \in Nat
      BY <3>1
    <3> QED BY <3>1, <3>2
  <2>5. CASE name \in Strings
    <3> DEFINE s == m[name]
    <3>1. s \in Seq(1..255) /\ Contents(m)[name] = s
      BY <2>5, <1>1, <1>4
    <3>2. Len(s) \in Nat /\ Len(s) <= size
      <4>1. Sizes.name \in Nat /\ Sizes.handler \in Nat /\ Len(s) \in Nat
        BY <3>1, SizesAssumption DEF Arrays
      <4>2. (name = "cur_image" => Len(s) < Sizes.name) /\ (name = "hnd_name" => Len(s) < Sizes.handler)
            /\ (name = "info" => Len(s) <= Sizes.text)
        BY <1>1
      <4>3. name = "cur_image" \/ name = "hnd_name" \/ name = "info"
        BY <2>5 DEF Strings
      <4> HIDE DEF s
      <4> QED BY <2>1, <4>1, <4>2, <4>3
    <3> HIDE DEF s
    <3>3. s \in Seq(Byte)
      <4>1. \A k \in 1..Len(s) : s[k] \in 1..255
        BY SMTT(30), <3>1, Elements
      <4>2. \A k \in 1..Len(s) : s[k] \in Byte
        BY <4>1 DEF Byte
      <4>3. s = [k \in 1..Len(s) |-> s[k]]
        BY <3>1
      <4> QED BY <3>2, <4>2, <4>3
    <3> QED BY <3>1, <3>2, <3>3
  <2> QED BY <2>2, <2>3, <2>4, <2>5
<1>8. Fits(CStruct(l), Contents(m))
  BY <1>7, CFields DEF Fits
<1> QED BY <1>1, <1>3, <1>4, <1>8

\* A message on the wire is as long as its structure and holds its contents.
LEMMA EncodedMessage ==
    ASSUME NEW l \in Layouts, NEW m \in Messages
    PROVE  /\ Encoded(m, l) \in Seq(Byte) /\ Len(Encoded(m, l)) = SizeOf(CStruct(l))
           /\ \A i \in DOMAIN CStruct(l) : CStruct(l)[i].name \in Numbers \cup Strings =>
                 \A k \in 1..CStruct(l)[i].size :
                    Encoded(m, l)[Offsets(CStruct(l))[i] + k] =
                        IF k <= Len(Contents(m)[CStruct(l)[i].name])
                        THEN Contents(m)[CStruct(l)[i].name][k] ELSE 0
<1> DEFINE c == CStruct(l)
           zero == zeroed(SizeOf(c))
<1>1. IsStruct(c) /\ SizeOf(c) \in Nat
  <2>1. IsStruct(c)
    BY BothAreStructs
  <2>2. 1 \in DOMAIN c
    BY CFields
  <2> HIDE DEF c
  <2> QED BY <2>1, <2>2, FieldWithin
<1>2. Fits(c, Contents(m))
  BY ContentsFit
<1>3. Encoded(m, l) = Write(zero, 0, c, Contents(m))
  BY DEF Encoded
<1> HIDE DEF c
<1>4. zero \in Seq(Byte) /\ Len(zero) = SizeOf(c) /\ \A p \in 1..SizeOf(c) : zero[p] = 0
  BY <1>1, Zeroes
<1> HIDE DEF zero
<1>5. Encoded(m, l) \in Seq(Byte) /\ Len(Encoded(m, l)) = SizeOf(c)
  BY <1>1, <1>2, <1>3, <1>4, WriteBytes
<1>6. ASSUME NEW i \in DOMAIN c, c[i].name \in Numbers \cup Strings, NEW k \in 1..c[i].size
      PROVE  Encoded(m, l)[Offsets(c)[i] + k] =
                 IF k <= Len(Contents(m)[c[i].name]) THEN Contents(m)[c[i].name][k] ELSE 0
  <2>1. Offsets(c)[i] \in Nat /\ c[i].size \in Nat /\ Offsets(c)[i] + c[i].size <= SizeOf(c)
    BY <1>1, FieldTypes, FieldWithin
  <2>2. c[i].name \in DOMAIN Contents(m)
    BY <1>6 DEF Contents
  <2>3. 0 + Offsets(c)[i] + c[i].size <= Len(zero) /\ 0 \in Nat
    BY <2>1, <1>4
  <2>4. Write(zero, 0, c, Contents(m))[0 + Offsets(c)[i] + k] =
            IF c[i].name \in DOMAIN Contents(m) /\ k <= Len(Contents(m)[c[i].name])
            THEN Contents(m)[c[i].name][k] ELSE zero[0 + Offsets(c)[i] + k]
    BY <1>1, <1>2, <1>4, <2>3, WriteField
  <2>5. 0 + Offsets(c)[i] + k = Offsets(c)[i] + k /\ Offsets(c)[i] + k \in 1..SizeOf(c)
    BY <2>1, <1>1
  <2> QED BY <2>2, <2>4, <2>5, <1>3, <1>4
<1> QED BY <1>5, <1>6 DEF c



-----------------------------------------------------------------------------
(* What the client reads.                                                   *)

\* The strings of a message are C strings.
LEMMA StringsNulFree ==
    ASSUME NEW s \in Seq(1..255)
    PROVE  NulFree(s)
<1>1. \A k \in 1..Len(s) : s[k] \in 1..255
  BY SMTT(30), Elements
<1>2. \A x \in 1..255 : x \in Byte /\ x # 0
  BY DEF Byte
<1>3. s = [k \in 1..Len(s) |-> s[k]] /\ Len(s) \in Nat
  OBVIOUS
<1>4. \A k \in 1..Len(s) : s[k] \in Byte /\ s[k] # 0
  BY ZenonT(30), <1>1, <1>2
<1> QED BY <1>3, <1>4 DEF NulFree

\* In the layout it was written in, each field of a message holds what was put there.
LEMMA FieldRead ==
    ASSUME NEW l \in Layouts, NEW m \in Messages, NEW name \in Numbers \cup Strings
    PROVE  LET field == Field(Encoded(m, l), 0, RustStruct(l), name) IN
           /\ Holds(field, Contents(m)[name])
           /\ name \in Numbers => Len(field) = Width(name)
<1> DEFINE c == CStruct(l)
           r == RustStruct(l)
           e == Encoded(m, l)
           data == Contents(m)[name]
<1>1. PICK i \in DOMAIN c : c[i].name = name
  BY CFields
<1>2. PICK j \in DOMAIN r : /\ r[j].name = c[i].name /\ r[j].size = c[i].size
                            /\ Offsets(r)[j] = Offsets(c)[i]
  BY LayoutsAlike
<1>3. IsStruct(r) /\ IsStruct(c) /\ SizeOf(r) = SizeOf(c)
  BY BothAreStructs, LayoutsAlike
<1>4. e \in Seq(Byte) /\ Len(e) = SizeOf(c)
      /\ \A k \in 1..c[i].size : e[Offsets(c)[i] + k] = IF k <= Len(data) THEN data[k] ELSE 0
  BY <1>1, EncodedMessage
<1>5. data \in Seq(Byte) /\ Len(data) <= c[i].size
  <2>1. name \in DOMAIN Contents(m)
    BY DEF Contents
  <2>2. Fits(c, Contents(m))
    BY ContentsFit
  <2> HIDE DEF c
  <2> QED BY <1>1, <2>1, <2>2 DEF Fits
<1>11. name \in Numbers => c[i].size = Width(name)
  BY <1>1, CFields
<1> HIDE DEF c, r, e, data
<1>6. Offsets(r)[j] \in Nat /\ r[j].size \in Nat /\ SizeOf(r) \in Nat
  BY <1>3, FieldTypes, FieldWithin
<1>7. 0 \in Nat /\ 0 + SizeOf(r) <= Len(e)
  BY <1>3, <1>4, <1>6
<1>8. /\ Field(e, 0, r, name) \in Seq(Byte) /\ Len(Field(e, 0, r, name)) = r[j].size
      /\ \A k \in 1..r[j].size : Field(e, 0, r, name)[k] = e[0 + Offsets(r)[j] + k]
  <2>1. IsStruct(r) /\ e \in Seq(Byte) /\ 0 \in Nat /\ j \in DOMAIN r /\ r[j].name = name
        /\ 0 + SizeOf(r) <= Len(e)
    BY <1>1, <1>2, <1>3, <1>4, <1>7
  <2> QED BY <2>1, FieldBytes
<1>9. \A k \in 1..r[j].size : 0 + Offsets(r)[j] + k = Offsets(r)[j] + k
  BY <1>6
<1>10. \A k \in 1..Len(Field(e, 0, r, name)) :
          Field(e, 0, r, name)[k] = IF k <= Len(data) THEN data[k] ELSE 0
  BY <1>2, <1>4, <1>8, <1>9
<1> QED BY <1>2, <1>5, <1>8, <1>10, <1>11 DEF Holds, e, r, data

\* A number is read as it was written, every byte of it.
LEMMA NumberRead ==
    ASSUME NEW l \in Layouts, NEW m \in Messages, NEW name \in Numbers
    PROVE  Load(Encoded(m, l), RustStruct(l), name) = m[name]
<1> DEFINE field == Field(Encoded(m, l), 0, RustStruct(l), name)
           v == m[name]
<1>1. Holds(field, v) /\ Len(field) = Width(name) /\ v \in Seq(Byte) /\ Len(v) = Width(name)
  BY FieldRead, ContentsFit
<1> HIDE DEF field, v
<1>2. field \in Seq(Byte) /\ Len(field) = Len(v) /\ Len(v) \in Nat
      /\ \A k \in 1..Len(field) : field[k] = IF k <= Len(v) THEN v[k] ELSE 0
  BY <1>1 DEF Holds
<1>3. \A k \in 1..Len(v) : field[k] = v[k]
  BY <1>2
<1>4. field = v
  BY <1>1, <1>2, <1>3
<1> QED BY <1>4 DEF Load, field, v

\* What stands for a u32 where it is compared is a natural number.
LEMMA ComparedType ==
    ASSUME NEW b \in Seq(Byte), Len(b) = 4
    PROVE  from_u32(b) \in Nat
<1>1. b[1] \in Byte /\ b[2] \in Byte /\ b[3] \in Byte /\ b[4] \in Byte
  <2>1. \A k \in 1..4 : b[k] \in Byte
    BY Elements
  <2> QED BY <2>1
<1>4. \A x \in Byte : x \in Nat
  BY DEF Byte
<1> DEFINE b1 == b[1]
           b2 == b[2]
           b3 == b[3]
           b4 == b[4]
<1>2. b1 \in Nat /\ b2 \in Nat /\ b3 \in Nat /\ b4 \in Nat
  BY <1>1, <1>4
<1>3. from_u32(b) = IF b4 >= 128 THEN 2147483647
                    ELSE b1 + 256 * b2 + 65536 * b3 + 16777216 * b4
  BY SMT DEF from_u32, MaxNumber
<1> HIDE DEF b1, b2, b3, b4
<1> QED BY SMT, <1>2, <1>3

\* The slice of info that is read ends where info or infolen does.
LEMMA SliceRead ==
    ASSUME NEW l \in Layouts, NEW m \in Messages
    PROVE  LET info == Field(Encoded(m, l), 0, RustStruct(l), "info")
               n    == info_len(Encoded(m, l), l) IN
           /\ n \in 0..Len(info)
           /\ UpToNul(SubSeq(info, 1, n)) = SubSeq(m.info, 1, Min({Len(m.info), from_u32(m.infolen)}))
<1> DEFINE info == Field(Encoded(m, l), 0, RustStruct(l), "info")
           n    == info_len(Encoded(m, l), l)
           s    == m.info
           len  == from_u32(m.infolen)
<1>1. "info" \in Strings /\ "infolen" \in Numbers
  BY DEF Strings, Numbers
<1>2. NulFree(s) /\ s \in Seq(Byte) /\ Contents(m)["info"] = s
  <2>1. s \in Seq(1..255) /\ Contents(m)["info"] = s
    BY <1>1, ContentsFit
  <2> HIDE DEF s
  <2>2. NulFree(s)
    BY <2>1, StringsNulFree
  <2> QED BY <2>1, <2>2 DEF NulFree
<1>3. Holds(info, s)
  BY <1>1, <1>2, FieldRead
<1>4. Load(Encoded(m, l), RustStruct(l), "infolen") = m.infolen
  BY <1>1, NumberRead
<1>5. n = Min({len, Len(info)})
  BY <1>4 DEF info_len
<1>13. len \in Nat
  <2>1. m.infolen \in Seq(Byte) /\ Len(m.infolen) = 4
    BY <1>1, ContentsFit DEF Width
  <2> QED BY <2>1, ComparedType
<1> HIDE DEF info, n, s, len
<1>6. len \in Nat /\ Len(info) \in Nat /\ Len(s) \in Nat /\ Len(s) <= Len(info)
  BY <1>2, <1>3, <1>13 DEF Holds
<1>7. n = IF len <= Len(info) THEN len ELSE Len(info)
  BY <1>5, <1>6, MinOfTwo
<1>8. n \in 0..Len(info) /\ n \in Nat
  BY <1>6, <1>7
<1>9. Min({Len(s), n}) = Min({Len(s), len})
  <2>1. Min({Len(s), n}) = IF Len(s) <= n THEN Len(s) ELSE n
    BY <1>6, <1>8, MinOfTwo
  <2>2. Min({Len(s), len}) = IF Len(s) <= len THEN Len(s) ELSE len
    BY <1>6, MinOfTwo
  <2> QED BY <2>1, <2>2, <1>6, <1>7
<1>10. Holds(SubSeq(info, 1, n), SubSeq(s, 1, Min({Len(s), n})))
  BY <1>2, <1>3, <1>8, HoldsSlice
<1> DEFINE t == SubSeq(s, 1, Min({Len(s), n}))
<1>11. NulFree(t)
  <2>1. Min({Len(s), n}) = IF Len(s) <= n THEN Len(s) ELSE n
    BY <1>6, <1>8, MinOfTwo
  <2>2. Min({Len(s), n}) \in 0..Len(s)
    BY <2>1, <1>6, <1>8
  <2> QED BY <2>2, <1>2, NulFreePrefix
<1>12. UpToNul(SubSeq(info, 1, n)) = t
  BY <1>10, <1>11, HoldsString
<1> QED BY <1>8, <1>9, <1>12 DEF info, n, s, len

\* What the client makes of a message in the layout of its sender is what is meant.
LEMMA MessageRead ==
    ASSUME NEW l \in Layouts, NEW m \in Messages
    PROVE  FromRaw(Encoded(m, l), l) = Meant(m)
<1> DEFINE raw == Encoded(m, l)
           f == Fields(raw, l)
           g == [m EXCEPT !.cur_image = from_utf8_lossy(@), !.hnd_name = from_utf8_lossy(@),
                          !.info = from_utf8_lossy(SubSeq(@, 1, Min({Len(@), from_u32(m.infolen)})))]
           string(name) == Field(raw, 0, RustStruct(l), name)
           info == cstr_from_bytes(SubSeq(string("info"), 1, info_len(raw, l)))
<1>1. \A name \in Strings : m[name] \in Seq(1..255) /\ Contents(m)[name] = m[name]
  BY ContentsFit
<1>2. ASSUME NEW name \in Numbers PROVE Load(raw, RustStruct(l), name) = m[name]
  BY NumberRead
<1>3. ASSUME NEW name \in Strings PROVE cstr_from_bytes(string(name)) = from_utf8_lossy(m[name])
  <2>1. Holds(string(name), m[name])
    BY <1>1, FieldRead
  <2> HIDE DEF string
  <2> DEFINE t == m[name]
  <2>2. NulFree(t)
    <3>1. t \in Seq(1..255)
      BY <1>1
    <3> HIDE DEF t
    <3> QED BY <3>1, StringsNulFree
  <2>3. UpToNul(string(name)) = t
    <3> HIDE DEF t
    <3> QED BY <2>1, <2>2, HoldsString DEF t
  <2> QED BY <2>3 DEF cstr_from_bytes
<1>4. info = from_utf8_lossy(SubSeq(m.info, 1, Min({Len(m.info), from_u32(m.infolen)})))
  BY SliceRead DEF cstr_from_bytes
<1>5. f = [name \in Numbers \cup Strings |->
              CASE name \in Numbers -> Load(raw, RustStruct(l), name)
                [] name = "info"    -> cstr_from_bytes(SubSeq(string(name), 1, info_len(raw, l)))
                [] name \in Strings \ {"info"} -> cstr_from_bytes(string(name))]
  BY DEF Fields
<1>7. FromRaw(raw, l) = from_fields(f)
  BY DEF FromRaw
<1>8. Meant(m) = from_fields(g)
  BY DEF Meant
<1> HIDE DEF f, raw, string
<1>9. DOMAIN f = Numbers \cup Strings
      /\ (\A name \in Numbers : f[name] = m[name])
      /\ f["cur_image"] = from_utf8_lossy(m.cur_image)
      /\ f["hnd_name"] = from_utf8_lossy(m.hnd_name) /\ f["info"] = info
  <2>1. DOMAIN f = Numbers \cup Strings
    BY <1>5
  <2>2. ASSUME NEW name \in Numbers PROVE f[name] = m[name]
    <3>1. name # "info" /\ name \notin Strings
      BY DEF Numbers, Strings
    <3>2. f[name] = Load(raw, RustStruct(l), name)
      BY <1>5, <3>1
    <3> QED BY <1>2, <3>2
  <2>3. "info" \in Strings /\ "cur_image" \in Strings /\ "hnd_name" \in Strings
        /\ "info" \notin Numbers /\ "cur_image" \notin Numbers /\ "hnd_name" \notin Numbers
    BY DEF Strings, Numbers
  <2>4. f["info"] = info
    BY <1>5, <2>3
  <2>5. f["cur_image"] = cstr_from_bytes(string("cur_image"))
        /\ f["hnd_name"] = cstr_from_bytes(string("hnd_name"))
    BY <1>5, <2>3
  <2>6. cstr_from_bytes(string("cur_image")) = from_utf8_lossy(m.cur_image)
        /\ cstr_from_bytes(string("hnd_name")) = from_utf8_lossy(m.hnd_name)
    BY <1>3, <2>3
  <2> QED BY <2>1, <2>2, <2>4, <2>5, <2>6
<1> HIDE DEF info
<1>10. DOMAIN m = Numbers \cup Strings
  BY MessagesAssumption
<1>11. f = g
  <2>1. DOMAIN g = Numbers \cup Strings
    BY <1>10
  <2>2. g["cur_image"] = from_utf8_lossy(m.cur_image) /\ g["hnd_name"] = from_utf8_lossy(m.hnd_name)
        /\ g["info"] = from_utf8_lossy(SubSeq(m.info, 1, Min({Len(m.info), from_u32(m.infolen)})))
    BY <1>10 DEF Strings
  <2>3. ASSUME NEW name \in Numbers PROVE g[name] = m[name]
    BY <1>10 DEF Numbers
  <2>4. f = [name \in Numbers \cup Strings |-> f[name]]
    BY <1>5
  <2>6. g = [name \in DOMAIN g |-> g[name]]
    OBVIOUS
  <2> HIDE DEF g
  <2>5. ASSUME NEW name \in Numbers \cup Strings PROVE f[name] = g[name]
    BY <1>4, <1>9, <2>2, <2>3 DEF Strings
  <2> QED BY <2>1, <2>4, <2>5, <2>6
<1> HIDE DEF g
<1> QED BY <1>7, <1>8, <1>11 DEF raw


\* The status is at the same place in either layout.
LEMMA StatusPlace ==
    ASSUME NEW l \in Layouts
    PROVE  \E j \in DOMAIN RustStruct(l) :
              /\ RustStruct(l)[j].name = "status" /\ RustStruct(l)[j].size = 4
              /\ Offsets(RustStruct(l))[j] = 4
<1> DEFINE p == progress_msg(Sizes)
           c == CStruct(l)
<1>1. p[1].size = 4 /\ p[2].name = "status" /\ p[2].size = 4 /\ p[2].align = 4 /\ DOMAIN p = 1..12
      /\ DOMAIN p[1] = {"name", "size", "align"} /\ DOMAIN p[2] = {"name", "size", "align"}
  BY DEF progress_msg, Int32, Int64, Chars
<1>2. c[1].size = 4 /\ c[2].name = "status" /\ c[2].size = 4 /\ c[2].align \in {1, 4}
      /\ DOMAIN c = 1..12
  <2>1. CASE l = "unpacked"
    <3>1. c = p
      BY <2>1 DEF CStruct
    <3> HIDE DEF c, p
    <3> QED BY <1>1, <3>1
  <2>2. CASE l = "packed"
    <3>1. c = Packed(p)
      BY <2>2 DEF CStruct
    <3> HIDE DEF c, p
    <3>2. DOMAIN c = 1..12 /\ \A i \in 1..12 : c[i] = [p[i] EXCEPT !.align = 1]
      BY <1>1, <3>1 DEF Packed
    <3>3. c[1] = [p[1] EXCEPT !.align = 1] /\ c[2] = [p[2] EXCEPT !.align = 1]
      BY <3>2
    <3> QED BY <1>1, <3>2, <3>3
  <2> QED BY <2>1, <2>2 DEF Layouts
<1>3. IsStruct(c)
  BY BothAreStructs
<1> HIDE DEF p, c
<1>4. 2 \in 2..Len(c) /\ 2 - 1 = 1
  <2>1. Len(c) = 12
    BY <1>2, <1>3, FieldTypes
  <2> QED BY <2>1
<1>5. Offsets(c)[1] = 0 /\ Offsets(c)[2] = AlignUp(Offsets(c)[1] + c[1].size, c[2].align)
  BY <1>3, <1>4, OffsetsDefined
<1>6. AlignUp(4, 1) = 4 /\ AlignUp(4, 4) = 4
  BY DEF AlignUp
<1>7. Offsets(c)[2] = 4
  BY <1>2, <1>5, <1>6
<1> QED BY <1>2, <1>7, LayoutsAlike DEF c

\* A message of either layout has a status.
LEMMA AtLeastStatus ==
    ASSUME NEW l \in Layouts
    PROVE  /\ SizeOf(RustStruct(l)) \in Nat /\ SizeOf(RustStruct(l)) >= 8
           /\ SizeOf(CStruct(l)) = SizeOf(RustStruct(l))
<1> DEFINE r == RustStruct(l)
<1>1. IsStruct(r) /\ SizeOf(CStruct(l)) = SizeOf(r)
  BY BothAreStructs, LayoutsAlike
<1>2. PICK j \in DOMAIN r : r[j].size = 4 /\ Offsets(r)[j] = 4
  BY StatusPlace
<1> HIDE DEF r
<1>3. SizeOf(r) \in Nat /\ Offsets(r)[j] + r[j].size <= SizeOf(r)
  BY <1>1, FieldWithin
<1> QED BY <1>1, <1>2, <1>3 DEF r

\* The kind of an event is that of the status.
Kind(status) ==
    CASE status = "Idle"     -> "Idle"
      [] status = "Start"    -> "Started"
      [] status = "Download" -> "Downloading"
      [] status \in {"Run", "Progress", "Subprocess"} -> "Installing"
      [] status \in {"Success", "Done"} -> "Success"
      [] status \in {"Failure", "None"} -> "Failed"

\* Every number stands for a status or for none.
LEMMA StatusKnown ==
    ASSUME NEW v
    PROVE  RecoveryStatus(v) \in {"Idle", "Start", "Run", "Success", "Failure", "Download", "Done",
                                  "Subprocess", "Progress", "None"}
<1>1. Len(RecoveryStatuses) - 1 = 8
  BY DEF RecoveryStatuses
<1>2. \A i \in 1..9 : RecoveryStatuses[i] \in
          {"Idle", "Start", "Run", "Success", "Failure", "Download", "Done", "Subprocess", "Progress"}
  BY DEF RecoveryStatuses
<1>3. \A u \in 0..8 : u + 1 \in 1..9
  OBVIOUS
<1> QED BY <1>1, <1>2, <1>3 DEF RecoveryStatus, FromNumber

\* from_fields() goes by the status.
LEMMA KindOfStatus ==
    ASSUME NEW f
    PROVE  from_fields(f).kind = Kind(RecoveryStatus(from_u32(f.status)))
<1> DEFINE status == RecoveryStatus(from_u32(f.status))
<1>1. status \in {"Idle", "Start", "Run", "Success", "Failure", "Download", "Done",
                  "Subprocess", "Progress", "None"}
  BY StatusKnown
<1>2. from_fields(f) =
        CASE status = "Idle"     -> [kind |-> "Idle"]
          [] status = "Start"    -> [kind |-> "Started"]
          [] status = "Download" -> [kind |-> "Downloading", percent |-> f.dwl_percent,
                                     bytes_total |-> f.dwl_bytes]
          [] status \in {"Run", "Progress", "Subprocess"} ->
                [kind |-> "Installing", step |-> f.cur_step, total_steps |-> f.nsteps,
                 percent |-> f.cur_percent, image |-> f.cur_image, handler |-> f.hnd_name]
          [] status \in {"Success", "Done"} -> [kind |-> "Success"]
          [] status = "Failure"  -> [kind |-> "Failed", info |-> f.info]
          [] status = "None"     -> [kind |-> "Failed", unknown |-> f.status]
  BY DEF from_fields
<1> SUFFICES from_fields(f).kind = Kind(status)
  OBVIOUS
<1> HIDE DEF status
<1>3. CASE status = "Idle"
  BY <1>2, <1>3 DEF Kind
<1>4. CASE status = "Start"
  BY <1>2, <1>4 DEF Kind
<1>5. CASE status = "Download"
  BY <1>2, <1>5 DEF Kind
<1>6. CASE status \in {"Run", "Progress", "Subprocess"}
  BY <1>2, <1>6 DEF Kind
<1>7. CASE status \in {"Success", "Done"}
  BY <1>2, <1>7 DEF Kind
<1>8. CASE status = "Failure"
  BY <1>2, <1>8 DEF Kind
<1>9. CASE status = "None"
  BY <1>2, <1>9 DEF Kind
<1> QED BY <1>1, <1>3, <1>4, <1>5, <1>6, <1>7, <1>8, <1>9

\* Whatever the bytes are, the client makes an event of them that goes by the status.
LEMMA AnyMessage ==
    ASSUME NEW l \in Layouts, NEW raw
    PROVE  FromRaw(raw, l).kind = Kind(RecoveryStatus(from_u32(Load(raw, RustStruct(l), "status"))))
<1> DEFINE r == RustStruct(l)
           f == Fields(raw, l)
<1>1. f["status"] = Load(raw, r, "status")
  <2>1. f = [name \in Numbers \cup Strings |->
                CASE name \in Numbers -> Load(raw, r, name)
                  [] name = "info"    -> cstr_from_bytes(SubSeq(Field(raw, 0, r, name), 1, info_len(raw, l)))
                  [] name \in Strings \ {"info"} -> cstr_from_bytes(Field(raw, 0, r, name))]
    BY DEF Fields
  <2>2. "status" \in Numbers /\ "status" \notin Strings /\ "status" # "info"
    BY DEF Numbers, Strings
  <2> HIDE DEF f, r
  <2> QED BY <2>1, <2>2
<1>2. FromRaw(raw, l) = from_fields(f)
  BY DEF FromRaw
<1> HIDE DEF f, r
<1> QED BY <1>1, <1>2, KindOfStatus DEF r


-----------------------------------------------------------------------------
(* The stream.                                                              *)

\* A slice of a stream stays when something is appended.
LEMMA SliceOfJoin ==
    ASSUME NEW S, NEW s \in Seq(S), NEW t \in Seq(S), NEW a \in Nat \ {0}, NEW b \in 0..Len(s)
    PROVE  SubSeq(s \o t, a, b) = SubSeq(s, a, b)
<1>1. Len(s \o t) = Len(s) + Len(t) /\ Len(s) \in Nat /\ Len(t) \in Nat
      /\ \A i \in 1..Len(s) : (s \o t)[i] = s[i]
  OBVIOUS
<1>2. SubSeq(s \o t, a, b) = [i \in 1..(b - a + 1) |-> (s \o t)[i + a - 1]]
  OBVIOUS
<1>3. SubSeq(s, a, b) = [i \in 1..(b - a + 1) |-> s[i + a - 1]]
  OBVIOUS
<1>4. \A i \in 1..(b - a + 1) : i + a - 1 \in 1..Len(s)
  BY <1>1
<1> QED BY <1>1, <1>2, <1>3, <1>4

\* What is appended is the end of the stream.
LEMMA SliceAppended ==
    ASSUME NEW S, NEW s \in Seq(S), NEW t \in Seq(S)
    PROVE  SubSeq(s \o t, Len(s) + 1, Len(s) + Len(t)) = t
<1> DEFINE n == Len(s)
           k == Len(t)
<1>1. n \in Nat /\ k \in Nat /\ \A i \in 1..k : (s \o t)[n + i] = t[i]
  OBVIOUS
<1>2. SubSeq(s \o t, n + 1, n + k) = [i \in 1..((n + k) - (n + 1) + 1) |-> (s \o t)[i + (n + 1) - 1]]
  OBVIOUS
<1>3. t = [i \in 1..k |-> t[i]]
  OBVIOUS
<1> HIDE DEF n, k
<1>4. (n + k) - (n + 1) + 1 = k /\ \A i \in 1..k : i + (n + 1) - 1 = n + i
  BY <1>1
<1> QED BY <1>1, <1>2, <1>3, <1>4 DEF n, k

\* A slice of what is left when the first bytes are gone.
LEMMA SliceOfRest ==
    ASSUME NEW S, NEW s \in Seq(S), NEW d \in 0..Len(s), NEW a \in Nat \ {0}, NEW b \in Nat,
           d + b <= Len(s)
    PROVE  SubSeq(SubSeq(s, d + 1, Len(s)), a, b) = SubSeq(s, d + a, d + b)
<1> DEFINE n == Len(s)
           r == SubSeq(s, d + 1, n)
<1>1. n \in Nat /\ r = [i \in 1..(n - d) |-> s[d + i]]
  <2>1. n \in Nat /\ r = [i \in 1..(n - (d + 1) + 1) |-> s[i + (d + 1) - 1]]
    OBVIOUS
  <2> HIDE DEF n, r
  <2>2. d \in Nat
    BY <2>1
  <2>3. n - (d + 1) + 1 = n - d /\ \A i \in 1..(n - d) : i + (d + 1) - 1 = d + i
    BY <2>1, <2>2
  <2> QED BY <2>1, <2>3
<1>2. SubSeq(r, a, b) = [i \in 1..(b - a + 1) |-> r[i + a - 1]]
  OBVIOUS
<1>3. SubSeq(s, d + a, d + b) = [i \in 1..((d + b) - (d + a) + 1) |-> s[i + (d + a) - 1]]
  OBVIOUS
<1> HIDE DEF n, r
<1>4. d + b <= n /\ d \in Nat
  BY <1>1 DEF n
<1>5. (d + b) - (d + a) + 1 = b - a + 1
      /\ \A i \in 1..(b - a + 1) : i + a - 1 \in 1..(n - d) /\ d + (i + a - 1) = i + (d + a) - 1
  BY <1>1, <1>4
<1>6. \A i \in 1..(b - a + 1) : r[i + a - 1] = s[i + (d + a) - 1]
  BY <1>1, <1>5
<1> QED BY <1>2, <1>3, <1>5, <1>6 DEF n, r

\* Messages of one size lie one behind the other.
LEMMA Places ==
    ASSUME NEW size \in Nat, NEW n \in Nat
    PROVE  /\ size * n \in Nat /\ size * (n + 1) = size * n + size /\ size * 0 = 0
           /\ \A k \in 1..n : /\ size * (k - 1) \in Nat /\ size * k \in Nat
                              /\ size * k = size * (k - 1) + size /\ size * k <= size * n
<1>1. ASSUME NEW i \in Nat PROVE size * i \in Nat
  OBVIOUS
<1>2. ASSUME NEW i \in Int PROVE size * (i + 1) = size * i + size
  OBVIOUS
<1>3. ASSUME NEW k \in 1..n PROVE size * k = size * (k - 1) + size
  <2>1. k - 1 \in Int /\ (k - 1) + 1 = k
    OBVIOUS
  <2> QED BY <2>1, <1>2
<1>4. ASSUME NEW k \in 1..n PROVE size * k <= size * n
  <2>1. n - k \in Nat /\ n = k + (n - k)
    OBVIOUS
  <2>2. size * (k + (n - k)) = size * k + size * (n - k)
    OBVIOUS
  <2>3. size * (n - k) \in Nat /\ size * k \in Nat
    BY <2>1, <1>1
  <2>4. size * n = size * k + size * (n - k)
    BY <2>1, <2>2
  <2> QED BY <2>3, <2>4
<1> QED BY <1>1, <1>2, <1>3, <1>4


\* The daemon writes the status where either layout has it.
LEMMA StatusWritten ==
    ASSUME NEW l \in Layouts, NEW m \in Messages
    PROVE  SubSeq(Encoded(m, l), 5, 8) = m.status
<1> DEFINE e == Encoded(m, l)
           b == m.status
           field == Field(e, 0, RustStruct(l), "status")
<1>1. "status" \in Numbers
  BY DEF Numbers
<1>2. Contents(m)["status"] = b
  BY <1>1, ContentsFit
<1>3. b \in Seq(Byte) /\ Len(b) = 4
  BY <1>1, ContentsFit DEF Width
<1>4. e \in Seq(Byte) /\ Len(e) = SizeOf(RustStruct(l)) /\ Len(e) >= 8
  BY EncodedMessage, AtLeastStatus
<1>5. PICK j \in DOMAIN RustStruct(l) : /\ RustStruct(l)[j].name = "status" /\ RustStruct(l)[j].size = 4
                                        /\ Offsets(RustStruct(l))[j] = 4
  BY StatusPlace
<1>6. Len(field) = 4 /\ \A k \in 1..4 : field[k] = e[0 + 4 + k]
  <2>1. IsStruct(RustStruct(l)) /\ SizeOf(RustStruct(l)) \in Nat
    BY BothAreStructs, AtLeastStatus
  <2> DEFINE r == RustStruct(l)
  <2> HIDE DEF e, r
  <2>2. 0 \in Nat /\ 0 + SizeOf(r) <= Len(e)
    BY <1>4, <2>1 DEF r
  <2>3. Len(Field(e, 0, r, r[j].name)) = r[j].size
        /\ \A k \in 1..r[j].size : Field(e, 0, r, r[j].name)[k] = e[0 + Offsets(r)[j] + k]
    BY <1>4, <2>1, <2>2, FieldBytes DEF r
  <2> QED BY <1>5, <2>3 DEF r
<1>7. Holds(field, b)
  BY <1>1, <1>2, FieldRead
<1> HIDE DEF e, b, field
<1>8. \A k \in 1..4 : field[k] = b[k]
  BY <1>3, <1>6, <1>7 DEF Holds
<1>9. SubSeq(e, 5, 8) = [k \in 1..4 |-> e[k + 4]]
  <2>1. SubSeq(e, 5, 8) = [k \in 1..(8 - 5 + 1) |-> e[k + 5 - 1]]
    BY <1>4
  <2>2. 8 - 5 + 1 = 4 /\ \A k \in 1..4 : k + 5 - 1 = k + 4
    OBVIOUS
  <2> QED BY <2>1, <2>2
<1>10. b = [k \in 1..4 |-> b[k]]
  BY <1>3
<1>11. \A k \in 1..4 : 0 + 4 + k = k + 4
  OBVIOUS
<1>12. \A k \in 1..4 : e[k + 4] = b[k]
  BY <1>6, <1>8, <1>11
<1> QED BY <1>9, <1>10, <1>12 DEF e, b

\* The client reads it there, in its own layout.
LEMMA StatusRead ==
    ASSUME NEW l \in Layouts, NEW raw \in Seq(Byte), Len(raw) = SizeOf(RustStruct(l)),
           NEW b \in Seq(Byte), Len(b) = 4, SubSeq(raw, 5, 8) = b
    PROVE  Load(raw, RustStruct(l), "status") = b
<1> DEFINE r == RustStruct(l)
           field == Field(raw, 0, r, "status")
<1>1. PICK j \in DOMAIN r : r[j].name = "status" /\ r[j].size = 4 /\ Offsets(r)[j] = 4
  BY StatusPlace
<1>2. IsStruct(r) /\ SizeOf(r) \in Nat /\ SizeOf(r) >= 8
  BY BothAreStructs, AtLeastStatus
<1>3. Len(raw) = SizeOf(r)
  OBVIOUS
<1> HIDE DEF r
<1>4. 0 \in Nat /\ 0 + SizeOf(r) <= Len(raw)
  BY <1>2, <1>3
<1>5. field \in Seq(Byte) /\ Len(field) = 4 /\ \A k \in 1..4 : field[k] = raw[0 + 4 + k]
  <2>1. Field(raw, 0, r, r[j].name) \in Seq(Byte) /\ Len(Field(raw, 0, r, r[j].name)) = r[j].size
        /\ \A k \in 1..r[j].size : Field(raw, 0, r, r[j].name)[k] = raw[0 + Offsets(r)[j] + k]
    BY SMTT(30), <1>2, <1>4, FieldBytes
  <2> QED BY <1>1, <2>1
<1>6. SubSeq(raw, 5, 8)[1] = raw[5] /\ SubSeq(raw, 5, 8)[2] = raw[6]
      /\ SubSeq(raw, 5, 8)[3] = raw[7] /\ SubSeq(raw, 5, 8)[4] = raw[8]
  BY <1>2, <1>3
<1>7. SubSeq(raw, 5, 8) = b
  OBVIOUS
<1> HIDE DEF field
<1>8. \A k \in 1..4 : field[k] = b[k]
  <2>1. 0 + 4 + 1 = 5 /\ 0 + 4 + 2 = 6 /\ 0 + 4 + 3 = 7 /\ 0 + 4 + 4 = 8
    OBVIOUS
  <2>2. field[1] = raw[5] /\ field[2] = raw[6] /\ field[3] = raw[7] /\ field[4] = raw[8]
    BY <1>5, <2>1
  <2>3. field[1] = b[1] /\ field[2] = b[2] /\ field[3] = b[3] /\ field[4] = b[4]
    BY <1>6, <1>7, <2>2
  <2>4. \A k \in 1..4 : k = 1 \/ k = 2 \/ k = 3 \/ k = 4
    OBVIOUS
  <2> QED BY <2>3, <2>4
<1>9. field = b
  BY <1>5, <1>8
<1> QED BY <1>9 DEF Load, field, r

\* The kind of the event that is meant.
LEMMA MeantKind ==
    ASSUME NEW m \in Messages
    PROVE  Meant(m).kind = Kind(RecoveryStatus(from_u32(m.status)))
<1> DEFINE g == [m EXCEPT !.cur_image = from_utf8_lossy(@), !.hnd_name = from_utf8_lossy(@),
                          !.info = from_utf8_lossy(SubSeq(@, 1, Min({Len(@), from_u32(m.infolen)})))]
<1>1. "status" \in Numbers /\ "status" \in DOMAIN m
  BY MessagesAssumption DEF Numbers
<1>2. g.status = m.status
  BY <1>1
<1>3. Meant(m) = from_fields(g)
  BY DEF Meant
<1> HIDE DEF g
<1>4. from_fields(g).kind = Kind(RecoveryStatus(from_u32(g.status)))
  BY KindOfStatus
<1> QED BY <1>2, <1>3, <1>4

\* The last element of a sequence, and those before it.
LEMMA Appended ==
    ASSUME NEW S, NEW seq \in Seq(S), NEW x
    PROVE  /\ Len(Append(seq, x)) = Len(seq) + 1 /\ Len(seq) \in Nat /\ Append(seq, x) # <<>>
           /\ Append(seq, x)[Len(seq) + 1] = x
           /\ \A k \in 1..Len(seq) : Append(seq, x)[k] = seq[k]
           /\ DOMAIN Append(seq, x) = 1..(Len(seq) + 1)
OBVIOUS

\* Events are a sequence, of whatever they are.
LEMMA EventAppended ==
    ASSUME NEW seq, seq \in Seq(ToSet(seq)), NEW x
    PROVE  Append(seq, x) \in Seq(ToSet(Append(seq, x)))
<1> DEFINE t == Append(seq, x)
<1>1. t = [k \in 1..(Len(seq) + 1) |-> t[k]] /\ Len(seq) \in Nat
  <2>1. seq \in Seq(ToSet(seq) \cup {x}) /\ x \in ToSet(seq) \cup {x}
    <3>1. seq = [k \in 1..Len(seq) |-> seq[k]] /\ Len(seq) \in Nat
      OBVIOUS
    <3>2. \A k \in 1..Len(seq) : seq[k] \in ToSet(seq) \cup {x}
      BY Elements
    <3> QED BY <3>1, <3>2
  <2>2. t \in Seq(ToSet(seq) \cup {x}) /\ Len(t) = Len(seq) + 1
    BY <2>1
  <2>3. Len(seq) \in Nat
    OBVIOUS
  <2> HIDE DEF t
  <2>4. t = [k \in 1..Len(t) |-> t[k]]
    BY <2>2
  <2> QED BY <2>2, <2>3, <2>4
<1>2. DOMAIN t = 1..(Len(seq) + 1)
  BY <1>1
<1> HIDE DEF t
<1>3. \A k \in 1..(Len(seq) + 1) : t[k] \in ToSet(t)
  BY <1>2 DEF ToSet
<1> QED BY <1>1, <1>3 DEF t



-----------------------------------------------------------------------------
(* The invariant.                                                           *)

\* It holds of a client that has just connected.
LEMMA InitIInv == Init => IInv
<1> SUFFICES ASSUME Init PROVE IInv
  OBVIOUS
<1>1. compiled \in Layouts /\ build \in Builds /\ layout = detect_layout(build.words)
      /\ sent = <<>> /\ wire = <<>> /\ events = <<>>
  BY DEF Init
<1>2. TypeOK
  BY <1>1 DEF TypeOK
<1>3. InStep
  <2>1. SizeOf(CStruct(compiled)) \in Nat
    BY <1>1, AtLeastStatus
  <2>2. Len(wire) = 0 /\ Len(sent) - Len(events) = 0
    BY <1>1
  <2>3. SizeOf(CStruct(compiled)) * 0 = 0
    BY <2>1, Places
  <2> QED BY <2>2, <2>3 DEF InStep
<1>4. Fresh /\ EventsDecoded /\ FirstKindSurvives
  <2>1. DOMAIN events = {}
    BY <1>1
  <2> QED BY <1>1, <2>1 DEF Fresh, EventsDecoded, FirstKindSurvives
<1> QED BY <1>2, <1>3, <1>4 DEF IInv

\* The client detects a layout, whatever it is.
LEMMA SomeLayout == \A words : detect_layout(words) \in Layouts
BY DEF detect_layout, Layouts

\* A broadcast appends one whole message to the stream.
LEMMA BroadcastIInv == IInv /\ DaemonBroadcast => IInv'
<1> SUFFICES ASSUME IInv, DaemonBroadcast PROVE IInv'
  OBVIOUS
<1> DEFINE size == SizeOf(CStruct(compiled))
           unread == Len(sent) - Len(events)
<1>1. compiled \in Layouts /\ sent \in Seq(Messages) /\ wire \in Seq(Byte)
      /\ events \in Seq(ToSet(events))
  BY DEF IInv, TypeOK
<1>2. UNCHANGED <<compiled, build, layout, events>>
  BY DEF DaemonBroadcast
<1>3. PICK m \in Messages : sent' = Append(sent, m) /\ wire' = wire \o Encoded(m, compiled)
  BY DEF DaemonBroadcast
<1> DEFINE e == Encoded(m, compiled)
<1>4. e \in Seq(Byte) /\ Len(e) = size /\ size \in Nat /\ size >= 8
  BY <1>1, EncodedMessage, AtLeastStatus
<1>5. Len(sent') = Len(sent) + 1 /\ sent' # <<>> /\ sent'[Len(sent) + 1] = m
      /\ \A k \in 1..Len(sent) : sent'[k] = sent[k]
  BY SMTT(30), <1>1, <1>3, Appended
<1>6. Len(sent) \in Nat /\ Len(events) \in Nat /\ Len(wire) \in Nat /\ DOMAIN events = 1..Len(events)
  BY <1>1
<1>7. TypeOK'
  <2>1. sent' \in Seq(Messages) /\ wire' \in Seq(Byte)
    <3> HIDE DEF e
    <3> QED BY <1>1, <1>3, <1>4 DEF e
  <2> QED BY <1>2, <2>1 DEF IInv, TypeOK
<1>8. InStep'
  <2> SUFFICES ASSUME layout = compiled
               PROVE  /\ unread + 1 \in Nat /\ Len(wire') = size * (unread + 1)
                      /\ \A k \in 1..(unread + 1) :
                            SubSeq(wire', size * (k - 1) + 1, size * k)
                                = Encoded(sent'[Len(events) + k], compiled)
    <3>1. Len(sent') - Len(events) = unread + 1
      BY <1>5, <1>6
    <3> QED BY <1>2, <3>1 DEF InStep
  <2>1. /\ unread \in Nat /\ Len(wire) = size * unread
        /\ \A k \in 1..unread :
              SubSeq(wire, size * (k - 1) + 1, size * k) = Encoded(sent[Len(events) + k], compiled)
    BY DEF IInv, InStep
  <2>2. \A k \in 1..unread : Len(events) + k \in 1..Len(sent)
    BY <1>6, <2>1
  <2>3. Len(events) + (unread + 1) = Len(sent) + 1
    BY <1>6
  <2> HIDE DEF size, unread, e
  <2>4. size * unread \in Nat /\ size * (unread + 1) = size * unread + size
        /\ \A k \in 1..unread : size * (k - 1) \in Nat /\ size * k \in Nat /\ size * k <= size * unread
    BY <1>4, <2>1, Places
  <2>5. Len(wire') = size * (unread + 1)
    <3>1. wire' = wire \o e
      BY <1>3 DEF e
    <3>2. Len(wire \o e) = Len(wire) + Len(e)
      BY SMTT(30), <1>1, <1>4
    <3> QED BY <1>4, <2>1, <2>4, <3>1, <3>2
  <2>6. ASSUME NEW k \in 1..unread
        PROVE  SubSeq(wire', size * (k - 1) + 1, size * k) = Encoded(sent'[Len(events) + k], compiled)
    <3> DEFINE a == size * (k - 1)
               b == size * k
    <3>1. a \in Nat /\ b \in Nat /\ b <= Len(wire)
      BY <2>1, <2>4
    <3>2. SubSeq(wire, a + 1, b) = Encoded(sent[Len(events) + k], compiled)
      BY <2>1
    <3>3. sent'[Len(events) + k] = sent[Len(events) + k]
      BY <1>5, <2>2
    <3> HIDE DEF a, b
    <3>4. a + 1 \in Nat \ {0} /\ b \in 0..Len(wire)
      BY <1>6, <3>1
    <3>5. SubSeq(wire \o e, a + 1, b) = SubSeq(wire, a + 1, b)
      BY ZenonT(30), <1>1, <1>4, <3>4, SliceOfJoin
    <3> QED BY <1>3, <3>2, <3>3, <3>5 DEF a, b, e
  <2>7. SubSeq(wire', size * ((unread + 1) - 1) + 1, size * (unread + 1))
            = Encoded(sent'[Len(events) + (unread + 1)], compiled)
    <3>1. (unread + 1) - 1 = unread
      BY <2>1
    <3>2. SubSeq(wire \o e, Len(wire) + 1, Len(wire) + Len(e)) = e
      BY <1>1, <1>4, SliceAppended
    <3>3. Len(wire) + Len(e) = size * (unread + 1) /\ Len(wire) = size * ((unread + 1) - 1)
      BY <1>4, <2>1, <2>4, <3>1
    <3> QED BY <1>3, <1>5, <2>3, <3>2, <3>3 DEF e
  <2>8. \A k \in 1..(unread + 1) : k \in 1..unread \/ k = unread + 1
    BY <2>1
  <2>9. ASSUME NEW k \in 1..(unread + 1)
        PROVE  SubSeq(wire', size * (k - 1) + 1, size * k) = Encoded(sent'[Len(events) + k], compiled)
    <3>1. CASE k \in 1..unread
      BY <2>6, <3>1
    <3>2. CASE k = unread + 1
      BY <2>7, <3>2
    <3> QED BY <2>8, <3>1, <3>2
  <2>10. unread + 1 \in Nat
    BY <2>1
  <2> QED BY <2>5, <2>9, <2>10
<1>9. Fresh'
  <2> SUFFICES ASSUME events = <<>>
               PROVE  Len(wire') >= 8 /\ SubSeq(wire', 5, 8) = sent'[1].status
    BY <1>2, <1>5 DEF Fresh
  <2>1. wire' = wire \o e /\ SubSeq(e, 5, 8) = m.status
    BY <1>1, <1>3, StatusWritten
  <2> HIDE DEF e, size
  <2>2. Len(wire') >= 8
    <3>1. Len(wire \o e) = Len(wire) + Len(e)
      BY <1>1, <1>4
    <3> QED BY <1>4, <1>6, <2>1, <3>1
  <2>3. CASE sent = <<>>
    <3>1. wire = <<>>
      BY <2>3 DEF IInv, Fresh
    <3>2. wire' = e
      BY <1>4, <2>1, <3>1
    <3>3. sent'[1] = m
      BY <1>5, <2>3
    <3> QED BY <2>1, <2>2, <3>2, <3>3
  <2>4. CASE sent # <<>>
    <3>1. Len(wire) >= 8 /\ SubSeq(wire, 5, 8) = sent[1].status
      BY <2>4 DEF IInv, Fresh
    <3>2. 5 \in Nat \ {0} /\ 8 \in 0..Len(wire)
      BY <1>6, <3>1
    <3>3. SubSeq(wire \o e, 5, 8) = SubSeq(wire, 5, 8)
      BY <1>1, <1>4, <3>2, SliceOfJoin
    <3>4. sent'[1] = sent[1]
      BY <1>1, <1>5, <2>4
    <3> QED BY <2>1, <2>2, <3>1, <3>3, <3>4
  <2> QED BY <2>3, <2>4
<1>10. EventsDecoded'
  <2> SUFFICES ASSUME layout = compiled
               PROVE  events = [k \in DOMAIN events |-> Meant(sent'[k])]
    BY <1>2 DEF EventsDecoded
  <2>1. events = [k \in DOMAIN events |-> Meant(sent[k])] /\ unread \in Nat
    BY DEF IInv, EventsDecoded, InStep
  <2>2. \A k \in DOMAIN events : k \in 1..Len(sent)
    BY <1>6, <2>1
  <2>3. \A k \in DOMAIN events : sent'[k] = sent[k]
    BY <1>5, <2>2
  <2> QED BY <2>1, <2>3
<1>11. FirstKindSurvives'
  <2> SUFFICES ASSUME events # <<>> PROVE events[1].kind = Meant(sent'[1]).kind
    BY <1>2 DEF FirstKindSurvives
  <2>1. sent # <<>> /\ events[1].kind = Meant(sent[1]).kind
    BY DEF IInv, Fresh, FirstKindSurvives
  <2>2. sent'[1] = sent[1]
    BY <1>1, <1>5, <2>1
  <2> QED BY <2>1, <2>2
<1> QED BY <1>7, <1>8, <1>9, <1>10, <1>11 DEF IInv


\* What is left of a stream is a stream.
LEMMA RestTypes ==
    ASSUME NEW S, NEW s \in Seq(S), NEW d \in 0..Len(s)
    PROVE  SubSeq(s, d + 1, Len(s)) \in Seq(S) /\ Len(SubSeq(s, d + 1, Len(s))) = Len(s) - d
<1> DEFINE n == Len(s)
<1>1. n \in Nat /\ d \in Nat /\ d <= n
  <2>1. n \in Nat /\ d \in 0..n
    OBVIOUS
  <2> HIDE DEF n
  <2> QED BY <2>1
<1>2. SubSeq(s, d + 1, n) = [i \in 1..(n - (d + 1) + 1) |-> s[i + (d + 1) - 1]]
  BY <1>1
<1>3. \A i \in 1..n : s[i] \in S
  OBVIOUS
<1> HIDE DEF n
<1>4. n - (d + 1) + 1 = n - d /\ n - d \in Nat /\ \A i \in 1..(n - d) : i + (d + 1) - 1 \in 1..n
  BY <1>1
<1>5. \A i \in 1..(n - d) : s[i + (d + 1) - 1] \in S
  BY <1>3, <1>4
<1> DEFINE r == [i \in 1..(n - d) |-> s[i + (d + 1) - 1]]
<1>6. r \in Seq(S) /\ Len(r) = n - d
  BY SMTT(30), <1>4, <1>5
<1> HIDE DEF r
<1>7. SubSeq(s, d + 1, n) = r
  BY <1>2, <1>4 DEF r
<1> QED BY <1>6, <1>7 DEF n

\* receive() takes the first message, in the daemon's layout the oldest that was not
\* yet received, and decodes it.
LEMMA ReceiveIInv == IInv /\ receive => IInv'
<1> SUFFICES ASSUME IInv, receive PROVE IInv'
  OBVIOUS
<1> DEFINE size == SizeOf(RustStruct(layout))
           raw == SubSeq(wire, 1, size)
           event == FromRaw(raw, layout)
           unread == Len(sent) - Len(events)
<1>1. compiled \in Layouts /\ layout \in Layouts /\ sent \in Seq(Messages) /\ wire \in Seq(Byte)
      /\ events \in Seq(ToSet(events)) /\ build \in Builds /\ layout = detect_layout(build.words)
  BY SomeLayout DEF IInv, TypeOK
<1>2. UNCHANGED <<compiled, build, layout, sent>>
  BY DEF receive
<1>3. Len(wire) >= size /\ events' = Append(events, event) /\ wire' = SubSeq(wire, size + 1, Len(wire))
  BY DEF receive, ReadLen
<1>4. size \in Nat /\ size >= 8
  BY <1>1, AtLeastStatus
<1>5. Len(sent) \in Nat /\ Len(events) \in Nat /\ Len(wire) \in Nat /\ DOMAIN events = 1..Len(events)
      /\ (events = <<>> \/ Len(events) >= 1)
  BY <1>1
<1> DEFINE n == Len(events)
<1>6. Len(events') = n + 1 /\ events' # <<>> /\ events'[n + 1] = event
      /\ (\A k \in 1..n : events'[k] = events[k]) /\ DOMAIN events' = 1..(n + 1)
  <2>1. events' = Append(events, event)
    BY <1>3
  <2> HIDE DEF event, size, raw
  <2> DEFINE appended == Append(events, event)
  <2>2. /\ Len(appended) = Len(events) + 1 /\ appended # <<>> /\ appended[Len(events) + 1] = event
        /\ \A k \in 1..Len(events) : appended[k] = events[k]
        /\ DOMAIN appended = 1..(Len(events) + 1)
    BY SMTT(30), <1>1, Appended
  <2> HIDE DEF appended
  <2>3. events' = appended
    BY <2>1 DEF appended
  <2> QED BY <2>2, <2>3
<1>7. raw \in Seq(Byte) /\ Len(raw) = size
  <2> HIDE DEF size
  <2>1. size \in 0..Len(wire)
    BY <1>3, <1>4, <1>5
  <2>2. raw \in Seq(Byte)
    BY <1>1, <2>1, Prefix
  <2>3. Len(raw) = size
    BY <1>1, <2>1, <1>4
  <2> QED BY <2>2, <2>3
<1>8. event.kind = Kind(RecoveryStatus(from_u32(Load(raw, RustStruct(layout), "status"))))
  BY <1>1, AnyMessage
<1>9. size \in 0..Len(wire)
  <2> HIDE DEF size
  <2> QED BY <1>3, <1>4, <1>5
<1>10. wire' \in Seq(Byte) /\ Len(wire') = Len(wire) - size
  <2> HIDE DEF size
  <2> QED BY <1>1, <1>3, <1>9, RestTypes
<1>11. TypeOK'
  <2>1. events' \in Seq(ToSet(events'))
    <3> HIDE DEF event
    <3> QED BY <1>1, <1>3, EventAppended
  <2> QED BY <1>1, <1>2, <1>10, <2>1 DEF TypeOK
<1>12. layout = compiled =>
         /\ unread \in Nat \ {0} /\ Len(wire) = size * unread
         /\ \A k \in 1..unread :
               SubSeq(wire, size * (k - 1) + 1, size * k) = Encoded(sent[n + k], compiled)
  <2> SUFFICES ASSUME layout = compiled
               PROVE  /\ unread \in Nat \ {0} /\ Len(wire) = size * unread
                      /\ \A k \in 1..unread :
                            SubSeq(wire, size * (k - 1) + 1, size * k) = Encoded(sent[n + k], compiled)
    OBVIOUS
  <2>1. SizeOf(CStruct(compiled)) = size
    BY <1>1, LayoutsAlike
  <2>2. unread \in Nat /\ Len(wire) = size * unread
        /\ \A k \in 1..unread :
              SubSeq(wire, size * (k - 1) + 1, size * k) = Encoded(sent[n + k], compiled)
    BY <2>1 DEF IInv, InStep
  <2>3. unread # 0
    <3> HIDE DEF size, unread
    <3>1. size * 0 = 0
      BY <1>4, Places
    <3> QED BY <1>3, <1>4, <2>2, <3>1
  <2> QED BY <2>2, <2>3
<1>13. layout = compiled => event = Meant(sent[n + 1])
  <2> SUFFICES ASSUME layout = compiled PROVE event = Meant(sent[n + 1])
    OBVIOUS
  <2>1. 1 \in 1..unread
    BY <1>12
  <2>2. size * (1 - 1) + 1 = 1 /\ size * 1 = size
    <3> HIDE DEF size
    <3>1. size * 0 = 0 /\ size * 1 = size * (1 - 1) + size /\ 1 - 1 = 0
      BY <1>4, Places
    <3> QED BY <1>4, <3>1
  <2>3. SubSeq(wire, size * (1 - 1) + 1, size * 1) = Encoded(sent[n + 1], compiled)
    BY <2>1, <1>12
  <2>4. raw = Encoded(sent[n + 1], compiled)
    <3> HIDE DEF size
    <3> QED BY <2>2, <2>3
  <2>5. sent[n + 1] \in Messages
    <3>1. n + 1 \in 1..Len(sent)
      BY <1>5, <1>12
    <3> QED BY <1>1, <3>1, Elements
  <2> HIDE DEF raw, n
  <2> QED BY <1>1, <2>4, <2>5, MessageRead DEF event
<1>14. InStep'
  <2> SUFFICES ASSUME layout = compiled
               PROVE  /\ unread - 1 \in Nat /\ Len(wire') = size * (unread - 1)
                      /\ \A k \in 1..(unread - 1) :
                            SubSeq(wire', size * (k - 1) + 1, size * k)
                                = Encoded(sent[(n + 1) + k], compiled)
    <3>1. layout = compiled => SizeOf(CStruct(compiled)) = size
      BY <1>1, LayoutsAlike
    <3>2. Len(sent) - Len(events') = unread - 1
      BY <1>5, <1>6
    <3> QED BY <1>2, <1>6, <3>1, <3>2 DEF InStep
  <2> HIDE DEF size, unread, n
  <2>1. unread - 1 \in Nat /\ unread \in Nat /\ (unread - 1) + 1 = unread /\ Len(wire) = size * unread
    BY <1>12
  <2>2. size * unread = size * (unread - 1) + size /\ size * (unread - 1) \in Nat
    BY <1>4, <2>1, Places
  <2>3. Len(wire') = size * (unread - 1)
    BY <1>4, <1>10, <2>1, <2>2
  <2>4. ASSUME NEW k \in 1..(unread - 1)
        PROVE  SubSeq(wire', size * (k - 1) + 1, size * k) = Encoded(sent[(n + 1) + k], compiled)
    <3> DEFINE a == size * (k - 1)
               b == size * k
               c == size * (k + 1)
    <3>1. k \in 1..unread /\ k + 1 \in 1..unread /\ (k + 1) - 1 = k
      BY <2>1
    <3>2. a \in Nat /\ b \in Nat /\ b = a + size
      BY <1>4, <2>1, <3>1, Places
    <3>3. c \in Nat /\ c = b + size /\ c <= Len(wire)
      <4>1. c \in Nat /\ c = size * ((k + 1) - 1) + size /\ c <= size * unread
        BY <1>4, <2>1, <3>1, Places
      <4> QED BY <2>1, <3>1, <4>1
    <3>4. SubSeq(wire, b + 1, c) = Encoded(sent[n + (k + 1)], compiled)
      BY <1>12, <3>1
    <3> HIDE DEF a, b, c
    <3>5. a + 1 \in Nat \ {0} /\ size + (a + 1) = b + 1 /\ size + b = c /\ size + b <= Len(wire)
      BY <1>4, <3>2, <3>3
    <3>6. SubSeq(SubSeq(wire, size + 1, Len(wire)), a + 1, b) = SubSeq(wire, size + (a + 1), size + b)
      BY <1>1, <1>9, <3>2, <3>5, SliceOfRest
    <3>7. SubSeq(wire', a + 1, b) = Encoded(sent[n + (k + 1)], compiled)
      BY <1>3, <3>4, <3>5, <3>6
    <3>8. n + (k + 1) = (n + 1) + k
      BY <1>5, <2>1 DEF n
    <3> QED BY <3>7, <3>8 DEF a, b
  <2> QED BY <2>1, <2>3, <2>4
<1>15. sent # <<>>
  <2> HIDE DEF size
  <2>1. wire # <<>>
    BY <1>3, <1>4
  <2> QED BY <2>1 DEF IInv, Fresh
<1>16. Fresh'
  BY <1>2, <1>6, <1>15 DEF Fresh
<1>17. EventsDecoded'
  <2> SUFFICES ASSUME layout = compiled
               PROVE  events' = [k \in DOMAIN events' |-> Meant(sent[k])]
    BY <1>2 DEF EventsDecoded
  <2>1. events = [k \in DOMAIN events |-> Meant(sent[k])]
    BY DEF IInv, EventsDecoded
  <2>2. \A k \in 1..n : events'[k] = Meant(sent[k])
    BY <1>5, <1>6, <2>1
  <2>3. events'[n + 1] = Meant(sent[n + 1])
    BY <1>6, <1>13
  <2>4. \A k \in 1..(n + 1) : k \in 1..n \/ k = n + 1
    BY <1>5
  <2> HIDE DEF n
  <2>5. \A k \in 1..(n + 1) : events'[k] = Meant(sent[k])
    BY <2>2, <2>3, <2>4
  <2>6. events' = [k \in DOMAIN events' |-> events'[k]]
    <3>1. events' \in Seq(ToSet(events'))
      BY <1>11 DEF TypeOK
    <3> QED BY <3>1
  <2> QED BY <1>6, <2>5, <2>6
<1>18. FirstKindSurvives'
  <2> SUFFICES events'[1].kind = Meant(sent[1]).kind
    BY <1>2 DEF FirstKindSurvives
  <2>1. CASE events # <<>>
    <3>1. events[1].kind = Meant(sent[1]).kind /\ 1 \in 1..n
      BY <1>5, <2>1 DEF IInv, FirstKindSurvives
    <3> QED BY <1>6, <3>1
  <2>2. CASE events = <<>>
    <3>1. Len(wire) >= 8 /\ SubSeq(wire, 5, 8) = sent[1].status
      BY <1>15, <2>2 DEF IInv, Fresh
    <3>2. events'[1] = event
      BY <1>6, <2>2
    <3> DEFINE v == sent[1].status
    <3>3. sent[1] \in Messages
      BY <1>1, <1>15
    <3>4. v \in Seq(Byte) /\ Len(v) = 4 /\ Meant(sent[1]).kind = Kind(RecoveryStatus(from_u32(v)))
      <4>1. "status" \in Numbers
        BY DEF Numbers
      <4> QED BY <3>3, <4>1, MessagesAssumption, MeantKind DEF Width
    <3>5. SubSeq(raw, 5, 8) = SubSeq(wire, 5, 8)
      <4> HIDE DEF size, raw
      <4>1. SubSeq(raw, 5, 8) = [i \in 1..(8 - 5 + 1) |-> raw[i + 5 - 1]]
        BY <1>7
      <4>2. SubSeq(wire, 5, 8) = [i \in 1..(8 - 5 + 1) |-> wire[i + 5 - 1]]
        BY <1>1
      <4>3. \A i \in 1..(8 - 5 + 1) : i + 5 - 1 \in 1..size
        BY <1>4
      <4>4. \A i \in 1..size : raw[i] = wire[i]
        BY <1>1, <1>9 DEF raw
      <4> QED BY <4>1, <4>2, <4>3, <4>4
    <3>6. SubSeq(raw, 5, 8) = v
      BY <3>1, <3>5
    <3> HIDE DEF raw, v
    <3>7. Load(raw, RustStruct(layout), "status") = v
      BY <1>1, <1>7, <3>4, <3>6, StatusRead
    <3> HIDE DEF event
    <3> QED BY <1>8, <3>2, <3>4, <3>7
  <2> QED BY <2>1, <2>2
<1> QED BY <1>11, <1>14, <1>16, <1>17, <1>18 DEF IInv


\* IInv holds at every step, for arrays of any length, any messages and any builds.
THEOREM StreamInStep == Spec => []IInv
<1>1. IInv /\ [Next]_vars => IInv'
  <2> SUFFICES ASSUME IInv, [Next]_vars PROVE IInv'
    OBVIOUS
  <2>1. CASE DaemonBroadcast
    BY <2>1, BroadcastIInv
  <2>2. CASE receive
    BY <2>2, ReceiveIInv
  <2>3. CASE UNCHANGED vars
    BY <2>3 DEF vars, IInv, TypeOK, InStep, Fresh, EventsDecoded, FirstKindSurvives
  <2> QED BY <2>1, <2>2, <2>3 DEF Next
<1> QED BY InitIInv, <1>1, PTL DEF Spec

\* receive() in the daemon's layout returns what the daemon meant: every field of
\* RawProgressMsgUnpacked is where C's padding puts it, for arrays of any length with
\* which the two declarations are equally long, and numbers, u64 or u32 and of any
\* value, and names survive the way through the bytes.
THEOREM EventsAreMeant == Spec => []EventsDecoded
<1>1. IInv => EventsDecoded
  BY DEF IInv
<1> QED BY <1>1, StreamInStep, PTL

\* In whatever layout the client reads a fresh stream, the first event is of the kind
\* the daemon's status says.
THEOREM FirstKind == Spec => []FirstKindSurvives
<1>1. IInv => FirstKindSurvives
  BY DEF IInv
<1> QED BY <1>1, StreamInStep, PTL

-----------------------------------------------------------------------------
(* The layout.                                                              *)

\* Months are ordered as the client orders them, by year and then by month.
LEMMA MonthOrder ==
    ASSUME NEW v, NEW w, v[1] \in Nat, v[2] \in 1..12, w[1] \in Nat, w[2] \in 1..12
    PROVE  AtLeast(v, w) = (Month(v) >= Month(w))
<1> DEFINE y == v[1]
           m == v[2]
           z == w[1]
           n == w[2]
<1>1. y \in Nat /\ m \in 1..12 /\ z \in Nat /\ n \in 1..12
  OBVIOUS
<1> HIDE DEF y, m, z, n
<1>2. (y > z \/ (y = z /\ m >= n)) = (12 * y + m >= 12 * z + n)
  BY <1>1
<1> QED BY <1>2 DEF AtLeast, Month, y, m, z, n

\* The client finds the version of a release: the first word like one.
LEMMA ReleaseVersion ==
    ASSUME NEW words \in Seq(Words), NEW w \in DOMAIN words,
           IsVersion(words[w]), \A u \in 1..(w - 1) : ~IsVersion(words[u]),
           words[w].parts[1] \in Nat, words[w].parts[2] \in 1..12
    PROVE  parse_swupdate_version(words) = <<words[w].parts[1], words[w].parts[2]>>
<1> DEFINE versions == {i \in DOMAIN words : IsVersion(words[i])}
           parts == words[w].parts
<1>1. DOMAIN words = 1..Len(words) /\ Len(words) \in Nat
  OBVIOUS
<1>2. versions \subseteq Nat /\ w \in versions
  BY <1>1
<1>3. \A i \in versions : w <= i
  <2>1. ASSUME NEW i \in versions, ~ (w <= i) PROVE FALSE
    <3>1. i \in 1..(w - 1)
      BY <1>1, <2>1
    <3> QED BY <3>1
  <2> QED BY <2>1
<1>4. Min(versions) = w
  <2> HIDE DEF versions
  <2>1. Min(versions) \in versions /\ Min(versions) <= w
    BY <1>2, MinOfSome
  <2>2. w <= Min(versions) /\ Min(versions) \in Nat /\ w \in Nat
    BY <1>2, <1>3, <2>1
  <2> QED BY <2>1, <2>2
<1>5. parts \in Seq(Nat \cup {NoNumber}) /\ Len(parts) > 1
  <2>1. words[w] \in Words
    BY <1>1, Elements
  <2> QED BY <2>1 DEF Words, IsVersion
<1> HIDE DEF parts
<1>6. SubSeq(parts, 1, 2) = <<parts[1], parts[2]>>
  <2> DEFINE pair == SubSeq(parts, 1, 2)
  <2>1. 2 \in 0..Len(parts)
    BY <1>5
  <2>2. pair \in Seq(Nat \cup {NoNumber})
    BY <1>5, <2>1, Prefix
  <2>3. Len(pair) = 2 /\ pair[1] = parts[1] /\ pair[2] = parts[2]
    BY <1>5, <2>1
  <2> HIDE DEF pair
  <2>4. pair = <<pair[1], pair[2]>>
    BY <2>2, <2>3
  <2> QED BY <2>3, <2>4 DEF pair
<1>7. parts[1] \in Nat /\ parts[2] \in 1..12
  BY DEF parts
<1>8. NoNumber \notin ToSet(<<parts[1], parts[2]>>)
  <2>1. ToSet(<<parts[1], parts[2]>>) = {parts[1], parts[2]}
    BY DEF ToSet
  <2>2. NoNumber # parts[1] /\ NoNumber # parts[2]
    BY SMTT(30), <1>7 DEF NoNumber
  <2> QED BY <2>1, <2>2
<1>9. versions # {}
  BY <1>2
<1> DEFINE version == SubSeq(words[Min(versions)].parts, 1, 2)
<1>10. parse_swupdate_version(words) =
           IF versions = {} \/ NoNumber \in ToSet(version) THEN <<>> ELSE version
  BY DEF parse_swupdate_version
<1>11. version = <<parts[1], parts[2]>>
  BY <1>4, <1>6 DEF parts
<1> HIDE DEF versions, version
<1> QED BY <1>8, <1>9, <1>10, <1>11 DEF parts

\* detect_layout() finds the layout of a release.
LEMMA ReleaseDetected ==
    ASSUME NEW b \in Builds, b.released
    PROVE  detect_layout(b.words) = b.layout
<1>1. b.words \in Seq(Words)
  BY BuildsAssumption
<1>2. PICK w \in DOMAIN b.words :
         LET parts == b.words[w].parts IN
         /\ b.words[w].v /\ Len(parts) > 1 /\ parts[1] \in Nat /\ parts[2] \in 1..12
         /\ \A u \in 1..(w - 1) : ~(b.words[u].v /\ Len(b.words[u].parts) > 1)
         /\ b.layout = IF Month(parts) >= Month(<<2025, 12>>) THEN "packed" ELSE "unpacked"
  BY ReleasesAssumption
<1> DEFINE parts == b.words[w].parts
           version == <<parts[1], parts[2]>>
           december == <<2025, 12>>
<1>3. parse_swupdate_version(b.words) = version
  <2> DEFINE words == b.words
  <2>1. words \in Seq(Words) /\ w \in DOMAIN words /\ IsVersion(words[w])
        /\ (\A u \in 1..(w - 1) : ~IsVersion(words[u]))
        /\ words[w].parts[1] \in Nat /\ words[w].parts[2] \in 1..12
    BY <1>1, <1>2 DEF IsVersion
  <2> HIDE DEF words
  <2>2. parse_swupdate_version(words) = <<words[w].parts[1], words[w].parts[2]>>
    BY <2>1, ReleaseVersion
  <2> QED BY <2>2 DEF words
<1>4. AtLeast(version, december) = (Month(version) >= Month(december))
  <2>1. version[1] \in Nat /\ version[2] \in 1..12 /\ december[1] \in Nat /\ december[2] \in 1..12
    BY <1>2
  <2> HIDE DEF version, december
  <2> QED BY <2>1, MonthOrder
<1>5. Month(version) = Month(parts) /\ version # <<>>
  BY DEF Month
<1>6. b.layout = IF Month(parts) >= Month(december) THEN "packed" ELSE "unpacked"
  BY <1>2
<1>7. detect_layout(b.words) = IF version = <<>> \/ AtLeast(version, december) THEN "packed" ELSE "unpacked"
  BY <1>3 DEF detect_layout
<1> HIDE DEF parts, version, december
<1> QED BY <1>4, <1>5, <1>6, <1>7

\* From the output of any release the client detects the layout it was compiled with.
THEOREM ReleasesDetected == Spec => []LayoutDetected
<1>1. IInv => LayoutDetected
  BY ReleaseDetected DEF IInv, TypeOK, LayoutDetected
<1> QED BY <1>1, StreamInStep, PTL
=============================================================================
