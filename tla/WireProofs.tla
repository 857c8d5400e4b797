----------------------------- MODULE WireProofs -----------------------------
(***************************************************************************)
(* Facts about the operators of Wire for every structure and every string:  *)
(* the fields of a structure do not overlap, what is written into one is    *)
(* read back from it and from no other, numbers and strings survive the way *)
(* through a byte array.                                                    *)
(***************************************************************************)
EXTENDS Wire, WellFoundedInduction, TLAPS

-----------------------------------------------------------------------------
(* Induction.  Its theorems in the library take the induction hypothesis as *)
(* an operator; here it is a set.                                           *)

\* The least-number principle, from the well-foundedness of < on Nat.
LEMMA LeastNatural ==
    ASSUME NEW T, T \subseteq Nat, T # {}
    PROVE  \E x \in T : \A y \in T : x <= y
<1> DEFINE R == {ss \in Nat \X Nat : ss[1] < ss[2]}
<1>1. R = OpToRel(<, Nat)
  BY DEF OpToRel
<1>2. IsWellFoundedOn(R, Nat)
  BY <1>1, NatLessThanWellFounded
<1> HIDE DEF R
<1>3. PICK x \in T : \A y \in T : ~ (<<y, x>> \in R)
  BY <1>2, WFMin
<1>4. \A y \in T : ~ (y < x)
  BY <1>3 DEF R
<1> QED BY <1>4

\* Induction up to n: a set that holds 0 and each successor holds them all.
LEMMA InductionUpTo ==
    ASSUME NEW n \in Nat, NEW S,
           0 \in S, \A i \in 1..n : i - 1 \in S => i \in S
    PROVE  0..n \subseteq S
<1>1. SUFFICES ASSUME (0..n) \ S # {} PROVE FALSE
  OBVIOUS
<1>2. PICK x \in (0..n) \ S : \A y \in (0..n) \ S : x <= y
  <2>1. (0..n) \ S \subseteq Nat
    OBVIOUS
  <2> QED BY <1>1, <2>1, LeastNatural
<1>3. x # 0 /\ x \in 1..n /\ x - 1 \in 0..n
  BY <1>2
<1>4. x - 1 \in S
  BY <1>2, <1>3
<1> QED BY <1>2, <1>3, <1>4

\* f begins with start, and step gives each of its values from the one before it.
Steps(n, V, start, step) == n \in Nat /\ start \in V /\ step \in [1..n -> [V -> V]]
Follows(f, n, V, start, step) ==
    f \in [0..n -> V] /\ f[0] = start /\ \A i \in 1..n : f[i] = step[i][f[i - 1]]

\* A function may be defined by recursion up to n.
LEMMA RecursionUpTo ==
    ASSUME NEW n, NEW V, NEW start, NEW step, Steps(n, V, start, step)
    PROVE  \E f : Follows(f, n, V, start, step)
<1> USE DEF Steps
<1> DEFINE Upto(m) == {f \in [0..m -> V] :
                          f[0] = start /\ \A i \in 1..m : f[i] = step[i][f[i - 1]]}
           S == {m \in 0..n : Upto(m) # {}}
<1>1. 0 \in S
  <2>1. [i \in 0..0 |-> start] \in Upto(0)
    OBVIOUS
  <2> QED BY <2>1
<1>2. ASSUME NEW m \in 1..n, m - 1 \in S PROVE m \in S
  <2>1. PICK f \in Upto(m - 1) : TRUE
    BY <1>2
  <2>2. f \in [0..(m - 1) -> V] /\ f[0] = start
        /\ \A i \in 1..(m - 1) : f[i] = step[i][f[i - 1]]
    BY <2>1
  <2> DEFINE g == [i \in 0..m |-> IF i = m THEN step[m][f[m - 1]] ELSE f[i]]
  <2>3. f[m - 1] \in V /\ step[m][f[m - 1]] \in V
    <3>1. m - 1 \in 0..(m - 1) /\ m \in 1..n
      OBVIOUS
    <3>2. f[m - 1] \in V /\ step[m] \in [V -> V]
      BY <3>1, <2>2
    <3> QED BY <3>2
  <2>4. g[m] = step[m][f[m - 1]] /\ \A i \in 0..(m - 1) : g[i] = f[i]
    OBVIOUS
  <2>5. g \in [0..m -> V] /\ g[0] = start
    BY <2>2, <2>3
  <2> HIDE DEF g
  <2>6. ASSUME NEW i \in 1..m PROVE g[i] = step[i][g[i - 1]]
    <3>1. i - 1 \in 0..(m - 1) /\ g[i - 1] = f[i - 1]
      BY <2>4
    <3>2. CASE i = m
      BY <3>1, <3>2, <2>4
    <3>3. CASE i # m
      <4>1. i \in 1..(m - 1) /\ i \in 0..(m - 1)
        BY <3>3
      <4>2. g[i] = f[i] /\ f[i] = step[i][f[i - 1]]
        BY <4>1, <2>2, <2>4
      <4> QED BY <4>2, <3>1
    <3> QED BY <3>2, <3>3
  <2>7. g \in Upto(m)
    <3>1. \A i \in 1..m : g[i] = step[i][g[i - 1]]
      BY <2>6
    <3> QED BY <3>1, <2>5
  <2> QED BY <2>7
<1> HIDE DEF S
<1>3. 0..n \subseteq S
  BY <1>1, <1>2, InductionUpTo
<1>4. n \in S
  BY <1>3
<1> QED BY <1>4 DEF S, Follows


-----------------------------------------------------------------------------
(* Structures.                                                              *)

\* A structure: its fields have names of their own and C's alignments.
IsStruct(struct) ==
    /\ Len(struct) \in Nat \ {0} /\ DOMAIN struct = 1..Len(struct)
    /\ \A i \in DOMAIN struct : DOMAIN struct[i] = {"name", "size", "align"}
    /\ \A i \in DOMAIN struct : struct[i].size \in Nat /\ struct[i].align \in {1, 4, 8}
    /\ \A i, j \in DOMAIN struct : struct[i].name = struct[j].name => i = j

\* Alignment moves a place up, and not at all if it is 1.
LEMMA AlignUpBounds ==
    ASSUME NEW at \in Nat, NEW align \in {1, 4, 8}
    PROVE  AlignUp(at, align) \in Nat /\ AlignUp(at, align) >= at
           /\ AlignUp(at, align) < at + align /\ AlignUp(at, 1) = at
<1>1. CASE align = 1
  BY <1>1 DEF AlignUp
<1>2. CASE align = 4
  BY <1>2 DEF AlignUp
<1>3. CASE align = 8
  BY <1>3 DEF AlignUp
<1> QED BY <1>1, <1>2, <1>3

\* Offsets is what its recursion says.
LEMMA OffsetsDefined ==
    ASSUME NEW struct, IsStruct(struct)
    PROVE  /\ Offsets(struct) \in [DOMAIN struct -> Nat]
           /\ Offsets(struct)[1] = 0
           /\ \A i \in 2..Len(struct) :
                 Offsets(struct)[i] =
                     AlignUp(Offsets(struct)[i - 1] + struct[i - 1].size, struct[i].align)
<1> DEFINE n == Len(struct) - 1
           step == [i \in 1..n |-> [at \in Nat |->
                       AlignUp(at + struct[i].size, struct[i + 1].align)]]
           Rule(offset) == offset = [i \in DOMAIN struct |->
                               IF i = 1 THEN 0
                               ELSE AlignUp(offset[i - 1] + struct[i - 1].size,
                                            struct[i].align)]
<1>1. n \in Nat /\ DOMAIN struct = 1..(n + 1) /\ Len(struct) = n + 1
  BY DEF IsStruct
<1>2. \A i \in 1..n : struct[i].size \in Nat /\ struct[i + 1].align \in {1, 4, 8}
  BY <1>1 DEF IsStruct
<1> HIDE DEF n
<1>3. step \in [1..n -> [Nat -> Nat]]
  <2>1. ASSUME NEW i \in 1..n, NEW at \in Nat
        PROVE  AlignUp(at + struct[i].size, struct[i + 1].align) \in Nat
    <3>1. at + struct[i].size \in Nat
      BY <1>2
    <3> QED BY <3>1, <1>2, AlignUpBounds
  <2> QED BY <2>1
<1>4. PICK f : f \in [0..n -> Nat] /\ f[0] = 0 /\ \A i \in 1..n : f[i] = step[i][f[i - 1]]
  <2> HIDE DEF step
  <2>1. Steps(n, Nat, 0, step)
    BY <1>1, <1>3 DEF Steps
  <2>2. \E f : Follows(f, n, Nat, 0, step)
    BY <2>1, RecursionUpTo
  <2> QED BY <2>2 DEF Follows
<1> DEFINE offset == [i \in 1..(n + 1) |-> f[i - 1]]
<1>5. Rule(offset)
  <2>1. ASSUME NEW i \in 1..(n + 1), i # 1
        PROVE  offset[i] = AlignUp(offset[i - 1] + struct[i - 1].size, struct[i].align)
    <3>1. i - 1 \in 1..n /\ i - 1 \in 1..(n + 1) /\ i - 2 \in 0..n /\ (i - 1) - 1 = i - 2
          /\ (i - 1) + 1 = i
      BY <1>1, <2>1
    <3>2. offset[i] = f[i - 1] /\ offset[i - 1] = f[i - 2] /\ f[i - 2] \in Nat
      BY <3>1, <1>4
    <3>3. f[i - 1] = step[i - 1][f[i - 2]]
      BY <1>4, <3>1
    <3>4. step[i - 1][f[i - 2]] = AlignUp(f[i - 2] + struct[i - 1].size, struct[i].align)
      BY <3>1, <3>2
    <3> QED BY <3>2, <3>3, <3>4
  <2>2. 1 \in 1..(n + 1) /\ offset[1] = 0
    BY <1>1, <1>4
  <2> HIDE DEF offset
  <2>3. offset = [i \in 1..(n + 1) |-> offset[i]]
    BY DEF offset
  <2> QED BY <2>1, <2>2, <2>3, <1>1
<1>6. Offsets(struct) = CHOOSE o : Rule(o)
  BY DEF Offsets
<1>7. Rule(Offsets(struct))
  <2> HIDE DEF Rule, offset
  <2> QED BY <1>5, <1>6
<1> HIDE DEF offset
<1> DEFINE o == Offsets(struct)
<1>8. DOMAIN o = 1..(n + 1) /\ o[1] = 0
      /\ \A i \in 2..(n + 1) : o[i] = AlignUp(o[i - 1] + struct[i - 1].size, struct[i].align)
  <2> HIDE DEF o
  <2>1. Rule(o)
    BY <1>7 DEF o
  <2>2. DOMAIN o = 1..(n + 1)
    BY <2>1, <1>1
  <2>3. \A i \in 1..(n + 1) : o[i] = IF i = 1 THEN 0
                  ELSE AlignUp(o[i - 1] + struct[i - 1].size, struct[i].align)
    BY <2>1, <1>1
  <2>4. 1 \in 1..(n + 1) /\ \A i \in 2..(n + 1) : i \in 1..(n + 1) /\ i # 1
    BY <1>1
  <2>5. o[1] = 0
    BY <2>3, <2>4
  <2>6. ASSUME NEW i \in 2..(n + 1)
        PROVE  o[i] = AlignUp(o[i - 1] + struct[i - 1].size, struct[i].align)
    BY <2>3, <2>4
  <2> QED BY <2>2, <2>5, <2>6
<1>9. \A i \in 1..(n + 1) : o[i] \in Nat
  <2> HIDE DEF o
  <2> DEFINE S == {i \in 0..n : o[i + 1] \in Nat}
  <2>1. 0 \in S
    BY <1>1, <1>8
  <2>2. ASSUME NEW i \in 1..n, i - 1 \in S PROVE i \in S
    <3>1. o[i] \in Nat /\ i + 1 \in 2..(n + 1) /\ (i + 1) - 1 = i
      BY <2>2, <1>1
    <3>2. o[i + 1] = AlignUp(o[i] + struct[i].size, struct[i + 1].align)
      BY <3>1, <1>8
    <3>3. o[i] + struct[i].size \in Nat
      BY <3>1, <1>2
    <3>4. o[i + 1] \in Nat
      BY <3>2, <3>3, <1>2, AlignUpBounds
    <3>5. i \in 0..n
      BY <1>1
    <3> QED BY <3>4, <3>5
  <2> HIDE DEF S
  <2>3. 0..n \subseteq S
    BY <1>1, <2>1, <2>2, InductionUpTo
  <2>4. \A i \in 1..(n + 1) : i - 1 \in S
    BY <2>3, <1>1
  <2> QED BY <2>4, <1>1 DEF S
<1>10. o = [i \in 1..(n + 1) |-> o[i]]
  <2> HIDE DEF o
  <2>1. Rule(o)
    BY <1>7 DEF o
  <2>2. o = [i \in DOMAIN struct |-> IF i = 1 THEN 0
                  ELSE AlignUp(o[i - 1] + struct[i - 1].size, struct[i].align)]
    BY <2>1
  <2> QED BY <2>2, <1>1
<1> QED
  <2> HIDE DEF o
  <2>1. o \in [1..(n + 1) -> Nat]
    BY <1>9, <1>10
  <2>2. Offsets(struct) = o
    BY DEF o
  <2> QED BY <2>1, <2>2, <1>1, <1>8


\* The types of what a field has.
LEMMA FieldTypes ==
    ASSUME NEW struct, IsStruct(struct)
    PROVE  /\ Len(struct) \in Nat \ {0} /\ DOMAIN struct = 1..Len(struct)
           /\ \A i \in DOMAIN struct : struct[i].size \in Nat /\ Offsets(struct)[i] \in Nat
<1>1. Len(struct) \in Nat \ {0} /\ DOMAIN struct = 1..Len(struct)
      /\ \A i \in DOMAIN struct : struct[i].size \in Nat
  BY DEF IsStruct
<1> QED BY <1>1, OffsetsDefined

\* The fields of a structure lie one behind the other.
LEMMA FieldsApart ==
    ASSUME NEW struct, IsStruct(struct), NEW i \in DOMAIN struct, NEW j \in DOMAIN struct, i < j
    PROVE  Offsets(struct)[i] + struct[i].size <= Offsets(struct)[j]
<1> DEFINE o == Offsets(struct)
           n == Len(struct)
           S == {k \in 0..n : k > i => o[i] + struct[i].size <= o[k]}
<1>1. n \in Nat /\ DOMAIN struct = 1..n /\ \A k \in 1..n : struct[k].size \in Nat
      /\ struct[k].align \in {1, 4, 8}
  BY DEF IsStruct
<1>2. (\A k \in 1..n : o[k] \in Nat)
      /\ \A k \in 2..n : o[k] = AlignUp(o[k - 1] + struct[k - 1].size, struct[k].align)
  BY <1>1, OffsetsDefined
<1> HIDE DEF o, n
<1>3. 0 \in S
  BY <1>1
<1>4. ASSUME NEW k \in 1..n, k - 1 \in S PROVE k \in S
  <2>1. SUFFICES ASSUME k > i PROVE o[i] + struct[i].size <= o[k]
    BY <1>1
  <2>2. k \in 2..n /\ k - 1 \in 1..n /\ i \in 1..n
    BY <1>1, <2>1
  <2>3. o[k - 1] \in Nat /\ struct[k - 1].size \in Nat /\ struct[k].align \in {1, 4, 8}
        /\ o[k] \in Nat /\ o[i] \in Nat /\ struct[i].size \in Nat
    BY <1>1, <1>2, <2>2
  <2>4. o[k] >= o[k - 1] + struct[k - 1].size
    <3>1. o[k - 1] + struct[k - 1].size \in Nat
      BY <2>3
    <3> QED BY <3>1, <2>2, <2>3, <1>2, AlignUpBounds
  <2>5. CASE k - 1 = i
    BY <2>4, <2>5
  <2>6. CASE k - 1 # i
    <3>1. k - 1 > i
      BY <2>1, <2>2, <2>6
    <3>2. o[i] + struct[i].size <= o[k - 1]
      BY <3>1, <1>4
    <3> HIDE DEF S
    <3> QED BY <3>2, <2>3, <2>4
  <2> QED BY <2>5, <2>6
<1> HIDE DEF S
<1>5. 0..n \subseteq S
  BY <1>1, <1>3, <1>4, InductionUpTo
<1>6. j \in S
  BY <1>1, <1>5
<1> QED BY <1>6 DEF S, o

\* The largest of some alignments is one of them.
LEMMA AlignOfStruct ==
    ASSUME NEW struct, IsStruct(struct)
    PROVE  AlignOf(struct) \in {1, 4, 8}
<1> DEFINE S == {struct[i].align : i \in DOMAIN struct}
<1>1. S \subseteq {1, 4, 8} /\ S # {}
  BY DEF IsStruct
<1> HIDE DEF S
<1>2. \E x \in S : \A y \in S : x >= y
  <2>1. CASE 8 \in S
    BY <2>1, <1>1
  <2>2. CASE 8 \notin S /\ 4 \in S
    BY <2>2, <1>1
  <2>3. CASE 8 \notin S /\ 4 \notin S
    <3>1. PICK x \in S : TRUE
      BY <1>1
    <3>2. \A y \in S : y = 1
      BY <2>3, <1>1
    <3> QED BY <3>1, <3>2
  <2> QED BY <2>1, <2>2, <2>3
<1>3. Max(S) \in S
  BY <1>2 DEF Max
<1> QED BY <1>1, <1>3 DEF AlignOf, S

\* Every field lies within its structure.
LEMMA FieldWithin ==
    ASSUME NEW struct, IsStruct(struct), NEW i \in DOMAIN struct
    PROVE  SizeOf(struct) \in Nat /\ Offsets(struct)[i] + struct[i].size <= SizeOf(struct)
<1> DEFINE o == Offsets(struct)
           n == Len(struct)
<1>1. n \in Nat \ {0} /\ DOMAIN struct = 1..n /\ \A k \in 1..n : struct[k].size \in Nat
  BY DEF IsStruct
<1>2. \A k \in 1..n : o[k] \in Nat
  BY <1>1, OffsetsDefined
<1>3. i < n => o[i] + struct[i].size <= o[n]
  BY <1>1, FieldsApart
<1>4. SizeOf(struct) = AlignUp(o[n] + struct[n].size, AlignOf(struct))
  BY DEF SizeOf, Last
<1> HIDE DEF o, n
<1>5. o[n] + struct[n].size \in Nat /\ o[n] \in Nat /\ struct[n].size \in Nat
      /\ o[i] \in Nat /\ struct[i].size \in Nat
  BY <1>1, <1>2
<1>6. SizeOf(struct) \in Nat /\ SizeOf(struct) >= o[n] + struct[n].size
  <2> DEFINE end == o[n] + struct[n].size
             align == AlignOf(struct)
  <2>1. end \in Nat /\ align \in {1, 4, 8}
    BY <1>5, AlignOfStruct
  <2>2. SizeOf(struct) = AlignUp(end, align)
    BY <1>4
  <2> HIDE DEF end, align
  <2>3. AlignUp(end, align) \in Nat /\ AlignUp(end, align) >= end
    BY <2>1, AlignUpBounds
  <2> QED BY <2>2, <2>3 DEF end
<1>7. o[i] + struct[i].size <= o[n] + struct[n].size
  <2>1. CASE i = n
    BY <2>1, <1>5
  <2>2. CASE i < n
    BY <2>2, <1>3, <1>5
  <2> QED BY <2>1, <2>2, <1>1
<1> QED BY <1>5, <1>6, <1>7 DEF o

\* A field is found by its name.
LEMMA IndexFound ==
    ASSUME NEW struct, IsStruct(struct), NEW i \in DOMAIN struct
    PROVE  Index(struct, struct[i].name) = i
BY DEF Index, IsStruct


-----------------------------------------------------------------------------
(* Sequences.                                                               *)

\* The elements of a sequence are of its set.
LEMMA Elements ==
    ASSUME NEW S, NEW seq \in Seq(S)
    PROVE  \A k \in 1..Len(seq) : seq[k] \in S
OBVIOUS

\* A prefix is a sequence over the same set.
LEMMA Prefix ==
    ASSUME NEW S, NEW seq \in Seq(S), NEW n \in 0..Len(seq)
    PROVE  SubSeq(seq, 1, n) \in Seq(S)
<1>1. SubSeq(seq, 1, n) = [k \in 1..n |-> seq[k]]
  OBVIOUS
<1>2. \A k \in 1..n : seq[k] \in S
  OBVIOUS
<1> QED BY <1>1, <1>2


-----------------------------------------------------------------------------
(* Writing and reading fields.                                              *)

\* Zeroes are bytes.
LEMMA Zeroes ==
    ASSUME NEW size \in Nat
    PROVE  zeroed(size) \in Seq(Byte) /\ Len(zeroed(size)) = size
           /\ \A p \in 1..size : zeroed(size)[p] = 0
BY DEF zeroed, Byte

\* What Put leaves where.
LEMMA PutBytes ==
    ASSUME NEW bytes \in Seq(Byte), NEW at \in Nat, NEW data \in Seq(Byte)
    PROVE  /\ Put(bytes, at, data) \in Seq(Byte)
           /\ Len(Put(bytes, at, data)) = Len(bytes)
           /\ \A k \in 1..Len(data) : at + k <= Len(bytes) => Put(bytes, at, data)[at + k] = data[k]
           /\ \A p \in 1..Len(bytes) :
                 p \notin (at + 1)..(at + Len(data)) => Put(bytes, at, data)[p] = bytes[p]
<1> DEFINE put(p) == IF p - at \in DOMAIN data THEN data[p - at] ELSE bytes[p]
<1>1. DOMAIN bytes = 1..Len(bytes) /\ DOMAIN data = 1..Len(data)
      /\ Len(bytes) \in Nat /\ Len(data) \in Nat
  OBVIOUS
<1>2. Put(bytes, at, data) = [p \in 1..Len(bytes) |-> put(p)]
  BY <1>1 DEF Put
<1>3. \A p \in 1..Len(bytes) : put(p) \in Byte
  BY <1>1
<1>4. \A k \in 1..Len(data) : put(at + k) = data[k]
  <2>1. \A k \in 1..Len(data) : (at + k) - at = k
    BY <1>1
  <2> QED BY <2>1, <1>1
<1>5. \A p \in 1..Len(bytes) : p \notin (at + 1)..(at + Len(data)) => put(p) = bytes[p]
  <2>1. \A p \in 1..Len(bytes) : p \notin (at + 1)..(at + Len(data)) => p - at \notin 1..Len(data)
    BY <1>1
  <2> QED BY <2>1, <1>1
<1> HIDE DEF put
<1>6. Put(bytes, at, data) \in Seq(Byte) /\ Len(Put(bytes, at, data)) = Len(bytes)
  BY <1>1, <1>2, <1>3
<1>7. \A k \in 1..Len(data) : at + k <= Len(bytes) => at + k \in 1..Len(bytes)
  BY <1>1
<1> QED BY <1>2, <1>4, <1>5, <1>6, <1>7

\* Data for the fields of a structure that fit into them.
Fits(struct, data) ==
    \A i \in DOMAIN struct : struct[i].name \in DOMAIN data =>
        data[struct[i].name] \in Seq(Byte) /\ Len(data[struct[i].name]) <= struct[i].size

\* The values of the recursion in Write.
Written(w, bytes, base, struct, data) ==
    /\ w \in [0..Len(struct) -> Seq(Byte)] /\ w[0] = bytes
    /\ Write(bytes, base, struct, data) = w[Len(struct)]
    /\ \A i \in 1..Len(struct) :
          w[i] = IF struct[i].name \in DOMAIN data
                 THEN Put(w[i - 1], base + Offsets(struct)[i], data[struct[i].name])
                 ELSE w[i - 1]

\* Write is what its recursion says.
LEMMA WriteDefined ==
    ASSUME NEW struct, IsStruct(struct), NEW bytes \in Seq(Byte), NEW base \in Nat,
           NEW data, Fits(struct, data)
    PROVE  \E w : Written(w, bytes, base, struct, data)
<1> DEFINE n == Len(struct)
           V == Seq(Byte)
           next(i, b) == IF struct[i].name \in DOMAIN data
                         THEN Put(b, base + Offsets(struct)[i], data[struct[i].name])
                         ELSE b
           step == [i \in 1..n |-> [b \in V |-> next(i, b)]]
           Rule(w) == w = [i \in 0..n |-> IF i = 0 THEN bytes ELSE next(i, w[i - 1])]
<1>1. n \in Nat /\ DOMAIN struct = 1..n
  BY DEF IsStruct
<1>2. ASSUME NEW i \in 1..n, NEW b \in V PROVE next(i, b) \in V
  <2>1. CASE struct[i].name \in DOMAIN data
    <3>1. data[struct[i].name] \in Seq(Byte)
      BY <1>1, <2>1 DEF Fits
    <3>2. base + Offsets(struct)[i] \in Nat
      BY <1>1, OffsetsDefined
    <3> QED BY <3>1, <3>2, <2>1, PutBytes
  <2>2. CASE struct[i].name \notin DOMAIN data
    BY <2>2
  <2> QED BY <2>1, <2>2
<1>3. Write(bytes, base, struct, data) = (CHOOSE w : Rule(w))[n]
  BY DEF Write
<1>4. bytes \in V
  OBVIOUS
<1> HIDE DEF n, V, next
<1>5. Steps(n, V, bytes, step)
  BY <1>1, <1>2, <1>4 DEF Steps
<1>6. PICK f : Follows(f, n, V, bytes, step)
  <2> HIDE DEF step
  <2> QED BY <1>5, RecursionUpTo
<1>7. f \in [0..n -> V] /\ f[0] = bytes /\ \A i \in 1..n : f[i] = step[i][f[i - 1]]
  BY <1>6 DEF Follows
<1>8. ASSUME NEW i \in 1..n PROVE f[i] = next(i, f[i - 1])
  <2>1. i - 1 \in 0..n
    BY <1>1
  <2>2. f[i - 1] \in V
    BY <2>1, <1>7
  <2>3. f[i] = step[i][f[i - 1]]
    BY <1>7
  <2> QED BY <2>2, <2>3
<1>9. Rule(f)
  <2>1. f = [i \in 0..n |-> f[i]]
    BY <1>7
  <2>2. \A i \in 0..n : f[i] = IF i = 0 THEN bytes ELSE next(i, f[i - 1])
    <3>1. \A i \in 0..n : i # 0 => i \in 1..n
      BY <1>1
    <3> QED BY <3>1, <1>7, <1>8
  <2> QED BY <2>1, <2>2
<1> DEFINE w == CHOOSE w : Rule(w)
<1>10. Rule(w)
  <2> HIDE DEF Rule
  <2> QED BY <1>9
<1> HIDE DEF w
<1>11. w[0] = bytes /\ \A i \in 1..n : w[i] = next(i, w[i - 1])
  <2>1. \A i \in 0..n : w[i] = IF i = 0 THEN bytes ELSE next(i, w[i - 1])
    BY <1>10
  <2>2. 0 \in 0..n /\ \A i \in 1..n : i \in 0..n /\ i # 0
    BY <1>1
  <2> QED BY <2>1, <2>2
<1>12. w \in [0..n -> V]
  <2> DEFINE S == {i \in 0..n : w[i] \in V}
  <2>1. 0 \in S
    BY <1>1, <1>4, <1>11
  <2>2. ASSUME NEW i \in 1..n, i - 1 \in S PROVE i \in S
    <3>1. i \in 0..n
      BY <1>1
    <3> QED BY <3>1, <2>2, <1>2, <1>11
  <2> HIDE DEF S
  <2>3. 0..n \subseteq S
    BY <1>1, <2>1, <2>2, InductionUpTo
  <2>4. \A i \in 0..n : w[i] \in V
    BY <2>3 DEF S
  <2>5. w = [i \in 0..n |-> w[i]]
    <3>1. w = [i \in 0..n |-> IF i = 0 THEN bytes ELSE next(i, w[i - 1])]
      BY <1>10
    <3> QED BY <3>1
  <2> QED BY <2>4, <2>5
<1>13. Write(bytes, base, struct, data) = w[n]
  BY <1>3 DEF w
<1> QED BY <1>11, <1>12, <1>13 DEF n, V, next, Written


\* The data of each field is in w from its place on ...
Stored(w, base, struct, data) ==
    \A i \in DOMAIN struct : struct[i].name \in DOMAIN data =>
        \A k \in 1..Len(data[struct[i].name]) : base + Offsets(struct)[i] + k <= Len(w) =>
            w[base + Offsets(struct)[i] + k] = data[struct[i].name][k]

\* ... and everything else as in bytes.
Kept(w, bytes, base, struct, data) ==
    \A p \in 1..Len(bytes) :
        (\A i \in DOMAIN struct : struct[i].name \in DOMAIN data =>
            p \notin (base + Offsets(struct)[i] + 1)
                     ..(base + Offsets(struct)[i] + Len(data[struct[i].name])))
        => w[p] = bytes[p]

\* What Write leaves where.
LEMMA WriteBytes ==
    ASSUME NEW struct, IsStruct(struct), NEW bytes \in Seq(Byte), NEW base \in Nat,
           NEW data, Fits(struct, data)
    PROVE  /\ Write(bytes, base, struct, data) \in Seq(Byte)
           /\ Len(Write(bytes, base, struct, data)) = Len(bytes)
           /\ Stored(Write(bytes, base, struct, data), base, struct, data)
           /\ Kept(Write(bytes, base, struct, data), bytes, base, struct, data)
<1> DEFINE n == Len(struct)
           at(i) == base + Offsets(struct)[i]
           given(i) == struct[i].name \in DOMAIN data
           d(i) == data[struct[i].name]
<1>1. n \in Nat /\ DOMAIN struct = 1..n
  BY DEF IsStruct
<1>2. \A i \in 1..n : at(i) \in Nat
  <2>1. \A i \in 1..n : Offsets(struct)[i] \in Nat
    BY <1>1, OffsetsDefined
  <2> QED BY <2>1
<1>3. \A i \in 1..n : given(i) => d(i) \in Seq(Byte) /\ Len(d(i)) \in Nat
  BY <1>1 DEF Fits
<1>4. \A i, j \in 1..n : given(i) /\ i < j => at(i) + Len(d(i)) <= at(j)
  <2>1. ASSUME NEW i \in 1..n, NEW j \in 1..n, given(i), i < j
        PROVE  at(i) + Len(d(i)) <= at(j)
    <3>1. Len(d(i)) \in Nat /\ Len(d(i)) <= struct[i].size /\ struct[i].size \in Nat
      BY <1>1, <2>1 DEF Fits, IsStruct
    <3>2. Offsets(struct)[i] + struct[i].size <= Offsets(struct)[j]
      BY <1>1, <2>1, FieldsApart
    <3>3. Offsets(struct)[i] \in Nat /\ Offsets(struct)[j] \in Nat /\ base \in Nat
      BY <1>1, FieldTypes
    <3> HIDE DEF d
    <3> QED BY SMTT(30), <3>1, <3>2, <3>3
  <2> QED BY <2>1
<1>5. PICK w :
         /\ w \in [0..n -> Seq(Byte)] /\ w[0] = bytes /\ Write(bytes, base, struct, data) = w[n]
         /\ \A i \in 1..n : w[i] = IF given(i) THEN Put(w[i - 1], at(i), d(i)) ELSE w[i - 1]
  <2>1. \E w : Written(w, bytes, base, struct, data)
    BY WriteDefined
  <2> QED BY <2>1 DEF Written
<1> HIDE DEF n, at, given, d
<1> DEFINE KeptAt(m) == \A p \in 1..Len(bytes) :
              (\A i \in 1..m : given(i) => p \notin (at(i) + 1)..(at(i) + Len(d(i))))
              => w[m][p] = bytes[p]
           StoredAt(m) == \A i \in 1..m : given(i) => \A k \in 1..Len(d(i)) :
              at(i) + k <= Len(bytes) => w[m][at(i) + k] = d(i)[k]
           S == {m \in 0..n : Len(w[m]) = Len(bytes) /\ StoredAt(m) /\ KeptAt(m)}
<1>6. 0 \in S
  BY <1>1, <1>5
<1>7. ASSUME NEW m \in 1..n, m - 1 \in S PROVE m \in S
  <2>1. m - 1 \in 0..n /\ w[m - 1] \in Seq(Byte) /\ Len(w[m - 1]) = Len(bytes)
        /\ StoredAt(m - 1) /\ KeptAt(m - 1)
    BY <1>1, <1>5, <1>7
  <2>2. m \in 0..n
    BY <1>1
  <2>3. CASE ~ given(m)
    <3>1. w[m] = w[m - 1]
      BY <1>5, <2>3
    <3>2. \A i \in 1..m : given(i) => i \in 1..(m - 1)
      BY <1>1, <2>3
    <3>3. \A i \in 1..(m - 1) : i \in 1..m
      BY <1>1
    <3>4. StoredAt(m) /\ KeptAt(m)
      BY <2>1, <3>1, <3>2, <3>3
    <3> QED BY <2>1, <2>2, <3>1, <3>4
  <2>4. CASE given(m)
    <3>1. w[m] = Put(w[m - 1], at(m), d(m)) /\ at(m) \in Nat /\ d(m) \in Seq(Byte)
          /\ Len(d(m)) \in Nat
      BY <1>2, <1>3, <1>5, <2>4
    <3>2. /\ Len(w[m]) = Len(bytes)
          /\ \A k \in 1..Len(d(m)) : at(m) + k <= Len(bytes) => w[m][at(m) + k] = d(m)[k]
          /\ \A p \in 1..Len(bytes) :
                p \notin (at(m) + 1)..(at(m) + Len(d(m))) => w[m][p] = w[m - 1][p]
      BY <2>1, <3>1, PutBytes
    <3>3. ASSUME NEW i \in 1..m, given(i), NEW k \in 1..Len(d(i)), at(i) + k <= Len(bytes)
          PROVE  w[m][at(i) + k] = d(i)[k]
      <4>1. CASE i = m
        BY <3>2, <3>3, <4>1
      <4>2. CASE i # m
        <5>1. i \in 1..(m - 1) /\ i \in 1..n /\ i < m
          BY <1>1, <4>2
        <5>2. at(i) \in Nat /\ Len(d(i)) \in Nat /\ at(i) + Len(d(i)) <= at(m)
          BY <1>2, <1>3, <1>4, <3>3, <5>1
        <5>3. at(i) + k \in 1..Len(bytes) /\ at(i) + k \notin (at(m) + 1)..(at(m) + Len(d(m)))
          BY SMTT(30), <3>1, <3>3, <5>2
        <5>4. w[m][at(i) + k] = w[m - 1][at(i) + k]
          BY <3>2, <5>3
        <5>5. w[m - 1][at(i) + k] = d(i)[k]
          BY <2>1, <3>3, <5>1
        <5> QED BY <5>4, <5>5
      <4> QED BY <4>1, <4>2
    <3>4. ASSUME NEW p \in 1..Len(bytes),
                 \A i \in 1..m : given(i) => p \notin (at(i) + 1)..(at(i) + Len(d(i)))
          PROVE  w[m][p] = bytes[p]
      <4>1. m \in 1..m /\ \A i \in 1..(m - 1) : i \in 1..m
        BY <1>1
      <4>2. w[m][p] = w[m - 1][p]
        BY <2>4, <3>2, <3>4, <4>1
      <4>3. w[m - 1][p] = bytes[p]
        BY <2>1, <3>4, <4>1
      <4> QED BY <4>2, <4>3
    <3>5. StoredAt(m)
      BY <3>3
    <3>6. KeptAt(m)
      BY <3>4
    <3> QED BY <2>2, <3>2, <3>5, <3>6
  <2> QED BY <2>3, <2>4
<1> HIDE DEF S
<1>8. 0..n \subseteq S
  BY <1>1, <1>6, <1>7, InductionUpTo
<1>9. n \in 0..n
  BY <1>1
<1>10. Len(w[n]) = Len(bytes) /\ StoredAt(n) /\ KeptAt(n) /\ w[n] \in Seq(Byte)
  BY <1>5, <1>8, <1>9 DEF S
<1>11. Write(bytes, base, struct, data) = w[n]
  BY <1>5
<1>12. Stored(w[n], base, struct, data)
  BY <1>1, <1>10 DEF Stored, at, d, given
<1>13. Kept(w[n], bytes, base, struct, data)
  BY <1>1, <1>10 DEF Kept, at, d, given
<1> QED BY <1>10, <1>11, <1>12, <1>13

\* Data that ends before b ends before whatever is behind b ...
LEMMA Behind ==
    ASSUME NEW base \in Nat, NEW a \in Nat, NEW len \in Nat, NEW size \in Nat, NEW b \in Nat,
           NEW k \in Nat, len <= size, a + size <= b, k > 0
    PROVE  base + a + len < base + b + k
OBVIOUS

\* ... and so does each of its places.
LEMMA Ahead ==
    ASSUME NEW base \in Nat, NEW a \in Nat, NEW size \in Nat, NEW b \in Nat, NEW k \in Nat,
           k <= size, a + size <= b
    PROVE  base + a + k <= base + b
OBVIOUS

\* Any byte of a field is that of its data, or what it was before.
LEMMA WriteField ==
    ASSUME NEW struct, IsStruct(struct), NEW bytes \in Seq(Byte), NEW base \in Nat,
           NEW data, Fits(struct, data), NEW i \in DOMAIN struct, NEW k \in 1..struct[i].size,
           base + Offsets(struct)[i] + struct[i].size <= Len(bytes)
    PROVE  Write(bytes, base, struct, data)[base + Offsets(struct)[i] + k] =
               IF struct[i].name \in DOMAIN data /\ k <= Len(data[struct[i].name])
               THEN data[struct[i].name][k] ELSE bytes[base + Offsets(struct)[i] + k]
<1> DEFINE o == Offsets(struct)
           p == base + o[i] + k
<1>1. struct[i].size \in Nat /\ o[i] \in Nat /\ Len(bytes) \in Nat
  BY FieldTypes
<1> HIDE DEF o
<1>2. p \in 1..Len(bytes) /\ p <= Len(bytes)
  BY SMTT(30), <1>1 DEF o
<1>3. CASE struct[i].name \in DOMAIN data /\ k <= Len(data[struct[i].name])
  <2>1. k \in 1..Len(data[struct[i].name])
    <3>1. Len(data[struct[i].name]) \in Nat
      BY <1>3 DEF Fits
    <3> QED BY <3>1, <1>1, <1>3
  <2>2. \A m \in 1..Len(data[struct[i].name]) : base + Offsets(struct)[i] + m <= Len(bytes) =>
            Write(bytes, base, struct, data)[base + Offsets(struct)[i] + m]
                = data[struct[i].name][m]
    <3>1. Len(Write(bytes, base, struct, data)) = Len(bytes)
          /\ Stored(Write(bytes, base, struct, data), base, struct, data)
      BY WriteBytes
    <3> QED BY <1>3, <3>1 DEF Stored
  <2>3. base + Offsets(struct)[i] + k <= Len(bytes)
    BY <1>2 DEF o
  <2> QED BY <2>1, <2>2, <2>3, <1>3
<1>4. CASE ~ (struct[i].name \in DOMAIN data /\ k <= Len(data[struct[i].name]))
  <2>1. ASSUME NEW j \in DOMAIN struct, struct[j].name \in DOMAIN data
        PROVE  p \notin (base + o[j] + 1)..(base + o[j] + Len(data[struct[j].name]))
    <3> DEFINE len == Len(data[struct[j].name])
    <3>1. len \in Nat /\ len <= struct[j].size
      BY <2>1 DEF Fits
    <3>2. DOMAIN struct = 1..Len(struct) /\ Len(struct) \in Nat
          /\ struct[j].size \in Nat /\ o[j] \in Nat
      BY FieldTypes DEF o
    <3> HIDE DEF p
    <3>3. CASE j = i
      <4>1. ~ (k <= len)
        BY <1>4, <2>1, <3>3
      <4> HIDE DEF len
      <4>2. k \in Nat
        BY <1>1
      <4>3. p \notin (base + o[j] + 1)..(base + o[j] + len)
        BY SMTT(30), <3>1, <3>2, <3>3, <4>1, <4>2 DEF p
      <4> QED BY <4>3 DEF len
    <3>4. CASE j < i
      <4>1. o[j] + struct[j].size <= o[i]
        BY <3>4, FieldsApart DEF o
      <4> HIDE DEF len
      <4>2. k \in 1..struct[i].size
        OBVIOUS
      <4>3. base + o[j] + len < p
        <5>1. k \in Nat /\ k > 0 /\ o[i] \in Nat /\ o[j] \in Nat /\ struct[j].size \in Nat
          BY <1>1, <3>2
        <5> QED BY <3>1, <4>1, <5>1, Behind DEF p
      <4>4. base + o[j] + len \in Nat /\ p \in Nat
        BY SMTT(30), <3>1, <3>2, <1>2
      <4> QED BY <4>3, <4>4 DEF len
    <3>5. CASE i < j
      <4>1. o[i] + struct[i].size <= o[j]
        BY <3>5, FieldsApart DEF o
      <4> HIDE DEF len
      <4>2. k \in 1..struct[i].size
        OBVIOUS
      <4>3. p <= base + o[j]
        <5>1. k \in Nat /\ k <= struct[i].size /\ o[i] \in Nat /\ o[j] \in Nat
              /\ struct[i].size \in Nat
          BY <1>1, <3>2
        <5> QED BY <4>1, <5>1, Ahead DEF p
      <4>4. base + o[j] \in Nat /\ p \in Nat
        BY SMTT(30), <3>2, <1>2
      <4> QED BY <4>3, <4>4
    <3> QED BY <3>2, <3>3, <3>4, <3>5
  <2> HIDE DEF p
  <2>2. Write(bytes, base, struct, data)[p] = bytes[p]
    <3>1. Kept(Write(bytes, base, struct, data), bytes, base, struct, data)
      BY WriteBytes
    <3> QED BY <1>2, <2>1, <3>1 DEF Kept, o
  <2> QED BY <2>2, <1>4 DEF p, o
<1> QED BY <1>3, <1>4

\* What lies before the structure stays.
LEMMA WriteBefore ==
    ASSUME NEW struct, IsStruct(struct), NEW bytes \in Seq(Byte), NEW base \in Nat,
           NEW data, Fits(struct, data), NEW p \in 1..base, base <= Len(bytes)
    PROVE  Write(bytes, base, struct, data)[p] = bytes[p]
<1>1. p \in 1..Len(bytes)
  OBVIOUS
<1>2. ASSUME NEW i \in DOMAIN struct, struct[i].name \in DOMAIN data
      PROVE  p \notin (base + Offsets(struct)[i] + 1)
                      ..(base + Offsets(struct)[i] + Len(data[struct[i].name]))
  <2>1. Offsets(struct)[i] \in Nat /\ Len(data[struct[i].name]) \in Nat
    BY <1>2, OffsetsDefined DEF Fits
  <2> QED BY <2>1
<1>3. Kept(Write(bytes, base, struct, data), bytes, base, struct, data)
  BY WriteBytes
<1> QED BY <1>1, <1>2, <1>3 DEF Kept


-----------------------------------------------------------------------------
(* Numbers.                                                                 *)

\* The two operands of a min() in the code.
LEMMA MinOfTwo ==
    ASSUME NEW a \in Int, NEW b \in Int
    PROVE  Min({a, b}) = IF a <= b THEN a ELSE b
<1> DEFINE m == IF a <= b THEN a ELSE b
<1>1. m \in {a, b} /\ \A y \in {a, b} : m <= y
  OBVIOUS
<1>2. \A x \in {a, b} : (\A y \in {a, b} : x <= y) => x = m
  OBVIOUS
<1> HIDE DEF m
<1> QED BY <1>1, <1>2 DEF Min, m

\* The least of some natural numbers.
LEMMA MinOfSome ==
    ASSUME NEW T, T \subseteq Nat, T # {}
    PROVE  Min(T) \in T /\ \A y \in T : Min(T) <= y
BY LeastNatural DEF Min

\* A number is four bytes.
LEMMA NumberBytes ==
    ASSUME NEW v \in Int
    PROVE  to_bytes(v) \in Seq(Byte) /\ Len(to_bytes(v)) = 4
<1>1. v % 256 \in Byte /\ (v \div 256) % 256 \in Byte /\ (v \div 65536) % 256 \in Byte
      /\ (v \div 16777216) % 256 \in Byte
  BY SMT DEF Byte
<1> QED BY SMT, <1>1 DEF to_bytes

\* The numbers a model has are those of an i32.
LEMMA NumberRange ==
    /\ \A v : v \in 0..MaxNumber => v \in Int /\ 0 <= v /\ v <= 2147483647
    /\ \A v : v \in (-MaxNumber - 1)..MaxNumber =>
          v \in Int /\ -2147483648 <= v /\ v <= 2147483647
<1>1. MaxNumber \in Int
  BY SMT DEF MaxNumber
<1>2. /\ \A v : v \in 0..MaxNumber => v \in Int /\ 0 <= v /\ v <= MaxNumber
      /\ \A v : v \in (-MaxNumber - 1)..MaxNumber =>
            v \in Int /\ -MaxNumber - 1 <= v /\ v <= MaxNumber
  BY SMT, <1>1
<1>3. \A v \in Int : (v <= MaxNumber => v <= 2147483647)
                     /\ (-MaxNumber - 1 <= v => -2147483648 <= v)
  BY SMT DEF MaxNumber
<1> QED BY SMT, <1>2, <1>3

\* The four bytes make up the number again; the last one has its sign.
LEMMA NumberSum ==
    ASSUME NEW v \in Int, -2147483648 <= v, v <= 2147483647
    PROVE  LET top == (v \div 16777216) % 256 IN
           /\ top \in Int /\ (top >= 128) = (v < 0)
           /\ (v % 256) + 256 * ((v \div 256) % 256) + 65536 * ((v \div 65536) % 256)
                 + 16777216 * (IF v < 0 THEN top - 256 ELSE top) = v
<1> DEFINE q1 == v \div 256
           q2 == v \div 65536
           q3 == v \div 16777216
<1>1. q1 \in Int /\ q2 \in Int /\ q3 \in Int
  BY SMT
<1>2. v % 256 = v - 256 * q1
  BY SMT
<1>3. q1 \div 256 = q2 /\ q2 \div 256 = q3
  BY SMT
<1>4. -128 <= q3 /\ q3 <= 127 /\ ((q3 < 0) = (v < 0))
  BY SMT
<1> HIDE DEF q1, q2, q3
<1>5. q1 % 256 = q1 - 256 * q2
  BY SMT, <1>1, <1>3
<1>6. q2 % 256 = q2 - 256 * q3
  BY SMT, <1>1, <1>3
<1>7. q3 % 256 = IF q3 < 0 THEN q3 + 256 ELSE q3
  BY SMT, <1>1, <1>4
<1> DEFINE top == q3 % 256
<1>8. top = IF v < 0 THEN q3 + 256 ELSE q3
  BY SMT, <1>4, <1>7
<1> HIDE DEF top
<1>9. top \in Int /\ (top >= 128) = (v < 0)
  BY SMT, <1>1, <1>4, <1>8
<1>10. (v % 256) + 256 * (q1 % 256) + 65536 * (q2 % 256)
          + 16777216 * (IF v < 0 THEN top - 256 ELSE top) = v
  BY SMT, <1>1, <1>2, <1>5, <1>6, <1>8
<1> QED BY SMT, <1>9, <1>10 DEF q1, q2, q3, top

\* An i32 is read as it was written.
LEMMA SignedRead ==
    ASSUME NEW v \in Int, -2147483648 <= v, v <= 2147483647,
           NEW b, \A k \in 1..4 : b[k] = to_bytes(v)[k]
    PROVE  from_i32(b) = v
<1>1. b[1] = v % 256 /\ b[2] = (v \div 256) % 256 /\ b[3] = (v \div 65536) % 256
      /\ b[4] = (v \div 16777216) % 256
  BY SMT DEF to_bytes
<1> DEFINE b1 == b[1]
           b2 == b[2]
           b3 == b[3]
           b4 == b[4]
<1>2. b1 = v % 256 /\ b2 = (v \div 256) % 256 /\ b3 = (v \div 65536) % 256
      /\ b4 = (v \div 16777216) % 256
  BY SMT, <1>1
<1>3. from_i32(b) = b1 + 256 * b2 + 65536 * b3
                    + 16777216 * (IF b4 >= 128 THEN b4 - 256 ELSE b4)
  BY SMT DEF from_i32
<1> HIDE DEF b1, b2, b3, b4
<1>4. CASE v >= 0
  <2>1. b4 < 128 /\ b1 + 256 * b2 + 65536 * b3 + 16777216 * b4 = v /\ b4 \in Int
    BY SMT, <1>2, <1>4, NumberSum
  <2> QED BY SMT, <1>3, <2>1
<1>5. CASE v < 0
  <2>1. b4 >= 128 /\ b1 + 256 * b2 + 65536 * b3 + 16777216 * (b4 - 256) = v /\ b4 \in Int
    BY SMT, <1>2, <1>5, NumberSum
  <2> QED BY SMT, <1>3, <2>1
<1> QED BY SMT, <1>4, <1>5

-----------------------------------------------------------------------------
(* C strings.                                                               *)

\* A string ends before its first NUL.
LEMMA FirstNul ==
    ASSUME NEW bytes \in Seq(Byte), NEW n \in 0..Len(bytes),
           n < Len(bytes) => bytes[n + 1] = 0, \A k \in 1..n : bytes[k] # 0
    PROVE  UpToNul(bytes) = SubSeq(bytes, 1, n)
<1> DEFINE T == {i - 1 : i \in {j \in DOMAIN bytes : bytes[j] = 0}} \cup {Len(bytes)}
<1>1. DOMAIN bytes = 1..Len(bytes) /\ Len(bytes) \in Nat
  OBVIOUS
<1>2. T \subseteq Nat /\ T # {}
  BY <1>1
<1>3. n \in T
  <2>1. CASE n < Len(bytes)
    <3>1. n + 1 \in DOMAIN bytes /\ bytes[n + 1] = 0 /\ (n + 1) - 1 = n
      BY <1>1, <2>1
    <3> QED BY <3>1
  <2>2. CASE n = Len(bytes)
    BY <2>2
  <2>3. n < Len(bytes) \/ n = Len(bytes)
    <3> DEFINE len == Len(bytes)
    <3>1. len \in Nat /\ n \in 0..len
      BY <1>1
    <3> HIDE DEF len
    <3>2. n < len \/ n = len
      BY <3>1
    <3> QED BY <3>2 DEF len
  <2> QED BY <2>1, <2>2, <2>3
<1>4. \A t \in T : n <= t
  <2>1. ASSUME NEW i \in DOMAIN bytes, bytes[i] = 0 PROVE n <= i - 1
    <3>1. i \notin 1..n
      BY <2>1
    <3> QED BY <1>1, <3>1
  <2> QED BY <1>1, <2>1
<1>5. UpToNul(bytes) = SubSeq(bytes, 1, Min(T))
  BY DEF UpToNul
<1> HIDE DEF T
<1>6. Min(T) \in T /\ \A y \in T : Min(T) <= y
  BY <1>2, MinOfSome
<1>7. Min(T) = n
  <2>1. Min(T) <= n /\ n <= Min(T) /\ Min(T) \in Nat
    BY <1>2, <1>3, <1>4, <1>6
  <2> QED BY <2>1
<1> QED BY <1>5, <1>7

\* Whatever a string is, it ends before any NUL.
LEMMA BeforeNul ==
    ASSUME NEW bytes \in Seq(Byte), NEW n \in 0..(Len(bytes) - 1), bytes[n + 1] = 0
    PROVE  \E m \in 0..n : UpToNul(bytes) = SubSeq(bytes, 1, m)
<1> DEFINE T == {i - 1 : i \in {j \in DOMAIN bytes : bytes[j] = 0}} \cup {Len(bytes)}
<1>1. DOMAIN bytes = 1..Len(bytes) /\ Len(bytes) \in Nat
  OBVIOUS
<1>2. T \subseteq Nat /\ T # {}
  BY <1>1
<1>3. n \in T
  <2>1. n + 1 \in DOMAIN bytes /\ (n + 1) - 1 = n
    BY <1>1
  <2> QED BY <2>1
<1>4. UpToNul(bytes) = SubSeq(bytes, 1, Min(T))
  BY DEF UpToNul
<1> HIDE DEF T
<1>5. Min(T) \in Nat /\ Min(T) <= n
  BY <1>2, <1>3, MinOfSome
<1>6. Min(T) \in 0..n
  BY <1>5
<1> QED BY <1>4, <1>6


-----------------------------------------------------------------------------
(* Fields.                                                                  *)

\* What Field returns.
LEMMA FieldBytes ==
    ASSUME NEW struct, IsStruct(struct), NEW bytes \in Seq(Byte), NEW base \in Nat,
           base + SizeOf(struct) <= Len(bytes), NEW i \in DOMAIN struct
    PROVE  /\ Field(bytes, base, struct, struct[i].name) \in Seq(Byte)
           /\ Len(Field(bytes, base, struct, struct[i].name)) = struct[i].size
           /\ \A k \in 1..struct[i].size :
                 Field(bytes, base, struct, struct[i].name)[k]
                     = bytes[base + Offsets(struct)[i] + k]
<1> DEFINE at == base + Offsets(struct)[i]
           size == struct[i].size
<1>1. Field(bytes, base, struct, struct[i].name) = SubSeq(bytes, at + 1, at + size)
  BY IndexFound DEF Field, OffsetOf
<1>2. at \in Nat /\ size \in Nat /\ at + size <= Len(bytes) /\ Len(bytes) \in Nat
  <2>1. Offsets(struct)[i] \in Nat /\ size \in Nat
    BY FieldTypes
  <2>2. SizeOf(struct) \in Nat /\ Offsets(struct)[i] + size <= SizeOf(struct)
    BY FieldWithin
  <2> HIDE DEF size
  <2> QED BY SMTT(30), <2>1, <2>2
<1> HIDE DEF at, size
<1>3. \A k \in 1..size : SubSeq(bytes, at + 1, at + size)[k] = bytes[at + k]
  BY SMTT(30), <1>2
<1>4. SubSeq(bytes, at + 1, at + size) \in Seq(Byte)
  <2>1. \A k \in 1..size : at + k \in 1..Len(bytes)
    BY <1>2
  <2> QED BY <1>2, <2>1
<1>5. Len(SubSeq(bytes, at + 1, at + size)) = size
  BY <1>2
<1> QED BY <1>1, <1>3, <1>4, <1>5 DEF at, size

\* What is read from a field that was written.
LEMMA FieldWritten ==
    ASSUME NEW struct, IsStruct(struct), NEW bytes \in Seq(Byte), NEW base \in Nat,
           base + SizeOf(struct) <= Len(bytes), NEW data, Fits(struct, data),
           NEW i \in DOMAIN struct, struct[i].name \in DOMAIN data,
           NEW k \in 1..struct[i].size
    PROVE  Field(Write(bytes, base, struct, data), base, struct, struct[i].name)[k] =
               IF k <= Len(data[struct[i].name]) THEN data[struct[i].name][k]
               ELSE bytes[base + Offsets(struct)[i] + k]
<1> DEFINE w == Write(bytes, base, struct, data)
<1>1. w \in Seq(Byte) /\ Len(w) = Len(bytes)
  BY WriteBytes
<1>2. base + Offsets(struct)[i] + struct[i].size <= Len(bytes)
  <2>1. Offsets(struct)[i] \in Nat /\ struct[i].size \in Nat /\ SizeOf(struct) \in Nat
        /\ Offsets(struct)[i] + struct[i].size <= SizeOf(struct)
    BY FieldTypes, FieldWithin
  <2> QED BY <2>1
<1>3. w[base + Offsets(struct)[i] + k] =
          IF k <= Len(data[struct[i].name]) THEN data[struct[i].name][k]
          ELSE bytes[base + Offsets(struct)[i] + k]
  BY <1>2, WriteField
<1> HIDE DEF w
<1>4. Field(w, base, struct, struct[i].name)[k] = w[base + Offsets(struct)[i] + k]
  BY <1>1, FieldBytes
<1> QED BY <1>3, <1>4 DEF w


\* A field holds data: its bytes, then zeroes.
Holds(field, data) ==
    /\ field \in Seq(Byte) /\ Len(data) <= Len(field)
    /\ \A k \in 1..Len(field) : field[k] = IF k <= Len(data) THEN data[k] ELSE 0

\* A signed one is, from a field that may be longer than it.
LEMMA HoldsSigned ==
    ASSUME NEW field, NEW v \in (-MaxNumber - 1)..MaxNumber, Holds(field, to_bytes(v))
    PROVE  from_i32(field) = v /\ from_i32(SubSeq(field, 1, 4)) = v
<1> DEFINE b == to_bytes(v)
<1>1. v \in Int /\ -2147483648 <= v /\ v <= 2147483647
  BY SMT, NumberRange
<1>2. b \in Seq(Byte) /\ Len(b) = 4
  BY SMT, <1>1, NumberBytes
<1>3. field \in Seq(Byte) /\ 4 <= Len(field) /\ \A k \in 1..4 : field[k] = b[k]
  <2> HIDE DEF b
  <2>1. Holds(field, b)
    BY DEF b
  <2>2. field \in Seq(Byte) /\ Len(field) \in Nat /\ 4 <= Len(field)
    BY <2>1, <1>2 DEF Holds
  <2> QED BY SMTT(30), <2>1, <2>2, <1>2 DEF Holds
<1>4. \A k \in 1..4 : SubSeq(field, 1, 4)[k] = b[k]
  <2> HIDE DEF b
  <2>1. \A k \in 1..4 : SubSeq(field, 1, 4)[k] = field[k]
    BY <1>3
  <2> QED BY <1>3, <2>1
<1>5. from_i32(field) = v
  BY SMT, <1>1, <1>3, SignedRead
<1>6. from_i32(SubSeq(field, 1, 4)) = v
  <2> DEFINE f == SubSeq(field, 1, 4)
  <2>1. \A k \in 1..4 : f[k] = b[k]
    BY <1>4
  <2> HIDE DEF f
  <2>2. from_i32(f) = v
    BY SMT, <1>1, <2>1, SignedRead
  <2> QED BY SMT, <2>2 DEF f
<1> QED BY <1>5, <1>6

\* A C string has no NUL inside.
NulFree(s) == s \in Seq(Byte) /\ \A k \in 1..Len(s) : s[k] # 0

\* Nor has its beginning.
LEMMA NulFreePrefix ==
    ASSUME NEW s, NulFree(s), NEW n \in 0..Len(s)
    PROVE  NulFree(SubSeq(s, 1, n))
<1>1. s \in Seq(Byte) /\ \A k \in 1..Len(s) : s[k] # 0
  BY DEF NulFree
<1>2. SubSeq(s, 1, n) \in Seq(Byte)
  BY <1>1, Prefix
<1>3. Len(SubSeq(s, 1, n)) = n /\ \A k \in 1..n : SubSeq(s, 1, n)[k] = s[k] /\ k \in 1..Len(s)
  BY <1>1
<1> QED BY <1>1, <1>2, <1>3 DEF NulFree

\* The start of a field that holds a string holds the start of the string.
LEMMA HoldsSlice ==
    ASSUME NEW field, NEW s, NulFree(s), Holds(field, s), NEW n \in 0..Len(field)
    PROVE  Holds(SubSeq(field, 1, n), SubSeq(s, 1, Min({Len(s), n})))
<1> DEFINE len == Min({Len(s), n})
<1>1. field \in Seq(Byte) /\ Len(field) \in Nat /\ Len(s) \in Nat /\ n \in Nat
  BY DEF Holds, NulFree
<1>2. len = IF Len(s) <= n THEN Len(s) ELSE n
  BY <1>1, MinOfTwo
<1> HIDE DEF len
<1>3. SubSeq(field, 1, n) \in Seq(Byte) /\ Len(SubSeq(field, 1, n)) = n
      /\ \A k \in 1..n : SubSeq(field, 1, n)[k] = field[k]
  BY <1>1
<1>4. Len(SubSeq(s, 1, len)) = len /\ \A k \in 1..len : SubSeq(s, 1, len)[k] = s[k]
  BY <1>1, <1>2 DEF NulFree
<1>5. ASSUME NEW k \in 1..n
      PROVE  SubSeq(field, 1, n)[k] = IF k <= len THEN SubSeq(s, 1, len)[k] ELSE 0
  <2>1. k \in 1..Len(field) /\ (k <= len => k \in 1..len /\ k <= Len(s)) /\ (~(k <= len) => ~(k <= Len(s)))
    BY <1>1, <1>2
  <2>2. field[k] = IF k <= Len(s) THEN s[k] ELSE 0
    BY <2>1 DEF Holds
  <2> QED BY <2>1, <2>2, <1>3, <1>4
<1>6. len <= n
  BY <1>1, <1>2
<1> QED BY <1>3, <1>4, <1>5, <1>6 DEF Holds, len

\* A string is read back.
LEMMA HoldsString ==
    ASSUME NEW field, NEW s, NulFree(s), Holds(field, s)
    PROVE  UpToNul(field) = s
<1> DEFINE n == Len(s)
<1>1. field \in Seq(Byte) /\ Len(field) \in Nat /\ n \in Nat /\ n <= Len(field)
  BY DEF Holds, NulFree
<1>2. (\A k \in 1..n : s[k] # 0) /\ s \in Seq(Byte)
  BY DEF NulFree
<1>3. \A k \in 1..n : field[k] = s[k]
  <2> HIDE DEF n
  <2>1. \A k \in 1..Len(field) : k <= n => field[k] = s[k]
    BY DEF Holds, n
  <2> QED BY <2>1, <1>1
<1>4. n < Len(field) => field[n + 1] = 0
  <2> HIDE DEF n
  <2>1. \A k \in 1..Len(field) : ~(k <= n) => field[k] = 0
    BY DEF Holds, n
  <2> QED BY <2>1, <1>1
<1>5. s = [k \in 1..n |-> s[k]]
  BY <1>2
<1> HIDE DEF n
<1>6. n \in 0..Len(field)
  BY <1>1
<1>9. \A k \in 1..n : field[k] # 0
  BY <1>2, <1>3
<1>7. UpToNul(field) = SubSeq(field, 1, n)
  BY <1>1, <1>4, <1>6, <1>9, FirstNul
<1>8. SubSeq(field, 1, n) = [k \in 1..n |-> field[k]]
  BY <1>1
<1> QED BY <1>3, <1>5, <1>7, <1>8
=============================================================================
