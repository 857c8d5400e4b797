---------------------------- MODULE MCControlWire ----------------------------
(* Instances of ControlWire for TLC: character arrays of three to six bytes,  *)
(* and strings that fit them, just fill them, do not fit, end in or are cut   *)
(* in a two-byte character, or contain a NUL.                                 *)
EXTENDS ControlWire

SmallSizes ==
    [key |-> 4, iv |-> 3, name |-> 3, info |-> 4, text |-> 6, url |-> 5, msg |-> 5,
     handler |-> 3]

EmptyText == <<>>
Short     == <<98>>
Full      == <<98, 99, 100>>
TooLong   == <<98, 99, 100, 101, 102, 103, 104>>
Wide      == <<Lead, Trail>>
WideCut   == <<98, Lead, Trail, 99>>
WithNul   == <<98, 0, 99>>
Truncated == <<98, Lead>>

EveryText   == {EmptyText, Short, Full, TooLong, Wide, WideCut, WithNul}
EveryAnswer == {EmptyText, Short, Wide, Truncated}

NoLength   == <<0, 0, 0, 0, 0, 0, 0, 0>>
SomeLength == <<1, 2, 3, 4, 0, 0, 0, 0>>
FourGiB    == <<0, 0, 0, 0, 1, 0, 0, 0>>
EveryLength == {NoLength, SomeLength, FourGiB}

EveryCode == {-16777217, -1, MaxNumber} \cup 0..9 \cup 47..56
=============================================================================
