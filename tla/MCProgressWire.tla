--------------------------- MODULE MCProgressWire ---------------------------
(* Instances of ProgressWire for TLC: one message for each status, known or    *)
(* not, with numbers that tell the fields and their bytes apart, some of them   *)
(* beyond an i32 or a u32, and info shorter than, as long as and longer than    *)
(* infolen says.                                                              *)
EXTENDS ProgressWire

SmallSizes ==
    [key |-> 4, iv |-> 3, name |-> 4, info |-> 4, text |-> 6, url |-> 5, msg |-> 5,
     handler |-> 3]

Huge == <<0, 0, 0, 255>>

Message(status, info, infolen) ==
    [status |-> status, dwl_percent |-> to_bytes(11), dwl_bytes |-> <<21, 22, 23, 24, 25, 26, 27, 255>>,
     nsteps |-> to_bytes(13), cur_step |-> <<31, 32, 33, 34>>, cur_percent |-> <<41, 42, 43, 255>>,
     cur_image |-> <<98, Lead, Trail>>, hnd_name |-> <<98, Lead>>,
     infolen |-> infolen, info |-> info]

\* "SWUpdate vYYYY.MM", then a line about the licence.
Plain(parts) == [v |-> FALSE, parts |-> parts]
Output(version) ==
    <<Plain(<<NoNumber>>), [v |-> TRUE, parts |-> version], Plain(<<NoNumber, NoNumber>>)>>

Release(version, l) == [words |-> Output(version), layout |-> l, released |-> TRUE]
Unreleased(words, l) == [words |-> words, layout |-> l, released |-> FALSE]

EveryBuild ==
    {Release(<<2024, 12, 1>>, "unpacked"), Release(<<2025, 5>>, "unpacked"),
     Release(<<2025, 12>>, "packed"), Release(<<2026, 5>>, "packed"),
     Unreleased(Output(<<2025, NoNumber>>), "unpacked"), Unreleased(<<>>, "packed")}

EveryMessage ==
    {Message(to_bytes(status), <<99, 100>>, to_bytes(2)) : status \in 0..9}
    \cup {Message(to_bytes(4), <<99, Lead, Trail, 101, 102, 103>>, infolen) :
              infolen \in {Huge} \cup {to_bytes(n) : n \in {0, 2, 6, 7}}}
    \cup {Message(Huge, <<>>, to_bytes(0))}
=============================================================================
