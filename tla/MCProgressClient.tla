-------------------------- MODULE MCProgressClient --------------------------
(* Instances of ProgressClient for TLC.  A packed message is two cells long, *)
(* an unpacked one three, so that the two layouts fall out of step.          *)
EXTENDS ProgressInvariant

Current  == [layout |-> "packed", major |-> 2, acks |-> TRUE]
Previous == [layout |-> "unpacked", major |-> 2, acks |-> TRUE]
Newer    == [layout |-> "packed", major |-> 3, acks |-> TRUE]
Ancient  == [layout |-> "unpacked", major |-> 2, acks |-> FALSE]

OneVersion  == {Current}
TwoVersions == {Current, Previous}
AllVersions == {Current, Previous, Newer, Ancient}

StartAndEnd == {"Start", "Success"}
NotTerminal == {"Start", "Progress"}
None == {}
Cancelling == {"cancel"}
=============================================================================
