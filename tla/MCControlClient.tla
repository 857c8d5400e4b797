--------------------------- MODULE MCControlClient ---------------------------
(* Instances of ControlClient for TLC: an installation, a setting and a query  *)
(* in every order, on messages, images and sockets of two or three cells, so  *)
(* that every write and every read can stop in the middle.                    *)
EXTENDS ControlOutcome

InstallSetAndQuery == {"REQ_INSTALL", "SET_UPDATE_STATE", "GET_STATUS"}
OneOfEach == InstallSetAndQuery \cup {"GET_HW_REVISION"}
InstallAndSet == {"REQ_INSTALL", "SET_UPDATE_STATE"}
Straight == {}
Abandoning == {"abandon"}
AllHabits == {"cancel", "abandon", "restream"}
=============================================================================
