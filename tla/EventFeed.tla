----------------------------- MODULE EventFeed -----------------------------
(***************************************************************************)
(* What a progress subscription promises: the daemon publishes statuses,    *)
(* and the subscriber is handed some of them, each at most once and in the  *)
(* order they were published.                                               *)
(***************************************************************************)
EXTENDS Naturals, Sequences

CONSTANT Statuses

VARIABLES
    feed,   \* statuses published
    seen    \* those handed to the subscriber, by their place in feed

Init == feed = <<>> /\ seen = <<>>

Publish ==
    /\ \E status \in Statuses : feed' = Append(feed, status)
    /\ UNCHANGED seen

Deliver ==
    /\ \E n \in DOMAIN feed :
          /\ seen # <<>> => n > seen[Len(seen)]
          /\ seen' = Append(seen, n)
    /\ UNCHANGED feed

Spec == Init /\ [][Publish \/ Deliver]_<<feed, seen>>
=============================================================================
