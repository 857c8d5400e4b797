---------------------------- MODULE ControlCalls ----------------------------
(***************************************************************************)
(* What ControlClient promises the caller of a method that changes the      *)
(* daemon's state (those that end in send_and_expect_ack): a synchronous    *)
(* call, carried out at most once and only while it is pending, whose       *)
(* result tells what happened.  Connection is the one result that leaves it *)
(* open.  A call made on a stream that the caller has disturbed, or which    *)
(* disturbs it, is Undefined: it may still be carried out later.            *)
(***************************************************************************)
EXTENDS Naturals

CONSTANT MaxCalls

VARIABLES
    status,   \* what each call has returned
    done      \* how often the daemon has carried it out

Calls == 1..MaxCalls

Init ==
    /\ status = [i \in Calls |-> "Unused"]
    /\ done = [i \in Calls |-> 0]

Call(i) ==
    /\ status[i] = "Unused"
    /\ \A j \in Calls : status[j] # "Pending"
    /\ \E start \in {"Pending", "Undefined"} : status' = [status EXCEPT ![i] = start]
    /\ UNCHANGED done

CarryOut(i) ==
    /\ status[i] \in {"Pending", "Undefined"}
    /\ done[i] = 0
    /\ done' = [done EXCEPT ![i] = 1]
    /\ UNCHANGED status

Return(i) ==
    /\ status[i] = "Pending"
    /\ \E result \in {"Ok", "Rejected", "Connection", "Cancelled", "Undefined"} :
          /\ result = "Ok" => done[i] = 1
          /\ result \in {"Rejected", "Cancelled"} => done[i] = 0
          /\ status' = [status EXCEPT ![i] = result]
    /\ UNCHANGED done

Next == \E i \in Calls : Call(i) \/ CarryOut(i) \/ Return(i)

Spec == Init /\ [][Next]_<<status, done>>

\* A pending call returns.
FairSpec == Spec /\ WF_<<status, done>>(\E i \in Calls : Return(i))
=============================================================================
