------------------------------ MODULE FifoQueue ------------------------------
(***************************************************************************)
(* What class MessageQueue promises to the threads that share it: every    *)
(* message that was put is taken at most once, in the order of the puts,   *)
(* and a queue that holds a message is emptied by those who keep asking.   *)
(***************************************************************************)
EXTENDS Naturals, Sequences

CONSTANT Messages

VARIABLES put,   \* every message put, in order
          got    \* every message taken, in order

vars == <<put, got>>

Init ==
    /\ put = <<>>
    /\ got = <<>>

Put ==
    /\ \E m \in Messages : put' = Append(put, m)
    /\ UNCHANGED got

Get ==
    /\ Len(got) < Len(put)
    /\ got' = Append(got, put[Len(got) + 1])
    /\ UNCHANGED put

Next == Put \/ Get

Spec == Init /\ [][Next]_vars
FairSpec == Spec /\ WF_vars(Get)
=============================================================================
