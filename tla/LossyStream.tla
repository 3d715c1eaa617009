---------------------------- MODULE LossyStream ----------------------------
(***************************************************************************)
(* What the live stream promises a dashboard: of the messages published    *)
(* while it is connected it receives some, in the order of publication and *)
(* each at most once. The oldest may be lost, nothing is held back by the  *)
(* other dashboards, and the publisher never waits.                        *)
(***************************************************************************)
EXTENDS Naturals

CONSTANT Conns       \* WebSocket connections

VARIABLES published, \* how many messages were published; they are numbered from 1
          received   \* number of the last message each connection has received

Init ==
    /\ published = 0
    /\ received = [c \in Conns |-> 0]

Publish ==
    /\ published' \in Nat
    /\ published' > published
    /\ UNCHANGED received

Receive(c) ==
    /\ \E n \in received[c] + 1 .. published : received' = [received EXCEPT ![c] = n]
    /\ UNCHANGED published

Next == Publish \/ \E c \in Conns : Receive(c)

Spec == Init /\ [][Next]_<<published, received>>
=============================================================================
