------------------------------ MODULE MCKernel ------------------------------
(* Instances of Kernel for TLC: two or three environments beside the idle one. *)
EXTENDS Kernel, TLC

CONSTANTS v1

\* Each environment but the idle one makes the same kinds of call.
All(ops) == [i \in 0 .. (NENV - 1) |-> IF i = 0 THEN {} ELSE ops]

\* Two senders and a receiver.
OneReceiver == [i \in 0 .. 3 |-> CASE i = 0 -> {} [] i = 1 -> {"RECV"} [] OTHER -> {"SEND"}]

\* The first environment forks senders and receivers, and the receivers exit,
\* so that an entry is used again while a sender retries.
Served    == [i \in 0 .. 3 |-> CASE i = 0 -> {} [] i = 1 -> {"FORK", "STATUS", "SEND"}
                                  [] i = 2 -> {"RECV", "DESTROY"} [] OTHER -> {"SEND"}]
Lifecycle == All({"RECV", "FORK", "STATUS", "DESTROY", "WAIT"})
=============================================================================
