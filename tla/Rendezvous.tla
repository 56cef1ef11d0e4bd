----------------------------- MODULE Rendezvous -----------------------------
(***************************************************************************)
(* What IPC promises: a process that waits gets one message, all of it, and *)
(* the one that was handed over while it waited.                           *)
(***************************************************************************)
CONSTANTS Proc, Message, Empty, Waiting

VARIABLES box,   \* what each process has: nothing, a wait, or a message
          got    \* the last message ipc_recv returned to each process

Init == /\ box = [p \in Proc |-> Empty]
        /\ got = [p \in Proc |-> Empty]

Wait(p) == /\ box[p] = Empty
           /\ box' = [box EXCEPT ![p] = Waiting]
           /\ UNCHANGED got

Put(p, m) == /\ box[p] = Waiting
             /\ box' = [box EXCEPT ![p] = m]
             /\ UNCHANGED got

Take(p) == /\ box[p] \in Message
           /\ box' = [box EXCEPT ![p] = Empty]
           /\ got' = [got EXCEPT ![p] = box[p]]

\* The process ends, whatever it was doing.
Leave(p) == /\ box' = [box EXCEPT ![p] = Empty]
            /\ got' = [got EXCEPT ![p] = Empty]

Next == \E p \in Proc : \/ Wait(p) \/ Take(p) \/ Leave(p)
                        \/ \E m \in Message : Put(p, m)

Spec == Init /\ [][Next]_<<box, got>>
=============================================================================
