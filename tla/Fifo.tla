-------------------------------- MODULE Fifo --------------------------------
(***************************************************************************)
(* What a pipe promises to one reader and one writer: a bounded queue.     *)
(***************************************************************************)
EXTENDS Naturals, Sequences

CONSTANTS Byte, Cap, NoByte

VARIABLES queue,   \* bytes written and not yet read
          last     \* the byte read last

Init == queue = <<>> /\ last = NoByte

Put(b) == /\ Len(queue) < Cap
          /\ queue' = Append(queue, b)
          /\ UNCHANGED last

Get == /\ queue # <<>>
       /\ last' = Head(queue)
       /\ queue' = Tail(queue)

Next == Get \/ \E b \in Byte : Put(b)

Spec == Init /\ [][Next]_<<queue, last>>
=============================================================================
