------------------------------- MODULE MCPipe -------------------------------
(* Instances of Pipe for TLC. *)
EXTENDS Pipe, TLC

CONSTANTS p1, p2, p3   \* processes

Ends(r, w) == [s \in Slot |-> CASE s = 0 /\ r -> "r" [] s = 1 /\ w -> "w" [] OTHER -> "none"]

\* p1 reads and p2 writes.
ReaderWriter == p1 :> Ends(TRUE, FALSE) @@ p2 :> Ends(FALSE, TRUE)
Transfers    == p1 :> {"READ"} @@ p2 :> {"WRITE"}

\* p2 makes the pipe and forks p3; p3 reads and p2 writes, as in a shell, and both
\* may close and exit.
JustMade == p2 :> Ends(TRUE, TRUE) @@ p3 :> Ends(FALSE, FALSE)
Shell    == p2 :> {"FORK", "WRITE", "CLOSE", "DUP", "EXIT"} @@ p3 :> {"READ", "CLOSE", "EXIT"}

\* p1 reads, p2 writes, and either may leave.
BothEnds == p1 :> Ends(TRUE, FALSE) @@ p2 :> Ends(TRUE, TRUE)
Closes   == p1 :> {"READ", "EXIT"} @@ p2 :> {"WRITE", "CLOSE", "DUP", "EXIT"}

\* p2 forks p3 while p1 reads.
WithChild == p1 :> Ends(TRUE, FALSE) @@ p2 :> Ends(TRUE, TRUE) @@ p3 :> Ends(FALSE, FALSE)
Forks     == p1 :> {"READ"} @@ p2 :> {"FORK"} @@ p3 :> {}
=============================================================================
