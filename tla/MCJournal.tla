----------------------------- MODULE MCJournal -----------------------------
(* Model values for the runs of the journal. *)
EXTENDS Journal, TLC

CONSTANTS e1, e2, f1, a, b

Values == Permutations({a, b})
=============================================================================
