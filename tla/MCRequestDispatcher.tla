------------------------ MODULE MCRequestDispatcher ------------------------
(* Instances of RequestDispatcher for TLC. *)
EXTENDS RequestDispatcher, TLC

ThreadSymmetry == Permutations(Client) \cup Permutations(Starter) \cup Permutations(Closer)
=============================================================================
