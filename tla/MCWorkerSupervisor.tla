------------------------- MODULE MCWorkerSupervisor -------------------------
(* Instances of WorkerSupervisor for TLC. *)
EXTENDS WorkerSupervisor, TLC

(* One tensor-parallel replica of two ranks; the output rank is rank 0. *)
TwoRanks    == [w \in {1, 2} |-> 1]
TwoRanksOut == [r \in {1} |-> 1]

(* A single rank. *)
OneRank    == [w \in {1} |-> 1]
OneRankOut == [r \in {1} |-> 1]

ThreadSymmetry == Permutations(Client) \cup Permutations(Closer)
=============================================================================
