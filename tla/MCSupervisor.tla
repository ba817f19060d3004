---------------------------- MODULE MCSupervisor ----------------------------
(* Supervisor with interchangeable GPU threads.                            *)
EXTENDS Supervisor, TLC

Symmetric == Permutations(Gpus)

===========================================================================
