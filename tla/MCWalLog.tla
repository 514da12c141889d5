------------------------------ MODULE MCWalLog ------------------------------
(* WalLog on two cell records: enough for a batch of two and a bare record   *)
(* around it, which is every way a unit can meet a tear or a damaged frame.  *)
(* In an episode of their own, three servers contend for the directory the   *)
(* log is in.                                                                *)
EXTENDS WalLog, DirectoryLock, TLC

CONSTANTS c1, c2
VARIABLE episode

MCCells == {c1, c2}
CellSymmetry == Permutations(MCCells)

MCInit == episode \in {"log", "servers"} /\ LogInit /\ LockInit /\ (unix \/ episode = "servers")

mcVars == <<logVars, lockVars, episode>>
MCNext ==
  /\ UNCHANGED episode
  /\ \/ episode = "log" /\ LogNext /\ UNCHANGED lockVars
     \/ episode = "servers" /\ LockNext /\ UNCHANGED logVars

MCSpec == MCInit /\ [][MCNext]_mcVars

=============================================================================
