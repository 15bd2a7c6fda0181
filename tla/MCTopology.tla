----------------------------- MODULE MCTopology -----------------------------
(* Topology, instantiated for TLC.  The machine: CPUs 0-1 and 2-3 (and 4)   *)
(* are siblings, and share one cache, so that a test CPU has CPU 0 for its  *)
(* sibling.                                                                 *)
EXTENDS Topology

MCMachine ==
  [l \in KernelLevels |->
     [c \in 0..NumCpus-1 |->
        IF l = "SMT" THEN {d \in 0..NumCpus-1 : d \div 2 = c \div 2} ELSE 0..NumCpus-1]]
=============================================================================
