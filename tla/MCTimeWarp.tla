------------------------------- MODULE MCTimeWarp -------------------------------
(***************************************************************************)
(* The network of MCTimeWarpNetwork with LIF neurons.                      *)
(***************************************************************************)
EXTENDS MCTimeWarpNetwork, LifNeuron

Lif(potential, reset) ==
    [potential |-> potential, current |-> 0, resting_potential |-> 0,
     reset_potential |-> reset, threshold |-> 3, resistance |-> 1]

MCInitialNeuron == [n \in MCNeurons |-> IF n = 1 THEN Lif(3, -1) ELSE Lif(0, 0)]
=============================================================================
