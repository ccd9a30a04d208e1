----------------------------- MODULE MCTimeWarpBeta -----------------------------
(***************************************************************************)
(* The network of MCTimeWarpNetwork with LIF-beta neurons, in needy mode.  *)
(***************************************************************************)
EXTENDS MCTimeWarpNetwork, LifBetaNeuron

LifBeta(potential, baseline) ==
    [potential |-> potential, threshold |-> 3, baseline |-> baseline]

MCInitialNeuron == [n \in MCNeurons |-> IF n = 1 THEN LifBeta(3, 1) ELSE LifBeta(0, 0)]

\* neuron_leak_bigdt is NULL for this neuron: nothing may call it.
NoBigLeak(neuron, beats) == neuron
BigLeakForbidden(neuron) == FALSE
=============================================================================
