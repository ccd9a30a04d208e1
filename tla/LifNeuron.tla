------------------------------ MODULE LifNeuron ------------------------------
(***************************************************************************)
(* The leaky integrate-and-fire neuron of src/neurons/lif.c, the functions *)
(* the driver is given as neuron_leak, neuron_leak_bigdt, ...              *)
(*                                                                         *)
(* Potentials and currents are integers: floor division stands for the     *)
(* rounding of a float.  The heartbeat and the membrane time constant      *)
(* enter only through their quotient, beat / tau_m = LeakNum / LeakDen.    *)
(***************************************************************************)
EXTENDS Integers

CONSTANTS
    LeakNum, LeakDen,   \* beat / tau_m, the Euler step of neurons_lif_leak
    DecayKeep           \* exp(-beat / tau_m), in units of 1 / LeakDen

ASSUME LifAssumption ==
    /\ LeakDen \in Nat \ {0}
    /\ LeakNum \in 0 .. LeakDen
    /\ DecayKeep \in 0 .. LeakDen

neurons_lif_leak(lf) ==
    LET drive == lf.resting_potential - lf.potential + lf.current * lf.resistance
    IN  [lf EXCEPT !.potential = @ + (drive * LeakNum) \div LeakDen]

\* The distance to the resting potential after `beats` whole beats of exponential
\* decay: exp(-beats * beat / tau_m) is the per-beat factor applied `beats` times.
Decayed(distance, beats) ==
    LET d[i \in Nat] == IF i = 0 THEN distance ELSE (d[i - 1] * DecayKeep) \div LeakDen
    IN  d[beats]

neurons_lif_big_leak(lf, beats) ==
    [lf EXCEPT !.potential =
        lf.resting_potential + Decayed(@ - lf.resting_potential, beats)]

\* What neurons_lif_big_leak asserts of the neuron it is given.
BigLeakAllowed(lf) ==
    /\ lf.current = 0
    /\ lf.threshold > lf.resting_potential

neurons_lif_integrate(lf, spike_current) == [lf EXCEPT !.current = @ + spike_current]

neurons_lif_fire_KeepsCurrent(lf) ==
    LET to_fire == lf.potential > lf.threshold
    IN  [fired  |-> to_fire,
         neuron |-> IF to_fire
                    THEN [lf EXCEPT !.potential = lf.reset_potential, !.current = 0]
                    ELSE lf]
\* The current is cleared whether or not the neuron fires.
neurons_lif_fire(lf) ==
    LET to_fire == lf.potential > lf.threshold
    IN  [fired  |-> to_fire,
         neuron |-> [lf EXCEPT !.potential = IF to_fire THEN lf.reset_potential ELSE @,
                               !.current   = 0]]

\* The two mutable fields travel in the message; the parameters stay in the neuron.
neurons_lif_store_state(lf) == [potential |-> lf.potential, current |-> lf.current]

neurons_lif_reverse_store_state(lf, storage) ==
    [lf EXCEPT !.potential = storage.potential, !.current = storage.current]
=============================================================================
