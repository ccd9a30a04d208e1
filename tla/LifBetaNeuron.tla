----------------------------- MODULE LifBetaNeuron -----------------------------
(***************************************************************************)
(* The neuron of src/neurons/lif_beta.c: its potential shrinks by a factor *)
(* beta at every leak, whatever the time step, and a spike adds to the     *)
(* potential itself, so there is no current to keep.  It comes without a   *)
(* leak for a gap of several beats, so only the needy mode can drive it.   *)
(*                                                                         *)
(* Potentials are integers: floor division stands for the rounding of a    *)
(* float.                                                                  *)
(***************************************************************************)
EXTENDS Integers

CONSTANTS BetaNum, BetaDen  \* beta is the fraction BetaNum / BetaDen

ASSUME BetaAssumption == BetaDen \in Nat \ {0} /\ BetaNum \in 0 .. BetaDen

neurons_lif_beta_leak(lf) == [lf EXCEPT !.potential = (BetaNum * @) \div BetaDen]

neurons_lif_beta_integrate(lf, current) == [lf EXCEPT !.potential = @ + current]

neurons_lif_beta_fire(lf) ==
    LET to_fire == lf.potential > lf.threshold
    IN  [fired  |-> to_fire,
         neuron |-> IF to_fire THEN [lf EXCEPT !.potential = lf.baseline] ELSE lf]

\* Only the potential changes in a run, so only the potential travels in the message.
neurons_lif_beta_store_state(lf) == [potential |-> lf.potential]

neurons_lif_beta_reverse_store_state_Baseline(lf, storage) ==
    [lf EXCEPT !.potential = lf.baseline]
neurons_lif_beta_reverse_store_state(lf, storage) ==
    [lf EXCEPT !.potential = storage.potential]
=============================================================================
