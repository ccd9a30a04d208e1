--------------------------- MODULE MCSequentialRun ---------------------------
(***************************************************************************)
(* Four LIF neurons: 0 excites 1 after one beat and 2 after two, 1 feeds   *)
(* back to 0, 2 inhibits 1, and 1 excites 3, which has no synapses.        *)
(* Neuron 2 starts above its resting potential and neuron 1 is reset below *)
(* its own.                                                                *)
(***************************************************************************)
EXTENDS Probes, LifNeuron

MCNeurons == 0 .. 3

MCSynapses ==
    0 :> <<[to |-> 1, weight |-> 9, delay |-> 1], [to |-> 2, weight |-> 5, delay |-> 2]>>
 @@ 1 :> <<[to |-> 0, weight |-> 6, delay |-> 1], [to |-> 3, weight |-> 8, delay |-> 1]>>
 @@ 2 :> <<[to |-> 1, weight |-> -4, delay |-> 1], [to |-> 2, weight |-> 2, delay |-> 1]>>
 @@ 3 :> <<>>

Lif(potential, reset) ==
    [potential |-> potential, current |-> 0, resting_potential |-> 0,
     reset_potential |-> reset, threshold |-> 3, resistance |-> 1]

MCInitialNeuron == 0 :> Lif(0, 0) @@ 1 :> Lif(0, -4) @@ 2 :> Lif(3, 0) @@ 3 :> Lif(0, 0)

Input(time, intensity) == [time |-> time, intensity |-> intensity]
EndOfArray == Input(0, 0)

\* Neuron 0 gets one or two spikes at any two times; neuron 2 at most one. The buffer
\* goes on after the zero that ends an array.
InputTimes == {0, 1, 4, 5, 8}
MCSpikeInputs ==
    { [n \in MCNeurons |->
         CASE n = 0 -> <<Input(t1, w1), Input(t2, 8), EndOfArray, Input(2, 8)>>
           [] n \in {1, 3} -> <<>>
           [] n = 2 -> third] :
        t1 \in InputTimes, t2 \in InputTimes, w1 \in {4, 8},
        third \in {<<>>, <<EndOfArray>>, <<Input(6, 3), EndOfArray>>} }
=============================================================================
