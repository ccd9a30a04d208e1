--------------------------- MODULE MCTimeWarpNetwork ---------------------------
(***************************************************************************)
(* Two PEs: neuron 0 on one, neurons 1 and 2 on the other.  0 inhibits 1   *)
(* and excites 2, 2 excites 1, and 1 feeds back to 0: a PE that runs ahead *)
(* may let 1 fire, tell 0 about it, and have to take it back.              *)
(***************************************************************************)
EXTENDS TimeWarp

MCNeurons == 0 .. 2
MCPEOf == [n \in MCNeurons |-> IF n = 0 THEN "a" ELSE "b"]

MCSynapses == [n \in MCNeurons |->
    CASE n = 0 -> <<[to |-> 1, weight |-> -9, delay |-> 1], [to |-> 2, weight |-> 8, delay |-> 1]>>
      [] n = 1 -> <<[to |-> 0, weight |-> 6, delay |-> 1]>>
      [] n = 2 -> <<[to |-> 1, weight |-> 12, delay |-> 1]>>]

Input(time, intensity) == [time |-> time, intensity |-> intensity]
EndOfArray == Input(0, 0)

MCSpikeInputs ==
    { [n \in MCNeurons |->
         CASE n = 0 -> <<Input(t, 8), Input(3, 5), EndOfArray>>
           [] n = 1 -> <<Input(u, 12), EndOfArray>>
           [] n = 2 -> <<>>] : t \in {0, 1}, u \in {2, 5} }
=============================================================================
