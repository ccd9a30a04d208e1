---------------------------- MODULE SpikingNetwork ----------------------------
(***************************************************************************)
(* What a run of the simulator promises, in either mode of execution: a    *)
(* network of neurons that all advance one beat at a time.  At each beat a *)
(* neuron leaks, then fires or not, having integrated exactly the spikes   *)
(* that reached it since its previous beat.  There is no clock, no pending *)
(* heartbeat and no neuron left behind: a neuron may take its next beat as *)
(* soon as nothing that belongs before that beat can still arrive.         *)
(***************************************************************************)
EXTENDS NeuronDriver

VARIABLES
    beats,      \* per neuron, the beats it has taken
    neuron,     \* per neuron, its state after them and after what arrived since
    flight,     \* the spikes sent and not delivered yet
    firings     \* <<neuron, time>> of everything that fired

vars == <<beats, neuron, flight, firings>>

Init ==
    /\ beats = [n \in Neurons |-> 0]
    /\ neuron = [n \in Neurons |-> InitialNeuron[n]]
    /\ \E input \in SpikeInputs :
          flight = Sent(UNION {send_spike_from_StorableSpike(n, input[n]) : n \in Neurons})
    /\ firings = {}

\* A spike is integrated between the two beats it arrives between; one that arrives at
\* the very time of a beat comes after it.
Deliver(s) ==
    /\ beats[s.dest] = s.time \div Beat
    /\ neuron' = [neuron EXCEPT ![s.dest] = neuron_integrate(@, s.current)]
    /\ flight' = flight \ {s}
    /\ UNCHANGED <<beats, firings>>

NextBeat(n) == (beats[n] + 1) * Beat

CanBeat(n) ==
    /\ NextBeat(n) < End
    /\ \A m \in Neurons : beats[n] <= beats[m]
    /\ \A s \in flight : s.dest = n => s.time >= NextBeat(n)

TakeBeat(S) ==
    LET fire == {n \in S : leak_and_fire(neuron[n]).fired}
    IN  /\ \A n \in S : CanBeat(n)
        /\ beats' = [n \in Neurons |-> IF n \in S THEN beats[n] + 1 ELSE beats[n]]
        /\ neuron' = [n \in Neurons |->
                        IF n \in S THEN leak_and_fire(neuron[n]).neuron ELSE neuron[n]]
        /\ firings' = firings \cup {<<n, NextBeat(n)>> : n \in fire}
        /\ flight' = flight \cup Sent(UNION {send_spike(n, NextBeat(n)) : n \in fire})

Next ==
    \/ \E s \in flight : Deliver(s)
    \/ \E S \in (SUBSET Neurons) \ {{}} : TakeBeat(S)

\* Neurons keep taking their beats and spikes keep arriving until the end of the run.
Spec == Init /\ [][Next]_vars /\ WF_vars(Next)
=============================================================================
