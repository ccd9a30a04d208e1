------------------------------ MODULE GameOfLife ------------------------------
(***************************************************************************)
(* The built-in model of src/model-loaders/hardcoded/gameoflife.c, run by  *)
(* the network that the driver amounts to: a board cell fires if it is     *)
(* alive; a beat later its life and kill cells have counted the cells      *)
(* around it; another beat later the board cell fires if it is to live.    *)
(*                                                                         *)
(* Weights, potentials and thresholds are in tenths.  tau_m is the beat,   *)
(* so a leak leaves a neuron with its current for potential.               *)
(***************************************************************************)
EXTENDS SpikingNetwork, SynapseIterator, LifNeuron

CONSTANT width_world

ASSUME WidthAssumption == width_world \in Nat \ {0} /\ LeakNum = LeakDen

size_world == width_world * width_world

Board == 0 .. size_world - 1
GoLNeurons == 0 .. 3 * size_world - 1

\* Alive with one spike, born or kept with three, killed with four.
initialize_LIF(doryta_id) ==
    [potential |-> 0, current |-> 0, resting_potential |-> 0, reset_potential |-> 0,
     threshold |-> IF doryta_id < size_world THEN 9
                   ELSE IF doryta_id < 2 * size_world THEN 29 ELSE 39,
     resistance |-> 1]

initialize_weight_neurons_CountsItself(neuron_from, neuron_to) ==
    IF neuron_from < 2 * size_world THEN 10 ELSE -10
\* A kill cell does not count the board cell it stands for.
initialize_weight_neurons(neuron_from, neuron_to) ==
    IF neuron_from < size_world
    THEN IF neuron_to - 2 * size_world = neuron_from THEN 0 ELSE 10
    ELSE IF neuron_from < 2 * size_world THEN 10 ELSE -10

Square(kernel, padding) ==
    [input_width |-> width_world, kernel_width |-> kernel, kernel_height |-> kernel,
     padding_width |-> padding, padding_height |-> padding,
     stride_width |-> 1, stride_height |-> 1]

\* From layer to layer: the board, the life cells, the kill cells.
Between(from, to, params) ==
    conv2d_group(from * size_world, (from + 1) * size_world - 1,
                 to * size_world, (to + 1) * size_world - 1, params)

GoLSynapseGroups ==
    << Between(0, 1, Square(3, 1)), Between(0, 2, Square(3, 1)),
       Between(1, 0, Square(1, 0)), Between(2, 0, Square(1, 0)) >>

GoLSynapses ==
    [n \in GoLNeurons |->
        LET ids == synapse_iter(GoLSynapseGroups, n)
        IN  [i \in DOMAIN ids |->
                [to |-> ids[i].to, weight |-> initialize_weight_neurons(n, ids[i].to),
                 delay |-> 1]]]

GoLInitialNeuron == [n \in GoLNeurons |-> initialize_LIF(n)]

\* Any board, given as one spike in the first beat for every cell that is alive.
GoLSpikeInputs ==
    { [n \in GoLNeurons |-> IF n \in alive THEN <<[time |-> 1, intensity |-> 10]>> ELSE <<>>] :
        alive \in SUBSET Board }

\* Spikes only add to a current, so the order in which those of a beat are delivered, and
\* the order in which the neurons take the beat, make no difference: one will do.
GoLNext ==
    \/ flight # {} /\ Deliver(CHOOSE s \in flight : TRUE)
    \/ flight = {} /\ TakeBeat(Neurons)

GoLSpec == Init /\ [][GoLNext]_vars

-----------------------------------------------------------------------------
\* The board as it last showed, once all neurons have taken the beat: what fired at the
\* last odd one, or else what the first spikes are for.
Shown ==
    LET b    == CHOOSE b \in {beats[n] : n \in Neurons} : \A n \in Neurons : b <= beats[n]
        last == IF b % 2 = 1 THEN b ELSE b - 1
    IN  IF b = 0
        THEN {c \in Board : \/ neuron[c].current > 0
                            \/ \E s \in flight : s.dest = c
                            \/ <<c, Beat>> \in firings}
        ELSE {c \in Board : <<c, last * Beat>> \in firings}

\* README.md:70-75, gameoflife.c:12-18, 42-54. Every two beats the board makes one step of
\* the Game of Life, from any board, edges and corners included.
Conway == INSTANCE Life WITH Width <- width_world, alive <- Shown
ImplementsLife == Conway!Spec
=============================================================================
