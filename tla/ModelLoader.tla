------------------------------ MODULE ModelLoader ------------------------------
(***************************************************************************)
(* src/model-loaders/regular_io/load_neurons.c: a model file has neuron    *)
(* groups, connections between them and then, neuron by neuron, parameters *)
(* and weights.  A PE lays the network out by the calls of Layout, goes    *)
(* over the rest of the file once and puts in place what is for its own    *)
(* neurons.  A version 2 file has no weights for the connections of a      *)
(* convolution: they come from its kernel.                                 *)
(*                                                                         *)
(* What is read is a sequence of numbers, seven parameters being one and a *)
(* weight another; every synapse has a delay of 1 all along.  PEs do not   *)
(* wait for each other: the module follows the one called self.            *)
(***************************************************************************)
EXTENDS LayoutMaps, SynapseIterator

CONSTANTS
    Files,          \* [format, neuron_groups, synapse_groups, data], with what the file is
                    \* meant to say in params and in the groups' weights, and complete
                    \* unless its end is missing
    MAX_NEURON_GROUPS, MAX_SYNAPSE_GROUPS, g_tw_nkp

VARIABLES
    neuron_groups, synapse_groups, total_synapses, synapses, lps, phase,  \* of Layout
    file,
    self,
    conv_kernels,
    neurons,        \* the parameters of the neurons of self
    reader          \* the loop over them, and where in file.data it is

layout == <<neuron_groups, synapse_groups, total_synapses, lps>>
vars == <<layout, synapses, phase, file, self, conv_kernels, neurons, reader>>

Master == INSTANCE Layout WITH GroupSizes <- {}, Placements <- {}, FromRanges <- {},
                               ToRanges <- {}, ConvParams <- {}

AtStart == [i |-> 0, i_in_file |-> 0, cursor |-> 0, j |-> 0, group_ind |-> 0,
            num_groups_fully |-> 0, to_start_fully |-> 1, to_end_fully |-> 0, conv_ind |-> 1]

Init ==
    /\ Master!Init
    /\ file \in Files
    /\ self \in PEs
    /\ conv_kernels = <<>>
    /\ neurons = <<>>
    /\ reader = AtStart

-----------------------------------------------------------------------------
(* The header.  It is the same for all PEs.                                *)

LayingOut(groups_left) ==
    /\ phase = "defining"
    /\ groups_left <=> Len(neuron_groups) < Len(file.neuron_groups)
    /\ UNCHANGED <<file, self, neurons, reader>>

load_neuron_group ==
    /\ LayingOut(TRUE)
    /\ Master!layout_master_neurons(file.neuron_groups[Len(neuron_groups) + 1], <<0, tw_nnodes - 1>>)
    /\ UNCHANGED conv_kernels

load_synapse_group ==
    /\ LayingOut(FALSE)
    /\ file.neuron_groups # <<>>
    /\ Len(synapse_groups) < Len(file.synapse_groups)
    /\ LET g == file.synapse_groups[Len(synapse_groups) + 1]
       IN  \/ /\ g.conn_type = "all2all"
              /\ Master!layout_master_synapses_all2all(g.from, g.to)
              /\ UNCHANGED conv_kernels
           \/ /\ g.conn_type = "conv2"
              /\ Master!layout_master_synapses_conv2d(g.from, g.to, g.params)
              /\ conv_kernels' = Append(conv_kernels, g)
           \/ /\ g.conn_type = "unknown"
              /\ Master!tw_error
              /\ UNCHANGED conv_kernels

no_neuron_groups ==
    /\ LayingOut(FALSE)
    /\ file.neuron_groups = <<>>
    /\ Master!tw_error
    /\ UNCHANGED conv_kernels

\* Space for neurons and synapses. The synapses have what the layout's iterator gives
\* along with them: their place in the kernel, for those of a convolution.
init_layout ==
    /\ LayingOut(FALSE)
    /\ Len(synapse_groups) = Len(file.synapse_groups)
    /\ Master!layout_master_init
    /\ UNCHANGED conv_kernels

-----------------------------------------------------------------------------
(* The rest of the file, record by record.                                 *)

\* Past its end nothing can be read; whoever tries stops the program.
Cell(at) == IF at + 1 \in DOMAIN file.data THEN file.data[at + 1] ELSE 0
Readable(until) == until <= Len(file.data)

\* Where the record after the one at `at` starts. A jump needs the numbers that say how
\* far: where one of them is missing the place is past the end from there on.
NextRecord_OpenRange(at) ==
    IF file.format = 1 THEN at + 2 + Cell(at + 1)
    ELSE FoldLeft(LAMBDA group, k :
                     group + 2 + (IF Readable(group + 2) THEN Cell(group + 1) - Cell(group) ELSE 0),
                  at + 2, [k \in 1 .. Cell(at + 1) |-> k])
NextRecord(at) ==
    IF file.format = 1 THEN at + 2 + Cell(at + 1)
    ELSE FoldLeft(LAMBDA group, k :
                     group + 2 + (IF Readable(group + 2) THEN Cell(group + 1) - Cell(group) + 1 ELSE 0),
                  at + 2, [k \in 1 .. Cell(at + 1) |-> k])

Seek(doryta_id) ==
    FoldLeft(LAMBDA at, k : NextRecord(at), reader.cursor,
             [k \in 1 .. doryta_id - reader.i_in_file |-> k])

Own == synapses[self]
doryta_id == local_id_to_doryta_id_for_pe(neuron_groups, reader.i - 1, self)
NeuronDone == reader.i \in DOMAIN Own => reader.j >= Len(Own[reader.i])

cannot_load ==
    /\ phase' = "stopped"
    /\ UNCHANGED <<layout, synapses, file, self, conv_kernels, neurons, reader>>

\* The synapses of the neuron in hand from the first-th on take the n weights at `at`.
TakeWeights(i, first, n, at) ==
    synapses' = [synapses EXCEPT ![self][i] =
        [k \in DOMAIN @ |-> IF k \in first .. first + n - 1
                            THEN [@[k] EXCEPT !.weight = Cell(at + k - first)] ELSE @[k]]]

Reading == phase = "initialized" /\ UNCHANGED <<layout, file, self, conv_kernels>>

load_v1_neuron ==
    /\ Reading /\ file.format = 1
    /\ reader.i < Len(Own)
    /\ LET i   == reader.i + 1
           d   == local_id_to_doryta_id_for_pe(neuron_groups, i - 1, self)
           at  == Seek(d)
           num == Cell(at + 1)
       IN  IF Readable(at + 2 + num)
           THEN /\ neurons' = Append(neurons, Cell(at))
                /\ TakeWeights(i, 1, num, at + 2)
                /\ reader' = [reader EXCEPT !.i = i, !.i_in_file = d + 1, !.j = num,
                                            !.cursor = at + 2 + num]
                /\ UNCHANGED phase
           ELSE cannot_load

\* The range of the next group that is stored in full, if the neuron has one more.
WithGroup(r, at) ==
    IF r.group_ind < r.num_groups_fully
    THEN [r EXCEPT !.to_start_fully = Cell(at), !.to_end_fully = Cell(at + 1), !.cursor = at + 2]
    ELSE [r EXCEPT !.cursor = at]

load_v2_neuron ==
    /\ Reading /\ file.format = 2
    /\ NeuronDone /\ reader.i < Len(Own)
    /\ LET d  == local_id_to_doryta_id_for_pe(neuron_groups, reader.i, self)
           at == Seek(d)
           r  == WithGroup([AtStart EXCEPT !.i = reader.i + 1, !.i_in_file = d + 1,
                                           !.num_groups_fully = Cell(at + 1)], at + 2)
       IN  IF Readable(r.cursor)
           THEN neurons' = Append(neurons, Cell(at)) /\ reader' = r /\ UNCHANGED <<synapses, phase>>
           ELSE cannot_load

to_id == gid_to_doryta_id(neuron_groups, Own[reader.i][reader.j + 1].gid_to_send)

StartsFullGroup_AnyTime == to_id = reader.to_start_fully
StartsFullGroup == reader.group_ind < reader.num_groups_fully /\ to_id = reader.to_start_fully
num_synapses_group == reader.to_end_fully - reader.to_start_fully + 1

\* All of the group's weights at once.
load_full_group ==
    /\ Reading /\ ~ NeuronDone
    /\ StartsFullGroup
    /\ LET past == reader.cursor + num_synapses_group
           r    == WithGroup([reader EXCEPT !.j = @ + num_synapses_group, !.group_ind = @ + 1], past)
       IN  IF Readable(r.cursor)
           THEN /\ TakeWeights(reader.i, reader.j + 1, num_synapses_group, reader.cursor)
                /\ reader' = r
                /\ UNCHANGED <<neurons, phase>>
           ELSE cannot_load

\* The convolutions from the last one used on that are between two neurons.
ConvsBetween_SourceOnly(from, to) ==
    {c \in reader.conv_ind .. Len(conv_kernels) :
        /\ conv_kernels[c].from[1] <= from /\ from <= conv_kernels[c].from[2]}
ConvsBetween(from, to) ==
    {c \in reader.conv_ind .. Len(conv_kernels) :
        /\ conv_kernels[c].from[1] <= from /\ from <= conv_kernels[c].from[2]
        /\ conv_kernels[c].to[1] <= to /\ to <= conv_kernels[c].to[2]}

kernel_id == Own[reader.i][reader.j + 1].weight
kernel_size(g) == g.params.kernel_height * g.params.kernel_width

\* Outside of the kernel C reads whatever is there; LoaderAsserts says it does not get there.
KernelValue(g, at) == IF at \in 0 .. kernel_size(g) - 1 THEN g.weights[at + 1] ELSE 0

load_conv_synapse ==
    /\ Reading /\ ~ NeuronDone
    /\ ~ StartsFullGroup
    /\ LET convs == ConvsBetween(doryta_id, to_id)
       IN  IF convs # {}
           THEN /\ synapses' = [synapses EXCEPT ![self][reader.i][reader.j + 1].weight =
                                    KernelValue(conv_kernels[Min(convs)], @)]
                /\ reader' = [reader EXCEPT !.j = @ + 1, !.conv_ind = Min(convs)]
                /\ UNCHANGED <<neurons, phase>>
           ELSE cannot_load      \* "The synapse could not be stored."

Next ==
    \/ load_neuron_group \/ load_synapse_group \/ no_neuron_groups \/ init_layout
    \/ load_v1_neuron
    \/ load_v2_neuron \/ load_full_group \/ load_conv_synapse

Spec == Init /\ [][Next]_vars

-----------------------------------------------------------------------------
(* What a file is meant to say.                                            *)

\* The weight the file has for the synapse of its g-th group between two neurons.
Meant(g, from, to) ==
    LET group == file.synapse_groups[g]
    IN  IF group.conn_type = "all2all" THEN group.weights[from][to]
        ELSE group.weights[1 + CHOOSE at \in Master!KernelOver(synapse_groups[g], from, to) : TRUE]

\* The weights of a neuron in the order of its synapses.
MeantFor(from) ==
    FoldLeft(LAMBDA ws, g :
                IF ~ InFrom(synapse_groups[g], from) THEN ws
                ELSE LET targets == Master!Wanted(synapse_groups[g], from)
                     IN  ws \o [k \in DOMAIN targets |-> Meant(g, from, targets[k].to)],
             <<>>, [g \in DOMAIN synapse_groups |-> g])

Overlap(r, q) == r[1] <= q[2] /\ q[1] <= r[2]

\* The target of a connection tells which of the neuron's groups it is from: no two
\* convolutions from a neuron to another, and no later full group from it that starts
\* within the output of a convolution.
Unambiguous ==
    \A g, h \in DOMAIN file.synapse_groups :
        LET conv == file.synapse_groups[g]
            next == file.synapse_groups[h]
        IN  g < h /\ conv.conn_type = "conv2" /\ Overlap(conv.from, next.from) =>
                ~ Overlap(conv.to, IF next.conn_type = "conv2" THEN next.to
                                   ELSE <<next.to[1], next.to[1]>>)

Loaded == IF NeuronDone THEN reader.i ELSE reader.i - 1

\* load_neurons.c:121-148, 283-385. One pass over the file gives every neuron of the PE
\* its own parameters, and every synapse the weight the file has for the connection it
\* comes from - also after the records of other PEs were skipped.
WeightsAsStored ==
    phase = "initialized" /\ Unambiguous =>
        \A i \in 1 .. Loaded :
            LET d == local_id_to_doryta_id_for_pe(neuron_groups, i - 1, self)
            IN  /\ neurons[i] = file.params[d + 1]
                /\ [k \in DOMAIN Own[i] |-> Own[i][k].weight] = MeantFor(d)

\* load_neurons.c:137, 335, 371. The weights that are read together go to as many
\* synapses, one after the other, with just these targets; and what a synapse of a
\* convolution has as its weight until then is a place within the kernel that is used.
LoaderAsserts ==
    phase = "initialized" /\ Unambiguous =>
        /\ file.format = 1 /\ reader.i > 0 => reader.j = Len(Own[reader.i])
        /\ ~ NeuronDone =>
              IF StartsFullGroup
              THEN \A k \in 0 .. num_synapses_group - 1 :
                      /\ reader.j + 1 + k \in DOMAIN Own[reader.i]
                      /\ gid_to_doryta_id(neuron_groups, Own[reader.i][reader.j + 1 + k].gid_to_send)
                            = reader.to_start_fully + k
              ELSE LET convs == ConvsBetween(doryta_id, to_id)
                   IN  convs # {} => kernel_id \in 0 .. kernel_size(conv_kernels[Min(convs)]) - 1

\* load_neurons.c:381-384; io.h:29-41. A file that is complete and says where each
\* weight belongs is loaded: no synapse "could not be stored", and nothing is looked for
\* past the end of the file.
LoadsCompleteFiles ==
    phase = "stopped" /\ Own # <<>> => ~ Unambiguous \/ ~ file.complete
=============================================================================
