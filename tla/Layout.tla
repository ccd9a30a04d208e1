-------------------------------- MODULE Layout --------------------------------
(***************************************************************************)
(* src/layout/master.c: a model is laid out by calls that define groups of *)
(* neurons and connect ranges of them, then memory is allocated and filled *)
(* by layout_master_init, and ROSS is told which LPs each PE has.  Every   *)
(* PE makes the same calls and only keeps what is its own; the module      *)
(* keeps what all of them have, one entry per PE.                          *)
(***************************************************************************)
EXTENDS LayoutMaps, SynapseIterator

CONSTANTS
    MAX_NEURON_GROUPS, MAX_SYNAPSE_GROUPS,
    g_tw_nkp,                   \* KPs per PE, an option of ROSS
    \* The inputs considered.
    GroupSizes, Placements,     \* total_neurons, <<initial_pe, final_pe>>
    FromRanges, ToRanges,       \* <<start, end>>
    ConvParams                  \* struct Conv2dParams

\* Sizes count neurons (the code takes a signed number and does not test it), the
\* numbers of PEs are unsigned, and ROSS has a KP at least.
ASSUME LayoutAssumption ==
    /\ GroupSizes \subseteq Nat /\ Placements \subseteq Nat \X Nat /\ g_tw_nkp \in Nat \ {0}
    /\ FromRanges \subseteq Int \X Int /\ ToRanges \subseteq Int \X Int
    /\ ConvParams \subseteq Conv2dParams

VARIABLES
    neuron_groups,      \* what all PEs agree on of each group
    synapse_groups,
    total_synapses,     \* per PE, the synapses to allocate
    synapses,           \* per PE and local id, the synapses laid down
    lps,                \* per PE, its LPs as ROSS knows them
    phase               \* how far the set-up has come; "stopped" is tw_error

vars == <<neuron_groups, synapse_groups, total_synapses, synapses, lps, phase>>

Init ==
    /\ neuron_groups = <<>>
    /\ synapse_groups = <<>>
    /\ total_synapses = [pe \in PEs |-> 0]
    /\ synapses = [pe \in PEs |-> <<>>]
    /\ lps = [pe \in PEs |-> <<>>]
    /\ phase = "defining"

tw_error ==
    /\ phase' = "stopped"
    /\ UNCHANGED <<neuron_groups, synapse_groups, total_synapses, synapses, lps>>

-----------------------------------------------------------------------------
MayDefine(place) ==
    /\ place[1] < tw_nnodes /\ place[2] < tw_nnodes
    /\ Len(neuron_groups) < MAX_NEURON_GROUPS

WithNeurons(size, place) ==
    Append(neuron_groups, neuron_group(neuron_groups, size, place[1], place[2]))

layout_master_neurons(size, place) ==
    /\ phase = "defining"
    /\ IF MayDefine(place)
       THEN /\ neuron_groups' = WithNeurons(size, place)
            /\ UNCHANGED <<synapse_groups, total_synapses, synapses, lps, phase>>
       ELSE tw_error

\* The neurons of pe within a range of doryta ids.
neurons_within_pe_LatestGroup(groups, pe, start, end) ==
    LET g     == Last(groups)
        first == Max({start, doryta_id_offset(g, pe)})
        last  == Min({end, doryta_id_offset(g, pe) + neurons_in_pe(g, pe) - 1})
    IN  IF first <= last THEN last - first + 1 ELSE 0
neurons_within_pe(groups, pe, start, end) ==
    IF tw_nnodes = 1 THEN end - start + 1
    ELSE SumOver(groups, LAMBDA g :
            LET first == Max({start, doryta_id_offset(g, pe)})
                last  == Min({end, doryta_id_offset(g, pe) + neurons_in_pe(g, pe) - 1})
            IN  IF first <= last THEN last - first + 1 ELSE 0)

ValidRange(groups, start, end) == 0 <= start /\ start <= end /\ end < TotalNeurons(groups)

check_from_to_inputs(groups, from, to) ==
    /\ Len(synapse_groups) < MAX_SYNAPSE_GROUPS
    /\ ValidRange(groups, from[1], from[2])
    /\ ValidRange(groups, to[1], to[2])

\* A synapse group joins, given the neuron groups there are by then.
Connect(groups, g) ==
    /\ synapse_groups' = Append(synapse_groups, g)
    /\ total_synapses' = [pe \in PEs |->
            total_synapses[pe]
                + neurons_within_pe(groups, pe, g.from_start, g.from_end) * SynapsesPerNeuron(g)]
    /\ UNCHANGED <<synapses, lps, phase>>

layout_master_synapses_all2all(from, to) ==
    LET g == all2all_group(from[1], from[2], to[1], to[2])
    IN  /\ phase = "defining"
        /\ IF check_from_to_inputs(neuron_groups, from, to)
           THEN Connect(neuron_groups, g) /\ UNCHANGED neuron_groups
           ELSE tw_error

layout_master_synapses_conv2d(from, to, params) ==
    LET g == conv2d_group(from[1], from[2], to[1], to[2], params)
    IN  /\ phase = "defining"
        /\ IF /\ check_from_to_inputs(neuron_groups, from, to)
              /\ check_params(params) /\ ShapesMatch(g)
           THEN Connect(neuron_groups, g) /\ UNCHANGED neuron_groups
           ELSE tw_error

\* A new group connected to itself.
layout_std_fully_connected_network(size, place) ==
    LET start  == TotalNeurons(neuron_groups)
        groups == WithNeurons(size, place)
        new    == <<start, start + size - 1>>
    IN  /\ phase = "defining"
        /\ IF MayDefine(place) /\ check_from_to_inputs(groups, new, new)
           THEN Connect(groups, all2all_group(new[1], new[2], new[1], new[2])) /\ neuron_groups' = groups
           ELSE tw_error

\* A new group, and the latest one connected to it.
layout_std_fully_connected_layer(size, place) ==
    LET last   == Last(neuron_groups)
        start  == TotalNeurons(neuron_groups)
        groups == WithNeurons(size, place)
        old    == <<last.global_neuron_offset, last.global_neuron_offset + last.num_neurons - 1>>
        new    == <<start, start + size - 1>>
    IN  /\ phase = "defining"
        /\ neuron_groups # <<>>
        /\ IF MayDefine(place) /\ check_from_to_inputs(groups, old, new)
           THEN Connect(groups, all2all_group(old[1], old[2], new[1], new[2])) /\ neuron_groups' = groups
           ELSE tw_error

-----------------------------------------------------------------------------
\* The synapses of one neuron as master_init_neurons writes them down.
SynapsesOf(doryta_id) ==
    LET ids == synapse_iter(synapse_groups, doryta_id)
    IN  [i \in DOMAIN ids |->
            [gid_to_send |-> doryta_id_to_gid(neuron_groups, ids[i].to),
             weight |-> ids[i].conn_parameter]]

layout_master_init ==
    /\ phase = "defining" /\ neuron_groups # <<>>
    /\ synapses' = [pe \in PEs |->
            LET local == LocalNeurons(neuron_groups, pe)
            IN  [i \in DOMAIN local |-> SynapsesOf(local[i])]]
    /\ phase' = "initialized"
    /\ UNCHANGED <<neuron_groups, synapse_groups, total_synapses, lps>>

\* The mapping ROSS calls back for on every PE: LPs in order of local id, in equal
\* shares per KP. A PE without neurons stops the program.
map_pseudo_linear ==
    /\ phase = "initialized"
    /\ IF \E pe \in PEs : total_neurons_in_pe(neuron_groups, pe) = 0
       THEN tw_error
       ELSE /\ lps' = [pe \in PEs |->
                  LET nlp == total_neurons_in_pe(neuron_groups, pe)
                  IN  [i \in 1 .. nlp |->
                        [gid |-> pe_gid_offset(neuron_groups, pe) + i - 1,
                         kp  |-> (i - 1) \div divceil_i32(nlp, g_tw_nkp)]]]
            /\ phase' = "mapped"
            /\ UNCHANGED <<neuron_groups, synapse_groups, total_synapses, synapses>>

layout_master_free ==
    /\ phase = "mapped"
    /\ synapses' = [pe \in PEs |-> <<>>]
    /\ phase' = "freed"
    /\ UNCHANGED <<neuron_groups, synapse_groups, total_synapses, lps>>

Next ==
    \/ \E size \in GroupSizes, place \in Placements :
          \/ layout_master_neurons(size, place)
          \/ layout_std_fully_connected_network(size, place)
          \/ layout_std_fully_connected_layer(size, place)
    \/ \E from \in FromRanges, to \in ToRanges :
          \/ layout_master_synapses_all2all(from, to)
          \/ \E params \in ConvParams : layout_master_synapses_conv2d(from, to, params)
    \/ layout_master_init
    \/ map_pseudo_linear
    \/ layout_master_free

Spec == Init /\ [][Next]_vars

-----------------------------------------------------------------------------
Neuron(pe, i) == LocalNeurons(neuron_groups, pe)[i]
LaidDown == phase \in {"initialized", "mapped"}

\* master.c:651-797, 805-860. The conversions are inverse to each other; they put every
\* neuron on the PE, and at the index, where that PE has allocated it and where ROSS has
\* its LP; and there are no LPs but these.
IdMapsAgree ==
    phase = "mapped" =>
        /\ \A d \in 0 .. TotalNeurons(neuron_groups) - 1 :
              LET gid   == doryta_id_to_gid(neuron_groups, d)
                  pe    == gid_to_pe(neuron_groups, gid)
                  local == doryta_id_to_local_id(neuron_groups, d)
              IN  /\ pe \in PEs /\ local + 1 \in DOMAIN lps[pe]
                  /\ lps[pe][local + 1].gid = gid
                  /\ Neuron(pe, local + 1) = d
                  /\ gid_to_doryta_id(neuron_groups, gid) = d
        /\ \A pe \in PEs : \A i \in DOMAIN lps[pe] :
              /\ gid_to_doryta_id(neuron_groups, lps[pe][i].gid) = Neuron(pe, i)
              /\ lps[pe][i].kp < g_tw_nkp

\* load_neurons.c:108-109, 273-274. Within a PE the doryta ids ascend with the local ids,
\* which is what lets the loaders read their file in one pass.
LocalOrder ==
    \A pe \in PEs :
        LET local == LocalNeurons(neuron_groups, pe)
        IN  \A i, j \in DOMAIN local : i < j => local[i] < local[j]

\* master.c:423. Every PE has allocated room for the synapses it lays down, though it
\* counted them before, one synapse group at a time.
SynapsesFit ==
    LaidDown => \A pe \in PEs :
        SumOver(synapses[pe], Len) <= total_synapses[pe]

\* The kernel position that lies over input cell d when a convolution is applied for the
\* output cell `to`, if any does.
KernelOver(g, d, to) ==
    LET c == g.params
        in  == d - g.from_start
        out == to - g.to_start
        over == {p \in (0 .. c.kernel_height - 1) \X (0 .. c.kernel_width - 1) :
                    /\ (out \div g.to_width) * c.stride_height + p[1] - c.padding_height
                         = in \div c.input_width
                    /\ (out % g.to_width) * c.stride_width + p[2] - c.padding_width
                         = in % c.input_width}
    IN  {p[1] * c.kernel_width + p[2] : p \in over}

\* What g calls for from d, by ascending target.
Wanted(g, d) ==
    LET width  == g.to_end - g.to_start + 1
        over   == [k \in 1 .. width |-> IF g.conn_type = "conv2"
                                        THEN KernelOver(g, d, g.to_start + k - 1) ELSE {}]
        called == {k \in 1 .. width : g.conn_type = "conv2" => over[k] # {}}
        kept   == Ascending(called, width)
    IN  [i \in DOMAIN kept |-> [to |-> g.to_start + kept[i] - 1, kernel |-> over[kept[i]]]]

\* master.c:249-357, master.h:43-51. The synapses of a neuron are those its groups call
\* for, group after group and by ascending target, the order the loaders read weights
\* in; each one of a convolution comes with its place in the kernel.
SynapsesAsMeant ==
    LaidDown => \A pe \in PEs : \A i \in DOMAIN synapses[pe] :
        LET d    == Neuron(pe, i)
            laid == synapses[pe][i]
            want == FoldLeft(LAMBDA s, g : s \o (IF InFrom(g, d) THEN Wanted(g, d) ELSE <<>>),
                             <<>>, synapse_groups)
        IN  /\ DOMAIN laid = DOMAIN want
            /\ \A k \in DOMAIN want :
                  /\ gid_to_doryta_id(neuron_groups, laid[k].gid_to_send) = want[k].to
                  /\ want[k].kernel # {} => want[k].kernel = {laid[k].weight}

\* master.h:46-48. A convolution is only accepted between layers of matching sizes: the
\* kernel fits the input and there is an output.
ShapesPositive ==
    \A g \in ToSet(synapse_groups) :
        g.conn_type = "conv2" => g.to_width > 0 /\ g.to_height > 0

\* master.c:213-224. What the iterator gives along with a connection of a convolution is
\* the position of its weight in the kernel matrix.
KernelPositions ==
    LaidDown /\ (\A g \in ToSet(synapse_groups) : g.conn_type = "conv2") =>
        \A pe \in PEs : \A i \in DOMAIN synapses[pe] : \A k \in DOMAIN synapses[pe][i] :
            LET s == synapses[pe][i][k]
            IN  \E g \in ToSet(synapse_groups) :
                    /\ InFrom(g, Neuron(pe, i))
                    /\ g.conn_type = "conv2"
                    /\ s.weight \in 0 .. g.params.kernel_width * g.params.kernel_height - 1
=============================================================================
