------------------------------ MODULE LayoutMaps ------------------------------
(***************************************************************************)
(* Where the neurons live: how src/layout/master.c spreads the neuron      *)
(* groups over the PEs, and the conversions between a doryta id (the order *)
(* of definition), a gid (PE times the widest PE, plus local id) and a     *)
(* local id.  Every PE has the same list of groups and works out the rest  *)
(* for itself or for another PE with the same formulas.                    *)
(***************************************************************************)
EXTENDS Integers, Sequences, SequencesExt, FiniteSetsExt

CONSTANT tw_nnodes      \* the number of PEs

ASSUME NodesAssumption == tw_nnodes \in Nat \ {0}

PEs == 0 .. tw_nnodes - 1

ceil(x, y) == -((-x) \div y)   \* of the quotient of x and y

SumOver(groups, of(_)) == FoldLeft(LAMBDA sum, g : sum + of(g), 0, groups)

TotalNeurons(groups) == SumOver(groups, LAMBDA g : g.num_neurons)

\* From initial_pe to final_pe, around the end of the numbering if need be.
neuron_group(groups, num_neurons, initial_pe, final_pe) ==
    [num_neurons |-> num_neurons, initial_pe |-> initial_pe, final_pe |-> final_pe,
     total_pes |-> IF initial_pe <= final_pe THEN final_pe - initial_pe + 1
                   ELSE tw_nnodes - (initial_pe - final_pe - 1),
     global_neuron_offset |-> TotalNeurons(groups)]

pe_inside_range(g, pe) ==
    IF g.initial_pe <= g.final_pe THEN g.initial_pe <= pe /\ pe <= g.final_pe
                                  ELSE g.initial_pe <= pe \/ pe <= g.final_pe

index_within_range_NoWrap(g, pe) == IF g.initial_pe <= pe THEN pe - g.initial_pe ELSE pe
index_within_range(g, pe) ==
    IF g.initial_pe <= pe THEN pe - g.initial_pe ELSE pe + (tw_nnodes - g.initial_pe)

remainder_neurons(g) == g.num_neurons % g.total_pes

\* The first PEs of the range take one of the neurons that are left over each.
neurons_in_pe(g, pe) ==
    IF ~ pe_inside_range(g, pe) THEN 0
    ELSE g.num_neurons \div g.total_pes
            + (IF index_within_range(g, pe) < remainder_neurons(g) THEN 1 ELSE 0)

doryta_id_offset_InGroup(g, pe) ==
    index_within_range(g, pe) * (g.num_neurons \div g.total_pes)
        + Min({index_within_range(g, pe), remainder_neurons(g)})
doryta_id_offset(g, pe) ==
    g.global_neuron_offset
        + index_within_range(g, pe) * (g.num_neurons \div g.total_pes)
        + Min({index_within_range(g, pe), remainder_neurons(g)})

max_num_neurons_per_pe(groups) ==
    SumOver(groups, LAMBDA g : ceil(g.num_neurons, g.total_pes))

\* The neurons of pe that belong to the groups before the level-th.
local_offset_for_level_in_pe(groups, pe, level) ==
    SumOver(SubSeq(groups, 1, level - 1), LAMBDA g : neurons_in_pe(g, pe))

total_neurons_in_pe(groups, pe) ==
    local_offset_for_level_in_pe(groups, pe, Len(groups) + 1)

\* The neurons of pe in the order in which master_init_neurons fills its arrays.
LocalNeurons(groups, pe) ==
    FoldLeft(LAMBDA ids, g : ids \o [j \in 1 .. neurons_in_pe(g, pe) |->
                                        doryta_id_offset(g, pe) + j - 1],
             <<>>, groups)

-----------------------------------------------------------------------------
\* The PE of a group's neuron, and the place it has among the group's neurons there.
group_spot(g, doryta_id) ==
    LET per    == g.num_neurons \div g.total_pes
        within == doryta_id - g.global_neuron_offset
        past   == within - (per + 1) * remainder_neurons(g)
        index  == IF past < 0 THEN within \div (per + 1)
                  ELSE remainder_neurons(g) + past \div per
    IN  [pe     |-> (index + g.initial_pe) % tw_nnodes,
         offset |-> IF past < 0 THEN within % (per + 1) ELSE past % per]

doryta_id_to_gid(groups, doryta_id) ==
    LET level  == Min({l \in DOMAIN groups :
                        doryta_id < groups[l].global_neuron_offset + groups[l].num_neurons})
        spot   == group_spot(groups[level], doryta_id)
    IN  spot.pe * max_num_neurons_per_pe(groups)
            + local_offset_for_level_in_pe(groups, spot.pe, level) + spot.offset

gid_to_pe(groups, gid) == gid \div max_num_neurons_per_pe(groups)

pe_gid_offset(groups, pe) == pe * max_num_neurons_per_pe(groups)

doryta_id_to_pe(groups, doryta_id) == gid_to_pe(groups, doryta_id_to_gid(groups, doryta_id))

\* As called on the PE the neuron lives on.
doryta_id_to_local_id(groups, doryta_id) ==
    doryta_id_to_gid(groups, doryta_id)
        - pe_gid_offset(groups, doryta_id_to_pe(groups, doryta_id))

\* -1 where the code stops the program: pe has no such neuron.
local_id_to_doryta_id_for_pe(groups, id, pe) ==
    LET levels == {l \in DOMAIN groups : id < local_offset_for_level_in_pe(groups, pe, l + 1)}
        level  == Min(levels)
    IN  IF levels = {} THEN -1
        ELSE doryta_id_offset(groups[level], pe)
                + id - local_offset_for_level_in_pe(groups, pe, level)

gid_to_doryta_id(groups, gid) ==
    local_id_to_doryta_id_for_pe(groups, gid % max_num_neurons_per_pe(groups),
                                 gid_to_pe(groups, gid))
=============================================================================
