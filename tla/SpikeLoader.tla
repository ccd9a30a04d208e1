----------------------------- MODULE SpikeLoader ------------------------------
(***************************************************************************)
(* The input spikes: read from a file of either format by                  *)
(* src/model-loaders/regular_io/load_spikes.c, or drawn at random by       *)
(* hardcoded/random_spikes.c.  Every PE goes over all of the file and      *)
(* keeps the spikes of its own neurons in one stretch of memory, an array  *)
(* per neuron that ends with the first zero; the driver reads it from      *)
(* there (driver_neuron_init).                                             *)
(***************************************************************************)
EXTENDS LayoutMaps

CONSTANTS
    Layouts,    \* the neuron groups there may be, one after the other
    Sources     \* what may be loaded: [format, entries] of a file, with [neuron, times]
                \* for each entry, or [format |-> "random", lucky, until, time]

\* Groups defined one after the other, each on a range of PEs.
Built(groups) ==
    /\ groups \in Seq([num_neurons : Nat, initial_pe : PEs, final_pe : PEs, total_pes : Int,
                       global_neuron_offset : Nat])
    /\ \A l \in DOMAIN groups :
          groups[l] = neuron_group(SubSeq(groups, 1, l - 1), groups[l].num_neurons,
                                   groups[l].initial_pe, groups[l].final_pe)

Entry == [neuron : Nat, times : Seq(Nat)]

\* A file names neurons of the model, none of them twice; in format 1 they have one
\* spike each.
WellFormed(s) ==
    \/ s.format = "random"
    \/ /\ s.format \in {"1", "2"}
       /\ s.entries \in Seq(Entry)
       /\ \A k, m \in DOMAIN s.entries : s.entries[k].neuron = s.entries[m].neuron => k = m
       /\ s.format = "1" => \A k \in DOMAIN s.entries : Len(s.entries[k].times) = 1
       /\ \A groups \in Layouts, k \in DOMAIN s.entries :
             s.entries[k].neuron < TotalNeurons(groups)

ASSUME SpikesAssumption ==
    /\ \A groups \in Layouts : Built(groups)
    /\ \A s \in Sources : WellFormed(s)

VARIABLES
    neuron_groups,
    source,
    i,              \* per PE, the iterations its loop has made
    j,              \* per PE, what it has used of the memory (in format 1, in halves)
    naked_spikes,   \* per PE, the memory
    spikes          \* per PE and local id, where in it the neuron's array starts

vars == <<neuron_groups, source, i, j, naked_spikes, spikes>>

NULL == -1
Zeroed == [neuron |-> 0, time |-> 0, intensity |-> 0]   \* by calloc

total_spikes == FoldLeft(LAMBDA sum, e : sum + Len(e.times), 0, source.entries)

spikes_in_pe_PerSpike(pe) == total_spikes
\* Format 2 has a zero for each of its neurons; it may name more than the PE has.
spikes_in_pe(pe) ==
    total_spikes + Min({Len(source.entries), total_neurons_in_pe(neuron_groups, pe)})

\* What calloc is asked for.
Room(pe) == CASE source.format = "1" -> 2 * total_spikes
              [] source.format = "2" -> spikes_in_pe(pe)
              [] source.format = "random" -> 2 * total_neurons_in_pe(neuron_groups, pe)

Init ==
    /\ neuron_groups \in Layouts
    /\ source \in Sources
    /\ i = [pe \in PEs |-> 0]
    /\ j = [pe \in PEs |-> 0]
    /\ naked_spikes = [pe \in PEs |-> [a \in 0 .. Room(pe) - 1 |-> Zeroed]]
    /\ spikes = [pe \in PEs |->
                    [id \in 0 .. total_neurons_in_pe(neuron_groups, pe) - 1 |-> NULL]]

\* A neuron's array is written from start on. Outside of the room, memory grows: what C
\* would do there is not defined, and RoomSuffices says that it does not happen.
Write(pe, local_id, start, neuron, times) ==
    LET new == [a \in start .. start + Len(times) - 1 |->
                    [neuron |-> neuron, time |-> times[a - start + 1], intensity |-> 1]]
    IN  /\ spikes' = [spikes EXCEPT ![pe][local_id] = start]
        /\ naked_spikes' = [naked_spikes EXCEPT ![pe] =
                [a \in DOMAIN @ \cup DOMAIN new |-> IF a \in DOMAIN new THEN new[a] ELSE @[a]]]

Iterate(pe) == i' = [i EXCEPT ![pe] = @ + 1] /\ UNCHANGED <<neuron_groups, source>>
Skip == UNCHANGED <<j, naked_spikes, spikes>>

InPE(neuron, pe) == doryta_id_to_pe(neuron_groups, neuron) = pe

load_format_1(pe) ==
    /\ source.format = "1" /\ i[pe] < Len(source.entries)
    /\ LET e == source.entries[i[pe] + 1]
       IN  IF InPE(e.neuron, pe)
           THEN /\ Write(pe, doryta_id_to_local_id(neuron_groups, e.neuron), 2 * j[pe],
                         e.neuron, e.times)
                /\ j' = [j EXCEPT ![pe] = @ + 1]
           ELSE Skip
    /\ Iterate(pe)

\* One extra empty spike ends the array.
Advance_NoGap(num_spikes) == num_spikes
Advance(num_spikes) == num_spikes + 1

load_format_2(pe) ==
    /\ source.format = "2" /\ i[pe] < Len(source.entries)
    /\ LET e == source.entries[i[pe] + 1]
       IN  IF InPE(e.neuron, pe)
           THEN /\ Write(pe, doryta_id_to_local_id(neuron_groups, e.neuron), j[pe],
                         e.neuron, e.times)
                /\ j' = [j EXCEPT ![pe] = @ + Advance(Len(e.times))]
           ELSE Skip
    /\ Iterate(pe)

\* The generator is seeded with the doryta id: `lucky` are the ids for which it is
\* within the probability.
model_random_spikes_init(pe) ==
    /\ source.format = "random" /\ i[pe] < total_neurons_in_pe(neuron_groups, pe)
    /\ LET doryta_id == local_id_to_doryta_id_for_pe(neuron_groups, i[pe], pe)
       IN  IF doryta_id < source.until /\ doryta_id \in source.lucky
           THEN Write(pe, i[pe], 2 * i[pe], doryta_id, <<source.time>>) /\ UNCHANGED j
           ELSE Skip
    /\ Iterate(pe)

Next == \E pe \in PEs : load_format_1(pe) \/ load_format_2(pe) \/ model_random_spikes_init(pe)

Spec == Init /\ [][Next]_vars

-----------------------------------------------------------------------------
Loaded(pe) ==
    i[pe] = IF source.format = "random" THEN total_neurons_in_pe(neuron_groups, pe)
            ELSE Len(source.entries)

\* Where the array that starts at `start` ends: at a zero or, for want of one, at the end
\* of the memory.
EndOf(pe, start) ==
    Min({a \in start .. Cardinality(DOMAIN naked_spikes[pe]) :
            a \in DOMAIN naked_spikes[pe] => naked_spikes[pe][a].intensity = 0})

\* What driver_neuron_init finds for a neuron of the PE.
Found(pe, id) ==
    IF spikes[pe][id] = NULL THEN <<>>
    ELSE [k \in 1 .. EndOf(pe, spikes[pe][id]) - spikes[pe][id] |->
            naked_spikes[pe][spikes[pe][id] + k - 1]]

\* What the source has for a neuron.
TimesOf(neuron) ==
    IF source.format = "random"
    THEN IF neuron \in source.lucky /\ neuron < source.until THEN <<source.time>> ELSE <<>>
    ELSE FoldLeft(LAMBDA ts, e : IF e.neuron = neuron THEN ts \o e.times ELSE ts,
                  <<>>, source.entries)

\* load_spikes.c:85-91, 115-117. No PE writes outside of the memory it asked for before
\* it knew which neurons are its own, and every array ends within it.
RoomSuffices ==
    \A pe \in PEs :
        /\ DOMAIN naked_spikes[pe] = 0 .. Room(pe) - 1
        /\ \A id \in DOMAIN spikes[pe] :
              spikes[pe][id] # NULL => EndOf(pe, spikes[pe][id]) < Room(pe)

\* neuron.c:98, 138-147; storable_spikes.h:11-19. Wherever the layout has put them, and
\* in whatever order a file names them, every neuron's array has the neuron's own
\* spikes, all of them and in order.
SpikesReachOwners ==
    \A pe \in PEs : Loaded(pe) =>
        LET local == LocalNeurons(neuron_groups, pe)
        IN  \A id \in DOMAIN spikes[pe] :
                LET d == local[id + 1]
                IN  Found(pe, id) = [k \in DOMAIN TimesOf(d) |->
                        [neuron |-> d, time |-> TimesOf(d)[k], intensity |-> 1]]
=============================================================================
