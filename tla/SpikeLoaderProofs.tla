-------------------------- MODULE SpikeLoaderProofs ---------------------------
(***************************************************************************)
(* Theorems about SpikeLoader, for any number of PEs, any layout and any   *)
(* file: no PE writes outside of the memory it asked for, and every neuron *)
(* finds its own spikes there.                                             *)
(***************************************************************************)
EXTENDS SpikeLoader, LayoutProofs

-----------------------------------------------------------------------------
(* The memory of one PE.                                                    *)

Spikes(d, times) ==
    [k \in 1 .. Len(times) |-> [neuron |-> d, time |-> times[k], intensity |-> 1]]

\* The array of a neuron: its spikes, then a zero, before `end`.
ArrayAt(mem, start, d, times, end) ==
    /\ start \in Nat /\ start + Len(times) < end
    /\ \A k \in 1 .. Len(times) : mem[start + k - 1] = Spikes(d, times)[k]
    /\ mem[start + Len(times)].intensity = 0

Written(mem, start, d, times) ==
    LET new == [a \in start .. start + Len(times) - 1 |->
                    [neuron |-> d, time |-> times[a - start + 1], intensity |-> 1]]
    IN  [a \in DOMAIN mem \cup DOMAIN new |-> IF a \in DOMAIN new THEN new[a] ELSE mem[a]]

\* Nothing has been written from `used` on.
Blank(mem, used) == \A a \in DOMAIN mem : a >= used => mem[a].intensity = 0

LEMMA WrittenIs ==
    ASSUME NEW room \in Nat, NEW mem, DOMAIN mem = 0 .. room - 1,
           NEW start \in Nat, NEW d, NEW times, Len(times) \in Nat,
           start + Len(times) < room
    PROVE  LET W == Written(mem, start, d, times)
           IN  /\ DOMAIN W = 0 .. room - 1
               /\ \A k \in 1 .. Len(times) : W[start + k - 1] = Spikes(d, times)[k]
               /\ \A a \in 0 .. room - 1 : a < start \/ a >= start + Len(times) => W[a] = mem[a]
  <1> DEFINE len == Len(times)
             new == [a \in start .. start + len - 1 |->
                        [neuron |-> d, time |-> times[a - start + 1], intensity |-> 1]]
             W == Written(mem, start, d, times)
  <1>1. W = [a \in 0 .. room - 1 |-> IF a \in start .. start + len - 1 THEN new[a] ELSE mem[a]]
    <2>1. DOMAIN new = start .. start + len - 1
      OBVIOUS
    <2>2. DOMAIN mem \cup DOMAIN new = 0 .. room - 1
      BY <2>1
    <2>3. W = [a \in DOMAIN mem \cup DOMAIN new |-> IF a \in DOMAIN new THEN new[a] ELSE mem[a]]
      BY DEF Written
    <2> HIDE DEF new, W
    <2> QED
      BY <2>1, <2>2, <2>3
  <1>2. ASSUME NEW k \in 1 .. len PROVE W[start + k - 1] = Spikes(d, times)[k]
    <2>1. start + k - 1 \in start .. start + len - 1 /\ start + k - 1 \in 0 .. room - 1
          /\ (start + k - 1) - start + 1 = k
      OBVIOUS
    <2>2. new[start + k - 1] = [neuron |-> d, time |-> times[k], intensity |-> 1]
      BY <2>1
    <2>3. Spikes(d, times)[k] = [neuron |-> d, time |-> times[k], intensity |-> 1]
      BY DEF Spikes
    <2> HIDE DEF W, new
    <2> QED
      BY <1>1, <2>1, <2>2, <2>3
  <1> HIDE DEF W, new
  <1>3. DOMAIN W = 0 .. room - 1
    BY <1>1
  <1>4. \A a \in 0 .. room - 1 : a < start \/ a >= start + len => W[a] = mem[a]
    BY <1>1
  <1> QED
    BY <1>2, <1>3, <1>4 DEF W

\* A new array goes where nothing is yet.
LEMMA ArrayWritten ==
    ASSUME NEW room \in Nat, NEW mem, DOMAIN mem = 0 .. room - 1,
           NEW used \in Nat, Blank(mem, used), NEW d, NEW times, Len(times) \in Nat,
           used + Len(times) < room
    PROVE  LET W == Written(mem, used, d, times)
           IN  /\ ArrayAt(W, used, d, times, used + Len(times) + 1)
               /\ Blank(W, used + Len(times) + 1)
  <1> DEFINE W == Written(mem, used, d, times)
             len == Len(times)
  <1>1. /\ DOMAIN W = 0 .. room - 1
        /\ \A k \in 1 .. len : W[used + k - 1] = Spikes(d, times)[k]
        /\ \A a \in 0 .. room - 1 : a < used \/ a >= used + len => W[a] = mem[a]
    BY WrittenIs
  <1> HIDE DEF W
  <1>2. ASSUME NEW a \in 0 .. room - 1, a >= used + len PROVE W[a].intensity = 0
    BY <1>1, <1>2 DEF Blank
  <1>3. W[used + len].intensity = 0
    BY <1>2
  <1>4. Blank(W, used + len + 1)
    BY <1>1, <1>2 DEF Blank
  <1>5. ArrayAt(W, used, d, times, used + len + 1)
    BY <1>1, <1>3 DEF ArrayAt
  <1> QED
    BY <1>4, <1>5 DEF W

\* The arrays before it stay as they are.
LEMMA ArrayKept ==
    ASSUME NEW room \in Nat, NEW mem, DOMAIN mem = 0 .. room - 1,
           NEW used \in Nat, NEW d, NEW times, Len(times) \in Nat,
           used + Len(times) < room,
           NEW start, NEW c, NEW olds, Len(olds) \in Nat, NEW end \in Nat, end <= used,
           ArrayAt(mem, start, c, olds, end), NEW later \in Nat, end <= later
    PROVE  ArrayAt(Written(mem, used, d, times), start, c, olds, later)
  <1> DEFINE W == Written(mem, used, d, times)
  <1>1. \A a \in 0 .. room - 1 : a < used => W[a] = mem[a]
    BY WrittenIs
  <1> HIDE DEF W
  <1>2. start \in Nat /\ start + Len(olds) < used
    BY DEF ArrayAt
  <1>3. \A k \in 1 .. Len(olds) : W[start + k - 1] = mem[start + k - 1]
    <2> TAKE k \in 1 .. Len(olds)
    <2>1. start + k - 1 \in 0 .. room - 1 /\ start + k - 1 < used
      BY <1>2
    <2> QED
      BY <1>1, <2>1
  <1>4. W[start + Len(olds)] = mem[start + Len(olds)]
    BY <1>1, <1>2
  <1>5. ArrayAt(W, start, c, olds, later)
    BY <1>2, <1>3, <1>4 DEF ArrayAt
  <1> QED
    BY <1>5 DEF W

\* The driver reads up to the first zero.
Read(pe, start) ==
    [k \in 1 .. EndOf(pe, start) - start |-> naked_spikes[pe][start + k - 1]]

Sized(mem, room) == room \in Nat /\ DOMAIN mem = 0 .. room - 1

LEMMA ArrayRead ==
    ASSUME NEW pe, NEW room, NEW start, NEW d, NEW times,
           Sized(naked_spikes[pe], room), Len(times) \in Nat,
           ArrayAt(naked_spikes[pe], start, d, times, room)
    PROVE  /\ EndOf(pe, start) = start + Len(times)
           /\ Read(pe, start) = Spikes(d, times)
  <1> DEFINE mem == naked_spikes[pe]
             end == start + Len(times)
             ends == {a \in start .. room : a \in 0 .. room - 1 => mem[a].intensity = 0}
  <1>0. room \in Nat /\ DOMAIN mem = 0 .. room - 1
    BY DEF Sized
  <1>1. start \in Nat /\ end < room /\ end \in Nat /\ mem[end].intensity = 0
    BY <1>0 DEF ArrayAt
  <1>2. Cardinality(DOMAIN mem) = room
    <2>1. Cardinality(0 .. room - 1) = (room - 1) - 0 + 1
      BY <1>0, <1>1, FS_Interval
    <2> QED
      BY <1>0, <2>1
  <1>3. EndOf(pe, start) = Min(ends)
    BY <1>0, <1>2 DEF EndOf
  <1>4. end \in ends
    BY <1>0, <1>1
  <1>5. ASSUME NEW a \in ends PROVE end <= a
    <2> SUFFICES ASSUME a < end PROVE FALSE
      BY <1>0, <1>1
    <2>1. a \in start .. end - 1 /\ mem[a].intensity = 0
      BY <1>0, <1>1
    <2>2. a - start + 1 \in 1 .. Len(times) /\ start + (a - start + 1) - 1 = a
      BY <1>1, <2>1
    <2>3. mem[a] = Spikes(d, times)[a - start + 1]
      BY <2>2 DEF ArrayAt
    <2>4. Spikes(d, times)[a - start + 1].intensity = 1
      BY <2>2 DEF Spikes
    <2> QED
      BY <2>1, <2>3, <2>4
  <1>6. Min(ends) = end
    <2>1. ends \subseteq Int
      BY <1>0, <1>1
    <2>2. \A a \in ends : (\A b \in ends : a <= b) => a = end
      BY <1>1, <1>4, <1>5, <2>1
    <2> HIDE DEF ends, end
    <2> QED
      BY <1>4, <1>5, <2>2 DEF Min
  <1>7. EndOf(pe, start) - start = Len(times)
    <2> HIDE DEF ends
    <2> QED
      BY <1>1, <1>3, <1>6
  <1>8. \A k \in 1 .. Len(times) : mem[start + k - 1] = Spikes(d, times)[k]
    BY DEF ArrayAt
  <1>9. Spikes(d, times) = [k \in 1 .. Len(times) |-> Spikes(d, times)[k]]
    BY DEF Spikes
  <1> QED
    BY <1>3, <1>6, <1>7, <1>8, <1>9 DEF Read

-----------------------------------------------------------------------------
(* The neurons of a PE.                                                     *)

Owner(groups, pe, id) == LocalNeurons(groups, pe)[id + 1]
LocalIds(groups, pe) == 0 .. total_neurons_in_pe(groups, pe) - 1

\* Groups that are defined one after the other begin where those before them end.
LEMMA BuiltIsLayout ==
    ASSUME NEW groups, Built(groups)
    PROVE  IsLayout(groups)
  <1> DEFINE n == Len(groups)
             f == Sizes(groups)
  <1>1. groups \in Seq(Groups)
    BY DEF Built, Groups
  <1>2. n \in Nat /\ DOMAIN groups = 1 .. n /\ f \in [1 .. n -> Nat]
    BY <1>1, BeginsAre
  <1>3. ASSUME NEW l \in 1 .. n
        PROVE  IsGroup(groups[l]) /\ groups[l].global_neuron_offset = Begins(groups)[l - 1]
    <2> DEFINE before == SubSeq(groups, 1, l - 1)
               g == groups[l]
               f2 == Sizes(before)
    <2>1. before \in Seq(Groups) /\ Len(before) = l - 1 /\ l - 1 \in Nat /\ l - 1 <= n
          /\ \A k \in 1 .. l - 1 : before[k] = groups[k]
      BY <1>1, <1>2
    <2>2. g = neuron_group(before, g.num_neurons, g.initial_pe, g.final_pe)
      BY <1>2 DEF Built
    <2>3. g \in Groups
      BY <1>1, <1>2
    <2>4. g.num_neurons \in Nat /\ g.initial_pe \in PEs /\ g.final_pe \in PEs
      BY <2>3 DEF Groups
    <2> HIDE DEF before
    <2>5. f2 \in [1 .. l - 1 -> Nat] /\ TotalNeurons(before) = Begins(before)[l - 1]
          /\ TotalNeurons(before) \in Nat
      BY <2>1, BeginsAre
    <2>6. Alike(f, f2, l - 1)
      BY <1>2, <2>1 DEF Sizes, Alike
    <2>7. Partial(f2, l - 1)[l - 1] = Partial(f, n)[l - 1]
      <3> HIDE DEF f, f2, n
      <3> QED
        BY <1>2, <2>1, <2>5, <2>6, PartialOfPrefix
    <2>8. TotalNeurons(before) = Begins(groups)[l - 1]
      BY <2>1, <2>5, <2>7 DEF Begins
    <2> HIDE DEF g
    <2>9. IsGroup(neuron_group(before, g.num_neurons, g.initial_pe, g.final_pe))
      BY <2>4, <2>5, Defined
    <2>10. g.global_neuron_offset = TotalNeurons(before)
      <3>1. neuron_group(before, g.num_neurons, g.initial_pe, g.final_pe).global_neuron_offset
              = TotalNeurons(before)
        BY DEF neuron_group
      <3> QED
        BY <2>2, <3>1
    <2>11. IsGroup(g)
      BY <2>2, <2>9
    <2> QED
      BY <2>8, <2>10, <2>11 DEF g
  <1> QED
    BY <1>1, <1>3 DEF IsLayout

\* On the PE that a neuron lives on, the loaders come to its own place, and the generator
\* from the place to the neuron.
LEMMA OwnPlace ==
    ASSUME NEW groups, IsLayout(groups), NEW pe \in PEs,
           NEW d \in 0 .. TotalNeurons(groups) - 1, doryta_id_to_pe(groups, d) = pe
    PROVE  LET id == doryta_id_to_local_id(groups, d)
           IN  id \in LocalIds(groups, pe) /\ Owner(groups, pe, id) = d
  <1>1. PICK p \in PEs : \E k \in LocalIds(groups, p) : PlacedAt(groups, d, p, k)
    BY EveryNeuronHasAPlace DEF LocalIds
  <1>2. PICK k \in LocalIds(groups, p) : PlacedAt(groups, d, p, k)
    BY <1>1
  <1>3. doryta_id_to_pe(groups, d) = p /\ doryta_id_to_local_id(groups, d) = k
        /\ LocalNeurons(groups, p)[k + 1] = d
    BY <1>2 DEF PlacedAt, doryta_id_to_pe
  <1> QED
    BY <1>2, <1>3 DEF Owner

LEMMA OwnerIs ==
    ASSUME NEW groups, IsLayout(groups), NEW pe \in PEs, NEW id \in LocalIds(groups, pe)
    PROVE  LET d == Owner(groups, pe, id)
           IN  /\ doryta_id_to_pe(groups, d) = pe
               /\ doryta_id_to_local_id(groups, d) = id
               /\ local_id_to_doryta_id_for_pe(groups, id, pe) = d
  <1> DEFINE d == Owner(groups, pe, id)
             M == max_num_neurons_per_pe(groups)
  <1>1. PlacedAt(groups, d, pe, id)
    BY EveryPlaceHasANeuron DEF LocalIds, Owner
  <1> HIDE DEF d
  <1>2. /\ doryta_id_to_gid(groups, d) = pe * M + id
        /\ doryta_id_to_local_id(groups, d) = id
        /\ gid_to_pe(groups, pe * M + id) = pe
        /\ gid_to_doryta_id(groups, pe * M + id) = d
    BY <1>1 DEF PlacedAt, pe_gid_offset
  <1>3. M \in Nat /\ id \in 0 .. M - 1 /\ pe \in Nat
    <2>1. id \in 0 .. Places(groups, pe)[Len(groups)] - 1
      BY PlacesAreTotal DEF LocalIds
    <2> QED
      BY <2>1, WithinWidest, NodesAssumption DEF PEs
  <1>4. (pe * M + id) % M = id
    <2> HIDE DEF M
    <2>1. M \in Nat \ {0}
      BY <1>3
    <2> QED
      BY <1>3, <2>1, QuotientIs
  <1>5. gid_to_doryta_id(groups, pe * M + id) = local_id_to_doryta_id_for_pe(groups, id, pe)
    <2>1. gid_to_doryta_id(groups, pe * M + id)
            = local_id_to_doryta_id_for_pe(groups, (pe * M + id) % M, gid_to_pe(groups, pe * M + id))
      BY DEF gid_to_doryta_id
    <2> HIDE DEF M
    <2> QED
      BY <1>2, <1>4, <2>1
  <1> HIDE DEF M
  <1> QED
    BY <1>2, <1>5 DEF doryta_id_to_pe, d

-----------------------------------------------------------------------------
(* A file, entry by entry.                                                  *)

IsFile(groups, entries) ==
    /\ entries \in Seq(Entry)
    /\ \A k, m \in 1 .. Len(entries) : entries[k].neuron = entries[m].neuron => k = m
    /\ \A k \in 1 .. Len(entries) : entries[k].neuron < TotalNeurons(groups)

Lens(entries) == [k \in 1 .. Len(entries) |-> Len(entries[k].times)]
SpikesBefore(entries) == Partial(Lens(entries), Len(entries))

LEMMA EntriesAre ==
    ASSUME NEW entries, entries \in Seq(Entry)
    PROVE  /\ Len(entries) \in Nat /\ DOMAIN entries = 1 .. Len(entries)
           /\ \A k \in 1 .. Len(entries) :
                 /\ entries[k].neuron \in Nat /\ entries[k].times \in Seq(Nat)
                 /\ Len(entries[k].times) \in Nat
           /\ Lens(entries) \in [1 .. Len(entries) -> Nat]
           /\ Sums(SpikesBefore(entries), Len(entries), Lens(entries))
  <1>1. Len(entries) \in Nat /\ DOMAIN entries = 1 .. Len(entries)
    OBVIOUS
  <1>2. ASSUME NEW k \in 1 .. Len(entries)
        PROVE  /\ entries[k].neuron \in Nat /\ entries[k].times \in Seq(Nat)
               /\ Len(entries[k].times) \in Nat
    <2>1. entries[k] \in Entry
      OBVIOUS
    <2>2. entries[k].neuron \in Nat /\ entries[k].times \in Seq(Nat)
      BY <2>1 DEF Entry
    <2> QED
      BY <2>2
  <1>3. Lens(entries) \in [1 .. Len(entries) -> Nat]
    BY <1>2 DEF Lens
  <1>4. Sums(SpikesBefore(entries), Len(entries), Lens(entries))
    BY <1>1, <1>3, PartialSums DEF SpikesBefore
  <1> QED
    BY <1>1, <1>2, <1>3, <1>4

LEMMA TotalSpikesAre ==
    ASSUME source.entries \in Seq(Entry)
    PROVE  total_spikes = SpikesBefore(source.entries)[Len(source.entries)]
  <1> DEFINE entries == source.entries
             n == Len(entries)
             f == Lens(entries)
             Step(it) == [s \in SUBSET DOMAIN entries |->
                            IF s = {} THEN 0
                            ELSE it[s \ {Max(s)}] + Len(entries[Max(s)].times)]
             sum == CHOOSE it : it = Step(it)
  <1>1. total_spikes = sum[DOMAIN entries]
    BY DEF total_spikes, FoldLeft, MapThenFoldSet
  <1>2. n \in Nat /\ DOMAIN entries = 1 .. n /\ f \in [1 .. n -> Nat]
    BY EntriesAre
  <1>3. ASSUME NEW it
        PROVE  Step(it) = [s \in SUBSET (1 .. n) |->
                             IF s = {} THEN 0 ELSE it[s \ {Max(s)}] + f[Max(s)]]
    <2>1. \A s \in SUBSET (1 .. n) : s # {} => Max(s) \in 1 .. n
      BY <1>2, MaxIs
    <2>2. \A x \in 1 .. n : f[x] = Len(entries[x].times)
      BY DEF Lens
    <2> HIDE DEF f
    <2>3. \A s \in SUBSET (1 .. n) : s # {} => f[Max(s)] = Len(entries[Max(s)].times)
      BY <2>1, <2>2
    <2> HIDE DEF n
    <2> QED
      BY <1>2, <2>3
  <1>4. \A it : it = Step(it) <=> SumsUp(it, n, f)
    <2> HIDE DEF Step, f, n
    <2> QED
      BY <1>3 DEF SumsUp
  <1>5. \E it : SumsUp(it, n, f)
    <2> HIDE DEF f, n
    <2> QED
      BY <1>2, SumExists
  <1>6. SumsUp(sum, n, f)
    <2> HIDE DEF Step, f, n
    <2> QED
      BY <1>4, <1>5
  <1>7. sum[1 .. n] = Partial(f, n)[n]
    <2> HIDE DEF sum, f, n
    <2> QED
      BY <1>2, <1>6, FoldIsPartial
  <1> QED
    BY <1>1, <1>2, <1>7 DEF SpikesBefore

\* What a PE that is through with n entries has found, with `used` of its memory.
Filled(groups, pe, sp) == {id \in LocalIds(groups, pe) : sp[id] # NULL}

Awaits(groups, entries, pe, n, id) ==
    \A k \in 1 .. n : entries[k].neuron # Owner(groups, pe, id)

Has(groups, entries, pe, n, used, mem, start, id) ==
    \E k \in 1 .. n :
        /\ entries[k].neuron = Owner(groups, pe, id)
        /\ ArrayAt(mem, start, Owner(groups, pe, id), entries[k].times, used)

FileInv(groups, entries, pe, n, used, mem, sp) ==
    /\ n \in 0 .. Len(entries) /\ used \in Nat
    /\ sp \in [LocalIds(groups, pe) -> Int]
    /\ Blank(mem, used)
    /\ Cardinality(Filled(groups, pe, sp)) <= n
    /\ used <= SpikesBefore(entries)[n] + Cardinality(Filled(groups, pe, sp))
    /\ \A id \in LocalIds(groups, pe) :
          IF sp[id] = NULL THEN Awaits(groups, entries, pe, n, id)
          ELSE Has(groups, entries, pe, n, used, mem, sp[id], id)

LEMMA FilledIs ==
    ASSUME NEW groups, IsLayout(groups), NEW pe \in PEs, NEW sp
    PROVE  LET filled == Filled(groups, pe, sp)
           IN  /\ IsFiniteSet(filled) /\ Cardinality(filled) \in Nat
               /\ Cardinality(filled) <= total_neurons_in_pe(groups, pe)
  <1> DEFINE size == total_neurons_in_pe(groups, pe)
             filled == Filled(groups, pe, sp)
  <1>1. size \in Nat
    BY PlacesAreTotal
  <1>2. IsFiniteSet(0 .. size - 1) /\ Cardinality(0 .. size - 1) = size
    <2> HIDE DEF size
    <2>1. /\ IsFiniteSet(0 .. size - 1)
          /\ Cardinality(0 .. size - 1) = IF 0 > size - 1 THEN 0 ELSE (size - 1) - 0 + 1
      BY <1>1, FS_Interval
    <2> QED
      BY <1>1, <2>1
  <1>3. filled \subseteq 0 .. size - 1
    BY DEF Filled, LocalIds
  <1> HIDE DEF filled, size
  <1>4. IsFiniteSet(filled) /\ Cardinality(filled) <= size
    BY <1>2, <1>3, FS_Subset
  <1>5. Cardinality(filled) \in Nat
    BY <1>4, FS_CardinalityType
  <1> QED
    BY <1>4, <1>5 DEF filled, size

\* An entry of a neuron on another PE.
LEMMA SkipsEntry ==
    ASSUME NEW groups, IsLayout(groups), NEW entries, IsFile(groups, entries), NEW pe \in PEs,
           NEW n, NEW used, NEW mem, NEW sp, FileInv(groups, entries, pe, n, used, mem, sp),
           n < Len(entries), doryta_id_to_pe(groups, entries[n + 1].neuron) # pe
    PROVE  FileInv(groups, entries, pe, n + 1, used, mem, sp)
  <1> DEFINE S == SpikesBefore(entries)
             f == Lens(entries)
             c == Cardinality(Filled(groups, pe, sp))
  <1>1. /\ Len(entries) \in Nat /\ n \in Nat /\ n + 1 \in 1 .. Len(entries)
        /\ n + 1 \in 0 .. Len(entries) /\ n \in 0 .. Len(entries)
    BY EntriesAre DEF IsFile, FileInv
  <1>2. S[n] <= S[n + 1] /\ S[n] \in Nat /\ S[n + 1] \in Nat
    <2>1. Len(entries) \in Nat /\ f \in [1 .. Len(entries) -> Nat] /\ Sums(S, Len(entries), f)
      BY EntriesAre DEF IsFile
    <2>2. n <= n + 1
      BY <1>1
    <2> HIDE DEF S, f
    <2> QED
      BY <1>1, <2>1, <2>2, SumsGrow
  <1>3. c \in Nat /\ c <= n /\ used <= S[n] + c /\ used \in Nat
    BY FilledIs DEF FileInv
  <1>4. ASSUME NEW id \in LocalIds(groups, pe)
        PROVE  IF sp[id] = NULL THEN Awaits(groups, entries, pe, n + 1, id)
               ELSE Has(groups, entries, pe, n + 1, used, mem, sp[id], id)
    <2>1. doryta_id_to_pe(groups, Owner(groups, pe, id)) = pe
      BY OwnerIs
    <2>2. entries[n + 1].neuron # Owner(groups, pe, id)
      BY <2>1
    <2>3. \A k \in 1 .. n + 1 : k = n + 1 \/ k \in 1 .. n
      BY <1>1
    <2>4. 1 .. n \subseteq 1 .. n + 1
      BY <1>1
    <2>5. CASE sp[id] = NULL
      <3>1. Awaits(groups, entries, pe, n, id)
        BY <2>5 DEF FileInv
      <3> QED
        BY <2>2, <2>3, <2>5, <3>1 DEF Awaits
    <2>6. CASE sp[id] # NULL
      <3>1. Has(groups, entries, pe, n, used, mem, sp[id], id)
        BY <2>6 DEF FileInv
      <3> QED
        BY <2>4, <2>6, <3>1 DEF Has
    <2> QED
      BY <2>5, <2>6
  <1>5. c <= n + 1 /\ used <= S[n + 1] + c
    <2> HIDE DEF c, S
    <2> QED
      BY <1>1, <1>2, <1>3
  <1> QED
    BY <1>1, <1>4, <1>5 DEF FileInv

\* An entry of one of its own neurons, which has none yet: the array fits, and goes behind
\* those of the entries before.
LEMMA KeepsEntry ==
    ASSUME NEW groups, IsLayout(groups), NEW entries, IsFile(groups, entries), NEW pe \in PEs,
           NEW n, NEW used, NEW room \in Nat, NEW mem, DOMAIN mem = 0 .. room - 1, NEW sp,
           FileInv(groups, entries, pe, n, used, mem, sp),
           \A c \in Nat : c <= Len(entries) /\ c <= total_neurons_in_pe(groups, pe)
                              => SpikesBefore(entries)[Len(entries)] + c <= room,
           n < Len(entries), doryta_id_to_pe(groups, entries[n + 1].neuron) = pe
    PROVE  LET d     == entries[n + 1].neuron
               times == entries[n + 1].times
               id    == doryta_id_to_local_id(groups, d)
               W     == Written(mem, used, d, times)
           IN  /\ DOMAIN W = 0 .. room - 1
               /\ FileInv(groups, entries, pe, n + 1, used + Len(times) + 1, W,
                          [sp EXCEPT ![id] = used])
  <1> DEFINE d     == entries[n + 1].neuron
             times == entries[n + 1].times
             here  == doryta_id_to_local_id(groups, d)
             W     == Written(mem, used, d, times)
             sp2   == [sp EXCEPT ![here] = used]
             used2 == used + Len(times) + 1
             S     == SpikesBefore(entries)
             f     == Lens(entries)
             c     == Cardinality(Filled(groups, pe, sp))
             size  == total_neurons_in_pe(groups, pe)
  <1>1. /\ Len(entries) \in Nat /\ n \in Nat /\ n + 1 \in 1 .. Len(entries)
        /\ n + 1 \in 0 .. Len(entries) /\ n \in 0 .. Len(entries) /\ Len(entries) \in 0 .. Len(entries)
    BY EntriesAre DEF IsFile, FileInv
  <1>2. /\ d \in Nat /\ Len(times) \in Nat /\ d \in 0 .. TotalNeurons(groups) - 1
        /\ f[n + 1] = Len(times)
    <2>1. d \in Nat /\ Len(times) \in Nat /\ d < TotalNeurons(groups)
      BY <1>1, EntriesAre DEF IsFile
    <2>2. TotalNeurons(groups) \in Nat
      BY BeginsAre DEF IsLayout
    <2>3. f[n + 1] = Len(times)
      BY <1>1 DEF Lens
    <2> HIDE DEF d, times, f
    <2> QED
      BY <2>1, <2>2, <2>3
  <1>3. /\ S[n] \in Nat /\ S[n + 1] \in Nat /\ S[Len(entries)] \in Nat
        /\ S[n + 1] = S[n] + Len(times) /\ S[n + 1] <= S[Len(entries)]
    <2>1. Len(entries) \in Nat /\ f \in [1 .. Len(entries) -> Nat] /\ Sums(S, Len(entries), f)
      BY EntriesAre DEF IsFile
    <2>2. n + 1 <= Len(entries) /\ (n + 1) - 1 = n
      BY <1>1
    <2> HIDE DEF S, f, times
    <2>3. S[n + 1] <= S[Len(entries)] /\ S[n + 1] \in Nat /\ S[Len(entries)] \in Nat
      BY <1>1, <2>1, <2>2, SumsGrow
    <2>4. S[n + 1] = S[n] + f[n + 1] /\ S[n] \in Nat
      BY <1>1, <2>1, <2>2 DEF Sums
    <2> QED
      BY <1>2, <2>3, <2>4
  <1>4. here \in LocalIds(groups, pe) /\ Owner(groups, pe, here) = d
    <2> HIDE DEF d
    <2> QED
      BY <1>2, OwnPlace DEF d
  <1>5. /\ c \in Nat /\ c <= n /\ used <= S[n] + c /\ used \in Nat
        /\ IsFiniteSet(Filled(groups, pe, sp)) /\ Blank(mem, used)
        /\ sp \in [LocalIds(groups, pe) -> Int]
    BY FilledIs DEF FileInv
  <1>6. sp[here] = NULL
    <2> SUFFICES ASSUME sp[here] # NULL PROVE FALSE
      OBVIOUS
    <2>1. Has(groups, entries, pe, n, used, mem, sp[here], here)
      BY <1>4 DEF FileInv
    <2>2. PICK k \in 1 .. n : entries[k].neuron = d
      BY <1>4, <2>1 DEF Has
    <2>3. k \in 1 .. Len(entries) /\ k # n + 1
      BY <1>1
    <2> QED
      BY <1>1, <2>2, <2>3 DEF IsFile
  <1> HIDE DEF d, times, here, W, S, f, size
  <1>7. sp2 \in [LocalIds(groups, pe) -> Int] /\ sp2[here] = used
        /\ \A id \in LocalIds(groups, pe) : id # here => sp2[id] = sp[id]
    BY <1>4, <1>5
  <1>8. used # NULL
    BY <1>5 DEF NULL
  <1> HIDE DEF sp2
  <1>9. Filled(groups, pe, sp2) = Filled(groups, pe, sp) \cup {here}
    <2>1. \A id \in LocalIds(groups, pe) : sp2[id] # NULL <=> sp[id] # NULL \/ id = here
      BY <1>7, <1>8
    <2> QED
      BY <1>4, <2>1 DEF Filled
  <1>10. Cardinality(Filled(groups, pe, sp2)) = c + 1
    <2>1. here \notin Filled(groups, pe, sp)
      BY <1>6 DEF Filled
    <2> QED
      BY <1>5, <1>9, <2>1, FS_AddElement
  <1>11. c + 1 <= size
    <2>1. Cardinality(Filled(groups, pe, sp2)) <= size
      BY FilledIs DEF size
    <2> QED
      BY <1>10, <2>1
  <1> HIDE DEF c
  <1>12. used + Len(times) < room /\ used2 <= S[n + 1] + (c + 1) /\ used2 \in Nat
    <2>1. c + 1 \in Nat /\ c + 1 <= Len(entries)
      BY <1>1, <1>5
    <2>2. S[Len(entries)] + (c + 1) <= room
      BY <1>11, <2>1 DEF S, size
    <2>3. Len(times) \in Nat /\ used \in Nat /\ c \in Nat
      BY <1>2, <1>5
    <2>4. used + Len(times) <= S[n + 1] + c
      BY <1>3, <1>5, <2>3
    <2>5. used + Len(times) < room
      BY <1>3, <2>2, <2>3, <2>4
    <2> QED
      BY <1>3, <2>3, <2>4, <2>5
  <1>13. /\ DOMAIN W = 0 .. room - 1
         /\ ArrayAt(W, used, d, times, used2) /\ Blank(W, used2)
    <2>1. DOMAIN W = 0 .. room - 1
      BY <1>2, <1>5, <1>12, WrittenIs DEF W
    <2>2. ArrayAt(W, used, d, times, used2) /\ Blank(W, used2)
      BY <1>2, <1>5, <1>12, ArrayWritten DEF W
    <2> QED
      BY <2>1, <2>2
  <1>14. ASSUME NEW id \in LocalIds(groups, pe)
         PROVE  IF sp2[id] = NULL THEN Awaits(groups, entries, pe, n + 1, id)
                ELSE Has(groups, entries, pe, n + 1, used2, W, sp2[id], id)
    <2>1. CASE id = here
      <3>1. entries[n + 1].neuron = Owner(groups, pe, id) /\ n + 1 \in 1 .. n + 1
        BY <1>1, <1>4, <2>1 DEF d
      <3>2. ArrayAt(W, sp2[id], Owner(groups, pe, id), entries[n + 1].times, used2)
        BY <1>4, <1>7, <1>13, <2>1 DEF times
      <3>3. Has(groups, entries, pe, n + 1, used2, W, sp2[id], id)
        <4> HIDE DEF used2
        <4> QED
          BY <3>1, <3>2 DEF Has
      <3> QED
        BY <1>7, <1>8, <2>1, <3>3
    <2>2. CASE id # here /\ sp[id] = NULL
      <3>1. Awaits(groups, entries, pe, n, id) /\ sp2[id] = NULL
        BY <1>7, <2>2 DEF FileInv
      <3>2. entries[n + 1].neuron # Owner(groups, pe, id)
        <4> SUFFICES ASSUME Owner(groups, pe, id) = d PROVE FALSE
          BY DEF d
        <4>1. doryta_id_to_local_id(groups, Owner(groups, pe, id)) = id
          BY OwnerIs
        <4> QED
          BY <2>2, <4>1 DEF here
      <3>3. \A k \in 1 .. n + 1 : k = n + 1 \/ k \in 1 .. n
        BY <1>1
      <3> QED
        BY <3>1, <3>2, <3>3 DEF Awaits
    <2>3. CASE id # here /\ sp[id] # NULL
      <3>1. Has(groups, entries, pe, n, used, mem, sp[id], id) /\ sp2[id] = sp[id]
        BY <1>7, <2>3 DEF FileInv
      <3>2. PICK k \in 1 .. n :
               /\ entries[k].neuron = Owner(groups, pe, id)
               /\ ArrayAt(mem, sp[id], Owner(groups, pe, id), entries[k].times, used)
        BY <3>1 DEF Has
      <3>3. k \in 1 .. n + 1 /\ Len(entries[k].times) \in Nat
        BY <1>1, EntriesAre DEF IsFile
      <3>4. used <= used2
        BY <1>2, <1>5
      <3> HIDE DEF used2
      <3>5. ArrayAt(W, sp[id], Owner(groups, pe, id), entries[k].times, used2)
        BY <1>2, <1>5, <1>12, <3>2, <3>3, <3>4, ArrayKept DEF W
      <3>6. Has(groups, entries, pe, n + 1, used2, W, sp2[id], id)
        BY <3>1, <3>2, <3>3, <3>5 DEF Has
      <3> QED
        BY <2>3, <3>1, <3>6
    <2> QED
      BY <2>1, <2>2, <2>3
  <1>15. FileInv(groups, entries, pe, n + 1, used2, W, sp2)
    <2>1. Cardinality(Filled(groups, pe, sp2)) <= n + 1
      BY <1>1, <1>5, <1>10
    <2>2. used2 <= S[n + 1] + Cardinality(Filled(groups, pe, sp2))
      BY <1>10, <1>12
    <2> HIDE DEF used2
    <2> QED
      BY <1>1, <1>7, <1>12, <1>13, <1>14, <2>1, <2>2 DEF FileInv, S
  <1> QED
    BY <1>13, <1>15 DEF d, times, here, W, sp2

\* What a file has for a neuron: its entry's times.
Gathered(it, entries, d) ==
    it = [s \in SUBSET DOMAIN entries |->
            IF s = {} THEN <<>>
            ELSE IF entries[Max(s)].neuron = d THEN it[s \ {Max(s)}] \o entries[Max(s)].times
            ELSE it[s \ {Max(s)}]]

LEMMA GatheringExists ==
    ASSUME NEW entries, entries \in Seq(Entry), NEW d
    PROVE  \E it : Gathered(it, entries, d)
  <1> DEFINE n == Len(entries)
             step == [p \in (1 .. n) \X Seq(Nat) |->
                        IF entries[p[1]].neuron = d THEN p[2] \o entries[p[1]].times ELSE p[2]]
  <1>1. n \in Nat /\ DOMAIN entries = 1 .. n
        /\ \A k \in 1 .. n : entries[k].times \in Seq(Nat)
    BY EntriesAre
  <1> HIDE DEF n
  <1>2. step \in [(1 .. n) \X Seq(Nat) -> Seq(Nat)]
    BY <1>1
  <1>3. PICK it : Folds(it, n, Seq(Nat), <<>>, step)
    <2>1. <<>> \in Seq(Nat)
      OBVIOUS
    <2> HIDE DEF step
    <2> QED
      BY <1>1, <1>2, <2>1, FoldExists
  <1>4. it = [s \in SUBSET (1 .. n) |-> it[s]] /\ it \in [SUBSET (1 .. n) -> Seq(Nat)]
    BY <1>3 DEF Folds
  <1>5. ASSUME NEW s \in SUBSET (1 .. n)
        PROVE  it[s] = IF s = {} THEN <<>>
                       ELSE IF entries[Max(s)].neuron = d
                            THEN it[s \ {Max(s)}] \o entries[Max(s)].times
                            ELSE it[s \ {Max(s)}]
    <2>1. CASE s = {}
      BY <1>3, <2>1 DEF Folds
    <2>2. CASE s # {}
      <3>1. Max(s) \in 1 .. n /\ s \ {Max(s)} \in SUBSET (1 .. n)
        BY <1>1, <2>2, MaxIs
      <3>2. it[s \ {Max(s)}] \in Seq(Nat)
        BY <1>4, <3>1
      <3>3. step[<<Max(s), it[s \ {Max(s)}]>>]
              = IF entries[Max(s)].neuron = d THEN it[s \ {Max(s)}] \o entries[Max(s)].times
                ELSE it[s \ {Max(s)}]
        BY <3>1, <3>2
      <3> QED
        BY <1>3, <2>2, <3>3 DEF Folds
    <2> QED
      BY <2>1, <2>2
  <1>6. Gathered(it, entries, d)
    BY <1>1, <1>4, <1>5 DEF Gathered
  <1> QED
    BY <1>6

LEMMA GatheringIs ==
    ASSUME NEW groups, NEW entries, IsFile(groups, entries), NEW d,
           NEW it, Gathered(it, entries, d)
    PROVE  /\ (\A k \in 1 .. Len(entries) : entries[k].neuron # d)
                  => it[1 .. Len(entries)] = <<>>
           /\ \A k \in 1 .. Len(entries) :
                 entries[k].neuron = d => it[1 .. Len(entries)] = entries[k].times
  <1> DEFINE n == Len(entries)
             None(k) == \A m \in 1 .. k : entries[m].neuron # d
             Is(k) == /\ None(k) => it[1 .. k] = <<>>
                      /\ \A m \in 1 .. k : entries[m].neuron = d => it[1 .. k] = entries[m].times
             P == {k \in Nat : k <= n => Is(k)}
  <1>1. n \in Nat /\ DOMAIN entries = 1 .. n /\ \A k \in 1 .. n : entries[k].times \in Seq(Nat)
    BY EntriesAre DEF IsFile
  <1> HIDE DEF n
  <1>2. \A s \in SUBSET (1 .. n) :
           it[s] = IF s = {} THEN <<>>
                   ELSE IF entries[Max(s)].neuron = d THEN it[s \ {Max(s)}] \o entries[Max(s)].times
                   ELSE it[s \ {Max(s)}]
    BY <1>1 DEF Gathered
  <1>3. 0 \in P
    <2>1. 1 .. 0 = {} /\ {} \in SUBSET (1 .. n)
      OBVIOUS
    <2>2. it[1 .. 0] = <<>>
      BY <1>2, <2>1
    <2> QED
      BY <2>1, <2>2
  <1>4. ASSUME NEW k \in Nat, k + 1 <= n, Is(k) PROVE Is(k + 1)
    <2>1. /\ Max(1 .. k + 1) = k + 1 /\ (1 .. k + 1) \ {k + 1} = 1 .. k
          /\ 1 .. k + 1 # {} /\ 1 .. k + 1 \in SUBSET (1 .. n) /\ k + 1 \in 1 .. n
      <3>1. /\ Max(1 .. k + 1) = k + 1 /\ (1 .. k + 1) \ {k + 1} = 1 .. (k + 1) - 1
            /\ 1 .. k + 1 # {}
        BY MaxOfAll
      <3>2. 1 .. k + 1 \in SUBSET (1 .. n) /\ k + 1 \in 1 .. n
        BY <1>1, <1>4
      <3> QED
        BY <3>1, <3>2
    <2>2. it[1 .. k + 1] = IF entries[k + 1].neuron = d THEN it[1 .. k] \o entries[k + 1].times
                           ELSE it[1 .. k]
      BY <1>2, <2>1
    <2>3. \A m \in 1 .. k + 1 : m = k + 1 \/ m \in 1 .. k
      OBVIOUS
    <2>4. 1 .. k \subseteq 1 .. k + 1 /\ k + 1 \in 1 .. k + 1
      OBVIOUS
    <2>5. CASE entries[k + 1].neuron = d
      <3>1. None(k)
        <4> SUFFICES ASSUME NEW m \in 1 .. k, entries[m].neuron = d PROVE FALSE
          OBVIOUS
        <4>1. m \in 1 .. n /\ m # k + 1
          BY <1>1, <1>4
        <4> QED
          BY <2>1, <2>5, <4>1 DEF IsFile, n
      <3>2. it[1 .. k] = <<>>
        BY <1>4, <3>1
      <3>3. it[1 .. k + 1] = entries[k + 1].times
        <4>1. entries[k + 1].times \in Seq(Nat)
          BY <1>1, <2>1
        <4>2. <<>> \o entries[k + 1].times = entries[k + 1].times
          BY <4>1
        <4> QED
          BY <2>2, <2>5, <3>2, <4>2
      <3> QED
        BY <2>3, <2>4, <2>5, <3>1, <3>3
    <2>6. CASE entries[k + 1].neuron # d
      <3>1. it[1 .. k + 1] = it[1 .. k]
        BY <2>2, <2>6
      <3> QED
        BY <1>4, <2>3, <2>4, <2>6, <3>1
    <2> QED
      BY <2>5, <2>6
  <1>5. \A k \in Nat : k \in P
    <2>1. \A k \in Nat : k \in P => k + 1 \in P
      <3> HIDE DEF Is
      <3> QED
        BY <1>1, <1>4
    <2> HIDE DEF P
    <2> QED
      BY <1>3, <2>1, Induction
  <1>6. Is(n)
    <2> HIDE DEF Is
    <2> QED
      BY <1>1, <1>5
  <1> QED
    BY <1>6 DEF n

LEMMA TimesInFile ==
    ASSUME NEW groups, source.format # "random", IsFile(groups, source.entries), NEW d
    PROVE  /\ (\A k \in 1 .. Len(source.entries) : source.entries[k].neuron # d)
                  => TimesOf(d) = <<>>
           /\ \A k \in 1 .. Len(source.entries) :
                 source.entries[k].neuron = d => TimesOf(d) = source.entries[k].times
  <1> DEFINE entries == source.entries
             n == Len(entries)
             Step(it) == [s \in SUBSET DOMAIN entries |->
                            IF s = {} THEN <<>>
                            ELSE IF entries[Max(s)].neuron = d
                                 THEN it[s \ {Max(s)}] \o entries[Max(s)].times
                                 ELSE it[s \ {Max(s)}]]
             all == CHOOSE it : it = Step(it)
  <1>1. TimesOf(d) = all[DOMAIN entries]
    BY DEF TimesOf, FoldLeft, MapThenFoldSet
  <1>2. \A it : it = Step(it) <=> Gathered(it, entries, d)
    BY DEF Gathered
  <1>3. n \in Nat /\ DOMAIN entries = 1 .. n /\ entries \in Seq(Entry)
    BY EntriesAre DEF IsFile
  <1>4. \E it : Gathered(it, entries, d)
    <2> HIDE DEF entries, n
    <2> QED
      BY <1>3, GatheringExists
  <1>5. Gathered(all, entries, d)
    <2> HIDE DEF Step, n, entries
    <2> QED
      BY <1>2, <1>4
  <1> HIDE DEF all, Step
  <1> QED
    BY <1>1, <1>3, <1>5, GatheringIs

-----------------------------------------------------------------------------
(* The spikes at random, neuron by neuron.                                  *)

Lucky(src, d) == d < src.until /\ d \in src.lucky

RandomInv(groups, src, pe, n, mem, sp) ==
    /\ n \in Nat /\ n <= total_neurons_in_pe(groups, pe)
    /\ sp \in [LocalIds(groups, pe) -> Int]
    /\ Blank(mem, 2 * n)
    /\ \A id \in LocalIds(groups, pe) :
          LET d == Owner(groups, pe, id)
          IN  IF sp[id] = NULL THEN id < n => ~ Lucky(src, d)
              ELSE Lucky(src, d) /\ ArrayAt(mem, sp[id], d, <<src.time>>, 2 * n)

LEMMA SkipsNeuron ==
    ASSUME NEW groups, IsLayout(groups), NEW pe \in PEs, NEW src,
           NEW n, NEW mem, DOMAIN mem = 0 .. 2 * total_neurons_in_pe(groups, pe) - 1,
           NEW sp, RandomInv(groups, src, pe, n, mem, sp),
           n < total_neurons_in_pe(groups, pe), ~ Lucky(src, Owner(groups, pe, n))
    PROVE  RandomInv(groups, src, pe, n + 1, mem, sp)
  <1>1. n \in Nat /\ n + 1 \in Nat /\ n + 1 <= total_neurons_in_pe(groups, pe)
    BY PlacesAreTotal DEF RandomInv
  <1>2. Blank(mem, 2 * (n + 1))
    <2>1. Blank(mem, 2 * n)
      BY DEF RandomInv
    <2>2. \A a \in DOMAIN mem : a >= 2 * (n + 1) => a >= 2 * n
      BY <1>1
    <2> QED
      BY <2>1, <2>2 DEF Blank
  <1>3. ASSUME NEW id \in LocalIds(groups, pe)
        PROVE  LET d == Owner(groups, pe, id)
               IN  IF sp[id] = NULL THEN id < n + 1 => ~ Lucky(src, d)
                   ELSE Lucky(src, d) /\ ArrayAt(mem, sp[id], d, <<src.time>>, 2 * (n + 1))
    <2> DEFINE d == Owner(groups, pe, id)
    <2>1. IF sp[id] = NULL THEN id < n => ~ Lucky(src, d)
          ELSE Lucky(src, d) /\ ArrayAt(mem, sp[id], d, <<src.time>>, 2 * n)
      BY DEF RandomInv
    <2>2. id \in Nat /\ (id < n + 1 => id < n \/ id = n)
      BY <1>1 DEF LocalIds
    <2>3. ArrayAt(mem, sp[id], d, <<src.time>>, 2 * n)
             => ArrayAt(mem, sp[id], d, <<src.time>>, 2 * (n + 1))
      <3> HIDE DEF d
      <3> QED
        BY <1>1 DEF ArrayAt
    <2> QED
      BY <2>1, <2>2, <2>3
  <1> QED
    BY <1>1, <1>2, <1>3 DEF RandomInv

LEMMA KeepsNeuron ==
    ASSUME NEW groups, IsLayout(groups), NEW pe \in PEs, NEW src,
           NEW n, NEW mem, DOMAIN mem = 0 .. 2 * total_neurons_in_pe(groups, pe) - 1,
           NEW sp, RandomInv(groups, src, pe, n, mem, sp),
           n < total_neurons_in_pe(groups, pe), Lucky(src, Owner(groups, pe, n))
    PROVE  LET W == Written(mem, 2 * n, Owner(groups, pe, n), <<src.time>>)
           IN  /\ DOMAIN W = 0 .. 2 * total_neurons_in_pe(groups, pe) - 1
               /\ RandomInv(groups, src, pe, n + 1, W, [sp EXCEPT ![n] = 2 * n])
  <1> DEFINE size  == total_neurons_in_pe(groups, pe)
             room  == 2 * size
             here  == Owner(groups, pe, n)
             times == <<src.time>>
             used  == 2 * n
             later == 2 * (n + 1)
             W     == Written(mem, used, here, times)
             sp2   == [sp EXCEPT ![n] = 2 * n]
  <1>1. /\ n \in Nat /\ n + 1 \in Nat /\ n + 1 <= size /\ size \in Nat
        /\ n \in LocalIds(groups, pe) /\ sp \in [LocalIds(groups, pe) -> Int]
        /\ Blank(mem, 2 * n)
    BY PlacesAreTotal DEF RandomInv, LocalIds
  <1>2. Len(times) = 1
    OBVIOUS
  <1> HIDE DEF size, times
  <1>3. /\ room \in Nat /\ DOMAIN mem = 0 .. room - 1 /\ used + Len(times) < room
        /\ used \in Nat /\ used + Len(times) + 1 = later /\ later \in Nat /\ used <= later
        /\ Len(times) \in Nat
    BY <1>1, <1>2 DEF size
  <1>4. sp2 \in [LocalIds(groups, pe) -> Int] /\ sp2[n] = used
        /\ \A id \in LocalIds(groups, pe) : id # n => sp2[id] = sp[id]
    BY <1>1
  <1>5. used # NULL
    BY <1>1 DEF NULL
  <1>6. Blank(mem, used)
    BY <1>1
  <1> HIDE DEF sp2, W, used, later, room, here
  <1>7. DOMAIN W = 0 .. room - 1
    BY <1>3, WrittenIs DEF W
  <1>8. ArrayAt(W, used, here, times, later) /\ Blank(W, later)
    BY <1>3, <1>6, ArrayWritten DEF W
  <1>9. ASSUME NEW id \in LocalIds(groups, pe)
        PROVE  LET d == Owner(groups, pe, id)
               IN  IF sp2[id] = NULL THEN id < n + 1 => ~ Lucky(src, d)
                   ELSE Lucky(src, d) /\ ArrayAt(W, sp2[id], d, times, later)
    <2> DEFINE d == Owner(groups, pe, id)
    <2>1. IF sp[id] = NULL THEN id < n => ~ Lucky(src, d)
          ELSE Lucky(src, d) /\ ArrayAt(mem, sp[id], d, times, used)
      BY DEF RandomInv, times, used
    <2>2. id \in Nat /\ (id < n + 1 => id < n \/ id = n)
      BY <1>1 DEF LocalIds
    <2>3. CASE id = n
      BY <1>4, <1>5, <1>8, <2>3 DEF here
    <2>4. CASE id # n /\ sp[id] = NULL
      BY <1>4, <2>1, <2>2, <2>4
    <2>5. CASE id # n /\ sp[id] # NULL
      <3>1. ArrayAt(mem, sp[id], d, times, used)
        BY <2>1, <2>5
      <3> HIDE DEF d
      <3>2. used <= used
        BY <1>3
      <3>3. ArrayAt(W, sp[id], d, times, later)
        BY <1>3, <3>1, <3>2, ArrayKept DEF W
      <3> QED
        BY <1>4, <2>1, <2>5, <3>3 DEF d
    <2> QED
      BY <2>3, <2>4, <2>5
  <1>10. RandomInv(groups, src, pe, n + 1, W, sp2)
    BY <1>1, <1>4, <1>8, <1>9 DEF RandomInv, times, later, size
  <1> QED
    BY <1>7, <1>10 DEF W, sp2, room, size, times, here, used

-----------------------------------------------------------------------------
(* All the PEs.                                                             *)

Used(pe) == IF source.format = "1" THEN 2 * j[pe] ELSE j[pe]

LoadInv ==
    /\ neuron_groups \in Layouts /\ source \in Sources
    /\ DOMAIN i = PEs /\ DOMAIN j = PEs /\ DOMAIN naked_spikes = PEs /\ DOMAIN spikes = PEs
    /\ \A pe \in PEs :
          /\ DOMAIN naked_spikes[pe] = 0 .. Room(pe) - 1
          /\ IF source.format = "random"
             THEN RandomInv(neuron_groups, source, pe, i[pe], naked_spikes[pe], spikes[pe])
             ELSE /\ j[pe] \in Nat
                  /\ FileInv(neuron_groups, source.entries, pe, i[pe], Used(pe),
                             naked_spikes[pe], spikes[pe])

\* A sum of ones.
LEMMA SumOfOnes ==
    ASSUME NEW n \in Nat, NEW f \in [1 .. n -> Nat], NEW S, Sums(S, n, f),
           \A k \in 1 .. n : f[k] = 1
    PROVE  S[n] = n
  <1> DEFINE P == {k \in Nat : k <= n => S[k] = k}
  <1>1. 0 \in P
    BY DEF Sums
  <1>2. ASSUME NEW k \in Nat, k + 1 <= n, S[k] = k PROVE S[k + 1] = k + 1
    <2>1. k + 1 \in 1 .. n /\ (k + 1) - 1 = k
      BY <1>2
    <2> QED
      BY <1>2, <2>1 DEF Sums
  <1>3. \A k \in Nat : k \in P => k + 1 \in P
    BY <1>2
  <1>4. \A k \in Nat : k \in P
    <2> HIDE DEF P
    <2> QED
      BY <1>1, <1>3, Induction
  <1> QED
    BY <1>4

\* What the invariant assumes of its constants.
LEMMA SourceIs ==
    ASSUME neuron_groups \in Layouts, source \in Sources
    PROVE  /\ IsLayout(neuron_groups)
           /\ source.format # "random" =>
                /\ IsFile(neuron_groups, source.entries) /\ source.format \in {"1", "2"}
                /\ source.format = "1" =>
                      \A k \in 1 .. Len(source.entries) : Len(source.entries[k].times) = 1
  <1>1. IsLayout(neuron_groups)
    BY SpikesAssumption, BuiltIsLayout
  <1>2. WellFormed(source)
    BY SpikesAssumption
  <1> QED
    BY <1>1, <1>2, EntriesAre DEF WellFormed, IsFile

\* load_spikes.c:57-60, 85-91. The memory has room for the spikes of all of the file and
\* for a zero for as many neurons as it names or the PE has.
LEMMA RoomFits ==
    ASSUME neuron_groups \in Layouts, source \in Sources, source.format # "random",
           NEW pe \in PEs
    PROVE  /\ Room(pe) \in Nat
           /\ \A c \in Nat : c <= Len(source.entries)
                                /\ c <= total_neurons_in_pe(neuron_groups, pe)
                 => SpikesBefore(source.entries)[Len(source.entries)] + c <= Room(pe)
  <1> DEFINE entries == source.entries
             n == Len(entries)
             size == total_neurons_in_pe(neuron_groups, pe)
             S == SpikesBefore(entries)
             f == Lens(entries)
  <1>1. /\ n \in Nat /\ f \in [1 .. n -> Nat] /\ Sums(S, n, f) /\ size \in Nat
        /\ total_spikes = S[n]
    BY SourceIs, EntriesAre, TotalSpikesAre, PlacesAreTotal DEF IsFile
  <1>2. S[n] \in Nat
    <2> HIDE DEF S, n, f, size
    <2> QED
      BY <1>1 DEF Sums
  <1>3. CASE source.format = "1"
    <2>1. \A k \in 1 .. n : f[k] = 1
      BY <1>3, SourceIs DEF Lens
    <2>2. S[n] = n
      <3> HIDE DEF S, n, f, size
      <3> QED
        BY <1>1, <2>1, SumOfOnes
    <2>3. Room(pe) = 2 * total_spikes
      BY <1>3 DEF Room
    <2> HIDE DEF S, n, size, f
    <2>4. Room(pe) \in Nat /\ \A c \in Nat : c <= n /\ c <= size => S[n] + c <= Room(pe)
      BY <1>1, <1>2, <2>2, <2>3
    <2> QED
      BY <2>4 DEF S, n, size
  <1>4. CASE source.format = "2"
    <2>1. Room(pe) = total_spikes + Min({n, size})
      BY <1>4 DEF Room, spikes_in_pe
    <2> HIDE DEF S, n, size, f
    <2>2. Min({n, size}) \in {n, size}
      BY <1>1, MinOfTwo
    <2>3. CASE Min({n, size}) = n
      <3>1. Room(pe) = S[n] + n
        BY <1>1, <2>1, <2>3
      <3>2. Room(pe) \in Nat /\ \A c \in Nat : c <= n => S[n] + c <= Room(pe)
        BY <1>1, <1>2, <3>1
      <3> QED
        BY <3>2 DEF S, n, size
    <2>4. CASE Min({n, size}) = size
      <3>1. Room(pe) = S[n] + size
        BY <1>1, <2>1, <2>4
      <3>2. Room(pe) \in Nat /\ \A c \in Nat : c <= size => S[n] + c <= Room(pe)
        BY <1>1, <1>2, <3>1
      <3> QED
        BY <3>2 DEF S, n, size
    <2> QED
      BY <2>2, <2>3, <2>4
  <1> QED
    BY <1>3, <1>4, SourceIs

\* At the outset nothing is written.
LEMMA LoadInvInit ==
    Init => LoadInv
  <1> SUFFICES ASSUME Init PROVE LoadInv
    OBVIOUS
  <1>1. neuron_groups \in Layouts /\ source \in Sources
        /\ DOMAIN i = PEs /\ DOMAIN j = PEs /\ DOMAIN naked_spikes = PEs /\ DOMAIN spikes = PEs
    BY DEF Init
  <1>2. IsLayout(neuron_groups)
    BY <1>1, SourceIs
  <1>3. ASSUME NEW pe \in PEs
        PROVE  /\ DOMAIN naked_spikes[pe] = 0 .. Room(pe) - 1
               /\ IF source.format = "random"
                  THEN RandomInv(neuron_groups, source, pe, i[pe], naked_spikes[pe], spikes[pe])
                  ELSE /\ j[pe] \in Nat
                       /\ FileInv(neuron_groups, source.entries, pe, i[pe], Used(pe),
                                  naked_spikes[pe], spikes[pe])
    <2> DEFINE mem == naked_spikes[pe]
               sp == spikes[pe]
    <2>1. mem = [a \in 0 .. Room(pe) - 1 |-> Zeroed] /\ i[pe] = 0 /\ j[pe] = 0
      BY DEF Init
    <2>2. sp = [id \in LocalIds(neuron_groups, pe) |-> NULL]
      BY DEF Init, LocalIds
    <2> HIDE DEF mem, sp
    <2>3. \A used : Blank(mem, used)
      BY <2>1 DEF Blank, Zeroed
    <2>4. sp \in [LocalIds(neuron_groups, pe) -> Int]
          /\ \A id \in LocalIds(neuron_groups, pe) : sp[id] = NULL
      BY <2>2 DEF NULL
    <2>5. CASE source.format = "random"
      <3>1. total_neurons_in_pe(neuron_groups, pe) \in Nat
        BY <1>2, PlacesAreTotal
      <3>2. \A id \in LocalIds(neuron_groups, pe) : ~ (id < 0)
        BY DEF LocalIds
      <3>3. RandomInv(neuron_groups, source, pe, 0, mem, sp)
        BY <2>3, <2>4, <3>1, <3>2 DEF RandomInv
      <3> QED
        BY <2>1, <2>5, <3>3 DEF mem, sp
    <2>6. CASE source.format # "random"
      <3> DEFINE entries == source.entries
                 S == SpikesBefore(entries)
      <3>1. entries \in Seq(Entry) /\ Len(entries) \in Nat /\ S[0] = 0
        BY <1>1, <2>6, SourceIs, EntriesAre DEF IsFile, Sums
      <3>2. Used(pe) = 0
        BY <2>1 DEF Used
      <3>3. Filled(neuron_groups, pe, sp) = {}
        BY <2>4 DEF Filled
      <3>4. Cardinality({}) = 0
        BY FS_EmptySet
      <3>5. \A id \in LocalIds(neuron_groups, pe) : Awaits(neuron_groups, entries, pe, 0, id)
        BY DEF Awaits
      <3>6. FileInv(neuron_groups, entries, pe, 0, 0, mem, sp)
        <4> HIDE DEF entries
        <4> QED
          BY <2>3, <2>4, <3>1, <3>3, <3>4, <3>5 DEF FileInv
      <3> QED
        BY <2>1, <2>6, <3>2, <3>6 DEF mem, sp
    <2> QED
      BY <2>1, <2>5, <2>6 DEF mem
  <1> QED
    BY <1>1, <1>3 DEF LoadInv

\* What an iteration of pe leaves of the other PEs.
LEMMA OneMoves ==
    ASSUME LoadInv, UNCHANGED <<neuron_groups, source>>, NEW pe \in PEs,
           DOMAIN i' = PEs, DOMAIN j' = PEs, DOMAIN naked_spikes' = PEs, DOMAIN spikes' = PEs,
           \A q \in PEs \ {pe} : /\ i'[q] = i[q] /\ j'[q] = j[q]
                                 /\ naked_spikes'[q] = naked_spikes[q] /\ spikes'[q] = spikes[q],
           DOMAIN naked_spikes'[pe] = 0 .. Room(pe) - 1,
           IF source.format = "random"
           THEN RandomInv(neuron_groups, source, pe, i'[pe], naked_spikes'[pe], spikes'[pe])
           ELSE /\ j'[pe] \in Nat
                /\ FileInv(neuron_groups, source.entries, pe, i'[pe], Used(pe)',
                           naked_spikes'[pe], spikes'[pe])
    PROVE  LoadInv'
  <1>1. ASSUME NEW q \in PEs PROVE Room(q)' = Room(q)
    <2>1. total_spikes' = total_spikes
      BY DEF total_spikes, FoldLeft, MapThenFoldSet
    <2>2. source' = source /\ neuron_groups' = neuron_groups
      OBVIOUS
    <2> QED
      BY <2>1, <2>2 DEF Room, spikes_in_pe
  <1>2. ASSUME NEW q \in PEs
        PROVE  /\ DOMAIN naked_spikes'[q] = 0 .. Room(q)' - 1
               /\ IF source'.format = "random"
                  THEN RandomInv(neuron_groups', source', q, i'[q], naked_spikes'[q], spikes'[q])
                  ELSE /\ j'[q] \in Nat
                       /\ FileInv(neuron_groups', source'.entries, q, i'[q], Used(q)',
                                  naked_spikes'[q], spikes'[q])
    <2>1. CASE q = pe
      BY <1>1, <2>1
    <2>2. CASE q # pe
      <3>1. Used(q)' = Used(q)
        BY <2>2 DEF Used
      <3>2. naked_spikes'[q] = naked_spikes[q] /\ spikes'[q] = spikes[q] /\ i'[q] = i[q]
            /\ j'[q] = j[q]
        BY <2>2
      <3> QED
        BY <1>1, <3>1, <3>2 DEF LoadInv
    <2> QED
      BY <2>1, <2>2
  <1>3. neuron_groups' \in Layouts /\ source' \in Sources
    BY DEF LoadInv
  <1> QED
    BY <1>2, <1>3 DEF LoadInv

\* An iteration over an entry, in either format.
LEMMA FileStep ==
    ASSUME LoadInv, source.format # "random", UNCHANGED <<neuron_groups, source>>,
           NEW pe \in PEs, i[pe] < Len(source.entries), i' = [i EXCEPT ![pe] = @ + 1],
           LET e == source.entries[i[pe] + 1]
           IN  IF InPE(e.neuron, pe)
               THEN /\ Write(pe, doryta_id_to_local_id(neuron_groups, e.neuron), Used(pe),
                             e.neuron, e.times)
                    /\ j' = [j EXCEPT ![pe] = j'[pe]] /\ j'[pe] \in Nat
                    /\ Used(pe)' = Used(pe) + Len(e.times) + 1
               ELSE Skip
    PROVE  LoadInv'
  <1> DEFINE e == source.entries[i[pe] + 1]
             id == doryta_id_to_local_id(neuron_groups, e.neuron)
             mem == naked_spikes[pe]
             sp == spikes[pe]
  <1>1. /\ neuron_groups \in Layouts /\ source \in Sources
        /\ IsLayout(neuron_groups) /\ IsFile(neuron_groups, source.entries)
        /\ j[pe] \in Nat
        /\ FileInv(neuron_groups, source.entries, pe, i[pe], Used(pe), mem, sp)
        /\ DOMAIN mem = 0 .. Room(pe) - 1
        /\ DOMAIN i = PEs /\ DOMAIN j = PEs /\ DOMAIN naked_spikes = PEs /\ DOMAIN spikes = PEs
    BY SourceIs DEF LoadInv
  <1>2. DOMAIN i' = PEs /\ i'[pe] = i[pe] + 1 /\ \A q \in PEs \ {pe} : i'[q] = i[q]
    BY <1>1
  <1>3. CASE ~ InPE(e.neuron, pe)
    <2>1. UNCHANGED <<j, naked_spikes, spikes>>
      BY <1>3 DEF Skip
    <2>2. FileInv(neuron_groups, source.entries, pe, i[pe] + 1, Used(pe), mem, sp)
      BY <1>1, <1>3, SkipsEntry DEF InPE
    <2>3. Used(pe)' = Used(pe)
      BY <2>1 DEF Used
    <2> QED
      BY <1>1, <1>2, <2>1, <2>2, <2>3, OneMoves
  <1>4. CASE InPE(e.neuron, pe)
    <2> DEFINE W == Written(mem, Used(pe), e.neuron, e.times)
    <2>1. /\ Write(pe, id, Used(pe), e.neuron, e.times)
          /\ j' = [j EXCEPT ![pe] = j'[pe]] /\ j'[pe] \in Nat
          /\ Used(pe)' = Used(pe) + Len(e.times) + 1
      BY <1>4
    <2>2. /\ spikes' = [spikes EXCEPT ![pe] = [sp EXCEPT ![id] = Used(pe)]]
          /\ naked_spikes' = [naked_spikes EXCEPT ![pe] = W]
      BY <2>1 DEF Write, Written
    <2>3. /\ DOMAIN W = 0 .. Room(pe) - 1
          /\ FileInv(neuron_groups, source.entries, pe, i[pe] + 1, Used(pe) + Len(e.times) + 1, W,
                     [sp EXCEPT ![id] = Used(pe)])
      <3>1. Room(pe) \in Nat
            /\ \A c \in Nat : c <= Len(source.entries)
                                 /\ c <= total_neurons_in_pe(neuron_groups, pe)
                  => SpikesBefore(source.entries)[Len(source.entries)] + c <= Room(pe)
        BY <1>1, RoomFits
      <3>2. doryta_id_to_pe(neuron_groups, e.neuron) = pe
        BY <1>4 DEF InPE
      <3> HIDE DEF mem, sp
      <3> QED
        BY <1>1, <3>1, <3>2, KeepsEntry
    <2> HIDE DEF W, mem, sp, id
    <2>4. /\ DOMAIN j' = PEs /\ DOMAIN naked_spikes' = PEs /\ DOMAIN spikes' = PEs
          /\ naked_spikes'[pe] = W /\ spikes'[pe] = [sp EXCEPT ![id] = Used(pe)]
          /\ \A q \in PEs \ {pe} : /\ j'[q] = j[q] /\ naked_spikes'[q] = naked_spikes[q]
                                   /\ spikes'[q] = spikes[q]
      <3>1. DOMAIN j' = PEs /\ \A q \in PEs \ {pe} : j'[q] = j[q]
        BY <1>1, <2>1
      <3> QED
        BY <1>1, <2>2, <3>1
    <2>5. FileInv(neuron_groups, source.entries, pe, i'[pe], Used(pe)', naked_spikes'[pe],
                  spikes'[pe])
      BY <1>2, <2>1, <2>3, <2>4
    <2>6. DOMAIN naked_spikes'[pe] = 0 .. Room(pe) - 1
      BY <2>3, <2>4
    <2> QED
      BY <1>2, <2>1, <2>4, <2>5, <2>6, OneMoves
  <1> QED
    BY <1>3, <1>4

LEMMA RandomStep ==
    ASSUME LoadInv, NEW pe \in PEs, model_random_spikes_init(pe)
    PROVE  LoadInv'
  <1> DEFINE size == total_neurons_in_pe(neuron_groups, pe)
             d == local_id_to_doryta_id_for_pe(neuron_groups, i[pe], pe)
             mem == naked_spikes[pe]
             sp == spikes[pe]
  <1>1. /\ source.format = "random" /\ i[pe] < size
        /\ i' = [i EXCEPT ![pe] = @ + 1] /\ UNCHANGED <<neuron_groups, source>>
        /\ IF Lucky(source, d)
           THEN Write(pe, i[pe], 2 * i[pe], d, <<source.time>>) /\ UNCHANGED j
           ELSE Skip
    BY DEF model_random_spikes_init, Iterate, Lucky
  <1>2. /\ neuron_groups \in Layouts /\ source \in Sources /\ IsLayout(neuron_groups)
        /\ RandomInv(neuron_groups, source, pe, i[pe], mem, sp)
        /\ DOMAIN mem = 0 .. Room(pe) - 1 /\ Room(pe) = 2 * size
        /\ DOMAIN i = PEs /\ DOMAIN j = PEs /\ DOMAIN naked_spikes = PEs /\ DOMAIN spikes = PEs
    BY <1>1, SourceIs DEF LoadInv, Room
  <1>3. DOMAIN i' = PEs /\ i'[pe] = i[pe] + 1 /\ \A q \in PEs \ {pe} : i'[q] = i[q]
    BY <1>1, <1>2
  <1>4. d = Owner(neuron_groups, pe, i[pe])
    <2>1. i[pe] \in LocalIds(neuron_groups, pe)
      BY <1>1, <1>2, PlacesAreTotal DEF RandomInv, LocalIds
    <2> QED
      BY <1>2, <2>1, OwnerIs
  <1> HIDE DEF d, mem, sp
  <1>5. CASE ~ Lucky(source, d)
    <2>1. UNCHANGED <<j, naked_spikes, spikes>>
      BY <1>1, <1>5 DEF Skip
    <2>2. RandomInv(neuron_groups, source, pe, i[pe] + 1, mem, sp)
      BY <1>1, <1>2, <1>4, <1>5, SkipsNeuron
    <2>3. /\ naked_spikes'[pe] = mem /\ spikes'[pe] = sp
          /\ \A q \in PEs \ {pe} : /\ j'[q] = j[q] /\ naked_spikes'[q] = naked_spikes[q]
                                   /\ spikes'[q] = spikes[q]
      BY <2>1 DEF mem, sp
    <2> QED
      BY <1>1, <1>2, <1>3, <2>1, <2>2, <2>3, OneMoves
  <1>6. CASE Lucky(source, d)
    <2> DEFINE W == Written(mem, 2 * i[pe], d, <<source.time>>)
    <2>1. Write(pe, i[pe], 2 * i[pe], d, <<source.time>>) /\ UNCHANGED j
      BY <1>1, <1>6
    <2>2. /\ spikes' = [spikes EXCEPT ![pe] = [sp EXCEPT ![i[pe]] = 2 * i[pe]]]
          /\ naked_spikes' = [naked_spikes EXCEPT ![pe] = W]
      BY <2>1 DEF Write, Written, mem, sp
    <2>3. /\ DOMAIN W = 0 .. Room(pe) - 1
          /\ RandomInv(neuron_groups, source, pe, i[pe] + 1, W, [sp EXCEPT ![i[pe]] = 2 * i[pe]])
      BY <1>1, <1>2, <1>4, <1>6, KeepsNeuron
    <2> HIDE DEF W
    <2>4. /\ DOMAIN j' = PEs /\ DOMAIN naked_spikes' = PEs /\ DOMAIN spikes' = PEs
          /\ naked_spikes'[pe] = W /\ spikes'[pe] = [sp EXCEPT ![i[pe]] = 2 * i[pe]]
          /\ \A q \in PEs \ {pe} : /\ j'[q] = j[q] /\ naked_spikes'[q] = naked_spikes[q]
                                   /\ spikes'[q] = spikes[q]
      BY <1>2, <2>1, <2>2
    <2> QED
      BY <1>1, <1>3, <2>3, <2>4, OneMoves
  <1> QED
    BY <1>5, <1>6

LEMMA LoadInductive ==
    Spec => []LoadInv
  <1>1. LoadInv /\ [Next]_vars => LoadInv'
    <2> SUFFICES ASSUME LoadInv, [Next]_vars PROVE LoadInv'
      OBVIOUS
    <2>1. CASE UNCHANGED vars
      <3>1. /\ UNCHANGED <<neuron_groups, source>> /\ UNCHANGED i /\ UNCHANGED j
            /\ UNCHANGED naked_spikes /\ UNCHANGED spikes
        BY <2>1 DEF vars
      <3>2. total_spikes' = total_spikes
        BY <3>1 DEF total_spikes, FoldLeft, MapThenFoldSet
      <3>3. \A pe \in PEs : Room(pe)' = Room(pe)
        BY <3>1, <3>2 DEF Room, spikes_in_pe
      <3>4. \A pe \in PEs : Used(pe)' = Used(pe)
        BY <3>1 DEF Used
      <3> QED
        BY <3>1, <3>3, <3>4 DEF LoadInv
    <2>2. ASSUME NEW pe \in PEs, load_format_1(pe) PROVE LoadInv'
      <3> DEFINE e == source.entries[i[pe] + 1]
      <3>1. /\ source.format = "1" /\ i[pe] < Len(source.entries)
            /\ i' = [i EXCEPT ![pe] = @ + 1] /\ UNCHANGED <<neuron_groups, source>>
            /\ IF InPE(e.neuron, pe)
               THEN /\ Write(pe, doryta_id_to_local_id(neuron_groups, e.neuron), 2 * j[pe],
                             e.neuron, e.times)
                    /\ j' = [j EXCEPT ![pe] = @ + 1]
               ELSE Skip
        BY <2>2 DEF load_format_1, Iterate
      <3>2. Len(e.times) = 1
        <4>1. i[pe] + 1 \in 1 .. Len(source.entries)
          BY <3>1, SourceIs, EntriesAre DEF LoadInv, FileInv, IsFile
        <4> QED
          BY <3>1, <4>1, SourceIs DEF LoadInv
      <3>3. j[pe] \in Nat /\ DOMAIN j = PEs /\ Used(pe) = 2 * j[pe]
        BY <3>1 DEF LoadInv, Used
      <3>4. j' = [j EXCEPT ![pe] = @ + 1]
              => /\ j' = [j EXCEPT ![pe] = j'[pe]] /\ j'[pe] \in Nat
                 /\ Used(pe)' = Used(pe) + Len(e.times) + 1
        <4> SUFFICES ASSUME j' = [j EXCEPT ![pe] = @ + 1]
                     PROVE  /\ j' = [j EXCEPT ![pe] = j'[pe]] /\ j'[pe] \in Nat
                            /\ Used(pe)' = Used(pe) + Len(e.times) + 1
          OBVIOUS
        <4> HIDE DEF e
        <4>1. j'[pe] = j[pe] + 1
          BY <3>3
        <4>2. Used(pe)' = 2 * (j[pe] + 1)
          BY <3>1, <4>1 DEF Used
        <4> QED
          BY <3>2, <3>3, <4>1, <4>2
      <3>5. IF InPE(e.neuron, pe)
            THEN /\ Write(pe, doryta_id_to_local_id(neuron_groups, e.neuron), Used(pe),
                          e.neuron, e.times)
                 /\ j' = [j EXCEPT ![pe] = j'[pe]] /\ j'[pe] \in Nat
                 /\ Used(pe)' = Used(pe) + Len(e.times) + 1
            ELSE Skip
        <4> HIDE DEF e
        <4> QED
          BY <3>1, <3>3, <3>4
      <3>6. source.format # "random"
        BY <3>1
      <3> QED
        BY <3>1, <3>5, <3>6, FileStep
    <2>3. ASSUME NEW pe \in PEs, load_format_2(pe) PROVE LoadInv'
      <3> DEFINE e == source.entries[i[pe] + 1]
      <3>1. /\ source.format = "2" /\ i[pe] < Len(source.entries)
            /\ i' = [i EXCEPT ![pe] = @ + 1] /\ UNCHANGED <<neuron_groups, source>>
            /\ IF InPE(e.neuron, pe)
               THEN /\ Write(pe, doryta_id_to_local_id(neuron_groups, e.neuron), j[pe],
                             e.neuron, e.times)
                    /\ j' = [j EXCEPT ![pe] = @ + (Len(e.times) + 1)]
               ELSE Skip
        BY <2>3 DEF load_format_2, Iterate, Advance
      <3>2. Len(e.times) \in Nat
        <4>1. i[pe] + 1 \in 1 .. Len(source.entries)
          BY <3>1, SourceIs, EntriesAre DEF LoadInv, FileInv, IsFile
        <4> QED
          BY <3>1, <4>1, SourceIs, EntriesAre DEF LoadInv, IsFile
      <3>3. j[pe] \in Nat /\ DOMAIN j = PEs /\ Used(pe) = j[pe]
        BY <3>1 DEF LoadInv, Used
      <3>4. j' = [j EXCEPT ![pe] = @ + (Len(e.times) + 1)]
              => /\ j' = [j EXCEPT ![pe] = j'[pe]] /\ j'[pe] \in Nat
                 /\ Used(pe)' = Used(pe) + Len(e.times) + 1
        <4> SUFFICES ASSUME j' = [j EXCEPT ![pe] = @ + (Len(e.times) + 1)]
                     PROVE  /\ j' = [j EXCEPT ![pe] = j'[pe]] /\ j'[pe] \in Nat
                            /\ Used(pe)' = Used(pe) + Len(e.times) + 1
          OBVIOUS
        <4> HIDE DEF e
        <4>1. j'[pe] = j[pe] + (Len(e.times) + 1)
          BY <3>3
        <4>2. Used(pe)' = j'[pe]
          BY <3>1 DEF Used
        <4> QED
          BY <3>2, <3>3, <4>1, <4>2
      <3>5. IF InPE(e.neuron, pe)
            THEN /\ Write(pe, doryta_id_to_local_id(neuron_groups, e.neuron), Used(pe),
                          e.neuron, e.times)
                 /\ j' = [j EXCEPT ![pe] = j'[pe]] /\ j'[pe] \in Nat
                 /\ Used(pe)' = Used(pe) + Len(e.times) + 1
            ELSE Skip
        <4> HIDE DEF e
        <4> QED
          BY <3>1, <3>3, <3>4
      <3>6. source.format # "random"
        BY <3>1
      <3> QED
        BY <3>1, <3>5, <3>6, FileStep
    <2>4. ASSUME NEW pe \in PEs, model_random_spikes_init(pe) PROVE LoadInv'
      BY <2>4, RandomStep
    <2> QED
      BY <2>1, <2>2, <2>3, <2>4 DEF Next
  <1> QED
    BY <1>1, LoadInvInit, PTL DEF Spec

-----------------------------------------------------------------------------
(* What follows.                                                            *)

\* What a PE has for one of its neurons.
LEMMA ArrayOf ==
    ASSUME LoadInv, NEW pe \in PEs, NEW id \in LocalIds(neuron_groups, pe)
    PROVE  LET d == Owner(neuron_groups, pe, id)
               start == spikes[pe][id]
           IN  /\ Room(pe) \in Nat
               /\ start # NULL => ArrayAt(naked_spikes[pe], start, d, TimesOf(d), Room(pe))
               /\ start = NULL /\ Loaded(pe) => TimesOf(d) = <<>>
               /\ start # NULL => /\ Len(TimesOf(d)) \in Nat
                                   /\ DOMAIN TimesOf(d) = 1 .. Len(TimesOf(d))
  <1> DEFINE d == Owner(neuron_groups, pe, id)
             mem == naked_spikes[pe]
             sp == spikes[pe]
             size == total_neurons_in_pe(neuron_groups, pe)
             entries == source.entries
  <1>1. /\ neuron_groups \in Layouts /\ source \in Sources /\ IsLayout(neuron_groups)
        /\ size \in Nat
    BY SourceIs, PlacesAreTotal DEF LoadInv
  <1> HIDE DEF d, mem, sp
  <1>2. CASE source.format = "random"
    <2>1. RandomInv(neuron_groups, source, pe, i[pe], mem, sp) /\ Room(pe) = 2 * size
      BY <1>2 DEF LoadInv, Room, mem, sp
    <2>2. TimesOf(d) = IF Lucky(source, d) THEN <<source.time>> ELSE <<>>
      BY <1>2 DEF TimesOf, Lucky
    <2>3. i[pe] \in Nat /\ i[pe] <= size
      BY <2>1 DEF RandomInv
    <2>4. CASE sp[id] = NULL
      <3>1. Loaded(pe) => id < i[pe]
        BY <1>1, <1>2 DEF Loaded, LocalIds
      <3>2. id < i[pe] => ~ Lucky(source, d)
        BY <2>1, <2>4 DEF RandomInv, d
      <3> QED
        BY <1>1, <2>1, <2>2, <2>4, <3>1, <3>2 DEF d, sp
    <2>5. CASE sp[id] # NULL
      <3>1. Lucky(source, d) /\ ArrayAt(mem, sp[id], d, <<source.time>>, 2 * i[pe])
        BY <2>1, <2>5 DEF RandomInv, d
      <3>2. /\ Len(<<source.time>>) = 1 /\ DOMAIN <<source.time>> = 1 .. 1
            /\ 2 * i[pe] <= Room(pe) /\ Room(pe) \in Nat /\ 2 * i[pe] \in Nat
        BY <1>1, <2>1, <2>3
      <3>3. ArrayAt(mem, sp[id], d, <<source.time>>, Room(pe))
        BY <3>1, <3>2 DEF ArrayAt
      <3> QED
        BY <2>2, <2>5, <3>1, <3>2, <3>3 DEF d, mem, sp
    <2> QED
      BY <2>4, <2>5
  <1>3. CASE source.format # "random"
    <2>1. IsFile(neuron_groups, entries) /\ Room(pe) \in Nat
      BY <1>1, <1>3, SourceIs, RoomFits
    <2>2. FileInv(neuron_groups, entries, pe, i[pe], Used(pe), mem, sp)
      BY <1>3 DEF LoadInv, mem, sp
    <2>3. i[pe] \in 0 .. Len(entries) /\ Len(entries) \in Nat
      BY <2>1, <2>2, EntriesAre DEF FileInv, IsFile
    <2>4. Used(pe) \in Nat /\ Used(pe) <= Room(pe)
      <3> DEFINE S == SpikesBefore(entries)
                 n == Len(entries)
                 f == Lens(entries)
                 c == Cardinality(Filled(neuron_groups, pe, sp))
      <3>1. n \in Nat /\ f \in [1 .. n -> Nat] /\ Sums(S, n, f)
        BY <2>1, EntriesAre DEF IsFile
      <3>2. i[pe] \in 0 .. n /\ n \in 0 .. n /\ i[pe] <= n
        BY <2>3
      <3>3. S[i[pe]] <= S[n] /\ S[i[pe]] \in Nat /\ S[n] \in Nat
        <4> HIDE DEF S, n, f
        <4> QED
          BY <3>1, <3>2, SumsGrow
      <3>4. c \in Nat /\ c <= size
        BY <1>1, FilledIs
      <3>5. c <= i[pe] /\ Used(pe) \in Nat /\ Used(pe) <= S[i[pe]] + c
        BY <2>2 DEF FileInv
      <3> HIDE DEF c
      <3>6. c <= n
        BY <3>2, <3>4, <3>5
      <3>7. S[n] + c <= Room(pe)
        BY <1>1, <1>3, <3>4, <3>6, RoomFits
      <3> HIDE DEF S, n
      <3> QED
        BY <2>1, <3>2, <3>3, <3>4, <3>5, <3>7
    <2>5. CASE sp[id] = NULL
      <3>1. Awaits(neuron_groups, entries, pe, i[pe], id)
        BY <2>2, <2>5 DEF FileInv
      <3>2. Loaded(pe) => i[pe] = Len(entries)
        BY <1>3 DEF Loaded
      <3>3. Loaded(pe) => TimesOf(d) = <<>>
        BY <1>3, <2>1, <3>1, <3>2, TimesInFile DEF Awaits, d
      <3> QED
        BY <2>1, <2>5, <3>3 DEF d, sp
    <2>6. CASE sp[id] # NULL
      <3>1. Has(neuron_groups, entries, pe, i[pe], Used(pe), mem, sp[id], id)
        BY <2>2, <2>6 DEF FileInv
      <3>2. PICK k \in 1 .. i[pe] : /\ entries[k].neuron = d
                                    /\ ArrayAt(mem, sp[id], d, entries[k].times, Used(pe))
        BY <3>1 DEF Has, d
      <3>3. k \in 1 .. Len(entries)
        BY <2>3
      <3>4. /\ Len(entries[k].times) \in Nat
            /\ DOMAIN entries[k].times = 1 .. Len(entries[k].times)
        <4>1. entries[k].times \in Seq(Nat)
          BY <2>1, <3>3, EntriesAre DEF IsFile
        <4> QED
          BY <4>1
      <3>5. TimesOf(d) = entries[k].times
        BY <1>3, <2>1, <3>2, <3>3, TimesInFile
      <3>6. ArrayAt(mem, sp[id], d, entries[k].times, Room(pe))
        BY <2>1, <2>4, <3>2, <3>4 DEF ArrayAt
      <3> QED
        BY <2>1, <2>6, <3>4, <3>5, <3>6 DEF d, mem, sp
    <2> QED
      BY <2>5, <2>6
  <1> QED
    BY <1>2, <1>3

\* load_spikes.c:85-91, 115-117. Whatever the file and wherever its neurons live, no PE
\* writes outside of its memory, and every array there ends.
THEOREM MemorySuffices ==
    Spec => []RoomSuffices
  <1>1. LoadInv => RoomSuffices
    <2> SUFFICES ASSUME LoadInv, NEW pe \in PEs
                 PROVE  /\ DOMAIN naked_spikes[pe] = 0 .. Room(pe) - 1
                        /\ \A id \in DOMAIN spikes[pe] :
                              spikes[pe][id] # NULL => EndOf(pe, spikes[pe][id]) < Room(pe)
      BY DEF RoomSuffices
    <2>1. DOMAIN naked_spikes[pe] = 0 .. Room(pe) - 1
      BY DEF LoadInv
    <2>2. DOMAIN spikes[pe] = LocalIds(neuron_groups, pe)
      BY DEF LoadInv, FileInv, RandomInv
    <2>3. ASSUME NEW id \in DOMAIN spikes[pe], spikes[pe][id] # NULL
          PROVE  EndOf(pe, spikes[pe][id]) < Room(pe)
      <3> DEFINE d == Owner(neuron_groups, pe, id)
                 start == spikes[pe][id]
      <3>1. /\ Room(pe) \in Nat /\ Len(TimesOf(d)) \in Nat
            /\ ArrayAt(naked_spikes[pe], start, d, TimesOf(d), Room(pe))
        BY <2>2, <2>3, ArrayOf
      <3> DEFINE times == TimesOf(d)
                 room == Room(pe)
      <3>2. /\ Len(times) \in Nat /\ Sized(naked_spikes[pe], room) /\ room \in Nat
            /\ ArrayAt(naked_spikes[pe], start, d, times, room)
        BY <2>1, <3>1 DEF Sized
      <3> HIDE DEF d, start, times, room
      <3>3. EndOf(pe, start) = start + Len(times)
        BY <3>2, ArrayRead
      <3>4. EndOf(pe, start) < room
        BY <3>2, <3>3 DEF ArrayAt
      <3> QED
        BY <3>4 DEF start, room
    <2> QED
      BY <2>1, <2>3
  <1> QED
    BY <1>1, LoadInductive, PTL

\* neuron.c:98, 138-147; storable_spikes.h:11-19. Wherever the layout has put them and in
\* whatever order the file names them, each neuron's array is its own spikes, in order.
THEOREM EverySpikeArrives ==
    Spec => []SpikesReachOwners
  <1>1. LoadInv => SpikesReachOwners
    <2> SUFFICES ASSUME LoadInv, NEW pe \in PEs, Loaded(pe), NEW id \in DOMAIN spikes[pe]
                 PROVE  LET d == LocalNeurons(neuron_groups, pe)[id + 1]
                        IN  Found(pe, id) = [k \in DOMAIN TimesOf(d) |->
                              [neuron |-> d, time |-> TimesOf(d)[k], intensity |-> 1]]
      BY DEF SpikesReachOwners
    <2> DEFINE d == Owner(neuron_groups, pe, id)
               start == spikes[pe][id]
    <2>1. DOMAIN naked_spikes[pe] = 0 .. Room(pe) - 1
      BY DEF LoadInv
    <2>2. DOMAIN spikes[pe] = LocalIds(neuron_groups, pe)
      BY DEF LoadInv, FileInv, RandomInv
    <2>3. /\ Room(pe) \in Nat
          /\ start # NULL => ArrayAt(naked_spikes[pe], start, d, TimesOf(d), Room(pe))
          /\ start = NULL => TimesOf(d) = <<>>
          /\ start # NULL => /\ Len(TimesOf(d)) \in Nat
                              /\ DOMAIN TimesOf(d) = 1 .. Len(TimesOf(d))
      BY <2>2, ArrayOf
    <2> HIDE DEF d
    <2>4. CASE start = NULL
      <3>1. Found(pe, id) = <<>>
        BY <2>4 DEF Found
      <3>2. [k \in DOMAIN <<>> |-> [neuron |-> d, time |-> TimesOf(d)[k], intensity |-> 1]] = <<>>
        OBVIOUS
      <3> QED
        BY <2>3, <2>4, <3>1, <3>2 DEF d, Owner
    <2>5. CASE start # NULL
      <3>1. Found(pe, id) = Read(pe, start)
        BY <2>5 DEF Found, Read
      <3> DEFINE times == TimesOf(d)
                 room == Room(pe)
      <3>2. /\ Len(times) \in Nat /\ Sized(naked_spikes[pe], room)
            /\ ArrayAt(naked_spikes[pe], start, d, times, room)
            /\ DOMAIN times = 1 .. Len(times)
        BY <2>1, <2>3, <2>5 DEF Sized
      <3> HIDE DEF start, times, room
      <3>3. Read(pe, start) = Spikes(d, times)
        BY <3>2, ArrayRead
      <3>4. Spikes(d, times) = [k \in DOMAIN times |->
                                  [neuron |-> d, time |-> times[k], intensity |-> 1]]
        BY <3>2 DEF Spikes
      <3> QED
        BY <3>1, <3>3, <3>4 DEF times, d, Owner
    <2> QED
      BY <2>4, <2>5
  <1> QED
    BY <1>1, LoadInductive, PTL
=============================================================================
