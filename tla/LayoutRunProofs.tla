--------------------------- MODULE LayoutRunProofs ---------------------------
(***************************************************************************)
(* Theorems about Layout, for any number of PEs and any groups: the        *)
(* conversions agree with the LPs that ROSS is told of, each PE keeps its  *)
(* neurons in the order of their doryta ids, it has room for all the       *)
(* synapses it lays down, and those are the ones that were asked for.      *)
(***************************************************************************)
EXTENDS Layout, LayoutProofs

\* What map_pseudo_linear tells ROSS of a PE.
LPsOf(groups, pe) ==
    LET nlp == total_neurons_in_pe(groups, pe)
    IN  [i \in 1 .. nlp |-> [gid |-> pe_gid_offset(groups, pe) + i - 1,
                             kp  |-> (i - 1) \div divceil_i32(nlp, g_tw_nkp)]]

LayoutInv ==
    /\ IsLayout(neuron_groups)
    /\ phase = "mapped" => \A pe \in PEs : lps[pe] = LPsOf(neuron_groups, pe)

\* A definition that is accepted joins the groups as they are.
LEMMA GroupJoins ==
    ASSUME NEW size \in GroupSizes, NEW place \in Placements, MayDefine(place),
           IsLayout(neuron_groups)
    PROVE  IsLayout(WithNeurons(size, place))
  <1>1. place[1] \in PEs /\ place[2] \in PEs /\ size \in Nat
    BY LayoutAssumption, NodesAssumption DEF MayDefine, PEs
  <1> QED
    BY <1>1, LayoutGrows DEF WithNeurons

LEMMA LayoutInductive ==
    Spec => []LayoutInv
  <1>1. Init => LayoutInv
    BY EmptyLayout DEF Init, LayoutInv
  <1>2. LayoutInv /\ [Next]_vars => LayoutInv'
    <2> SUFFICES ASSUME LayoutInv, [Next]_vars PROVE LayoutInv'
      OBVIOUS
    <2>1. CASE UNCHANGED vars
      BY <2>1 DEF LayoutInv, vars
    <2>2. ASSUME NEW size \in GroupSizes, NEW place \in Placements,
                 layout_master_neurons(size, place)
          PROVE  LayoutInv'
      <3>1. CASE MayDefine(place)
        <4>1. neuron_groups' = WithNeurons(size, place) /\ phase' = "defining"
          BY <2>2, <3>1 DEF layout_master_neurons
        <4>2. IsLayout(WithNeurons(size, place))
          BY <3>1, GroupJoins DEF LayoutInv
        <4> QED
          BY <4>1, <4>2 DEF LayoutInv
      <3>2. CASE ~ MayDefine(place)
        BY <2>2, <3>2 DEF layout_master_neurons, tw_error, LayoutInv
      <3> QED
        BY <3>1, <3>2
    <2>3. ASSUME NEW size \in GroupSizes, NEW place \in Placements,
                 layout_std_fully_connected_network(size, place)
          PROVE  LayoutInv'
      <3>1. \/ MayDefine(place) /\ neuron_groups' = WithNeurons(size, place) /\ phase' = "defining"
            \/ tw_error
        BY <2>3 DEF layout_std_fully_connected_network, Connect
      <3>2. MayDefine(place) => IsLayout(WithNeurons(size, place))
        BY GroupJoins DEF LayoutInv
      <3> QED
        BY <3>1, <3>2 DEF LayoutInv, tw_error
    <2>4. ASSUME NEW size \in GroupSizes, NEW place \in Placements,
                 layout_std_fully_connected_layer(size, place)
          PROVE  LayoutInv'
      <3>1. \/ MayDefine(place) /\ neuron_groups' = WithNeurons(size, place) /\ phase' = "defining"
            \/ tw_error
        BY <2>4 DEF layout_std_fully_connected_layer, Connect
      <3>2. MayDefine(place) => IsLayout(WithNeurons(size, place))
        BY GroupJoins DEF LayoutInv
      <3> QED
        BY <3>1, <3>2 DEF LayoutInv, tw_error
    <2>5. ASSUME NEW from \in FromRanges, NEW to \in ToRanges,
                 layout_master_synapses_all2all(from, to)
          PROVE  LayoutInv'
      <3>1. neuron_groups' = neuron_groups /\ phase' # "mapped"
        BY <2>5 DEF layout_master_synapses_all2all, Connect, tw_error
      <3> QED
        BY <3>1 DEF LayoutInv
    <2>6. ASSUME NEW from \in FromRanges, NEW to \in ToRanges, NEW params \in ConvParams,
                 layout_master_synapses_conv2d(from, to, params)
          PROVE  LayoutInv'
      <3>1. neuron_groups' = neuron_groups /\ phase' # "mapped"
        BY <2>6 DEF layout_master_synapses_conv2d, Connect, tw_error
      <3> QED
        BY <3>1 DEF LayoutInv
    <2>7. CASE layout_master_init
      BY <2>7 DEF layout_master_init, LayoutInv
    <2>8. CASE map_pseudo_linear
      <3>1. CASE \E pe \in PEs : total_neurons_in_pe(neuron_groups, pe) = 0
        BY <2>8, <3>1 DEF map_pseudo_linear, tw_error, LayoutInv
      <3>2. CASE ~ \E pe \in PEs : total_neurons_in_pe(neuron_groups, pe) = 0
        <4>1. /\ neuron_groups' = neuron_groups
              /\ lps' = [pe \in PEs |-> LPsOf(neuron_groups, pe)]
          BY <2>8, <3>2 DEF map_pseudo_linear, LPsOf
        <4>2. \A pe \in PEs : lps'[pe] = LPsOf(neuron_groups, pe)
          BY <4>1
        <4> QED
          BY <4>1, <4>2 DEF LayoutInv
      <3> QED
        BY <3>1, <3>2
    <2>9. CASE layout_master_free
      BY <2>9 DEF layout_master_free, LayoutInv
    <2> QED
      BY <2>1, <2>2, <2>3, <2>4, <2>5, <2>6, <2>7, <2>8, <2>9 DEF Next
  <1> QED
    BY <1>1, <1>2, PTL DEF Spec

\* Shared out over the KPs, rounded up, no LP is left for a KP that there is not.
LEMMA EnoughKPs ==
    ASSUME NEW nlp \in Nat \ {0}, NEW nkp \in Nat \ {0}, NEW i \in 1 .. nlp
    PROVE  (i - 1) \div divceil_i32(nlp, nkp) < nkp
  <1> DEFINE q == (-nlp) \div nkp
             r == (-nlp) % nkp
             c == -q
  <1>1. q \in Int /\ r \in 0 .. nkp - 1 /\ -nlp = nkp * q + r
    OBVIOUS
  <1>2. divceil_i32(nlp, nkp) = c
    BY DEF divceil_i32
  <1> HIDE DEF q, r
  <1>3. c \in Int /\ nlp = nkp * c - r
    BY <1>1
  <1> HIDE DEF c
  <1>4. c > 0
    <2> SUFFICES ASSUME c <= 0 PROVE FALSE
      BY <1>3
    <2>1. nkp * c <= 0
      BY <1>3
    <2> QED
      BY <1>1, <1>3, <2>1
  <1>5. i - 1 \in Nat /\ i - 1 < nkp * c /\ c \in Nat \ {0} /\ nkp \in Nat
    BY <1>1, <1>3, <1>4
  <1>6. (i - 1) \div c \in 0 .. nkp - 1
    BY <1>5, InBlock
  <1> QED
    BY <1>2, <1>6

\* master.c:651-797, 805-860. Once ROSS has its LPs, the conversions agree with each other,
\* with the arrays of the PEs and with those LPs, and every LP has a KP.
THEOREM MapsAgree ==
    Spec => []IdMapsAgree
  <1>1. LayoutInv => IdMapsAgree
    <2> SUFFICES ASSUME LayoutInv, phase = "mapped" PROVE IdMapsAgree
      BY DEF IdMapsAgree
    <2> DEFINE G == neuron_groups
    <2>1. IsLayout(G) /\ \A pe \in PEs : lps[pe] = LPsOf(G, pe)
      BY DEF LayoutInv
    <2>2. \A pe \in PEs : total_neurons_in_pe(G, pe) \in Nat /\ pe_gid_offset(G, pe) \in Int
      <3>1. ASSUME NEW pe \in PEs
            PROVE  total_neurons_in_pe(G, pe) \in Nat /\ max_num_neurons_per_pe(G) \in Nat /\ pe \in Int
        BY <2>1, LocalNeuronsAreSeq, WithinWidest DEF PEs
      <3> QED
        BY <3>1 DEF pe_gid_offset
    <2>3. \A pe \in PEs : \A i \in 1 .. total_neurons_in_pe(G, pe) :
             /\ lps[pe][i].gid = pe_gid_offset(G, pe) + i - 1
             /\ lps[pe][i].kp = (i - 1) \div divceil_i32(total_neurons_in_pe(G, pe), g_tw_nkp)
      <3> SUFFICES ASSUME NEW pe \in PEs, NEW i \in 1 .. total_neurons_in_pe(G, pe)
                   PROVE  /\ lps[pe][i].gid = pe_gid_offset(G, pe) + i - 1
                          /\ lps[pe][i].kp
                               = (i - 1) \div divceil_i32(total_neurons_in_pe(G, pe), g_tw_nkp)
        OBVIOUS
      <3> DEFINE gid == pe_gid_offset(G, pe) + i - 1
                 kp  == (i - 1) \div divceil_i32(total_neurons_in_pe(G, pe), g_tw_nkp)
      <3>1. LPsOf(G, pe)[i] = [gid |-> gid, kp |-> kp]
        BY DEF LPsOf
      <3>2. lps[pe] = LPsOf(G, pe)
        BY <2>1
      <3> HIDE DEF G, gid, kp
      <3>3. lps[pe][i].gid = gid /\ lps[pe][i].kp = kp
        BY <3>1, <3>2
      <3> QED
        BY <3>3 DEF gid, kp
    <2>4. \A pe \in PEs : DOMAIN lps[pe] = 1 .. total_neurons_in_pe(G, pe)
      BY <2>1 DEF LPsOf
    <2>5. ASSUME NEW d \in 0 .. TotalNeurons(G) - 1
          PROVE  LET gid   == doryta_id_to_gid(G, d)
                     pe    == gid_to_pe(G, gid)
                     local == doryta_id_to_local_id(G, d)
                 IN  /\ pe \in PEs /\ local + 1 \in DOMAIN lps[pe]
                     /\ lps[pe][local + 1].gid = gid
                     /\ LocalNeurons(G, pe)[local + 1] = d
                     /\ gid_to_doryta_id(G, gid) = d
      <3> HIDE DEF G
      <3>1. PICK pe \in PEs : \E i \in 0 .. total_neurons_in_pe(G, pe) - 1 : PlacedAt(G, d, pe, i)
        BY <2>1, EveryNeuronHasAPlace
      <3>2. PICK i \in 0 .. total_neurons_in_pe(G, pe) - 1 : PlacedAt(G, d, pe, i)
        BY <3>1
      <3>3. i + 1 \in 1 .. total_neurons_in_pe(G, pe) /\ i \in Int /\ pe_gid_offset(G, pe) \in Int
        BY <2>2
      <3>4. lps[pe][i + 1].gid = pe_gid_offset(G, pe) + i /\ i + 1 \in DOMAIN lps[pe]
        <4>1. lps[pe][i + 1].gid = pe_gid_offset(G, pe) + (i + 1) - 1
          BY <2>3, <3>3
        <4>2. pe_gid_offset(G, pe) + (i + 1) - 1 = pe_gid_offset(G, pe) + i
          BY <3>3
        <4> QED
          BY <2>4, <3>3, <4>1, <4>2
      <3> QED
        BY <3>2, <3>4 DEF PlacedAt
    <2>6. ASSUME NEW pe \in PEs, NEW i \in DOMAIN lps[pe]
          PROVE  /\ gid_to_doryta_id(G, lps[pe][i].gid) = LocalNeurons(G, pe)[i]
                 /\ lps[pe][i].kp < g_tw_nkp
      <3> HIDE DEF G
      <3> DEFINE nlp == total_neurons_in_pe(G, pe)
      <3>1. nlp \in Nat /\ i \in 1 .. nlp /\ pe_gid_offset(G, pe) \in Int
        BY <2>2, <2>4
      <3>2. i - 1 \in 0 .. nlp - 1 /\ (i - 1) + 1 = i /\ nlp \in Nat \ {0}
        BY <3>1
      <3>3. PlacedAt(G, LocalNeurons(G, pe)[(i - 1) + 1], pe, i - 1)
        BY <2>1, <3>2, EveryPlaceHasANeuron
      <3>4. lps[pe][i].gid = pe_gid_offset(G, pe) + (i - 1)
        BY <2>3, <3>1
      <3>5. lps[pe][i].kp = (i - 1) \div divceil_i32(nlp, g_tw_nkp)
        BY <2>3, <3>1
      <3>6. (i - 1) \div divceil_i32(nlp, g_tw_nkp) < g_tw_nkp
        <4> HIDE DEF nlp
        <4> QED
          BY <3>1, <3>2, LayoutAssumption, EnoughKPs
      <3>7. gid_to_doryta_id(G, lps[pe][i].gid) = LocalNeurons(G, pe)[i]
        BY <3>2, <3>3, <3>4 DEF PlacedAt
      <3> QED
        BY <3>5, <3>6, <3>7
    <2> QED
      BY <2>5, <2>6 DEF IdMapsAgree, Neuron
  <1> QED
    BY <1>1, LayoutInductive, PTL

\* load_neurons.c:108-109, 273-274. At any time the doryta ids of a PE ascend with the local
\* ids, so that a file in the order of the definitions can be read in one pass.
THEOREM FilesReadInOnePass ==
    Spec => []LocalOrder
  <1>1. LayoutInv => LocalOrder
    <2> SUFFICES ASSUME LayoutInv, NEW pe \in PEs,
                        NEW i \in DOMAIN LocalNeurons(neuron_groups, pe),
                        NEW j \in DOMAIN LocalNeurons(neuron_groups, pe), i < j
                 PROVE  LocalNeurons(neuron_groups, pe)[i] < LocalNeurons(neuron_groups, pe)[j]
      BY DEF LocalOrder
    <2> DEFINE n == total_neurons_in_pe(neuron_groups, pe)
    <2>1. IsLayout(neuron_groups)
      BY DEF LayoutInv
    <2>2. n \in Nat /\ DOMAIN LocalNeurons(neuron_groups, pe) = 1 .. n
      BY <2>1, LocalNeuronsAreSeq
    <2>3. i - 1 \in 0 .. n - 1 /\ j - 1 \in 0 .. n - 1 /\ i - 1 < j - 1
          /\ (i - 1) + 1 = i /\ (j - 1) + 1 = j
      BY <2>2
    <2>4. LocalNeurons(neuron_groups, pe)[(i - 1) + 1] < LocalNeurons(neuron_groups, pe)[(j - 1) + 1]
      BY <2>1, <2>3, PlacesInOrder
    <2> QED
      BY <2>3, <2>4
  <1> QED
    BY <1>1, LayoutInductive, PTL

-----------------------------------------------------------------------------
(* The neurons of a PE within a range: those that each group has there, and *)
(* those of its local ids that lie in the range.                            *)

\* How many numbers a block of `count` from `offset` on has in common with a range.
Overlap(offset, count, start, end) ==
    LET first == IF start >= offset THEN start ELSE offset
        last  == IF end <= offset + count - 1 THEN end ELSE offset + count - 1
    IN  IF first <= last THEN last - first + 1 ELSE 0

LEMMA MaxOfTwo ==
    ASSUME NEW a \in Int, NEW b \in Int
    PROVE  Max({a, b}) = IF a >= b THEN a ELSE b
  BY DEF Max

\* What each group has for pe within a range, and their sum.
Within(groups, pe, start, end) ==
    [k \in 1 .. Len(groups) |->
        Overlap(doryta_id_offset(groups[k], pe), neurons_in_pe(groups[k], pe), start, end)]

LEMMA OverlapIs ==
    ASSUME NEW offset \in Int, NEW count \in Nat, NEW start \in Int, NEW end \in Int
    PROVE  /\ Overlap(offset, count, start, end) \in Nat
           /\ LET first == Max({start, offset})
                  last  == Min({end, offset + count - 1})
              IN  Overlap(offset, count, start, end) = IF first <= last THEN last - first + 1 ELSE 0
  <1>1. Max({start, offset}) = IF start >= offset THEN start ELSE offset
    BY MaxOfTwo
  <1>2. Min({end, offset + count - 1}) = IF end <= offset + count - 1 THEN end ELSE offset + count - 1
    BY MinOfTwo
  <1>3. Overlap(offset, count, start, end) \in Nat
    BY DEF Overlap
  <1>4. LET first == Max({start, offset})
            last  == Min({end, offset + count - 1})
        IN  Overlap(offset, count, start, end) = IF first <= last THEN last - first + 1 ELSE 0
    BY <1>1, <1>2, Zenon DEF Overlap
  <1> QED
    BY <1>3, <1>4

\* 1 for each entry of `ids` that is within a range, from the a-th on a block of `count`.
Marks(f, ids, n, start, end) ==
    /\ f \in [1 .. n -> Nat]
    /\ \A i \in 1 .. n : f[i] = IF start <= ids[i] /\ ids[i] <= end THEN 1 ELSE 0

Stretch(ids, a, count, offset) == \A j \in 1 .. count : ids[a + j] = offset + j - 1

LEMMA MarksOfStretch ==
    ASSUME NEW n \in Nat, NEW ids, NEW f, NEW S, NEW start \in Int, NEW end \in Int,
           NEW a \in Nat, NEW count \in Nat, NEW offset \in Int,
           Marks(f, ids, n, start, end), Sums(S, n, f), a + count <= n,
           Stretch(ids, a, count, offset)
    PROVE  S[a + count] = S[a] + Overlap(offset, count, start, end)
  <1> DEFINE Common(j) == Overlap(offset, j, start, end)
             P == {j \in Nat : j <= count => S[a + j] = S[a] + Common(j)}
  <1>0. \A j \in Nat : Common(j) \in Nat
    BY OverlapIs
  <1>1. 0 \in P
    <2>1. S[a] \in Nat /\ a + 0 = a
      BY DEF Sums
    <2>2. Common(0) = 0
      BY DEF Overlap
    <2> QED
      BY <2>1, <2>2
  <1>2. ASSUME NEW j \in Nat, j \in P, j + 1 <= count PROVE S[a + (j + 1)] = S[a] + Common(j + 1)
    <2>1. S[a + j] = S[a] + Common(j) /\ S[a] \in Nat
      BY <1>2 DEF Sums
    <2>2. a + (j + 1) \in 1 .. n /\ a + (j + 1) - 1 = a + j
      BY <1>2
    <2>3. S[a + (j + 1)] = S[a + j] + f[a + (j + 1)]
      BY <2>2 DEF Sums
    <2>4. ids[a + (j + 1)] = offset + j
      <3>1. j + 1 \in 1 .. count /\ offset + (j + 1) - 1 = offset + j
        BY <1>2
      <3> QED
        BY <3>1 DEF Stretch
    <2>5. f[a + (j + 1)] = IF start <= offset + j /\ offset + j <= end THEN 1 ELSE 0
      BY <2>2, <2>4 DEF Marks
    <2>6. Common(j + 1) = Common(j) + (IF start <= offset + j /\ offset + j <= end THEN 1 ELSE 0)
      <3> HIDE DEF P
      <3> QED
        BY DEF Overlap
    <2> HIDE DEF Common
    <2> QED
      BY <1>0, <2>1, <2>3, <2>5, <2>6
  <1>3. \A j \in Nat : j \in P
    <2>1. \A j \in Nat : j \in P => j + 1 \in P
      BY <1>2
    <2> HIDE DEF P
    <2> QED
      BY <1>1, <2>1, Induction
  <1>4. count \in P
    <2> HIDE DEF P
    <2> QED
      BY <1>3
  <1> QED
    BY <1>4

LEMMA WithinIs ==
    ASSUME NEW groups, IsLayout(groups), NEW pe \in PEs, NEW start \in Int, NEW end \in Int
    PROVE  /\ Within(groups, pe, start, end) \in [1 .. Len(groups) -> Nat]
           /\ tw_nnodes # 1 => neurons_within_pe(groups, pe, start, end)
                                 = Partial(Within(groups, pe, start, end), Len(groups))[Len(groups)]
  <1> DEFINE n == Len(groups)
             f == Within(groups, pe, start, end)
             Of(g) == LET first == Max({start, doryta_id_offset(g, pe)})
                          last  == Min({end, doryta_id_offset(g, pe) + neurons_in_pe(g, pe) - 1})
                      IN  IF first <= last THEN last - first + 1 ELSE 0
             Step(it) == [s \in SUBSET DOMAIN groups |->
                            IF s = {} THEN 0 ELSE it[s \ {Max(s)}] + Of(groups[Max(s)])]
             sum == CHOOSE it : it = Step(it)
  <1>1. n \in Nat /\ DOMAIN groups = 1 .. n
    BY BeginsAre DEF IsLayout
  <1>2. ASSUME NEW k \in 1 .. n PROVE f[k] = Of(groups[k]) /\ f[k] \in Nat
    <2>1. doryta_id_offset(groups[k], pe) \in Int /\ neurons_in_pe(groups[k], pe) \in Nat
      BY ShareOfPE DEF IsLayout
    <2>2. f[k] = Overlap(doryta_id_offset(groups[k], pe), neurons_in_pe(groups[k], pe), start, end)
      BY DEF Within
    <2> HIDE DEF f
    <2> QED
      BY <2>1, <2>2, OverlapIs
  <1>3. f \in [1 .. n -> Nat]
    <2>1. f = [k \in 1 .. n |-> f[k]]
      BY DEF Within
    <2> HIDE DEF f
    <2> QED
      BY <1>2, <2>1
  <1>4. ASSUME tw_nnodes # 1 PROVE neurons_within_pe(groups, pe, start, end) = Partial(f, n)[n]
    <2>1. neurons_within_pe(groups, pe, start, end) = sum[1 .. n]
      BY <1>1, <1>4 DEF neurons_within_pe, SumOver, FoldLeft, MapThenFoldSet
    <2>2. ASSUME NEW it
          PROVE  Step(it) = [s \in SUBSET (1 .. n) |->
                               IF s = {} THEN 0 ELSE it[s \ {Max(s)}] + f[Max(s)]]
      <3>1. \A s \in SUBSET (1 .. n) : s # {} => Max(s) \in 1 .. n
        BY <1>1, MaxIs
      <3> HIDE DEF f, Of, n
      <3>3. \A s \in SUBSET (1 .. n) : s # {} => f[Max(s)] = Of(groups[Max(s)])
        BY <1>2, <3>1
      <3> QED
        BY <1>1, <3>3
    <2>3. \A it : it = Step(it) <=> SumsUp(it, n, f)
      <3> HIDE DEF Step, f
      <3> QED
        BY <2>2 DEF SumsUp
    <2>4. \E it : SumsUp(it, n, f)
      <3> HIDE DEF f
      <3> QED
        BY <1>1, <1>3, SumExists
    <2>5. SumsUp(sum, n, f)
      <3> HIDE DEF Step, f
      <3> QED
        BY <2>3, <2>4
    <2>6. sum[1 .. n] = Partial(f, n)[n]
      <3> HIDE DEF sum, f, n
      <3> QED
        BY <1>1, <1>3, <2>5, FoldIsPartial
    <2> QED
      BY <2>1, <2>6
  <1> QED
    BY <1>3, <1>4

\* A group that joins has nothing within the ranges of before.
LEMMA WithinStays ==
    ASSUME NEW groups, IsLayout(groups), NEW size \in Nat, NEW first \in PEs, NEW last \in PEs,
           NEW pe \in PEs, NEW start \in Int, NEW end \in Int, end < TotalNeurons(groups)
    PROVE  neurons_within_pe(Append(groups, neuron_group(groups, size, first, last)), pe, start, end)
              = neurons_within_pe(groups, pe, start, end)
  <1> DEFINE n   == Len(groups)
             g   == neuron_group(groups, size, first, last)
             new == Append(groups, g)
             f   == Within(groups, pe, start, end)
             f2  == Within(new, pe, start, end)
  <1>1. n \in Nat /\ groups \in Seq(Groups) /\ TotalNeurons(groups) \in Nat
    BY BeginsAre DEF IsLayout
  <1>2. IsLayout(new) /\ new \in Seq(Groups)
    BY LayoutGrows DEF IsLayout
  <1>3. /\ Len(new) = n + 1 /\ new[n + 1] = g
        /\ \A l \in 1 .. n : new[l] = groups[l]
    <2>1. \A l \in 1 .. n : new[l] = groups[l]
      BY <1>1
    <2> QED
      BY <1>1, <2>1
  <1>4. f \in [1 .. n -> Nat] /\ f2 \in [1 .. n + 1 -> Nat]
    <2> HIDE DEF new
    <2> QED
      BY <1>2, <1>3, WithinIs
  <1>5. f2[n + 1] = 0
    <2> DEFINE offset == doryta_id_offset(g, pe)
               count  == neurons_in_pe(g, pe)
    <2>1. IsGroup(g) /\ g.global_neuron_offset = TotalNeurons(groups)
      BY <1>1, Defined DEF neuron_group
    <2>2. count \in Nat /\ offset \in Int
      <3> HIDE DEF g
      <3> QED
        BY <2>1, ShareOfPE
    <2>3. count > 0 => offset >= TotalNeurons(groups)
      <3> HIDE DEF g
      <3>1. count > 0 => pe_inside_range(g, pe)
        BY <2>1, ShareOfPE
      <3> SUFFICES ASSUME pe_inside_range(g, pe) PROVE offset >= TotalNeurons(groups)
        BY <3>1
      <3> DEFINE per   == g.num_neurons \div g.total_pes
                 rem   == remainder_neurons(g)
                 index == index_within_range(g, pe)
      <3>2. per \in Nat /\ rem \in Nat /\ index \in Nat
        BY <2>1, Shares, IndexOfPE, GroupRange
      <3>3. offset = TotalNeurons(groups) + index * per + (IF index <= rem THEN index ELSE rem)
        BY <2>1, Block
      <3> HIDE DEF per, rem, index, offset
      <3>4. index * per \in Nat
        BY <3>2
      <3> QED
        BY <1>1, <3>2, <3>3, <3>4
    <2>4. f2[n + 1] = Overlap(offset, count, start, end)
      <3>1. n + 1 \in 1 .. Len(new)
        BY <1>1, <1>3
      <3> HIDE DEF new
      <3> QED
        BY <1>3, <3>1 DEF Within
    <2> HIDE DEF offset, count, f2
    <2> QED
      BY <1>1, <2>2, <2>3, <2>4 DEF Overlap
  <1>6. Alike(f2, f, n)
    <2> HIDE DEF new, g
    <2>1. ASSUME NEW k \in 1 .. n PROVE f2[k] = f[k]
      <3>1. k \in 1 .. Len(new) /\ k \in 1 .. Len(groups)
        BY <1>1, <1>3
      <3> QED
        BY <1>3, <3>1 DEF Within
    <2> HIDE DEF f, f2, n
    <2> QED
      BY <2>1 DEF Alike
  <1> HIDE DEF f, f2, new
  <1>7. Partial(f2, n + 1)[n + 1] = Partial(f, n)[n]
    <2> DEFINE S2 == Partial(f2, n + 1)
    <2>1. Sums(S2, n + 1, f2)
      BY <1>1, <1>4, PartialSums
    <2>2. n + 1 \in 1 .. n + 1 /\ (n + 1) - 1 = n /\ n \in 0 .. n + 1
      BY <1>1
    <2>3. S2[n + 1] = S2[n] + f2[n + 1] /\ S2[n] \in Nat
      <3> HIDE DEF S2, n
      <3> QED
        BY <2>1, <2>2 DEF Sums
    <2>4. Partial(f, n)[n] = S2[n]
      <3>1. n + 1 \in Nat /\ n <= n + 1
        BY <1>1
      <3> HIDE DEF n
      <3> QED
        BY <1>1, <1>4, <1>6, <3>1, PartialOfPrefix
    <2>5. S2[n + 1] = S2[n]
      <3> HIDE DEF S2
      <3> QED
        BY <1>5, <2>3
    <2> QED
      BY <2>4, <2>5
  <1>8. CASE tw_nnodes = 1
    BY <1>8 DEF neurons_within_pe, new
  <1>9. CASE tw_nnodes # 1
    <2>1. neurons_within_pe(new, pe, start, end) = Partial(f2, n + 1)[n + 1]
      BY <1>2, <1>3, <1>9, WithinIs DEF f2
    <2>2. neurons_within_pe(groups, pe, start, end) = Partial(f, n)[n]
      BY <1>9, WithinIs DEF f
    <2>3. neurons_within_pe(new, pe, start, end) = neurons_within_pe(groups, pe, start, end)
      BY <1>7, <2>1, <2>2
    <2> QED
      BY <2>3 DEF new, g
  <1> QED
    BY <1>8, <1>9

\* As many neurons of pe are within a range as neurons_within_pe counts, or less.
LEMMA MarkedWithin ==
    ASSUME NEW groups, IsLayout(groups), NEW pe \in PEs, NEW start \in Int, NEW end \in Int,
           start <= end, NEW f,
           Marks(f, LocalNeurons(groups, pe), total_neurons_in_pe(groups, pe), start, end),
           NEW S, Sums(S, total_neurons_in_pe(groups, pe), f)
    PROVE  /\ S[total_neurons_in_pe(groups, pe)] \in Nat
           /\ neurons_within_pe(groups, pe, start, end) \in Nat
           /\ S[total_neurons_in_pe(groups, pe)] <= neurons_within_pe(groups, pe, start, end)
  <1> DEFINE n == Len(groups)
             N == total_neurons_in_pe(groups, pe)
             L == LocalNeurons(groups, pe)
             O == Places(groups, pe)
             c == Parts(groups, pe)
             w == Within(groups, pe, start, end)
             W == Partial(w, n)
  <1>1. n \in Nat /\ DOMAIN groups = 1 .. n
    BY BeginsAre DEF IsLayout
  <1>2. N \in Nat /\ N = O[n]
    BY PlacesAreTotal
  <1>3. c \in [1 .. n -> Nat] /\ Sums(O, n, c)
    BY PlacesAre
  <1>4. S[N] \in Nat
    BY <1>2 DEF Sums
  <1>5. CASE tw_nnodes = 1
    <2>1. neurons_within_pe(groups, pe, start, end) = end - start + 1
      BY <1>5 DEF neurons_within_pe
    <2> DEFINE Passed(x) == IF x < start THEN 0 ELSE IF x <= end THEN x - start + 1
                                                     ELSE end - start + 1
               P == {k \in Nat : k + 1 <= N => S[k + 1] <= Passed(L[k + 1])}
    <2>2. \A k \in 1 .. N : L[k] \in Int
      BY LocalNeuronsAreSeq
    <2>3. ASSUME NEW k \in 1 .. N
          PROVE  /\ S[k] = S[k - 1] + (IF start <= L[k] /\ L[k] <= end THEN 1 ELSE 0)
                 /\ S[k] \in Nat /\ S[k - 1] \in Nat
      <3>1. k - 1 \in 0 .. N /\ k \in 0 .. N
        BY <1>2
      <3>2. f[k] = IF start <= L[k] /\ L[k] <= end THEN 1 ELSE 0
        BY DEF Marks
      <3> HIDE DEF N, L
      <3>3. S[k] = S[k - 1] + f[k] /\ S[k] \in Nat /\ S[k - 1] \in Nat
        BY <3>1 DEF Sums, N
      <3> QED
        BY <3>2, <3>3
    <2>4. \A a, b \in 0 .. N - 1 : a < b => L[a + 1] < L[b + 1]
      BY PlacesInOrder
    <2>5. 0 \in P
      <3> SUFFICES ASSUME 1 <= N PROVE S[1] <= Passed(L[1])
        OBVIOUS
      <3>1. 1 \in 1 .. N /\ 1 - 1 = 0
        BY <1>2
      <3>2. S[0] = 0
        BY DEF Sums
      <3>3. S[1] = IF start <= L[1] /\ L[1] <= end THEN 1 ELSE 0
        BY <2>3, <3>1, <3>2
      <3>4. L[1] \in Int
        BY <2>2, <3>1
      <3> HIDE DEF L, N
      <3> QED
        BY <3>3, <3>4
    <2>6. ASSUME NEW k \in Nat, k \in P, (k + 1) + 1 <= N
          PROVE  S[(k + 1) + 1] <= Passed(L[(k + 1) + 1])
      <3> DEFINE x == L[k + 1]
                 y == L[(k + 1) + 1]
      <3>1. k \in 0 .. N - 1 /\ k + 1 \in 0 .. N - 1 /\ k < k + 1 /\ k + 1 \in 1 .. N
            /\ (k + 1) + 1 \in 1 .. N /\ ((k + 1) + 1) - 1 = k + 1
        BY <1>2, <2>6
      <3>2. x < y /\ x \in Int /\ y \in Int
        BY <2>2, <2>4, <3>1
      <3>3. S[k + 1] <= Passed(x) /\ S[k + 1] \in Nat
        BY <2>3, <2>6, <3>1
      <3>4. S[(k + 1) + 1] = S[k + 1] + (IF start <= y /\ y <= end THEN 1 ELSE 0)
        BY <2>3, <3>1
      <3> HIDE DEF x, y, L, N
      <3>5. S[(k + 1) + 1] <= Passed(y)
        BY <3>2, <3>3, <3>4
      <3> QED
        BY <3>5 DEF y
    <2>7. \A k \in Nat : k \in P
      <3>1. \A k \in Nat : k \in P => k + 1 \in P
        <4> HIDE DEF Passed, L, N
        <4> QED
          BY <2>6
      <3> HIDE DEF P
      <3> QED
        BY <2>5, <3>1, Induction
    <2>8. S[N] <= end - start + 1
      <3>1. CASE N = 0
        <4>1. S[0] = 0
          BY DEF Sums
        <4> HIDE DEF N
        <4> QED
          BY <3>1, <4>1
      <3>2. CASE N # 0
        <4>1. N - 1 \in Nat /\ (N - 1) + 1 = N /\ N \in 1 .. N
          BY <1>2, <3>2
        <4>2. N - 1 \in P
          <5> HIDE DEF P, N
          <5> QED
            BY <2>7, <4>1
        <4>3. S[N] <= Passed(L[N]) /\ L[N] \in Int
          <5> HIDE DEF N, L, Passed
          <5> QED
            BY <2>2, <4>1, <4>2
        <4> HIDE DEF N, L
        <4> QED
          BY <1>4, <4>3
      <3> QED
        BY <3>1, <3>2
    <2> HIDE DEF N
    <2> QED
      BY <1>4, <2>1, <2>8 DEF N
  <1>6. CASE tw_nnodes # 1
    <2>1. neurons_within_pe(groups, pe, start, end) = W[n] /\ w \in [1 .. n -> Nat]
      BY <1>6, WithinIs
    <2>2. Sums(W, n, w)
      <3> HIDE DEF w
      <3> QED
        BY <1>1, <2>1, PartialSums
    <2>3. Listed(L, groups, pe, n)
      <3>1. Counted(groups, pe, n)
        BY ShareOfPE DEF IsLayout, Counted
      <3> QED
        BY <1>1, <3>1, LocalNeuronsAre
    <2> DEFINE P == {l \in Nat : l <= n => S[O[l]] = W[l]}
    <2>4. 0 \in P
      BY <1>3, <2>2 DEF Sums
    <2>5. ASSUME NEW l \in Nat, l \in P, l + 1 <= n PROVE S[O[l + 1]] = W[l + 1]
      <3> DEFINE g      == groups[l + 1]
                 count  == neurons_in_pe(g, pe)
                 offset == doryta_id_offset(g, pe)
      <3>1. l + 1 \in 1 .. n /\ (l + 1) - 1 = l /\ l \in 0 .. n /\ l + 1 \in 0 .. n /\ n \in 0 .. n
        BY <1>1, <2>5
      <3>2. count \in Nat /\ offset \in Int /\ c[l + 1] = count
        <4>1. IsGroup(g)
          BY <3>1 DEF IsLayout
        <4>2. c[l + 1] = count
          BY <3>1, PlacesAre
        <4> HIDE DEF g, c
        <4> QED
          BY <4>1, <4>2, ShareOfPE
      <3>3. w[l + 1] = Overlap(offset, count, start, end)
        BY <3>1 DEF Within
      <3>4. W[l + 1] = W[l] + Overlap(offset, count, start, end)
        <4> HIDE DEF w, W, count, offset, n
        <4> QED
          BY <2>2, <3>1, <3>3 DEF Sums
      <3>5. O[l + 1] = O[l] + count /\ O[l] \in Nat /\ O[l + 1] <= N
        <4> HIDE DEF c, O, count, n
        <4>1. O[l + 1] <= O[n]
          BY <1>3, <3>1, SumsGrow
        <4>2. O[l + 1] = O[l] + c[l + 1] /\ O[l] \in Nat
          BY <1>3, <3>1 DEF Sums
        <4> QED
          BY <1>2, <3>2, <4>1, <4>2
      <3>6. Stretch(L, O[l], count, offset)
        BY <2>3, <3>1 DEF Listed, Stretch, Places
      <3>7. S[O[l]] = W[l]
        BY <2>5
      <3>8. S[O[l] + count] = S[O[l]] + Overlap(offset, count, start, end)
        <4> HIDE DEF O, count, offset
        <4> QED
          BY <1>2, <3>2, <3>5, <3>6, MarksOfStretch
      <3> QED
        BY <3>4, <3>5, <3>7, <3>8
    <2>6. \A l \in Nat : l \in P
      <3>1. \A l \in Nat : l \in P => l + 1 \in P
        <4> HIDE DEF O, W, n
        <4> QED
          BY <2>5
      <3> HIDE DEF P
      <3> QED
        BY <2>4, <3>1, Induction
    <2>7. S[O[n]] = W[n]
      <3>1. n \in P
        <4> HIDE DEF P
        <4> QED
          BY <1>1, <2>6
      <3> HIDE DEF O, W, n
      <3> QED
        BY <3>1
    <2> QED
      BY <1>2, <1>4, <2>1, <2>7
  <1> QED
    BY <1>5, <1>6

SharesOf(gs, d) == [k \in 1 .. Len(gs) |-> Share(gs[k], d)]
Shared(gs, d) == Partial(SharesOf(gs, d), Len(gs))

LEMMA SharesAre ==
    ASSUME NEW gs, NEW n, AreConnections(gs, n), NEW d \in Int
    PROVE  /\ SharesOf(gs, d) \in [1 .. n -> Nat]
           /\ \A k \in 1 .. n : SharesOf(gs, d)[k] = Share(gs[k], d)
           /\ Sums(Shared(gs, d), n, SharesOf(gs, d))
  <1>0. n \in Nat /\ Len(gs) = n
    BY DEF AreConnections
  <1>1. ASSUME NEW k \in 1 .. n PROVE Share(gs[k], d) \in Nat
    <2>1. IsConnection(gs[k]) /\ <<>> \in Seq(Connections)
      BY DEF AreConnections
    <2>2. SynapsesPerNeuron(gs[k]) \in Nat
      BY <2>1, JoinsAre
    <2> QED
      BY <2>2 DEF Share
  <1>2. SharesOf(gs, d) \in [1 .. n -> Nat] /\ \A k \in 1 .. n : SharesOf(gs, d)[k] = Share(gs[k], d)
    BY <1>0, <1>1 DEF SharesOf
  <1>3. Sums(Shared(gs, d), n, SharesOf(gs, d))
    BY <1>0, <1>2, PartialSums DEF Shared
  <1> QED
    BY <1>2, <1>3

\* A neuron has no more synapses than its groups ask for.
LEMMA LengthBounded ==
    ASSUME NEW gs, NEW n, AreConnections(gs, n), NEW d \in Int
    PROVE  /\ Len(synapse_iter(gs, d)) \in Nat /\ synapse_iter(gs, d) \in Seq(Connections)
           /\ Len(synapse_iter(gs, d)) <= Shared(gs, d)[n]
  <1> DEFINE R == Shared(gs, d)
  <1>0. n \in Nat
    BY DEF AreConnections
  <1>1. PICK acc : Gathers(acc, gs, d, n) /\ synapse_iter(gs, d) = acc[n]
    BY IteratorGathers
  <1>2. Sums(R, n, SharesOf(gs, d)) /\ \A k \in 1 .. n : SharesOf(gs, d)[k] = Share(gs[k], d)
        /\ SharesOf(gs, d) \in [1 .. n -> Nat]
    BY SharesAre
  <1> HIDE DEF R
  <1>3. \A k \in 0 .. n : acc[k] \in Seq(Connections) /\ Len(acc[k]) \in Nat /\ R[k] \in Nat
    <2>1. \A k \in 0 .. n : acc[k] \in Seq(Connections)
      BY <1>1 DEF Gathers
    <2>2. \A k \in 0 .. n : R[k] \in Nat
      BY <1>2 DEF Sums
    <2> QED
      BY <2>1, <2>2, EntriesOf
  <1> DEFINE P == {k \in Nat : k <= n => Len(acc[k]) <= R[k]}
  <1>4. 0 \in P
    <2>1. acc[0] = <<>> /\ R[0] = 0 /\ Len(<<>>) = 0
      BY <1>1, <1>2 DEF Gathers, Sums
    <2>2. Len(acc[0]) <= R[0]
      BY <2>1
    <2> QED
      BY <2>2
  <1>5. ASSUME NEW k \in Nat, k \in P, k + 1 <= n PROVE Len(acc[k + 1]) <= R[k + 1]
    <2>1. k + 1 \in 1 .. n /\ (k + 1) - 1 = k /\ k \in 0 .. n /\ k + 1 \in 0 .. n
      BY <1>0, <1>5
    <2>2. acc[k + 1] = Joins(acc[k], gs[k + 1], d)
      BY <1>1, <2>1 DEF Gathers
    <2>3. R[k + 1] = R[k] + Share(gs[k + 1], d) /\ Share(gs[k + 1], d) \in Nat
      <3>1. R[k + 1] = R[k] + SharesOf(gs, d)[k + 1]
        BY <1>2, <2>1 DEF Sums
      <3>2. SharesOf(gs, d)[k + 1] = Share(gs[k + 1], d) /\ SharesOf(gs, d)[k + 1] \in Nat
        BY <1>2, <2>1
      <3> QED
        BY <3>1, <3>2
    <2>4. IsConnection(gs[k + 1])
      BY <2>1 DEF AreConnections
    <2>5. acc[k] \in Seq(Connections)
      BY <1>3, <2>1
    <2>6. Len(acc[k + 1]) <= Len(acc[k]) + Share(gs[k + 1], d)
      BY <2>2, <2>4, <2>5, JoinsAre
    <2>7. Len(acc[k]) <= R[k]
      BY <1>0, <1>5
    <2>8. Len(acc[k]) \in Nat /\ R[k] \in Nat /\ Len(acc[k + 1]) \in Nat
      BY <1>3, <2>1
    <2> QED
      BY <2>3, <2>6, <2>7, <2>8
  <1>6. \A k \in Nat : k \in P
    <2>1. \A k \in Nat : k \in P => k + 1 \in P
      BY <1>5
    <2> HIDE DEF P
    <2> QED
      BY <1>4, <2>1, Induction
  <1>7. Len(acc[n]) <= R[n]
    BY <1>0, <1>6
  <1>8. n \in 0 .. n
    BY <1>0
  <1> QED
    BY <1>1, <1>3, <1>7, <1>8 DEF R

-----------------------------------------------------------------------------
(* All the synapses of a PE, counted per neuron and counted per group.      *)

LEMMA Spread ==
    ASSUME NEW a \in Nat, NEW b \in Nat, NEW c \in Nat
    PROVE  a * c \in Nat /\ b * c \in Nat /\ (a + b) * c = a * c + b * c
  OBVIOUS

LEMMA SumStep ==
    ASSUME NEW a \in Nat, NEW b \in Nat, NEW p \in Nat, NEW q \in Nat, NEW c \in Nat
    PROVE  (a + b * c) + (p + q * c) = (a + p) + (b + q) * c
  <1> DEFINE x == b * c
             y == q * c
  <1>1. x \in Nat /\ y \in Nat /\ (b + q) * c = x + y
    BY Spread
  <1> HIDE DEF x, y
  <1>2. (a + x) + (p + y) = (a + p) + (b + q) * c
    BY <1>1
  <1> QED
    BY <1>2 DEF x, y

Combine(e, f, h, c, i) == e[i] = f[i] + h[i] * c
Combines(e, f, h, c, n) == \A i \in 1 .. n : e[i] = f[i] + h[i] * c

LEMMA SumsLinear ==
    ASSUME NEW n \in Nat, NEW c \in Nat,
           NEW f \in [1 .. n -> Nat], NEW h \in [1 .. n -> Nat], NEW e \in [1 .. n -> Nat],
           NEW F, Sums(F, n, f), NEW H, Sums(H, n, h), NEW E, Sums(E, n, e),
           Combines(e, f, h, c, n)
    PROVE  Combine(E, F, H, c, n)
  <1> DEFINE P == {k \in Nat : k <= n => E[k] = F[k] + H[k] * c}
  <1>1. 0 \in P
    BY DEF Sums
  <1>2. ASSUME NEW k \in Nat, k \in P, k + 1 <= n PROVE E[k + 1] = F[k + 1] + H[k + 1] * c
    <2>1. k + 1 \in 1 .. n /\ (k + 1) - 1 = k /\ k \in 0 .. n
      BY <1>2
    <2>2. /\ E[k + 1] = E[k] + e[k + 1] /\ F[k + 1] = F[k] + f[k + 1] /\ H[k + 1] = H[k] + h[k + 1]
          /\ E[k] \in Nat /\ F[k] \in Nat /\ H[k] \in Nat
          /\ e[k + 1] \in Nat /\ f[k + 1] \in Nat /\ h[k + 1] \in Nat
      BY <2>1 DEF Sums
    <2>3. e[k + 1] = f[k + 1] + h[k + 1] * c
      BY <2>1 DEF Combines
    <2>4. E[k] = F[k] + H[k] * c
      BY <1>2
    <2> DEFINE a == F[k]
               b == H[k]
               p == f[k + 1]
               q == h[k + 1]
    <2>5. a \in Nat /\ b \in Nat /\ p \in Nat /\ q \in Nat
      BY <2>2
    <2>6. E[k + 1] = (a + b * c) + (p + q * c)
      BY <2>2, <2>3, <2>4, Zenon
    <2>7. F[k + 1] + H[k + 1] * c = (a + p) + (b + q) * c
      BY <2>2, Zenon
    <2> HIDE DEF a, b, p, q
    <2>8. (a + b * c) + (p + q * c) = (a + p) + (b + q) * c
      BY <2>5, SumStep
    <2> QED
      BY <2>6, <2>7, <2>8
  <1>3. \A k \in Nat : k \in P
    <2>1. \A k \in Nat : k \in P => k + 1 \in P
      BY <1>2
    <2> HIDE DEF P
    <2> QED
      BY <1>1, <2>1, Induction
  <1> QED
    BY <1>3 DEF Combine

\* What the groups ask for on pe.
Asked(gs, groups, pe) ==
    [k \in 1 .. Len(gs) |->
        neurons_within_pe(groups, pe, gs[k].from_start, gs[k].from_end) * SynapsesPerNeuron(gs[k])]
Needed(gs, groups, pe) == Partial(Asked(gs, groups, pe), Len(gs))

LEMMA WithinCounts ==
    ASSUME NEW groups, IsLayout(groups), NEW pe \in PEs, NEW start \in Int, NEW end \in Int,
           start <= end
    PROVE  neurons_within_pe(groups, pe, start, end) \in Nat
  <1> DEFINE N == total_neurons_in_pe(groups, pe)
             L == LocalNeurons(groups, pe)
             f == [i \in 1 .. N |-> IF start <= L[i] /\ L[i] <= end THEN 1 ELSE 0]
  <1>1. N \in Nat
    BY LocalNeuronsAreSeq
  <1>2. f \in [1 .. N -> Nat]
    OBVIOUS
  <1>3. Marks(f, L, N, start, end)
    <2> HIDE DEF N, L
    <2> QED
      BY DEF Marks
  <1>4. Sums(Partial(f, N), N, f)
    <2> HIDE DEF f, N
    <2> QED
      BY <1>1, <1>2, PartialSums
  <1> HIDE DEF f
  <1> QED
    BY <1>3, <1>4, MarkedWithin

LEMMA NeededIs ==
    ASSUME NEW groups, IsLayout(groups), NEW gs, NEW n, AreConnections(gs, n), NEW pe \in PEs
    PROVE  /\ Asked(gs, groups, pe) \in [1 .. n -> Nat]
           /\ Sums(Needed(gs, groups, pe), n, Asked(gs, groups, pe))
           /\ \A k \in 1 .. n :
                /\ neurons_within_pe(groups, pe, gs[k].from_start, gs[k].from_end) \in Nat
                /\ SynapsesPerNeuron(gs[k]) \in Nat
                /\ Asked(gs, groups, pe)[k]
                     = neurons_within_pe(groups, pe, gs[k].from_start, gs[k].from_end)
                          * SynapsesPerNeuron(gs[k])
  <1>0. n \in Nat /\ Len(gs) = n
    BY DEF AreConnections
  <1>1. ASSUME NEW k \in 1 .. n
        PROVE  /\ neurons_within_pe(groups, pe, gs[k].from_start, gs[k].from_end) \in Nat
               /\ SynapsesPerNeuron(gs[k]) \in Nat
    <2>1. IsConnection(gs[k]) /\ <<>> \in Seq(Connections) /\ 0 \in Int
      BY DEF AreConnections
    <2>2. SynapsesPerNeuron(gs[k]) \in Nat
      BY <2>1, JoinsAre
    <2>3. gs[k].from_start \in Int /\ gs[k].from_end \in Int /\ gs[k].from_start <= gs[k].from_end
      BY <2>1 DEF IsConnection
    <2> QED
      BY <2>2, <2>3, WithinCounts
  <1>2. Asked(gs, groups, pe) \in [1 .. n -> Nat]
    BY <1>0, <1>1 DEF Asked
  <1>3. Sums(Needed(gs, groups, pe), n, Asked(gs, groups, pe))
    BY <1>0, <1>2, PartialSums DEF Needed
  <1> QED
    BY <1>0, <1>1, <1>2, <1>3 DEF Asked

\* What the first k groups ask for on each neuron of pe, one after the other.
Asking(gs, groups, pe, k) ==
    [i \in 1 .. total_neurons_in_pe(groups, pe) |-> Shared(gs, LocalNeurons(groups, pe)[i])[k]]

LEMMA CountedBothWays ==
    ASSUME NEW groups, IsLayout(groups), NEW gs, NEW n, AreConnections(gs, n), NEW pe \in PEs,
           NEW S, Sums(S, total_neurons_in_pe(groups, pe), Asking(gs, groups, pe, n))
    PROVE  S[total_neurons_in_pe(groups, pe)] <= Needed(gs, groups, pe)[n]
  <1> DEFINE N == total_neurons_in_pe(groups, pe)
             L == LocalNeurons(groups, pe)
             T == Needed(gs, groups, pe)
             Row(k) == Asking(gs, groups, pe, k)
             A(k) == Partial(Row(k), N)
  <1>0. n \in Nat /\ N \in Nat /\ \A i \in 1 .. N : L[i] \in Int
    <2>1. \A i \in DOMAIN L : L[i] \in Int
      BY LocalNeuronsAreSeq, EntriesOf
    <2> QED
      BY <2>1, LocalNeuronsAreSeq DEF AreConnections
  <1>1. ASSUME NEW k \in 0 .. n PROVE Row(k) \in [1 .. N -> Nat] /\ Sums(A(k), N, Row(k))
    <2>1. ASSUME NEW i \in 1 .. N PROVE Shared(gs, L[i])[k] \in Nat
      <3>1. Sums(Shared(gs, L[i]), n, SharesOf(gs, L[i]))
        BY <1>0, SharesAre
      <3> QED
        BY <3>1 DEF Sums
    <2>2. Row(k) \in [1 .. N -> Nat]
      BY <2>1 DEF Asking
    <2> HIDE DEF Row, N
    <2> QED
      BY <1>0, <2>2, PartialSums
  <1> DEFINE P == {k \in Nat : k <= n => A(k)[N] <= T[k]}
  <1>2. Sums(T, n, Asked(gs, groups, pe))
    BY NeededIs
  <1>3. 0 \in P
    <2>1. 0 \in 0 .. n
      BY <1>0
    <2>2. ASSUME NEW i \in 1 .. N PROVE Row(0)[i] = 0
      <3>1. Sums(Shared(gs, L[i]), n, SharesOf(gs, L[i]))
        BY <1>0, SharesAre
      <3> QED
        BY <3>1 DEF Sums, Asking
    <2>3. A(0)[N] = 0
      <3> DEFINE Q == {k \in Nat : k <= N => A(0)[k] = 0}
      <3>1. Sums(A(0), N, Row(0))
        BY <1>1, <2>1
      <3> HIDE DEF A, Row, N
      <3>2. 0 \in Q
        BY <3>1 DEF Sums
      <3>3. ASSUME NEW k \in Nat, k \in Q, k + 1 <= N PROVE A(0)[k + 1] = 0
        <4>1. k + 1 \in 1 .. N /\ (k + 1) - 1 = k
          BY <1>0, <3>3
        <4>2. A(0)[k + 1] = A(0)[k] + Row(0)[k + 1]
          BY <3>1, <4>1 DEF Sums
        <4>3. A(0)[k] = 0
          BY <1>0, <3>3
        <4> QED
          BY <2>2, <4>1, <4>2, <4>3
      <3>4. \A k \in Nat : k \in Q
        <4>1. \A k \in Nat : k \in Q => k + 1 \in Q
          BY <3>3
        <4> HIDE DEF Q
        <4> QED
          BY <3>2, <4>1, Induction
      <3> QED
        BY <1>0, <3>4
    <2>4. T[0] = 0
      BY <1>2 DEF Sums
    <2> HIDE DEF A, T
    <2> QED
      BY <2>3, <2>4
  <1>4. ASSUME NEW k \in Nat, k \in P, k + 1 <= n PROVE A(k + 1)[N] <= T[k + 1]
    <2> DEFINE g == gs[k + 1]
               m == [i \in 1 .. N |-> IF g.from_start <= L[i] /\ L[i] <= g.from_end THEN 1 ELSE 0]
               M == Partial(m, N)
               c == SynapsesPerNeuron(g)
               w == neurons_within_pe(groups, pe, g.from_start, g.from_end)
    <2>1. k \in 0 .. n /\ k + 1 \in 0 .. n /\ k + 1 \in 1 .. n /\ (k + 1) - 1 = k
      BY <1>0, <1>4
    <2>2. w \in Nat /\ c \in Nat /\ Asked(gs, groups, pe)[k + 1] = w * c
      <3>1. \A j \in 1 .. n :
                /\ neurons_within_pe(groups, pe, gs[j].from_start, gs[j].from_end) \in Nat
                /\ SynapsesPerNeuron(gs[j]) \in Nat
                /\ Asked(gs, groups, pe)[j]
                     = neurons_within_pe(groups, pe, gs[j].from_start, gs[j].from_end)
                          * SynapsesPerNeuron(gs[j])
        BY NeededIs
      <3> QED
        BY <2>1, <3>1, Zenon
    <2>3. T[k + 1] = T[k] + w * c /\ T[k] \in Nat
      <3> HIDE DEF T, w, c
      <3> QED
        BY <1>2, <2>1, <2>2 DEF Sums
    <2>4. IsConnection(g)
      BY <2>1 DEF AreConnections
    <2>5. m \in [1 .. N -> Nat] /\ \A i \in 1 .. N : m[i] = IF InFrom(g, L[i]) THEN 1 ELSE 0
      BY DEF InFrom
    <2>6. Marks(m, L, N, g.from_start, g.from_end)
      <3> HIDE DEF N, L, g
      <3> QED
        BY DEF Marks
    <2> HIDE DEF m
    <2>7. Sums(M, N, m)
      <3> HIDE DEF N
      <3> QED
        BY <1>0, <2>5, PartialSums
    <2>8. M[N] \in Nat /\ M[N] <= w
      <3>1. g.from_start \in Int /\ g.from_end \in Int /\ g.from_start <= g.from_end
        BY <2>4 DEF IsConnection
      <3> HIDE DEF g, M
      <3> QED
        BY <2>6, <2>7, <3>1, MarkedWithin
    <2>9. ASSUME NEW i \in 1 .. N PROVE Row(k + 1)[i] = Row(k)[i] + m[i] * c
      <3> DEFINE R == Shared(gs, L[i])
      <3>1. Sums(R, n, SharesOf(gs, L[i])) /\ SharesOf(gs, L[i])[k + 1] = Share(g, L[i])
        BY <1>0, <2>1, SharesAre
      <3>2. Row(k + 1)[i] = R[k + 1] /\ Row(k)[i] = R[k]
        BY DEF Asking
      <3> HIDE DEF R, Row
      <3>3. R[k + 1] = R[k] + Share(g, L[i]) /\ R[k] \in Nat
        BY <2>1, <3>1 DEF Sums
      <3>4. Share(g, L[i]) = m[i] * c
        BY <2>2, <2>5 DEF Share
      <3> QED
        BY <3>2, <3>3, <3>4
    <2>10. A(k + 1)[N] = A(k)[N] + M[N] * c
      <3>1. /\ Row(k) \in [1 .. N -> Nat] /\ Sums(A(k), N, Row(k))
            /\ Row(k + 1) \in [1 .. N -> Nat] /\ Sums(A(k + 1), N, Row(k + 1))
        BY <1>1, <2>1
      <3>2. Combines(Row(k + 1), Row(k), m, c, N)
        BY <2>9 DEF Combines
      <3>3. m \in [1 .. N -> Nat] /\ c \in Nat /\ N \in Nat
        BY <1>0, <2>2, <2>5
      <3> DEFINE r == Row(k)
                 r2 == Row(k + 1)
                 B == A(k)
                 B2 == A(k + 1)
      <3>4. /\ r \in [1 .. N -> Nat] /\ Sums(B, N, r)
            /\ r2 \in [1 .. N -> Nat] /\ Sums(B2, N, r2)
            /\ Combines(r2, r, m, c, N)
        BY <3>1, <3>2
      <3> HIDE DEF Row, A, N, M, c, r, r2, B, B2
      <3>5. Combine(B2, B, M, c, N)
        BY <2>7, <3>3, <3>4, SumsLinear
      <3> QED
        BY <3>5 DEF B, B2, Combine
    <2>11. A(k)[N] <= T[k]
      <3> HIDE DEF A, T
      <3> QED
        BY <1>0, <1>4
    <2>12. A(k)[N] \in Nat
      <3>1. Sums(A(k), N, Row(k))
        BY <1>1, <2>1
      <3> HIDE DEF A, N
      <3> QED
        BY <1>0, <3>1 DEF Sums
    <2>13. M[N] * c \in Nat /\ w * c \in Nat /\ M[N] * c <= w * c
      <3> HIDE DEF M, w, c
      <3> QED
        BY <2>2, <2>8, ProductGrows
    <2> HIDE DEF A, T, M, w, c
    <2> QED
      BY <2>3, <2>10, <2>11, <2>12, <2>13
  <1>5. \A k \in Nat : k \in P
    <2>1. \A k \in Nat : k \in P => k + 1 \in P
      <3> HIDE DEF A, T, N
      <3> QED
        BY <1>4
    <2> HIDE DEF P
    <2> QED
      BY <1>3, <2>1, Induction
  <1>6. A(n)[N] <= T[n]
    <2> HIDE DEF A, T, N
    <2> QED
      BY <1>0, <1>5
  <1>7. S[N] = A(n)[N]
    <2>1. n \in 0 .. n
      BY <1>0
    <2>2. Sums(A(n), N, Row(n))
      BY <1>1, <2>1
    <2>3. Alike(Row(n), Row(n), N) /\ N <= N
      BY <1>0 DEF Alike
    <2>4. \A k \in 0 .. N : S[k] = A(n)[k]
      <3>1. Sums(S, N, Row(n))
        OBVIOUS
      <3> HIDE DEF A, Row, N
      <3> QED
        BY <1>0, <2>2, <2>3, <3>1, SumsAgree
    <2> HIDE DEF A
    <2> QED
      BY <1>0, <2>4
  <1> QED
    BY <1>6, <1>7

-----------------------------------------------------------------------------
(* The synapse groups of a model, and what they ask for as it grows.        *)

ConnectionGroups ==
    [conn_type : {"all2all"}, from_start : Int, from_end : Int, to_start : Int, to_end : Int]
      \cup [conn_type : {"conv2"}, from_start : Int, from_end : Int, to_start : Int, to_end : Int,
            params : Conv2dParams, to_width : Int, to_height : Int]

\* A group that connects neurons there are.
Connects(g, groups) ==
    /\ g \in ConnectionGroups /\ IsConnection(g)
    /\ ValidRange(groups, g.from_start, g.from_end) /\ ValidRange(groups, g.to_start, g.to_end)

AllConnect(gs, groups) ==
    gs \in Seq(ConnectionGroups) /\ \A k \in 1 .. Len(gs) : Connects(gs[k], groups)

LEMMA All2allConnects ==
    ASSUME NEW groups, IsLayout(groups),
           NEW a \in Int, NEW b \in Int, NEW c \in Int, NEW e \in Int,
           ValidRange(groups, a, b), ValidRange(groups, c, e)
    PROVE  Connects(all2all_group(a, b, c, e), groups)
  BY DEF Connects, ConnectionGroups, IsConnection, all2all_group, ValidRange

LEMMA ConvolutionConnects ==
    ASSUME NEW groups, IsLayout(groups),
           NEW a \in Int, NEW b \in Int, NEW c \in Int, NEW e \in Int,
           ValidRange(groups, a, b), ValidRange(groups, c, e),
           NEW params \in Conv2dParams, check_params(params),
           ShapesMatch(conv2d_group(a, b, c, e, params))
    PROVE  Connects(conv2d_group(a, b, c, e, params), groups)
  <1> DEFINE w == OutputLength(params.input_width, params.kernel_width,
                               params.stride_width, params.padding_width)
             h == OutputLength(from_height(a, b, params), params.kernel_height,
                               params.stride_height, params.padding_height)
             g == conv2d_group(a, b, c, e, params)
  <1>1. /\ params.input_width \in Nat \ {0}
        /\ params.kernel_height \in Int /\ params.stride_height \in Nat \ {0}
        /\ params.padding_height \in Int
        /\ params.kernel_width \in Int /\ params.stride_width \in Nat \ {0}
        /\ params.padding_width \in Int
    BY DEF check_params, Conv2dParams
  <1>2. ASSUME NEW length \in Int, NEW kernel \in Int, NEW padding \in Int, NEW stride \in Nat \ {0}
        PROVE  OutputLength(length, kernel, stride, padding) \in Int
    <2> DEFINE x == length + 2 * padding - kernel + 1
    <2>1. x \in Int
      OBVIOUS
    <2> HIDE DEF x
    <2>2. divceil_i32(x, stride) \in Int
      BY <2>1, Ceiling
    <2> QED
      BY <2>2 DEF OutputLength, x
  <1>3. from_height(a, b, params) \in Int
    BY <1>1 DEF from_height
  <1>4. w \in Int /\ h \in Int
    <2> HIDE DEF w, h
    <2>1. w \in Int
      <3>1. params.input_width \in Int
        BY <1>1
      <3> QED
        BY <1>1, <1>2, <3>1 DEF w
    <2>2. h \in Int
      BY <1>1, <1>2, <1>3 DEF h
    <2> QED
      BY <2>1, <2>2
  <1>5. g = [conn_type |-> "conv2", from_start |-> a, from_end |-> b, to_start |-> c, to_end |-> e,
             params |-> params, to_width |-> w, to_height |-> h]
    BY DEF conv2d_group
  <1>6. ShapesMatch(g)
    OBVIOUS
  <1> HIDE DEF w, h, g
  <1>7. g \in ConnectionGroups
    BY <1>4, <1>5 DEF ConnectionGroups
  <1>8. a <= b /\ c <= e
    BY DEF ValidRange
  <1>9. IsConnection(g)
    BY <1>4, <1>5, <1>6, <1>8 DEF IsConnection
  <1>10. Connects(g, groups)
    BY <1>5, <1>7, <1>9 DEF Connects
  <1> QED
    BY <1>10 DEF g

LEMMA AllAreConnections ==
    ASSUME NEW gs, NEW groups, AllConnect(gs, groups)
    PROVE  AreConnections(gs, Len(gs))
  BY DEF AllConnect, AreConnections, Connects

LEMMA TotalGrows ==
    ASSUME NEW groups, IsLayout(groups), NEW size \in Nat, NEW first \in PEs, NEW last \in PEs
    PROVE  /\ TotalNeurons(groups) \in Nat
           /\ TotalNeurons(Append(groups, neuron_group(groups, size, first, last)))
                = TotalNeurons(groups) + size
  <1> DEFINE n   == Len(groups)
             g   == neuron_group(groups, size, first, last)
             new == Append(groups, g)
  <1>1. n \in Nat /\ groups \in Seq(Groups) /\ TotalNeurons(groups) \in Nat
    BY BeginsAre DEF IsLayout
  <1>2. IsLayout(new) /\ new \in Seq(Groups)
    BY LayoutGrows DEF IsLayout
  <1>3. g.num_neurons = size /\ g.global_neuron_offset = TotalNeurons(groups)
    BY DEF neuron_group
  <1> HIDE DEF g
  <1>4. Len(new) = n + 1 /\ new[n + 1] = g
    BY <1>1
  <1> HIDE DEF new, n
  <1>5. n + 1 \in 1 .. n + 1 /\ (n + 1) - 1 = n
    BY <1>1
  <1>6. Begins(new)[n] = TotalNeurons(groups)
    BY <1>2, <1>3, <1>4, <1>5 DEF IsLayout
  <1>7. Sizes(new)[n + 1] = size
    BY <1>3, <1>4, <1>5 DEF Sizes
  <1>8. Sums(Begins(new), n + 1, Sizes(new)) /\ TotalNeurons(new) = Begins(new)[n + 1]
    BY <1>2, <1>4, BeginsAre
  <1>9. TotalNeurons(new) = TotalNeurons(groups) + size
    BY <1>5, <1>6, <1>7, <1>8 DEF Sums
  <1> QED
    BY <1>1, <1>9 DEF new, g

\* What the groups ask for on pe, all together.
Room(gs, groups, pe) == Needed(gs, groups, pe)[Len(gs)]

LEMMA NeuronsJoin ==
    ASSUME NEW groups, IsLayout(groups), NEW gs, AllConnect(gs, groups),
           NEW size \in Nat, NEW first \in PEs, NEW last \in PEs
    PROVE  LET new == Append(groups, neuron_group(groups, size, first, last))
           IN  AllConnect(gs, new) /\ \A pe \in PEs : Room(gs, new, pe) = Room(gs, groups, pe)
  <1> DEFINE new == Append(groups, neuron_group(groups, size, first, last))
  <1>1. TotalNeurons(groups) \in Nat /\ TotalNeurons(new) = TotalNeurons(groups) + size
    BY TotalGrows
  <1>2. ASSUME NEW pe \in PEs, NEW start \in Int, NEW end \in Int, end < TotalNeurons(groups)
        PROVE  neurons_within_pe(new, pe, start, end) = neurons_within_pe(groups, pe, start, end)
    BY <1>2, WithinStays
  <1> HIDE DEF new
  <1>3. ASSUME NEW k \in 1 .. Len(gs)
        PROVE  /\ gs[k].from_start \in Int /\ gs[k].from_end \in Int
               /\ gs[k].from_end < TotalNeurons(groups) /\ Connects(gs[k], new)
    <2>1. Connects(gs[k], groups)
      BY DEF AllConnect
    <2> DEFINE g == gs[k]
    <2> HIDE DEF g
    <2>2. /\ g.from_start \in Int /\ g.from_end \in Int /\ g.to_start \in Int /\ g.to_end \in Int
          /\ ValidRange(groups, g.from_start, g.from_end) /\ ValidRange(groups, g.to_start, g.to_end)
      BY <2>1 DEF Connects, IsConnection, g
    <2>3. /\ ValidRange(new, g.from_start, g.from_end) /\ ValidRange(new, g.to_start, g.to_end)
          /\ g.from_end < TotalNeurons(groups)
      BY <1>1, <2>2 DEF ValidRange
    <2> QED
      BY <2>1, <2>2, <2>3 DEF Connects, g
  <1>4. AllConnect(gs, new)
    BY <1>3 DEF AllConnect
  <1>5. ASSUME NEW pe \in PEs PROVE Room(gs, new, pe) = Room(gs, groups, pe)
    <2>1. \A k \in 1 .. Len(gs) :
             neurons_within_pe(new, pe, gs[k].from_start, gs[k].from_end)
                = neurons_within_pe(groups, pe, gs[k].from_start, gs[k].from_end)
      BY <1>2, <1>3
    <2>2. Asked(gs, new, pe) = Asked(gs, groups, pe)
      BY <2>1 DEF Asked
    <2> QED
      BY <2>2 DEF Room, Needed
  <1> QED
    BY <1>4, <1>5 DEF new

LEMMA ConnectionJoins ==
    ASSUME NEW groups, IsLayout(groups), NEW gs, AllConnect(gs, groups),
           NEW g, Connects(g, groups)
    PROVE  /\ AllConnect(Append(gs, g), groups)
           /\ \A pe \in PEs :
                Room(Append(gs, g), groups, pe)
                   = Room(gs, groups, pe)
                       + neurons_within_pe(groups, pe, g.from_start, g.from_end) * SynapsesPerNeuron(g)
  <1> DEFINE n   == Len(gs)
             new == Append(gs, g)
  <1>1. n \in Nat /\ gs \in Seq(ConnectionGroups) /\ g \in ConnectionGroups
    BY DEF AllConnect, Connects
  <1>2. /\ new \in Seq(ConnectionGroups) /\ Len(new) = n + 1 /\ new[n + 1] = g
        /\ \A k \in 1 .. n : new[k] = gs[k]
    <2> DEFINE V == ConnectionGroups
    <2>1. gs \in Seq(V) /\ g \in V
      BY <1>1
    <2> HIDE DEF V
    <2>2. /\ new \in Seq(V) /\ Len(new) = n + 1 /\ new[n + 1] = g
          /\ \A k \in 1 .. n : new[k] = gs[k]
      BY <2>1
    <2> QED
      BY <2>2 DEF V
  <1> HIDE DEF new
  <1>3. AllConnect(new, groups)
    <2>1. ASSUME NEW k \in 1 .. n + 1 PROVE Connects(new[k], groups)
      <3>1. k \in 1 .. n \/ k = n + 1
        BY <1>1
      <3> QED
        BY <1>2, <3>1 DEF AllConnect
    <2> QED
      BY <1>2, <2>1 DEF AllConnect
  <1>4. ASSUME NEW pe \in PEs
        PROVE  Room(new, groups, pe) = Room(gs, groups, pe)
                  + neurons_within_pe(groups, pe, g.from_start, g.from_end) * SynapsesPerNeuron(g)
    <2> DEFINE f  == Asked(gs, groups, pe)
               f2 == Asked(new, groups, pe)
               T  == Needed(gs, groups, pe)
               T2 == Needed(new, groups, pe)
               c  == neurons_within_pe(groups, pe, g.from_start, g.from_end) * SynapsesPerNeuron(g)
    <2>1. AreConnections(gs, n) /\ AreConnections(new, n + 1)
      BY <1>2, <1>3, AllAreConnections
    <2>2. Sums(T, n, f) /\ Sums(T2, n + 1, f2)
      BY <2>1, NeededIs
    <2>3. Alike(f2, f, n)
      <3>1. ASSUME NEW k \in 1 .. n PROVE f2[k] = f[k]
        <4>1. k \in 1 .. n + 1
          BY <1>1
        <4> QED
          BY <1>2, <4>1 DEF Asked
      <3> HIDE DEF f, f2
      <3> QED
        BY <3>1 DEF Alike
    <2>4. f2[n + 1] = c
      <3>1. n + 1 \in 1 .. n + 1
        BY <1>1
      <3> QED
        BY <1>2, <3>1 DEF Asked
    <2>5. \A k \in 0 .. n : T2[k] = T[k]
      <3>1. n <= n + 1 /\ n + 1 \in Nat
        BY <1>1
      <3> HIDE DEF T, T2, f, f2, n
      <3> QED
        BY <1>1, <2>2, <2>3, <3>1, SumsAgree
    <2>6. T2[n + 1] = T[n] + c
      <3>1. n + 1 \in 1 .. n + 1 /\ (n + 1) - 1 = n /\ n \in 0 .. n
        BY <1>1
      <3> HIDE DEF T, T2, f, f2, n, c
      <3> QED
        BY <2>2, <2>4, <2>5, <3>1 DEF Sums
    <2> QED
      BY <1>2, <2>6 DEF Room
  <1> QED
    BY <1>3, <1>4 DEF new

-----------------------------------------------------------------------------
(* The room that is counted and what is laid down, as the model is set up.  *)

Filled ==
    [pe \in PEs |-> LET local == LocalNeurons(neuron_groups, pe)
                    IN  [i \in DOMAIN local |-> SynapsesOf(local[i])]]

RoomInv ==
    /\ IsLayout(neuron_groups)
    /\ AllConnect(synapse_groups, neuron_groups)
    /\ \A pe \in PEs : total_synapses[pe] = Room(synapse_groups, neuron_groups, pe)
    /\ LaidDown => synapses = Filled

\* The parts of RoomInv that hold of values.
Counts(groups, gs, total) ==
    /\ IsLayout(groups) /\ AllConnect(gs, groups)
    /\ \A pe \in PEs : total[pe] = Room(gs, groups, pe)

LEMMA NeuronsCount ==
    ASSUME NEW groups, NEW gs, NEW total, Counts(groups, gs, total),
           NEW size \in GroupSizes, NEW place \in Placements, place[1] \in PEs, place[2] \in PEs
    PROVE  Counts(Append(groups, neuron_group(groups, size, place[1], place[2])), gs, total)
  <1>1. size \in Nat /\ IsLayout(groups) /\ AllConnect(gs, groups)
    BY LayoutAssumption DEF Counts
  <1> DEFINE new == Append(groups, neuron_group(groups, size, place[1], place[2]))
  <1>2. IsLayout(new)
    BY <1>1, LayoutGrows
  <1>3. AllConnect(gs, new) /\ \A pe \in PEs : Room(gs, new, pe) = Room(gs, groups, pe)
    BY <1>1, NeuronsJoin
  <1> HIDE DEF new
  <1>4. Counts(new, gs, total)
    BY <1>2, <1>3 DEF Counts
  <1> QED
    BY <1>4 DEF new

LEMMA ConnectionCounts ==
    ASSUME NEW groups, NEW gs, NEW total, Counts(groups, gs, total), NEW g, Connects(g, groups)
    PROVE  Counts(groups, Append(gs, g),
                  [pe \in PEs |-> total[pe]
                      + neurons_within_pe(groups, pe, g.from_start, g.from_end) * SynapsesPerNeuron(g)])
  BY ConnectionJoins DEF Counts

LEMMA PlacesWithinNodes ==
    ASSUME NEW place \in Placements, MayDefine(place)
    PROVE  place[1] \in PEs /\ place[2] \in PEs
  BY LayoutAssumption, NodesAssumption DEF MayDefine, PEs

LEMMA ConnectCounts ==
    ASSUME NEW groups, Counts(groups, synapse_groups, total_synapses), NEW g, Connects(g, groups),
           Connect(groups, g)
    PROVE  Counts(groups, synapse_groups', total_synapses')
  BY ConnectionCounts DEF Connect

LEMMA RoomInductive ==
    Spec => []RoomInv
  <1>1. Init => RoomInv
    <2> SUFFICES ASSUME Init PROVE RoomInv
      OBVIOUS
    <2>1. neuron_groups = <<>> /\ synapse_groups = <<>> /\ ~ LaidDown
      BY DEF Init, LaidDown
    <2>2. IsLayout(<<>>) /\ AllConnect(<<>>, <<>>)
      BY EmptyLayout DEF AllConnect
    <2>3. ASSUME NEW pe \in PEs PROVE total_synapses[pe] = Room(<<>>, <<>>, pe)
      <3>1. AreConnections(<<>>, 0) /\ Len(<<>>) = 0
        BY <2>2, AllAreConnections
      <3>2. Needed(<<>>, <<>>, pe)[0] = 0
        BY <2>2, <3>1, NeededIs DEF Sums
      <3> QED
        BY <3>1, <3>2 DEF Init, Room
    <2> QED
      BY <2>1, <2>2, <2>3 DEF RoomInv
  <1>2. RoomInv /\ [Next]_vars => RoomInv'
    <2> SUFFICES ASSUME RoomInv, [Next]_vars PROVE RoomInv'
      OBVIOUS
    <2>0. Counts(neuron_groups, synapse_groups, total_synapses)
      BY DEF RoomInv, Counts
    <2>a. ASSUME Counts(neuron_groups, synapse_groups, total_synapses)', ~ LaidDown'
          PROVE  RoomInv'
      BY <2>a DEF RoomInv, Counts
    <2>b. tw_error => RoomInv'
      BY <2>0, <2>a DEF tw_error, LaidDown, Counts
    <2>1. CASE UNCHANGED vars
      <3>1. LaidDown' = LaidDown
        BY <2>1 DEF vars, LaidDown
      <3>2. Filled' = Filled
        BY <2>1 DEF vars, Filled, SynapsesOf
      <3> QED
        BY <2>1, <3>1, <3>2 DEF RoomInv, vars
    <2>2. ASSUME NEW size \in GroupSizes, NEW place \in Placements,
                 layout_master_neurons(size, place)
          PROVE  RoomInv'
      <3>1. CASE MayDefine(place)
        <4>1. /\ neuron_groups' = WithNeurons(size, place) /\ phase' = "defining"
              /\ UNCHANGED <<synapse_groups, total_synapses>>
          BY <2>2, <3>1 DEF layout_master_neurons
        <4>2. Counts(WithNeurons(size, place), synapse_groups, total_synapses)
          BY <2>0, <3>1, PlacesWithinNodes, NeuronsCount DEF WithNeurons
        <4> QED
          BY <2>a, <4>1, <4>2 DEF LaidDown
      <3>2. CASE ~ MayDefine(place)
        BY <2>2, <2>b, <3>2 DEF layout_master_neurons
      <3> QED
        BY <3>1, <3>2
    <2>3. ASSUME NEW size \in GroupSizes, NEW place \in Placements,
                 layout_std_fully_connected_network(size, place)
          PROVE  RoomInv'
      <3> DEFINE start  == TotalNeurons(neuron_groups)
                 groups == WithNeurons(size, place)
                 new    == <<start, start + size - 1>>
                 g      == all2all_group(start, start + size - 1, start, start + size - 1)
      <3>1. CASE MayDefine(place) /\ check_from_to_inputs(groups, new, new)
        <4>1. Connect(groups, g) /\ neuron_groups' = groups /\ phase = "defining"
          BY <2>3, <3>1 DEF layout_std_fully_connected_network
        <4>2. Counts(groups, synapse_groups, total_synapses)
          BY <2>0, <3>1, PlacesWithinNodes, NeuronsCount DEF WithNeurons
        <4>3. start \in Int /\ start + size - 1 \in Int
          <5>1. start \in Nat /\ size \in Nat
            BY BeginsAre, LayoutAssumption DEF RoomInv, IsLayout
          <5> QED
            BY <5>1
        <4>4. ValidRange(groups, start, start + size - 1)
          BY <3>1 DEF check_from_to_inputs
        <4>5. Connects(g, groups)
          <5>1. IsLayout(groups)
            BY <4>2 DEF Counts
          <5> HIDE DEF start, groups
          <5> QED
            BY <4>3, <4>4, <5>1, All2allConnects
        <4> HIDE DEF groups, g
        <4>6. Counts(groups, synapse_groups', total_synapses')
          BY <4>1, <4>2, <4>5, ConnectCounts
        <4>7. ~ LaidDown'
          BY <4>1 DEF Connect, LaidDown
        <4> QED
          BY <2>a, <4>1, <4>6, <4>7
      <3>2. CASE ~ (MayDefine(place) /\ check_from_to_inputs(groups, new, new))
        BY <2>3, <2>b, <3>2 DEF layout_std_fully_connected_network
      <3> QED
        BY <3>1, <3>2
    <2>4. ASSUME NEW size \in GroupSizes, NEW place \in Placements,
                 layout_std_fully_connected_layer(size, place)
          PROVE  RoomInv'
      <3> DEFINE last   == Last(neuron_groups)
                 start  == TotalNeurons(neuron_groups)
                 groups == WithNeurons(size, place)
                 old    == <<last.global_neuron_offset,
                             last.global_neuron_offset + last.num_neurons - 1>>
                 new    == <<start, start + size - 1>>
                 g      == all2all_group(old[1], old[2], new[1], new[2])
      <3>1. CASE MayDefine(place) /\ check_from_to_inputs(groups, old, new)
        <4>1. /\ Connect(groups, g) /\ neuron_groups' = groups /\ phase = "defining"
              /\ neuron_groups # <<>>
          BY <2>4, <3>1 DEF layout_std_fully_connected_layer
        <4>2. Counts(groups, synapse_groups, total_synapses)
          BY <2>0, <3>1, PlacesWithinNodes, NeuronsCount DEF WithNeurons
        <4>3. new[1] \in Int /\ new[2] \in Int
          <5>1. start \in Nat /\ size \in Nat
            BY BeginsAre, LayoutAssumption DEF RoomInv, IsLayout
          <5> QED
            BY <5>1
        <4>4. old[1] \in Int /\ old[2] \in Int
          <5>1. Len(neuron_groups) \in 1 .. Len(neuron_groups) /\ last = neuron_groups[Len(neuron_groups)]
            BY <4>1 DEF RoomInv, IsLayout, Last
          <5>2. IsGroup(last)
            BY <5>1 DEF RoomInv, IsLayout
          <5> HIDE DEF last
          <5>3. last.global_neuron_offset \in Nat /\ last.num_neurons \in Nat
            BY <5>2 DEF IsGroup
          <5> QED
            BY <5>3
        <4>5. ValidRange(groups, old[1], old[2]) /\ ValidRange(groups, new[1], new[2])
          BY <3>1 DEF check_from_to_inputs
        <4>6. Connects(g, groups)
          <5>1. IsLayout(groups)
            BY <4>2 DEF Counts
          <5> HIDE DEF old, new, groups
          <5> QED
            BY <4>3, <4>4, <4>5, <5>1, All2allConnects
        <4> HIDE DEF groups, g
        <4>7. Counts(groups, synapse_groups', total_synapses')
          BY <4>1, <4>2, <4>6, ConnectCounts
        <4>8. ~ LaidDown'
          BY <4>1 DEF Connect, LaidDown
        <4> QED
          BY <2>a, <4>1, <4>7, <4>8
      <3>2. CASE ~ (MayDefine(place) /\ check_from_to_inputs(groups, old, new))
        BY <2>4, <2>b, <3>2 DEF layout_std_fully_connected_layer
      <3> QED
        BY <3>1, <3>2
    <2>5. ASSUME NEW from \in FromRanges, NEW to \in ToRanges,
                 layout_master_synapses_all2all(from, to)
          PROVE  RoomInv'
      <3> DEFINE g == all2all_group(from[1], from[2], to[1], to[2])
      <3>1. CASE check_from_to_inputs(neuron_groups, from, to)
        <4>1. Connect(neuron_groups, g) /\ neuron_groups' = neuron_groups /\ phase = "defining"
          BY <2>5, <3>1 DEF layout_master_synapses_all2all
        <4>2. from[1] \in Int /\ from[2] \in Int /\ to[1] \in Int /\ to[2] \in Int
          BY LayoutAssumption
        <4>3. /\ ValidRange(neuron_groups, from[1], from[2])
              /\ ValidRange(neuron_groups, to[1], to[2]) /\ IsLayout(neuron_groups)
          BY <3>1 DEF check_from_to_inputs, RoomInv
        <4>4. Connects(g, neuron_groups)
          BY <4>2, <4>3, All2allConnects
        <4> HIDE DEF g
        <4>5. Counts(neuron_groups, synapse_groups', total_synapses')
          BY <2>0, <4>1, <4>4, ConnectCounts
        <4>6. ~ LaidDown'
          BY <4>1 DEF Connect, LaidDown
        <4> QED
          BY <2>a, <4>1, <4>5, <4>6
      <3>2. CASE ~ check_from_to_inputs(neuron_groups, from, to)
        BY <2>5, <2>b, <3>2 DEF layout_master_synapses_all2all
      <3> QED
        BY <3>1, <3>2
    <2>6. ASSUME NEW from \in FromRanges, NEW to \in ToRanges, NEW params \in ConvParams,
                 layout_master_synapses_conv2d(from, to, params)
          PROVE  RoomInv'
      <3> DEFINE g == conv2d_group(from[1], from[2], to[1], to[2], params)
                 accepted == /\ check_from_to_inputs(neuron_groups, from, to)
                             /\ check_params(params) /\ ShapesMatch(g)
      <3>1. CASE accepted
        <4>1. Connect(neuron_groups, g) /\ neuron_groups' = neuron_groups /\ phase = "defining"
          BY <2>6, <3>1 DEF layout_master_synapses_conv2d
        <4>2. /\ from[1] \in Int /\ from[2] \in Int /\ to[1] \in Int /\ to[2] \in Int
              /\ params \in Conv2dParams
          BY LayoutAssumption
        <4>3. /\ ValidRange(neuron_groups, from[1], from[2])
              /\ ValidRange(neuron_groups, to[1], to[2]) /\ IsLayout(neuron_groups)
          BY <3>1 DEF check_from_to_inputs, RoomInv
        <4>4. Connects(g, neuron_groups)
          BY <3>1, <4>2, <4>3, ConvolutionConnects
        <4> HIDE DEF g
        <4>5. Counts(neuron_groups, synapse_groups', total_synapses')
          BY <2>0, <4>1, <4>4, ConnectCounts
        <4>6. ~ LaidDown'
          BY <4>1 DEF Connect, LaidDown
        <4> QED
          BY <2>a, <4>1, <4>5, <4>6
      <3>2. CASE ~ accepted
        BY <2>6, <2>b, <3>2 DEF layout_master_synapses_conv2d
      <3> QED
        BY <3>1, <3>2
    <2>7. CASE layout_master_init
      <3>1. /\ synapses' = Filled
            /\ UNCHANGED <<neuron_groups, synapse_groups, total_synapses>>
        BY <2>7 DEF layout_master_init, Filled
      <3>2. Filled' = Filled
        BY <3>1 DEF Filled, SynapsesOf
      <3> QED
        BY <3>1, <3>2 DEF RoomInv
    <2>8. CASE map_pseudo_linear
      <3>1. CASE \E pe \in PEs : total_neurons_in_pe(neuron_groups, pe) = 0
        BY <2>8, <2>b, <3>1 DEF map_pseudo_linear
      <3>2. CASE ~ \E pe \in PEs : total_neurons_in_pe(neuron_groups, pe) = 0
        <4>1. /\ UNCHANGED <<neuron_groups, synapse_groups, total_synapses, synapses>>
              /\ LaidDown
          BY <2>8, <3>2 DEF map_pseudo_linear, LaidDown
        <4>2. Filled' = Filled
          BY <4>1 DEF Filled, SynapsesOf
        <4> QED
          BY <4>1, <4>2 DEF RoomInv
      <3> QED
        BY <3>1, <3>2
    <2>9. CASE layout_master_free
      <3>1. UNCHANGED <<neuron_groups, synapse_groups, total_synapses>> /\ ~ LaidDown'
        BY <2>9 DEF layout_master_free, LaidDown
      <3> QED
        BY <2>0, <2>a, <3>1 DEF Counts
    <2> QED
      BY <2>1, <2>2, <2>3, <2>4, <2>5, <2>6, <2>7, <2>8, <2>9 DEF Next
  <1> QED
    BY <1>1, <1>2, PTL DEF Spec

\* A sum of lengths.
LEMMA LengthsAdd ==
    ASSUME NEW lists, NEW n \in Nat, DOMAIN lists = 1 .. n, NEW f \in [1 .. n -> Nat],
           \A i \in 1 .. n : f[i] = Len(lists[i])
    PROVE  SumOver(lists, Len) = Partial(f, n)[n]
  <1> DEFINE Step(it) == [s \in SUBSET DOMAIN lists |->
                            IF s = {} THEN 0 ELSE it[s \ {Max(s)}] + Len(lists[Max(s)])]
             sum == CHOOSE it : it = Step(it)
  <1>1. SumOver(lists, Len) = sum[1 .. n]
    BY DEF SumOver, FoldLeft, MapThenFoldSet
  <1>2. ASSUME NEW it
        PROVE  Step(it) = [s \in SUBSET (1 .. n) |->
                             IF s = {} THEN 0 ELSE it[s \ {Max(s)}] + f[Max(s)]]
    <2>1. \A s \in SUBSET (1 .. n) : s # {} => Max(s) \in 1 .. n
      BY MaxIs
    <2>2. \A s \in SUBSET (1 .. n) : s # {} => f[Max(s)] = Len(lists[Max(s)])
      BY <2>1
    <2> QED
      BY <2>2
  <1>3. \A it : it = Step(it) <=> SumsUp(it, n, f)
    <2> HIDE DEF Step
    <2> QED
      BY <1>2 DEF SumsUp
  <1>4. SumsUp(sum, n, f)
    <2> HIDE DEF Step
    <2> QED
      BY <1>3, SumExists
  <1>5. sum[1 .. n] = Partial(f, n)[n]
    <2> HIDE DEF sum
    <2> QED
      BY <1>4, FoldIsPartial
  <1> QED
    BY <1>1, <1>5

\* master.c:423. What a PE counted while the synapse groups were defined, one at a time and
\* with the neuron groups there were by then, is room enough for all that it lays down.
THEOREM RoomForSynapses ==
    Spec => []SynapsesFit
  <1>1. RoomInv => SynapsesFit
    <2> SUFFICES ASSUME RoomInv, LaidDown, NEW pe \in PEs
                 PROVE  SumOver(synapses[pe], Len) <= total_synapses[pe]
      BY DEF SynapsesFit
    <2> DEFINE G  == neuron_groups
               gs == synapse_groups
               n  == Len(gs)
               N  == total_neurons_in_pe(G, pe)
               L  == LocalNeurons(G, pe)
               lists == synapses[pe]
               f  == [i \in 1 .. N |-> Len(lists[i])]
               h  == Asking(gs, G, pe, n)
               S  == Partial(f, N)
               T  == Partial(h, N)
    <2>1. IsLayout(G) /\ AreConnections(gs, n)
      BY AllAreConnections DEF RoomInv
    <2>2. N \in Nat /\ DOMAIN L = 1 .. N /\ \A i \in 1 .. N : L[i] \in Int
      <3>1. \A i \in DOMAIN L : L[i] \in Int
        BY <2>1, LocalNeuronsAreSeq, EntriesOf
      <3> QED
        BY <2>1, <3>1, LocalNeuronsAreSeq
    <2>3. lists = [i \in 1 .. N |-> SynapsesOf(L[i])]
      <3>1. synapses = Filled
        BY DEF RoomInv
      <3>2. Filled[pe] = [i \in DOMAIN L |-> SynapsesOf(L[i])]
        BY DEF Filled
      <3> QED
        BY <2>2, <3>1, <3>2
    <2>4. ASSUME NEW i \in 1 .. N
          PROVE  f[i] \in Nat /\ h[i] \in Nat /\ f[i] <= h[i]
      <3> DEFINE ids == synapse_iter(gs, L[i])
      <3>1. Len(ids) \in Nat /\ ids \in Seq(Connections) /\ Len(ids) <= Shared(gs, L[i])[n]
        BY <2>1, <2>2, LengthBounded
      <3>2. Shared(gs, L[i])[n] \in Nat
        <4>1. Sums(Shared(gs, L[i]), n, SharesOf(gs, L[i]))
          BY <2>1, <2>2, SharesAre
        <4>2. n \in Nat
          BY <2>1 DEF AreConnections
        <4> QED
          BY <4>1, <4>2 DEF Sums
      <3>3. f[i] = Len(ids)
        <4>1. lists[i] = SynapsesOf(L[i])
          BY <2>3
        <4>2. SynapsesOf(L[i]) = [j \in DOMAIN ids |->
                                    [gid_to_send |-> doryta_id_to_gid(G, ids[j].to),
                                     weight |-> ids[j].conn_parameter]]
          BY DEF SynapsesOf
        <4> HIDE DEF ids
        <4>3. DOMAIN ids = 1 .. Len(ids)
          BY <3>1
        <4>4. Len(SynapsesOf(L[i])) = Len(ids)
          BY <3>1, <4>2, <4>3
        <4> QED
          BY <4>1, <4>4
      <3>4. h[i] = Shared(gs, L[i])[n]
        BY DEF Asking
      <3> QED
        BY <3>1, <3>2, <3>3, <3>4
    <2>5. f \in [1 .. N -> Nat] /\ h \in [1 .. N -> Nat]
      <3>1. \A i \in 1 .. N : f[i] \in Nat /\ h[i] \in Nat
        BY <2>4
      <3>2. f = [i \in 1 .. N |-> f[i]] /\ h = [i \in 1 .. N |-> h[i]]
        BY DEF Asking
      <3> HIDE DEF f, h
      <3> QED
        BY <3>1, <3>2
    <2>6. Sums(S, N, f) /\ Sums(T, N, h)
      <3> HIDE DEF f, h, N
      <3> QED
        BY <2>2, <2>5, PartialSums
    <2>7. S[N] <= T[N]
      <3>1. \A i \in 1 .. N : f[i] <= h[i]
        BY <2>4
      <3>2. N \in 0 .. N
        BY <2>2
      <3> HIDE DEF f, h, N, S, T
      <3> QED
        BY <2>2, <2>5, <2>6, <3>1, <3>2, SumsBounded
    <2>8. T[N] <= Room(gs, G, pe)
      <3> HIDE DEF T, h
      <3>1. T[N] <= Needed(gs, G, pe)[n]
        BY <2>1, <2>6, CountedBothWays DEF h
      <3> QED
        BY <3>1 DEF Room
    <2>9. SumOver(lists, Len) = S[N]
      <3>1. DOMAIN lists = 1 .. N /\ \A i \in 1 .. N : f[i] = Len(lists[i])
        BY <2>3
      <3> HIDE DEF lists, f, N
      <3> QED
        BY <2>2, <2>5, <3>1, LengthsAdd
    <2>10. S[N] \in Nat /\ T[N] \in Nat /\ Room(gs, G, pe) \in Nat
      <3>1. n \in Nat /\ Sums(Needed(gs, G, pe), n, Asked(gs, G, pe))
        BY <2>1, NeededIs DEF AreConnections
      <3>2. Room(gs, G, pe) \in Nat
        BY <3>1 DEF Room, Sums
      <3>3. N \in 0 .. N
        BY <2>2
      <3> HIDE DEF S, T, f, h, N
      <3> QED
        BY <2>6, <3>2, <3>3 DEF Sums
    <2>11. total_synapses[pe] = Room(gs, G, pe)
      BY DEF RoomInv
    <2> HIDE DEF lists, S, T, N
    <2>12. S[N] <= total_synapses[pe]
      <3> DEFINE room == Room(gs, G, pe)
                 most == T[N]
                 laid == S[N]
      <3>1. laid \in Nat /\ most \in Nat /\ room \in Nat /\ laid <= most /\ most <= room
        BY <2>7, <2>8, <2>10
      <3>2. total_synapses[pe] = room
        BY <2>11
      <3> HIDE DEF room, most, laid
      <3>3. laid <= room
        BY <3>1
      <3>4. laid <= total_synapses[pe]
        BY <3>2, <3>3
      <3> QED
        BY <3>4 DEF laid
    <2>13. SumOver(lists, Len) <= total_synapses[pe]
      BY <2>9, <2>12, Zenon
    <2> QED
      BY <2>13 DEF lists
  <1> QED
    BY <1>1, RoomInductive, PTL

-----------------------------------------------------------------------------
(* What a convolution calls for and what the iterator gives.                *)

\* s goes through the members of S in ascending order.
InOrder(s, S) ==
    /\ s \in Seq(Int) /\ \A i \in 1 .. Len(s) : s[i] \in S
    /\ \A i, j \in 1 .. Len(s) : i < j => s[i] < s[j]
    /\ \A p \in S : \E i \in 1 .. Len(s) : s[i] = p

LEMMA BeginsAlike ==
    ASSUME NEW S, NEW s, InOrder(s, S), NEW t, InOrder(t, S)
    PROVE  Len(s) <= Len(t) /\ \A i \in 1 .. Len(s) : s[i] = t[i]
  <1> DEFINE P == {k \in Nat : k <= Len(s) =>
                                  k <= Len(t) /\ \A i \in 1 .. k : s[i] = t[i]}
  <1>1. /\ Len(s) \in Nat /\ Len(t) \in Nat
        /\ \A i \in 1 .. Len(s) : s[i] \in S /\ s[i] \in Int
        /\ \A i \in 1 .. Len(t) : t[i] \in S /\ t[i] \in Int
    BY DEF InOrder
  <1>2. 0 \in P
    BY <1>1
  <1>3. ASSUME NEW k \in Nat, k \in P, k + 1 <= Len(s)
        PROVE  k + 1 <= Len(t) /\ \A i \in 1 .. k + 1 : s[i] = t[i]
    <2>1. k <= Len(t) /\ \A i \in 1 .. k : s[i] = t[i]
      BY <1>1, <1>3
    <2>2. PICK j \in 1 .. Len(t) : t[j] = s[k + 1]
      <3>1. k + 1 \in 1 .. Len(s)
        BY <1>1, <1>3
      <3>2. s[k + 1] \in S
        BY <1>1, <3>1
      <3> QED
        BY <3>2 DEF InOrder
    <2>3. j >= k + 1
      <3> SUFFICES ASSUME j \in 1 .. k PROVE FALSE
        BY <1>1, <2>2
      <3>1. s[j] = s[k + 1]
        BY <2>1, <2>2
      <3>2. j \in 1 .. Len(s) /\ k + 1 \in 1 .. Len(s) /\ j < k + 1
        BY <1>1, <1>3
      <3>3. s[j] < s[k + 1] /\ s[j] \in Int
        BY <1>1, <3>2 DEF InOrder
      <3> QED
        BY <3>1, <3>3
    <2>4. k + 1 <= Len(t) /\ k + 1 \in 1 .. Len(t) /\ k + 1 \in 1 .. Len(s)
      BY <1>1, <1>3, <2>2, <2>3
    <2>5. PICK i \in 1 .. Len(s) : s[i] = t[k + 1]
      <3>1. t[k + 1] \in S
        BY <1>1, <2>4
      <3> QED
        BY <3>1 DEF InOrder
    <2>6. i >= k + 1
      <3> SUFFICES ASSUME i \in 1 .. k PROVE FALSE
        BY <1>1, <2>5
      <3>1. t[i] = t[k + 1]
        BY <2>1, <2>5
      <3>2. i \in 1 .. Len(t) /\ i < k + 1
        BY <1>1, <2>1
      <3>3. t[i] < t[k + 1] /\ t[i] \in Int
        BY <1>1, <2>4, <3>2 DEF InOrder
      <3> QED
        BY <3>1, <3>3
    <2>7. s[k + 1] <= t[k + 1]
      <3>1. i = k + 1 \/ s[k + 1] < s[i]
        <4>1. k + 1 < i \/ i = k + 1
          BY <1>1, <2>6
        <4> QED
          BY <2>4, <4>1 DEF InOrder
      <3> QED
        BY <1>1, <2>4, <2>5, <3>1
    <2>8. t[k + 1] <= s[k + 1]
      <3>1. j = k + 1 \/ t[k + 1] < t[j]
        <4>1. k + 1 < j \/ j = k + 1
          BY <1>1, <2>3
        <4> QED
          BY <2>4, <4>1 DEF InOrder
      <3> QED
        BY <1>1, <2>2, <2>4, <3>1
    <2>9. s[k + 1] = t[k + 1]
      BY <1>1, <2>4, <2>7, <2>8
    <2>10. \A i2 \in 1 .. k + 1 : i2 \in 1 .. k \/ i2 = k + 1
      OBVIOUS
    <2> QED
      BY <2>1, <2>4, <2>9, <2>10
  <1>4. \A k \in Nat : k \in P
    <2>1. \A k \in Nat : k \in P => k + 1 \in P
      BY <1>3
    <2> HIDE DEF P
    <2> QED
      BY <1>2, <2>1, Induction
  <1>5. Len(s) \in P
    <2> HIDE DEF P
    <2> QED
      BY <1>1, <1>4
  <1> QED
    BY <1>1, <1>5

LEMMA OneOrder ==
    ASSUME NEW S, NEW s, InOrder(s, S), NEW t, InOrder(t, S)
    PROVE  Len(s) = Len(t) /\ \A i \in 1 .. Len(s) : s[i] = t[i]
  <1>1. Len(s) <= Len(t) /\ Len(t) <= Len(s) /\ \A i \in 1 .. Len(s) : s[i] = t[i]
    BY BeginsAlike
  <1>2. Len(s) \in Nat /\ Len(t) \in Nat
    BY DEF InOrder
  <1> QED
    BY <1>1, <1>2

LEMMA ListsInOrder ==
    ASSUME NEW n \in Nat, NEW S \in SUBSET (1 .. n), NEW k, Lists(k, S, n, n)
    PROVE  InOrder(k, S)
  <1>1. k \in Seq(Int) /\ Len(k) \in Nat
    <2>1. k \in Seq(1 .. n) /\ \A i \in 1 .. Len(k) : k[i] \in Int
      BY DEF Lists
    <2> QED
      BY <2>1
  <1>2. \A p \in S : p \in 1 .. n
    OBVIOUS
  <1> QED
    BY <1>1, <1>2 DEF Lists, InOrder

-----------------------------------------------------------------------------
\* The kernel positions along an axis that lie over the input cell when the kernel is applied
\* for output cell o.
Hits(position, kernel, stride, padding, o) ==
    {p \in 0 .. kernel - 1 : o * stride + p - padding = position}

LEMMA HitIs ==
    ASSUME NEW kernel \in Nat \ {0}, NEW stride \in Nat \ {0}, NEW l \in Nat, NEW s \in Nat,
           NEW m \in 0 .. stride - 1, NEW q \in Int, q = stride * l + m,
           s * stride - stride < kernel - m, kernel - m <= s * stride,
           NEW o \in Int, NEW p \in Int
    PROVE  (p \in 0 .. kernel - 1 /\ o * stride + p = q)
              <=> (l - o \in 0 .. s - 1 /\ p = m + (l - o) * stride)
  <1> DEFINE b == l - o
             t == b * stride
             u == s * stride
             v == o * stride
  <1>1. b \in Int /\ t \in Int /\ u \in Int /\ v \in Int
    OBVIOUS
  <1>2. stride * l = v + t
    OBVIOUS
  <1>3. b < 0 => t + stride <= 0
    <2>1. b < 0 => b * stride + stride <= 0 * stride
      <3> HIDE DEF b
      <3> QED
        BY <1>1, Grows
    <2> QED
      BY <2>1
  <1>4. b < s => t + stride <= u
    <2> HIDE DEF b
    <2> QED
      BY <1>1, Grows
  <1>5. s <= b => u <= t
    <2>1. s < b => s * stride + stride <= b * stride
      <3> HIDE DEF b
      <3> QED
        BY <1>1, Grows
    <2>2. s = b => u = t
      OBVIOUS
    <2> HIDE DEF b
    <2> QED
      BY <1>1, <2>1, <2>2
  <1>6. 0 <= b => 0 <= t
    <2>1. 0 < b => 0 * stride + stride <= b * stride
      <3> HIDE DEF b
      <3> QED
        BY <1>1, Grows
    <2>2. 0 = b => 0 = t
      OBVIOUS
    <2> HIDE DEF b
    <2> QED
      BY <1>1, <2>1, <2>2
  <1>7. (p \in 0 .. kernel - 1 /\ v + p = q) <=> (b \in 0 .. s - 1 /\ p = m + t)
    <2>1. q = v + t + m
      BY <1>2
    <2>2. u - stride < kernel - m /\ kernel - m <= u
      OBVIOUS
    <2> HIDE DEF b, t, u, v
    <2> QED
      BY <1>1, <1>3, <1>4, <1>5, <1>6, <2>1, <2>2
  <1> QED
    BY <1>7

\* Where the kernel lies over the cell, it does so once; and the iterator comes to all those.
ComesTo(axis, position, kernel, stride, padding) ==
    /\ \A k \in 0 .. axis.synapses - 1 :
          /\ Covering(axis, stride, k).output = axis.last - axis.synapses + 1 + k
          /\ Covering(axis, stride, k).kernel \in 0 .. kernel - 1
          /\ Hits(position, kernel, stride, padding, Covering(axis, stride, k).output)
               = {Covering(axis, stride, k).kernel}
    /\ \A o \in Int : Hits(position, kernel, stride, padding, o) # {} =>
          \E k \in 0 .. axis.synapses - 1 : Covering(axis, stride, k).output = o

LEMMA HitsAre ==
    ASSUME NEW position \in Nat, NEW kernel \in Nat \ {0}, NEW stride \in Nat \ {0},
           NEW padding \in Nat, NEW axis, OnAxis(axis, position, kernel, stride, padding)
    PROVE  ComesTo(axis, position, kernel, stride, padding)
  <1> DEFINE l == axis.last
             s == axis.synapses
             m == axis.mod_stride
             q == position + padding
             H(o) == Hits(position, kernel, stride, padding, o)
  <1>1. /\ m \in 0 .. stride - 1 /\ l \in Nat /\ s \in Nat /\ q = stride * l + m /\ q \in Int
        /\ s * stride - stride < kernel - m /\ kernel - m <= s * stride
    BY DEF OnAxis
  <1>2. \A k : /\ Covering(axis, stride, k).output = l - (s - k - 1)
               /\ Covering(axis, stride, k).kernel = m + (s - k - 1) * stride
    BY DEF Covering
  <1> HIDE DEF l, s, m
  <1>3. \A o, p \in Int : (p \in 0 .. kernel - 1 /\ o * stride + p = q)
                             <=> (l - o \in 0 .. s - 1 /\ p = m + (l - o) * stride)
    <2> HIDE DEF q
    <2> QED
      BY <1>1, HitIs
  <1>4. \A o \in Int : \A p \in 0 .. kernel - 1 :
           o * stride + p - padding = position <=> o * stride + p = q
    <2> SUFFICES ASSUME NEW o \in Int, NEW p \in 0 .. kernel - 1
                 PROVE  o * stride + p - padding = position <=> o * stride + p = q
      OBVIOUS
    <2> DEFINE v == o * stride
    <2>1. v \in Int
      OBVIOUS
    <2> HIDE DEF v
    <2>2. v + p - padding = position <=> v + p = q
      BY <2>1
    <2> QED
      BY <2>2 DEF v
  <1> HIDE DEF q
  <1>5. \A o \in Int : H(o) = {p \in 0 .. kernel - 1 : l - o \in 0 .. s - 1 /\ p = m + (l - o) * stride}
    <2> SUFFICES ASSUME NEW o \in Int
                 PROVE  H(o) = {p \in 0 .. kernel - 1 : l - o \in 0 .. s - 1 /\ p = m + (l - o) * stride}
      OBVIOUS
    <2>1. \A p \in 0 .. kernel - 1 : p \in Int
      OBVIOUS
    <2>2. \A p \in 0 .. kernel - 1 : o * stride + p - padding = position
                                       <=> (l - o \in 0 .. s - 1 /\ p = m + (l - o) * stride)
      BY <1>3, <1>4, <2>1, Zenon
    <2> QED
      BY <2>2, Zenon DEF Hits
  <1> HIDE DEF H
  <1>6. ASSUME NEW k \in 0 .. s - 1
        PROVE  LET at == Covering(axis, stride, k)
               IN  at.output = l - s + 1 + k /\ at.kernel \in 0 .. kernel - 1
                   /\ H(at.output) = {at.kernel}
    <2> DEFINE o == l - (s - k - 1)
               p == m + (l - o) * stride
    <2>1. o \in Int /\ l - o = s - k - 1 /\ l - o \in 0 .. s - 1 /\ o = l - s + 1 + k
      BY <1>1
    <2>2. Covering(axis, stride, k).output = o /\ Covering(axis, stride, k).kernel = p
      BY <1>2, <2>1
    <2>3. p \in Int
      BY <1>1, <2>1
    <2> HIDE DEF o
    <2>4. p \in 0 .. kernel - 1
      BY <1>3, <2>1, <2>3
    <2> HIDE DEF p
    <2>5. H(o) = {p}
      BY <1>5, <2>1, <2>4 DEF p
    <2> QED
      BY <2>1, <2>2, <2>4, <2>5
  <1>7. ASSUME NEW o \in Int, H(o) # {}
        PROVE  \E k \in 0 .. s - 1 : Covering(axis, stride, k).output = o
    <2>1. l - o \in 0 .. s - 1
      BY <1>5, <1>7
    <2>2. s - 1 - (l - o) \in 0 .. s - 1 /\ l - (s - (s - 1 - (l - o)) - 1) = o
      BY <1>1, <2>1
    <2> QED
      BY <1>2, <2>2
  <1> QED
    BY <1>6, <1>7 DEF H, l, s, ComesTo

\* A table of a rows of b.
LEMMA InTable ==
    ASSUME NEW a \in Nat, NEW b \in Nat \ {0}
    PROVE  /\ a * b \in Nat
           /\ \A p \in 1 .. a * b :
                 /\ (p - 1) \div b \in 0 .. a - 1 /\ (p - 1) % b \in 0 .. b - 1
                 /\ p - 1 = b * ((p - 1) \div b) + ((p - 1) % b)
           /\ \A i \in 0 .. a - 1, j \in 0 .. b - 1 :
                 /\ b * i + j \in 0 .. a * b - 1
                 /\ (b * i + j) \div b = i /\ (b * i + j) % b = j
  <1>0. a * b \in Nat
    OBVIOUS
  <1>1. ASSUME NEW p \in 1 .. a * b
        PROVE  /\ (p - 1) \div b \in 0 .. a - 1 /\ (p - 1) % b \in 0 .. b - 1
               /\ p - 1 = b * ((p - 1) \div b) + ((p - 1) % b)
    <2> DEFINE w == p - 1
               n == a * b
    <2>1. w \in Nat /\ w < a * b
      <3>1. p \in 1 .. n /\ n \in Nat
        BY <1>0
      <3> HIDE DEF n
      <3>2. w \in Nat /\ w < n
        BY <3>1
      <3> QED
        BY <3>2 DEF n
    <2> HIDE DEF w
    <2>2. w \div b \in 0 .. a - 1 /\ w % b \in 0 .. b - 1
      BY <2>1, InBlock
    <2>3. w = b * (w \div b) + (w % b)
      BY <2>1, Quotient
    <2> QED
      BY <2>2, <2>3 DEF w
  <1>2. ASSUME NEW i \in 0 .. a - 1, NEW j \in 0 .. b - 1
        PROVE  /\ b * i + j \in 0 .. a * b - 1
               /\ (b * i + j) \div b = i /\ (b * i + j) % b = j
    <2>1. (i * b + j) \div b = i /\ (i * b + j) % b = j
      BY QuotientIs
    <2>2. i * b + b <= a * b
      BY Grows
    <2>3. i * b = b * i /\ i * b \in Nat
      OBVIOUS
    <2> DEFINE v == i * b
               n == a * b
    <2>4. v \in Nat /\ n \in Nat /\ v + b <= n
      BY <1>0, <2>2, <2>3
    <2> HIDE DEF v, n
    <2>5. v + j \in 0 .. n - 1
      BY <2>4
    <2> QED
      BY <2>1, <2>3, <2>5 DEF v, n
  <1> QED
    BY <1>0, <1>1, <1>2

LEMMA TableOrder ==
    ASSUME NEW b \in Nat \ {0}, NEW i \in Int, NEW i2 \in Int,
           NEW j \in 0 .. b - 1, NEW j2 \in 0 .. b - 1
    PROVE  b * i + j < b * i2 + j2 <=> (i < i2 \/ (i = i2 /\ j < j2))
  <1> DEFINE v == b * i
             v2 == b * i2
  <1>1. v \in Int /\ v2 \in Int /\ v = i * b /\ v2 = i2 * b
    OBVIOUS
  <1>2. i < i2 => v + b <= v2
    BY <1>1, Grows
  <1>3. i2 < i => v2 + b <= v
    BY <1>1, Grows
  <1>4. i = i2 => v = v2
    OBVIOUS
  <1>5. v + j < v2 + j2 <=> (i < i2 \/ (i = i2 /\ j < j2))
    <2> HIDE DEF v, v2
    <2> QED
      BY <1>1, <1>2, <1>3, <1>4
  <1> QED
    BY <1>5

\* A convolution whose kernel fits the input and is no narrower than a stride.
Regular(g) ==
    g.conn_type = "conv2" =>
        g.to_width > 0 /\ g.to_height > 0 /\ g.params.stride_width <= g.params.kernel_width

\* The p-th kernel position that the iterator looks at, on each axis, and the cell of the
\* output that the kernel is applied for.
LookedAt(g, d) == AxisX(g, d).synapses * Columns(g, d)
XAt(g, d, p) == Covering(AxisX(g, d), g.params.stride_height, (p - 1) \div Columns(g, d))
YAt(g, d, p) == Covering(AxisY(g, d), g.params.stride_width, (p - 1) % Columns(g, d))
Cell(g, d, p) == g.to_width * XAt(g, d, p).output + YAt(g, d, p).output
Inside(g, d) ==
    {p \in 1 .. LookedAt(g, d) : /\ XAt(g, d, p).output \in 0 .. g.to_height - 1
                                 /\ YAt(g, d, p).output \in 0 .. g.to_width - 1}

\* The kernel positions over the input cell, on each axis.
HitsX(g, d, o) == Hits((d - g.from_start) \div g.params.input_width, g.params.kernel_height,
                       g.params.stride_height, g.params.padding_height, o)
HitsY(g, d, o) == Hits((d - g.from_start) % g.params.input_width, g.params.kernel_width,
                       g.params.stride_width, g.params.padding_width, o)

\* What the iterator comes to on each axis.
AlongX(g, d) ==
    LET at(k) == Covering(AxisX(g, d), g.params.stride_height, k)
    IN  /\ \A k \in 0 .. AxisX(g, d).synapses - 1 :
              /\ at(k).output = AxisX(g, d).last - AxisX(g, d).synapses + 1 + k
              /\ at(k).kernel \in 0 .. g.params.kernel_height - 1
              /\ HitsX(g, d, at(k).output) = {at(k).kernel}
        /\ \A o \in Int : HitsX(g, d, o) # {} =>
              \E k \in 0 .. AxisX(g, d).synapses - 1 : at(k).output = o
AlongY(g, d) ==
    LET at(k) == Covering(AxisY(g, d), g.params.stride_width, k)
    IN  /\ \A k \in 0 .. AxisY(g, d).synapses - 1 :
              /\ at(k).output = AxisY(g, d).last - AxisY(g, d).synapses + 1 + k
              /\ at(k).kernel \in 0 .. g.params.kernel_width - 1
              /\ HitsY(g, d, at(k).output) = {at(k).kernel}
        /\ \A o \in Int : HitsY(g, d, o) # {} =>
              \E k \in 0 .. AxisY(g, d).synapses - 1 : at(k).output = o

LEMMA PositionsAre ==
    ASSUME NEW g, IsConnection(g), g.conn_type = "conv2",
           g.params.stride_width <= g.params.kernel_width, NEW d \in Int, g.from_start <= d
    PROVE  /\ LookedAt(g, d) \in Nat /\ Columns(g, d) \in Nat \ {0}
           /\ AxisX(g, d).synapses \in Nat /\ Columns(g, d) = AxisY(g, d).synapses
           /\ AxisX(g, d).last \in Int /\ AxisY(g, d).last \in Int
           /\ g.params.kernel_width \in Nat \ {0} /\ g.params.kernel_height \in Nat \ {0}
           /\ AlongX(g, d) /\ AlongY(g, d)
  <1> DEFINE c == g.params
             x == (d - g.from_start) \div c.input_width
             y == (d - g.from_start) % c.input_width
             ax == AxisX(g, d)
             ay == AxisY(g, d)
  <1>1. /\ x \in Nat /\ y \in Nat
        /\ c.kernel_height \in Nat \ {0} /\ c.stride_height \in Nat \ {0}
        /\ c.padding_height \in Nat
        /\ c.kernel_width \in Nat \ {0} /\ c.stride_width \in Nat \ {0}
        /\ c.padding_width \in Nat
    BY AxesOf
  <1>2. /\ OnAxis(ax, x, c.kernel_height, c.stride_height, c.padding_height)
        /\ OnAxis(ay, y, c.kernel_width, c.stride_width, c.padding_width)
    BY AxesAre
  <1>3. c.stride_width <= c.kernel_width
    OBVIOUS
  <1>4. /\ \A o : HitsX(g, d, o) = Hits(x, c.kernel_height, c.stride_height, c.padding_height, o)
        /\ \A o : HitsY(g, d, o) = Hits(y, c.kernel_width, c.stride_width, c.padding_width, o)
    BY DEF HitsX, HitsY
  <1>5. LookedAt(g, d) = ax.synapses * Columns(g, d)
        /\ Columns(g, d) = IF ay.synapses > 0 THEN ay.synapses ELSE 1
    BY DEF LookedAt, Columns
  <1> HIDE DEF c, x, y, ax, ay
  <1>6. ax.synapses \in Nat /\ ax.last \in Int /\ ay.last \in Int
    BY <1>2 DEF OnAxis
  <1>7. ay.synapses \in Nat \ {0}
    <2> DEFINE s == ay.synapses
               m == ay.mod_stride
    <2>1. /\ s \in Nat /\ m \in 0 .. c.stride_width - 1
          /\ c.kernel_width - m <= s * c.stride_width
      BY <1>2 DEF OnAxis
    <2> HIDE DEF s, m
    <2>2. s = 0 => s * c.stride_width = 0
      BY <1>1
    <2>3. s # 0
      BY <1>1, <1>3, <2>1, <2>2
    <2> QED
      BY <2>1, <2>3 DEF s
  <1>8. Columns(g, d) = ay.synapses
    BY <1>5, <1>7
  <1>9. LookedAt(g, d) \in Nat
    BY <1>5, <1>6, <1>7, <1>8
  <1>10. /\ \A k \in 0 .. ax.synapses - 1 :
              LET at == Covering(ax, c.stride_height, k)
              IN  /\ at.output = ax.last - ax.synapses + 1 + k
                  /\ at.kernel \in 0 .. c.kernel_height - 1 /\ HitsX(g, d, at.output) = {at.kernel}
         /\ \A o \in Int : HitsX(g, d, o) # {} =>
              \E k \in 0 .. ax.synapses - 1 : Covering(ax, c.stride_height, k).output = o
    <2>1. ComesTo(ax, x, c.kernel_height, c.stride_height, c.padding_height)
      BY <1>1, <1>2, HitsAre
    <2> QED
      BY <1>4, <2>1 DEF ComesTo
  <1>11. /\ \A k \in 0 .. ay.synapses - 1 :
              LET at == Covering(ay, c.stride_width, k)
              IN  /\ at.output = ay.last - ay.synapses + 1 + k
                  /\ at.kernel \in 0 .. c.kernel_width - 1 /\ HitsY(g, d, at.output) = {at.kernel}
         /\ \A o \in Int : HitsY(g, d, o) # {} =>
              \E k \in 0 .. ay.synapses - 1 : Covering(ay, c.stride_width, k).output = o
    <2>1. ComesTo(ay, y, c.kernel_width, c.stride_width, c.padding_width)
      BY <1>1, <1>2, HitsAre
    <2> QED
      BY <1>4, <2>1 DEF ComesTo
  <1>12. c.kernel_width \in Nat \ {0} /\ c.kernel_height \in Nat \ {0}
    BY <1>1
  <1> QED
    <2>1. AlongX(g, d) /\ AlongY(g, d)
      BY <1>10, <1>11 DEF ax, ay, c, AlongX, AlongY
    <2> QED
      BY <1>6, <1>7, <1>8, <1>9, <1>12, <2>1 DEF ax, ay, c

\* The place in the kernel of all that lies over the input cell for the t-th output cell.
KernelAt(g, d, t) ==
    {p[1] * g.params.kernel_width + p[2] :
        p \in HitsX(g, d, t \div g.to_width) \X HitsY(g, d, t % g.to_width)}

LEMMA KernelOverIs ==
    ASSUME NEW g, NEW d, NEW t \in Int, g.to_start \in Int
    PROVE  KernelOver(g, d, g.to_start + t) = KernelAt(g, d, t)
  <1> DEFINE c == g.params
             in == d - g.from_start
             i == t \div g.to_width
             j == t % g.to_width
             over(out) == {p \in (0 .. c.kernel_height - 1) \X (0 .. c.kernel_width - 1) :
                             /\ (out \div g.to_width) * c.stride_height + p[1] - c.padding_height
                                  = in \div c.input_width
                             /\ (out % g.to_width) * c.stride_width + p[2] - c.padding_width
                                  = in % c.input_width}
             hits == HitsX(g, d, i) \X HitsY(g, d, j)
  <1>1. KernelOver(g, d, g.to_start + t)
           = {p[1] * c.kernel_width + p[2] : p \in over((g.to_start + t) - g.to_start)}
    BY DEF KernelOver
  <1>2. (g.to_start + t) - g.to_start = t
    OBVIOUS
  <1>3. over(t) = hits
    <2>1. over(t) = {p \in (0 .. c.kernel_height - 1) \X (0 .. c.kernel_width - 1) :
                       /\ i * c.stride_height + p[1] - c.padding_height = in \div c.input_width
                       /\ j * c.stride_width + p[2] - c.padding_width = in % c.input_width}
      OBVIOUS
    <2>2. HitsX(g, d, i) = {p \in 0 .. c.kernel_height - 1 :
                              i * c.stride_height + p - c.padding_height = in \div c.input_width}
      BY DEF HitsX, Hits
    <2>3. HitsY(g, d, j) = {p \in 0 .. c.kernel_width - 1 :
                              j * c.stride_width + p - c.padding_width = in % c.input_width}
      BY DEF HitsY, Hits
    <2> DEFINE A == 0 .. c.kernel_height - 1
               B == 0 .. c.kernel_width - 1
               InX(p) == i * c.stride_height + p - c.padding_height = in \div c.input_width
               InY(p) == j * c.stride_width + p - c.padding_width = in % c.input_width
    <2>4. over(t) = {p \in A \X B : InX(p[1]) /\ InY(p[2])}
      BY <2>1
    <2>5. HitsX(g, d, i) = {p \in A : InX(p)} /\ HitsY(g, d, j) = {p \in B : InY(p)}
      BY <2>2, <2>3
    <2> HIDE DEF A, B, InX, InY, over
    <2>6. {p \in A \X B : InX(p[1]) /\ InY(p[2])} = {p \in A : InX(p)} \X {p \in B : InY(p)}
      OBVIOUS
    <2> QED
      BY <2>4, <2>5, <2>6
  <1> HIDE DEF over
  <1>4. KernelOver(g, d, g.to_start + t) = {p[1] * c.kernel_width + p[2] : p \in hits}
    BY <1>1, <1>2, <1>3
  <1> QED
    BY <1>4 DEF KernelAt

\* The iterator goes through the cells of the output in order, comes to all those where the
\* kernel lies over the input cell, and knows where in the kernel that is.
LEMMA CellsAre ==
    ASSUME NEW g, IsConnection(g), g.conn_type = "conv2", Regular(g),
           NEW d \in Int, g.from_start <= d
    PROVE  LET At(p) == XAt(g, d, p).kernel * g.params.kernel_width + YAt(g, d, p).kernel
           IN  /\ \A p \in Inside(g, d) :
                     /\ XAt(g, d, p).output \in Int /\ YAt(g, d, p).output \in Int
                     /\ Cell(g, d, p) \in 0 .. g.to_height * g.to_width - 1
                     /\ At(p) \in Int /\ KernelOver(g, d, g.to_start + Cell(g, d, p)) = {At(p)}
               /\ \A p, p2 \in Inside(g, d) : p < p2 => Cell(g, d, p) < Cell(g, d, p2)
               /\ \A t \in 0 .. g.to_height * g.to_width - 1 :
                     KernelOver(g, d, g.to_start + t) # {} =>
                        \E p \in Inside(g, d) : Cell(g, d, p) = t
  <1> DEFINE At(p) == XAt(g, d, p).kernel * g.params.kernel_width + YAt(g, d, p).kernel
             ax == AxisX(g, d)
             ay == AxisY(g, d)
             sx == ax.synapses
             sy == Columns(g, d)
             fx == ax.last - ax.synapses + 1
             fy == ay.last - ay.synapses + 1
             X(k) == Covering(ax, g.params.stride_height, k)
             Y(k) == Covering(ay, g.params.stride_width, k)
             i(p) == (p - 1) \div sy
             j(p) == (p - 1) % sy
             W == g.to_width
             H == g.to_height
  <1>1. W \in Nat \ {0} /\ H \in Nat \ {0} /\ g.to_start \in Int
    BY DEF IsConnection, Regular
  <1>2. /\ sx \in Nat /\ sy \in Nat \ {0} /\ fx \in Int /\ fy \in Int
        /\ g.params.kernel_width \in Nat
        /\ LookedAt(g, d) = sx * sy
    <2>1. /\ AxisX(g, d).synapses \in Nat /\ Columns(g, d) \in Nat \ {0}
          /\ AxisX(g, d).last \in Int /\ AxisY(g, d).last \in Int
          /\ Columns(g, d) = AxisY(g, d).synapses /\ g.params.kernel_width \in Nat
      <3>1. g.params.stride_width <= g.params.kernel_width
        BY DEF Regular
      <3> QED
        BY <3>1, PositionsAre
    <2> HIDE DEF ax, ay
    <2>2. ax.synapses \in Nat /\ ay.synapses \in Nat /\ ax.last \in Int /\ ay.last \in Int
      BY <2>1 DEF ax, ay
    <2>3. fx \in Int /\ fy \in Int
      BY <2>2
    <2> QED
      BY <2>1, <2>3 DEF ax, LookedAt
  <1>3. /\ \A k \in 0 .. sx - 1 : /\ X(k).output = fx + k /\ X(k).kernel \in Int
                                  /\ HitsX(g, d, X(k).output) = {X(k).kernel}
        /\ \A o \in Int : HitsX(g, d, o) # {} => \E k \in 0 .. sx - 1 : X(k).output = o
    <2>1. AlongX(g, d) /\ \A p \in 0 .. g.params.kernel_height - 1 : p \in Int
      BY PositionsAre DEF Regular
    <2> QED
      BY <2>1 DEF AlongX
  <1>4. /\ \A k \in 0 .. sy - 1 : /\ Y(k).output = fy + k /\ Y(k).kernel \in Int
                                  /\ HitsY(g, d, Y(k).output) = {Y(k).kernel}
        /\ \A o \in Int : HitsY(g, d, o) # {} => \E k \in 0 .. sy - 1 : Y(k).output = o
    <2>1. sy = ay.synapses
      BY PositionsAre DEF Regular
    <2>2. /\ \A k \in 0 .. ay.synapses - 1 :
                /\ Y(k).output = fy + k /\ Y(k).kernel \in Int
                /\ HitsY(g, d, Y(k).output) = {Y(k).kernel}
          /\ \A o \in Int : HitsY(g, d, o) # {} => \E k \in 0 .. ay.synapses - 1 : Y(k).output = o
      <3>1. AlongY(g, d) /\ \A p \in 0 .. g.params.kernel_width - 1 : p \in Int
        BY PositionsAre DEF Regular
      <3> QED
        BY <3>1 DEF AlongY
    <2> HIDE DEF ay, fy, Y, sy
    <2> QED
      BY <2>1, <2>2
  <1>5. \A p : XAt(g, d, p) = X(i(p)) /\ YAt(g, d, p) = Y(j(p))
    BY DEF XAt, YAt
  <1>6. \A p : Cell(g, d, p) = W * X(i(p)).output + Y(j(p)).output
    BY <1>5 DEF Cell
  <1>7. Inside(g, d) = {p \in 1 .. sx * sy : X(i(p)).output \in 0 .. H - 1 /\ Y(j(p)).output \in 0 .. W - 1}
    BY <1>2, <1>5 DEF Inside
  <1> HIDE DEF ax, ay, sx, sy, fx, fy, X, Y, W, H
  <1>8. /\ sx * sy \in Nat
        /\ \A p \in 1 .. sx * sy : /\ i(p) \in 0 .. sx - 1 /\ j(p) \in 0 .. sy - 1
                                   /\ p - 1 = sy * i(p) + j(p)
        /\ \A a \in 0 .. sx - 1, b \in 0 .. sy - 1 :
              /\ sy * a + b \in 0 .. sx * sy - 1
              /\ (sy * a + b) \div sy = a /\ (sy * a + b) % sy = b
    BY <1>2, InTable
  <1>9. \A a \in 0 .. H - 1, b \in 0 .. W - 1 :
           /\ W * a + b \in 0 .. H * W - 1
           /\ (W * a + b) \div W = a /\ (W * a + b) % W = b
    BY <1>1, InTable
  <1> HIDE DEF i, j
  <1>10. ASSUME NEW p \in Inside(g, d)
         PROVE  /\ XAt(g, d, p).output \in Int /\ YAt(g, d, p).output \in Int
                /\ Cell(g, d, p) \in 0 .. H * W - 1
                /\ At(p) \in Int /\ KernelOver(g, d, g.to_start + Cell(g, d, p)) = {At(p)}
    <2> DEFINE x == X(i(p))
               y == Y(j(p))
               t == Cell(g, d, p)
    <2>1. /\ p \in 1 .. sx * sy /\ x.output \in 0 .. H - 1 /\ y.output \in 0 .. W - 1
      BY <1>7
    <2>2. i(p) \in 0 .. sx - 1 /\ j(p) \in 0 .. sy - 1
      BY <1>8, <2>1
    <2>3. x.kernel \in Int /\ y.kernel \in Int
          /\ HitsX(g, d, x.output) = {x.kernel} /\ HitsY(g, d, y.output) = {y.kernel}
      BY <1>3, <1>4, <2>2
    <2>4. t = W * x.output + y.output /\ At(p) = x.kernel * g.params.kernel_width + y.kernel
      BY <1>5, <1>6
    <2> HIDE DEF x, y, t, At
    <2>5. t \in 0 .. H * W - 1 /\ t \div W = x.output /\ t % W = y.output
      BY <1>9, <2>1, <2>4
    <2>6. At(p) \in Int
      BY <1>2, <2>3, <2>4
    <2>7. KernelOver(g, d, g.to_start + t)
             = {q[1] * g.params.kernel_width + q[2] : q \in HitsX(g, d, t \div W) \X HitsY(g, d, t % W)}
      <3>1. t \in Int
        <4> DEFINE n == H * W
        <4>1. n \in Int
          BY <1>1
        <4> HIDE DEF n
        <4>2. t \in 0 .. n - 1
          BY <2>5 DEF n
        <4> QED
          BY <4>1, <4>2
      <3>2. KernelOver(g, d, g.to_start + t) = KernelAt(g, d, t)
        BY <1>1, <3>1, KernelOverIs
      <3> QED
        BY <3>2 DEF W, KernelAt
    <2>8. HitsX(g, d, t \div W) \X HitsY(g, d, t % W) = {<<x.kernel, y.kernel>>}
      BY <2>3, <2>5
    <2>9. KernelOver(g, d, g.to_start + t) = {At(p)}
      <3> DEFINE kw == g.params.kernel_width
                 hits == {<<x.kernel, y.kernel>>}
      <3>1. \A q \in hits : q[1] * kw + q[2] = At(p)
        BY <2>4
      <3>2. {q[1] * kw + q[2] : q \in hits} = {At(p)}
        <4>1. <<x.kernel, y.kernel>> \in hits
          OBVIOUS
        <4> HIDE DEF hits, kw
        <4> QED
          BY <3>1, <4>1
      <3> QED
        BY <2>7, <2>8, <3>2
    <2>10. XAt(g, d, p).output \in Int /\ YAt(g, d, p).output \in Int
      BY <1>1, <1>5, <2>1 DEF x, y
    <2> QED
      BY <2>5, <2>6, <2>9, <2>10 DEF t
  <1>11. ASSUME NEW p \in Inside(g, d), NEW p2 \in Inside(g, d), p < p2
         PROVE  Cell(g, d, p) < Cell(g, d, p2)
    <2>1. /\ p \in 1 .. sx * sy /\ X(i(p)).output \in 0 .. H - 1 /\ Y(j(p)).output \in 0 .. W - 1
          /\ p2 \in 1 .. sx * sy /\ X(i(p2)).output \in 0 .. H - 1 /\ Y(j(p2)).output \in 0 .. W - 1
      BY <1>7
    <2>2. /\ i(p) \in 0 .. sx - 1 /\ j(p) \in 0 .. sy - 1 /\ p - 1 = sy * i(p) + j(p)
          /\ i(p2) \in 0 .. sx - 1 /\ j(p2) \in 0 .. sy - 1 /\ p2 - 1 = sy * i(p2) + j(p2)
      BY <1>8, <2>1
    <2>3. /\ X(i(p)).output = fx + i(p) /\ Y(j(p)).output = fy + j(p)
          /\ X(i(p2)).output = fx + i(p2) /\ Y(j(p2)).output = fy + j(p2)
      BY <1>3, <1>4, <2>2
    <2> DEFINE a == i(p)
               b == j(p)
               a2 == i(p2)
               b2 == j(p2)
    <2>4. a \in Int /\ b \in Int /\ a2 \in Int /\ b2 \in Int
      BY <1>2, <2>2
    <2>5. a < a2 \/ (a = a2 /\ b < b2)
      <3>1. p - 1 < p2 - 1
        <4> DEFINE n == sx * sy
        <4>1. n \in Nat /\ p \in 1 .. n /\ p2 \in 1 .. n
          BY <1>8, <2>1
        <4> HIDE DEF n
        <4> QED
          BY <1>11, <4>1
      <3>2. sy * a + b < sy * a2 + b2
        BY <2>2, <3>1
      <3> HIDE DEF a, b, a2, b2
      <3>3. b \in 0 .. sy - 1 /\ b2 \in 0 .. sy - 1
        BY <2>2 DEF b, b2
      <3> QED
        BY <1>2, <2>4, <3>2, <3>3, TableOrder
    <2>6. /\ fy + b \in 0 .. W - 1 /\ fy + b2 \in 0 .. W - 1
          /\ Cell(g, d, p) = W * (fx + a) + (fy + b) /\ Cell(g, d, p2) = W * (fx + a2) + (fy + b2)
      BY <1>6, <2>1, <2>3
    <2> HIDE DEF a, b, a2, b2
    <2> DEFINE u == fx + a
               u2 == fx + a2
               v == fy + b
               v2 == fy + b2
    <2>7. u \in Int /\ u2 \in Int /\ (u < u2 \/ (u = u2 /\ v < v2))
      BY <1>2, <2>4, <2>5
    <2>8. v \in 0 .. W - 1 /\ v2 \in 0 .. W - 1
      BY <2>6
    <2> HIDE DEF u, u2, v, v2
    <2>9. W * u + v < W * u2 + v2
      BY <1>1, <2>7, <2>8, TableOrder
    <2> QED
      BY <2>6, <2>9 DEF u, u2, v, v2
  <1>12. ASSUME NEW t \in 0 .. H * W - 1, KernelOver(g, d, g.to_start + t) # {}
         PROVE  \E p \in Inside(g, d) : Cell(g, d, p) = t
    <2>1. t \in Nat /\ t + 1 \in 1 .. H * W
      <3> DEFINE n == H * W
      <3>1. n \in Int /\ t \in 0 .. n - 1
        BY <1>1
      <3> HIDE DEF n
      <3>2. t \in Nat /\ t + 1 \in 1 .. n
        BY <3>1
      <3> QED
        BY <3>2 DEF n
    <2>2. t \div W \in 0 .. H - 1 /\ t % W \in 0 .. W - 1 /\ t = W * (t \div W) + (t % W)
      <3>1. \A p \in 1 .. H * W : /\ (p - 1) \div W \in 0 .. H - 1 /\ (p - 1) % W \in 0 .. W - 1
                                  /\ p - 1 = W * ((p - 1) \div W) + ((p - 1) % W)
        BY <1>1, InTable
      <3>2. (t + 1) - 1 = t
        BY <2>1
      <3> QED
        BY <2>1, <3>1, <3>2
    <2>3. HitsX(g, d, t \div W) # {} /\ HitsY(g, d, t % W) # {}
      <3>1. KernelOver(g, d, g.to_start + t)
               = {q[1] * g.params.kernel_width + q[2] : q \in HitsX(g, d, t \div W) \X HitsY(g, d, t % W)}
        <4>1. KernelOver(g, d, g.to_start + t) = KernelAt(g, d, t)
          BY <1>1, <2>1, KernelOverIs
        <4> QED
          BY <4>1 DEF W, KernelAt
      <3> QED
        BY <1>12, <3>1
    <2>4. PICK a \in 0 .. sx - 1 : X(a).output = t \div W
      BY <1>1, <1>3, <2>2, <2>3
    <2>5. PICK b \in 0 .. sy - 1 : Y(b).output = t % W
      BY <1>1, <1>4, <2>2, <2>3
    <2> DEFINE p == sy * a + b + 1
    <2>6. sy * a + b \in 0 .. sx * sy - 1 /\ (sy * a + b) \div sy = a /\ (sy * a + b) % sy = b
      BY <1>8
    <2>7. p \in 1 .. sx * sy /\ p - 1 = sy * a + b
      <3> DEFINE n == sx * sy
                 m == sy * a + b
      <3>1. n \in Nat /\ m \in 0 .. n - 1
        BY <1>8, <2>6
      <3> HIDE DEF n, m
      <3>2. m + 1 \in 1 .. n /\ (m + 1) - 1 = m
        BY <3>1
      <3> QED
        BY <3>2 DEF n, m
    <2>8. i(p) = a /\ j(p) = b
      BY <2>6, <2>7 DEF i, j
    <2> HIDE DEF p
    <2>9. p \in Inside(g, d)
      BY <1>7, <2>2, <2>4, <2>5, <2>7, <2>8
    <2>10. Cell(g, d, p) = t
      BY <1>6, <2>2, <2>4, <2>5, <2>8
    <2> QED
      BY <2>9, <2>10
  <1>13. /\ \A p \in Inside(g, d) :
               /\ XAt(g, d, p).output \in Int /\ YAt(g, d, p).output \in Int
               /\ Cell(g, d, p) \in 0 .. H * W - 1
               /\ At(p) \in Int /\ KernelOver(g, d, g.to_start + Cell(g, d, p)) = {At(p)}
         /\ \A p, p2 \in Inside(g, d) : p < p2 => Cell(g, d, p) < Cell(g, d, p2)
         /\ \A t \in 0 .. H * W - 1 :
               KernelOver(g, d, g.to_start + t) # {} => \E p \in Inside(g, d) : Cell(g, d, p) = t
    <2> HIDE DEF At
    <2> QED
      BY <1>10, <1>11, <1>12
  <1> QED
    BY <1>13 DEF W, H

\* What is given is what is wanted, one connection after the other, to neurons of T.
Wants == [to : Int, kernel : SUBSET Int]
AsAsked(ids, want, T) ==
    /\ ids \in Seq(Connections) /\ want \in Seq(Wants) /\ Len(ids) = Len(want)
    /\ \A k \in 1 .. Len(want) :
          /\ ids[k].to = want[k].to /\ want[k].to \in T
          /\ want[k].kernel # {} => want[k].kernel = {ids[k].conn_parameter}

LEMMA ConvolutionGives ==
    ASSUME NEW g, NEW d
    PROVE  LET kept == Ascending(Inside(g, d), LookedAt(g, d))
           IN  conv2d_ids(g, d) =
                 [i \in DOMAIN kept |->
                    [to |-> g.to_start + g.to_width * XAt(g, d, kept[i]).output
                              + YAt(g, d, kept[i]).output,
                     conn_parameter |-> XAt(g, d, kept[i]).kernel * g.params.kernel_width
                                          + YAt(g, d, kept[i]).kernel]]
  BY DEF conv2d_ids, AxisX, AxisY, Columns, XAt, YAt, Inside, LookedAt

LEMMA ConvolutionWants ==
    ASSUME NEW g, g.conn_type = "conv2", NEW d
    PROVE  LET width  == g.to_end - g.to_start + 1
               over   == [k \in 1 .. width |-> KernelOver(g, d, g.to_start + k - 1)]
               called == {k \in 1 .. width : over[k] # {}}
               kept   == Ascending(called, width)
           IN  Wanted(g, d) = [i \in DOMAIN kept |->
                                 [to |-> g.to_start + kept[i] - 1, kernel |-> over[kept[i]]]]
  <1> DEFINE width  == g.to_end - g.to_start + 1
             over   == [k \in 1 .. width |-> KernelOver(g, d, g.to_start + k - 1)]
             called == {k \in 1 .. width : over[k] # {}}
             kept   == Ascending(called, width)
             over2  == [k \in 1 .. width |-> IF g.conn_type = "conv2"
                                             THEN KernelOver(g, d, g.to_start + k - 1) ELSE {}]
             called2 == {k \in 1 .. width : g.conn_type = "conv2" => over2[k] # {}}
             kept2   == Ascending(called2, width)
  <1>1. over2 = over
    OBVIOUS
  <1>2. called2 = called
    BY <1>1
  <1>3. Wanted(g, d) = [i \in DOMAIN kept2 |->
                          [to |-> g.to_start + kept2[i] - 1, kernel |-> over2[kept2[i]]]]
    BY DEF Wanted
  <1> HIDE DEF over, over2, called, called2
  <1>4. Wanted(g, d) = [i \in DOMAIN kept |->
                          [to |-> g.to_start + kept[i] - 1, kernel |-> over[kept[i]]]]
    BY <1>1, <1>2, <1>3
  <1> QED
    BY <1>4 DEF over, called

LEMMA ConvolutionAsAsked ==
    ASSUME NEW g, IsConnection(g), g.conn_type = "conv2", Regular(g),
           NEW d \in Int, g.from_start <= d
    PROVE  AsAsked(conv2d_ids(g, d), Wanted(g, d), g.to_start .. g.to_end)
  <1> DEFINE ids     == conv2d_ids(g, d)
             want    == Wanted(g, d)
             At(p)   == XAt(g, d, p).kernel * g.params.kernel_width + YAt(g, d, p).kernel
             n       == LookedAt(g, d)
             inside  == Inside(g, d)
             kept    == Ascending(inside, n)
             width   == g.to_end - g.to_start + 1
             over    == [k \in 1 .. width |-> KernelOver(g, d, g.to_start + k - 1)]
             called  == {k \in 1 .. width : over[k] # {}}
             wkept   == Ascending(called, width)
             s       == [i \in 1 .. Len(kept) |-> Cell(g, d, kept[i]) + 1]
  <1>1. /\ g.to_start \in Int /\ g.to_end \in Int /\ g.to_start <= g.to_end
        /\ g.to_width \in Int /\ g.to_height \in Int
        /\ width = g.to_height * g.to_width /\ width \in Nat
    BY DEF IsConnection, ShapesMatch
  <1>2. n \in Nat /\ inside \in SUBSET (1 .. n)
    BY PositionsAre DEF Inside, Regular
  <1>3. /\ \A p \in inside :
              /\ XAt(g, d, p).output \in Int /\ YAt(g, d, p).output \in Int
              /\ Cell(g, d, p) \in 0 .. width - 1
              /\ At(p) \in Int /\ KernelOver(g, d, g.to_start + Cell(g, d, p)) = {At(p)}
        /\ \A p, p2 \in inside : p < p2 => Cell(g, d, p) < Cell(g, d, p2)
        /\ \A t \in 0 .. width - 1 :
              KernelOver(g, d, g.to_start + t) # {} => \E p \in inside : Cell(g, d, p) = t
    <2>1. width = g.to_height * g.to_width
      BY <1>1
    <2> HIDE DEF width
    <2> QED
      BY <2>1, CellsAre
  <1>4. ids = [i \in DOMAIN kept |->
                 [to |-> g.to_start + g.to_width * XAt(g, d, kept[i]).output + YAt(g, d, kept[i]).output,
                  conn_parameter |-> At(kept[i])]]
    BY ConvolutionGives
  <1>5. want = [i \in DOMAIN wkept |-> [to |-> g.to_start + wkept[i] - 1, kernel |-> over[wkept[i]]]]
    BY ConvolutionWants
  <1>6. \A k \in 1 .. width : over[k] = KernelOver(g, d, g.to_start + (k - 1))
    <2>1. \A k \in 1 .. width : g.to_start + k - 1 = g.to_start + (k - 1)
      BY <1>1
    <2> QED
      BY <2>1
  <1>7. called \in SUBSET (1 .. width) /\ \A k \in 1 .. width : k \in called <=> over[k] # {}
    OBVIOUS
  <1> HIDE DEF ids, want, At, n, inside, over, called
  <1>8. Lists(kept, inside, n, n) /\ InOrder(kept, inside)
    BY <1>2, AscendingLists, ListsInOrder
  <1>9. InOrder(wkept, called)
    <2> HIDE DEF width
    <2> QED
      BY <1>1, <1>7, AscendingLists, ListsInOrder
  <1>10. width \in Nat
    BY <1>1
  <1> HIDE DEF kept, wkept, width
  <1>11. /\ Len(kept) \in Nat /\ DOMAIN kept = 1 .. Len(kept)
         /\ \A i \in 1 .. Len(kept) : kept[i] \in inside /\ kept[i] \in Int
    BY <1>8 DEF InOrder
  <1>12. /\ Len(wkept) \in Nat /\ DOMAIN wkept = 1 .. Len(wkept)
         /\ \A i \in 1 .. Len(wkept) : wkept[i] \in called
    BY <1>9 DEF InOrder
  <1>13. \A p \in inside :
            /\ Cell(g, d, p) \in Int /\ Cell(g, d, p) + 1 \in 1 .. width
            /\ over[Cell(g, d, p) + 1] = {At(p)}
    <2> SUFFICES ASSUME NEW p \in inside
                 PROVE  /\ Cell(g, d, p) \in Int /\ Cell(g, d, p) + 1 \in 1 .. width
                        /\ over[Cell(g, d, p) + 1] = {At(p)}
      OBVIOUS
    <2> DEFINE t == Cell(g, d, p)
    <2>1. t \in 0 .. width - 1 /\ KernelOver(g, d, g.to_start + t) = {At(p)}
      BY <1>3
    <2> HIDE DEF t
    <2>2. t \in Int /\ t + 1 \in 1 .. width /\ (t + 1) - 1 = t
      BY <1>10, <2>1
    <2>3. over[t + 1] = {At(p)}
      BY <1>6, <2>1, <2>2
    <2> QED
      BY <2>2, <2>3 DEF t
  <1>14. InOrder(s, called)
    <2>1. s \in Seq(Int) /\ Len(s) = Len(kept)
          /\ \A i \in 1 .. Len(kept) : s[i] = Cell(g, d, kept[i]) + 1 /\ s[i] \in Int
      <3>1. \A i \in 1 .. Len(kept) : Cell(g, d, kept[i]) + 1 \in Int
        BY <1>11, <1>13
      <3> QED
        BY <1>11, <3>1
    <2> HIDE DEF s
    <2>2. \A i \in 1 .. Len(s) : s[i] \in called
      BY <1>7, <1>11, <1>13, <2>1
    <2>3. ASSUME NEW i \in 1 .. Len(s), NEW j \in 1 .. Len(s), i < j PROVE s[i] < s[j]
      <3>1. kept[i] < kept[j] /\ kept[i] \in inside /\ kept[j] \in inside
        BY <1>8, <1>11, <2>1, <2>3 DEF InOrder
      <3>2. Cell(g, d, kept[i]) < Cell(g, d, kept[j])
            /\ Cell(g, d, kept[i]) \in Int /\ Cell(g, d, kept[j]) \in Int
        BY <1>3, <1>13, <3>1
      <3> QED
        BY <2>1, <3>2
    <2>4. ASSUME NEW k \in called PROVE \E i \in 1 .. Len(s) : s[i] = k
      <3>1. k \in 1 .. width /\ over[k] # {}
        BY <1>7
      <3>2. k - 1 \in 0 .. width - 1 /\ (k - 1) + 1 = k
        BY <1>10, <3>1
      <3>3. KernelOver(g, d, g.to_start + (k - 1)) # {}
        BY <1>6, <3>1
      <3>4. PICK p \in inside : Cell(g, d, p) = k - 1
        BY <1>3, <3>2, <3>3
      <3>5. PICK i \in 1 .. Len(kept) : kept[i] = p
        BY <1>8 DEF InOrder
      <3>6. s[i] = k
        BY <2>1, <3>2, <3>4, <3>5
      <3> QED
        BY <2>1, <3>6
    <2> QED
      BY <2>1, <2>2, <2>3, <2>4 DEF InOrder
  <1>15. /\ Len(kept) = Len(wkept)
         /\ \A i \in 1 .. Len(kept) : wkept[i] = Cell(g, d, kept[i]) + 1
    <2>1. Len(s) = Len(wkept) /\ \A i \in 1 .. Len(s) : s[i] = wkept[i]
      BY <1>9, <1>14, OneOrder
    <2>2. Len(s) = Len(kept)
      BY <1>11
    <2> QED
      BY <2>1, <2>2
  <1> DEFINE len == Len(kept)
  <1>16. ASSUME NEW i \in 1 .. len
         PROVE  /\ ids[i] \in Connections /\ want[i] \in Wants
                /\ ids[i].to = want[i].to /\ want[i].to \in g.to_start .. g.to_end
                /\ want[i].kernel = {ids[i].conn_parameter}
    <2> DEFINE p == kept[i]
               x == XAt(g, d, p).output
               y == YAt(g, d, p).output
               t == Cell(g, d, p)
    <2>1. p \in inside
      BY <1>11
    <2>2. x \in Int /\ y \in Int /\ t \in 0 .. width - 1 /\ At(p) \in Int
      BY <1>3, <2>1
    <2>3. t = g.to_width * x + y
      BY DEF Cell
    <2>4. ids[i] = [to |-> g.to_start + g.to_width * x + y, conn_parameter |-> At(p)]
      BY <1>4, <1>11
    <2>5. want[i] = [to |-> g.to_start + wkept[i] - 1, kernel |-> over[wkept[i]]]
      BY <1>5, <1>11, <1>12, <1>15
    <2>6. wkept[i] = t + 1 /\ over[t + 1] = {At(p)}
      BY <1>13, <1>15, <2>1
    <2> HIDE DEF p, x, y, t, kept
    <2>7. g.to_start + g.to_width * x + y = g.to_start + t
      <3> DEFINE v == g.to_width * x
      <3>1. v \in Int
        BY <1>1, <2>2
      <3> HIDE DEF v
      <3>2. g.to_start + v + y = g.to_start + (v + y)
        BY <1>1, <2>2, <3>1
      <3> QED
        BY <2>3, <3>2 DEF v
    <2>8. g.to_start + t \in g.to_start .. g.to_end /\ g.to_start + (t + 1) - 1 = g.to_start + t
          /\ g.to_start + t \in Int
      BY <1>1, <2>2 DEF width
    <2>9. ids[i] = [to |-> g.to_start + t, conn_parameter |-> At(p)]
      BY <2>4, <2>7
    <2>10. want[i] = [to |-> g.to_start + t, kernel |-> {At(p)}]
      BY <2>5, <2>6, <2>8
    <2>11. {At(p)} \in SUBSET Int
      BY <2>2
    <2> DEFINE to == g.to_start + t
               at == At(p)
               ks == {at}
    <2>12. /\ ids[i] = [to |-> to, conn_parameter |-> at] /\ want[i] = [to |-> to, kernel |-> ks]
           /\ to \in Int /\ at \in Int /\ ks \in SUBSET Int /\ to \in g.to_start .. g.to_end
      BY <2>2, <2>8, <2>9, <2>10, <2>11
    <2> HIDE DEF to, at
    <2>13. ids[i] \in Connections /\ want[i] \in Wants
      BY <2>12 DEF Connections, Wants
    <2>14. ids[i].to = want[i].to /\ want[i].to = to /\ want[i].kernel = {ids[i].conn_parameter}
      BY <2>12
    <2> QED
      BY <2>12, <2>13, <2>14
  <1>17. DOMAIN ids = 1 .. len /\ DOMAIN want = 1 .. len /\ len \in Nat
    BY <1>4, <1>5, <1>11, <1>12, <1>15
  <1>18. ids \in Seq(Connections) /\ want \in Seq(Wants) /\ Len(ids) = len /\ Len(want) = len
    <2>1. ids = [i \in 1 .. len |-> ids[i]] /\ want = [i \in 1 .. len |-> want[i]]
      BY <1>4, <1>5, <1>17
    <2> HIDE DEF len
    <2> QED
      BY <1>16, <1>17, <2>1
  <1> HIDE DEF len
  <1>19. AsAsked(ids, want, g.to_start .. g.to_end)
    BY <1>16, <1>18 DEF AsAsked
  <1> QED
    BY <1>19 DEF ids, want

LEMMA All2allAsAsked ==
    ASSUME NEW g, IsConnection(g), g.conn_type = "all2all", NEW d, NEW conn_parameter \in Int
    PROVE  AsAsked(all2all_ids(g, conn_parameter), Wanted(g, d), g.to_start .. g.to_end)
  <1> DEFINE ids   == all2all_ids(g, conn_parameter)
             want  == Wanted(g, d)
             width == g.to_end - g.to_start + 1
             over  == [k \in 1 .. width |-> IF g.conn_type = "conv2"
                                            THEN KernelOver(g, d, g.to_start + k - 1) ELSE {}]
             called == {k \in 1 .. width : g.conn_type = "conv2" => over[k] # {}}
             kept  == Ascending(1 .. width, width)
             all   == [i \in 1 .. width |-> i]
  <1>1. g.to_start \in Int /\ g.to_end \in Int /\ g.to_start <= g.to_end /\ width \in Nat
    BY DEF IsConnection
  <1>2. called = 1 .. width
    OBVIOUS
  <1>3. want = [i \in DOMAIN kept |-> [to |-> g.to_start + kept[i] - 1, kernel |-> over[kept[i]]]]
    BY <1>2 DEF Wanted
  <1>4. ids = [i \in 1 .. width |-> [to |-> g.to_start + i - 1, conn_parameter |-> conn_parameter]]
    BY DEF all2all_ids
  <1>5. \A k \in 1 .. width : over[k] = {}
    OBVIOUS
  <1>6. \A i \in 1 .. width : g.to_start + i - 1 \in g.to_start .. g.to_end /\ g.to_start + i - 1 \in Int
    BY <1>1
  <1> HIDE DEF ids, want, width, over
  <1>7. InOrder(kept, 1 .. width)
    <2>1. Lists(kept, 1 .. width, width, width) /\ 1 .. width \in SUBSET (1 .. width)
      BY <1>1, AscendingLists
    <2> QED
      BY <1>1, <2>1, ListsInOrder
  <1>8. all \in Seq(Int) /\ Len(all) = width /\ InOrder(all, 1 .. width)
    <2>1. all \in Seq(Int) /\ Len(all) = width /\ \A i \in 1 .. width : all[i] = i
      BY <1>1
    <2> HIDE DEF all
    <2> QED
      BY <1>1, <2>1 DEF InOrder
  <1>9. Len(kept) = width /\ \A i \in 1 .. width : kept[i] = i
    <2>1. Len(all) = Len(kept) /\ \A i \in 1 .. Len(all) : all[i] = kept[i]
      <3> DEFINE S == 1 .. width
      <3>1. InOrder(all, S) /\ InOrder(kept, S)
        BY <1>7, <1>8
      <3> HIDE DEF S, kept, all
      <3> QED
        BY <3>1, OneOrder
    <2> QED
      BY <1>8, <2>1
  <1>10. DOMAIN kept = 1 .. width
    BY <1>7, <1>9 DEF InOrder
  <1> HIDE DEF kept, all
  <1>11. ASSUME NEW i \in 1 .. width
         PROVE  /\ ids[i] \in Connections /\ want[i] \in Wants /\ ids[i].to = want[i].to
                /\ want[i].to \in g.to_start .. g.to_end /\ want[i].kernel = {}
    <2> DEFINE to == g.to_start + i - 1
    <2>1. to \in Int /\ to \in g.to_start .. g.to_end
      BY <1>6
    <2>2. ids[i] = [to |-> to, conn_parameter |-> conn_parameter]
      BY <1>4
    <2>3. want[i] = [to |-> to, kernel |-> {}]
      BY <1>3, <1>5, <1>9, <1>10
    <2> HIDE DEF to
    <2> QED
      BY <2>1, <2>2, <2>3 DEF Connections, Wants
  <1>12. ids \in Seq(Connections) /\ want \in Seq(Wants) /\ Len(ids) = width /\ Len(want) = width
    <2>1. ids = [i \in 1 .. width |-> ids[i]] /\ want = [i \in 1 .. width |-> want[i]]
      BY <1>3, <1>4, <1>10
    <2>2. (\A i \in 1 .. width : ids[i] \in Connections) /\ (\A i \in 1 .. width : want[i] \in Wants)
      BY <1>11
    <2>3. width \in Nat
      BY <1>1
    <2> HIDE DEF called
    <2> QED
      BY <2>1, <2>2, <2>3
  <1>13. AsAsked(ids, want, g.to_start .. g.to_end)
    BY <1>11, <1>12 DEF AsAsked
  <1> QED
    BY <1>13 DEF ids, want

\* What is wanted after one more group, given what was wanted before.
Adds(want, g, d) == want \o (IF InFrom(g, d) THEN Wanted(g, d) ELSE <<>>)

LEMMA BothParts ==
    ASSUME NEW T, NEW ids, NEW want, AsAsked(ids, want, T),
           NEW ids2, NEW want2, NEW T2 \in SUBSET T, AsAsked(ids2, want2, T2)
    PROVE  AsAsked(ids \o ids2, want \o want2, T)
  <1> DEFINE m == Len(ids)
             n == Len(ids2)
             a == ids \o ids2
             b == want \o want2
  <1>1. /\ ids \in Seq(Connections) /\ ids2 \in Seq(Connections)
        /\ want \in Seq(Wants) /\ want2 \in Seq(Wants)
        /\ Len(want) = m /\ Len(want2) = n /\ m \in Nat /\ n \in Nat
    BY DEF AsAsked
  <1>2. /\ a \in Seq(Connections) /\ b \in Seq(Wants) /\ Len(a) = m + n /\ Len(b) = m + n
        /\ \A k \in 1 .. m : a[k] = ids[k] /\ b[k] = want[k]
        /\ \A k \in m + 1 .. m + n : a[k] = ids2[k - m] /\ b[k] = want2[k - m]
    BY <1>1
  <1>3. ASSUME NEW k \in 1 .. m + n
        PROVE  /\ a[k].to = b[k].to /\ b[k].to \in T
               /\ b[k].kernel # {} => b[k].kernel = {a[k].conn_parameter}
    <2>1. CASE k \in 1 .. m
      <3>1. a[k] = ids[k] /\ b[k] = want[k]
        BY <1>2, <2>1
      <3> HIDE DEF a, b
      <3> QED
        BY <1>1, <2>1, <3>1 DEF AsAsked
    <2>2. CASE k \in m + 1 .. m + n
      <3>1. a[k] = ids2[k - m] /\ b[k] = want2[k - m] /\ k - m \in 1 .. n
        BY <1>1, <1>2, <2>2
      <3> HIDE DEF a, b
      <3> QED
        BY <1>1, <3>1 DEF AsAsked
    <2> QED
      BY <1>1, <2>1, <2>2
  <1> HIDE DEF a, b
  <1>4. AsAsked(a, b, T)
    BY <1>1, <1>2, <1>3 DEF AsAsked
  <1> QED
    BY <1>4 DEF a, b

LEMMA JoinsAsAsked ==
    ASSUME NEW g, IsConnection(g), Regular(g), NEW d \in Int, NEW T,
           g.to_start .. g.to_end \in SUBSET T, NEW ids, NEW want, AsAsked(ids, want, T)
    PROVE  AsAsked(Joins(ids, g, d), Adds(want, g, d), T)
  <1> DEFINE last == IF ids = <<>> THEN -1 ELSE Last(ids).conn_parameter
             new  == IF g.conn_type = "conv2" THEN conv2d_ids(g, d) ELSE all2all_ids(g, last)
  <1>0. ids \in Seq(Connections) /\ want \in Seq(Wants)
    BY DEF AsAsked
  <1>1. last \in Int
    <2> SUFFICES ASSUME ids # <<>> PROVE Last(ids).conn_parameter \in Int
      OBVIOUS
    <2>1. Len(ids) \in DOMAIN ids /\ Last(ids) = ids[Len(ids)]
      BY <1>0 DEF Last
    <2>2. Last(ids) \in Connections
      BY <1>0, <2>1, EntriesOf
    <2> QED
      BY <2>2 DEF Connections
  <1>2. CASE ~ InFrom(g, d)
    <2>1. Joins(ids, g, d) = ids /\ Adds(want, g, d) = want
      BY <1>0, <1>2 DEF Joins, Adds
    <2> QED
      BY <2>1
  <1>3. CASE InFrom(g, d)
    <2>1. Joins(ids, g, d) = ids \o new /\ Adds(want, g, d) = want \o Wanted(g, d)
      BY <1>3 DEF Joins, Adds
    <2>2. AsAsked(new, Wanted(g, d), g.to_start .. g.to_end)
      <3>1. CASE g.conn_type = "conv2"
        <4>1. g.from_start <= d
          BY <1>3 DEF InFrom
        <4> QED
          BY <3>1, <4>1, ConvolutionAsAsked
      <3>2. CASE g.conn_type # "conv2"
        <4>1. g.conn_type = "all2all" /\ new = all2all_ids(g, last)
          BY <3>2 DEF IsConnection
        <4> HIDE DEF last, new
        <4> QED
          BY <1>1, <4>1, All2allAsAsked
      <3> QED
        BY <3>1, <3>2
    <2> HIDE DEF new
    <2>3. AsAsked(ids \o new, want \o Wanted(g, d), T)
      BY <2>2, BothParts
    <2> QED
      BY <2>1, <2>3
  <1> QED
    BY <1>2, <1>3

LEMMA WantedAre ==
    ASSUME NEW g, IsConnection(g), Regular(g), NEW d \in Int, NEW want \in Seq(Wants)
    PROVE  Adds(want, g, d) \in Seq(Wants)
  <1>1. CASE ~ InFrom(g, d)
    BY <1>1 DEF Adds
  <1>2. CASE InFrom(g, d)
    <2>1. Wanted(g, d) \in Seq(Wants)
      <3>1. CASE g.conn_type = "conv2"
        <4>1. g.from_start <= d
          BY <1>2 DEF InFrom
        <4> QED
          BY <3>1, <4>1, ConvolutionAsAsked DEF AsAsked
      <3>2. CASE g.conn_type # "conv2"
        <4>1. g.conn_type = "all2all" /\ 0 \in Int
          BY <3>2 DEF IsConnection
        <4> QED
          BY <4>1, All2allAsAsked DEF AsAsked
      <3> QED
        BY <3>1, <3>2
    <2> QED
      BY <1>2, <2>1 DEF Adds
  <1> QED
    BY <1>1, <1>2

\* All that a neuron's groups call for, group after group.
WantedBy(gs, d) ==
    FoldLeft(LAMBDA s, g : s \o (IF InFrom(g, d) THEN Wanted(g, d) ELSE <<>>), <<>>, gs)

AreRegular(gs, n) == \A k \in 1 .. n : Regular(gs[k])

Collects(acc, gs, d, n) ==
    acc[0] = <<>> /\ \A k \in 1 .. n : acc[k] = Adds(acc[k - 1], gs[k], d)

Collected(it, gs, d) ==
    it = [s \in SUBSET DOMAIN gs |->
            IF s = {} THEN <<>> ELSE Adds(it[s \ {Max(s)}], gs[Max(s)], d)]

LEMMA CollectedExists ==
    ASSUME NEW gs, NEW n, AreConnections(gs, n), AreRegular(gs, n), NEW d \in Int
    PROVE  \E it : Collected(it, gs, d)
  <1> DEFINE V == Seq(Wants)
             step == [p \in (1 .. n) \X V |-> Adds(p[2], gs[p[1]], d)]
  <1>0. n \in Nat /\ DOMAIN gs = 1 .. n
    BY DEF AreConnections
  <1>1. step \in [(1 .. n) \X V -> V]
    <2>1. ASSUME NEW p \in 1 .. n, NEW v \in V PROVE Adds(v, gs[p], d) \in V
      <3>1. IsConnection(gs[p]) /\ Regular(gs[p])
        BY DEF AreConnections, AreRegular
      <3> QED
        BY <3>1, WantedAre
    <2> HIDE DEF V
    <2> QED
      BY <2>1
  <1>2. PICK it : Folds(it, n, V, <<>>, step)
    <2>1. <<>> \in V
      OBVIOUS
    <2> HIDE DEF step, V
    <2> QED
      BY <1>0, <1>1, <2>1, FoldExists
  <1>3. it = [s \in SUBSET (1 .. n) |-> it[s]] /\ it \in [SUBSET (1 .. n) -> V]
    BY <1>2 DEF Folds
  <1>4. ASSUME NEW s \in SUBSET (1 .. n)
        PROVE  it[s] = IF s = {} THEN <<>> ELSE Adds(it[s \ {Max(s)}], gs[Max(s)], d)
    <2>1. CASE s = {}
      BY <1>2, <2>1 DEF Folds
    <2>2. CASE s # {}
      <3>1. Max(s) \in 1 .. n /\ s \ {Max(s)} \in SUBSET (1 .. n)
        BY <1>0, <2>2, MaxIs
      <3>2. it[s \ {Max(s)}] \in V
        BY <1>3, <3>1
      <3> HIDE DEF V
      <3>3. step[<<Max(s), it[s \ {Max(s)}]>>] = Adds(it[s \ {Max(s)}], gs[Max(s)], d)
        BY <3>1, <3>2
      <3> QED
        BY <1>2, <2>2, <3>3 DEF Folds
    <2> QED
      BY <2>1, <2>2
  <1>5. Collected(it, gs, d)
    BY <1>0, <1>3, <1>4, Zenon DEF Collected
  <1> QED
    BY <1>5

LEMMA WantedCollects ==
    ASSUME NEW gs, NEW n, AreConnections(gs, n), AreRegular(gs, n), NEW d \in Int
    PROVE  \E acc : Collects(acc, gs, d, n) /\ WantedBy(gs, d) = acc[n]
  <1> DEFINE Step(it) == [s \in SUBSET DOMAIN gs |->
                            IF s = {} THEN <<>> ELSE Adds(it[s \ {Max(s)}], gs[Max(s)], d)]
             list == CHOOSE it : it = Step(it)
             acc == [k \in 0 .. n |-> list[1 .. k]]
  <1>0. n \in Nat /\ DOMAIN gs = 1 .. n
    BY DEF AreConnections
  <1>1. WantedBy(gs, d) = list[1 .. n]
    BY <1>0 DEF WantedBy, FoldLeft, MapThenFoldSet, Adds
  <1>2. Collected(list, gs, d)
    BY CollectedExists DEF Collected
  <1> HIDE DEF list
  <1>3. \A s \in SUBSET (1 .. n) :
           list[s] = IF s = {} THEN <<>> ELSE Adds(list[s \ {Max(s)}], gs[Max(s)], d)
    <2>1. \A s \in SUBSET DOMAIN gs :
             list[s] = IF s = {} THEN <<>> ELSE Adds(list[s \ {Max(s)}], gs[Max(s)], d)
      BY <1>2 DEF Collected
    <2> QED
      BY <1>0, <2>1
  <1>4. acc[0] = <<>>
    <2>1. 1 .. 0 = {} /\ {} \in SUBSET (1 .. n) /\ 0 \in 0 .. n
      BY <1>0
    <2>2. list[{}] = <<>>
      BY <1>3, <2>1
    <2> QED
      BY <2>1, <2>2
  <1>5. ASSUME NEW k \in 1 .. n PROVE acc[k] = Adds(acc[k - 1], gs[k], d)
    <2>0. k \in Nat \ {0} /\ k \in 0 .. n /\ k - 1 \in 0 .. n
      BY <1>0
    <2>1. Max(1 .. k) = k /\ (1 .. k) \ {k} = 1 .. k - 1 /\ 1 .. k # {}
      BY <2>0, MaxOfAll
    <2>2. 1 .. k \in SUBSET (1 .. n)
      BY <1>0
    <2>3. list[1 .. k] = Adds(list[1 .. k - 1], gs[k], d)
      BY <1>3, <2>1, <2>2
    <2> QED
      BY <2>0, <2>3
  <1>6. WantedBy(gs, d) = acc[n]
    BY <1>0, <1>1
  <1> HIDE DEF acc
  <1> QED
    BY <1>4, <1>5, <1>6 DEF Collects

\* What the iterator gives for a neuron is what its groups call for.
LEMMA IteratorAsAsked ==
    ASSUME NEW gs, NEW n, AreConnections(gs, n), AreRegular(gs, n), NEW d \in Int, NEW T,
           \A k \in 1 .. n : gs[k].to_start .. gs[k].to_end \in SUBSET T
    PROVE  AsAsked(synapse_iter(gs, d), WantedBy(gs, d), T)
  <1>0. n \in Nat
    BY DEF AreConnections
  <1>1. PICK ids : Gathers(ids, gs, d, n) /\ synapse_iter(gs, d) = ids[n]
    BY IteratorGathers
  <1>2. PICK want : Collects(want, gs, d, n) /\ WantedBy(gs, d) = want[n]
    BY WantedCollects
  <1> DEFINE P == {k \in Nat : k <= n => AsAsked(ids[k], want[k], T)}
  <1>3. 0 \in P
    <2>1. ids[0] = <<>> /\ want[0] = <<>>
      BY <1>1, <1>2 DEF Gathers, Collects
    <2>2. AsAsked(<<>>, <<>>, T)
      BY DEF AsAsked
    <2> QED
      BY <2>1, <2>2
  <1>4. ASSUME NEW k \in Nat, k \in P, k + 1 <= n PROVE AsAsked(ids[k + 1], want[k + 1], T)
    <2>1. k + 1 \in 1 .. n /\ (k + 1) - 1 = k /\ AsAsked(ids[k], want[k], T)
      BY <1>0, <1>4
    <2>2. /\ IsConnection(gs[k + 1]) /\ Regular(gs[k + 1])
          /\ gs[k + 1].to_start .. gs[k + 1].to_end \in SUBSET T
      BY <2>1 DEF AreConnections, AreRegular
    <2>3. /\ ids[k + 1] = Joins(ids[k], gs[k + 1], d)
          /\ want[k + 1] = Adds(want[k], gs[k + 1], d)
      BY <1>1, <1>2, <2>1 DEF Gathers, Collects
    <2> QED
      BY <2>1, <2>2, <2>3, JoinsAsAsked
  <1>5. \A k \in Nat : k \in P
    <2>1. \A k \in Nat : k \in P => k + 1 \in P
      BY <1>4
    <2> HIDE DEF P
    <2> QED
      BY <1>3, <2>1, Induction
  <1>6. n \in P
    <2> HIDE DEF P
    <2> QED
      BY <1>0, <1>5
  <1> QED
    BY <1>0, <1>1, <1>2, <1>6

-----------------------------------------------------------------------------
\* master.c:563-567, where the check is commented out: no stride is longer than its kernel,
\* or else a row of kernel positions may be empty and is looked at all the same.
KernelsSpanStrides ==
    \A g \in ToSet(synapse_groups) :
        g.conn_type = "conv2" => g.params.stride_width <= g.params.kernel_width

\* master.c:249-357, master.h:43-51. As long as the convolutions have an output and their
\* strides are no longer than their kernels, every neuron gets the synapses that its groups
\* call for, in the order in which the loaders read weights, each with its kernel position.
THEOREM ConnectionsAsMeant ==
    Spec => [](ShapesPositive /\ KernelsSpanStrides => SynapsesAsMeant)
  <1>1. RoomInv => (ShapesPositive /\ KernelsSpanStrides => SynapsesAsMeant)
    <2> SUFFICES ASSUME RoomInv, ShapesPositive, KernelsSpanStrides, LaidDown,
                        NEW pe \in PEs, NEW i \in DOMAIN synapses[pe]
                 PROVE  LET d    == Neuron(pe, i)
                            laid == synapses[pe][i]
                            want == WantedBy(synapse_groups, d)
                        IN  /\ DOMAIN laid = DOMAIN want
                            /\ \A k \in DOMAIN want :
                                  /\ gid_to_doryta_id(neuron_groups, laid[k].gid_to_send) = want[k].to
                                  /\ want[k].kernel # {} => want[k].kernel = {laid[k].weight}
      BY DEF SynapsesAsMeant, WantedBy
    <2> DEFINE G    == neuron_groups
               gs   == synapse_groups
               n    == Len(gs)
               L    == LocalNeurons(G, pe)
               d    == L[i]
               ids  == synapse_iter(gs, d)
               want == WantedBy(gs, d)
               laid == synapses[pe][i]
               T    == 0 .. TotalNeurons(G) - 1
    <2>1. /\ IsLayout(G) /\ AllConnect(gs, G) /\ AreConnections(gs, n)
          /\ n \in Nat /\ DOMAIN gs = 1 .. n
      BY AllAreConnections DEF RoomInv, AreConnections
    <2>2. AreRegular(gs, n)
      <3> SUFFICES ASSUME NEW k \in 1 .. n PROVE Regular(gs[k])
        BY DEF AreRegular
      <3>1. gs[k] \in ToSet(gs)
        BY <2>1 DEF ToSet
      <3> QED
        BY <3>1 DEF ShapesPositive, KernelsSpanStrides, Regular
    <2>3. \A k \in 1 .. n : gs[k].to_start .. gs[k].to_end \in SUBSET T
      <3> SUFFICES ASSUME NEW k \in 1 .. n PROVE gs[k].to_start .. gs[k].to_end \in SUBSET T
        OBVIOUS
      <3>1. Connects(gs[k], G) /\ TotalNeurons(G) \in Nat
        <4>1. Connects(gs[k], G)
          BY <2>1 DEF AllConnect
        <4>2. TotalNeurons(G) \in Nat
          BY <2>1, BeginsAre DEF IsLayout
        <4> QED
          BY <4>1, <4>2
      <3>2. /\ gs[k].to_start \in Int /\ gs[k].to_end \in Int
            /\ 0 <= gs[k].to_start /\ gs[k].to_end < TotalNeurons(G)
        BY <3>1 DEF Connects, IsConnection, ValidRange
      <3> DEFINE a == gs[k].to_start
                 b == gs[k].to_end
                 N == TotalNeurons(G)
      <3>3. a \in Int /\ b \in Int /\ 0 <= a /\ b < N /\ N \in Nat
        BY <3>1, <3>2
      <3> HIDE DEF a, b, N
      <3>4. a .. b \in SUBSET (0 .. N - 1)
        BY <3>3
      <3> QED
        BY <3>4 DEF a, b, N
    <2>4. /\ i \in DOMAIN L /\ laid = SynapsesOf(d)
      <3>1. synapses = Filled
        BY DEF RoomInv
      <3>2. Filled[pe] = [l \in DOMAIN L |-> SynapsesOf(L[l])]
        BY DEF Filled
      <3> QED
        BY <3>1, <3>2
    <2>5. d \in Int
      BY <2>1, <2>4, LocalNeuronsAreSeq, EntriesOf
    <2>6. AsAsked(ids, want, T)
      <3> HIDE DEF gs, n, d, T
      <3> QED
        BY <2>1, <2>2, <2>3, <2>5, IteratorAsAsked
    <2>7. laid = [j \in DOMAIN ids |-> [gid_to_send |-> doryta_id_to_gid(G, ids[j].to),
                                        weight |-> ids[j].conn_parameter]]
      BY <2>4 DEF SynapsesOf
    <2>8. \A t \in T : gid_to_doryta_id(G, doryta_id_to_gid(G, t)) = t
      <3> SUFFICES ASSUME NEW t \in T PROVE gid_to_doryta_id(G, doryta_id_to_gid(G, t)) = t
        OBVIOUS
      <3> HIDE DEF G
      <3>1. PICK p \in PEs : \E l \in 0 .. total_neurons_in_pe(G, p) - 1 : PlacedAt(G, t, p, l)
        BY <2>1, EveryNeuronHasAPlace
      <3>2. PICK l \in 0 .. total_neurons_in_pe(G, p) - 1 : PlacedAt(G, t, p, l)
        BY <3>1
      <3> QED
        BY <3>2 DEF PlacedAt
    <2>9. Neuron(pe, i) = d
      BY DEF Neuron
    <2> HIDE DEF G, gs, d, ids, want, laid, T
    <2>10. DOMAIN ids = 1 .. Len(want) /\ DOMAIN want = 1 .. Len(want)
      BY <2>6 DEF AsAsked
    <2>11. DOMAIN laid = DOMAIN want
      BY <2>7, <2>10
    <2>12. ASSUME NEW k \in DOMAIN want
           PROVE  /\ gid_to_doryta_id(G, laid[k].gid_to_send) = want[k].to
                  /\ want[k].kernel # {} => want[k].kernel = {laid[k].weight}
      <3>1. /\ ids[k].to = want[k].to /\ want[k].to \in T
            /\ want[k].kernel # {} => want[k].kernel = {ids[k].conn_parameter}
        BY <2>6, <2>10 DEF AsAsked
      <3>2. laid[k].gid_to_send = doryta_id_to_gid(G, ids[k].to) /\ laid[k].weight = ids[k].conn_parameter
        BY <2>7, <2>10
      <3> QED
        BY <2>8, <3>1, <3>2
    <2> QED
      BY <2>9, <2>11, <2>12 DEF G, gs, d, want, laid
  <1> QED
    BY <1>1, RoomInductive, PTL

\* Each connection to make belongs to a convolution from d and has a place in its kernel.
PlacedIn(ids, gs, d) ==
    /\ ids \in Seq(Connections)
    /\ \A i \in 1 .. Len(ids) : \E g \in ToSet(gs) :
          /\ InFrom(g, d) /\ g.conn_type = "conv2"
          /\ ids[i].conn_parameter \in 0 .. g.params.kernel_width * g.params.kernel_height - 1

LEMMA PlacesInKernel ==
    ASSUME NEW g, IsConnection(g), g.conn_type = "conv2",
           g.params.stride_width <= g.params.kernel_width, NEW d \in Int, g.from_start <= d
    PROVE  LET ids == conv2d_ids(g, d)
           IN  /\ ids \in Seq(Connections)
               /\ \A i \in 1 .. Len(ids) :
                     ids[i].conn_parameter \in 0 .. g.params.kernel_width * g.params.kernel_height - 1
  <1> DEFINE ids  == conv2d_ids(g, d)
             n    == LookedAt(g, d)
             kept == Ascending(Inside(g, d), n)
             kw   == g.params.kernel_width
             kh   == g.params.kernel_height
             At(p) == XAt(g, d, p).kernel * kw + YAt(g, d, p).kernel
             To(p) == g.to_start + g.to_width * XAt(g, d, p).output + YAt(g, d, p).output
             sx   == AxisX(g, d).synapses
             sy   == Columns(g, d)
  <1>1. /\ kw \in Nat \ {0} /\ kh \in Nat \ {0} /\ n = sx * sy /\ n \in Nat
        /\ sx \in Nat /\ sy \in Nat \ {0}
    BY PositionsAre DEF LookedAt
  <1>2. \A k \in 0 .. sx - 1 : Covering(AxisX(g, d), g.params.stride_height, k).kernel \in 0 .. kh - 1
    <2>1. AlongX(g, d)
      BY PositionsAre
    <2> QED
      BY <2>1 DEF AlongX
  <1>3. \A k \in 0 .. sy - 1 : Covering(AxisY(g, d), g.params.stride_width, k).kernel \in 0 .. kw - 1
    <2>1. AlongY(g, d) /\ sy = AxisY(g, d).synapses
      BY PositionsAre
    <2> QED
      BY <2>1 DEF AlongY
  <1>4. ASSUME NEW p \in 1 .. sx * sy PROVE At(p) \in 0 .. kw * kh - 1
    <2> DEFINE x == XAt(g, d, p).kernel
               y == YAt(g, d, p).kernel
    <2>1. (p - 1) \div sy \in 0 .. sx - 1 /\ (p - 1) % sy \in 0 .. sy - 1
      <3> HIDE DEF sx, sy
      <3> QED
        BY <1>1, InTable
    <2>2. x \in 0 .. kh - 1 /\ y \in 0 .. kw - 1
      BY <1>2, <1>3, <2>1 DEF XAt, YAt
    <2> HIDE DEF x, y, kw, kh
    <2>3. kw * x + y \in 0 .. kh * kw - 1
      BY <1>1, <2>2, InTable
    <2>4. kw * x = x * kw /\ kh * kw = kw * kh
      BY <1>1, <2>2
    <2>5. x * kw + y \in 0 .. kw * kh - 1
      BY <2>3, <2>4
    <2> QED
      BY <2>5 DEF x, y
  <1>5. ids = [i \in DOMAIN kept |-> [to |-> To(kept[i]), conn_parameter |-> At(kept[i])]]
    BY ConvolutionGives
  <1>6. Lists(kept, Inside(g, d), n, n)
    <2> HIDE DEF n
    <2> QED
      BY <1>1, AscendingLists
  <1>7. ids \in Seq(Connections)
    BY ConvolutionIds
  <1> HIDE DEF ids, kept, At, To
  <1>8. ASSUME NEW i \in 1 .. Len(ids)
        PROVE  ids[i].conn_parameter \in 0 .. kw * kh - 1
    <2>1. kept \in Seq(1 .. n)
      BY <1>6 DEF Lists
    <2>2. i \in DOMAIN kept
      BY <1>5, <1>7
    <2>3. kept[i] \in 1 .. sx * sy
      <3> HIDE DEF n
      <3>1. kept[i] \in 1 .. n
        BY <2>1, <2>2, EntriesOf
      <3> QED
        BY <1>1, <3>1
    <2>4. ids[i].conn_parameter = At(kept[i])
      BY <1>5, <2>2
    <2> QED
      BY <1>4, <2>3, <2>4
  <1> QED
    BY <1>7, <1>8 DEF ids

LEMMA IteratorInKernels ==
    ASSUME NEW gs, NEW n, AreConnections(gs, n), NEW d \in Int,
           \A k \in 1 .. n : /\ gs[k].conn_type = "conv2"
                             /\ gs[k].params.stride_width <= gs[k].params.kernel_width
    PROVE  PlacedIn(synapse_iter(gs, d), gs, d)
  <1>0. n \in Nat /\ DOMAIN gs = 1 .. n
    BY DEF AreConnections
  <1>1. PICK acc : Gathers(acc, gs, d, n) /\ synapse_iter(gs, d) = acc[n]
    BY IteratorGathers
  <1> DEFINE P == {k \in Nat : k <= n => PlacedIn(acc[k], gs, d)}
  <1>2. 0 \in P
    <2>1. acc[0] = <<>> /\ PlacedIn(<<>>, gs, d)
      BY <1>1 DEF Gathers, PlacedIn
    <2> QED
      BY <2>1
  <1>3. ASSUME NEW k \in Nat, k \in P, k + 1 <= n PROVE PlacedIn(acc[k + 1], gs, d)
    <2> DEFINE g == gs[k + 1]
               ids == acc[k]
               new == conv2d_ids(g, d)
    <2>1. k + 1 \in 1 .. n /\ (k + 1) - 1 = k /\ PlacedIn(ids, gs, d)
      BY <1>0, <1>3
    <2>2. acc[k + 1] = Joins(ids, g, d)
      BY <1>1, <2>1 DEF Gathers
    <2>3. /\ IsConnection(g) /\ g \in ToSet(gs) /\ g.conn_type = "conv2"
          /\ g.params.stride_width <= g.params.kernel_width
      BY <1>0, <2>1 DEF AreConnections, ToSet
    <2> HIDE DEF g, ids
    <2>4. CASE ~ InFrom(g, d)
      BY <2>1, <2>2, <2>4 DEF Joins
    <2>5. CASE InFrom(g, d)
      <3>1. acc[k + 1] = ids \o new
        BY <2>2, <2>3, <2>5 DEF Joins
      <3>2. /\ new \in Seq(Connections)
            /\ \A i \in 1 .. Len(new) :
                  new[i].conn_parameter \in 0 .. g.params.kernel_width * g.params.kernel_height - 1
        <4>1. g.from_start <= d
          BY <2>5 DEF InFrom
        <4> QED
          BY <2>3, <4>1, PlacesInKernel
      <3> HIDE DEF new
      <3> DEFINE both == ids \o new
      <3>3. ids \in Seq(Connections)
        BY <2>1 DEF PlacedIn
      <3>4. /\ both \in Seq(Connections) /\ Len(both) = Len(ids) + Len(new)
            /\ Len(ids) \in Nat /\ Len(new) \in Nat
            /\ \A i \in 1 .. Len(ids) : both[i] = ids[i]
            /\ \A i \in Len(ids) + 1 .. Len(ids) + Len(new) : both[i] = new[i - Len(ids)]
        BY <3>2, <3>3
      <3> HIDE DEF both
      <3>5. ASSUME NEW i \in 1 .. Len(both)
            PROVE  \E h \in ToSet(gs) :
                      /\ InFrom(h, d) /\ h.conn_type = "conv2"
                      /\ both[i].conn_parameter \in 0 .. h.params.kernel_width * h.params.kernel_height - 1
        <4>1. CASE i \in 1 .. Len(ids)
          BY <2>1, <3>4, <4>1 DEF PlacedIn
        <4>2. CASE i \in Len(ids) + 1 .. Len(ids) + Len(new)
          <5>1. i - Len(ids) \in 1 .. Len(new) /\ both[i] = new[i - Len(ids)]
            BY <3>4, <4>2
          <5> QED
            BY <2>3, <2>5, <3>2, <5>1
        <4> QED
          BY <3>4, <4>1, <4>2
      <3>6. PlacedIn(both, gs, d)
        BY <3>4, <3>5 DEF PlacedIn
      <3> QED
        BY <3>1, <3>6 DEF both
    <2> QED
      BY <2>4, <2>5
  <1>4. \A k \in Nat : k \in P
    <2>1. \A k \in Nat : k \in P => k + 1 \in P
      BY <1>3
    <2> HIDE DEF P
    <2> QED
      BY <1>2, <2>1, Induction
  <1>5. n \in P
    <2> HIDE DEF P
    <2> QED
      BY <1>0, <1>4
  <1> QED
    BY <1>0, <1>1, <1>5

\* master.c:213-224. And without the check that is commented out this is all that is missing:
\* if no stride is longer than its kernel, what comes with a connection of a convolution is
\* a place within the kernel.
THEOREM PositionsWithinKernels ==
    Spec => [](KernelsSpanStrides => KernelPositions)
  <1>1. RoomInv => (KernelsSpanStrides => KernelPositions)
    <2> SUFFICES ASSUME RoomInv, KernelsSpanStrides, LaidDown,
                        \A g \in ToSet(synapse_groups) : g.conn_type = "conv2",
                        NEW pe \in PEs, NEW i \in DOMAIN synapses[pe],
                        NEW k \in DOMAIN synapses[pe][i]
                 PROVE  \E g \in ToSet(synapse_groups) :
                           /\ InFrom(g, Neuron(pe, i)) /\ g.conn_type = "conv2"
                           /\ synapses[pe][i][k].weight
                                 \in 0 .. g.params.kernel_width * g.params.kernel_height - 1
      BY DEF KernelPositions
    <2> DEFINE gs  == synapse_groups
               n   == Len(gs)
               L   == LocalNeurons(neuron_groups, pe)
               d   == L[i]
               ids == synapse_iter(gs, d)
    <2>1. /\ IsLayout(neuron_groups) /\ AreConnections(gs, n)
          /\ n \in Nat /\ DOMAIN gs = 1 .. n
      BY AllAreConnections DEF RoomInv, AreConnections
    <2>2. ASSUME NEW l \in 1 .. n
          PROVE  /\ gs[l].conn_type = "conv2"
                 /\ gs[l].params.stride_width <= gs[l].params.kernel_width
      <3>1. gs[l] \in ToSet(gs)
        BY <2>1 DEF ToSet
      <3> QED
        BY <3>1 DEF KernelsSpanStrides
    <2>3. i \in DOMAIN L /\ synapses[pe][i] = SynapsesOf(d)
      <3>1. synapses = Filled
        BY DEF RoomInv
      <3>2. Filled[pe] = [l \in DOMAIN L |-> SynapsesOf(L[l])]
        BY DEF Filled
      <3> QED
        BY <3>1, <3>2
    <2>4. d \in Int
      BY <2>1, <2>3, LocalNeuronsAreSeq, EntriesOf
    <2>5. PlacedIn(ids, gs, d)
      <3> HIDE DEF gs, n, d
      <3> QED
        BY <2>1, <2>2, <2>4, IteratorInKernels
    <2>6. k \in DOMAIN ids /\ synapses[pe][i][k].weight = ids[k].conn_parameter
      BY <2>3 DEF SynapsesOf
    <2>7. Neuron(pe, i) = d
      BY DEF Neuron
    <2> HIDE DEF gs, d, ids
    <2>8. k \in 1 .. Len(ids)
      BY <2>5, <2>6 DEF PlacedIn
    <2> QED
      BY <2>5, <2>6, <2>7, <2>8 DEF PlacedIn, gs
  <1> QED
    BY <1>1, RoomInductive, PTL
=============================================================================
