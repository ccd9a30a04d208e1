----------------------------- MODULE LayoutProofs -----------------------------
(***************************************************************************)
(* Theorems about LayoutMaps: for one neuron group, of any size, over any  *)
(* range of PEs, also one that goes around the end of their numbering; and *)
(* for a layout of any number of groups, where every neuron has one place  *)
(* and the conversions of ids lead to it and back.                         *)
(***************************************************************************)
EXTENDS LayoutMaps, SynapseIterator, FiniteSetTheorems, WellFoundedInduction, TLAPS

-----------------------------------------------------------------------------
(* Division.                                                                *)

LEMMA Quotient ==
    ASSUME NEW b \in Nat \ {0}, NEW a \in Nat
    PROVE  a \div b \in Nat /\ a % b \in 0 .. b - 1 /\ a = b * (a \div b) + (a % b)
  OBVIOUS

LEMMA Grows ==
    ASSUME NEW b \in Nat, NEW i \in Int, NEW j \in Int, i < j
    PROVE  i * b + b <= j * b
  OBVIOUS

LEMMA QuotientIs ==
    ASSUME NEW b \in Nat \ {0}, NEW q \in Nat, NEW r \in 0 .. b - 1
    PROVE  (q * b + r) \div b = q /\ (q * b + r) % b = r
  <1> DEFINE a == q * b + r
             k == a \div b
             s == a % b
  <1>1. a \in Nat
    OBVIOUS
  <1>2. k \in Nat /\ s \in 0 .. b - 1 /\ a = b * k + s
    <2> HIDE DEF a
    <2> QED
      BY <1>1, Quotient
  <1> HIDE DEF k, s
  <1>3. a = k * b + s
    BY <1>2
  <1>4. k = q
    <2>1. ~ (k < q)
      <3> SUFFICES ASSUME k < q PROVE FALSE
        OBVIOUS
      <3>1. k * b + b <= q * b
        BY <1>2, Grows
      <3> QED
        BY <1>2, <1>3, <3>1
    <2>2. ~ (q < k)
      <3> SUFFICES ASSUME q < k PROVE FALSE
        OBVIOUS
      <3>1. q * b + b <= k * b
        BY <1>2, Grows
      <3> QED
        BY <1>2, <1>3, <3>1
    <2> QED
      BY <1>2, <2>1, <2>2
  <1>5. s = r
    BY <1>2, <1>3, <1>4
  <1> QED
    BY <1>4, <1>5 DEF k, s

LEMMA MinOfTwo ==
    ASSUME NEW a \in Int, NEW b \in Int
    PROVE  Min({a, b}) = IF a <= b THEN a ELSE b
  BY DEF Min

-----------------------------------------------------------------------------
(* A group over its range of PEs.                                           *)

IsGroup(g) ==
    /\ g.num_neurons \in Nat /\ g.global_neuron_offset \in Nat
    /\ g.initial_pe \in PEs /\ g.final_pe \in PEs
    /\ g.total_pes = IF g.initial_pe <= g.final_pe THEN g.final_pe - g.initial_pe + 1
                     ELSE tw_nnodes - (g.initial_pe - g.final_pe - 1)

LEMMA Defined ==
    ASSUME NEW groups, TotalNeurons(groups) \in Nat,
           NEW n \in Nat, NEW first \in PEs, NEW last \in PEs
    PROVE  IsGroup(neuron_group(groups, n, first, last))
  BY DEF IsGroup, neuron_group

LEMMA GroupRange ==
    ASSUME NEW g, IsGroup(g)
    PROVE  /\ g.total_pes \in Nat \ {0} /\ g.total_pes <= tw_nnodes
           /\ tw_nnodes \in Nat \ {0} /\ g.initial_pe \in Nat /\ g.initial_pe < tw_nnodes
  BY NodesAssumption DEF IsGroup, PEs

\* Counting PEs from the first of the range, around the end if need be, and back.
LEMMA PEOfIndex ==
    ASSUME NEW g, IsGroup(g), NEW index \in 0 .. g.total_pes - 1
    PROVE  LET pe == (index + g.initial_pe) % tw_nnodes
           IN  pe \in PEs /\ pe_inside_range(g, pe) /\ index_within_range(g, pe) = index
  <1> DEFINE first == g.initial_pe
             pe    == (index + first) % tw_nnodes
  <1>1. /\ g.total_pes \in Nat \ {0} /\ g.total_pes <= tw_nnodes /\ index \in Nat
        /\ tw_nnodes \in Nat \ {0} /\ first \in Nat /\ first < tw_nnodes
    BY GroupRange
  <1>2. CASE index + first < tw_nnodes
    <2>1. pe = index + first
      <3>1. (0 * tw_nnodes + (index + first)) % tw_nnodes = index + first
        BY <1>1, <1>2, QuotientIs, index + first \in 0 .. tw_nnodes - 1
      <3> QED
        BY <1>1, <3>1
    <2> HIDE DEF pe
    <2>2. pe \in PEs /\ pe_inside_range(g, pe) /\ index_within_range(g, pe) = index
      BY <1>1, <1>2, <2>1 DEF IsGroup, PEs, pe_inside_range, index_within_range
    <2> QED
      BY <2>2 DEF pe
  <1>3. CASE index + first >= tw_nnodes
    <2>1. pe = index + first - tw_nnodes
      <3>1. index + first - tw_nnodes \in 0 .. tw_nnodes - 1
        BY <1>1, <1>3
      <3>2. (1 * tw_nnodes + (index + first - tw_nnodes)) % tw_nnodes = index + first - tw_nnodes
        BY <1>1, <3>1, QuotientIs
      <3> QED
        BY <1>1, <3>2
    <2> HIDE DEF pe
    <2>2. pe \in PEs /\ pe_inside_range(g, pe) /\ index_within_range(g, pe) = index
      BY <1>1, <1>3, <2>1 DEF IsGroup, PEs, pe_inside_range, index_within_range
    <2> QED
      BY <2>2 DEF pe
  <1> QED
    BY <1>1, <1>2, <1>3

LEMMA IndexOfPE ==
    ASSUME NEW g, IsGroup(g), NEW pe \in PEs, pe_inside_range(g, pe)
    PROVE  /\ index_within_range(g, pe) \in 0 .. g.total_pes - 1
           /\ (index_within_range(g, pe) + g.initial_pe) % tw_nnodes = pe
  <1> DEFINE first == g.initial_pe
             index == index_within_range(g, pe)
  <1>1. /\ tw_nnodes \in Nat \ {0} /\ first \in Nat /\ first < tw_nnodes
        /\ pe \in Nat /\ pe < tw_nnodes
    BY GroupRange DEF PEs
  <1>2. index \in 0 .. g.total_pes - 1
    BY <1>1 DEF IsGroup, PEs, pe_inside_range, index_within_range
  <1>3. index + first = 0 * tw_nnodes + pe \/ index + first = 1 * tw_nnodes + pe
    BY <1>1 DEF index_within_range
  <1>4. (0 * tw_nnodes + pe) % tw_nnodes = pe /\ (1 * tw_nnodes + pe) % tw_nnodes = pe
    BY <1>1, QuotientIs, pe \in 0 .. tw_nnodes - 1
  <1> QED
    BY <1>2, <1>3, <1>4

-----------------------------------------------------------------------------
(* The neurons of a group within its PEs.                                   *)

\* Numbers below num blocks of b fall into one of those blocks.
LEMMA InBlock ==
    ASSUME NEW b \in Nat \ {0}, NEW num \in Nat, NEW w \in Nat, w < num * b
    PROVE  /\ w \div b \in 0 .. num - 1 /\ w % b \in 0 .. b - 1
           /\ w = (w \div b) * b + (w % b)
  <1> DEFINE q == w \div b
             r == w % b
  <1>1. q \in Nat /\ r \in 0 .. b - 1 /\ w = b * q + r
    BY Quotient
  <1> HIDE DEF q, r
  <1>2. w = q * b + r
    BY <1>1
  <1>3. q < num
    <2> SUFFICES ASSUME num <= q PROVE FALSE
      BY <1>1
    <2>1. CASE num = q
      BY <1>1, <1>2, <2>1
    <2>2. CASE num < q
      <3>1. num * b + b <= q * b
        BY <1>1, <2>2, Grows
      <3> QED
        BY <1>1, <1>2, <3>1
    <2> QED
      BY <1>1, <2>1, <2>2
  <1> QED
    BY <1>1, <1>2, <1>3 DEF q, r

\* total PEs share total * per + rem neurons: the w-th is on one of the first rem PEs,
\* which have per + 1 each, or on one of those after them.
LEMMA FirstPEs ==
    ASSUME NEW per \in Nat, NEW rem \in Nat, NEW w \in Nat, w < (per + 1) * rem
    PROVE  LET q == w \div (per + 1)
               r == w % (per + 1)
           IN  q \in 0 .. rem - 1 /\ r \in 0 .. per /\ w = q * per + q + r
  <1> DEFINE q == w \div (per + 1)
             r == w % (per + 1)
  <1>1. per + 1 \in Nat \ {0} /\ w < rem * (per + 1)
    OBVIOUS
  <1>2. q \in 0 .. rem - 1 /\ r \in 0 .. (per + 1) - 1 /\ w = q * (per + 1) + r
    BY <1>1, InBlock
  <1> HIDE DEF q, r
  <1>3. q \in 0 .. rem - 1 /\ r \in 0 .. per /\ w = q * per + q + r
    BY <1>2
  <1> QED
    BY <1>3 DEF q, r

LEMMA LaterPEs ==
    ASSUME NEW per \in Nat, NEW rem \in Nat, NEW total \in Nat, rem < total,
           NEW w \in Nat, w < total * per + rem, (per + 1) * rem <= w
    PROVE  LET q == (w - (per + 1) * rem) \div per
               r == (w - (per + 1) * rem) % per
           IN  /\ per > 0 /\ q \in 0 .. total - rem - 1 /\ r \in 0 .. per - 1
               /\ w = (rem + q) * per + rem + r
  <1> DEFINE past == w - (per + 1) * rem
             q == past \div per
             r == past % per
  <1>1. (per + 1) * rem = rem * per + rem /\ (total - rem) * per = total * per - rem * per
        /\ rem * per \in Nat /\ total - rem \in Nat
    OBVIOUS
  <1>2. past \in Nat /\ past < (total - rem) * per /\ w = past + rem * per + rem
    BY <1>1
  <1> HIDE DEF past
  <1>3. per \in Nat \ {0}
    BY <1>1, <1>2
  <1>4. q \in 0 .. (total - rem) - 1 /\ r \in 0 .. per - 1 /\ past = q * per + r
    BY <1>1, <1>2, <1>3, InBlock
  <1> HIDE DEF q, r
  <1>5. (rem + q) * per = rem * per + q * per
    BY <1>4
  <1>6. w = (rem + q) * per + rem + r
    BY <1>1, <1>2, <1>4, <1>5
  <1> QED
    BY <1>3, <1>4, <1>6 DEF q, r, past

\* How many PEs there are that take one more, and how many neurons the others take.
LEMMA Shares ==
    ASSUME NEW g, IsGroup(g)
    PROVE  LET per == g.num_neurons \div g.total_pes
               rem == remainder_neurons(g)
           IN  /\ per \in Nat /\ rem \in 0 .. g.total_pes - 1
               /\ g.num_neurons = g.total_pes * per + rem
  BY GroupRange, Quotient DEF IsGroup, remainder_neurons

\* The first neuron of the PE with some index, and how many it has.
LEMMA Block ==
    ASSUME NEW g, IsGroup(g), NEW pe \in PEs, pe_inside_range(g, pe)
    PROVE  LET per   == g.num_neurons \div g.total_pes
               rem   == remainder_neurons(g)
               index == index_within_range(g, pe)
           IN  /\ doryta_id_offset(g, pe) = g.global_neuron_offset + index * per
                                              + (IF index <= rem THEN index ELSE rem)
               /\ neurons_in_pe(g, pe) = IF index < rem THEN per + 1 ELSE per
  <1> DEFINE per   == g.num_neurons \div g.total_pes
             rem   == remainder_neurons(g)
             index == index_within_range(g, pe)
  <1>1. per \in Nat /\ rem \in Nat /\ index \in Nat
    BY Shares, IndexOfPE, GroupRange
  <1>2. Min({index, rem}) = IF index <= rem THEN index ELSE rem
    <2> HIDE DEF index, rem
    <2> QED
      BY <1>1, MinOfTwo
  <1>3. neurons_in_pe(g, pe) = per + (IF index < rem THEN 1 ELSE 0)
    BY DEF neurons_in_pe
  <1>4. doryta_id_offset(g, pe) = g.global_neuron_offset + index * per + Min({index, rem})
    BY DEF doryta_id_offset
  <1> HIDE DEF per, rem, index
  <1>5. neurons_in_pe(g, pe) = IF index < rem THEN per + 1 ELSE per
    BY <1>1, <1>3
  <1> QED
    BY <1>2, <1>4, <1>5 DEF per, rem, index

\* master.c:768-792 against 92-115. Of any neuron of a group, group_spot finds the PE in
\* whose block of doryta ids it is, and its place in that block.
THEOREM SpotIsInBlock ==
    ASSUME NEW g, IsGroup(g),
           NEW d \in g.global_neuron_offset .. g.global_neuron_offset + g.num_neurons - 1
    PROVE  LET spot == group_spot(g, d)
           IN  /\ spot.pe \in PEs /\ pe_inside_range(g, spot.pe)
               /\ spot.offset \in 0 .. neurons_in_pe(g, spot.pe) - 1
               /\ doryta_id_offset(g, spot.pe) + spot.offset = d
  <1> DEFINE total  == g.total_pes
             first  == g.global_neuron_offset
             per    == g.num_neurons \div total
             rem    == remainder_neurons(g)
             w      == d - first
             past   == w - (per + 1) * rem
             index  == IF past < 0 THEN w \div (per + 1) ELSE rem + past \div per
             offset == IF past < 0 THEN w % (per + 1) ELSE past % per
             pe     == (index + g.initial_pe) % tw_nnodes
  <1>1. /\ per \in Nat /\ rem \in Nat /\ total \in Nat /\ rem < total /\ first \in Nat
        /\ g.num_neurons = total * per + rem
    BY Shares, GroupRange DEF IsGroup
  <1>2. /\ w \in Nat /\ w < total * per + rem /\ d = first + w
    BY <1>1 DEF IsGroup
  <1>3. group_spot(g, d) = [pe |-> pe, offset |-> offset]
    BY DEF group_spot
  <1>4. index \in 0 .. total - 1 =>
           /\ pe \in PEs /\ pe_inside_range(g, pe)
           /\ doryta_id_offset(g, pe) = first + index * per + (IF index <= rem THEN index ELSE rem)
           /\ neurons_in_pe(g, pe) = IF index < rem THEN per + 1 ELSE per
    <2> SUFFICES ASSUME index \in 0 .. total - 1
                 PROVE  /\ pe \in PEs /\ pe_inside_range(g, pe)
                        /\ doryta_id_offset(g, pe) =
                              first + index * per + (IF index <= rem THEN index ELSE rem)
                        /\ neurons_in_pe(g, pe) = IF index < rem THEN per + 1 ELSE per
      OBVIOUS
    <2> HIDE DEF index
    <2>1. pe \in PEs /\ pe_inside_range(g, pe) /\ index_within_range(g, pe) = index
      BY PEOfIndex
    <2> HIDE DEF pe
    <2> QED
      BY <2>1, Block
  <1>5. /\ index \in 0 .. total - 1
        /\ offset \in 0 .. (IF index < rem THEN per + 1 ELSE per) - 1
        /\ w = index * per + (IF index <= rem THEN index ELSE rem) + offset
    <2> HIDE DEF per, rem, w, total
    <2>1. CASE w < (per + 1) * rem
      <3> DEFINE q == w \div (per + 1)
                 r == w % (per + 1)
      <3>1. q \in 0 .. rem - 1 /\ r \in 0 .. per /\ w = q * per + q + r
        BY <1>1, <1>2, <2>1, FirstPEs
      <3>2. past < 0
        BY <1>1, <1>2, <2>1
      <3>3. index = q /\ offset = r
        BY <3>2
      <3> HIDE DEF q, r, index, offset
      <3> QED
        BY <1>1, <3>1, <3>3
    <2>2. CASE (per + 1) * rem <= w
      <3> DEFINE q == past \div per
                 r == past % per
      <3>1. /\ per > 0 /\ q \in 0 .. total - rem - 1 /\ r \in 0 .. per - 1
            /\ w = (rem + q) * per + rem + r
        BY <1>1, <1>2, <2>2, LaterPEs
      <3>2. ~ (past < 0)
        BY <1>1, <1>2, <2>2
      <3>3. index = rem + q /\ offset = r
        BY <3>2
      <3> HIDE DEF q, r, index, offset
      <3> QED
        BY <1>1, <3>1, <3>3
    <2> QED
      BY <1>1, <1>2, <2>1, <2>2
  <1> HIDE DEF pe, index, offset, w, per, rem, total, first
  <1>6. /\ pe \in PEs /\ pe_inside_range(g, pe)
        /\ offset \in 0 .. neurons_in_pe(g, pe) - 1
        /\ doryta_id_offset(g, pe) + offset = d
    <2>1. index * per \in Nat /\ index \in Nat /\ offset \in Nat
      BY <1>1, <1>5
    <2> QED
      BY <1>1, <1>2, <1>4, <1>5, <2>1
  <1> QED
    BY <1>3, <1>6

\* master.c:652-703 against 768-792. The other way round: what a PE takes for its neurons of
\* a group are neurons of that group, and group_spot sends each of them back there. So no
\* two PEs share a neuron, and with SpotIsInBlock every neuron has exactly one place.
THEOREM BlockIsSpot ==
    ASSUME NEW g, IsGroup(g), NEW pe \in PEs, pe_inside_range(g, pe),
           NEW j \in 0 .. neurons_in_pe(g, pe) - 1
    PROVE  LET d == doryta_id_offset(g, pe) + j
           IN  /\ d \in g.global_neuron_offset .. g.global_neuron_offset + g.num_neurons - 1
               /\ group_spot(g, d) = [pe |-> pe, offset |-> j]
  <1> DEFINE total  == g.total_pes
             first  == g.global_neuron_offset
             per    == g.num_neurons \div total
             rem    == remainder_neurons(g)
             i      == index_within_range(g, pe)
             d      == doryta_id_offset(g, pe) + j
             w      == d - first
             past   == w - (per + 1) * rem
             index  == IF past < 0 THEN w \div (per + 1) ELSE rem + past \div per
             offset == IF past < 0 THEN w % (per + 1) ELSE past % per
  <1>1. /\ per \in Nat /\ rem \in Nat /\ total \in Nat /\ rem < total /\ first \in Nat
        /\ g.num_neurons = total * per + rem
    BY Shares, GroupRange DEF IsGroup
  <1>2. i \in Nat /\ i < total /\ (i + g.initial_pe) % tw_nnodes = pe
    BY <1>1, IndexOfPE
  <1>3. /\ doryta_id_offset(g, pe) = first + i * per + (IF i <= rem THEN i ELSE rem)
        /\ neurons_in_pe(g, pe) = IF i < rem THEN per + 1 ELSE per
    BY Block
  <1>4. group_spot(g, d) = [pe |-> (index + g.initial_pe) % tw_nnodes, offset |-> offset]
    BY DEF group_spot
  <1> HIDE DEF i, total, per, rem
  <1>5. /\ j \in Nat /\ j < (IF i < rem THEN per + 1 ELSE per)
        /\ i * per \in Nat /\ d \in Int
        /\ w = i * per + (IF i <= rem THEN i ELSE rem) + j
    BY <1>1, <1>2, <1>3 DEF i, per, rem
  <1>6. w \in Nat /\ w < total * per + rem /\ index = i /\ offset = j
    <2>1. CASE i < rem
      <3>1. w = i * (per + 1) + j /\ j \in 0 .. (per + 1) - 1 /\ per + 1 \in Nat \ {0}
        <4> HIDE DEF w
        <4>1. i * (per + 1) = i * per + i
          BY <1>1, <1>2
        <4> QED
          BY <1>1, <1>2, <1>5, <2>1, <4>1
      <3>2. i * (per + 1) + (per + 1) <= rem * (per + 1)
        BY <1>1, <1>2, <2>1, Grows
      <3>3. rem * (per + 1) = (per + 1) * rem
        BY <1>1
      <3>4. past < 0
        BY <1>1, <1>2, <3>1, <3>2, <3>3
      <3>5. w \div (per + 1) = i /\ w % (per + 1) = j
        <4> HIDE DEF w
        <4> DEFINE b == per + 1
        <4>1. b \in Nat \ {0} /\ j \in 0 .. b - 1 /\ w = i * b + j
          BY <3>1
        <4> HIDE DEF b
        <4>2. w \div b = i /\ w % b = j
          BY <1>2, <4>1, QuotientIs
        <4> QED
          BY <4>2 DEF b
      <3>6. w < total * per + rem
        <4>1. i * per + per <= total * per
          BY <1>1, <1>2, Grows
        <4> QED
          BY <1>1, <1>2, <1>5, <2>1, <4>1
      <3>7. index = i /\ offset = j
        BY <3>4, <3>5
      <3> QED
        BY <1>1, <1>2, <1>5, <3>6, <3>7
    <2>2. CASE rem <= i
      <3>1. /\ w = i * per + rem + j /\ j \in 0 .. per - 1 /\ per \in Nat \ {0}
        BY <1>1, <1>2, <1>5, <2>2
      <3>2. (per + 1) * rem = rem * per + rem /\ (i - rem) * per = i * per - rem * per
        BY <1>1, <1>2
      <3>3. past = (i - rem) * per + j /\ i - rem \in Nat
        BY <1>1, <1>2, <2>2, <3>1, <3>2
      <3>4. past \div per = i - rem /\ past % per = j
        <4> HIDE DEF past
        <4>1. ((i - rem) * per + j) \div per = i - rem /\ ((i - rem) * per + j) % per = j
          BY <3>1, <3>3, QuotientIs
        <4> QED
          BY <3>3, <4>1
      <3>5. ~ (past < 0)
        BY <1>1, <3>1, <3>3
      <3>6. w < total * per + rem
        <4>1. i * per + per <= total * per
          BY <1>1, <1>2, Grows
        <4> QED
          BY <1>1, <1>2, <3>1, <4>1
      <3>7. index = i /\ offset = j
        BY <1>1, <1>2, <3>4, <3>5
      <3> QED
        BY <1>1, <1>2, <1>5, <2>2, <3>6, <3>7
    <2> QED
      BY <1>1, <1>2, <2>1, <2>2
  <1> HIDE DEF index, offset
  <1>7. d \in first .. first + g.num_neurons - 1
    BY <1>1, <1>5, <1>6
  <1> QED
    BY <1>2, <1>4, <1>6, <1>7

-----------------------------------------------------------------------------
(* Induction over the natural numbers, with the set of those that have the  *)
(* property as its parameter.                                               *)

LEMMA Least ==
    ASSUME NEW T, T \subseteq Nat, T # {}
    PROVE  \E m \in T : \A n \in T : m <= n
  <1> DEFINE R == StrictSubsetOrdering(Nat)
             F == {0 .. m : m \in T}
  <1>1. IsWellFoundedOn(R, FiniteSubsetsOf(Nat))
    BY FS_StrictSubsetOrderingWellFounded
  <1>2. F \subseteq FiniteSubsetsOf(Nat) /\ F # {}
    <2>1. \A m \in T : 0 .. m \in FiniteSubsetsOf(Nat)
      BY FS_Interval DEF FiniteSubsetsOf
    <2> QED
      BY <2>1
  <1>3. PICK x \in F : \A y \in F : <<y, x>> \notin R
    <2> HIDE DEF R, F
    <2> QED
      BY <1>1, <1>2, WFMin
  <1>4. PICK m \in T : x = 0 .. m
    OBVIOUS
  <1>5. ASSUME NEW n \in T, n < m
        PROVE  FALSE
    <2>1. <<0 .. n, 0 .. m>> \notin R
      BY <1>3, <1>4
    <2>2. 0 .. n \subseteq 0 .. m /\ m \in 0 .. m /\ m \notin 0 .. n
      BY <1>5
    <2>3. 0 .. n \in SUBSET Nat /\ 0 .. m \in SUBSET Nat
      OBVIOUS
    <2> HIDE DEF F
    <2> QED
      BY <2>1, <2>2, <2>3 DEF StrictSubsetOrdering
  <1> QED
    BY <1>5

LEMMA Induction ==
    ASSUME NEW P, 0 \in P, \A k \in Nat : k \in P => k + 1 \in P
    PROVE  \A k \in Nat : k \in P
  <1> DEFINE T == {k \in Nat : k \notin P}
  <1> SUFFICES ASSUME T # {} PROVE FALSE
    OBVIOUS
  <1>1. PICK m \in T : \A n \in T : m <= n
    <2>1. T \subseteq Nat
      OBVIOUS
    <2> HIDE DEF T
    <2> QED
      BY <2>1, Least
  <1>2. m \in Nat /\ m # 0
    OBVIOUS
  <1>3. m - 1 \in Nat /\ m - 1 \notin T
    BY <1>1, <1>2
  <1> QED
    BY <1>2, <1>3


\* A set of numbers up to k has a greatest element.
LEMMA MaxIs ==
    ASSUME NEW k \in Nat, NEW s, s \subseteq 1 .. k, s # {}
    PROVE  Max(s) \in s /\ \A y \in s : y <= Max(s)
  <1> DEFINE T == {k - y : y \in s}
  <1>1. T \subseteq Nat /\ T # {}
    <2>1. \A y \in s : k - y \in Nat
      OBVIOUS
    <2>2. \A y \in s : k - y \in T
      OBVIOUS
    <2> QED
      BY <2>1, <2>2
  <1>2. PICK m \in T : \A n \in T : m <= n
    <2> HIDE DEF T
    <2> QED
      BY <1>1, Least
  <1>3. PICK x \in s : m = k - x
    OBVIOUS
  <1>4. ASSUME NEW y \in s PROVE x >= y
    <2>1. k - y \in T
      OBVIOUS
    <2>2. k - x <= k - y
      <3> HIDE DEF T
      <3> QED
        BY <1>2, <1>3, <2>1
    <2>3. x \in Int /\ y \in Int
      OBVIOUS
    <2> HIDE DEF T
    <2> QED
      BY <2>2, <2>3
  <1>5. Max(s) \in s /\ \A y \in s : Max(s) >= y
    BY <1>4 DEF Max
  <1>6. s \subseteq Int
    OBVIOUS
  <1> QED
    BY <1>5, <1>6

LEMMA MaxOfAll ==
    ASSUME NEW k \in Nat \ {0}
    PROVE  Max(1 .. k) = k /\ (1 .. k) \ {k} = 1 .. k - 1 /\ 1 .. k # {}
  <1>1. Max(1 .. k) \in 1 .. k /\ \A y \in 1 .. k : y <= Max(1 .. k)
    BY MaxIs, 1 .. k # {}
  <1> QED
    BY <1>1

-----------------------------------------------------------------------------
(* The folds of the community modules over a sequence: a recursion over the *)
(* sets of its indices that takes off the greatest, so that the sets it     *)
(* comes to are those of the first k.                                       *)

\* `step` has for an index, and the value up to it, the value with it.
Folds(it, n, V, base, step) ==
    /\ it \in [SUBSET (1 .. n) -> V]
    /\ \A s \in SUBSET (1 .. n) :
          it[s] = IF s = {} THEN base ELSE step[<<Max(s), it[s \ {Max(s)}]>>]

LEMMA FoldExists ==
    ASSUME NEW n \in Nat, NEW V, NEW base \in V, NEW step \in [(1 .. n) \X V -> V]
    PROVE  \E it : Folds(it, n, V, base, step)
  <1> DEFINE Next(g) == [s \in SUBSET (1 .. n) |->
                           IF s = {} THEN base ELSE step[<<Max(s), g[s \ {Max(s)}]>>]]
             UpTo(g, k) == /\ g \in [SUBSET (1 .. n) -> V]
                           /\ \A s \in SUBSET (1 .. n) : s \subseteq 1 .. k => g[s] = Next(g)[s]
             P == {k \in Nat : \E g : UpTo(g, k)}
  <1>1. \A s \in SUBSET (1 .. n) : s # {} =>
           Max(s) \in 1 .. n /\ s \ {Max(s)} \in SUBSET (1 .. n)
    BY MaxIs
  <1>2. \A g \in [SUBSET (1 .. n) -> V] : Next(g) \in [SUBSET (1 .. n) -> V]
    BY <1>1
  <1>3. 0 \in P
    <2> DEFINE g == [s \in SUBSET (1 .. n) |-> base]
    <2>1. g \in [SUBSET (1 .. n) -> V]
      OBVIOUS
    <2>2. \A s \in SUBSET (1 .. n) : s \subseteq 1 .. 0 => g[s] = Next(g)[s]
      OBVIOUS
    <2>3. UpTo(g, 0)
      <3> HIDE DEF g, Next
      <3> QED
        BY <2>1, <2>2
    <2> HIDE DEF UpTo
    <2> QED
      BY <2>3
  <1>4. ASSUME NEW k \in Nat, k \in P PROVE k + 1 \in P
    <2>1. PICK g : UpTo(g, k)
      BY <1>4
    <2> DEFINE f == Next(g)
    <2>2. f \in [SUBSET (1 .. n) -> V]
      <3> HIDE DEF Next
      <3> QED
        BY <1>2, <2>1
    <2>3. ASSUME NEW s \in SUBSET (1 .. n), s \subseteq 1 .. k + 1
          PROVE  f[s] = Next(f)[s]
      <3>1. CASE s = {}
        BY <3>1
      <3>2. CASE s # {}
        <4> DEFINE t == s \ {Max(s)}
        <4>1. Max(s) \in s /\ \A y \in s : y <= Max(s)
          BY <2>3, <3>2, MaxIs
        <4>2. t \in SUBSET (1 .. n) /\ t \subseteq 1 .. k
          <5>1. ASSUME NEW y \in s, y # Max(s) PROVE y \in 1 .. k
            <6>1. y \in 1 .. k + 1 /\ Max(s) \in 1 .. k + 1 /\ y <= Max(s)
              BY <2>3, <4>1
            <6> QED
              BY <5>1, <6>1
          <5> QED
            BY <2>3, <5>1
        <4>3. g[t] = f[t]
          <5> HIDE DEF Next, t
          <5> QED
            BY <2>1, <4>2
        <4>4. f[s] = step[<<Max(s), g[t]>>]
          BY <3>2
        <4> HIDE DEF f
        <4>5. Next(f)[s] = step[<<Max(s), f[t]>>]
          BY <3>2
        <4> QED
          BY <4>3, <4>4, <4>5
      <3> QED
        BY <3>1, <3>2
    <2> HIDE DEF f, Next
    <2>4. UpTo(f, k + 1)
      BY <2>2, <2>3
    <2> HIDE DEF UpTo
    <2> QED
      BY <2>4
  <1>5. n \in P
    <2>1. \A k \in Nat : k \in P
      <3> HIDE DEF P
      <3> QED
        BY <1>3, <1>4, Induction
    <2> HIDE DEF P
    <2> QED
      BY <2>1
  <1>6. PICK g : UpTo(g, n)
    <2> HIDE DEF UpTo
    <2> QED
      BY <1>5
  <1>7. Folds(g, n, V, base, step)
    BY <1>6 DEF Folds
  <1> QED
    BY <1>7

\* Sums of the first numbers of f.
SumsUp(it, n, f) ==
    it = [s \in SUBSET (1 .. n) |-> IF s = {} THEN 0 ELSE it[s \ {Max(s)}] + f[Max(s)]]

Sums(S, n, f) ==
    /\ S \in [0 .. n -> Nat]
    /\ S[0] = 0
    /\ \A k \in 1 .. n : S[k] = S[k - 1] + f[k]

LEMMA SumExists ==
    ASSUME NEW n \in Nat, NEW f \in [1 .. n -> Nat]
    PROVE  \E it : SumsUp(it, n, f)
  <1> DEFINE step == [p \in (1 .. n) \X Nat |-> p[2] + f[p[1]]]
  <1>1. step \in [(1 .. n) \X Nat -> Nat]
    OBVIOUS
  <1>2. PICK it : Folds(it, n, Nat, 0, step)
    <2> HIDE DEF step
    <2> QED
      BY <1>1, FoldExists
  <1>3. it = [s \in SUBSET (1 .. n) |-> it[s]]
    BY <1>2 DEF Folds
  <1>4. ASSUME NEW s \in SUBSET (1 .. n)
        PROVE  it[s] = IF s = {} THEN 0 ELSE it[s \ {Max(s)}] + f[Max(s)]
    <2>1. CASE s = {}
      BY <1>2, <2>1 DEF Folds
    <2>2. CASE s # {}
      <3>1. Max(s) \in 1 .. n /\ s \ {Max(s)} \in SUBSET (1 .. n)
        BY <2>2, MaxIs
      <3>2. it[s \ {Max(s)}] \in Nat
        BY <1>2, <3>1 DEF Folds
      <3>3. step[<<Max(s), it[s \ {Max(s)}]>>] = it[s \ {Max(s)}] + f[Max(s)]
        BY <3>1, <3>2
      <3> QED
        BY <1>2, <2>2, <3>3 DEF Folds
    <2> QED
      BY <2>1, <2>2
  <1>5. it = [s \in SUBSET (1 .. n) |-> IF s = {} THEN 0 ELSE it[s \ {Max(s)}] + f[Max(s)]]
    BY <1>3, <1>4
  <1>6. SumsUp(it, n, f)
    BY <1>5 DEF SumsUp
  <1> QED
    BY <1>6

LEMMA SumsOf ==
    ASSUME NEW n \in Nat, NEW f \in [1 .. n -> Nat], NEW it, SumsUp(it, n, f)
    PROVE  Sums([k \in 0 .. n |-> it[1 .. k]], n, f)
  <1> DEFINE S == [k \in 0 .. n |-> it[1 .. k]]
             P == {k \in Nat : k <= n => S[k] \in Nat}
  <1>1. \A s \in SUBSET (1 .. n) : it[s] = IF s = {} THEN 0 ELSE it[s \ {Max(s)}] + f[Max(s)]
    BY DEF SumsUp
  <1>2. S[0] = 0
    <2>1. it[{}] = 0
      BY <1>1
    <2>2. 1 .. 0 = {} /\ 0 \in 0 .. n
      OBVIOUS
    <2>3. S[0] = it[1 .. 0]
      BY <2>2
    <2> QED
      BY <2>1, <2>2, <2>3
  <1>3. ASSUME NEW k \in 1 .. n PROVE S[k] = S[k - 1] + f[k]
    <2>1. Max(1 .. k) = k /\ (1 .. k) \ {k} = 1 .. k - 1 /\ 1 .. k # {}
      BY MaxOfAll
    <2>2. 1 .. k \in SUBSET (1 .. n)
      OBVIOUS
    <2>3. it[1 .. k] = it[1 .. k - 1] + f[k]
      BY <1>1, <2>1, <2>2
    <2> QED
      BY <2>3
  <1> HIDE DEF S
  <1>4. 0 \in P /\ \A k \in Nat : k \in P => k + 1 \in P
    <2>1. ASSUME NEW k \in Nat, k \in P, k + 1 <= n PROVE S[k + 1] \in Nat
      <3>1. S[k] \in Nat
        BY <2>1
      <3>2. S[k + 1] = S[(k + 1) - 1] + f[k + 1] /\ (k + 1) - 1 = k /\ f[k + 1] \in Nat
        BY <1>3, <2>1
      <3> QED
        BY <3>1, <3>2
    <2> QED
      BY <1>2, <2>1
  <1>5. \A k \in Nat : k \in P
    <2> HIDE DEF P
    <2> QED
      BY <1>4, Induction
  <1>6. S \in [0 .. n -> Nat]
    <2>1. \A k \in 0 .. n : S[k] \in Nat
      BY <1>5
    <2>2. S = [k \in 0 .. n |-> S[k]]
      BY DEF S
    <2> QED
      BY <2>1, <2>2
  <1>7. Sums(S, n, f)
    BY <1>2, <1>3, <1>6 DEF Sums
  <1> QED
    BY <1>7 DEF S

\* Sums over two sequences that begin alike.
Alike(f, f2, m) == \A k \in 1 .. m : f[k] = f2[k]

LEMMA SumsAgree ==
    ASSUME NEW n \in Nat, NEW m \in Nat, m <= n, NEW f, NEW f2, Alike(f, f2, m),
           NEW S, Sums(S, n, f), NEW S2, Sums(S2, m, f2)
    PROVE  \A k \in 0 .. m : S[k] = S2[k]
  <1> DEFINE P == {k \in Nat : k <= m => S[k] = S2[k]}
  <1>1. 0 \in P
    BY DEF Sums
  <1>2. ASSUME NEW k \in Nat, k \in P, k + 1 <= m PROVE S[k + 1] = S2[k + 1]
    <2>1. k + 1 \in 1 .. m /\ k + 1 \in 1 .. n /\ (k + 1) - 1 = k
      BY <1>2
    <2>2. S[k + 1] = S[k] + f[k + 1] /\ S2[k + 1] = S2[k] + f2[k + 1]
      BY <2>1 DEF Sums
    <2>3. f[k + 1] = f2[k + 1]
      BY <1>2 DEF Alike
    <2> QED
      BY <1>2, <2>1, <2>2, <2>3
  <1>3. \A k \in Nat : k \in P => k + 1 \in P
    BY <1>2
  <1>4. \A k \in Nat : k \in P
    <2> HIDE DEF P
    <2> QED
      BY <1>1, <1>3, Induction
  <1> QED
    BY <1>4

LEMMA SumsGrow ==
    ASSUME NEW n \in Nat, NEW f \in [1 .. n -> Nat], NEW S, Sums(S, n, f),
           NEW i \in 0 .. n, NEW j \in 0 .. n, i <= j
    PROVE  S[i] <= S[j] /\ S[i] \in Nat /\ S[j] \in Nat
  <1> DEFINE P == {k \in Nat : i + k <= n => S[i] <= S[i + k]}
  <1>1. 0 \in P
    BY DEF Sums
  <1>2. ASSUME NEW k \in Nat, k \in P, i + (k + 1) <= n PROVE S[i] <= S[i + (k + 1)]
    <2>1. i + (k + 1) \in 1 .. n /\ i + (k + 1) - 1 = i + k /\ i + k \in 0 .. n
      BY <1>2
    <2>2. /\ S[i + (k + 1)] = S[i + k] + f[i + (k + 1)]
          /\ f[i + (k + 1)] \in Nat /\ S[i + k] \in Nat /\ S[i] \in Nat
      BY <2>1 DEF Sums
    <2> QED
      BY <1>2, <2>1, <2>2
  <1>3. \A k \in Nat : k \in P
    <2>1. \A k \in Nat : k \in P => k + 1 \in P
      BY <1>2
    <2> HIDE DEF P
    <2> QED
      BY <1>1, <2>1, Induction
  <1>4. j - i \in Nat /\ i + (j - i) = j
    OBVIOUS
  <1>5. S[i] <= S[j]
    <2>1. j - i \in P
      <3> HIDE DEF P
      <3> QED
        BY <1>3, <1>4
    <2>2. i + (j - i) <= n => S[i] <= S[i + (j - i)]
      BY <2>1
    <2> QED
      BY <1>4, <2>2
  <1> QED
    BY <1>5 DEF Sums

\* A smaller number everywhere makes a smaller sum.
LEMMA SumsBounded ==
    ASSUME NEW n \in Nat, NEW f \in [1 .. n -> Nat], NEW h \in [1 .. n -> Nat],
           \A k \in 1 .. n : f[k] <= h[k],
           NEW S, Sums(S, n, f), NEW T, Sums(T, n, h)
    PROVE  \A k \in 0 .. n : S[k] <= T[k]
  <1> DEFINE P == {k \in Nat : k <= n => S[k] <= T[k]}
  <1>1. 0 \in P
    BY DEF Sums
  <1>2. ASSUME NEW k \in Nat, k \in P, k + 1 <= n PROVE S[k + 1] <= T[k + 1]
    <2>1. k + 1 \in 1 .. n /\ (k + 1) - 1 = k /\ k \in 0 .. n
      BY <1>2
    <2>2. /\ S[k + 1] = S[k] + f[k + 1] /\ T[k + 1] = T[k] + h[k + 1]
          /\ S[k] \in Nat /\ T[k] \in Nat /\ f[k + 1] \in Nat /\ h[k + 1] \in Nat
          /\ f[k + 1] <= h[k + 1]
      BY <2>1 DEF Sums
    <2> QED
      BY <1>2, <2>1, <2>2
  <1>3. \A k \in Nat : k \in P
    <2>1. \A k \in Nat : k \in P => k + 1 \in P
      BY <1>2
    <2> HIDE DEF P
    <2> QED
      BY <1>1, <2>1, Induction
  <1> QED
    BY <1>3

-----------------------------------------------------------------------------
(* The sums over the groups.                                                *)

Partial(f, n) == CHOOSE S : Sums(S, n, f)

LEMMA PartialSums ==
    ASSUME NEW n \in Nat, NEW f \in [1 .. n -> Nat]
    PROVE  Sums(Partial(f, n), n, f)
  <1>1. PICK it : SumsUp(it, n, f)
    BY SumExists
  <1>2. Sums([k \in 0 .. n |-> it[1 .. k]], n, f)
    BY <1>1, SumsOf
  <1> QED
    BY <1>2 DEF Partial

LEMMA FoldIsPartial ==
    ASSUME NEW n \in Nat, NEW f \in [1 .. n -> Nat], NEW it, SumsUp(it, n, f)
    PROVE  it[1 .. n] = Partial(f, n)[n]
  <1> DEFINE S == [k \in 0 .. n |-> it[1 .. k]]
  <1>1. Sums(S, n, f)
    BY SumsOf
  <1>2. Sums(Partial(f, n), n, f)
    BY PartialSums
  <1>3. \A k \in 0 .. n : S[k] = Partial(f, n)[k]
    <2>1. Alike(f, f, n)
      BY DEF Alike
    <2> HIDE DEF S
    <2> QED
      BY <1>1, <1>2, <2>1, SumsAgree
  <1>4. S[n] = it[1 .. n]
    OBVIOUS
  <1> QED
    BY <1>3, <1>4

\* The sums of the first numbers are those of the longer sequence.
LEMMA PartialOfPrefix ==
    ASSUME NEW n \in Nat, NEW m \in Nat, m <= n, NEW f \in [1 .. n -> Nat],
           NEW f2 \in [1 .. m -> Nat], Alike(f, f2, m)
    PROVE  Partial(f2, m)[m] = Partial(f, n)[m]
  <1> DEFINE S  == Partial(f, n)
             S2 == Partial(f2, m)
  <1>1. Sums(S, n, f)
    BY PartialSums
  <1>2. Sums(S2, m, f2)
    BY PartialSums
  <1>3. \A k \in 0 .. m : S[k] = S2[k]
    <2> HIDE DEF S, S2
    <2> QED
      BY <1>1, <1>2, SumsAgree
  <1> QED
    BY <1>3

Sizes(groups)    == [k \in 1 .. Len(groups) |-> groups[k].num_neurons]
Parts(groups, pe) == [k \in 1 .. Len(groups) |-> neurons_in_pe(groups[k], pe)]
Widths(groups)   == [k \in 1 .. Len(groups) |-> ceil(groups[k].num_neurons, groups[k].total_pes)]

LEMMA TotalIsPartial ==
    ASSUME NEW groups, NEW n \in Nat, DOMAIN groups = 1 .. n, Len(groups) = n,
           Sizes(groups) \in [1 .. n -> Nat]
    PROVE  TotalNeurons(groups) = Partial(Sizes(groups), n)[n]
  <1> DEFINE f == Sizes(groups)
             Step(it) == [s \in SUBSET DOMAIN groups |->
                            IF s = {} THEN 0
                            ELSE it[s \ {Max(s)}] + groups[Max(s)].num_neurons]
             sum == CHOOSE it : it = Step(it)
  <1>1. TotalNeurons(groups) = sum[DOMAIN groups]
    BY DEF TotalNeurons, SumOver, FoldLeft, MapThenFoldSet
  <1>2. ASSUME NEW it
        PROVE  Step(it) = [s \in SUBSET (1 .. n) |->
                             IF s = {} THEN 0 ELSE it[s \ {Max(s)}] + f[Max(s)]]
    <2>1. \A s \in SUBSET (1 .. n) : s # {} => Max(s) \in 1 .. n
      BY MaxIs
    <2>2. \A x \in 1 .. n : f[x] = groups[x].num_neurons
      BY DEF Sizes
    <2> HIDE DEF f
    <2>3. \A s \in SUBSET (1 .. n) : s # {} => f[Max(s)] = groups[Max(s)].num_neurons
      BY <2>1, <2>2
    <2> QED
      BY <2>3
  <1>3. \A it : it = Step(it) <=> SumsUp(it, n, f)
    <2> HIDE DEF Step, f
    <2> QED
      BY <1>2 DEF SumsUp
  <1>4. \E it : SumsUp(it, n, f)
    <2> HIDE DEF f
    <2> QED
      BY SumExists DEF f
  <1>5. SumsUp(sum, n, f)
    <2> HIDE DEF Step, f
    <2> QED
      BY <1>3, <1>4
  <1>6. sum[1 .. n] = Partial(f, n)[n]
    <2> HIDE DEF sum
    <2> QED
      BY <1>5, FoldIsPartial
  <1> QED
    BY <1>1, <1>6

LEMMA SumOfPartsIsPartial ==
    ASSUME NEW groups, NEW pe, NEW n \in Nat, DOMAIN groups = 1 .. n, Len(groups) = n,
           Parts(groups, pe) \in [1 .. n -> Nat]
    PROVE  SumOver(groups, LAMBDA g : neurons_in_pe(g, pe)) = Partial(Parts(groups, pe), n)[n]
  <1> DEFINE f == Parts(groups, pe)
             Step(it) == [s \in SUBSET DOMAIN groups |->
                            IF s = {} THEN 0
                            ELSE it[s \ {Max(s)}] + neurons_in_pe(groups[Max(s)], pe)]
             sum == CHOOSE it : it = Step(it)
  <1>1. SumOver(groups, LAMBDA g : neurons_in_pe(g, pe)) = sum[DOMAIN groups]
    BY DEF SumOver, FoldLeft, MapThenFoldSet
  <1>2. ASSUME NEW it
        PROVE  Step(it) = [s \in SUBSET (1 .. n) |->
                             IF s = {} THEN 0 ELSE it[s \ {Max(s)}] + f[Max(s)]]
    <2>1. \A s \in SUBSET (1 .. n) : s # {} => Max(s) \in 1 .. n
      BY MaxIs
    <2>2. \A x \in 1 .. n : f[x] = neurons_in_pe(groups[x], pe)
      BY DEF Parts
    <2> HIDE DEF f
    <2>3. \A s \in SUBSET (1 .. n) : s # {} => f[Max(s)] = neurons_in_pe(groups[Max(s)], pe)
      BY <2>1, <2>2
    <2> QED
      BY <2>3
  <1>3. \A it : it = Step(it) <=> SumsUp(it, n, f)
    <2> HIDE DEF Step, f
    <2> QED
      BY <1>2 DEF SumsUp
  <1>4. \E it : SumsUp(it, n, f)
    <2> HIDE DEF f
    <2> QED
      BY SumExists DEF f
  <1>5. SumsUp(sum, n, f)
    <2> HIDE DEF Step, f
    <2> QED
      BY <1>3, <1>4
  <1>6. sum[1 .. n] = Partial(f, n)[n]
    <2> HIDE DEF sum
    <2> QED
      BY <1>5, FoldIsPartial
  <1> QED
    BY <1>1, <1>6

LEMMA WidestIsPartial ==
    ASSUME NEW groups, NEW n \in Nat, DOMAIN groups = 1 .. n, Len(groups) = n,
           Widths(groups) \in [1 .. n -> Nat]
    PROVE  max_num_neurons_per_pe(groups) = Partial(Widths(groups), n)[n]
  <1> DEFINE f == Widths(groups)
             Width(g) == ceil(g.num_neurons, g.total_pes)
             Step(it) == [s \in SUBSET DOMAIN groups |->
                            IF s = {} THEN 0
                            ELSE it[s \ {Max(s)}] + Width(groups[Max(s)])]
             sum == CHOOSE it : it = Step(it)
  <1>1. max_num_neurons_per_pe(groups) = sum[DOMAIN groups]
    BY DEF max_num_neurons_per_pe, SumOver, FoldLeft, MapThenFoldSet
  <1>2. ASSUME NEW it
        PROVE  Step(it) = [s \in SUBSET (1 .. n) |->
                             IF s = {} THEN 0 ELSE it[s \ {Max(s)}] + f[Max(s)]]
    <2>1. \A s \in SUBSET (1 .. n) : s # {} => Max(s) \in 1 .. n
      BY MaxIs
    <2>2. \A x \in 1 .. n : f[x] = Width(groups[x])
      BY DEF Widths
    <2> HIDE DEF f, Width
    <2>3. \A s \in SUBSET (1 .. n) : s # {} => f[Max(s)] = Width(groups[Max(s)])
      BY <2>1, <2>2
    <2> QED
      BY <2>3
  <1>3. \A it : it = Step(it) <=> SumsUp(it, n, f)
    <2> HIDE DEF Step, f
    <2> QED
      BY <1>2 DEF SumsUp
  <1>4. \E it : SumsUp(it, n, f)
    <2> HIDE DEF f
    <2> QED
      BY SumExists DEF f
  <1>5. SumsUp(sum, n, f)
    <2> HIDE DEF Step, f
    <2> QED
      BY <1>3, <1>4
  <1>6. sum[1 .. n] = Partial(f, n)[n]
    <2> HIDE DEF sum
    <2> QED
      BY <1>5, FoldIsPartial
  <1> QED
    BY <1>1, <1>6
-----------------------------------------------------------------------------
(* The neurons of a PE, group after group.                                  *)

BlockOf(g, pe) == [j \in 1 .. neurons_in_pe(g, pe) |-> doryta_id_offset(g, pe) + j - 1]

\* What a fold comes to when it puts the blocks of the groups one after the other.
Joined(it, groups, pe) ==
    it = [s \in SUBSET DOMAIN groups |->
            IF s = {} THEN <<>> ELSE it[s \ {Max(s)}] \o BlockOf(groups[Max(s)], pe)]

LEMMA JoinExists ==
    ASSUME NEW groups, NEW pe, NEW n \in Nat, DOMAIN groups = 1 .. n,
           \A k \in 1 .. n : BlockOf(groups[k], pe) \in Seq(Int)
    PROVE  \E it : Joined(it, groups, pe) /\ it \in [SUBSET (1 .. n) -> Seq(Int)]
  <1> DEFINE step == [p \in (1 .. n) \X Seq(Int) |-> p[2] \o BlockOf(groups[p[1]], pe)]
  <1>1. step \in [(1 .. n) \X Seq(Int) -> Seq(Int)]
    OBVIOUS
  <1>2. PICK it : Folds(it, n, Seq(Int), <<>>, step)
    <2>1. <<>> \in Seq(Int)
      OBVIOUS
    <2> HIDE DEF step
    <2> QED
      BY <1>1, <2>1, FoldExists
  <1>3. it = [s \in SUBSET (1 .. n) |-> it[s]] /\ it \in [SUBSET (1 .. n) -> Seq(Int)]
    BY <1>2 DEF Folds
  <1>4. ASSUME NEW s \in SUBSET (1 .. n)
        PROVE  it[s] = IF s = {} THEN <<>> ELSE it[s \ {Max(s)}] \o BlockOf(groups[Max(s)], pe)
    <2>1. CASE s = {}
      BY <1>2, <2>1 DEF Folds
    <2>2. CASE s # {}
      <3>1. Max(s) \in 1 .. n /\ s \ {Max(s)} \in SUBSET (1 .. n)
        BY <2>2, MaxIs
      <3>2. it[s \ {Max(s)}] \in Seq(Int)
        BY <1>3, <3>1
      <3>3. step[<<Max(s), it[s \ {Max(s)}]>>] = it[s \ {Max(s)}] \o BlockOf(groups[Max(s)], pe)
        BY <3>1, <3>2
      <3> QED
        BY <1>2, <2>2, <3>3 DEF Folds
    <2> QED
      BY <2>1, <2>2
  <1>5. Joined(it, groups, pe)
    BY <1>3, <1>4 DEF Joined
  <1> QED
    BY <1>3, <1>5

LEMMA BlockIsSeq ==
    ASSUME NEW g, NEW pe, neurons_in_pe(g, pe) \in Nat, doryta_id_offset(g, pe) \in Int
    PROVE  /\ BlockOf(g, pe) \in Seq(Int) /\ Len(BlockOf(g, pe)) = neurons_in_pe(g, pe)
           /\ \A j \in 1 .. neurons_in_pe(g, pe) :
                 BlockOf(g, pe)[j] = doryta_id_offset(g, pe) + j - 1
  BY DEF BlockOf

LEMMA TwoParts ==
    ASSUME NEW s \in Seq(Int), NEW t \in Seq(Int)
    PROVE  /\ s \o t \in Seq(Int) /\ Len(s \o t) = Len(s) + Len(t)
           /\ \A i \in 1 .. Len(s) : (s \o t)[i] = s[i]
           /\ \A i \in 1 .. Len(t) : (s \o t)[Len(s) + i] = t[i]
  OBVIOUS

\* The groups give pe numbers of neurons.
Counted(groups, pe, n) ==
    \A k \in 1 .. n : neurons_in_pe(groups[k], pe) \in Nat /\ doryta_id_offset(groups[k], pe) \in Int

\* `ids` has the block of each group, after those of the groups before it.
Listed(ids, groups, pe, n) ==
    LET O == Partial(Parts(groups, pe), n)
    IN  /\ ids \in Seq(Int) /\ Len(ids) = O[n]
        /\ \A l \in 1 .. n : \A j \in 1 .. neurons_in_pe(groups[l], pe) :
              ids[O[l - 1] + j] = doryta_id_offset(groups[l], pe) + j - 1

LEMMA LocalNeuronsAre ==
    ASSUME NEW groups, NEW pe, NEW n \in Nat, DOMAIN groups = 1 .. n, Len(groups) = n,
           Counted(groups, pe, n)
    PROVE  Listed(LocalNeurons(groups, pe), groups, pe, n)
  <1> DEFINE f == Parts(groups, pe)
             O == Partial(f, n)
             join == CHOOSE it : Joined(it, groups, pe)
  <1>1. LocalNeurons(groups, pe) = join[1 .. n]
    BY DEF LocalNeurons, FoldLeft, MapThenFoldSet, Joined, BlockOf
  <1>2. \A k \in 1 .. n :
           /\ BlockOf(groups[k], pe) \in Seq(Int)
           /\ Len(BlockOf(groups[k], pe)) = f[k] /\ f[k] \in Nat
           /\ \A j \in 1 .. f[k] :
                 BlockOf(groups[k], pe)[j] = doryta_id_offset(groups[k], pe) + j - 1
    <2>1. ASSUME NEW k \in 1 .. n PROVE f[k] = neurons_in_pe(groups[k], pe)
      BY DEF Parts
    <2>2. \A k \in 1 .. n : /\ neurons_in_pe(groups[k], pe) \in Nat
                            /\ doryta_id_offset(groups[k], pe) \in Int
      BY DEF Counted
    <2> HIDE DEF f
    <2> QED
      BY <2>1, <2>2, BlockIsSeq
  <1>3. f \in [1 .. n -> Nat]
    BY DEF Parts, Counted
  <1>4. Sums(O, n, f)
    <2> HIDE DEF f
    <2> QED
      BY <1>3, PartialSums
  <1>5. Joined(join, groups, pe)
    <2> HIDE DEF f
    <2> QED
      BY <1>2, JoinExists
  <1>6. join[{}] = <<>>
    BY <1>5 DEF Joined
  <1>7. ASSUME NEW k \in 1 .. n
        PROVE  join[1 .. k] = join[1 .. k - 1] \o BlockOf(groups[k], pe)
    <2>0. k \in Nat \ {0}
      OBVIOUS
    <2>1. Max(1 .. k) = k /\ (1 .. k) \ {k} = 1 .. k - 1 /\ 1 .. k # {}
      BY <2>0, MaxOfAll
    <2>2. 1 .. k \in SUBSET DOMAIN groups
      OBVIOUS
    <2>3. \A s \in SUBSET DOMAIN groups : s # {} =>
             join[s] = join[s \ {Max(s)}] \o BlockOf(groups[Max(s)], pe)
      <3> HIDE DEF join
      <3> QED
        BY <1>5 DEF Joined
    <2> HIDE DEF join
    <2> QED
      BY <2>1, <2>2, <2>3
  <1> HIDE DEF join, O, f
  <1> DEFINE Right(k) ==
                /\ join[1 .. k] \in Seq(Int)
                /\ Len(join[1 .. k]) = O[k]
                /\ \A l \in 1 .. k : \A j \in 1 .. f[l] :
                      join[1 .. k][O[l - 1] + j] = doryta_id_offset(groups[l], pe) + j - 1
             P == {k \in Nat : k <= n => Right(k)}
  <1>8. 0 \in P
    <2>1. 1 .. 0 = {} /\ O[0] = 0
      BY <1>4 DEF Sums
    <2>2. Right(0)
      <3>1. join[1 .. 0] = <<>>
        BY <1>6, <2>1
      <3>2. join[1 .. 0] \in Seq(Int) /\ Len(join[1 .. 0]) = 0
        BY <3>1
      <3> QED
        BY <2>1, <3>2
    <2> HIDE DEF Right
    <2> QED
      BY <2>2
  <1>9. ASSUME NEW k \in Nat, k \in P, k + 1 <= n PROVE Right(k + 1)
    <2> DEFINE before == join[1 .. k]
               new == BlockOf(groups[k + 1], pe)
               all == join[1 .. k + 1]
    <2>1. Right(k)
      <3> HIDE DEF Right
      <3> QED
        BY <1>9
    <2>2. k + 1 \in 1 .. n /\ (k + 1) - 1 = k
      BY <1>9
    <2>3. all = before \o new
      BY <1>7, <2>2
    <2>4. /\ before \in Seq(Int) /\ Len(before) = O[k]
          /\ \A l \in 1 .. k : \A j \in 1 .. f[l] :
                before[O[l - 1] + j] = doryta_id_offset(groups[l], pe) + j - 1
      BY <2>1
    <2>5. /\ new \in Seq(Int) /\ Len(new) = f[k + 1] /\ f[k + 1] \in Nat
          /\ \A j \in 1 .. f[k + 1] : new[j] = doryta_id_offset(groups[k + 1], pe) + j - 1
      BY <1>2, <2>2
    <2>6. O[k + 1] = O[k] + f[k + 1] /\ O[k] \in Nat
      BY <1>4, <2>2 DEF Sums
    <2> HIDE DEF before, new, all
    <2>9. /\ all \in Seq(Int) /\ Len(all) = Len(before) + Len(new)
          /\ \A i \in 1 .. Len(before) : all[i] = before[i]
          /\ \A i \in 1 .. Len(new) : all[Len(before) + i] = new[i]
      BY <2>3, <2>4, <2>5, TwoParts
    <2>7. all \in Seq(Int) /\ Len(all) = O[k + 1]
      BY <2>9, <2>4, <2>5, <2>6
    <2>8. ASSUME NEW l \in 1 .. k + 1, NEW j \in 1 .. f[l]
          PROVE  all[O[l - 1] + j] = doryta_id_offset(groups[l], pe) + j - 1
      <3>1. CASE l = k + 1
        <4>1. j \in 1 .. f[k + 1] /\ O[l - 1] = O[k]
          BY <2>2, <3>1
        <4>2. all[O[k] + j] = new[j]
          BY <2>9, <2>4, <2>5, <4>1
        <4> QED
          BY <2>5, <3>1, <4>1, <4>2
      <3>2. CASE l # k + 1
        <4>1. l \in 1 .. k /\ l \in 1 .. n /\ l - 1 \in 0 .. n /\ l \in 0 .. n /\ k \in 0 .. n /\ l <= k
          BY <2>2, <3>2
        <4>2. O[l] = O[l - 1] + f[l] /\ O[l - 1] \in Nat /\ f[l] \in Nat
          BY <1>2, <1>4, <4>1 DEF Sums
        <4>3. O[l] <= O[k]
          BY <1>3, <1>4, <4>1, SumsGrow
        <4>4. O[l - 1] + j \in 1 .. Len(before)
          BY <2>4, <2>6, <4>2, <4>3
        <4>5. all[O[l - 1] + j] = before[O[l - 1] + j]
          BY <2>9, <4>4
        <4> QED
          BY <2>4, <4>1, <4>5
      <3> QED
        BY <3>1, <3>2
    <2> QED
      BY <2>7, <2>8 DEF all
  <1>10. \A k \in Nat : k \in P
    <2>1. \A k \in Nat : k \in P => k + 1 \in P
      <3> HIDE DEF Right
      <3> QED
        BY <1>9
    <2> HIDE DEF P
    <2> QED
      BY <1>8, <2>1, Induction
  <1>11. Right(n)
    <2>1. n \in P
      <3> HIDE DEF P
      <3> QED
        BY <1>10
    <2> HIDE DEF Right
    <2> QED
      BY <2>1
  <1>12. \A l \in 1 .. n : f[l] = neurons_in_pe(groups[l], pe)
    BY DEF f, Parts
  <1> QED
    BY <1>1, <1>11, <1>12 DEF O, f, Listed
-----------------------------------------------------------------------------
(* A layout: the groups one after the other.                                *)

\* No PE has more neurons of a group than the quotient that is rounded up.
LEMMA RoundedUp ==
    ASSUME NEW x \in Nat, NEW y \in Nat \ {0}
    PROVE  /\ ceil(x, y) \in Nat /\ x \div y <= ceil(x, y)
           /\ x % y > 0 => x \div y + 1 <= ceil(x, y)
  <1> DEFINE q == (-x) \div y
             r == (-x) % y
             c == -q
             per == x \div y
             rem == x % y
  <1>1. q \in Int /\ r \in 0 .. y - 1 /\ -x = y * q + r
    OBVIOUS
  <1>2. per \in Nat /\ rem \in 0 .. y - 1 /\ x = y * per + rem
    BY Quotient
  <1>3. ceil(x, y) = c
    BY DEF ceil
  <1> HIDE DEF q, r, per, rem
  <1>4. c \in Int /\ x = y * c - r
    BY <1>1
  <1> HIDE DEF c
  <1>5. per <= c
    <2> SUFFICES ASSUME c < per PROVE FALSE
      BY <1>2, <1>4
    <2>1. c * y + y <= per * y
      BY <1>2, <1>4, Grows
    <2> QED
      BY <1>1, <1>2, <1>4, <2>1
  <1>6. rem > 0 => per # c
    BY <1>1, <1>2, <1>4
  <1> QED
    BY <1>2, <1>3, <1>4, <1>5, <1>6 DEF per, rem

LEMMA ShareOfPE ==
    ASSUME NEW g, IsGroup(g), NEW pe \in PEs
    PROVE  /\ neurons_in_pe(g, pe) \in Nat /\ doryta_id_offset(g, pe) \in Int
           /\ ceil(g.num_neurons, g.total_pes) \in Nat
           /\ neurons_in_pe(g, pe) <= ceil(g.num_neurons, g.total_pes)
           /\ neurons_in_pe(g, pe) > 0 => pe_inside_range(g, pe)
  <1> DEFINE per == g.num_neurons \div g.total_pes
             rem == remainder_neurons(g)
             index == index_within_range(g, pe)
  <1>1. /\ g.total_pes \in Nat \ {0} /\ g.num_neurons \in Nat /\ g.global_neuron_offset \in Nat
        /\ tw_nnodes \in Nat /\ g.initial_pe \in Nat /\ pe \in Nat
    BY GroupRange DEF IsGroup, PEs
  <1>2. per \in Nat /\ rem \in Nat /\ rem = g.num_neurons % g.total_pes
    BY <1>1, Shares DEF remainder_neurons
  <1>3. index \in Int
    BY <1>1 DEF index_within_range
  <1>4. Min({index, rem}) \in Int
    <2> HIDE DEF index, rem
    <2> QED
      BY <1>2, <1>3, MinOfTwo
  <1>5. doryta_id_offset(g, pe) = g.global_neuron_offset + index * per + Min({index, rem})
    BY DEF doryta_id_offset
  <1>6. neurons_in_pe(g, pe) = IF ~ pe_inside_range(g, pe) THEN 0
                               ELSE per + (IF index < rem THEN 1 ELSE 0)
    BY DEF neurons_in_pe
  <1>7. /\ ceil(g.num_neurons, g.total_pes) \in Nat
        /\ per <= ceil(g.num_neurons, g.total_pes)
        /\ rem > 0 => per + 1 <= ceil(g.num_neurons, g.total_pes)
    BY <1>1, <1>2, RoundedUp
  <1>8. pe_inside_range(g, pe) => index \in Nat
    BY IndexOfPE, <1>1
  <1> HIDE DEF per, rem, index
  <1>9. doryta_id_offset(g, pe) \in Int
    <2>1. index * per \in Int
      BY <1>2, <1>3
    <2> QED
      BY <1>1, <1>4, <1>5, <2>1
  <1>10. /\ neurons_in_pe(g, pe) \in Nat
         /\ neurons_in_pe(g, pe) <= ceil(g.num_neurons, g.total_pes)
         /\ neurons_in_pe(g, pe) > 0 => pe_inside_range(g, pe)
    <2>1. CASE ~ pe_inside_range(g, pe)
      BY <1>6, <1>7, <2>1
    <2>2. CASE pe_inside_range(g, pe) /\ index < rem
      BY <1>2, <1>6, <1>7, <1>8, <2>2
    <2>3. CASE pe_inside_range(g, pe) /\ ~ (index < rem)
      BY <1>2, <1>6, <1>7, <2>3
    <2> QED
      BY <2>1, <2>2, <2>3
  <1> QED
    BY <1>7, <1>9, <1>10

Groups == [num_neurons : Nat, initial_pe : PEs, final_pe : PEs, total_pes : Int,
           global_neuron_offset : Nat]

Begins(groups) == Partial(Sizes(groups), Len(groups))   \* where the next group begins
Places(groups, pe) == Partial(Parts(groups, pe), Len(groups))

IsLayout(groups) ==
    /\ groups \in Seq(Groups)
    /\ \A l \in 1 .. Len(groups) :
          IsGroup(groups[l]) /\ groups[l].global_neuron_offset = Begins(groups)[l - 1]

LEMMA BeginsAre ==
    ASSUME NEW groups, groups \in Seq(Groups)
    PROVE  /\ Len(groups) \in Nat /\ DOMAIN groups = 1 .. Len(groups)
           /\ Sizes(groups) \in [1 .. Len(groups) -> Nat]
           /\ Sums(Begins(groups), Len(groups), Sizes(groups))
           /\ TotalNeurons(groups) = Begins(groups)[Len(groups)]
           /\ TotalNeurons(groups) \in Nat
  <1>1. Len(groups) \in Nat /\ DOMAIN groups = 1 .. Len(groups)
    OBVIOUS
  <1>2. \A l \in 1 .. Len(groups) : groups[l].num_neurons \in Nat
    <2>1. \A l \in 1 .. Len(groups) : groups[l] \in Groups
      OBVIOUS
    <2>2. \A g \in Groups : g.num_neurons \in Nat
      BY DEF Groups
    <2> QED
      BY <2>1, <2>2
  <1>3. Sizes(groups) \in [1 .. Len(groups) -> Nat]
    BY <1>2 DEF Sizes
  <1>4. Sums(Begins(groups), Len(groups), Sizes(groups))
    BY <1>1, <1>3, PartialSums DEF Begins
  <1>5. TotalNeurons(groups) = Begins(groups)[Len(groups)]
    BY <1>1, <1>3, TotalIsPartial DEF Begins
  <1>6. Begins(groups)[Len(groups)] \in Nat
    BY <1>1, <1>4 DEF Sums
  <1> QED
    BY <1>1, <1>3, <1>4, <1>5, <1>6

LEMMA EmptyLayout ==
    IsLayout(<<>>)
  BY DEF IsLayout

\* A group that is defined begins where the ones before it end.
LEMMA LayoutGrows ==
    ASSUME NEW groups, IsLayout(groups), NEW size \in Nat, NEW first \in PEs, NEW last \in PEs
    PROVE  IsLayout(Append(groups, neuron_group(groups, size, first, last)))
  <1> DEFINE n   == Len(groups)
             g   == neuron_group(groups, size, first, last)
             new == Append(groups, g)
  <1>1. /\ n \in Nat /\ groups \in Seq(Groups) /\ TotalNeurons(groups) \in Nat
        /\ TotalNeurons(groups) = Begins(groups)[n] /\ Sizes(groups) \in [1 .. n -> Nat]
    BY BeginsAre DEF IsLayout
  <1>2. IsGroup(g)
    BY <1>1, Defined
  <1>3. g \in Groups
    <2>1. first \in Int /\ last \in Int /\ tw_nnodes \in Int
      BY NodesAssumption DEF PEs
    <2> QED
      BY <1>1, <2>1 DEF Groups, neuron_group
  <1>4. g.global_neuron_offset = Begins(groups)[n]
    BY <1>1 DEF neuron_group
  <1> HIDE DEF g
  <1>5. /\ new \in Seq(Groups) /\ Len(new) = n + 1 /\ new[n + 1] = g
        /\ \A l \in 1 .. n : new[l] = groups[l]
    BY <1>1, <1>3
  <1> HIDE DEF new, n
  <1>6. Sizes(new) \in [1 .. n + 1 -> Nat]
    BY <1>5, BeginsAre
  <1>7. ASSUME NEW m \in 0 .. n PROVE Begins(new)[m] = Begins(groups)[m]
    <2> DEFINE f  == Sizes(new)
               f2 == Sizes(groups)
    <2>1. \A k \in 1 .. n : f[k] = f2[k]
      BY <1>1, <1>5 DEF Sizes, n
    <2> HIDE DEF f, f2
    <2>2. Alike(f, f2, n)
      BY <2>1 DEF Alike
    <2>3. Sums(Begins(new), n + 1, f)
      BY <1>5, BeginsAre DEF f
    <2>4. Sums(Begins(groups), n, f2)
      BY <1>1, BeginsAre DEF f2, n
    <2>5. n <= n + 1 /\ n + 1 \in Nat
      BY <1>1
    <2>6. \A k \in 0 .. n : Begins(new)[k] = Begins(groups)[k]
      BY <1>1, <2>2, <2>3, <2>4, <2>5, SumsAgree
    <2> QED
      BY <2>6
  <1>8. ASSUME NEW l \in 1 .. n + 1
        PROVE  IsGroup(new[l]) /\ new[l].global_neuron_offset = Begins(new)[l - 1]
    <2>1. CASE l = n + 1
      <3>1. l - 1 = n /\ n \in 0 .. n
        BY <1>1, <2>1
      <3> QED
        BY <1>2, <1>4, <1>5, <1>7, <2>1, <3>1
    <2>2. CASE l # n + 1
      <3>1. l \in 1 .. n /\ l - 1 \in 0 .. n
        BY <1>1, <2>2
      <3>2. IsGroup(groups[l]) /\ groups[l].global_neuron_offset = Begins(groups)[l - 1]
        BY <3>1 DEF IsLayout, n
      <3> QED
        BY <1>5, <1>7, <3>1, <3>2
    <2> QED
      BY <2>1, <2>2
  <1>9. IsLayout(new)
    BY <1>5, <1>8 DEF IsLayout
  <1> QED
    BY <1>9 DEF new, g

\* What the sums over the groups are for one PE, and that no PE has more than the widest.
LEMMA PlacesAre ==
    ASSUME NEW groups, IsLayout(groups), NEW pe \in PEs
    PROVE  /\ Parts(groups, pe) \in [1 .. Len(groups) -> Nat]
           /\ Sums(Places(groups, pe), Len(groups), Parts(groups, pe))
           /\ \A l \in 1 .. Len(groups) : Parts(groups, pe)[l] = neurons_in_pe(groups[l], pe)
  <1>1. Len(groups) \in Nat
    BY BeginsAre DEF IsLayout
  <1>2. \A l \in 1 .. Len(groups) : neurons_in_pe(groups[l], pe) \in Nat
    BY ShareOfPE DEF IsLayout
  <1>3. Parts(groups, pe) \in [1 .. Len(groups) -> Nat]
    BY <1>2 DEF Parts
  <1>4. Sums(Places(groups, pe), Len(groups), Parts(groups, pe))
    BY <1>1, <1>3, PartialSums DEF Places
  <1> QED
    BY <1>3, <1>4 DEF Parts

LEMMA LocalOffsetIs ==
    ASSUME NEW groups, IsLayout(groups), NEW pe \in PEs, NEW l \in 1 .. Len(groups) + 1
    PROVE  local_offset_for_level_in_pe(groups, pe, l) = Places(groups, pe)[l - 1]
  <1> DEFINE n == Len(groups)
             m == l - 1
             s == SubSeq(groups, 1, m)
             f == Parts(groups, pe)
             f2 == Parts(s, pe)
  <1>1. groups \in Seq(Groups) /\ n \in Nat /\ m \in Nat /\ m <= n
    BY BeginsAre DEF IsLayout
  <1>2. Len(s) = m /\ DOMAIN s = 1 .. m /\ \A k \in 1 .. m : s[k] = groups[k]
    BY <1>1
  <1>3. f \in [1 .. n -> Nat] /\ \A k \in 1 .. n : f[k] = neurons_in_pe(groups[k], pe)
    BY PlacesAre
  <1> HIDE DEF s, m, f
  <1>4. f2 = [k \in 1 .. m |-> neurons_in_pe(s[k], pe)]
    BY <1>2 DEF Parts
  <1> HIDE DEF f2, n
  <1>5. ASSUME NEW k \in 1 .. m PROVE f[k] = f2[k] /\ f2[k] \in Nat
    <2>1. k \in 1 .. n
      BY <1>1
    <2>2. f[k] = neurons_in_pe(groups[k], pe) /\ f[k] \in Nat
      BY <1>3, <2>1
    <2>3. f2[k] = neurons_in_pe(groups[k], pe)
      BY <1>2, <1>4
    <2> QED
      BY <2>2, <2>3
  <1>6. f2 \in [1 .. m -> Nat] /\ Alike(f, f2, m)
    BY <1>4, <1>5 DEF Alike
  <1>7. SumOver(s, LAMBDA g : neurons_in_pe(g, pe)) = Partial(f2, m)[m]
    BY <1>1, <1>2, <1>6, SumOfPartsIsPartial DEF f2
  <1>8. Partial(f2, m)[m] = Partial(f, n)[m]
    BY <1>1, <1>3, <1>6, PartialOfPrefix
  <1>9. local_offset_for_level_in_pe(groups, pe, l) = SumOver(s, LAMBDA g : neurons_in_pe(g, pe))
    BY DEF local_offset_for_level_in_pe, s, m
  <1> QED
    BY <1>7, <1>8, <1>9 DEF Places, f, n, m

LEMMA WithinWidest ==
    ASSUME NEW groups, IsLayout(groups), NEW pe \in PEs
    PROVE  /\ max_num_neurons_per_pe(groups) \in Nat
           /\ Places(groups, pe)[Len(groups)] \in Nat
           /\ Places(groups, pe)[Len(groups)] <= max_num_neurons_per_pe(groups)
  <1> DEFINE n == Len(groups)
             f == Parts(groups, pe)
             h == Widths(groups)
             S == Places(groups, pe)
             T == Partial(h, n)
  <1>1. n \in Nat /\ DOMAIN groups = 1 .. n
    BY BeginsAre DEF IsLayout
  <1>2. /\ f \in [1 .. n -> Nat] /\ Sums(S, n, f)
        /\ \A k \in 1 .. n : f[k] = neurons_in_pe(groups[k], pe)
    BY PlacesAre
  <1>3. ASSUME NEW k \in 1 .. n
        PROVE  /\ h[k] = ceil(groups[k].num_neurons, groups[k].total_pes)
               /\ h[k] \in Nat /\ neurons_in_pe(groups[k], pe) <= h[k]
    <2>1. IsGroup(groups[k])
      BY DEF IsLayout
    <2>2. h[k] = ceil(groups[k].num_neurons, groups[k].total_pes)
      BY DEF Widths
    <2> QED
      BY <2>1, <2>2, ShareOfPE
  <1>4. h \in [1 .. n -> Nat]
    <2>1. h = [k \in 1 .. n |-> h[k]]
      BY DEF Widths
    <2> HIDE DEF h
    <2> QED
      BY <1>3, <2>1
  <1>5. max_num_neurons_per_pe(groups) = T[n]
    BY <1>1, <1>4, WidestIsPartial
  <1> HIDE DEF n, f, h, S
  <1>6. Sums(T, n, h)
    BY <1>1, <1>4, PartialSums
  <1> HIDE DEF T
  <1>7. \A k \in 1 .. n : f[k] <= h[k]
    BY <1>2, <1>3
  <1>8. \A k \in 0 .. n : S[k] <= T[k]
    BY <1>1, <1>2, <1>4, <1>6, <1>7, SumsBounded
  <1>9. S[n] \in Nat /\ T[n] \in Nat /\ n \in 0 .. n
    BY <1>1, <1>2, <1>6 DEF Sums
  <1>10. S[n] <= T[n]
    BY <1>8, <1>9
  <1> QED
    BY <1>5, <1>9, <1>10 DEF S, n

\* The level among whose numbers one is, by the sums of the levels before it.
Levels(n, S, i) == {k \in 1 .. n : i < S[k]}

LEMMA LevelIs ==
    ASSUME NEW n \in Nat, NEW f \in [1 .. n -> Nat], NEW S, Sums(S, n, f),
           NEW l \in 1 .. n, NEW i \in Nat, S[l - 1] <= i, i < S[l]
    PROVE  Levels(n, S, i) # {} /\ Min(Levels(n, S, i)) = l
  <1> DEFINE T == {k \in 1 .. n : i < S[k]}
  <1>1. l \in T
    OBVIOUS
  <1>2. ASSUME NEW k \in T PROVE l <= k
    <2> SUFFICES ASSUME k < l PROVE FALSE
      OBVIOUS
    <2>1. k \in 0 .. n /\ l - 1 \in 0 .. n /\ k <= l - 1 /\ i < S[k]
      OBVIOUS
    <2>2. S[k] <= S[l - 1] /\ S[k] \in Nat /\ S[l - 1] \in Nat
      <3> HIDE DEF T
      <3> QED
        BY <2>1, SumsGrow
    <2> QED
      BY <2>1, <2>2
  <1>3. \A m \in T : (\A k \in T : m <= k) => m = l
    <2>1. T \subseteq Int
      OBVIOUS
    <2> HIDE DEF T
    <2> QED
      BY <1>1, <1>2, <2>1
  <1>4. Min(T) = l
    <2> HIDE DEF T
    <2> QED
      BY <1>1, <1>2, <1>3 DEF Min
  <1> QED
    BY <1>1, <1>4 DEF Levels

LEMMA LevelExists ==
    ASSUME NEW n \in Nat, NEW f \in [1 .. n -> Nat], NEW S, Sums(S, n, f),
           NEW i \in Nat, i < S[n]
    PROVE  \E l \in 1 .. n : S[l - 1] <= i /\ i < S[l]
  <1> DEFINE T == {k \in 0 .. n : i < S[k]}
  <1>1. T \subseteq Nat /\ T # {}
    <2>1. n \in T
      OBVIOUS
    <2> QED
      BY <2>1
  <1>2. PICK l \in T : \A k \in T : l <= k
    <2> HIDE DEF T
    <2> QED
      BY <1>1, Least
  <1>3. l \in 0 .. n /\ i < S[l] /\ l # 0
    BY DEF Sums
  <1>4. l - 1 \in 0 .. n /\ ~ (l <= l - 1) /\ l \in 1 .. n
    BY <1>3
  <1>5. l - 1 \notin T
    <2> HIDE DEF T
    <2> QED
      BY <1>2, <1>4
  <1>6. ~ (i < S[l - 1]) /\ S[l - 1] \in Nat
    BY <1>4, <1>5 DEF Sums
  <1>7. S[l - 1] <= i
    <2> HIDE DEF T
    <2> QED
      BY <1>6
  <1> QED
    BY <1>3, <1>4, <1>7

LEMMA PlacesAreTotal ==
    ASSUME NEW groups, IsLayout(groups), NEW pe \in PEs
    PROVE  /\ total_neurons_in_pe(groups, pe) = Places(groups, pe)[Len(groups)]
           /\ total_neurons_in_pe(groups, pe) \in Nat
  <1>1. Len(groups) \in Nat
    BY BeginsAre DEF IsLayout
  <1>2. Len(groups) + 1 \in 1 .. Len(groups) + 1 /\ (Len(groups) + 1) - 1 = Len(groups)
    BY <1>1
  <1>3. local_offset_for_level_in_pe(groups, pe, Len(groups) + 1)
           = Places(groups, pe)[(Len(groups) + 1) - 1]
    BY <1>2, LocalOffsetIs
  <1>4. Places(groups, pe)[Len(groups)] \in Nat
    BY WithinWidest
  <1> QED
    BY <1>2, <1>3, <1>4 DEF total_neurons_in_pe

\* The i-th neuron of pe, from 0 on, is d, and the conversions agree.
PlacedAt(groups, d, pe, i) ==
    LET gid == pe_gid_offset(groups, pe) + i
    IN  /\ pe \in PEs /\ i \in 0 .. total_neurons_in_pe(groups, pe) - 1
        /\ LocalNeurons(groups, pe)[i + 1] = d
        /\ doryta_id_to_gid(groups, d) = gid
        /\ doryta_id_to_local_id(groups, d) = i
        /\ gid_to_pe(groups, gid) = pe
        /\ gid_to_doryta_id(groups, gid) = d

\* The j-th neuron that a PE has of a group.
LEMMA PlaceInGroup ==
    ASSUME NEW groups, IsLayout(groups), NEW pe \in PEs, NEW l \in 1 .. Len(groups),
           NEW j \in 0 .. neurons_in_pe(groups[l], pe) - 1
    PROVE  LET d == doryta_id_offset(groups[l], pe) + j
               i == Places(groups, pe)[l - 1] + j
           IN  /\ PlacedAt(groups, d, pe, i)
               /\ d \in Nat /\ Begins(groups)[l - 1] <= d /\ d < Begins(groups)[l]
  <1> DEFINE n == Len(groups)
             g == groups[l]
             d == doryta_id_offset(g, pe) + j
             O == Places(groups, pe)
             i == O[l - 1] + j
             B == Begins(groups)
             M == max_num_neurons_per_pe(groups)
             gid == pe * M + i
  <1>1. /\ n \in Nat /\ DOMAIN groups = 1 .. n /\ groups \in Seq(Groups)
        /\ Sizes(groups) \in [1 .. n -> Nat] /\ Sums(B, n, Sizes(groups))
    BY BeginsAre DEF IsLayout
  <1>2. /\ Parts(groups, pe) \in [1 .. n -> Nat] /\ Sums(O, n, Parts(groups, pe))
        /\ Parts(groups, pe)[l] = neurons_in_pe(g, pe)
    BY PlacesAre
  <1>3. M \in Nat /\ O[n] \in Nat /\ O[n] <= M
    BY WithinWidest
  <1>4. IsGroup(g) /\ g.global_neuron_offset = B[l - 1]
    BY DEF IsLayout
  <1>5. neurons_in_pe(g, pe) \in Nat /\ doryta_id_offset(g, pe) \in Int /\ pe_inside_range(g, pe)
    BY <1>4, ShareOfPE
  <1>6. /\ d \in g.global_neuron_offset .. g.global_neuron_offset + g.num_neurons - 1
        /\ group_spot(g, d) = [pe |-> pe, offset |-> j]
    BY <1>4, <1>5, BlockIsSpot
  <1>7. Sizes(groups)[l] = g.num_neurons
    BY DEF Sizes
  <1>8. l - 1 \in 0 .. n /\ l \in 0 .. n /\ n \in 0 .. n /\ l <= n /\ l \in 1 .. n + 1
    BY <1>1
  <1>9. B[l] = B[l - 1] + g.num_neurons /\ B[l - 1] \in Nat /\ g.num_neurons \in Nat
    BY <1>1, <1>4, <1>7 DEF Sums, IsGroup
  <1>10. d \in Nat /\ B[l - 1] <= d /\ d < B[l]
    BY <1>4, <1>6, <1>9
  <1>11. O[l] = O[l - 1] + neurons_in_pe(g, pe) /\ O[l - 1] \in Nat
    BY <1>2, <1>8 DEF Sums
  <1>12. O[l] <= O[n]
    BY <1>1, <1>2, <1>8, SumsGrow
  <1>13. i \in Nat /\ O[l - 1] <= i /\ i < O[l] /\ i < O[n] /\ i < M /\ M \in Nat \ {0}
    BY <1>3, <1>5, <1>11, <1>12
  <1>14. Counted(groups, pe, n)
    BY ShareOfPE DEF IsLayout, Counted
  <1>15. LocalNeurons(groups, pe)[i + 1] = d
    <2>1. Partial(Parts(groups, pe), n) = O
      BY DEF Places
    <2>2. Listed(LocalNeurons(groups, pe), groups, pe, n)
      BY <1>1, <1>14, LocalNeuronsAre
    <2>3. j + 1 \in 1 .. neurons_in_pe(g, pe)
      BY <1>5
    <2>4. LocalNeurons(groups, pe)[O[l - 1] + (j + 1)] = doryta_id_offset(g, pe) + (j + 1) - 1
      BY <2>1, <2>2, <2>3 DEF Listed
    <2>5. O[l - 1] + (j + 1) = i + 1 /\ doryta_id_offset(g, pe) + (j + 1) - 1 = d
      BY <1>5, <1>11
    <2> QED
      BY <2>4, <2>5
  <1>16. \A k \in 1 .. n :
            local_offset_for_level_in_pe(groups, pe, k) = O[k - 1]
            /\ local_offset_for_level_in_pe(groups, pe, k + 1) = O[k]
    <2>1. ASSUME NEW k \in 1 .. n
          PROVE  k \in 1 .. n + 1 /\ k + 1 \in 1 .. n + 1 /\ (k + 1) - 1 = k
      BY <1>1
    <2>2. \A k \in 1 .. n + 1 : local_offset_for_level_in_pe(groups, pe, k) = O[k - 1]
      BY LocalOffsetIs
    <2> QED
      BY <2>1, <2>2
  <1>17. doryta_id_to_gid(groups, d) = gid
    <2>1. Min(Levels(n, B, d)) = l
      <3> HIDE DEF d, B
      <3> QED
        BY <1>1, <1>10, LevelIs
    <2>2. ASSUME NEW k \in 1 .. n
          PROVE  groups[k].global_neuron_offset + groups[k].num_neurons = B[k]
      <3>1. groups[k].global_neuron_offset = B[k - 1] /\ IsGroup(groups[k])
        BY DEF IsLayout
      <3>2. Sizes(groups)[k] = groups[k].num_neurons
        BY DEF Sizes
      <3> QED
        BY <1>1, <3>1, <3>2 DEF Sums
    <2>3. {k \in DOMAIN groups : d < groups[k].global_neuron_offset + groups[k].num_neurons}
             = Levels(n, B, d)
      <3> HIDE DEF d, B, n
      <3> QED
        BY <1>1, <2>2 DEF Levels
    <2>4. local_offset_for_level_in_pe(groups, pe, l) = O[l - 1]
      BY <1>16
    <2>5. doryta_id_to_gid(groups, d) = pe * M + O[l - 1] + j
      <3> DEFINE spot == group_spot(g, d)
      <3>1. doryta_id_to_gid(groups, d)
               = spot.pe * M + local_offset_for_level_in_pe(groups, spot.pe, l) + spot.offset
        <4> HIDE DEF d, B, n
        <4> QED
          BY <2>1, <2>3 DEF doryta_id_to_gid
      <3>2. spot.pe = pe /\ spot.offset = j
        BY <1>6
      <3> HIDE DEF d, M, O, spot
      <3> QED
        BY <2>4, <3>1, <3>2
    <2>6. pe * M \in Int /\ j \in Int
      BY <1>3 DEF PEs
    <2> QED
      BY <1>11, <2>5, <2>6
  <1>18. gid \div M = pe /\ gid % M = i
    <2>1. pe \in Nat /\ i \in 0 .. M - 1
      BY <1>13 DEF PEs
    <2> HIDE DEF M, i
    <2> QED
      BY <1>13, <2>1, QuotientIs
  <1>19. gid_to_pe(groups, gid) = pe
    BY <1>18 DEF gid_to_pe
  <1>20. gid_to_doryta_id(groups, gid) = d
    <2> DEFINE levels == {k \in DOMAIN groups :
                            i < local_offset_for_level_in_pe(groups, pe, k + 1)}
    <2>1. levels = Levels(n, O, i)
      BY <1>1, <1>16 DEF Levels
    <2>2. levels # {} /\ Min(levels) = l
      <3>1. Levels(n, O, i) # {} /\ Min(Levels(n, O, i)) = l
        <4> DEFINE f == Parts(groups, pe)
        <4>1. /\ n \in Nat /\ l \in 1 .. n /\ f \in [1 .. n -> Nat] /\ Sums(O, n, f)
          BY <1>1, <1>2
        <4>2. i \in Nat /\ O[l - 1] <= i /\ i < O[l]
          BY <1>13
        <4> HIDE DEF i, O, n, f
        <4> QED
          BY <4>1, <4>2, LevelIs
      <3> HIDE DEF levels, i, O, n
      <3> QED
        BY <2>1, <3>1
    <2>3. local_offset_for_level_in_pe(groups, pe, l) = O[l - 1]
      BY <1>16
    <2>4. gid_to_doryta_id(groups, gid) = local_id_to_doryta_id_for_pe(groups, i, pe)
      <3> HIDE DEF i, gid
      <3> QED
        BY <1>18, <1>19 DEF gid_to_doryta_id
    <2>5. local_id_to_doryta_id_for_pe(groups, i, pe)
             = doryta_id_offset(g, pe) + i - O[l - 1]
      <3> HIDE DEF i, O
      <3> QED
        BY <2>2, <2>3 DEF local_id_to_doryta_id_for_pe
    <2> HIDE DEF gid
    <2>6. doryta_id_offset(g, pe) + i - O[l - 1] = d
      BY <1>5, <1>11
    <2> QED
      BY <2>4, <2>5, <2>6
  <1>21. pe_gid_offset(groups, pe) = pe * M
    BY DEF pe_gid_offset
  <1>22. doryta_id_to_local_id(groups, d) = i
    <2>1. doryta_id_to_pe(groups, d) = pe
      <3> HIDE DEF d, gid
      <3> QED
        BY <1>17, <1>19 DEF doryta_id_to_pe
    <2>2. doryta_id_to_local_id(groups, d) = gid - pe * M
      <3> HIDE DEF d, gid, M
      <3> QED
        BY <1>17, <1>21, <2>1 DEF doryta_id_to_local_id
    <2>3. pe * M \in Int /\ i \in Int
      BY <1>3, <1>13 DEF PEs
    <2> HIDE DEF M, i
    <2> QED
      BY <2>2, <2>3
  <1>23. i \in 0 .. total_neurons_in_pe(groups, pe) - 1
    <2>1. total_neurons_in_pe(groups, pe) = O[n]
      BY PlacesAreTotal
    <2> QED
      BY <1>3, <1>13, <2>1
  <1>24. PlacedAt(groups, d, pe, i)
    <2> HIDE DEF d, i, M
    <2> QED
      BY <1>15, <1>17, <1>19, <1>20, <1>21, <1>22, <1>23 DEF PlacedAt
  <1> QED
    BY <1>10, <1>24

\* master.c:651-797. Every neuron has a place, and there the conversions lead to it and back.
THEOREM EveryNeuronHasAPlace ==
    ASSUME NEW groups, IsLayout(groups), NEW d \in 0 .. TotalNeurons(groups) - 1
    PROVE  \E pe \in PEs : \E i \in 0 .. total_neurons_in_pe(groups, pe) - 1 :
              PlacedAt(groups, d, pe, i)
  <1> DEFINE n == Len(groups)
             B == Begins(groups)
             f == Sizes(groups)
  <1>1. /\ n \in Nat /\ f \in [1 .. n -> Nat] /\ Sums(B, n, f)
        /\ TotalNeurons(groups) = B[n] /\ TotalNeurons(groups) \in Nat
    BY BeginsAre DEF IsLayout
  <1>2. d \in Nat /\ d < B[n]
    BY <1>1
  <1>3. PICK l \in 1 .. n : B[l - 1] <= d /\ d < B[l]
    <2> HIDE DEF n, B, f
    <2> QED
      BY <1>1, <1>2, LevelExists
  <1> DEFINE g == groups[l]
             spot == group_spot(g, d)
             pe == spot.pe
             j == spot.offset
  <1>4. IsGroup(g) /\ g.global_neuron_offset = B[l - 1] /\ l \in 1 .. Len(groups)
    BY DEF IsLayout
  <1>5. B[l] = B[l - 1] + g.num_neurons /\ B[l - 1] \in Nat /\ g.num_neurons \in Nat
    <2>1. f[l] = g.num_neurons
      BY DEF Sizes
    <2>2. l - 1 \in 0 .. n
      BY <1>1
    <2> HIDE DEF f, B, g, n
    <2> QED
      BY <1>1, <1>4, <2>1, <2>2 DEF Sums, IsGroup
  <1>6. d \in g.global_neuron_offset .. g.global_neuron_offset + g.num_neurons - 1
    BY <1>2, <1>3, <1>4, <1>5
  <1>7. /\ pe \in PEs /\ j \in 0 .. neurons_in_pe(g, pe) - 1
        /\ doryta_id_offset(g, pe) + j = d
    <2> HIDE DEF g
    <2> QED
      BY <1>4, <1>6, SpotIsInBlock
  <1> HIDE DEF pe, j, B, f, n
  <1>8. PlacedAt(groups, d, pe, Places(groups, pe)[l - 1] + j)
    BY <1>4, <1>7, PlaceInGroup
  <1>9. Places(groups, pe)[l - 1] + j \in 0 .. total_neurons_in_pe(groups, pe) - 1
    BY <1>8 DEF PlacedAt
  <1> QED
    BY <1>7, <1>8, <1>9

\* The group whose neuron is the i-th of a PE.
LEMMA GroupOfPlace ==
    ASSUME NEW groups, IsLayout(groups), NEW pe \in PEs,
           NEW i \in 0 .. total_neurons_in_pe(groups, pe) - 1
    PROVE  \E l \in 1 .. Len(groups) : \E j \in 0 .. neurons_in_pe(groups[l], pe) - 1 :
              i = Places(groups, pe)[l - 1] + j
  <1> DEFINE n == Len(groups)
             O == Places(groups, pe)
             f == Parts(groups, pe)
  <1>1. n \in Nat /\ f \in [1 .. n -> Nat] /\ Sums(O, n, f)
    BY BeginsAre, PlacesAre DEF IsLayout
  <1>2. i \in Nat /\ i < O[n]
    BY PlacesAreTotal
  <1>3. PICK l \in 1 .. n : O[l - 1] <= i /\ i < O[l]
    <2> HIDE DEF n, O, f
    <2> QED
      BY <1>1, <1>2, LevelExists
  <1>4. f[l] = neurons_in_pe(groups[l], pe)
    BY PlacesAre
  <1> DEFINE j == i - O[l - 1]
  <1> HIDE DEF O, f
  <1>5. O[l] = O[l - 1] + f[l] /\ O[l - 1] \in Nat /\ f[l] \in Nat
    BY <1>1 DEF Sums
  <1>6. j \in 0 .. neurons_in_pe(groups[l], pe) - 1 /\ i = O[l - 1] + j
    BY <1>2, <1>3, <1>4, <1>5
  <1> HIDE DEF j
  <1> QED
    BY <1>6 DEF O

\* master.c:404-437 against 651-797. Whatever a PE has in its arrays is a neuron of the
\* model, and the conversions lead from that neuron to this PE and place, and back.
THEOREM EveryPlaceHasANeuron ==
    ASSUME NEW groups, IsLayout(groups), NEW pe \in PEs,
           NEW i \in 0 .. total_neurons_in_pe(groups, pe) - 1
    PROVE  /\ PlacedAt(groups, LocalNeurons(groups, pe)[i + 1], pe, i)
           /\ LocalNeurons(groups, pe)[i + 1] \in 0 .. TotalNeurons(groups) - 1
  <1> DEFINE d == LocalNeurons(groups, pe)[i + 1]
  <1>1. PICK l \in 1 .. Len(groups) : \E j \in 0 .. neurons_in_pe(groups[l], pe) - 1 :
           i = Places(groups, pe)[l - 1] + j
    BY GroupOfPlace
  <1>2. PICK j \in 0 .. neurons_in_pe(groups[l], pe) - 1 : i = Places(groups, pe)[l - 1] + j
    BY <1>1
  <1> DEFINE d2 == doryta_id_offset(groups[l], pe) + j
  <1>3. PlacedAt(groups, d2, pe, i) /\ d2 \in Nat /\ d2 < Begins(groups)[l]
    BY <1>2, PlaceInGroup
  <1>4. d2 = d
    <2> HIDE DEF d2
    <2> QED
      BY <1>3 DEF PlacedAt
  <1>5. Begins(groups)[l] <= TotalNeurons(groups) /\ TotalNeurons(groups) \in Nat
        /\ Begins(groups)[l] \in Nat
    <2> DEFINE n == Len(groups)
               B == Begins(groups)
               f == Sizes(groups)
    <2>1. /\ n \in Nat /\ f \in [1 .. n -> Nat] /\ Sums(B, n, f)
          /\ TotalNeurons(groups) = B[n] /\ TotalNeurons(groups) \in Nat
      BY BeginsAre DEF IsLayout
    <2>2. l \in 0 .. n /\ n \in 0 .. n /\ l <= n
      BY <2>1
    <2> HIDE DEF n, B, f
    <2>3. B[l] <= B[n] /\ B[l] \in Nat
      BY <2>1, <2>2, SumsGrow
    <2> QED
      BY <2>1, <2>3 DEF B
  <1> HIDE DEF d2
  <1>6. d2 \in 0 .. TotalNeurons(groups) - 1
    BY <1>3, <1>5
  <1> QED
    BY <1>3, <1>4, <1>6

LEMMA LocalNeuronsAreSeq ==
    ASSUME NEW groups, IsLayout(groups), NEW pe \in PEs
    PROVE  /\ LocalNeurons(groups, pe) \in Seq(Int)
           /\ DOMAIN LocalNeurons(groups, pe) = 1 .. total_neurons_in_pe(groups, pe)
           /\ total_neurons_in_pe(groups, pe) \in Nat
  <1> DEFINE n == Len(groups)
  <1>1. n \in Nat /\ DOMAIN groups = 1 .. n
    BY BeginsAre DEF IsLayout
  <1>2. Counted(groups, pe, n)
    BY ShareOfPE DEF IsLayout, Counted
  <1>3. Listed(LocalNeurons(groups, pe), groups, pe, n)
    BY <1>1, <1>2, LocalNeuronsAre
  <1>4. LocalNeurons(groups, pe) \in Seq(Int) /\ Len(LocalNeurons(groups, pe)) = Places(groups, pe)[n]
    BY <1>3 DEF Listed, Places
  <1> QED
    BY <1>4, PlacesAreTotal

\* load_neurons.c:108-109, 273-274. Within a PE a later place is that of a later neuron.
THEOREM PlacesInOrder ==
    ASSUME NEW groups, IsLayout(groups), NEW pe \in PEs,
           NEW a \in 0 .. total_neurons_in_pe(groups, pe) - 1,
           NEW b \in 0 .. total_neurons_in_pe(groups, pe) - 1, a < b
    PROVE  LocalNeurons(groups, pe)[a + 1] < LocalNeurons(groups, pe)[b + 1]
  <1> DEFINE n == Len(groups)
             O == Places(groups, pe)
             B == Begins(groups)
             L == LocalNeurons(groups, pe)
             Start(l) == doryta_id_offset(groups[l], pe)
  <1>1. PICK l \in 1 .. n : \E j \in 0 .. neurons_in_pe(groups[l], pe) - 1 : a = O[l - 1] + j
    BY GroupOfPlace
  <1>2. PICK j \in 0 .. neurons_in_pe(groups[l], pe) - 1 : a = O[l - 1] + j
    BY <1>1
  <1>3. PICK m \in 1 .. n : \E k \in 0 .. neurons_in_pe(groups[m], pe) - 1 : b = O[m - 1] + k
    BY GroupOfPlace
  <1>4. PICK k \in 0 .. neurons_in_pe(groups[m], pe) - 1 : b = O[m - 1] + k
    BY <1>3
  <1>5. L[a + 1] = Start(l) + j /\ Start(l) + j \in Nat /\ Start(l) + j < B[l]
    BY <1>2, PlaceInGroup DEF PlacedAt
  <1>6. L[b + 1] = Start(m) + k /\ Start(m) + k \in Nat /\ B[m - 1] <= Start(m) + k
    BY <1>4, PlaceInGroup DEF PlacedAt
  <1>7. /\ n \in Nat /\ Sizes(groups) \in [1 .. n -> Nat] /\ Sums(B, n, Sizes(groups))
        /\ Parts(groups, pe) \in [1 .. n -> Nat] /\ Sums(O, n, Parts(groups, pe))
        /\ Parts(groups, pe)[m] = neurons_in_pe(groups[m], pe)
    BY BeginsAre, PlacesAre DEF IsLayout
  <1>8. l \in 0 .. n /\ l - 1 \in 0 .. n /\ m \in 0 .. n /\ m - 1 \in 0 .. n
    BY <1>7
  <1>9. Start(l) \in Int /\ neurons_in_pe(groups[l], pe) \in Nat /\ O[l - 1] \in Nat /\ O[m - 1] \in Nat
    <2>1. IsGroup(groups[l])
      BY DEF IsLayout
    <2> QED
      BY <1>7, <1>8, <2>1, ShareOfPE DEF Sums
  <1> HIDE DEF n, O, B, L, Start
  <1>10. L[a + 1] < L[b + 1]
    <2>1. CASE l = m
      BY <1>2, <1>4, <1>5, <1>6, <1>9, <2>1
    <2>2. CASE l < m
      <3>1. l <= m - 1
        BY <1>8, <2>2
      <3>2. B[l] <= B[m - 1] /\ B[l] \in Nat /\ B[m - 1] \in Nat
        BY <1>7, <1>8, <3>1, SumsGrow
      <3> QED
        BY <1>5, <1>6, <3>2
    <2>3. CASE m < l
      <3>1. m <= l - 1
        BY <1>8, <2>3
      <3>2. O[m] <= O[l - 1] /\ O[m] \in Nat
        BY <1>7, <1>8, <3>1, SumsGrow
      <3>3. O[m] = O[m - 1] + neurons_in_pe(groups[m], pe)
        BY <1>7 DEF Sums
      <3>4. neurons_in_pe(groups[m], pe) \in Nat
        BY <1>7
      <3>5. FALSE
        BY <1>2, <1>4, <1>9, <3>2, <3>3, <3>4
      <3> QED
        BY <3>5
    <2> QED
      BY <1>8, <2>1, <2>2, <2>3
  <1> QED
    BY <1>10 DEF L
-----------------------------------------------------------------------------
(* What the iterator yields.                                                *)

LEMMA EntriesOf ==
    ASSUME NEW V, NEW s \in Seq(V)
    PROVE  Len(s) \in Nat /\ DOMAIN s = 1 .. Len(s) /\ \A i \in DOMAIN s : s[i] \in V
  OBVIOUS

-----------------------------------------------------------------------------
(* Numbers in ascending order.                                              *)

\* k lists the members of S from 1 to m.
Lists(k, S, m, n) ==
    /\ k \in Seq(1 .. n) /\ Len(k) <= m
    /\ \A i \in 1 .. Len(k) : k[i] \in S /\ k[i] <= m
    /\ \A i, j \in 1 .. Len(k) : i < j => k[i] < k[j]
    /\ \A p \in 1 .. m : p \in S => \E i \in 1 .. Len(k) : k[i] = p

With(ids, S, p) == IF p \in S THEN Append(ids, p) ELSE ids

\* What the fold comes to.
Picked(it, S, n) ==
    it = [s \in SUBSET (1 .. n) |-> IF s = {} THEN <<>> ELSE With(it[s \ {Max(s)}], S, Max(s))]

LEMMA PickExists ==
    ASSUME NEW n \in Nat, NEW S
    PROVE  \E it : Picked(it, S, n)
  <1> DEFINE V == Seq(1 .. n)
             step == [p \in (1 .. n) \X V |-> With(p[2], S, p[1])]
  <1>1. step \in [(1 .. n) \X V -> V]
    <2>1. ASSUME NEW p \in 1 .. n, NEW v \in V PROVE With(v, S, p) \in V
      <3>1. Append(v, p) \in V
        OBVIOUS
      <3> HIDE DEF V
      <3> QED
        BY <3>1 DEF With
    <2> HIDE DEF V
    <2> QED
      BY <2>1
  <1>2. PICK it : Folds(it, n, V, <<>>, step)
    <2>1. <<>> \in V
      OBVIOUS
    <2> HIDE DEF step, V
    <2> QED
      BY <1>1, <2>1, FoldExists
  <1>3. it = [s \in SUBSET (1 .. n) |-> it[s]] /\ it \in [SUBSET (1 .. n) -> V]
    BY <1>2 DEF Folds
  <1>4. ASSUME NEW s \in SUBSET (1 .. n)
        PROVE  it[s] = IF s = {} THEN <<>> ELSE With(it[s \ {Max(s)}], S, Max(s))
    <2>1. CASE s = {}
      BY <1>2, <2>1 DEF Folds
    <2>2. CASE s # {}
      <3>1. Max(s) \in 1 .. n /\ s \ {Max(s)} \in SUBSET (1 .. n)
        BY <2>2, MaxIs
      <3>2. it[s \ {Max(s)}] \in V
        BY <1>3, <3>1
      <3> HIDE DEF V
      <3>3. step[<<Max(s), it[s \ {Max(s)}]>>] = With(it[s \ {Max(s)}], S, Max(s))
        BY <3>1, <3>2
      <3> QED
        BY <1>2, <2>2, <3>3 DEF Folds
    <2> QED
      BY <2>1, <2>2
  <1>5. Picked(it, S, n)
    BY <1>3, <1>4, Zenon DEF Picked
  <1> QED
    BY <1>5

LEMMA OneMorePicked ==
    ASSUME NEW n \in Nat, NEW S, NEW m \in Nat, m + 1 <= n, NEW k, Lists(k, S, m, n)
    PROVE  Lists(With(k, S, m + 1), S, m + 1, n)
  <1>1. k \in Seq(1 .. n) /\ Len(k) \in Nat /\ Len(k) <= m /\ m + 1 \in 1 .. n
    BY DEF Lists
  <1>2. CASE m + 1 \notin S
    <2>1. With(k, S, m + 1) = k
      BY <1>2 DEF With
    <2>2. \A p \in 1 .. m + 1 : p \in S => p \in 1 .. m
      BY <1>2
    <2>3. \A i \in 1 .. Len(k) : k[i] \in 1 .. n
      BY <1>1
    <2> QED
      BY <1>1, <2>1, <2>2, <2>3 DEF Lists
  <1>3. CASE m + 1 \in S
    <2> DEFINE k2 == Append(k, m + 1)
               len == Len(k)
    <2>1. With(k, S, m + 1) = k2
      BY <1>3 DEF With
    <2>2. /\ k2 \in Seq(1 .. n) /\ Len(k2) = len + 1 /\ k2[len + 1] = m + 1
          /\ \A i \in 1 .. len : k2[i] = k[i] /\ k[i] \in 1 .. n
      BY <1>1
    <2> HIDE DEF k2
    <2>3. ASSUME NEW i \in 1 .. Len(k2) PROVE k2[i] \in S /\ k2[i] <= m + 1
      <3>1. i \in 1 .. len \/ i = len + 1
        BY <1>1, <2>2
      <3>2. i \in 1 .. len => k2[i] \in S /\ k2[i] <= m /\ k2[i] \in Int
        BY <2>2 DEF Lists
      <3> QED
        BY <1>3, <2>2, <3>1, <3>2
    <2>4. ASSUME NEW i \in 1 .. Len(k2), NEW j \in 1 .. Len(k2), i < j PROVE k2[i] < k2[j]
      <3>0. len \in Nat /\ Len(k2) = len + 1
        BY <1>1, <2>2
      <3>1. i \in 1 .. len /\ (j \in 1 .. len \/ j = len + 1)
        <4> HIDE DEF len
        <4> QED
          BY <2>4, <3>0
      <3>2. k2[i] <= m /\ k2[i] \in Int
        <4>1. k2[i] = k[i] /\ k[i] \in 1 .. n /\ k[i] <= m
          BY <2>2, <3>1 DEF Lists
        <4> QED
          BY <4>1
      <3>3. j \in 1 .. len => k2[i] < k2[j]
        BY <2>2, <2>4, <3>1 DEF Lists
      <3> QED
        BY <2>2, <3>1, <3>2, <3>3
    <2>5. ASSUME NEW p \in 1 .. m + 1, p \in S PROVE \E i \in 1 .. Len(k2) : k2[i] = p
      <3>1. CASE p = m + 1
        <4>1. len + 1 \in 1 .. Len(k2)
          BY <1>1, <2>2
        <4> QED
          BY <2>2, <3>1, <4>1
      <3>2. CASE p # m + 1
        <4>1. PICK i \in 1 .. len : k[i] = p
          BY <2>5, <3>2 DEF Lists
        <4>2. i \in 1 .. Len(k2)
          BY <1>1, <2>2
        <4> QED
          BY <2>2, <4>1, <4>2
      <3> QED
        BY <3>1, <3>2
    <2>6. Len(k2) <= m + 1
      BY <1>1, <2>2
    <2>7. Lists(k2, S, m + 1, n)
      BY <2>2, <2>3, <2>4, <2>5, <2>6 DEF Lists
    <2> QED
      BY <2>1, <2>7
  <1> QED
    BY <1>2, <1>3

LEMMA AscendingLists ==
    ASSUME NEW n \in Nat, NEW S
    PROVE  Lists(Ascending(S, n), S, n, n)
  <1> DEFINE seq == [p \in 1 .. n |-> p]
             Step(it) == [s \in SUBSET DOMAIN seq |->
                            IF s = {} THEN <<>>
                            ELSE IF seq[Max(s)] \in S THEN Append(it[s \ {Max(s)}], seq[Max(s)])
                                 ELSE it[s \ {Max(s)}]]
             list == CHOOSE it : it = Step(it)
  <1>1. Ascending(S, n) = list[1 .. n]
    BY DEF Ascending, FoldLeft, MapThenFoldSet
  <1>2. ASSUME NEW it
        PROVE  Step(it) = [s \in SUBSET (1 .. n) |->
                             IF s = {} THEN <<>> ELSE With(it[s \ {Max(s)}], S, Max(s))]
    <2>1. \A s \in SUBSET (1 .. n) : s # {} => seq[Max(s)] = Max(s)
      BY MaxIs
    <2>2. DOMAIN seq = 1 .. n
      OBVIOUS
    <2> HIDE DEF seq
    <2> QED
      BY <2>1, <2>2 DEF With
  <1>3. \A it : it = Step(it) <=> Picked(it, S, n)
    <2> HIDE DEF Step
    <2> QED
      BY <1>2 DEF Picked
  <1>4. Picked(list, S, n)
    <2> HIDE DEF Step
    <2> QED
      BY <1>3, PickExists
  <1> HIDE DEF list
  <1> DEFINE P == {k \in Nat : k <= n => Lists(list[1 .. k], S, k, n)}
  <1>5. 0 \in P
    <2>1. list[1 .. 0] = <<>>
      <3>1. 1 .. 0 = {} /\ {} \in SUBSET (1 .. n)
        OBVIOUS
      <3>2. list[{}] = <<>>
        BY <1>4, <3>1 DEF Picked
      <3> QED
        BY <3>1, <3>2
    <2>2. Lists(<<>>, S, 0, n)
      BY DEF Lists
    <2> QED
      BY <2>1, <2>2
  <1>6. ASSUME NEW k \in Nat, k \in P, k + 1 <= n PROVE Lists(list[1 .. k + 1], S, k + 1, n)
    <2>1. Max(1 .. k + 1) = k + 1 /\ (1 .. k + 1) \ {k + 1} = 1 .. k /\ 1 .. k + 1 # {}
      <3>1. k + 1 \in Nat \ {0} /\ (k + 1) - 1 = k
        OBVIOUS
      <3>2. Max(1 .. k + 1) = k + 1 /\ (1 .. k + 1) \ {k + 1} = 1 .. (k + 1) - 1 /\ 1 .. k + 1 # {}
        BY <3>1, MaxOfAll
      <3> QED
        BY <3>1, <3>2
    <2>2. 1 .. k + 1 \in SUBSET (1 .. n)
      BY <1>6
    <2>3. list[1 .. k + 1] = With(list[1 .. k], S, k + 1)
      <3>1. \A s \in SUBSET (1 .. n) : s # {} => list[s] = With(list[s \ {Max(s)}], S, Max(s))
        BY <1>4 DEF Picked
      <3> QED
        BY <2>1, <2>2, <3>1
    <2>4. Lists(list[1 .. k], S, k, n)
      BY <1>6
    <2> QED
      BY <1>6, <2>3, <2>4, OneMorePicked
  <1>7. \A k \in Nat : k \in P
    <2>1. ASSUME NEW k \in Nat, k \in P PROVE k + 1 \in P
      <3>1. k + 1 <= n => Lists(list[1 .. k + 1], S, k + 1, n)
        BY <1>6, <2>1
      <3> QED
        BY <3>1
    <2> HIDE DEF P
    <2> QED
      BY <1>5, <2>1, Induction
  <1>8. Lists(list[1 .. n], S, n, n)
    <2>1. n \in P
      <3> HIDE DEF P
      <3> QED
        BY <1>7
    <2> QED
      BY <2>1
  <1> QED
    BY <1>1, <1>8

-----------------------------------------------------------------------------
(* What leaves one neuron.                                                  *)

LEMMA Ceiling ==
    ASSUME NEW x \in Int, NEW y \in Nat \ {0}
    PROVE  LET c == divceil_i32(x, y) IN c \in Int /\ c * y - y < x /\ x <= c * y
  <1> DEFINE q == (-x) \div y
             r == (-x) % y
             c == -q
  <1>1. q \in Int /\ r \in 0 .. y - 1 /\ -x = y * q + r
    OBVIOUS
  <1>2. divceil_i32(x, y) = c
    BY DEF divceil_i32
  <1> HIDE DEF q, r
  <1>3. c \in Int /\ x = c * y - r
    BY <1>1
  <1> HIDE DEF c
  <1>4. c * y \in Int
    BY <1>3
  <1> QED
    BY <1>1, <1>2, <1>3, <1>4

LEMMA CeilingGrows ==
    ASSUME NEW x \in Int, NEW z \in Int, x <= z, NEW y \in Nat \ {0}
    PROVE  divceil_i32(x, y) <= divceil_i32(z, y)
  <1> DEFINE c == divceil_i32(x, y)
             e == divceil_i32(z, y)
  <1>1. c \in Int /\ c * y - y < x /\ e \in Int /\ z <= e * y
    BY Ceiling
  <1> HIDE DEF c, e
  <1>2. c * y \in Int /\ e * y \in Int
    BY <1>1
  <1>3. e < c => e * y + y <= c * y
    BY <1>1, Grows
  <1>4. c <= e
    BY <1>1, <1>2, <1>3
  <1> QED
    BY <1>4 DEF c, e

\* Along an axis: the cell that the kernel comes to, and how many kernel positions there are.
LEMMA AlongAxis ==
    ASSUME NEW position \in Nat, NEW kernel \in Nat \ {0}, NEW stride \in Nat \ {0},
           NEW padding \in Nat
    PROVE  LET axis == Axis(position, kernel, stride, padding)
           IN  /\ axis.mod_stride \in 0 .. stride - 1 /\ axis.last \in Nat
               /\ position + padding = stride * axis.last + axis.mod_stride
               /\ axis.synapses \in Nat
               /\ axis.synapses * stride - stride < kernel - axis.mod_stride
               /\ kernel - axis.mod_stride <= axis.synapses * stride
               /\ axis.synapses <= divceil_i32(kernel, stride)
               /\ divceil_i32(kernel, stride) \in Nat \ {0}
  <1> DEFINE m == (position + padding) % stride
             c == divceil_i32(kernel - m, stride)
             l == (position + padding) \div stride
  <1>1. Axis(position, kernel, stride, padding) = [mod_stride |-> m, synapses |-> c, last |-> l]
    BY DEF Axis
  <1>2. m \in 0 .. stride - 1 /\ l \in Nat /\ position + padding = stride * l + m
    <2>1. position + padding \in Nat
      OBVIOUS
    <2> DEFINE a == position + padding
    <2> HIDE DEF a
    <2>2. a \in Nat => a \div stride \in Nat /\ a % stride \in 0 .. stride - 1
                       /\ a = stride * (a \div stride) + (a % stride)
      BY Quotient
    <2> QED
      BY <2>1, <2>2 DEF a
  <1> HIDE DEF m, l
  <1>3. c \in Int /\ c * stride - stride < kernel - m /\ kernel - m <= c * stride
    BY <1>2, Ceiling
  <1>4. c <= divceil_i32(kernel, stride)
    BY <1>2, CeilingGrows
  <1>5. divceil_i32(kernel, stride) \in Int /\ kernel <= divceil_i32(kernel, stride) * stride
    BY Ceiling
  <1> HIDE DEF c
  <1>6. c >= 0
    <2> SUFFICES ASSUME c < 0 PROVE FALSE
      BY <1>3
    <2>1. c * stride + stride <= 0 * stride
      BY <1>3, Grows
    <2>2. c * stride \in Int
      BY <1>3
    <2> QED
      BY <1>2, <1>3, <2>1, <2>2
  <1>7. divceil_i32(kernel, stride) > 0
    <2> DEFINE e == divceil_i32(kernel, stride)
    <2>1. e \in Int /\ kernel <= e * stride
      BY <1>5
    <2> HIDE DEF e
    <2> SUFFICES ASSUME e <= 0 PROVE FALSE
      BY <2>1 DEF e
    <2>2. e * stride <= 0
      BY <2>1
    <2>3. e * stride \in Int
      BY <2>1
    <2> QED
      BY <2>1, <2>2, <2>3
  <1> QED
    BY <1>1, <1>2, <1>3, <1>4, <1>5, <1>6, <1>7

LEMMA ProductGrows ==
    ASSUME NEW a \in Nat, NEW b \in Nat, NEW c \in Nat, NEW e \in Nat, a <= c, b <= e
    PROVE  a * b \in Nat /\ c * e \in Nat /\ a * b <= c * e
  <1>1. a * b <= c * b
    OBVIOUS
  <1>2. c * b <= c * e
    OBVIOUS
  <1> QED
    BY <1>1, <1>2

\* A synapse group that the checks have let pass.
IsConnection(g) ==
    /\ g.from_start \in Int /\ g.from_end \in Int /\ g.to_start \in Int /\ g.to_end \in Int
    /\ g.from_start <= g.from_end /\ g.to_start <= g.to_end
    /\ g.conn_type # "all2all" =>
          /\ g.conn_type = "conv2" /\ g.params \in Conv2dParams /\ check_params(g.params)
          /\ g.to_width \in Int /\ g.to_height \in Int /\ ShapesMatch(g)

Connections == [to : Int, conn_parameter : Int]

\* The two axes of a convolution, for one of its input cells.
AxisX(g, d) == Axis((d - g.from_start) \div g.params.input_width, g.params.kernel_height,
                    g.params.stride_height, g.params.padding_height)
AxisY(g, d) == Axis((d - g.from_start) % g.params.input_width, g.params.kernel_width,
                    g.params.stride_width, g.params.padding_width)
Columns(g, d) == IF AxisY(g, d).synapses > 0 THEN AxisY(g, d).synapses ELSE 1

LEMMA AxesOf ==
    ASSUME NEW g, IsConnection(g), g.conn_type = "conv2", NEW d \in Int, g.from_start <= d
    PROVE  LET c == g.params
               x == (d - g.from_start) \div c.input_width
               y == (d - g.from_start) % c.input_width
           IN  /\ x \in Nat /\ y \in 0 .. c.input_width - 1 /\ d - g.from_start = c.input_width * x + y
               /\ c.input_width \in Nat \ {0}
               /\ c.kernel_height \in Nat \ {0} /\ c.stride_height \in Nat \ {0}
               /\ c.padding_height \in Nat
               /\ c.kernel_width \in Nat \ {0} /\ c.stride_width \in Nat \ {0}
               /\ c.padding_width \in Nat
  <1> DEFINE c == g.params
             a == d - g.from_start
  <1>1. c \in Conv2dParams /\ check_params(c)
    BY DEF IsConnection
  <1>2. /\ c.input_width \in Nat \ {0}
        /\ c.kernel_height \in Nat \ {0} /\ c.stride_height \in Nat \ {0}
        /\ c.padding_height \in Nat
        /\ c.kernel_width \in Nat \ {0} /\ c.stride_width \in Nat \ {0}
        /\ c.padding_width \in Nat
    <2> HIDE DEF c
    <2> QED
      BY <1>1 DEF Conv2dParams, check_params
  <1>3. a \in Nat
    BY DEF IsConnection
  <1> HIDE DEF c, a
  <1>4. /\ a \div c.input_width \in Nat /\ a % c.input_width \in 0 .. c.input_width - 1
        /\ a = c.input_width * (a \div c.input_width) + (a % c.input_width)
    BY <1>2, <1>3, Quotient
  <1> QED
    BY <1>2, <1>4 DEF c, a

\* What holds of an axis of a convolution.
OnAxis(axis, position, kernel, stride, padding) ==
    /\ axis.mod_stride \in 0 .. stride - 1 /\ axis.last \in Nat /\ axis.synapses \in Nat
    /\ position + padding = stride * axis.last + axis.mod_stride
    /\ axis.synapses * stride - stride < kernel - axis.mod_stride
    /\ kernel - axis.mod_stride <= axis.synapses * stride
    /\ axis.synapses <= divceil_i32(kernel, stride)
    /\ divceil_i32(kernel, stride) \in Nat \ {0}

LEMMA AxesAre ==
    ASSUME NEW g, IsConnection(g), g.conn_type = "conv2", NEW d \in Int, g.from_start <= d
    PROVE  /\ OnAxis(AxisX(g, d), (d - g.from_start) \div g.params.input_width,
                     g.params.kernel_height, g.params.stride_height, g.params.padding_height)
           /\ OnAxis(AxisY(g, d), (d - g.from_start) % g.params.input_width,
                     g.params.kernel_width, g.params.stride_width, g.params.padding_width)
  <1>1. ASSUME NEW position \in Nat, NEW kernel \in Nat \ {0}, NEW stride \in Nat \ {0},
               NEW padding \in Nat
        PROVE  OnAxis(Axis(position, kernel, stride, padding), position, kernel, stride, padding)
    <2> DEFINE axis == Axis(position, kernel, stride, padding)
    <2>1. /\ axis.mod_stride \in 0 .. stride - 1 /\ axis.last \in Nat
          /\ position + padding = stride * axis.last + axis.mod_stride
          /\ axis.synapses \in Nat
          /\ axis.synapses * stride - stride < kernel - axis.mod_stride
          /\ kernel - axis.mod_stride <= axis.synapses * stride
          /\ axis.synapses <= divceil_i32(kernel, stride)
          /\ divceil_i32(kernel, stride) \in Nat \ {0}
      BY AlongAxis
    <2> HIDE DEF axis
    <2>2. OnAxis(axis, position, kernel, stride, padding)
      BY <2>1 DEF OnAxis
    <2> QED
      BY <2>2 DEF axis
  <1> DEFINE c == g.params
             x == (d - g.from_start) \div c.input_width
             y == (d - g.from_start) % c.input_width
  <1>2. /\ x \in Nat /\ y \in Nat
        /\ c.kernel_height \in Nat \ {0} /\ c.stride_height \in Nat \ {0}
        /\ c.padding_height \in Nat
        /\ c.kernel_width \in Nat \ {0} /\ c.stride_width \in Nat \ {0}
        /\ c.padding_width \in Nat
    BY AxesOf
  <1>3. /\ AxisX(g, d) = Axis(x, c.kernel_height, c.stride_height, c.padding_height)
        /\ AxisY(g, d) = Axis(y, c.kernel_width, c.stride_width, c.padding_width)
    BY DEF AxisX, AxisY
  <1> HIDE DEF c, x, y
  <1>4. /\ OnAxis(AxisX(g, d), x, c.kernel_height, c.stride_height, c.padding_height)
        /\ OnAxis(AxisY(g, d), y, c.kernel_width, c.stride_width, c.padding_width)
    BY <1>1, <1>2, <1>3
  <1> QED
    BY <1>4 DEF c, x, y

LEMMA ConvolutionIds ==
    ASSUME NEW g, IsConnection(g), g.conn_type = "conv2", NEW d \in Int, g.from_start <= d
    PROVE  /\ conv2d_ids(g, d) \in Seq(Connections)
           /\ Len(conv2d_ids(g, d)) \in Nat
           /\ SynapsesPerNeuron(g) \in Nat
           /\ Len(conv2d_ids(g, d)) <= SynapsesPerNeuron(g)
  <1> DEFINE c == g.params
             axis_x == AxisX(g, d)
             axis_y == AxisY(g, d)
             columns == Columns(g, d)
             x(p)    == Covering(axis_x, c.stride_height, (p - 1) \div columns)
             y(p)    == Covering(axis_y, c.stride_width, (p - 1) % columns)
             size    == axis_x.synapses * columns
             inside  == {p \in 1 .. size : /\ x(p).output \in 0 .. g.to_height - 1
                                           /\ y(p).output \in 0 .. g.to_width - 1}
             kept    == Ascending(inside, size)
             To(p)   == g.to_start + g.to_width * x(p).output + y(p).output
             At(p)   == x(p).kernel * c.kernel_width + y(p).kernel
             ids     == [i \in DOMAIN kept |-> [to |-> To(kept[i]), conn_parameter |-> At(kept[i])]]
  <1>1. conv2d_ids(g, d) = ids
    BY DEF conv2d_ids, AxisX, AxisY, Columns
  <1>2. /\ c.kernel_width \in Int /\ c.stride_height \in Int /\ c.stride_width \in Int
        /\ g.to_start \in Int /\ g.to_width \in Int
    BY AxesOf DEF IsConnection
  <1>3. /\ axis_x.mod_stride \in Int /\ axis_x.last \in Int /\ axis_x.synapses \in Nat
        /\ axis_x.synapses <= divceil_i32(c.kernel_height, c.stride_height)
        /\ divceil_i32(c.kernel_height, c.stride_height) \in Nat
    <2> HIDE DEF axis_x, axis_y
    <2>1. OnAxis(axis_x, (d - g.from_start) \div c.input_width,
                 c.kernel_height, c.stride_height, c.padding_height)
      BY AxesAre DEF axis_x
    <2> QED
      BY <2>1 DEF OnAxis
  <1>4. /\ axis_y.mod_stride \in Int /\ axis_y.last \in Int /\ axis_y.synapses \in Nat
        /\ axis_y.synapses <= divceil_i32(c.kernel_width, c.stride_width)
        /\ divceil_i32(c.kernel_width, c.stride_width) \in Nat \ {0}
    <2> HIDE DEF axis_x, axis_y
    <2>1. OnAxis(axis_y, (d - g.from_start) % c.input_width,
                 c.kernel_width, c.stride_width, c.padding_width)
      BY AxesAre DEF axis_y
    <2> QED
      BY <2>1 DEF OnAxis
  <1>5. columns \in Nat \ {0} /\ columns <= divceil_i32(c.kernel_width, c.stride_width)
    <2> HIDE DEF c
    <2> QED
      BY <1>4 DEF Columns
  <1> HIDE DEF columns, axis_x, axis_y
  <1>6. size \in Nat
    BY <1>3, <1>5
  <1>7. Lists(kept, inside, size, size)
    <2> HIDE DEF size, inside
    <2> QED
      BY <1>6, AscendingLists
  <1>8. ASSUME NEW p \in 1 .. size PROVE To(p) \in Int /\ At(p) \in Int
    <2> HIDE DEF c
    <2>1. (p - 1) \div columns \in Int /\ (p - 1) % columns \in Int
      BY <1>5, <1>6
    <2>2. \A k \in Int : /\ Covering(axis_x, c.stride_height, k).output \in Int
                         /\ Covering(axis_x, c.stride_height, k).kernel \in Int
                         /\ Covering(axis_y, c.stride_width, k).output \in Int
                         /\ Covering(axis_y, c.stride_width, k).kernel \in Int
      BY <1>2, <1>3, <1>4 DEF Covering
    <2>3. x(p).output \in Int /\ x(p).kernel \in Int /\ y(p).output \in Int /\ y(p).kernel \in Int
      BY <2>1, <2>2
    <2> HIDE DEF x, y
    <2> QED
      BY <1>2, <2>3
  <1> HIDE DEF To, At, inside, kept
  <1>9. kept \in Seq(1 .. size) /\ Len(kept) \in Nat /\ Len(kept) <= size
    <2> HIDE DEF size
    <2> QED
      BY <1>7 DEF Lists
  <1> HIDE DEF size
  <1>10. ids \in Seq(Connections) /\ Len(ids) = Len(kept)
    <2>0. DOMAIN kept = 1 .. Len(kept)
      BY <1>9
    <2>1. \A i \in DOMAIN kept : kept[i] \in 1 .. size
      BY <1>9, EntriesOf
    <2>2. \A i \in DOMAIN kept : [to |-> To(kept[i]), conn_parameter |-> At(kept[i])] \in Connections
      BY <1>8, <2>0, <2>1 DEF Connections
    <2> QED
      BY <1>9, <2>0, <2>1, <2>2
  <1>11. SynapsesPerNeuron(g) = divceil_i32(c.kernel_width, c.stride_width)
                                   * divceil_i32(c.kernel_height, c.stride_height)
    BY DEF SynapsesPerNeuron
  <1>12. size <= SynapsesPerNeuron(g) /\ SynapsesPerNeuron(g) \in Nat
    <2> DEFINE cw == divceil_i32(c.kernel_width, c.stride_width)
               ch == divceil_i32(c.kernel_height, c.stride_height)
               sx == axis_x.synapses
    <2>1. sx \in Nat /\ columns \in Nat /\ cw \in Nat /\ ch \in Nat /\ sx <= ch /\ columns <= cw
      BY <1>3, <1>4, <1>5
    <2> HIDE DEF cw, ch, sx
    <2>2. sx * columns <= ch * cw /\ ch * cw \in Nat /\ ch * cw = cw * ch
      BY <2>1, ProductGrows
    <2> QED
      BY <1>11, <2>2 DEF cw, ch, sx, size
  <1> QED
    BY <1>1, <1>6, <1>9, <1>10, <1>12

LEMMA EveryIds ==
    ASSUME NEW g, IsConnection(g), g.conn_type = "all2all", NEW conn_parameter \in Int
    PROVE  /\ all2all_ids(g, conn_parameter) \in Seq(Connections)
           /\ Len(all2all_ids(g, conn_parameter)) = SynapsesPerNeuron(g)
           /\ SynapsesPerNeuron(g) \in Nat
  <1> DEFINE n == g.to_end - g.to_start + 1
  <1>1. n \in Nat /\ g.to_start \in Int /\ SynapsesPerNeuron(g) = n
    BY DEF IsConnection, SynapsesPerNeuron
  <1>2. all2all_ids(g, conn_parameter)
           = [i \in 1 .. n |-> [to |-> g.to_start + i - 1, conn_parameter |-> conn_parameter]]
    BY DEF all2all_ids
  <1>3. \A i \in 1 .. n :
           [to |-> g.to_start + i - 1, conn_parameter |-> conn_parameter] \in Connections
    BY <1>1 DEF Connections
  <1> HIDE DEF n
  <1> QED
    BY <1>1, <1>2, <1>3

\* What the iterator has after one more group, given what it had before.
Joins(ids, g, d) ==
    IF ~ InFrom(g, d) THEN ids
    ELSE ids \o (IF g.conn_type = "conv2" THEN conv2d_ids(g, d)
                 ELSE all2all_ids(g, IF ids = <<>> THEN -1 ELSE Last(ids).conn_parameter))

\* The room there is for the synapses of d that a group asks for.
Share(g, d) == IF InFrom(g, d) THEN SynapsesPerNeuron(g) ELSE 0

LEMMA PutTogether ==
    ASSUME NEW V, NEW s \in Seq(V), NEW t \in Seq(V)
    PROVE  s \o t \in Seq(V) /\ Len(s \o t) = Len(s) + Len(t)
  OBVIOUS

LEMMA JoinsAre ==
    ASSUME NEW g, IsConnection(g), NEW d \in Int, NEW ids \in Seq(Connections)
    PROVE  /\ Joins(ids, g, d) \in Seq(Connections)
           /\ SynapsesPerNeuron(g) \in Nat
           /\ Len(Joins(ids, g, d)) <= Len(ids) + Share(g, d)
  <1> DEFINE last == IF ids = <<>> THEN -1 ELSE Last(ids).conn_parameter
             new  == IF g.conn_type = "conv2" THEN conv2d_ids(g, d) ELSE all2all_ids(g, last)
  <1>1. last \in Int
    <2> SUFFICES ASSUME ids # <<>> PROVE Last(ids).conn_parameter \in Int
      OBVIOUS
    <2>1. Len(ids) \in DOMAIN ids /\ Last(ids) = ids[Len(ids)]
      BY DEF Last
    <2>2. Last(ids) \in Connections
      BY <2>1, EntriesOf
    <2> QED
      BY <2>2 DEF Connections
  <1>2. g.conn_type = "all2all" \/ g.conn_type = "conv2"
    BY DEF IsConnection
  <1>3. ASSUME InFrom(g, d)
        PROVE  /\ new \in Seq(Connections) /\ Len(new) \in Nat
               /\ SynapsesPerNeuron(g) \in Nat /\ Len(new) <= SynapsesPerNeuron(g)
    <2>1. CASE g.conn_type = "conv2"
      <3>1. g.from_start <= d
        BY <1>3 DEF InFrom
      <3> QED
        BY <2>1, <3>1, ConvolutionIds
    <2>2. CASE g.conn_type = "all2all"
      <3>1. new = all2all_ids(g, last)
        BY <2>2
      <3> HIDE DEF last, new
      <3> QED
        BY <1>1, <2>2, <3>1, EveryIds
    <2> QED
      BY <1>2, <2>1, <2>2
  <1>4. SynapsesPerNeuron(g) \in Nat
    <2>1. CASE g.conn_type = "conv2"
      <3>1. g.from_start \in Int /\ g.from_start <= g.from_start
        BY DEF IsConnection
      <3> QED
        BY <2>1, <3>1, ConvolutionIds
    <2>2. CASE g.conn_type = "all2all"
      BY <2>2, EveryIds, 0 \in Int
    <2> QED
      BY <1>2, <2>1, <2>2
  <1>5. Len(ids) \in Nat
    OBVIOUS
  <1>6. CASE InFrom(g, d)
    <2>1. Joins(ids, g, d) = ids \o new
      BY <1>6 DEF Joins
    <2> HIDE DEF new
    <2>2. new \in Seq(Connections) /\ Len(new) \in Nat /\ Len(new) <= SynapsesPerNeuron(g)
      BY <1>3, <1>6
    <2>3. ids \o new \in Seq(Connections) /\ Len(ids \o new) = Len(ids) + Len(new)
      BY <2>2, PutTogether
    <2>4. Share(g, d) = SynapsesPerNeuron(g)
      BY <1>6 DEF Share
    <2> QED
      BY <1>4, <1>5, <2>1, <2>2, <2>3, <2>4
  <1>7. CASE ~ InFrom(g, d)
    BY <1>4, <1>5, <1>7 DEF Joins, Share
  <1> QED
    BY <1>6, <1>7

\* The iterator, group after group.
Gathers(acc, gs, d, n) ==
    /\ acc \in [0 .. n -> Seq(Connections)]
    /\ acc[0] = <<>>
    /\ \A k \in 1 .. n : acc[k] = Joins(acc[k - 1], gs[k], d)

Iterated(it, gs, d) ==
    it = [s \in SUBSET DOMAIN gs |->
            IF s = {} THEN <<>> ELSE Joins(it[s \ {Max(s)}], gs[Max(s)], d)]

AreConnections(gs, n) ==
    n \in Nat /\ DOMAIN gs = 1 .. n /\ Len(gs) = n /\ \A k \in 1 .. n : IsConnection(gs[k])

LEMMA IteratedExists ==
    ASSUME NEW gs, NEW n, AreConnections(gs, n), NEW d \in Int
    PROVE  \E it : Iterated(it, gs, d)
  <1> DEFINE V == Seq(Connections)
             step == [p \in (1 .. n) \X V |-> Joins(p[2], gs[p[1]], d)]
  <1>0. n \in Nat /\ DOMAIN gs = 1 .. n
    BY DEF AreConnections
  <1>1. step \in [(1 .. n) \X V -> V]
    <2>1. ASSUME NEW p \in 1 .. n, NEW v \in V PROVE Joins(v, gs[p], d) \in V
      <3>1. IsConnection(gs[p])
        BY DEF AreConnections
      <3> QED
        BY <3>1, JoinsAre
    <2> HIDE DEF V
    <2> QED
      BY <2>1
  <1>2. PICK it : Folds(it, n, V, <<>>, step)
    <2>1. <<>> \in V
      OBVIOUS
    <2> HIDE DEF step, V
    <2> QED
      BY <1>0, <1>1, <2>1, FoldExists
  <1>3. it = [s \in SUBSET (1 .. n) |-> it[s]] /\ it \in [SUBSET (1 .. n) -> V]
    BY <1>2 DEF Folds
  <1>4. ASSUME NEW s \in SUBSET (1 .. n)
        PROVE  it[s] = IF s = {} THEN <<>> ELSE Joins(it[s \ {Max(s)}], gs[Max(s)], d)
    <2>1. CASE s = {}
      BY <1>2, <2>1 DEF Folds
    <2>2. CASE s # {}
      <3>1. Max(s) \in 1 .. n /\ s \ {Max(s)} \in SUBSET (1 .. n)
        BY <1>0, <2>2, MaxIs
      <3>2. it[s \ {Max(s)}] \in V
        BY <1>3, <3>1
      <3> HIDE DEF V
      <3>3. step[<<Max(s), it[s \ {Max(s)}]>>] = Joins(it[s \ {Max(s)}], gs[Max(s)], d)
        BY <3>1, <3>2
      <3> QED
        BY <1>2, <2>2, <3>3 DEF Folds
    <2> QED
      BY <2>1, <2>2
  <1>5. Iterated(it, gs, d)
    BY <1>0, <1>3, <1>4, Zenon DEF Iterated
  <1> QED
    BY <1>5

LEMMA IteratorGathers ==
    ASSUME NEW gs, NEW n, AreConnections(gs, n), NEW d \in Int
    PROVE  \E acc : Gathers(acc, gs, d, n) /\ synapse_iter(gs, d) = acc[n]
  <1> DEFINE Step(it) == [s \in SUBSET DOMAIN gs |->
                            IF s = {} THEN <<>> ELSE Joins(it[s \ {Max(s)}], gs[Max(s)], d)]
             list == CHOOSE it : it = Step(it)
  <1>0. n \in Nat /\ DOMAIN gs = 1 .. n
    BY DEF AreConnections
  <1>1. synapse_iter(gs, d) = list[1 .. n]
    BY <1>0 DEF synapse_iter, FoldLeft, MapThenFoldSet, Joins
  <1>2. Iterated(list, gs, d)
    BY IteratedExists DEF Iterated
  <1> HIDE DEF list
  <1>3. \A s \in SUBSET (1 .. n) :
           list[s] = IF s = {} THEN <<>> ELSE Joins(list[s \ {Max(s)}], gs[Max(s)], d)
    <2>1. \A s \in SUBSET DOMAIN gs :
             list[s] = IF s = {} THEN <<>> ELSE Joins(list[s \ {Max(s)}], gs[Max(s)], d)
      BY <1>2 DEF Iterated
    <2> QED
      BY <1>0, <2>1
  <1> DEFINE acc == [k \in 0 .. n |-> list[1 .. k]]
             P == {k \in Nat : k <= n => acc[k] \in Seq(Connections)}
  <1>4. acc[0] = <<>>
    <2>1. 1 .. 0 = {} /\ {} \in SUBSET (1 .. n) /\ 0 \in 0 .. n
      BY <1>0
    <2>2. list[{}] = <<>>
      BY <1>3, <2>1
    <2> QED
      BY <2>1, <2>2
  <1>5. ASSUME NEW k \in 1 .. n PROVE acc[k] = Joins(acc[k - 1], gs[k], d)
    <2>0. k \in Nat \ {0} /\ k \in 0 .. n /\ k - 1 \in 0 .. n
      BY <1>0
    <2>1. Max(1 .. k) = k /\ (1 .. k) \ {k} = 1 .. k - 1 /\ 1 .. k # {}
      BY <2>0, MaxOfAll
    <2>2. 1 .. k \in SUBSET (1 .. n)
      BY <1>0
    <2>3. list[1 .. k] = Joins(list[1 .. k - 1], gs[k], d)
      BY <1>3, <2>1, <2>2
    <2> QED
      BY <2>0, <2>3
  <1>6. acc = [k \in 0 .. n |-> acc[k]]
    OBVIOUS
  <1> HIDE DEF acc
  <1>7. 0 \in P
    <2>1. <<>> \in Seq(Connections)
      OBVIOUS
    <2> QED
      BY <1>4, <2>1
  <1>8. ASSUME NEW k \in Nat, k \in P, k + 1 <= n PROVE acc[k + 1] \in Seq(Connections)
    <2>1. k + 1 \in 1 .. n /\ (k + 1) - 1 = k
      BY <1>0, <1>8
    <2>2. acc[k] \in Seq(Connections)
      BY <1>0, <1>8
    <2>3. IsConnection(gs[k + 1])
      BY <2>1 DEF AreConnections
    <2>4. acc[k + 1] = Joins(acc[k], gs[k + 1], d)
      BY <1>5, <2>1
    <2> QED
      BY <2>2, <2>3, <2>4, JoinsAre
  <1>9. \A k \in Nat : k \in P
    <2>1. \A k \in Nat : k \in P => k + 1 \in P
      BY <1>8
    <2> HIDE DEF P
    <2> QED
      BY <1>7, <2>1, Induction
  <1>10. acc \in [0 .. n -> Seq(Connections)]
    <2>1. \A k \in 0 .. n : acc[k] \in Seq(Connections)
      BY <1>9
    <2> QED
      BY <1>6, <2>1
  <1>11. Gathers(acc, gs, d, n)
    BY <1>4, <1>5, <1>10 DEF Gathers
  <1>12. synapse_iter(gs, d) = acc[n]
    BY <1>0, <1>1 DEF acc
  <1> QED
    BY <1>11, <1>12
=============================================================================
