---------------------------- MODULE MCSpikeLoader -----------------------------
(***************************************************************************)
(* One or two groups, of five neurons altogether, and files that name up   *)
(* to three of them in any order, with no spike, one or two for each.      *)
(***************************************************************************)
EXTENDS SpikeLoader

Ranges == {<<0, 1>>, <<1, 0>>, <<1, 1>>}
Group(groups, size, r) == Append(groups, neuron_group(groups, size, r[1], r[2]))
MCLayouts == {Group(<<>>, 5, r) : r \in Ranges}
                \cup {Group(Group(<<>>, 3, r), 2, q) : r \in Ranges, q \in Ranges}

Orders == {<<>>} \cup UNION {{o \in [1 .. n -> 0 .. 4] : \A a, b \in 1 .. n : o[a] = o[b] => a = b} :
                                n \in 1 .. 3}
Entries(order, times(_)) ==
    [k \in DOMAIN order |-> [neuron |-> order[k], times |-> times(order[k])]]

MCSources ==
    {[format |-> "1", entries |-> Entries(o, LAMBDA n : <<3>>)] : o \in Orders}
        \cup {[format |-> "2", entries |-> Entries(o, LAMBDA n : SubSeq(<<4, 2>>, 1, n % 3))] :
                o \in Orders}
        \cup {[format |-> "random", lucky |-> {0, 2, 3, 4} \ {x}, until |-> u, time |-> 1] :
                x \in 0 .. 4, u \in {0, 4, 9}}
=============================================================================
