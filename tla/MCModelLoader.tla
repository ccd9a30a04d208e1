---------------------------- MODULE MCModelLoader -----------------------------
(***************************************************************************)
(* Model files over eight neurons, 0-3 being an image of 2 x 2: all        *)
(* sequences of up to three groups of connections out of seven, among them *)
(* convolutions that share their output with each other or with a group    *)
(* that is stored in full; some with their end missing.                    *)
(***************************************************************************)
EXTENDS ModelLoader

NumNeurons == 8

Full(from, to) ==
    [conn_type |-> "all2all", from |-> from, to |-> to]
Conv(from, to, kernel, stride, padding) ==
    [conn_type |-> "conv2", from |-> from, to |-> to,
     params |-> [input_width |-> 2, kernel_width |-> 2, kernel_height |-> kernel,
                 stride_width |-> stride, stride_height |-> stride,
                 padding_width |-> padding, padding_height |-> padding]]

FullGroups == {Full(<<0, 3>>, <<4, 5>>), Full(<<2, 3>>, <<5, 6>>), Full(<<1, 6>>, <<6, 7>>), Full(<<4, 7>>, <<0, 1>>)}
ConvGroups == {Conv(<<0, 3>>, <<4, 5>>, 1, 1, 0), Conv(<<0, 3>>, <<6, 7>>, 1, 1, 0),
               Conv(<<0, 3>>, <<4, 7>>, 2, 2, 1)}
Refused == {[conn_type |-> "unknown"], Full(<<0, 3>>, <<4, 8>>), Conv(<<0, 3>>, <<4, 6>>, 1, 1, 0)}

\* No two weights of a file are the same.
WithWeights(groups) ==
    [g \in DOMAIN groups |->
        CASE groups[g].conn_type = "all2all" ->
                groups[g] @@ [weights |-> [d \in 0 .. NumNeurons - 1 |->
                                [to \in 0 .. NumNeurons |-> 100 * (g + 1) + 10 * d + to]]]
          [] groups[g].conn_type = "conv2" ->
                groups[g] @@ [weights |-> [k \in 1 .. 4 |-> -(10 * g + k)]]
          [] OTHER -> groups[g]]

Params == [d \in 1 .. NumNeurons |-> 50 + d]

Flatten(seqs) == FoldLeft(LAMBDA all, s : all \o s, <<>>, seqs)

\* The file's records, as the format has them.
Record(format, groups, d) ==
    LET full    == SelectSeq(groups, LAMBDA g : g.conn_type = "all2all"
                                        /\ g.from[1] <= d /\ d <= g.from[2])
        row(g)  == [k \in 1 .. g.to[2] - g.to[1] + 1 |-> g.weights[d][g.to[1] + k - 1]]
        rows    == Flatten([g \in DOMAIN full |-> row(full[g])])
        ranges  == Flatten([g \in DOMAIN full |-> full[g].to \o row(full[g])])
    IN  IF format = 1 THEN <<Params[d + 1], Len(rows)>> \o rows
        ELSE <<Params[d + 1], Len(full)>> \o ranges

File(format, neuron_sizes, groups, missing) ==
    LET all == Flatten([d \in 1 .. NumNeurons |-> Record(format, WithWeights(groups), d - 1)])
    IN  [format |-> format, neuron_groups |-> neuron_sizes, synapse_groups |-> WithWeights(groups),
         params |-> Params, data |-> SubSeq(all, 1, Len(all) - missing), complete |-> missing = 0]

SeqsUpTo(S, n) == UNION {[1 .. m -> S] : m \in 0 .. n}

MCFiles ==
    {File(2, <<4, 4>>, groups, 0) : groups \in SeqsUpTo(FullGroups \cup ConvGroups, 3)}
        \cup {File(2, sizes, groups, missing) : sizes \in {<<4, 4>>, <<3, 5>>},
                groups \in SeqsUpTo(FullGroups \cup ConvGroups, 2), missing \in {0, 1, 9}}
        \cup {File(1, sizes, groups, missing) : sizes \in {<<4, 4>>, <<3, 2, 3>>},
                groups \in SeqsUpTo(FullGroups, 2), missing \in {0, 1, 9}}
        \cup {File(2, sizes, <<g>>, 0) : sizes \in {<<>>, <<8>>}, g \in Refused}
=============================================================================
