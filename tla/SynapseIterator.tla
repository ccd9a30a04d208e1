--------------------------- MODULE SynapseIterator ---------------------------
(***************************************************************************)
(* Which neurons a neuron connects to: the synapse groups of               *)
(* src/layout/master.c and the iterator that yields, for a doryta id, the  *)
(* ids it points to, group after group.                                    *)
(***************************************************************************)
EXTENDS Integers, Sequences, SequencesExt

\* C divides towards zero and then adds one for a positive remainder: the ceiling.
divceil_i32(x, y) == -((-x) \div y)

all2all_group(from_start, from_end, to_start, to_end) ==
    [conn_type |-> "all2all", from_start |-> from_start, from_end |-> from_end,
     to_start |-> to_start, to_end |-> to_end]

\* How many times the kernel fits along an axis of the input: an axis of the output.
OutputLength(length, kernel, stride, padding) ==
    divceil_i32(length + 2 * padding - kernel + 1, stride)

from_height(from_start, from_end, params) ==
    (from_end - from_start + 1) \div params.input_width

conv2d_group(from_start, from_end, to_start, to_end, params) ==
    [conn_type |-> "conv2", from_start |-> from_start, from_end |-> from_end,
     to_start |-> to_start, to_end |-> to_end, params |-> params,
     to_width  |-> OutputLength(params.input_width, params.kernel_width,
                                params.stride_width, params.padding_width),
     to_height |-> OutputLength(from_height(from_start, from_end, params),
                                params.kernel_height, params.stride_height,
                                params.padding_height)]

Conv2dParams ==
    [input_width : Int, kernel_width : Int, kernel_height : Int, stride_width : Int,
     stride_height : Int, padding_width : Int, padding_height : Int]

check_params(params) ==
    /\ \A x \in {params.input_width, params.kernel_width, params.kernel_height,
                 params.stride_width, params.stride_height} : x > 0
    /\ params.padding_width >= 0 /\ params.padding_height >= 0

\* At most this many synapses leave each neuron of a group; a neuron on the edge of a
\* convolution has less.
SynapsesPerNeuron_WholeStrides(g) ==
    IF g.conn_type = "all2all" THEN g.to_end - g.to_start + 1
    ELSE (g.params.kernel_width \div g.params.stride_width)
            * (g.params.kernel_height \div g.params.stride_height)
SynapsesPerNeuron(g) ==
    IF g.conn_type = "all2all" THEN g.to_end - g.to_start + 1
    ELSE divceil_i32(g.params.kernel_width, g.params.stride_width)
            * divceil_i32(g.params.kernel_height, g.params.stride_height)

\* Both ranges are rectangles, and the output has the size the kernel leaves it.
ShapesMatch(group) ==
    /\ (group.from_end - group.from_start + 1) % group.params.input_width = 0
    /\ group.to_end - group.to_start + 1 = group.to_width * group.to_height

-----------------------------------------------------------------------------
(* Along an axis: the first kernel position that can lie over the input     *)
(* cell, how many of them can, one every stride, and the output cell that   *)
(* has the first of them there.                                             *)

Axis_AnyOffset(position, kernel, stride, padding) ==
    [mod_stride |-> (position + padding) % stride,
     synapses   |-> divceil_i32(kernel, stride),
     last       |-> (position + padding) \div stride]
Axis(position, kernel, stride, padding) ==
    LET mod_stride == (position + padding) % stride
    IN  [mod_stride |-> mod_stride,
         synapses   |-> divceil_i32(kernel - mod_stride, stride),
         last       |-> (position + padding) \div stride]

\* The output cell and the kernel position of the k-th of them.
Covering(axis, stride, k) ==
    LET back == axis.synapses - k - 1
    IN  [output |-> axis.last - back, kernel |-> axis.mod_stride + back * stride]

\* The members of S from 1 to n, in ascending order.
Ascending(S, n) ==
    FoldLeft(LAMBDA ids, p : IF p \in S THEN Append(ids, p) ELSE ids, <<>>, [p \in 1 .. n |-> p])

\* in_group_first_id and in_group_next_id on a convolution: the kernel is gone through
\* row by row, and what falls outside of the output layer is skipped. A row is looked
\* at once even when it has no position at all.
conv2d_ids(g, doryta_id) ==
    LET params  == g.params
        shifted == doryta_id - g.from_start
        axis_x  == Axis(shifted \div params.input_width, params.kernel_height,
                        params.stride_height, params.padding_height)
        axis_y  == Axis(shifted % params.input_width, params.kernel_width,
                        params.stride_width, params.padding_width)
        columns == IF axis_y.synapses > 0 THEN axis_y.synapses ELSE 1
        x(p)    == Covering(axis_x, params.stride_height, (p - 1) \div columns)
        y(p)    == Covering(axis_y, params.stride_width, (p - 1) % columns)
        size    == axis_x.synapses * columns
        inside  == {p \in 1 .. size : /\ x(p).output \in 0 .. g.to_height - 1
                                      /\ y(p).output \in 0 .. g.to_width - 1}
        kept    == Ascending(inside, size)
    IN  [i \in DOMAIN kept |->
            [to |-> g.to_start + g.to_width * x(kept[i]).output + y(kept[i]).output,
             conn_parameter |-> x(kept[i]).kernel * params.kernel_width + y(kept[i]).kernel]]

\* On all2all nothing touches conn_parameter: it stays what it was.
all2all_ids(g, conn_parameter) ==
    [i \in 1 .. g.to_end - g.to_start + 1 |->
        [to |-> g.to_start + i - 1, conn_parameter |-> conn_parameter]]

InFrom(g, doryta_id) == g.from_start <= doryta_id /\ doryta_id <= g.from_end

\* Everything synapse_iter_next yields for doryta_id.
synapse_iter(groups, doryta_id) ==
    LET join(ids, g) ==
            IF ~ InFrom(g, doryta_id) THEN ids
            ELSE ids \o (IF g.conn_type = "conv2" THEN conv2d_ids(g, doryta_id)
                         ELSE all2all_ids(g, IF ids = <<>> THEN -1 ELSE Last(ids).conn_parameter))
    IN  FoldLeft(join, <<>>, groups)
=============================================================================
