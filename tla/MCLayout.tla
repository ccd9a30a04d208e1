------------------------------- MODULE MCLayout -------------------------------
(***************************************************************************)
(* Inputs for Layout: groups that do and do not divide evenly over ranges  *)
(* of PEs, some around the end of the numbering, and convolutions over a   *)
(* 3 x 3 and a 3 x 2 layer.                                                *)
(***************************************************************************)
EXTENDS Layout

AllPEs == {<<0, 1>>}
OnePE == {<<0, 0>>}

\* Whole, partial, single, wrapped, and one that does not exist.
MCPlacements == {<<0, 2>>, <<1, 2>>, <<1, 1>>, <<2, 0>>, <<0, 3>>}

MCFromRanges == {<<0, 0>>, <<0, 3>>, <<2, 5>>, <<3, 9>>, <<4, 2>>}
MCToRanges == {<<0, 2>>, <<1, 1>>}

Axis3 == {<<1, 1, 0>>, <<2, 1, 1>>, <<2, 2, 0>>, <<3, 1, 0>>, <<3, 2, 1>>}
Conv(width, x, y) ==
    [input_width |-> width,
     kernel_width |-> y[1], stride_width |-> y[2], padding_width |-> y[3],
     kernel_height |-> x[1], stride_height |-> x[2], padding_height |-> x[3]]

\* Kernel, stride and padding of each axis: no two axes alike are needed to tell rows
\* from columns.
MCConvParams == {Conv(w, x, y) : w \in {2, 3}, x \in Axis3, y \in Axis3}
                    \cup {Conv(3, <<1, 0, 0>>, <<1, 1, 0>>), Conv(3, <<1, 1, -1>>, <<1, 1, 0>>)}
ConvFrom == {<<0, 8>>, <<3, 8>>}
ConvTo == {<<9, 9 + n>> : n \in {0, 1, 3, 5, 8}}

\* A stride that is longer than the kernel.
Image == {<<0, 8>>}
SmallerImage == {<<9, 14>>}
Skipping == {Conv(3, <<1, 1, 0>>, <<1, 2, 0>>)}

\* A kernel that is larger than the layer it is applied to, on both axes.
Pixel == {<<0, 0>>}
OtherPixel == {<<1, 1>>}
TooLarge == {Conv(1, <<3, 1, 0>>, <<3, 1, 0>>), Conv(1, <<3, 1, 1>>, <<3, 1, 1>>)}
=============================================================================
