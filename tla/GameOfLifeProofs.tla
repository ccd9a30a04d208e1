---------------------------- MODULE GameOfLifeProofs ---------------------------
(***************************************************************************)
(* The built-in model plays the Game of Life on a board of any width: its  *)
(* synapses lead from a cell to the cells around it, edges and corners     *)
(* included, and what has arrived at a neuron counts the neurons before it *)
(* that fired, in whatever order spikes are delivered and neurons beat.    *)
(***************************************************************************)
EXTENDS GameOfLife, LayoutProofs

W == width_world

-----------------------------------------------------------------------------
(* The board.                                                               *)

\* A cell and the cells next to it.
Around(c) == {d \in Board : Conway!Near(d \div W, c \div W) /\ Conway!Near(d % W, c % W)}

LEMMA BoardSize == W \in Nat \ {0} /\ size_world \in Nat \ {0} /\ size_world = W * W
  <1>1. W \in Nat \ {0}
    BY WidthAssumption DEF W
  <1>2. size_world = W * W
    BY DEF size_world, W
  <1> HIDE DEF W
  <1>3. W * W \in Nat \ {0}
    BY <1>1
  <1> QED
    BY <1>1, <1>2, <1>3

LEMMA CellAt ==
    ASSUME NEW x \in 0 .. W - 1, NEW y \in 0 .. W - 1
    PROVE  W * x + y \in Board /\ (W * x + y) \div W = x /\ (W * x + y) % W = y
  <1>1. W \in Nat \ {0} /\ x \in Nat /\ x < W /\ y \in Nat /\ W * x = x * W
    BY BoardSize
  <1> HIDE DEF W
  <1>2. (x * W + y) \div W = x /\ (x * W + y) % W = y
    BY <1>1, QuotientIs
  <1>3. x * W + W <= W * W
    BY <1>1, Grows
  <1>4. x * W \in Nat /\ W * W \in Nat
    BY <1>1
  <1>5. size_world = W * W
    BY BoardSize
  <1> QED
    BY <1>1, <1>2, <1>3, <1>4, <1>5 DEF Board

LEMMA RowAndColumn ==
    ASSUME NEW c \in Board
    PROVE  /\ c \in Nat /\ c \div W \in 0 .. W - 1 /\ c % W \in 0 .. W - 1
           /\ c = W * (c \div W) + (c % W)
  <1>1. W \in Nat \ {0} /\ size_world = W * W /\ size_world \in Nat
    BY BoardSize
  <1>2. c \in Nat /\ c < W * W
    BY <1>1 DEF Board
  <1> HIDE DEF W
  <1> DEFINE q == c \div W
             r == c % W
  <1>3. q \in Nat /\ r \in 0 .. W - 1 /\ c = W * q + r
    BY <1>1, <1>2, Quotient
  <1> HIDE DEF q, r
  <1>4. q < W
    <2> SUFFICES ASSUME q >= W PROVE FALSE
      BY <1>1, <1>3
    <2>1. PICK k \in Nat : q = W + k
      <3>1. q - W \in Nat /\ q = W + (q - W)
        BY <1>1, <1>3
      <3> QED
        BY <3>1
    <2>2. W * q = W * W + W * k /\ W * k \in Nat /\ W * W \in Nat
      BY <1>1, <2>1
    <2> QED
      BY <1>2, <1>3, <2>2
  <1> QED
    BY <1>1, <1>2, <1>3, <1>4 DEF q, r

LEMMA OneCell ==
    ASSUME NEW c \in Board, NEW d \in Board, c \div W = d \div W, c % W = d % W
    PROVE  c = d
  BY RowAndColumn

LEMMA AroundIs ==
    ASSUME NEW c \in Board
    PROVE  /\ Around(c) \subseteq Board /\ c \in Around(c)
           /\ \A d \in Board : d \in Around(c) <=> c \in Around(d)
           /\ Conway!Neighbours(c) = Around(c) \ {c}
  <1>1. \A d \in Board : d \div W \in Int /\ d % W \in Int
    BY RowAndColumn, BoardSize
  <1>2. \A d \in Board : d \in Around(c) <=> c \in Around(d)
    BY <1>1 DEF Around, Conway!Near
  <1>3. c \in Around(c)
    BY <1>1 DEF Around, Conway!Near
  <1>4. Conway!Neighbours(c) = Around(c) \ {c}
    BY DEF Conway!Neighbours, Conway!Cells, Around, Board, size_world, W
  <1> QED
    BY <1>2, <1>3, <1>4 DEF Around

-----------------------------------------------------------------------------
(* From layer to layer.                                                     *)

\* What leads to the cells in A of the layer that starts at base, and once to each.
Reaches(ids, base, A) ==
    /\ ids \in Seq(Connections)
    /\ \A i \in DOMAIN ids : ids[i].to - base \in A
    /\ \A a \in A : \E i \in DOMAIN ids : ids[i].to = base + a
    /\ \A i, j \in DOMAIN ids : ids[i].to = ids[j].to => i = j

LEMMA ByOne ==
    ASSUME NEW a \in Int
    PROVE  a \div 1 = a /\ a % 1 = 0 /\ divceil_i32(a, 1) = a
  <1>1. a \div 1 = a /\ a % 1 = 0 /\ (-a) \div 1 = -a
    OBVIOUS
  <1> QED
    BY <1>1 DEF divceil_i32

LEMMA BetweenIs ==
    ASSUME NEW from \in 0 .. 2, NEW to \in 0 .. 2, NEW kernel \in {1, 3}, NEW padding \in {0, 1},
           kernel = 2 * padding + 1
    PROVE  LET g == Between(from, to, Square(kernel, padding))
           IN  /\ g.conn_type = "conv2" /\ g.params = Square(kernel, padding)
               /\ g.from_start = from * size_world /\ g.to_start = to * size_world
               /\ g.from_end = from * size_world + size_world - 1
               /\ g.to_width = W /\ g.to_height = W
               /\ IsConnection(g)
  <1> DEFINE params == Square(kernel, padding)
             g == Between(from, to, params)
             S == size_world
  <1>1. W \in Nat \ {0} /\ S = W * W /\ S \in Nat \ {0}
    BY BoardSize
  <1>2. params = [input_width |-> W, kernel_width |-> kernel, kernel_height |-> kernel,
                  padding_width |-> padding, padding_height |-> padding,
                  stride_width |-> 1, stride_height |-> 1]
    BY DEF Square, W
  <1>3. params \in Conv2dParams /\ check_params(params)
    BY <1>1, <1>2 DEF Conv2dParams, check_params
  <1> HIDE DEF params
  <1>4. /\ g.conn_type = "conv2" /\ g.params = params
        /\ g.from_start = from * S /\ g.from_end = (from + 1) * S - 1
        /\ g.to_start = to * S /\ g.to_end = (to + 1) * S - 1
        /\ g.to_width = OutputLength(W, kernel, 1, padding)
        /\ g.to_height = OutputLength(from_height(from * S, (from + 1) * S - 1, params), kernel, 1, padding)
    BY <1>2 DEF Between, conv2d_group
  <1> HIDE DEF g
  <1>5. /\ from * S \in Int /\ to * S \in Int
        /\ (from + 1) * S = from * S + S /\ (to + 1) * S = to * S + S
    <2> HIDE DEF S
    <2> QED
      BY <1>1
  <1>6. (from + 1) * S - 1 - from * S + 1 = S /\ (to + 1) * S - 1 - to * S + 1 = S
    <2> HIDE DEF S
    <2> QED
      BY <1>1, <1>5
  <1>7. S \div W = W /\ S % W = 0
    <2>0. W * W = W * W + 0 /\ 0 \in 0 .. W - 1
      <3> HIDE DEF W
      <3> QED
        BY <1>1
    <2> HIDE DEF W
    <2>1. (W * W + 0) \div W = W /\ (W * W + 0) % W = 0
      BY <1>1, <2>0, QuotientIs
    <2> QED
      BY <1>1, <2>0, <2>1
  <1>8. from_height(from * S, (from + 1) * S - 1, params) = W
    BY <1>2, <1>6, <1>7 DEF from_height
  <1>9. OutputLength(W, kernel, 1, padding) = W
    <2>1. W + 2 * padding - kernel + 1 = W /\ W \in Int
      BY <1>1
    <2> HIDE DEF W
    <2> QED
      BY <2>1, ByOne DEF OutputLength
  <1>10. ShapesMatch(g)
    <2>1. g.params.input_width = W
      BY <1>2, <1>4
    <2>2. g.from_end - g.from_start + 1 = S /\ g.to_end - g.to_start + 1 = S
      BY <1>4, <1>6
    <2>3. g.to_width * g.to_height = S
      BY <1>1, <1>4, <1>8, <1>9
    <2> QED
      BY <1>7, <2>1, <2>2, <2>3 DEF ShapesMatch
  <1> HIDE DEF S, W
  <1>11. g.from_end = from * S + S - 1 /\ g.to_end = to * S + S - 1
    BY <1>1, <1>4, <1>5
  <1>12. IsConnection(g)
    BY <1>1, <1>3, <1>4, <1>5, <1>8, <1>9, <1>10, <1>11 DEF IsConnection
  <1> QED
    BY <1>4, <1>8, <1>9, <1>11, <1>12 DEF g, params, S

\* conv2d_ids, with the kernel, the padding and the strides of the two kinds of groups.
LEMMA SquareIds ==
    ASSUME NEW from \in 0 .. 2, NEW to \in 0 .. 2, NEW kernel \in {1, 3}, NEW padding \in {0, 1},
           kernel = 2 * padding + 1, NEW c \in Board
    PROVE  LET size == kernel * kernel
               x(p) == c \div W - padding + ((p - 1) \div kernel)
               y(p) == (c % W) - padding + ((p - 1) % kernel)
               inside == {p \in 1 .. size : x(p) \in 0 .. W - 1 /\ y(p) \in 0 .. W - 1}
               ids == conv2d_ids(Between(from, to, Square(kernel, padding)), from * size_world + c)
           IN  \E kept : /\ Lists(kept, inside, size, size)
                         /\ DOMAIN ids = DOMAIN kept
                         /\ \A i \in DOMAIN kept :
                               ids[i].to = to * size_world + W * x(kept[i]) + y(kept[i])
  <1> DEFINE g == Between(from, to, Square(kernel, padding))
             d == from * size_world + c
             row == c \div W
             col == c % W
             size == kernel * kernel
             x(p) == row - padding + ((p - 1) \div kernel)
             y(p) == col - padding + ((p - 1) % kernel)
             inside == {p \in 1 .. size : x(p) \in 0 .. W - 1 /\ y(p) \in 0 .. W - 1}
             kept == Ascending(inside, size)
             ids == conv2d_ids(g, d)
  <1>1. W \in Nat \ {0} /\ size_world \in Nat \ {0} /\ c \in Nat /\ row \in Nat /\ col \in Nat
    BY BoardSize, RowAndColumn
  <1>2. /\ g.params = Square(kernel, padding)
        /\ g.from_start = from * size_world /\ g.to_start = to * size_world
        /\ g.to_width = W /\ g.to_height = W
    BY BetweenIs
  <1>3. /\ g.params.input_width = W /\ g.params.kernel_height = kernel
        /\ g.params.kernel_width = kernel /\ g.params.stride_height = 1
        /\ g.params.stride_width = 1 /\ g.params.padding_height = padding
        /\ g.params.padding_width = padding
    BY <1>2 DEF Square, W
  <1> HIDE DEF g
  <1>4. d - g.from_start = c
    <2>1. from * size_world \in Int
      BY <1>1
    <2> QED
      BY <1>1, <1>2, <2>1
  <1> HIDE DEF d
  <1>5. \A q \in Nat : /\ Axis(q, kernel, 1, padding)
                            = [mod_stride |-> 0, synapses |-> kernel, last |-> q + padding]
    <2> SUFFICES ASSUME NEW q \in Nat
                 PROVE  Axis(q, kernel, 1, padding)
                            = [mod_stride |-> 0, synapses |-> kernel, last |-> q + padding]
      OBVIOUS
    <2>1. (q + padding) % 1 = 0 /\ (q + padding) \div 1 = q + padding
      BY ByOne
    <2>2. divceil_i32(kernel - 0, 1) = kernel
      BY ByOne
    <2> QED
      BY <2>1, <2>2 DEF Axis
  <1>6. /\ AxisX(g, d) = [mod_stride |-> 0, synapses |-> kernel, last |-> row + padding]
        /\ AxisY(g, d) = [mod_stride |-> 0, synapses |-> kernel, last |-> col + padding]
        /\ Columns(g, d) = kernel
    <2>1. AxisX(g, d) = Axis(row, kernel, 1, padding) /\ AxisY(g, d) = Axis(col, kernel, 1, padding)
      BY <1>3, <1>4 DEF AxisX, AxisY
    <2>2. /\ AxisX(g, d) = [mod_stride |-> 0, synapses |-> kernel, last |-> row + padding]
          /\ AxisY(g, d) = [mod_stride |-> 0, synapses |-> kernel, last |-> col + padding]
      <3> HIDE DEF row, col
      <3> QED
        BY <1>1, <1>5, <2>1
    <2> QED
      BY <2>2 DEF Columns
  <1>7. \A p \in 1 .. size :
           /\ (p - 1) \div kernel \in Int /\ (p - 1) % kernel \in Int
           /\ Covering(AxisX(g, d), 1, (p - 1) \div kernel).output = x(p)
           /\ Covering(AxisY(g, d), 1, (p - 1) % kernel).output = y(p)
    <2> SUFFICES ASSUME NEW p \in 1 .. size
                 PROVE  /\ (p - 1) \div kernel \in Int /\ (p - 1) % kernel \in Int
                        /\ Covering(AxisX(g, d), 1, (p - 1) \div kernel).output = x(p)
                        /\ Covering(AxisY(g, d), 1, (p - 1) % kernel).output = y(p)
      OBVIOUS
    <2>0. p \in Int
      OBVIOUS
    <2> DEFINE k1 == (p - 1) \div kernel
               k2 == (p - 1) % kernel
    <2>1. k1 \in Int /\ k2 \in Int
      BY <2>0
    <2> HIDE DEF k1, k2, row, col
    <2>2. /\ Covering(AxisX(g, d), 1, k1).output = row + padding - (kernel - k1 - 1)
          /\ Covering(AxisY(g, d), 1, k2).output = col + padding - (kernel - k2 - 1)
      <3>1. ASSUME NEW a \in Int, NEW k \in Int
            PROVE  Covering([mod_stride |-> 0, synapses |-> kernel, last |-> a], 1, k).output
                      = a - (kernel - k - 1)
        BY DEF Covering
      <3> QED
        BY <1>1, <1>6, <2>1, <3>1
    <2>3. /\ row + padding - (kernel - k1 - 1) = row - padding + k1
          /\ col + padding - (kernel - k2 - 1) = col - padding + k2
      BY <1>1, <2>1
    <2> QED
      BY <2>1, <2>2, <2>3 DEF k1, k2
  <1>8. size \in Nat
    OBVIOUS
  <1>9. Lists(kept, inside, size, size)
    <2> HIDE DEF inside, size
    <2> QED
      BY <1>8, AscendingLists
  <1> DEFINE xo(p) == Covering(AxisX(g, d), g.params.stride_height, (p - 1) \div Columns(g, d))
             yo(p) == Covering(AxisY(g, d), g.params.stride_width, (p - 1) % Columns(g, d))
             size2 == AxisX(g, d).synapses * Columns(g, d)
             inside2 == {p \in 1 .. size2 : /\ xo(p).output \in 0 .. g.to_height - 1
                                            /\ yo(p).output \in 0 .. g.to_width - 1}
             kept2 == Ascending(inside2, size2)
  <1>10. ids = [i \in DOMAIN kept2 |->
                  [to |-> g.to_start + g.to_width * xo(kept2[i]).output + yo(kept2[i]).output,
                   conn_parameter |-> xo(kept2[i]).kernel * g.params.kernel_width + yo(kept2[i]).kernel]]
    BY DEF conv2d_ids, AxisX, AxisY, Columns
  <1>11. size2 = size
    BY <1>6
  <1>12. \A p \in 1 .. size : xo(p).output = x(p) /\ yo(p).output = y(p)
    <2> HIDE DEF x, y, size
    <2> QED
      BY <1>3, <1>6, <1>7
  <1> HIDE DEF xo, yo, x, y, size, size2
  <1>13. inside2 = inside
    BY <1>2, <1>11, <1>12
  <1>14. kept2 = kept
    BY <1>11, <1>13
  <1>15. \A i \in DOMAIN kept : kept[i] \in 1 .. size
    BY <1>9, EntriesOf DEF Lists
  <1> HIDE DEF kept, kept2, inside
  <1>16. \A i \in DOMAIN kept : ids[i].to = to * size_world + W * x(kept[i]) + y(kept[i])
    BY <1>2, <1>10, <1>12, <1>14, <1>15
  <1>17. DOMAIN ids = DOMAIN kept
    BY <1>10, <1>14
  <1> HIDE DEF ids
  <1>18. \E kk : /\ Lists(kk, inside, size, size) /\ DOMAIN ids = DOMAIN kk
                 /\ \A i \in DOMAIN kk : ids[i].to = to * size_world + W * x(kk[i]) + y(kk[i])
    BY <1>9, <1>16, <1>17
  <1> QED
    BY <1>18 DEF size, x, y, inside, ids, g, d

LEMMA SquareReaches ==
    ASSUME NEW from \in 0 .. 2, NEW to \in 0 .. 2, NEW c \in Board
    PROVE  /\ Reaches(conv2d_ids(Between(from, to, Square(3, 1)), from * size_world + c),
                      to * size_world, Around(c))
           /\ Reaches(conv2d_ids(Between(from, to, Square(1, 0)), from * size_world + c),
                      to * size_world, {c})
  <1>1. ASSUME NEW kernel \in {1, 3}, NEW padding \in {0, 1}, kernel = 2 * padding + 1,
               NEW A, A \subseteq Board,
               \A a \in Board : a \in A <=> /\ (a \div W) - (c \div W) \in -padding .. padding
                                            /\ (a % W) - (c % W) \in -padding .. padding
        PROVE  Reaches(conv2d_ids(Between(from, to, Square(kernel, padding)), from * size_world + c),
                       to * size_world, A)
    <2> DEFINE row == c \div W
               col == c % W
               size == kernel * kernel
               x(p) == row - padding + ((p - 1) \div kernel)
               y(p) == col - padding + ((p - 1) % kernel)
               inside == {p \in 1 .. size : x(p) \in 0 .. W - 1 /\ y(p) \in 0 .. W - 1}
               ids == conv2d_ids(Between(from, to, Square(kernel, padding)), from * size_world + c)
               base == to * size_world
    <2>0. /\ W \in Nat \ {0} /\ base \in Int /\ row \in Nat /\ col \in Nat
          /\ size = kernel * kernel /\ size \in Nat
      <3>1. W \in Nat \ {0} /\ size_world \in Nat \ {0} /\ row \in Nat /\ col \in Nat
        BY BoardSize, RowAndColumn
      <3> HIDE DEF row, col
      <3> QED
        BY <3>1
    <2>1. PICK kept : /\ Lists(kept, inside, size, size)
                      /\ DOMAIN ids = DOMAIN kept
                      /\ \A i \in DOMAIN kept : ids[i].to = base + W * x(kept[i]) + y(kept[i])
      BY <1>1, SquareIds
    <2>2. ids \in Seq(Connections)
      <3> DEFINE g == Between(from, to, Square(kernel, padding))
                 d == from * size_world + c
      <3>1. g.conn_type = "conv2" /\ IsConnection(g) /\ g.from_start = from * size_world
        BY <1>1, BetweenIs
      <3>2. d \in Int /\ from * size_world <= d
        <4>1. c \in Nat /\ size_world \in Nat
          BY BoardSize, RowAndColumn
        <4>2. from * size_world \in Int
          BY <4>1
        <4> QED
          BY <4>1, <4>2
      <3> HIDE DEF g, d
      <3>3. conv2d_ids(g, d) \in Seq(Connections)
        BY <3>1, <3>2, ConvolutionIds
      <3> QED
        BY <3>3 DEF g, d
    <2> HIDE DEF ids, base, row, col
    \* The cell that a kernel position is over.
    <2>3. ASSUME NEW p \in inside
          PROVE  /\ W * x(p) + y(p) \in Board
                 /\ (W * x(p) + y(p)) \div W = x(p) /\ (W * x(p) + y(p)) % W = y(p)
                 /\ p \in 1 .. size
                 /\ (p - 1) \div kernel \in 0 .. kernel - 1 /\ (p - 1) % kernel \in 0 .. kernel - 1
                 /\ p = kernel * ((p - 1) \div kernel) + ((p - 1) % kernel) + 1
      <3>1. x(p) \in 0 .. W - 1 /\ y(p) \in 0 .. W - 1 /\ p \in 1 .. size
        OBVIOUS
      <3>2. /\ (p - 1) \div kernel \in 0 .. kernel - 1 /\ (p - 1) % kernel \in 0 .. kernel - 1
            /\ p = kernel * ((p - 1) \div kernel) + ((p - 1) % kernel) + 1
        <4>1. CASE kernel = 1
          BY <3>1, <4>1
        <4>2. CASE kernel = 3
          BY <3>1, <4>2
        <4> QED
          BY <1>1, <4>1, <4>2
      <3> HIDE DEF x, y, inside, size
      <3> QED
        BY <3>1, <3>2, CellAt
    <2>4. \A i \in DOMAIN kept : kept[i] \in inside /\ i \in Nat
      BY <2>1, EntriesOf DEF Lists
    <2>5. DOMAIN ids = DOMAIN kept
      BY <2>1
    <2>6. \A p \in inside : \E i \in DOMAIN kept : kept[i] = p
      <3>1. \A p \in 1 .. size : p \in inside => \E i \in 1 .. Len(kept) : kept[i] = p
        BY <2>1 DEF Lists
      <3>2. DOMAIN kept = 1 .. Len(kept)
        BY <2>1, EntriesOf DEF Lists
      <3> QED
        BY <3>1, <3>2
    <2>7. \A i, j \in DOMAIN kept : kept[i] = kept[j] => i = j
      <3>1. /\ DOMAIN kept = 1 .. Len(kept) /\ Len(kept) \in Nat
            /\ \A i \in DOMAIN kept : kept[i] \in 1 .. size
        BY <2>1, EntriesOf DEF Lists
      <3>2. \A i, j \in 1 .. Len(kept) : i < j => kept[i] < kept[j]
        BY <2>1 DEF Lists
      <3> HIDE DEF inside, size
      <3> SUFFICES ASSUME NEW i \in DOMAIN kept, NEW j \in DOMAIN kept, kept[i] = kept[j], i # j
                   PROVE  FALSE
        OBVIOUS
      <3>3. i < j \/ j < i
        BY <3>1
      <3> QED
        BY <2>0, <3>1, <3>2, <3>3
    <2>8. \A i \in DOMAIN ids : ids[i].to = base + (W * x(kept[i]) + y(kept[i]))
      <3> SUFFICES ASSUME NEW i \in DOMAIN ids PROVE ids[i].to = base + (W * x(kept[i]) + y(kept[i]))
        OBVIOUS
      <3>1. kept[i] \in inside
        BY <2>4, <2>5
      <3>2. x(kept[i]) \in Int /\ y(kept[i]) \in Int
        BY <3>1
      <3>3. ids[i].to = base + W * x(kept[i]) + y(kept[i])
        BY <2>1, <2>5
      <3> HIDE DEF x, y
      <3> QED
        BY <2>0, <3>2, <3>3
    <2>9. ASSUME NEW i \in DOMAIN ids PROVE ids[i].to - base \in A
      <3> DEFINE p == kept[i]
                 a == W * x(p) + y(p)
      <3>1. p \in inside /\ ids[i].to = base + a
        BY <2>4, <2>5, <2>8
      <3>2. /\ a \in Board /\ a \div W = x(p) /\ a % W = y(p)
            /\ (p - 1) \div kernel \in 0 .. kernel - 1 /\ (p - 1) % kernel \in 0 .. kernel - 1
        BY <2>3, <3>1
      <3>3. x(p) - row \in -padding .. padding /\ y(p) - col \in -padding .. padding
        <4> DEFINE k1 == (p - 1) \div kernel
                   k2 == (p - 1) % kernel
        <4>1. /\ k1 \in 0 .. kernel - 1 /\ k2 \in 0 .. kernel - 1
              /\ x(p) = row - padding + k1 /\ y(p) = col - padding + k2
          BY <3>2
        <4> HIDE DEF k1, k2, x, y
        <4> QED
          BY <1>1, <2>0, <4>1
      <3>4. a \in Int
        BY <3>2, RowAndColumn
      <3> HIDE DEF a
      <3>5. a \in A
        BY <1>1, <3>2, <3>3 DEF row, col
      <3>6. base + a - base = a
        BY <2>0, <3>4
      <3>7. ids[i].to = base + a
        BY <3>1
      <3> HIDE DEF p
      <3> QED
        BY <2>0, <3>4, <3>5, <3>7
    <2>10. ASSUME NEW a \in A PROVE \E i \in DOMAIN ids : ids[i].to = base + a
      <3> DEFINE r == a \div W
                 s == a % W
                 p == kernel * (r - row + padding) + (s - col + padding) + 1
      <3>1. a \in Board /\ r \in 0 .. W - 1 /\ s \in 0 .. W - 1 /\ a = W * r + s
        BY <1>1, RowAndColumn
      <3>2. r - row \in -padding .. padding /\ s - col \in -padding .. padding
        BY <1>1, <3>1 DEF row, col
      <3> HIDE DEF r, s
      <3> DEFINE k1 == r - row + padding
                 k2 == s - col + padding
      <3>3. k1 \in 0 .. kernel - 1 /\ k2 \in 0 .. kernel - 1
        BY <1>1, <2>0, <3>1, <3>2
      <3>4. /\ p \in 1 .. size
            /\ (p - 1) \div kernel = k1 /\ (p - 1) % kernel = k2
        <4>1. p = kernel * k1 + k2 + 1
          OBVIOUS
        <4> HIDE DEF p, k1, k2
        <4>2. CASE kernel = 1
          BY <3>3, <4>1, <4>2
        <4>3. CASE kernel = 3
          BY <3>3, <4>1, <4>3
        <4> QED
          BY <1>1, <4>2, <4>3
      <3>5. x(p) = r /\ y(p) = s
        <4>1. row - padding + k1 = r /\ col - padding + k2 = s
          BY <1>1, <2>0, <3>1
        <4> HIDE DEF p, k1, k2
        <4> QED
          BY <3>4, <4>1
      <3> HIDE DEF p
      <3>6. p \in inside
        BY <3>1, <3>4, <3>5
      <3> HIDE DEF inside, x, y
      <3>7. PICK i \in DOMAIN kept : kept[i] = p
        BY <2>6, <3>6
      <3>8. ids[i].to = base + (W * r + s)
        BY <2>5, <2>8, <3>5, <3>7
      <3> QED
        BY <2>5, <3>1, <3>7, <3>8
    <2>11. ASSUME NEW i \in DOMAIN ids, NEW j \in DOMAIN ids, ids[i].to = ids[j].to PROVE i = j
      <3> DEFINE p == kept[i]
                 q == kept[j]
      <3>1. p \in inside /\ q \in inside
        BY <2>4, <2>5
      <3>2. base + (W * x(p) + y(p)) = base + (W * x(q) + y(q))
        BY <2>8, <2>11
      <3> DEFINE a == W * x(p) + y(p)
                 b == W * x(q) + y(q)
      <3>3. /\ a \in Board /\ a \div W = x(p) /\ a % W = y(p) /\ p \in 1 .. size
            /\ (p - 1) \div kernel \in 0 .. kernel - 1 /\ (p - 1) % kernel \in 0 .. kernel - 1
            /\ p = kernel * ((p - 1) \div kernel) + ((p - 1) % kernel) + 1
        BY <2>3, <3>1
      <3>4. /\ b \in Board /\ b \div W = x(q) /\ b % W = y(q) /\ q \in 1 .. size
            /\ (q - 1) \div kernel \in 0 .. kernel - 1 /\ (q - 1) % kernel \in 0 .. kernel - 1
            /\ q = kernel * ((q - 1) \div kernel) + ((q - 1) % kernel) + 1
        BY <2>3, <3>1
      <3>5. a = b
        <4>1. a \in Int /\ b \in Int
          BY <3>3, <3>4, RowAndColumn
        <4>2. base + a = base + b
          BY <3>2
        <4> HIDE DEF a, b
        <4> QED
          BY <2>0, <4>1, <4>2
      <3>6. x(p) = x(q) /\ y(p) = y(q)
        BY <3>3, <3>4, <3>5
      <3> HIDE DEF a, b
      <3>7. (p - 1) \div kernel = (q - 1) \div kernel /\ (p - 1) % kernel = (q - 1) % kernel
        <4> DEFINE p1 == (p - 1) \div kernel
                   q1 == (q - 1) \div kernel
                   p2 == (p - 1) % kernel
                   q2 == (q - 1) % kernel
        <4>1. /\ row - padding + p1 = row - padding + q1 /\ col - padding + p2 = col - padding + q2
              /\ p1 \in 0 .. kernel - 1 /\ q1 \in 0 .. kernel - 1
              /\ p2 \in 0 .. kernel - 1 /\ q2 \in 0 .. kernel - 1
          BY <3>3, <3>4, <3>6
        <4> HIDE DEF p1, p2, q1, q2
        <4>2. p1 = q1 /\ p2 = q2
          BY <1>1, <2>0, <4>1
        <4> QED
          BY <4>2 DEF p1, p2, q1, q2
      <3>8. p = q
        BY <3>3, <3>4, <3>7
      <3> QED
        BY <2>5, <2>7, <3>8
    <2> QED
      BY <2>2, <2>9, <2>10, <2>11 DEF Reaches, ids, base
  <1>2. Reaches(conv2d_ids(Between(from, to, Square(3, 1)), from * size_world + c),
                to * size_world, Around(c))
    <2>1. Around(c) \subseteq Board
      BY DEF Around
    <2>2. \A a \in Board : a \in Around(c) <=> /\ (a \div W) - (c \div W) \in -1 .. 1
                                               /\ (a % W) - (c % W) \in -1 .. 1
      BY DEF Around, Conway!Near
    <2> QED
      BY <1>1, <2>1, <2>2
  <1>3. Reaches(conv2d_ids(Between(from, to, Square(1, 0)), from * size_world + c),
                to * size_world, {c})
    <2>1. {c} \subseteq Board
      OBVIOUS
    <2>2. \A a \in Board : a \in {c} <=> /\ (a \div W) - (c \div W) \in -0 .. 0
                                         /\ (a % W) - (c % W) \in -0 .. 0
      BY RowAndColumn, OneCell
    <2> QED
      BY <1>1, <2>1, <2>2
  <1> QED
    BY <1>2, <1>3

\* What a neuron of the model leads to: from the board to the cells around in both of the
\* other layers, and from these back to the one cell.
To(n) ==
    IF n < size_world
    THEN {size_world + a : a \in Around(n)} \cup {2 * size_world + a : a \in Around(n)}
    ELSE IF n < 2 * size_world THEN {n - size_world} ELSE {n - 2 * size_world}

Leads(ids, A) ==
    /\ \A i \in DOMAIN ids : ids[i].to \in A
    /\ \A a \in A : \E i \in DOMAIN ids : ids[i].to = a
    /\ \A i, j \in DOMAIN ids : ids[i].to = ids[j].to => i = j

LEMMA LeadsIs ==
    ASSUME NEW ids, NEW base \in Nat, NEW A, A \subseteq Board, Reaches(ids, base, A)
    PROVE  Leads(ids, {base + a : a \in A})
  <1>1. \A i \in DOMAIN ids : ids[i].to \in Int
    <2>1. ids \in Seq(Connections)
      BY DEF Reaches
    <2>2. \A i \in DOMAIN ids : ids[i] \in Connections
      BY <2>1, EntriesOf
    <2> QED
      BY <2>2 DEF Connections
  <1>2. ASSUME NEW i \in DOMAIN ids PROVE ids[i].to \in {base + a : a \in A}
    <2> DEFINE a == ids[i].to - base
    <2>1. a \in A /\ ids[i].to = base + a
      BY <1>1 DEF Reaches
    <2> QED
      BY <2>1
  <1> QED
    BY <1>2 DEF Reaches, Leads

LEMMA LeadsJoin ==
    ASSUME NEW s \in Seq(Connections), NEW t \in Seq(Connections), NEW A, NEW B,
           Leads(s, A), Leads(t, B), A \cap B = {}
    PROVE  Leads(s \o t, A \cup B)
  <1> DEFINE m == Len(s)
             n == Len(t)
             u == s \o t
  <1>1. /\ m \in Nat /\ n \in Nat /\ DOMAIN u = 1 .. m + n
        /\ DOMAIN s = 1 .. m /\ DOMAIN t = 1 .. n
        /\ \A i \in 1 .. m : u[i] = s[i]
        /\ \A i \in 1 .. n : u[m + i] = t[i]
    OBVIOUS
  <1> HIDE DEF m, n, u
  <1>2. \A i \in DOMAIN u : i \in 1 .. m \/ (i - m \in 1 .. n /\ i = m + (i - m))
    BY <1>1
  <1>3. ASSUME NEW i \in DOMAIN u
        PROVE  \/ i \in 1 .. m /\ u[i] = s[i] /\ s[i].to \in A
               \/ i - m \in 1 .. n /\ u[i] = t[i - m] /\ t[i - m].to \in B
    <2>1. CASE i \in 1 .. m
      BY <1>1, <2>1 DEF Leads
    <2>2. CASE i - m \in 1 .. n /\ i = m + (i - m)
      <3> DEFINE k == i - m
      <3>1. k \in 1 .. n /\ i = m + k
        BY <2>2
      <3> HIDE DEF k
      <3>2. u[i] = t[k] /\ t[k].to \in B
        BY <1>1, <3>1 DEF Leads
      <3> QED
        BY <3>1, <3>2 DEF k
    <2> QED
      BY <1>2, <2>1, <2>2
  <1>4. ASSUME NEW a \in A \cup B PROVE \E i \in DOMAIN u : u[i].to = a
    <2>1. CASE a \in A
      <3>1. PICK i \in 1 .. m : s[i].to = a
        BY <1>1, <2>1 DEF Leads
      <3> QED
        BY <1>1, <3>1
    <2>2. CASE a \in B
      <3>1. PICK i \in 1 .. n : t[i].to = a
        BY <1>1, <2>2 DEF Leads
      <3>2. m + i \in DOMAIN u /\ u[m + i].to = a
        BY <1>1, <3>1
      <3> QED
        BY <3>2
    <2> QED
      BY <2>1, <2>2
  <1>5. ASSUME NEW i \in DOMAIN u, NEW j \in DOMAIN u, u[i].to = u[j].to PROVE i = j
    <2>1. CASE i \in 1 .. m /\ j \in 1 .. m
      BY <1>1, <1>5, <2>1 DEF Leads
    <2>2. CASE i - m \in 1 .. n /\ j - m \in 1 .. n /\ u[i] = t[i - m] /\ u[j] = t[j - m]
      <3>1. i - m = j - m
        BY <1>1, <1>5, <2>2 DEF Leads
      <3> QED
        BY <1>1, <3>1
    <2> QED
      BY <1>3, <1>5, <2>1, <2>2
  <1>6. Leads(u, A \cup B)
    BY <1>3, <1>4, <1>5 DEF Leads
  <1> QED
    BY <1>6 DEF u

LEMMA GroupsAre ==
    /\ AreConnections(GoLSynapseGroups, 4)
    /\ GoLSynapseGroups[1] = Between(0, 1, Square(3, 1))
    /\ GoLSynapseGroups[2] = Between(0, 2, Square(3, 1))
    /\ GoLSynapseGroups[3] = Between(1, 0, Square(1, 0))
    /\ GoLSynapseGroups[4] = Between(2, 0, Square(1, 0))
  <1> DEFINE a == Between(0, 1, Square(3, 1))
             b == Between(0, 2, Square(3, 1))
             c == Between(1, 0, Square(1, 0))
             d == Between(2, 0, Square(1, 0))
  <1>1. IsConnection(a) /\ IsConnection(b) /\ IsConnection(c) /\ IsConnection(d)
    BY BetweenIs
  <1>2. GoLSynapseGroups = <<a, b, c, d>>
    BY DEF GoLSynapseGroups
  <1> HIDE DEF a, b, c, d
  <1>3. /\ DOMAIN GoLSynapseGroups = 1 .. 4 /\ Len(GoLSynapseGroups) = 4
        /\ GoLSynapseGroups[1] = a /\ GoLSynapseGroups[2] = b
        /\ GoLSynapseGroups[3] = c /\ GoLSynapseGroups[4] = d
    BY <1>2
  <1>4. \A k \in 1 .. 4 : k = 1 \/ k = 2 \/ k = 3 \/ k = 4
    OBVIOUS
  <1>5. AreConnections(GoLSynapseGroups, 4)
    BY <1>1, <1>3, <1>4 DEF AreConnections
  <1> QED
    BY <1>3, <1>5 DEF a, b, c, d

LEMMA NoIdsYet ==
    ASSUME NEW ids \in Seq(Connections)
    PROVE  <<>> \o ids = ids
  OBVIOUS

LEMMA IteratorLeads ==
    ASSUME NEW n \in GoLNeurons
    PROVE  Leads(synapse_iter(GoLSynapseGroups, n), To(n))
  <1> DEFINE S == size_world
             gs == GoLSynapseGroups
  <1>1. S \in Nat \ {0} /\ n \in Nat /\ n < 3 * S
    BY BoardSize DEF GoLNeurons
  <1>2. PICK acc : Gathers(acc, gs, n, 4) /\ synapse_iter(gs, n) = acc[4]
    BY <1>1, GroupsAre, IteratorGathers
  <1>3. /\ acc[1] = Joins(<<>>, gs[1], n) /\ acc[2] = Joins(acc[1], gs[2], n)
        /\ acc[3] = Joins(acc[2], gs[3], n) /\ acc[4] = Joins(acc[3], gs[4], n)
    BY <1>2 DEF Gathers
  <1>4. /\ \A k \in 1 .. 4 : gs[k].conn_type = "conv2"
        /\ gs[1].from_start = 0 /\ gs[1].from_end = S - 1
        /\ gs[2].from_start = 0 /\ gs[2].from_end = S - 1
        /\ gs[3].from_start = S /\ gs[3].from_end = 2 * S - 1
        /\ gs[4].from_start = 2 * S /\ gs[4].from_end = 3 * S - 1
    <2>1. /\ gs[1].conn_type = "conv2" /\ gs[1].from_start = 0 * S /\ gs[1].from_end = 0 * S + S - 1
          /\ gs[2].conn_type = "conv2" /\ gs[2].from_start = 0 * S /\ gs[2].from_end = 0 * S + S - 1
          /\ gs[3].conn_type = "conv2" /\ gs[3].from_start = 1 * S /\ gs[3].from_end = 1 * S + S - 1
          /\ gs[4].conn_type = "conv2" /\ gs[4].from_start = 2 * S /\ gs[4].from_end = 2 * S + S - 1
      BY BetweenIs, GroupsAre
    <2>2. \A k \in 1 .. 4 : k = 1 \/ k = 2 \/ k = 3 \/ k = 4
      OBVIOUS
    <2> HIDE DEF S, gs
    <2> QED
      BY <1>1, <2>1, <2>2
  <1> HIDE DEF gs
  <1>5. CASE n < S
    <2>1. /\ InFrom(gs[1], n) /\ InFrom(gs[2], n) /\ ~ InFrom(gs[3], n) /\ ~ InFrom(gs[4], n)
      BY <1>1, <1>4, <1>5 DEF InFrom
    <2> DEFINE s == conv2d_ids(gs[1], n)
               t == conv2d_ids(gs[2], n)
    <2>2. n \in Board /\ 0 * S + n = n
      BY <1>1, <1>5 DEF Board
    <2>3. Reaches(s, 1 * S, Around(n)) /\ Reaches(t, 2 * S, Around(n))
      <3>1. /\ Reaches(conv2d_ids(Between(0, 1, Square(3, 1)), 0 * S + n), 1 * S, Around(n))
            /\ Reaches(conv2d_ids(Between(0, 2, Square(3, 1)), 0 * S + n), 2 * S, Around(n))
        <4>1. 0 \in 0 .. 2 /\ 1 \in 0 .. 2 /\ 2 \in 0 .. 2
          OBVIOUS
        <4> HIDE DEF S
        <4> QED
          BY <2>2, <4>1, SquareReaches DEF S
      <3> QED
        BY <2>2, <3>1, GroupsAre DEF gs
    <2>4. acc[4] = s \o t
      <3>1. Joins(<<>>, gs[1], n) = <<>> \o s
        BY <1>4, <2>1 DEF Joins
      <3>2. <<>> \o s = s
        BY <2>3, NoIdsYet DEF Reaches
      <3>3. Joins(acc[1], gs[2], n) = acc[1] \o t
        <4>1. gs[2].conn_type = "conv2" /\ InFrom(gs[2], n)
          BY <1>4, <2>1
        <4> HIDE DEF s
        <4> QED
          BY <4>1 DEF Joins
      <3>4. acc[4] = acc[2]
        BY <1>3, <2>1 DEF Joins
      <3> QED
        BY <1>3, <3>1, <3>2, <3>3, <3>4
    <2> HIDE DEF s, t
    <2> DEFINE A == {S + a : a \in Around(n)}
               B == {2 * S + a : a \in Around(n)}
    <2>5. Around(n) \subseteq Board /\ 1 * S = S /\ S \in Nat /\ 2 * S \in Nat
      BY <1>1, <2>2, AroundIs
    <2>6. Leads(s, A) /\ Leads(t, B)
      BY <2>3, <2>5, LeadsIs
    <2>7. A \cap B = {}
      <3>1. \A a, b \in Around(n) : S + a # 2 * S + b
        <4>1. \A a \in Around(n) : a \in Nat /\ a < S
          BY <1>1, <2>5 DEF Board
        <4> QED
          BY <1>1, <4>1
      <3> QED
        BY <3>1
    <2>8. Leads(s \o t, A \cup B)
      BY <2>3, <2>6, <2>7, LeadsJoin DEF Reaches
    <2>9. To(n) = A \cup B
      BY <1>5 DEF To
    <2> QED
      BY <1>2, <2>4, <2>8, <2>9 DEF gs
  <1>6. ASSUME NEW k \in {3, 4}, ~ n < S, InFrom(gs[k], n), \A j \in {3, 4} \ {k} : ~ InFrom(gs[j], n)
        PROVE  synapse_iter(gs, n) = conv2d_ids(gs[k], n)
    <2>1. ~ InFrom(gs[1], n) /\ ~ InFrom(gs[2], n)
      BY <1>1, <1>4, <1>6 DEF InFrom
    <2>2. acc[2] = <<>>
      BY <1>3, <2>1 DEF Joins
    <2>3. conv2d_ids(gs[k], n) \in Seq(Connections)
      <3>1. IsConnection(gs[k]) /\ gs[k].conn_type = "conv2"
        BY <1>4, GroupsAre DEF AreConnections, gs
      <3>2. gs[k].from_start <= n
        BY <1>6 DEF InFrom
      <3> QED
        BY <1>1, <3>1, <3>2, ConvolutionIds
    <2> DEFINE s == conv2d_ids(gs[k], n)
    <2>4. Joins(<<>>, gs[k], n) = s
      <3>1. Joins(<<>>, gs[k], n) = <<>> \o s
        BY <1>4, <1>6 DEF Joins
      <3> QED
        BY <2>3, <3>1, NoIdsYet
    <2>5. CASE k = 3
      <3>1. acc[4] = acc[3]
        BY <1>3, <1>6, <2>5 DEF Joins
      <3> QED
        BY <1>2, <1>3, <2>2, <2>4, <2>5, <3>1
    <2>6. CASE k = 4
      <3>0. ~ InFrom(gs[3], n)
        BY <1>6, <2>6
      <3>1. acc[3] = acc[2]
        BY <1>3, <3>0 DEF Joins
      <3> QED
        BY <1>2, <1>3, <2>2, <2>4, <2>6, <3>1
    <2> QED
      BY <2>5, <2>6
  <1>7. ASSUME NEW from \in {1, 2}, NEW k \in {3, 4}, k = from + 2, NEW c \in Board, n = from * S + c
        PROVE  Leads(synapse_iter(gs, n), {n - from * S})
    <2>1. ~ n < S /\ InFrom(gs[k], n) /\ \A j \in {3, 4} \ {k} : ~ InFrom(gs[j], n)
      <3>1. c \in Nat /\ c < S
        BY <1>1 DEF Board
      <3> QED
        BY <1>1, <1>4, <1>7, <3>1 DEF InFrom
    <2>2. gs[k] = Between(from, 0, Square(1, 0))
      BY <1>7, GroupsAre DEF gs
    <2>3. Reaches(conv2d_ids(gs[k], n), 0 * S, {c})
      BY <1>7, <2>2, SquareReaches
    <2>4. 0 * S = 0 /\ c \in Nat /\ n - from * S = c /\ {c} \subseteq Board
      BY <1>1, <1>7 DEF Board
    <2>5. Leads(conv2d_ids(gs[k], n), {0 + a : a \in {c}})
      BY <2>3, <2>4, LeadsIs
    <2>6. {0 + a : a \in {c}} = {n - from * S}
      BY <2>4
    <2> QED
      BY <1>6, <2>1, <2>5, <2>6
  <1>8. CASE ~ n < S /\ n < 2 * S
    <2> DEFINE c == n - S
    <2>1. c \in Board /\ n = 1 * S + c /\ 1 * S = S
      BY <1>1, <1>8 DEF Board
    <2> HIDE DEF c
    <2>2. Leads(synapse_iter(gs, n), {n - 1 * S})
      BY <1>7, <2>1
    <2> QED
      BY <1>8, <2>1, <2>2 DEF To, gs
  <1>9. CASE ~ n < S /\ ~ n < 2 * S
    <2> DEFINE c == n - 2 * S
    <2>1. c \in Board /\ n = 2 * S + c
      BY <1>1, <1>9 DEF Board
    <2> HIDE DEF c
    <2>2. Leads(synapse_iter(gs, n), {n - 2 * S})
      BY <1>7, <2>1
    <2> QED
      BY <1>9, <2>2 DEF To, gs
  <1> QED
    BY <1>5, <1>8, <1>9 DEF gs

-----------------------------------------------------------------------------
(* Spikes and beats of the model.                                           *)

\* gameoflife.c:60-161. The network, its neurons and its input are those of the model.
BuiltIn ==
    /\ Neurons = GoLNeurons /\ Synapses = GoLSynapses
    /\ InitialNeuron = GoLInitialNeuron /\ SpikeInputs = GoLSpikeInputs
    /\ \A lf : neuron_leak(lf) = neurons_lif_leak(lf) /\ neuron_fire(lf) = neurons_lif_fire(lf)
    /\ \A lf, current : neuron_integrate(lf, current) = neurons_lif_integrate(lf, current)

Weight(m, n) == initialize_weight_neurons(m, n)

LEMMA WeightIs ==
    ASSUME NEW m \in GoLNeurons, NEW n \in GoLNeurons
    PROVE  /\ Weight(m, n) \in {10, 0, -10}
           /\ Weight(m, n) = -10 <=> m >= 2 * size_world
           /\ m < size_world => (Weight(m, n) = 10 <=> n - 2 * size_world # m)
           /\ m >= size_world /\ m < 2 * size_world => Weight(m, n) = 10
  <1>1. m \in Int /\ n \in Int /\ size_world \in Nat \ {0}
    BY BoardSize DEF GoLNeurons
  <1> QED
    BY <1>1 DEF Weight, initialize_weight_neurons

LEMMA ToAreNeurons ==
    ASSUME NEW n \in GoLNeurons
    PROVE  /\ To(n) \subseteq GoLNeurons
           /\ n < size_world => \A t \in To(n) : t >= size_world
           /\ n >= size_world => To(n) \subseteq Board
  <1> DEFINE S == size_world
  <1>1. n \in Nat /\ n < 3 * S /\ S \in Nat \ {0}
    BY BoardSize DEF GoLNeurons
  <1>2. CASE n < S
    <2>1. \A a \in Around(n) : a \in Nat /\ a < S
      BY <1>1 DEF Around, Board
    <2>2. \A t \in To(n) : \E a \in Around(n) : t = S + a \/ t = 2 * S + a
      BY <1>2 DEF To
    <2> HIDE DEF S
    <2>3. \A t \in To(n) : t \in Nat /\ t < 3 * S /\ t >= S
      BY <1>1, <2>1, <2>2
    <2> QED
      BY <1>1, <1>2, <2>3 DEF GoLNeurons, S
  <1>3. CASE ~ n < S
    <2>1. \A t \in To(n) : t \in Nat /\ t < S
      BY <1>1, <1>3 DEF To
    <2> QED
      BY <1>1, <1>3, <2>1 DEF GoLNeurons, Board
  <1> QED
    BY <1>2, <1>3

LEMMA SynapsesOf ==
    ASSUME NEW n \in GoLNeurons
    PROVE  LET syn == GoLSynapses[n]
           IN  /\ \A i \in DOMAIN syn : /\ syn[i].to \in To(n) /\ syn[i].delay = 1
                                        /\ syn[i].weight = Weight(n, syn[i].to)
               /\ \A t \in To(n) : \E i \in DOMAIN syn : syn[i].to = t
               /\ \A i, j \in DOMAIN syn : syn[i].to = syn[j].to => i = j
  <1> DEFINE ids == synapse_iter(GoLSynapseGroups, n)
             syn == GoLSynapses[n]
  <1>1. syn = [i \in DOMAIN ids |->
                  [to |-> ids[i].to, weight |-> Weight(n, ids[i].to), delay |-> 1]]
    BY DEF GoLSynapses, Weight
  <1>2. Leads(ids, To(n))
    BY IteratorLeads
  <1> HIDE DEF ids, syn
  <1>3. /\ DOMAIN syn = DOMAIN ids
        /\ \A i \in DOMAIN syn : /\ syn[i].to = ids[i].to /\ syn[i].delay = 1
                                 /\ syn[i].weight = Weight(n, ids[i].to)
    BY <1>1
  <1>4. /\ \A i \in DOMAIN syn : /\ syn[i].to \in To(n) /\ syn[i].delay = 1
                                 /\ syn[i].weight = Weight(n, syn[i].to)
        /\ \A t \in To(n) : \E i \in DOMAIN syn : syn[i].to = t
        /\ \A i, j \in DOMAIN syn : syn[i].to = syn[j].to => i = j
    BY <1>2, <1>3 DEF Leads
  <1> QED
    BY <1>4 DEF syn

LEMMA SpikesOfANeuron ==
    ASSUME BuiltIn, NEW n \in GoLNeurons, NEW now \in Nat
    PROVE  /\ \A e \in send_spike(n, now) :
                 /\ e.id.src = n /\ e.dest \in To(n) /\ e.current = Weight(n, e.dest)
                 /\ e.time = now + (Beat \div 2)
           /\ \A t \in To(n) : \E e \in send_spike(n, now) : e.dest = t
           /\ \A e, f \in send_spike(n, now) : e.dest = f.dest => e = f
  <1> DEFINE syn == GoLSynapses[n]
             msg(i) == spike(syn[i].to, now + delay_double(syn[i].delay), syn[i].weight, Id(n, now, i))
  <1>1. send_spike(n, now) = {msg(i) : i \in DOMAIN syn}
    BY DEF send_spike, BuiltIn
  <1>2. /\ \A i \in DOMAIN syn : /\ syn[i].to \in To(n) /\ syn[i].delay = 1
                                 /\ syn[i].weight = Weight(n, syn[i].to)
        /\ \A t \in To(n) : \E i \in DOMAIN syn : syn[i].to = t
        /\ \A i, j \in DOMAIN syn : syn[i].to = syn[j].to => i = j
    BY SynapsesOf
  <1>3. Beat \div 2 \in Int /\ delay_double(1) = Beat \div 2
    BY DriverAssumption DEF delay_double
  <1> HIDE DEF syn
  <1>4. \A i \in DOMAIN syn : /\ msg(i).id.src = n /\ msg(i).dest = syn[i].to
                              /\ msg(i).current = syn[i].weight
                              /\ msg(i).time = now + (Beat \div 2)
    <2> SUFFICES ASSUME NEW i \in DOMAIN syn
                 PROVE  /\ msg(i).id.src = n /\ msg(i).dest = syn[i].to
                        /\ msg(i).current = syn[i].weight
                        /\ msg(i).time = now + (Beat \div 2)
      OBVIOUS
    <2>1. delay_double(syn[i].delay) = Beat \div 2
      BY <1>2, <1>3
    <2> QED
      BY <2>1 DEF spike, Id
  <1> HIDE DEF msg
  <1>5. \A e \in send_spike(n, now) : \E i \in DOMAIN syn : e = msg(i)
    BY <1>1
  <1>6. \A i \in DOMAIN syn : msg(i) \in send_spike(n, now)
    BY <1>1
  <1>7. ASSUME NEW e \in send_spike(n, now), NEW f \in send_spike(n, now), e.dest = f.dest
        PROVE  e = f
    <2>1. PICK i \in DOMAIN syn : e = msg(i)
      BY <1>5
    <2>2. PICK j \in DOMAIN syn : f = msg(j)
      BY <1>5
    <2>3. i = j
      BY <1>2, <1>4, <1>7, <2>1, <2>2
    <2> QED
      BY <2>1, <2>2, <2>3
  <1> QED
    BY <1>2, <1>4, <1>5, <1>6, <1>7

Threshold(n) == IF n < size_world THEN 9 ELSE IF n < 2 * size_world THEN 29 ELSE 39

GoLNeuron(n, potential, current) ==
    [potential |-> potential, current |-> current, resting_potential |-> 0,
     reset_potential |-> 0, threshold |-> Threshold(n), resistance |-> 1]

\* The leak of a beat leaves a neuron with its current for potential.
LEMMA BeatOfANeuron ==
    ASSUME BuiltIn, NEW n \in GoLNeurons, NEW p \in Int, NEW k \in Int
    PROVE  LET out == leak_and_fire(GoLNeuron(n, p, k))
           IN  /\ out.fired <=> k > Threshold(n)
               /\ \E q \in Int : out.neuron = GoLNeuron(n, q, 0)
  <1> DEFINE x == GoLNeuron(n, p, k)
             y == GoLNeuron(n, k, k)
  <1>1. neurons_lif_leak(x) = y
    <2>1. LeakNum = LeakDen /\ LeakDen \in Nat \ {0}
      BY WidthAssumption, LifAssumption
    <2>2. ASSUME NEW D \in Nat \ {0}, NEW a \in Int PROVE (a * D) \div D = a
      <3>1. CASE a >= 0
        <4>1. a \in Nat /\ 0 \in 0 .. D - 1 /\ a * D + 0 = a * D
          BY <2>2, <3>1
        <4>2. (a * D + 0) \div D = a
          BY <4>1, QuotientIs
        <4> QED
          BY <4>1, <4>2
      <3>2. CASE a < 0
        <4> DEFINE b == a * D
                   q == b \div D
                   r == b % D
        <4>0. b \in Int
          OBVIOUS
        <4>1. q \in Int /\ r \in 0 .. D - 1 /\ b = D * q + r
          <5> HIDE DEF b
          <5> QED
            BY <4>0
        <4> HIDE DEF q, r
        <4>2. q * D + r = a * D
          BY <4>1
        <4>3. ~ q < a
          <5> SUFFICES ASSUME q < a PROVE FALSE
            OBVIOUS
          <5>1. q * D + D <= a * D /\ q * D \in Int /\ a * D \in Int
            BY <4>1, Grows
          <5> QED
            BY <4>1, <4>2, <5>1
        <4>4. ~ a < q
          <5> SUFFICES ASSUME a < q PROVE FALSE
            OBVIOUS
          <5>1. a * D + D <= q * D /\ q * D \in Int /\ a * D \in Int
            BY <4>1, Grows
          <5> QED
            BY <4>1, <4>2, <5>1
        <4> QED
          BY <4>1, <4>3, <4>4 DEF q
      <3> QED
        BY <3>1, <3>2
    <2>3. LET drive == 0 - p + k * 1 IN p + ((drive * LeakNum) \div LeakDen) = k
      <3> DEFINE drive == 0 - p + k * 1
      <3>1. drive \in Int /\ p + drive = k
        OBVIOUS
      <3> HIDE DEF drive
      <3>2. (drive * LeakNum) \div LeakDen = drive
        BY <2>1, <2>2, <3>1
      <3> QED
        BY <3>1, <3>2 DEF drive
    <2>4. /\ x.resting_potential = 0 /\ x.potential = p /\ x.current = k /\ x.resistance = 1
          /\ \A v : [x EXCEPT !.potential = v] = GoLNeuron(n, v, k)
      BY DEF GoLNeuron
    <2> HIDE DEF x, y
    <2>5. neurons_lif_leak(x)
             = [x EXCEPT !.potential = p + (((0 - p + k * 1) * LeakNum) \div LeakDen)]
      BY <2>4 DEF neurons_lif_leak
    <2> QED
      BY <2>3, <2>4, <2>5 DEF y
  <1>2. leak_and_fire(x) = neurons_lif_fire(y)
    BY <1>1 DEF leak_and_fire, BuiltIn
  <1>3. /\ y.potential = k /\ y.threshold = Threshold(n) /\ y.reset_potential = 0
        /\ \A v : [y EXCEPT !.potential = v, !.current = 0] = GoLNeuron(n, v, 0)
    <2>1. y.potential = k /\ y.threshold = Threshold(n) /\ y.reset_potential = 0
      BY DEF GoLNeuron
    <2>2. ASSUME NEW v PROVE [y EXCEPT !.potential = v, !.current = 0] = GoLNeuron(n, v, 0)
      <3>1. [y EXCEPT !.potential = v] = GoLNeuron(n, v, k)
        BY DEF GoLNeuron
      <3>2. [GoLNeuron(n, v, k) EXCEPT !.current = 0] = GoLNeuron(n, v, 0)
        BY DEF GoLNeuron
      <3> QED
        BY <3>1, <3>2, Zenon
    <2> QED
      BY <2>1, <2>2
  <1> HIDE DEF x, y
  <1>4. /\ neurons_lif_fire(y).fired <=> k > Threshold(n)
        /\ neurons_lif_fire(y).neuron
              = GoLNeuron(n, IF k > Threshold(n) THEN 0 ELSE k, 0)
    BY <1>3 DEF neurons_lif_fire
  <1>5. (IF k > Threshold(n) THEN 0 ELSE k) \in Int
    OBVIOUS
  <1> QED
    BY <1>2, <1>4, <1>5 DEF x

-----------------------------------------------------------------------------
(* What has arrived.                                                        *)

Pairs == GoLNeurons \X GoLNeurons

\* The messages are for some of the pairs in E, of a neuron that fired and one it leads
\* to, and one at most for each.
Carries(F, E) ==
    /\ \A e \in F : <<e.id.src, e.dest>> \in E /\ e.current = Weight(e.id.src, e.dest)
    /\ \A e, f \in F : e.id.src = f.id.src /\ e.dest = f.dest => e = f

\* The neurons that a neuron has heard of, those with the weight w.
Heard(n, E, F, w) ==
    {m \in GoLNeurons : /\ <<m, n>> \in E /\ Weight(m, n) = w
                        /\ \A e \in F : ~ (e.id.src = m /\ e.dest = n)}

Balance(n, E, F) == 10 * Cardinality(Heard(n, E, F, 10)) - 10 * Cardinality(Heard(n, E, F, -10))

FiredAt(time) == {c \in Board : <<c, time>> \in firings}

\* A life cell or a kill cell that counts enough cells of A.
CountsEnough(n, A) ==
    \/ /\ size_world <= n /\ n < 2 * size_world
       /\ Cardinality(Around(n - size_world) \cap A) >= 3
    \/ /\ 2 * size_world <= n
       /\ Cardinality((Around(n - 2 * size_world) \ {n - 2 * size_world}) \cap A) >= 4

\* The spikes of a beat arrive before the end of the run.
InTime(b) == b = 0 \/ b * Beat + (Beat \div 2) < End

NeuronsAre == neuron = [n \in GoLNeurons |-> neuron[n]]
              /\ \A n \in GoLNeurons :
                    \E p \in Int : neuron[n] = GoLNeuron(n, p, neuron[n].current)
                                   /\ neuron[n].current \in Int

LEMMA FiniteNeurons ==
    ASSUME NEW A, A \subseteq GoLNeurons
    PROVE  IsFiniteSet(A) /\ Cardinality(A) \in Nat
  <1>1. size_world \in Nat
    BY BoardSize
  <1>2. IsFiniteSet(GoLNeurons)
    BY <1>1, FS_Interval DEF GoLNeurons
  <1> QED
    BY <1>2, FS_Subset, FS_CardinalityType

LEMMA BoardIsNeurons ==
    /\ Board \subseteq GoLNeurons
    /\ \A c \in Board : size_world + c \in GoLNeurons /\ 2 * size_world + c \in GoLNeurons
  BY BoardSize DEF Board, GoLNeurons

-----------------------------------------------------------------------------
(* What fires.                                                              *)

LEMMA CountOfHeard ==
    ASSUME NEW n, NEW E, NEW F, NEW w
    PROVE  /\ IsFiniteSet(Heard(n, E, F, w)) /\ Cardinality(Heard(n, E, F, w)) \in Nat
           /\ Heard(n, E, F, w) = {} => Cardinality(Heard(n, E, F, w)) = 0
           /\ \A m : Heard(n, E, F, w) = {m} => Cardinality(Heard(n, E, F, w)) = 1
  <1>1. Heard(n, E, F, w) \subseteq GoLNeurons
    BY DEF Heard
  <1> QED
    BY <1>1, FiniteNeurons, FS_EmptySet, FS_Singleton

\* The input makes the cells that are given fire, and nothing else.
LEMMA InputBalance ==
    ASSUME NEW E, E \subseteq Pairs, \A p \in E : p[1] = p[2] /\ p[1] \in Board,
           NEW n \in GoLNeurons, NEW F, Carries(F, E)
    PROVE  Balance(n, E, F) = IF <<n, n>> \in E /\ ~ \E s \in F : s.dest = n THEN 10 ELSE 0
  <1>1. \A m : <<m, n>> \in E => m = n /\ n \in Board
    <2> SUFFICES ASSUME NEW m, <<m, n>> \in E PROVE m = n /\ n \in Board
      OBVIOUS
    <2>1. <<m, n>>[1] = m /\ <<m, n>>[2] = n
      OBVIOUS
    <2> QED
      BY <2>1
  <1>2. n \in Board => Weight(n, n) = 10
    <2>1. n \in Board => n < size_world /\ n - 2 * size_world # n
      BY BoardSize DEF Board
    <2> QED
      BY <2>1, WeightIs
  <1>3. \A s \in F : s.dest = n => s.id.src = n
    BY <1>1 DEF Carries
  <1>4. Heard(n, E, F, -10) = {}
    <2>1. 10 # -10
      OBVIOUS
    <2>2. \A m \in GoLNeurons : ~ (<<m, n>> \in E /\ Weight(m, n) = -10)
      BY <1>1, <1>2, <2>1
    <2> QED
      BY <2>2 DEF Heard
  <1>5. CASE <<n, n>> \in E /\ ~ \E s \in F : s.dest = n
    <2>1. Heard(n, E, F, 10) = {n}
      <3>1. n \in Heard(n, E, F, 10)
        BY <1>1, <1>2, <1>5 DEF Heard
      <3>2. \A m \in Heard(n, E, F, 10) : m = n
        BY <1>1 DEF Heard
      <3> QED
        BY <3>1, <3>2
    <2>2. Cardinality(Heard(n, E, F, 10)) = 1 /\ Cardinality(Heard(n, E, F, -10)) = 0
      BY <1>4, <2>1, CountOfHeard
    <2> QED
      BY <1>5, <2>2 DEF Balance
  <1>6. CASE ~ (<<n, n>> \in E /\ ~ \E s \in F : s.dest = n)
    <2>1. Heard(n, E, F, 10) = {}
      <3> SUFFICES ASSUME NEW m \in Heard(n, E, F, 10) PROVE FALSE
        OBVIOUS
      <3>1. /\ <<m, n>> \in E /\ \A e \in F : ~ (e.id.src = m /\ e.dest = n)
        BY DEF Heard
      <3>2. m = n
        BY <1>1, <3>1
      <3>3. PICK s \in F : s.dest = n
        BY <1>6, <3>1, <3>2
      <3> QED
        BY <1>3, <3>1, <3>2, <3>3
    <2>2. Cardinality(Heard(n, E, F, 10)) = 0 /\ Cardinality(Heard(n, E, F, -10)) = 0
      BY <1>4, <2>1, CountOfHeard
    <2> QED
      BY <1>6, <2>2 DEF Balance
  <1> QED
    BY <1>5, <1>6

LEMMA ThresholdIs ==
    ASSUME NEW n \in GoLNeurons
    PROVE  /\ Threshold(n) \in Nat
           /\ n \in Board => Threshold(n) = 9
           /\ n \notin Board /\ n < 2 * size_world => Threshold(n) = 29
           /\ ~ n < 2 * size_world => Threshold(n) = 39
           /\ n \in Board <=> n < size_world
           /\ n \in Nat
  BY BoardSize DEF Threshold, Board, GoLNeurons

\* What the board's spikes make fire: a cell on the board nothing, the life and the kill
\* cells what they count.
LEMMA BoardBalance ==
    ASSUME NEW A, A \subseteq Board, NEW E,
           E = {p \in Pairs : p[1] \in A /\ p[2] \in To(p[1])},
           NEW n \in GoLNeurons
    PROVE  Balance(n, E, {}) > Threshold(n) <=> CountsEnough(n, A)
  <1> DEFINE S == size_world
  <1>1. /\ S \in Nat \ {0} /\ n \in Nat /\ n < 3 * S
        /\ \A m \in A : m \in GoLNeurons /\ m \in Nat /\ m < S
    BY BoardSize, BoardIsNeurons DEF GoLNeurons, Board
  <1>2. \A m \in GoLNeurons : <<m, n>> \in E <=> m \in A /\ n \in To(m)
    <2> SUFFICES ASSUME NEW m \in GoLNeurons
                 PROVE  <<m, n>> \in E <=> m \in A /\ n \in To(m)
      OBVIOUS
    <2>1. <<m, n>> \in Pairs /\ <<m, n>>[1] = m /\ <<m, n>>[2] = n
      BY DEF Pairs
    <2> QED
      BY <2>1
  <1>3. \A m \in A : To(m) = {S + a : a \in Around(m)} \cup {2 * S + a : a \in Around(m)}
    BY <1>1 DEF To
  <1>4. \A m \in A, c \in Board : c \in Around(m) <=> m \in Around(c)
    BY AroundIs
  <1>5. \A m \in A : \A a \in Around(m) : a \in Board /\ a \in Nat /\ a < S
    BY <1>1 DEF Around, Board
  <1>6. Heard(n, E, {}, -10) = {}
    <2>1. \A m \in GoLNeurons : m \in A => Weight(m, n) # -10
      BY <1>1, WeightIs
    <2> QED
      BY <1>2, <2>1 DEF Heard
  <1>7. \A m : m \in Heard(n, E, {}, 10) <=> m \in A /\ n \in To(m) /\ n - 2 * S # m
    <2>1. \A m \in A : Weight(m, n) = 10 <=> n - 2 * S # m
      BY <1>1, WeightIs
    <2> QED
      BY <1>1, <1>2, <2>1 DEF Heard
  <1>8. Cardinality(Heard(n, E, {}, -10)) = 0 /\ Cardinality(Heard(n, E, {}, 10)) \in Nat
    BY <1>6, CountOfHeard
  <1>9. CASE n < S
    <2>1. Heard(n, E, {}, 10) = {}
      <3>1. \A m \in A : n \notin To(m)
        BY <1>1, <1>9, ToAreNeurons
      <3> QED
        BY <1>7, <3>1
    <2>2. Balance(n, E, {}) = 0
      BY <1>8, <2>1, CountOfHeard DEF Balance
    <2> QED
      BY <1>1, <1>9, <2>2, ThresholdIs DEF CountsEnough
  <1>10. CASE S <= n /\ n < 2 * S
    <2> DEFINE c == n - S
    <2>1. c \in Board /\ n = S + c /\ c \in Nat /\ c < S
      BY <1>1, <1>10 DEF Board
    <2> HIDE DEF c
    <2>2. \A m \in A : n \in To(m) <=> c \in Around(m)
      <3> SUFFICES ASSUME NEW m \in A PROVE n \in To(m) <=> c \in Around(m)
        OBVIOUS
      <3>1. \A a \in Around(m) : n # 2 * S + a /\ (n = S + a <=> a = c)
        BY <1>1, <1>5, <2>1
      <3> QED
        BY <1>3, <3>1
    <2>3. \A m \in A : n - 2 * S # m
      BY <1>1, <1>10
    <2>4. Heard(n, E, {}, 10) = Around(c) \cap A
      BY <1>4, <1>7, <2>1, <2>2, <2>3
    <2>5. /\ Balance(n, E, {}) = 10 * Cardinality(Around(c) \cap A)
          /\ Cardinality(Around(c) \cap A) \in Nat
      <3> DEFINE H == Heard(n, E, {}, 10)
      <3>1. Balance(n, E, {}) = 10 * Cardinality(H)
        BY <1>8 DEF Balance
      <3> QED
        BY <1>8, <2>4, <3>1, Zenon
    <2>6. CountsEnough(n, A) <=> Cardinality(Around(c) \cap A) >= 3
      BY <1>1, <1>10 DEF CountsEnough, c
    <2>7. Threshold(n) = 29
      BY <1>1, <1>10, ThresholdIs
    <2> QED
      BY <2>5, <2>6, <2>7
  <1>11. CASE 2 * S <= n
    <2> DEFINE c == n - 2 * S
    <2>1. c \in Board /\ n = 2 * S + c /\ c \in Nat /\ c < S
      BY <1>1, <1>11 DEF Board
    <2>2. \A m \in A : n \in To(m) <=> c \in Around(m)
      <3> SUFFICES ASSUME NEW m \in A PROVE n \in To(m) <=> c \in Around(m)
        OBVIOUS
      <3>1. \A a \in Around(m) : n # S + a /\ (n = 2 * S + a <=> a = c)
        BY <1>1, <1>5, <2>1
      <3> HIDE DEF c
      <3> QED
        BY <1>3, <3>1
    <2>3. \A m \in A : n - 2 * S # m <=> m # c
      OBVIOUS
    <2> HIDE DEF c
    <2>4. Heard(n, E, {}, 10) = (Around(c) \ {c}) \cap A
      BY <1>4, <1>7, <2>1, <2>2, <2>3
    <2>5. /\ Balance(n, E, {}) = 10 * Cardinality((Around(c) \ {c}) \cap A)
          /\ Cardinality((Around(c) \ {c}) \cap A) \in Nat
      <3> DEFINE H == Heard(n, E, {}, 10)
      <3>1. Balance(n, E, {}) = 10 * Cardinality(H)
        BY <1>8 DEF Balance
      <3> QED
        BY <1>8, <2>4, <3>1, Zenon
    <2>6. CountsEnough(n, A) <=> Cardinality((Around(c) \ {c}) \cap A) >= 4
      BY <1>1, <1>11 DEF CountsEnough, c
    <2>7. Threshold(n) = 39
      BY <1>1, <1>11, ThresholdIs
    <2> QED
      BY <2>5, <2>6, <2>7
  <1> QED
    BY <1>1, <1>9, <1>10, <1>11

\* What the spikes of the life and the kill cells make fire.
LEMMA CellBalance ==
    ASSUME NEW L, L \subseteq GoLNeurons, L \cap Board = {}, NEW E,
           E = {p \in Pairs : p[1] \in L /\ p[2] \in To(p[1])},
           NEW n \in GoLNeurons
    PROVE  Balance(n, E, {}) > Threshold(n)
              <=> n \in Board /\ size_world + n \in L /\ 2 * size_world + n \notin L
  <1> DEFINE S == size_world
  <1>1. /\ S \in Nat \ {0} /\ n \in Nat /\ n < 3 * S
        /\ \A m \in L : m \in GoLNeurons /\ m \in Nat /\ m < 3 * S /\ ~ m < S
    BY BoardSize DEF GoLNeurons, Board
  <1>2. \A m \in GoLNeurons : <<m, n>> \in E <=> m \in L /\ n \in To(m)
    <2> SUFFICES ASSUME NEW m \in GoLNeurons
                 PROVE  <<m, n>> \in E <=> m \in L /\ n \in To(m)
      OBVIOUS
    <2>1. <<m, n>> \in Pairs /\ <<m, n>>[1] = m /\ <<m, n>>[2] = n
      BY DEF Pairs
    <2> QED
      BY <2>1
  <1>3. \A m \in L : n \in To(m) <=> n = IF m < 2 * S THEN m - S ELSE m - 2 * S
    BY <1>1 DEF To
  <1>4. \A m \in L : /\ Weight(m, n) = -10 <=> ~ m < 2 * S
                     /\ Weight(m, n) = 10 <=> m < 2 * S
    <2> SUFFICES ASSUME NEW m \in L
                 PROVE  /\ Weight(m, n) = -10 <=> ~ m < 2 * S
                        /\ Weight(m, n) = 10 <=> m < 2 * S
      OBVIOUS
    <2>1. Weight(m, n) = IF m < 2 * S THEN 10 ELSE -10
      BY <1>1 DEF Weight, initialize_weight_neurons
    <2> QED
      BY <2>1
  <1>5. \A m : /\ m \in Heard(n, E, {}, 10) <=> m \in L /\ m < 2 * S /\ n = m - S
               /\ m \in Heard(n, E, {}, -10) <=> m \in L /\ ~ m < 2 * S /\ n = m - 2 * S
    BY <1>1, <1>2, <1>3, <1>4 DEF Heard
  <1>6. \A m \in L : /\ m < 2 * S /\ n = m - S <=> m = S + n /\ n < S
                     /\ ~ m < 2 * S /\ n = m - 2 * S <=> m = 2 * S + n
                     /\ ~ m < 2 * S /\ n = m - 2 * S => n < S
    BY <1>1
  <1>7. n \in Board <=> n < S
    BY ThresholdIs
  <1> HIDE DEF S
  <1>8. Cardinality(Heard(n, E, {}, 10)) = IF n \in Board /\ S + n \in L THEN 1 ELSE 0
    <2>1. CASE n \in Board /\ S + n \in L
      <3>1. Heard(n, E, {}, 10) = {S + n}
        BY <1>5, <1>6, <1>7, <2>1
      <3> QED
        BY <2>1, <3>1, CountOfHeard
    <2>2. CASE ~ (n \in Board /\ S + n \in L)
      <3>1. Heard(n, E, {}, 10) = {}
        BY <1>5, <1>6, <1>7, <2>2
      <3> QED
        BY <2>2, <3>1, CountOfHeard
    <2> QED
      BY <2>1, <2>2
  <1>9. Cardinality(Heard(n, E, {}, -10)) = IF 2 * S + n \in L THEN 1 ELSE 0
    <2>1. CASE 2 * S + n \in L
      <3>1. Heard(n, E, {}, -10) = {2 * S + n}
        BY <1>5, <1>6, <2>1
      <3> QED
        BY <2>1, <3>1, CountOfHeard
    <2>2. CASE 2 * S + n \notin L
      <3>1. Heard(n, E, {}, -10) = {}
        BY <1>5, <1>6, <2>2
      <3> QED
        BY <2>2, <3>1, CountOfHeard
    <2> QED
      BY <2>1, <2>2
  <1>10. Balance(n, E, {}) = (IF n \in Board /\ S + n \in L THEN 10 ELSE 0)
                                - (IF 2 * S + n \in L THEN 10 ELSE 0)
    BY <1>8, <1>9 DEF Balance
  <1>11. CASE n \in Board
    <2>1. Threshold(n) = 9
      BY <1>11, ThresholdIs
    <2> QED
      BY <1>10, <1>11, <2>1 DEF S
  <1>12. CASE n \notin Board
    <2>1. Threshold(n) \in Nat
      BY ThresholdIs
    <2>2. Balance(n, E, {}) <= 0 /\ Balance(n, E, {}) \in Int
      BY <1>10, <1>12
    <2> QED
      BY <1>12, <2>1, <2>2
  <1> QED
    BY <1>11, <1>12

\* Alive with one spike, born or kept with three, killed with four: the rules of Life.
LEMMA RulesOfLife ==
    ASSUME NEW A, A \subseteq Board, NEW c \in Board
    PROVE  CountsEnough(size_world + c, A) /\ ~ CountsEnough(2 * size_world + c, A)
              <=> LET n == Cardinality(Conway!Neighbours(c) \cap A)
                  IN  n = 3 \/ (n = 2 /\ c \in A)
  <1> DEFINE S == size_world
             B == (Around(c) \ {c}) \cap A
             n == Cardinality(B)
  <1>1. S \in Nat \ {0} /\ c \in Nat /\ c < S
    BY BoardSize DEF Board
  <1>2. /\ Around(c) \subseteq Board /\ c \in Around(c)
        /\ Conway!Neighbours(c) = Around(c) \ {c}
    BY AroundIs
  <1>3. IsFiniteSet(B) /\ n \in Nat
    <2>1. B \subseteq GoLNeurons
      BY <1>2, BoardIsNeurons
    <2> HIDE DEF B
    <2> QED
      BY <2>1, FiniteNeurons
  <1>4. Cardinality(Around(c) \cap A) = IF c \in A THEN n + 1 ELSE n
    <2>1. CASE c \in A
      <3>1. Around(c) \cap A = B \cup {c} /\ c \notin B
        BY <1>2, <2>1
      <3> HIDE DEF B
      <3> QED
        BY <1>3, <2>1, <3>1, FS_AddElement
    <2>2. CASE c \notin A
      <3>1. Around(c) \cap A = B
        BY <2>2
      <3> QED
        BY <2>2, <3>1
    <2> QED
      BY <2>1, <2>2
  <1> HIDE DEF B, n
  <1>5. CountsEnough(S + c, A) <=> Cardinality(Around(c) \cap A) >= 3
    <2> DEFINE k == S + c
    <2>1. S <= k /\ k < 2 * S /\ k - S = c /\ ~ 2 * S <= k
      BY <1>1
    <2> HIDE DEF k
    <2>2. CountsEnough(k, A) <=> Cardinality(Around(k - S) \cap A) >= 3
      BY <2>1 DEF CountsEnough
    <2>3. Around(k - S) \cap A = Around(c) \cap A
      BY <2>1
    <2> QED
      BY <2>2, <2>3 DEF k
  <1>6. CountsEnough(2 * S + c, A) <=> n >= 4
    <2> DEFINE k == 2 * S + c
    <2>1. ~ k < 2 * S /\ 2 * S <= k /\ k - 2 * S = c
      BY <1>1
    <2> HIDE DEF k
    <2>2. CountsEnough(k, A) <=> Cardinality((Around(k - 2 * S) \ {k - 2 * S}) \cap A) >= 4
      BY <2>1 DEF CountsEnough
    <2>3. (Around(k - 2 * S) \ {k - 2 * S}) \cap A = (Around(c) \ {c}) \cap A
      BY <2>1
    <2> QED
      BY <2>2, <2>3 DEF k, B, n
  <1>7. Cardinality(Conway!Neighbours(c) \cap A) = n
    BY <1>2 DEF B, n
  <1> QED
    BY <1>3, <1>4, <1>5, <1>6, <1>7 DEF S

-----------------------------------------------------------------------------
(* Spikes come and go.                                                      *)

Fires(E) == {n \in GoLNeurons : Balance(n, E, {}) > Threshold(n)}

\* The pairs of a neuron of A and one it leads to.
From(A) == {p \in Pairs : p[1] \in A /\ p[2] \in To(p[1])}

\* A spike that is delivered moves one neuron from those it is still to hear of.
LEMMA BalanceOnDelivery ==
    ASSUME NEW F, NEW E, E \subseteq Pairs, Carries(F, E), NEW s \in F, NEW n \in GoLNeurons
    PROVE  /\ s.dest \in GoLNeurons /\ s.current \in Int
           /\ Balance(n, E, F) \in Int
           /\ Balance(n, E, F \ {s}) = Balance(n, E, F) + (IF n = s.dest THEN s.current ELSE 0)
  <1> DEFINE n0 == s.dest
             m0 == s.id.src
             w0 == Weight(m0, n0)
             G == F \ {s}
             H(w) == Heard(n, E, F, w)
  <1>1. /\ <<m0, n0>> \in E /\ m0 \in GoLNeurons /\ n0 \in GoLNeurons
        /\ s.current = w0 /\ w0 \in {10, 0, -10}
    <2>1. <<m0, n0>> \in E /\ s.current = w0
      BY DEF Carries
    <2>2. m0 \in GoLNeurons /\ n0 \in GoLNeurons
      BY <2>1 DEF Pairs
    <2> QED
      BY <2>1, <2>2, WeightIs
  <1>2. \A w : IsFiniteSet(H(w)) /\ Cardinality(H(w)) \in Nat
    BY CountOfHeard
  <1>3. Balance(n, E, F) = 10 * Cardinality(H(10)) - 10 * Cardinality(H(-10))
    BY DEF Balance
  <1>4. \A m \in GoLNeurons :
           (\A e \in G : ~ (e.id.src = m /\ e.dest = n))
              <=> (\A e \in F : ~ (e.id.src = m /\ e.dest = n)) \/ (m = m0 /\ n = n0)
    <2> SUFFICES ASSUME NEW m \in GoLNeurons
                 PROVE  (\A e \in G : ~ (e.id.src = m /\ e.dest = n))
                           <=> (\A e \in F : ~ (e.id.src = m /\ e.dest = n)) \/ (m = m0 /\ n = n0)
      OBVIOUS
    <2>1. CASE m = m0 /\ n = n0
      <3>1. \A e \in G : ~ (e.id.src = m0 /\ e.dest = n0)
        BY DEF Carries
      <3> QED
        BY <2>1, <3>1
    <2>2. CASE ~ (m = m0 /\ n = n0)
      BY <2>2
    <2> QED
      BY <2>1, <2>2
  <1>5. m0 \notin Heard(n0, E, F, w0)
    BY DEF Heard
  <1> HIDE DEF n0, m0, w0, G
  <1>6. \A w : Heard(n, E, G, w) = IF n = n0 /\ w = w0 THEN H(w) \cup {m0} ELSE H(w)
    <2> SUFFICES ASSUME NEW w
                 PROVE  Heard(n, E, G, w) = IF n = n0 /\ w = w0 THEN H(w) \cup {m0} ELSE H(w)
      OBVIOUS
    <2>1. \A m : m \in Heard(n, E, G, w) <=>
                    m \in H(w) \/ (m = m0 /\ n = n0 /\ <<m, n>> \in E /\ m \in GoLNeurons /\ Weight(m, n) = w)
      BY <1>4 DEF Heard
    <2>2. \A m : m \in Heard(n, E, G, w) <=> m \in H(w) \/ (m = m0 /\ n = n0 /\ w = w0)
      BY <1>1, <2>1 DEF w0
    <2> HIDE DEF H
    <2> QED
      BY <2>2
  <1>7. Balance(n, E, G) = 10 * Cardinality(Heard(n, E, G, 10)) - 10 * Cardinality(Heard(n, E, G, -10))
    BY DEF Balance
  <1>8. CASE n # n0 \/ w0 = 0
    <2>1. Heard(n, E, G, 10) = H(10) /\ Heard(n, E, G, -10) = H(-10)
      <3>1. ~ (n = n0 /\ 10 = w0) /\ ~ (n = n0 /\ -10 = w0)
        BY <1>8
      <3> QED
        BY <1>6, <3>1
    <2>2. Balance(n, E, G) = Balance(n, E, F)
      BY <1>3, <1>7, <2>1
    <2> HIDE DEF H
    <2> QED
      BY <1>1, <1>2, <1>3, <1>8, <2>2 DEF n0, G
  <1>9. CASE n = n0 /\ w0 # 0
    <2>1. /\ Heard(n, E, G, w0) = H(w0) \cup {m0}
          /\ \A w : w # w0 => Heard(n, E, G, w) = H(w)
      BY <1>6, <1>9
    <2>2. Cardinality(H(w0) \cup {m0}) = Cardinality(H(w0)) + 1
      BY <1>2, <1>5, <1>9, FS_AddElement
    <2> HIDE DEF H
    <2>3. CASE w0 = 10
      <3>0. -10 # w0
        BY <2>3
      <3>1. Balance(n, E, G) = 10 * (Cardinality(H(10)) + 1) - 10 * Cardinality(H(-10))
        BY <1>7, <2>1, <2>2, <2>3, <3>0
      <3> QED
        BY <1>1, <1>2, <1>3, <1>9, <2>3, <3>1 DEF n0, G
    <2>4. CASE w0 = -10
      <3>1. 10 # w0
        BY <2>4
      <3>2. Balance(n, E, G) = 10 * Cardinality(H(10)) - 10 * (Cardinality(H(-10)) + 1)
        BY <1>7, <2>1, <2>2, <2>4, <3>1
      <3> QED
        BY <1>1, <1>2, <1>3, <1>9, <2>4, <3>2 DEF n0, G
    <2> QED
      BY <1>1, <1>9, <2>3, <2>4
  <1> QED
    BY <1>8, <1>9

\* There is a message for every pair.
CarriesAll(M, D) == Carries(M, D) /\ \A p \in D : \E e \in M : e.id.src = p[1] /\ e.dest = p[2]

OtherSources(E, D) == \A p \in E : \A q \in D : p[1] # q[1]

\* Spikes that are sent, one for each of some new pairs, change nothing of what was heard.
LEMMA HeardOnSending ==
    ASSUME NEW F, NEW E, NEW M, NEW D, Carries(F, E), CarriesAll(M, D), OtherSources(E, D)
    PROVE  /\ Carries(F \cup M, E \cup D)
           /\ \A n, w : Heard(n, E \cup D, F \cup M, w) = Heard(n, E, F, w)
  <1>0. /\ Carries(M, D) /\ \A p \in D : \E e \in M : e.id.src = p[1] /\ e.dest = p[2]
        /\ \A p \in E : \A q \in D : p[1] # q[1]
    BY DEF CarriesAll, OtherSources
  <1>1. \A p, n : <<p, n>>[1] = p /\ <<p, n>>[2] = n
    OBVIOUS
  <1>2. ASSUME NEW e \in F, NEW f \in M PROVE e.id.src # f.id.src
    <2>1. <<e.id.src, e.dest>> \in E /\ <<f.id.src, f.dest>> \in D
      BY <1>0 DEF Carries
    <2> QED
      BY <1>0, <1>1, <2>1
  <1>3. Carries(F \cup M, E \cup D)
    <2>1. \A e \in F \cup M : <<e.id.src, e.dest>> \in E \cup D /\ e.current = Weight(e.id.src, e.dest)
      BY <1>0 DEF Carries
    <2>2. \A e, f \in F \cup M : e.id.src = f.id.src /\ e.dest = f.dest => e = f
      BY <1>0, <1>2 DEF Carries
    <2> QED
      BY <2>1, <2>2 DEF Carries
  <1>4. ASSUME NEW n, NEW w, NEW m \in GoLNeurons
        PROVE  m \in Heard(n, E \cup D, F \cup M, w) <=> m \in Heard(n, E, F, w)
    <2>1. CASE <<m, n>> \in D
      <3>1. \E e \in M : e.id.src = m /\ e.dest = n
        BY <1>0, <1>1, <2>1
      <3>2. <<m, n>> \notin E
        BY <1>0, <1>1, <2>1
      <3> QED
        BY <3>1, <3>2 DEF Heard
    <2>2. CASE <<m, n>> \notin D
      <3>1. \A e \in M : ~ (e.id.src = m /\ e.dest = n)
        BY <1>0, <2>2 DEF Carries
      <3> QED
        BY <2>2, <3>1 DEF Heard
    <2> QED
      BY <2>1, <2>2
  <1>5. \A n, w : Heard(n, E \cup D, F \cup M, w) = Heard(n, E, F, w)
    <2>1. \A n, E1, F1, w : Heard(n, E1, F1, w) \subseteq GoLNeurons
      BY DEF Heard
    <2> SUFFICES ASSUME NEW n, NEW w
                 PROVE  Heard(n, E \cup D, F \cup M, w) = Heard(n, E, F, w)
      OBVIOUS
    <2>2. \A m : m \in Heard(n, E \cup D, F \cup M, w) <=> m \in Heard(n, E, F, w)
      BY <1>4, <2>1
    <2> QED
      BY <2>2
  <1> QED
    BY <1>3, <1>5

\* The spikes of neurons that fire together: one for each pair of such a neuron and one it
\* leads to, all due at one time.
LEMMA WhatIsSent ==
    ASSUME BuiltIn, NEW A, A \subseteq GoLNeurons, NEW t \in Nat,
           NEW M, M = Sent(UNION {send_spike(n, t) : n \in A})
    PROVE  /\ Carries(M, From(A))
           /\ \A e \in M : e.time = t + (Beat \div 2) /\ e.time < End
           /\ t + (Beat \div 2) < End =>
                 \A p \in From(A) : \E e \in M : e.id.src = p[1] /\ e.dest = p[2]
  <1>1. ASSUME NEW e \in M
        PROVE  /\ e.id.src \in A /\ e \in send_spike(e.id.src, t) /\ e.dest \in To(e.id.src)
               /\ e.current = Weight(e.id.src, e.dest)
               /\ e.time = t + (Beat \div 2) /\ e.time < End
    <2>1. PICK n \in A : e \in send_spike(n, t)
      BY DEF Sent
    <2>2. /\ e.id.src = n /\ e.dest \in To(n) /\ e.current = Weight(n, e.dest)
          /\ e.time = t + (Beat \div 2)
      BY <2>1, SpikesOfANeuron
    <2>3. e.time < End
      BY DEF Sent
    <2> QED
      BY <2>1, <2>2, <2>3
  <1>2. \A n \in A : \A m \in To(n) : <<n, m>> \in From(A)
    <2> SUFFICES ASSUME NEW n \in A, NEW m \in To(n) PROVE <<n, m>> \in From(A)
      OBVIOUS
    <2>1. n \in GoLNeurons /\ m \in GoLNeurons
      BY ToAreNeurons
    <2>2. <<n, m>> \in Pairs /\ <<n, m>>[1] = n /\ <<n, m>>[2] = m
      BY <2>1 DEF Pairs
    <2> QED
      BY <2>2 DEF From
  <1>3. Carries(M, From(A))
    <2>1. ASSUME NEW e \in M, NEW f \in M, e.id.src = f.id.src, e.dest = f.dest
          PROVE  e = f
      <3> DEFINE n == e.id.src
      <3>1. n \in GoLNeurons /\ e \in send_spike(n, t) /\ f \in send_spike(n, t)
        BY <1>1, <2>1
      <3> HIDE DEF n
      <3> QED
        BY <2>1, <3>1, SpikesOfANeuron
    <2> QED
      BY <1>1, <1>2, <2>1 DEF Carries
  <1>4. ASSUME t + (Beat \div 2) < End, NEW p \in From(A)
        PROVE  \E e \in M : e.id.src = p[1] /\ e.dest = p[2]
    <2>1. p[1] \in A /\ p[1] \in GoLNeurons /\ p[2] \in To(p[1])
      BY DEF From
    <2>2. PICK e \in send_spike(p[1], t) : e.dest = p[2]
      BY <2>1, SpikesOfANeuron
    <2>3. e.id.src = p[1] /\ e.time = t + (Beat \div 2)
      BY <2>1, <2>2, SpikesOfANeuron
    <2>4. e \in M
      BY <1>4, <2>1, <2>3 DEF Sent
    <2> QED
      BY <2>2, <2>3, <2>4
  <1> QED
    BY <1>1, <1>3, <1>4

LEMMA BeatAhead ==
    ASSUME NEW b \in Nat
    PROVE  /\ b * Beat \in Nat /\ (b + 1) * Beat \in Nat /\ b + 1 \in Nat
           /\ (b + 1) * Beat < End => InTime(b)
           /\ InTime(b + 1) => InTime(b)
           /\ \A a \in Nat : a * Beat = (b + 1) * Beat => a = b + 1
           /\ \A time \in Nat : /\ time \div Beat \in Nat
                                /\ time < (b + 1) * Beat => time \div Beat <= b
                                /\ time >= (b + 1) * Beat => time \div Beat >= b + 1
           /\ (b * Beat + (Beat \div 2)) \div Beat = b
  <1>1. Beat \in Nat \ {0} /\ End \in Nat /\ Beat \div 2 \in Nat /\ Beat \div 2 < Beat
    BY DriverAssumption
  <1>2. b * Beat + Beat <= (b + 1) * Beat /\ b * Beat \in Nat /\ (b + 1) * Beat \in Nat
    BY <1>1, Grows
  <1>3. (b + 1) * Beat < End => InTime(b)
    BY <1>1, <1>2 DEF InTime
  <1>4. InTime(b + 1) => InTime(b)
    <2>1. InTime(b + 1) => (b + 1) * Beat + (Beat \div 2) < End
      BY DEF InTime
    <2> QED
      BY <1>1, <1>2, <1>3, <2>1
  <1>5. ASSUME NEW a \in Nat, a * Beat = (b + 1) * Beat PROVE a = b + 1
    <2>1. CASE a < b + 1
      <3>1. a * Beat + Beat <= (b + 1) * Beat /\ a * Beat \in Nat
        BY <1>1, <2>1, Grows
      <3> QED
        BY <1>1, <1>2, <1>5, <3>1
    <2>2. CASE b + 1 < a
      <3>1. (b + 1) * Beat + Beat <= a * Beat /\ a * Beat \in Nat
        BY <1>1, <2>2, Grows
      <3> QED
        BY <1>1, <1>2, <1>5, <3>1
    <2> QED
      BY <2>1, <2>2
  <1>6. ASSUME NEW time \in Nat
        PROVE  /\ time \div Beat \in Nat
               /\ time < (b + 1) * Beat => time \div Beat <= b
               /\ time >= (b + 1) * Beat => time \div Beat >= b + 1
    <2> DEFINE q == time \div Beat
               r == time % Beat
    <2>1. q \in Nat /\ r \in 0 .. Beat - 1 /\ time = Beat * q + r
      BY <1>1, Quotient
    <2> HIDE DEF q, r
    <2>2. time = q * Beat + r /\ q * Beat \in Nat
      BY <1>1, <2>1
    <2>3. ASSUME time < (b + 1) * Beat PROVE q <= b
      <3> SUFFICES ASSUME b + 1 <= q PROVE FALSE
        BY <2>1
      <3>1. CASE b + 1 = q
        BY <1>1, <1>2, <2>1, <2>2, <2>3, <3>1
      <3>2. CASE b + 1 < q
        <4>1. (b + 1) * Beat + Beat <= q * Beat
          BY <1>1, <2>1, <3>2, Grows
        <4> QED
          BY <1>1, <1>2, <2>1, <2>2, <2>3, <4>1
      <3> QED
        BY <2>1, <3>1, <3>2
    <2>4. ASSUME time >= (b + 1) * Beat PROVE q >= b + 1
      <3> SUFFICES ASSUME q < b + 1 PROVE FALSE
        BY <2>1
      <3>1. q * Beat + Beat <= (b + 1) * Beat
        BY <1>1, <2>1, Grows
      <3> QED
        BY <1>1, <1>2, <2>1, <2>2, <2>4, <3>1
    <2> QED
      BY <2>1, <2>3, <2>4 DEF q
  <1>7. (b * Beat + (Beat \div 2)) \div Beat = b
    <2>1. Beat \div 2 \in 0 .. Beat - 1
      BY <1>1
    <2> QED
      BY <1>1, <2>1, QuotientIs
  <1> QED
    BY <1>2, <1>3, <1>4, <1>5, <1>6, <1>7

-----------------------------------------------------------------------------
(* The invariant: neurons need not be at the same beat.                     *)

\* Who fired at a beat and whom that reaches, in time; before the first beat the cells that
\* are given, each reaching itself.
Led(G, k) ==
    IF k = 0 THEN {<<c, c>> : c \in G}
    ELSE {p \in Pairs : InTime(k) /\ <<p[1], k * Beat>> \in firings /\ p[2] \in To(p[1])}

\* What is to arrive between the k-th beat and the next.
Arriving(k) == {e \in flight : e.time \div Beat = k}

Played(G) ==
    /\ G \subseteq Board
    /\ NeuronsAre
    /\ beats = [n \in GoLNeurons |-> beats[n]] /\ \A n \in GoLNeurons : beats[n] \in Nat
    \* What is on its way is what was sent, and has not been passed by a beat.
    /\ \A e \in flight : e.time \in Nat /\ e.time \div Beat >= beats[e.dest]
    /\ \A k \in Nat : Carries(Arriving(k), Led(G, k))
    \* A neuron has the balance of what it heard of since its beat, and of nothing later.
    /\ \A n \in GoLNeurons :
          \A k \in Nat :
             /\ k = beats[n] => neuron[n].current = Balance(n, Led(G, k), Arriving(k))
             /\ k > beats[n] => \A w : Heard(n, Led(G, k), Arriving(k), w) = {}
    \* Who fires is who has the balance for it; at odd beats only the board does.
    /\ \A f \in firings : \E n \in GoLNeurons : \E a \in 1 .. beats[n] : f = <<n, a * Beat>>
    /\ \A n \in GoLNeurons :
          \A a \in 1 .. beats[n] :
             InTime(a - 1) /\ (<<n, a * Beat>> \in firings <=> n \in Fires(Led(G, a - 1)))
    /\ \A n \in GoLNeurons :
          \A a \in Nat : a % 2 = 1 /\ <<n, a * Beat>> \in firings => n \in Board

\* No neuron is more than a beat ahead.
Together(b) ==
    /\ b \in Nat
    /\ \A n \in GoLNeurons : beats[n] = b \/ beats[n] = b + 1
    /\ \E n \in GoLNeurons : beats[n] = b

GoLInv == \E b, G : Played(G) /\ Together(b)

LEMMA LedIs ==
    ASSUME NEW G, G \subseteq Board, NEW k
    PROVE  Led(G, k) \subseteq Pairs
  BY BoardIsNeurons DEF Led, Pairs

LEMMA StartsQuiet ==
    ASSUME BuiltIn, Init
    PROVE  \E G : Played(G) /\ Together(0)
  <1>1. PICK input \in GoLSpikeInputs :
           flight = Sent(UNION {send_spike_from_StorableSpike(n, input[n]) : n \in GoLNeurons})
    BY DEF Init, BuiltIn
  <1>2. PICK alive \in SUBSET Board :
           input = [n \in GoLNeurons |-> IF n \in alive THEN <<[time |-> 1, intensity |-> 10]>> ELSE <<>>]
    BY DEF GoLSpikeInputs
  <1>3. ASSUME NEW e \in flight
        PROVE  e.dest \in Board /\ e = spike(e.dest, 1, 10, Id(e.dest, 0, 1))
    <2>1. PICK n \in GoLNeurons : e \in send_spike_from_StorableSpike(n, input[n])
      BY <1>1 DEF Sent
    <2>2. PICK i \in DOMAIN input[n] : e = spike(n, input[n][i].time, input[n][i].intensity, Id(n, 0, i))
      BY <2>1 DEF send_spike_from_StorableSpike
    <2>3. n \in alive
      <3> SUFFICES ASSUME n \notin alive PROVE FALSE
        OBVIOUS
      <3>1. input[n] = <<>>
        BY <1>2
      <3> QED
        BY <2>2, <3>1
    <2>4. input[n] = <<[time |-> 1, intensity |-> 10]>>
      BY <1>2, <2>3
    <2>5. i = 1 /\ input[n][1].time = 1 /\ input[n][1].intensity = 10
      BY <2>2, <2>4
    <2>6. e = spike(n, 1, 10, Id(n, 0, 1))
      BY <2>2, <2>5
    <2>7. e.dest = n
      BY <2>6 DEF spike
    <2> QED
      BY <2>3, <2>6, <2>7
  <1>4. ASSUME NEW e \in flight
        PROVE  e.id.src = e.dest /\ e.current = 10 /\ Weight(e.dest, e.dest) = 10
    <2>1. e.dest \in Board /\ e = spike(e.dest, 1, 10, Id(e.dest, 0, 1))
      BY <1>3
    <2> DEFINE c == e.dest
    <2>2. c \in Board /\ e = spike(c, 1, 10, Id(c, 0, 1))
      BY <2>1
    <2> HIDE DEF c
    <2>3. e.id.src = c /\ e.current = 10
      BY <2>2 DEF spike, Id
    <2>4. c \in GoLNeurons /\ c < size_world /\ c - 2 * size_world # c
      BY <2>2, BoardIsNeurons, BoardSize DEF Board
    <2>5. Weight(c, c) = 10
      BY <2>4, WeightIs
    <2> QED
      BY <2>3, <2>5 DEF c
  <1> DEFINE G == {e.dest : e \in flight}
             E == {<<c, c>> : c \in G}
  <1>5. G \subseteq Board
    BY <1>3
  <1>6. Carries(flight, E)
    <2>1. \A e \in flight : <<e.id.src, e.dest>> \in E /\ e.current = Weight(e.id.src, e.dest)
      BY <1>4
    <2>2. ASSUME NEW e \in flight, NEW f \in flight, e.dest = f.dest PROVE e = f
      <3>1. e = spike(e.dest, 1, 10, Id(e.dest, 0, 1)) /\ f = spike(f.dest, 1, 10, Id(f.dest, 0, 1))
        BY <1>3
      <3> QED
        BY <2>2, <3>1
    <2> HIDE DEF E
    <2> QED
      BY <2>1, <2>2 DEF Carries
  <1>7. ASSUME NEW n \in GoLNeurons
        PROVE  Balance(n, E, flight) = 0
    <2>1. ASSUME NEW w, NEW m \in Heard(n, E, flight, w) PROVE FALSE
      <3>1. <<m, n>> \in E /\ \A e \in flight : ~ (e.id.src = m /\ e.dest = n)
        BY <2>1 DEF Heard
      <3>2. PICK e \in flight : <<m, n>> = <<e.dest, e.dest>>
        BY <3>1
      <3> QED
        BY <1>4, <3>1, <3>2
    <2>2. \A w : Heard(n, E, flight, w) = {}
      BY <2>1
    <2> HIDE DEF E
    <2> QED
      BY <2>2, CountOfHeard DEF Balance
  <1> HIDE DEF G
  <1>8. \A n \in GoLNeurons : neuron[n] = GoLNeuron(n, 0, 0)
    BY DEF Init, BuiltIn, GoLInitialNeuron, initialize_LIF, GoLNeuron, Threshold
  <1>9. \A n \in GoLNeurons : GoLNeuron(n, 0, 0).current = 0
    BY DEF GoLNeuron
  <1>10. NeuronsAre
    <2>1. neuron = [n \in GoLNeurons |-> neuron[n]]
      BY DEF Init, BuiltIn
    <2>2. \A n \in GoLNeurons : neuron[n].current = 0
      BY <1>8, <1>9
    <2>3. \A n \in GoLNeurons : neuron[n] = GoLNeuron(n, 0, neuron[n].current)
      BY <1>8, <2>2
    <2> QED
      BY <2>1, <2>2, <2>3 DEF NeuronsAre
  <1>11. firings = {} /\ beats = [n \in GoLNeurons |-> 0] /\ \A n \in GoLNeurons : beats[n] = 0
    BY DEF Init, BuiltIn
  <1>12. \A e \in flight : e.time = 1 /\ e.time \div Beat = 0
    <2>1. 1 \div Beat = 0
      <3>1. Beat \in Nat /\ 1 < (0 + 1) * Beat /\ 0 \in Nat /\ 1 \in Nat
        BY DriverAssumption
      <3>2. 1 \div Beat \in Nat /\ 1 \div Beat <= 0
        BY <3>1, BeatAhead
      <3> QED
        BY <3>2
    <2> QED
      BY <1>3, <2>1 DEF spike
  <1>13. Led(G, 0) = E /\ Arriving(0) = flight
    BY <1>12 DEF Led, Arriving
  <1>14. \A k \in Nat \ {0} : Led(G, k) = {} /\ Arriving(k) = {}
    BY <1>11, <1>12 DEF Led, Arriving
  <1> HIDE DEF E
  <1>15. \A k \in Nat : Carries(Arriving(k), Led(G, k))
    <2>1. Carries({}, {})
      BY DEF Carries
    <2> QED
      BY <1>6, <1>13, <1>14, <2>1
  <1>16. \A n \in GoLNeurons :
            \A k \in Nat : k > beats[n] => \A w : Heard(n, Led(G, k), Arriving(k), w) = {}
    <2>1. \A k \in Nat : k > 0 => k \in Nat \ {0}
      OBVIOUS
    <2> QED
      BY <1>11, <1>14, <2>1 DEF Heard
  <1>17. \A n \in GoLNeurons :
            \A k \in Nat :
               k = beats[n] => neuron[n].current = Balance(n, Led(G, k), Arriving(k))
    BY <1>7, <1>8, <1>9, <1>11, <1>13
  <1>18. \A e \in flight : e.time \in Nat /\ e.time \div Beat >= beats[e.dest]
    BY <1>3, <1>11, <1>12, BoardIsNeurons
  <1>19. Played(G)
    BY <1>5, <1>10, <1>11, <1>15, <1>16, <1>17, <1>18 DEF Played
  <1>20. Together(0)
    <2>1. 0 \in GoLNeurons
      BY BoardSize DEF GoLNeurons
    <2> QED
      BY <1>11, <2>1 DEF Together
  <1> QED
    BY <1>19, <1>20

LEMMA DeliverKeeps ==
    ASSUME BuiltIn, NEW G, Played(G), NEW s \in flight, Deliver(s)
    PROVE  Played(G)'
  <1> DEFINE n0 == s.dest
             k0 == s.time \div Beat
             w0 == s.current
  <1>0. /\ G \subseteq Board /\ NeuronsAre
        /\ beats = [n \in GoLNeurons |-> beats[n]] /\ \A n \in GoLNeurons : beats[n] \in Nat
        /\ \A k \in Nat : Carries(Arriving(k), Led(G, k))
        /\ s.time \in Nat
    BY DEF Played
  <1>1. /\ flight' = flight \ {s} /\ beats' = beats /\ firings' = firings /\ beats[n0] = k0
        /\ neuron' = [neuron EXCEPT ![n0] = neurons_lif_integrate(@, w0)]
    BY DEF Deliver, BuiltIn
  <1>2. k0 \in Nat /\ s \in Arriving(k0)
    <2>1. k0 \in Nat
      BY <1>0, BeatAhead
    <2> QED
      BY <2>1 DEF Arriving
  <1>3. \A k \in Nat : Led(G, k)' = Led(G, k)
    BY <1>1 DEF Led
  <1>4. \A k \in Nat : Arriving(k)' = IF k = k0 THEN Arriving(k) \ {s} ELSE Arriving(k)
    BY <1>1 DEF Arriving
  <1>5. /\ n0 \in GoLNeurons /\ w0 \in Int
        /\ \A n \in GoLNeurons :
              /\ Balance(n, Led(G, k0), Arriving(k0)) \in Int
              /\ Balance(n, Led(G, k0), Arriving(k0) \ {s})
                    = Balance(n, Led(G, k0), Arriving(k0)) + (IF n = n0 THEN w0 ELSE 0)
    <2>1. Carries(Arriving(k0), Led(G, k0)) /\ Led(G, k0) \subseteq Pairs
      BY <1>0, <1>2, LedIs
    <2>2. 0 \in GoLNeurons
      BY BoardSize DEF GoLNeurons
    <2> QED
      BY <1>2, <2>1, <2>2, BalanceOnDelivery
  <1>6. ASSUME NEW x, NEW n \in GoLNeurons, NEW p, NEW k \in Int, x = GoLNeuron(n, p, k)
        PROVE  neurons_lif_integrate(x, w0) = GoLNeuron(n, p, k + w0) /\ k + w0 \in Int
    BY <1>5, <1>6 DEF neurons_lif_integrate, GoLNeuron
  <1> HIDE DEF n0, k0, w0
  <1>7. /\ neuron' = [n \in GoLNeurons |-> neuron'[n]]
        /\ \A n \in GoLNeurons : n # n0 => neuron'[n] = neuron[n]
        /\ neuron'[n0] = neurons_lif_integrate(neuron[n0], w0)
    BY <1>0, <1>1, <1>5 DEF NeuronsAre
  <1>8. PICK p \in Int : neuron[n0] = GoLNeuron(n0, p, neuron[n0].current)
    BY <1>0, <1>5 DEF NeuronsAre
  <1>9. /\ neuron[n0].current \in Int
        /\ neuron'[n0] = GoLNeuron(n0, p, neuron[n0].current + w0)
        /\ neuron[n0].current + w0 \in Int
    <2>1. neuron[n0].current \in Int
      BY <1>0, <1>5 DEF NeuronsAre
    <2> QED
      BY <1>5, <1>6, <1>7, <1>8, <2>1
  <1>10. neuron'[n0].current = neuron[n0].current + w0
    BY <1>9 DEF GoLNeuron
  <1>11. NeuronsAre'
    <2>1. ASSUME NEW n \in GoLNeurons
          PROVE  \E q \in Int : neuron'[n] = GoLNeuron(n, q, neuron'[n].current)
                                /\ neuron'[n].current \in Int
      <3>1. CASE n = n0
        BY <1>9, <1>10, <3>1
      <3>2. CASE n # n0
        BY <1>0, <1>7, <3>2 DEF NeuronsAre
      <3> QED
        BY <3>1, <3>2
    <2> QED
      BY <1>7, <2>1 DEF NeuronsAre
  <1>12. \A k \in Nat : Carries(Arriving(k)', Led(G, k)')
    <2>1. \A k \in Nat : Carries(Arriving(k) \ {s}, Led(G, k))
      BY <1>0 DEF Carries
    <2> QED
      BY <1>0, <1>3, <1>4, <2>1
  <1>13. ASSUME NEW n \in GoLNeurons, NEW k \in Nat, k = beats[n]
         PROVE  neuron'[n].current = Balance(n, Led(G, k)', Arriving(k)')
    <2>1. neuron[n].current = Balance(n, Led(G, k), Arriving(k))
      BY <1>13 DEF Played
    <2>2. CASE k # k0
      <3>1. n # n0
        BY <1>1, <1>13, <2>2
      <3> QED
        BY <1>3, <1>4, <1>7, <2>1, <2>2, <3>1
    <2>3. CASE k = k0
      <3>1. Balance(n, Led(G, k)', Arriving(k)')
               = neuron[n].current + (IF n = n0 THEN w0 ELSE 0)
        BY <1>3, <1>4, <1>5, <2>1, <2>3
      <3>2. neuron[n].current \in Int
        BY <1>0 DEF NeuronsAre
      <3> QED
        BY <1>7, <1>10, <3>1, <3>2
    <2> QED
      BY <2>2, <2>3
  <1>14. ASSUME NEW n \in GoLNeurons, NEW k \in Nat, k > beats[n], NEW w
         PROVE  Heard(n, Led(G, k)', Arriving(k)', w) = {}
    <2>1. Heard(n, Led(G, k), Arriving(k), w) = {}
      BY <1>14 DEF Played
    <2>2. CASE k # k0
      BY <1>3, <1>4, <2>1, <2>2
    <2>3. CASE k = k0
      <3>1. n # n0
        BY <1>0, <1>1, <1>14, <2>3
      <3>2. Arriving(k)' = Arriving(k) \ {s}
        BY <1>4, <2>3
      <3>3. \A m : (\A e \in Arriving(k) \ {s} : ~ (e.id.src = m /\ e.dest = n))
                      <=> (\A e \in Arriving(k) : ~ (e.id.src = m /\ e.dest = n))
        BY <3>1 DEF n0
      <3>4. Heard(n, Led(G, k), Arriving(k) \ {s}, w) = Heard(n, Led(G, k), Arriving(k), w)
        BY <3>3 DEF Heard
      <3> QED
        BY <1>3, <2>1, <3>2, <3>4
    <2> QED
      BY <2>2, <2>3
  <1>15. \A n \in GoLNeurons :
            \A a \in 1 .. beats[n] :
               InTime(a - 1) /\ (<<n, a * Beat>> \in firings' <=> n \in Fires(Led(G, a - 1)'))
    <2> SUFFICES ASSUME NEW n \in GoLNeurons, NEW a \in 1 .. beats[n]
                 PROVE  InTime(a - 1)
                        /\ (<<n, a * Beat>> \in firings' <=> n \in Fires(Led(G, a - 1)'))
      OBVIOUS
    <2>1. a - 1 \in Nat
      BY <1>0
    <2>2. InTime(a - 1) /\ (<<n, a * Beat>> \in firings <=> n \in Fires(Led(G, a - 1)))
      BY DEF Played
    <2> QED
      BY <1>1, <1>3, <2>1, <2>2
  <1>16. /\ \A e \in flight' : e.time \in Nat /\ e.time \div Beat >= beats'[e.dest]
         /\ \A f \in firings' : \E n \in GoLNeurons : \E a \in 1 .. beats'[n] : f = <<n, a * Beat>>
         /\ \A n \in GoLNeurons :
               \A a \in Nat : a % 2 = 1 /\ <<n, a * Beat>> \in firings' => n \in Board
    BY <1>1 DEF Played
  <1>17. \A n \in GoLNeurons :
            \A k \in Nat :
               /\ k = beats'[n] => neuron'[n].current = Balance(n, Led(G, k)', Arriving(k)')
               /\ k > beats'[n] => \A w : Heard(n, Led(G, k)', Arriving(k)', w) = {}
    BY <1>1, <1>13, <1>14
  <1>18. \A n \in GoLNeurons :
            \A a \in 1 .. beats'[n] :
               InTime(a - 1) /\ (<<n, a * Beat>> \in firings' <=> n \in Fires(Led(G, a - 1)'))
    BY <1>1, <1>15
  <1> QED
    BY <1>0, <1>1, <1>11, <1>12, <1>16, <1>17, <1>18 DEF Played

-----------------------------------------------------------------------------
(* A beat.                                                                  *)

LEMMA OddBeat ==
    ASSUME NEW G, Played(G), NEW k \in Nat, k % 2 = 1, InTime(k), NEW n \in GoLNeurons
    PROVE  n \in Fires(Led(G, k)) <=> CountsEnough(n, FiredAt(k * Beat))
  <1> DEFINE A == FiredAt(k * Beat)
             E == Led(G, k)
  <1>1. A \subseteq Board
    BY DEF FiredAt
  <1>2. \A m \in GoLNeurons : <<m, k * Beat>> \in firings <=> m \in A
    <2>1. \A m \in GoLNeurons : <<m, k * Beat>> \in firings => m \in Board
      BY DEF Played
    <2> QED
      BY <2>1, BoardIsNeurons DEF FiredAt
  <1>3. \A p \in Pairs : p[1] \in GoLNeurons
    BY DEF Pairs
  <1>4. k # 0
    OBVIOUS
  <1>5. E = {p \in Pairs : p[1] \in A /\ p[2] \in To(p[1])}
    BY <1>2, <1>3, <1>4 DEF Led
  <1> HIDE DEF A, E
  <1>6. Balance(n, E, {}) > Threshold(n) <=> CountsEnough(n, A)
    BY <1>1, <1>5, BoardBalance
  <1> QED
    BY <1>6 DEF Fires, A, E

LEMMA WhoFires ==
    ASSUME NEW G, Played(G), NEW b, Together(b), InTime(b)
    PROVE  /\ b = 0 => Fires(Led(G, 0)) = G
           /\ b % 2 = 0 /\ b # 0 =>
                 Fires(Led(G, b)) = {c \in Board :
                    /\ CountsEnough(size_world + c, FiredAt((b - 1) * Beat))
                    /\ ~ CountsEnough(2 * size_world + c, FiredAt((b - 1) * Beat))}
           /\ b % 2 = 0 => Fires(Led(G, b)) \subseteq Board
  <1>1. G \subseteq Board /\ b \in Nat
    BY DEF Played, Together
  <1>2. Fires(Led(G, 0)) = G
    <2> DEFINE E == {<<c, c>> : c \in G}
    <2>1. \A p \in E : p[1] = p[2] /\ p[1] \in Board
      BY <1>1
    <2>2. E \subseteq Pairs /\ Led(G, 0) = E
      BY <1>1, LedIs DEF Led
    <2>3. \A n : <<n, n>> \in E <=> n \in G
      OBVIOUS
    <2> HIDE DEF E
    <2>4. \A n \in GoLNeurons : Balance(n, E, {}) = IF n \in G THEN 10 ELSE 0
      <3>1. Carries({}, E)
        BY DEF Carries
      <3>2. \A n \in GoLNeurons : Balance(n, E, {}) = IF <<n, n>> \in E THEN 10 ELSE 0
        BY <2>1, <2>2, <3>1, InputBalance
      <3> QED
        BY <2>3, <3>2
    <2>5. \A n \in GoLNeurons : n \in Fires(E) <=> n \in G
      <3> SUFFICES ASSUME NEW n \in GoLNeurons PROVE n \in Fires(E) <=> n \in G
        OBVIOUS
      <3>1. Threshold(n) \in Nat /\ (n \in Board => Threshold(n) = 9)
        BY ThresholdIs
      <3>2. n \in Fires(E) <=> Balance(n, E, {}) > Threshold(n)
        BY DEF Fires
      <3>3. CASE n \in G
        BY <1>1, <2>4, <3>1, <3>2, <3>3
      <3>4. CASE n \notin G
        BY <2>4, <3>1, <3>2, <3>4
      <3> QED
        BY <3>3, <3>4
    <2>6. Fires(E) = G
      BY <1>1, <2>5, BoardIsNeurons DEF Fires
    <2> QED
      BY <2>2, <2>6
  <1>3. ASSUME b % 2 = 0, b # 0
        PROVE  Fires(Led(G, b)) = {c \in Board :
                    /\ CountsEnough(size_world + c, FiredAt((b - 1) * Beat))
                    /\ ~ CountsEnough(2 * size_world + c, FiredAt((b - 1) * Beat))}
    <2> DEFINE k == b - 1
               A == FiredAt(k * Beat)
               L == {n \in GoLNeurons : <<n, b * Beat>> \in firings}
               E == Led(G, b)
    <2>1. k \in Nat /\ k % 2 = 1 /\ b = k + 1
      BY <1>1, <1>3
    <2>2. InTime(k)
      BY <2>1, BeatAhead
    <2>3. \A n \in GoLNeurons : n \in L <=> CountsEnough(n, A)
      <3> SUFFICES ASSUME NEW n \in GoLNeurons PROVE n \in L <=> CountsEnough(n, A)
        OBVIOUS
      <3>1. b \in 1 .. beats[n]
        BY <1>1, <1>3 DEF Together
      <3>2. <<n, b * Beat>> \in firings <=> n \in Fires(Led(G, b - 1))
        BY <3>1 DEF Played
      <3>3. n \in Fires(Led(G, k)) <=> CountsEnough(n, FiredAt(k * Beat))
        <4> HIDE DEF k
        <4> QED
          BY <2>1, <2>2, OddBeat
      <3> QED
        BY <3>2, <3>3
    <2>4. \A p \in Pairs : p[1] \in GoLNeurons
      BY DEF Pairs
    <2>5. E = {p \in Pairs : p[1] \in L /\ p[2] \in To(p[1])}
      BY <1>3, <2>4 DEF Led
    <2>6. L \subseteq GoLNeurons
      OBVIOUS
    <2> HIDE DEF L, A, E
    <2>7. L \cap Board = {}
      <3> SUFFICES ASSUME NEW n \in Board, CountsEnough(n, A) PROVE FALSE
        BY <2>3, BoardIsNeurons
      <3>1. n \in Nat /\ n < size_world /\ size_world \in Nat
        BY BoardSize DEF Board
      <3> QED
        BY <3>1 DEF CountsEnough
    <2>8. \A n \in GoLNeurons :
             Balance(n, E, {}) > Threshold(n)
                <=> n \in Board /\ size_world + n \in L /\ 2 * size_world + n \notin L
      BY <2>5, <2>6, <2>7, CellBalance
    <2>9. \A n \in GoLNeurons :
             n \in Fires(E)
                <=> n \in Board /\ CountsEnough(size_world + n, A) /\ ~ CountsEnough(2 * size_world + n, A)
      BY <2>3, <2>8, BoardIsNeurons DEF Fires
    <2>10. Fires(E) = {c \in Board : CountsEnough(size_world + c, A)
                                     /\ ~ CountsEnough(2 * size_world + c, A)}
      BY <2>9, BoardIsNeurons DEF Fires
    <2> QED
      BY <2>10 DEF A, E
  <1>4. b % 2 = 0 => Fires(Led(G, b)) \subseteq Board
    BY <1>1, <1>2, <1>3
  <1> QED
    BY <1>2, <1>3, <1>4

\* The neurons of S take the beat after b, and those of A fire.
BeatTaken(b, S, A) ==
    /\ InTime(b) /\ (b + 1) * Beat < End
    /\ \A n \in S : beats[n] = b /\ \A e \in flight : e.dest = n => e.time >= (b + 1) * Beat
    /\ beats' = [n \in GoLNeurons |-> IF n \in S THEN b + 1 ELSE beats[n]]
    /\ NeuronsAre'
    /\ \A n \in S : neuron'[n].current = 0
    /\ \A n \in GoLNeurons \ S : neuron'[n] = neuron[n]
    /\ firings' = firings \cup {<<n, (b + 1) * Beat>> : n \in A}
    /\ flight' = flight \cup Sent(UNION {send_spike(n, (b + 1) * Beat) : n \in A})

LEMMA WhatABeatDoes ==
    ASSUME BuiltIn, NEW G, Played(G), NEW b, Together(b),
           NEW S, S \subseteq GoLNeurons, S # {}, TakeBeat(S),
           NEW A, A = S \cap Fires(Led(G, b))
    PROVE  BeatTaken(b, S, A)
  <1> DEFINE t == (b + 1) * Beat
             fire == {n \in S : leak_and_fire(neuron[n]).fired}
  <1>1. /\ b \in Nat /\ NeuronsAre /\ beats = [n \in GoLNeurons |-> beats[n]]
        /\ \A n \in GoLNeurons : beats[n] = b \/ beats[n] = b + 1
    BY DEF Played, Together
  <1>2. Neurons = GoLNeurons
    BY DEF BuiltIn
  <1>3. \A n \in S : beats[n] = b /\ NextBeat(n) = t /\ t < End
                     /\ \A e \in flight : e.dest = n => e.time >= t
    <2> SUFFICES ASSUME NEW n \in S
                 PROVE  beats[n] = b /\ NextBeat(n) = t /\ t < End
                        /\ \A e \in flight : e.dest = n => e.time >= t
      OBVIOUS
    <2>1. CanBeat(n)
      BY DEF TakeBeat
    <2>2. PICK m \in GoLNeurons : beats[m] = b
      BY DEF Together
    <2>3. beats[n] <= beats[m]
      BY <1>2, <2>1 DEF CanBeat
    <2>4. beats[n] = b
      BY <1>1, <2>2, <2>3
    <2>5. NextBeat(n) = t
      BY <2>4 DEF NextBeat
    <2> HIDE DEF t
    <2> QED
      BY <2>1, <2>4, <2>5 DEF CanBeat
  <1>4. t < End /\ InTime(b)
    BY <1>1, <1>3, BeatAhead
  <1>5. ASSUME NEW n \in S PROVE neuron[n].current = Balance(n, Led(G, b), {})
    <2>1. neuron[n].current = Balance(n, Led(G, b), Arriving(b))
      BY <1>1, <1>3, <1>5 DEF Played
    <2>2. \A e \in Arriving(b) : e.dest # n
      <3> SUFFICES ASSUME NEW e \in flight, e.time \div Beat = b, e.dest = n PROVE FALSE
        BY DEF Arriving
      <3>1. e.time >= t /\ e.time \in Nat
        BY <1>3, <1>5 DEF Played
      <3>2. e.time \div Beat >= b + 1
        BY <1>1, <3>1, BeatAhead
      <3> QED
        BY <1>1, <3>2
    <2>3. \A w : Heard(n, Led(G, b), Arriving(b), w) = Heard(n, Led(G, b), {}, w)
      BY <2>2 DEF Heard
    <2> QED
      BY <2>1, <2>3 DEF Balance
  <1>6. ASSUME NEW n \in S
        PROVE  /\ leak_and_fire(neuron[n]).fired <=> n \in Fires(Led(G, b))
               /\ \E q \in Int : leak_and_fire(neuron[n]).neuron = GoLNeuron(n, q, 0)
    <2>0. n \in GoLNeurons
      BY <1>6
    <2>1. PICK p \in Int : neuron[n] = GoLNeuron(n, p, neuron[n].current) /\ neuron[n].current \in Int
      BY <1>1, <2>0 DEF NeuronsAre
    <2> DEFINE k == neuron[n].current
    <2>2. k \in Int /\ neuron[n] = GoLNeuron(n, p, k) /\ k = Balance(n, Led(G, b), {})
      BY <1>5, <1>6, <2>1
    <2> HIDE DEF k
    <2>3. /\ leak_and_fire(GoLNeuron(n, p, k)).fired <=> k > Threshold(n)
          /\ \E q \in Int : leak_and_fire(GoLNeuron(n, p, k)).neuron = GoLNeuron(n, q, 0)
      BY <2>0, <2>2, BeatOfANeuron
    <2> QED
      BY <2>0, <2>2, <2>3 DEF Fires
  <1>7. fire = A
    BY <1>6
  <1>8. /\ beats' = [n \in GoLNeurons |-> IF n \in S THEN beats[n] + 1 ELSE beats[n]]
        /\ neuron' = [n \in GoLNeurons |->
                        IF n \in S THEN leak_and_fire(neuron[n]).neuron ELSE neuron[n]]
        /\ firings' = firings \cup {<<n, NextBeat(n)>> : n \in fire}
        /\ flight' = flight \cup Sent(UNION {send_spike(n, NextBeat(n)) : n \in fire})
    BY <1>2 DEF TakeBeat
  <1> HIDE DEF t
  <1>9. /\ {<<n, NextBeat(n)>> : n \in fire} = {<<n, t>> : n \in fire}
        /\ {send_spike(n, NextBeat(n)) : n \in fire} = {send_spike(n, t) : n \in fire}
    BY <1>3
  <1> HIDE DEF fire
  <1>10. firings' = firings \cup {<<n, t>> : n \in A}
    BY <1>7, <1>8, <1>9
  <1>11. flight' = flight \cup Sent(UNION {send_spike(n, t) : n \in A})
    BY <1>7, <1>8, <1>9
  <1>12. beats' = [n \in GoLNeurons |-> IF n \in S THEN b + 1 ELSE beats[n]]
    BY <1>3, <1>8
  <1>13. /\ \A n \in S : neuron'[n] = leak_and_fire(neuron[n]).neuron
         /\ \A n \in GoLNeurons \ S : neuron'[n] = neuron[n]
    BY <1>8
  <1>14. \A n \in S : neuron'[n].current = 0
    <2>1. \A n, q : GoLNeuron(n, q, 0).current = 0
      BY DEF GoLNeuron
    <2> QED
      BY <1>6, <1>13, <2>1
  <1>15. NeuronsAre'
    <2>1. neuron' = [n \in GoLNeurons |-> neuron'[n]]
      BY <1>8
    <2>2. ASSUME NEW n \in GoLNeurons
          PROVE  \E q \in Int : neuron'[n] = GoLNeuron(n, q, neuron'[n].current)
                                /\ neuron'[n].current \in Int
      <3>1. CASE n \in S
        BY <1>6, <1>13, <1>14, <3>1
      <3>2. CASE n \notin S
        BY <1>1, <1>13, <3>2 DEF NeuronsAre
      <3> QED
        BY <3>1, <3>2
    <2> QED
      BY <2>1, <2>2 DEF NeuronsAre
  <1>16. \A n \in S : beats[n] = b /\ \A e \in flight : e.dest = n => e.time >= t
    BY <1>3
  <1> QED
    BY <1>4, <1>10, <1>11, <1>12, <1>13, <1>14, <1>15, <1>16 DEF BeatTaken, t

\* A beat adds to what is led and what arrives after it, and nothing of that is heard of.
BeatLeads(G, b, S, A) ==
    /\ \A n, a : a \in Nat =>
          (<<n, a * Beat>> \in firings' <=> <<n, a * Beat>> \in firings \/ (a = b + 1 /\ n \in A))
    /\ \A n \in S : <<n, (b + 1) * Beat>> \notin firings
    /\ \A k \in Nat : k # b + 1 => Led(G, k)' = Led(G, k) /\ Arriving(k)' = Arriving(k)
    /\ Carries(Arriving(b + 1)', Led(G, b + 1)')
    /\ \A n, w : Heard(n, Led(G, b + 1)', Arriving(b + 1)', w)
                    = Heard(n, Led(G, b + 1), Arriving(b + 1), w)
    /\ \A e \in flight' \ flight : e.time \in Nat /\ e.time \div Beat = b + 1

LEMMA WhatABeatLeads ==
    ASSUME BuiltIn, NEW G, Played(G), NEW b, Together(b),
           NEW S, S \subseteq GoLNeurons, S # {}, TakeBeat(S),
           NEW A, A = S \cap Fires(Led(G, b))
    PROVE  BeatLeads(G, b, S, A)
  <1> DEFINE k1 == b + 1
             t == k1 * Beat
             M == Sent(UNION {send_spike(n, t) : n \in A})
             D == IF InTime(k1) THEN From(A) ELSE {}
  <1>1. b \in Nat /\ k1 \in Nat /\ t \in Nat /\ k1 # 0
    BY BeatAhead DEF Together
  <1>2. /\ \A n \in S : beats[n] = b
        /\ firings' = firings \cup {<<n, t>> : n \in A}
        /\ flight' = flight \cup M
    <2>1. BeatTaken(b, S, A)
      BY WhatABeatDoes
    <2> QED
      BY <2>1 DEF BeatTaken
  <1>3. A \subseteq GoLNeurons /\ A \subseteq S
    OBVIOUS
  <1>4. \A a \in Nat : a * Beat = t => a = k1
    BY <1>1, BeatAhead
  <1>5. /\ Carries(M, From(A))
        /\ \A e \in M : e.time = t + (Beat \div 2) /\ e.time < End
        /\ t + (Beat \div 2) < End =>
              \A p \in From(A) : \E e \in M : e.id.src = p[1] /\ e.dest = p[2]
    BY <1>1, <1>3, WhatIsSent
  <1>6. \A e \in M : e.time \in Nat /\ e.time \div Beat = k1
    <2>1. Beat \div 2 \in Nat /\ (t + (Beat \div 2)) \div Beat = k1
      BY <1>1, BeatAhead, DriverAssumption
    <2> HIDE DEF M, t
    <2> QED
      BY <1>1, <1>5, <2>1
  <1>7. InTime(k1) <=> t + (Beat \div 2) < End
    BY <1>1 DEF InTime
  <1> HIDE DEF M, t
  <1>8. Carries(M, D) /\ \A p \in D : \E e \in M : e.id.src = p[1] /\ e.dest = p[2]
    <2>1. CASE InTime(k1)
      BY <1>5, <1>7, <2>1
    <2>2. CASE ~ InTime(k1)
      <3>1. M = {}
        BY <1>5, <1>7, <2>2
      <3> QED
        BY <2>2, <3>1 DEF Carries
    <2> QED
      BY <2>1, <2>2
  <1>9. \A n : \A a \in Nat :
           <<n, a * Beat>> \in firings' <=> <<n, a * Beat>> \in firings \/ (a = k1 /\ n \in A)
    <2> SUFFICES ASSUME NEW n, NEW a \in Nat
                 PROVE  <<n, a * Beat>> \in firings'
                           <=> <<n, a * Beat>> \in firings \/ (a = k1 /\ n \in A)
      OBVIOUS
    <2>1. <<n, a * Beat>> \in {<<m, t>> : m \in A} <=> a * Beat = t /\ n \in A
      OBVIOUS
    <2>2. a * Beat = t <=> a = k1
      BY <1>4 DEF t
    <2> QED
      BY <1>2, <2>1, <2>2
  <1>10. ASSUME NEW n \in S PROVE <<n, t>> \notin firings
    <2> SUFFICES ASSUME <<n, t>> \in firings PROVE FALSE
      OBVIOUS
    <2>1. PICK m \in GoLNeurons : \E a \in 1 .. beats[m] : <<n, t>> = <<m, a * Beat>>
      BY DEF Played
    <2>2. PICK a \in 1 .. beats[m] : <<n, t>> = <<m, a * Beat>>
      BY <2>1
    <2>3. beats[m] = b /\ a \in Nat
      BY <1>2, <2>2
    <2>4. a = k1
      BY <1>4, <2>2, <2>3
    <2> QED
      BY <1>1, <2>3, <2>4
  <1>11. \A k \in Nat : Arriving(k)' = IF k = k1 THEN Arriving(k) \cup M ELSE Arriving(k)
    BY <1>2, <1>6 DEF Arriving
  <1>12. \A k \in Nat : Led(G, k)' = IF k = k1 THEN Led(G, k) \cup D ELSE Led(G, k)
    <2> SUFFICES ASSUME NEW k \in Nat
                 PROVE  Led(G, k)' = IF k = k1 THEN Led(G, k) \cup D ELSE Led(G, k)
      OBVIOUS
    <2> HIDE DEF k1
    <2>1. CASE k = 0
      BY <1>1, <2>1 DEF Led
    <2>2. CASE k # 0
      <3>1. Led(G, k)' = {p \in Pairs : InTime(k) /\ <<p[1], k * Beat>> \in firings' /\ p[2] \in To(p[1])}
        BY <2>2 DEF Led
      <3>2. Led(G, k) = {p \in Pairs : InTime(k) /\ <<p[1], k * Beat>> \in firings /\ p[2] \in To(p[1])}
        BY <2>2 DEF Led
      <3>3. \A p \in Pairs : <<p[1], k * Beat>> \in firings'
                                <=> <<p[1], k * Beat>> \in firings \/ (k = k1 /\ p[1] \in A)
        BY <1>9
      <3>4. CASE k = k1
        <4>1. D = {p \in Pairs : InTime(k) /\ p[1] \in A /\ p[2] \in To(p[1])}
          BY <3>4 DEF From
        <4> HIDE DEF D
        <4> QED
          BY <3>1, <3>2, <3>3, <3>4, <4>1
      <3>5. CASE k # k1
        BY <3>1, <3>2, <3>3, <3>5
      <3> QED
        BY <3>4, <3>5
    <2> QED
      BY <2>1, <2>2
  <1>13. \A p \in Led(G, k1) : \A q \in D : p[1] # q[1]
    <2>1. \A p \in Led(G, k1) : <<p[1], t>> \in firings
      BY <1>1 DEF Led, t
    <2>2. \A q \in D : q[1] \in S
      BY <1>3 DEF From
    <2> QED
      BY <1>10, <2>1, <2>2
  <1>14. Carries(Arriving(k1), Led(G, k1))
    BY <1>1 DEF Played
  <1> HIDE DEF D, k1
  <1>15. /\ Carries(Arriving(k1) \cup M, Led(G, k1) \cup D)
         /\ \A n, w : Heard(n, Led(G, k1) \cup D, Arriving(k1) \cup M, w)
                         = Heard(n, Led(G, k1), Arriving(k1), w)
    <2>1. PICK F, E, N, C : F = Arriving(k1) /\ E = Led(G, k1) /\ N = M /\ C = D
      OBVIOUS
    <2>2. Carries(F, E) /\ CarriesAll(N, C) /\ OtherSources(E, C)
      BY <1>8, <1>13, <1>14, <2>1 DEF CarriesAll, OtherSources
    <2>3. /\ Carries(F \cup N, E \cup C)
          /\ \A n, w : Heard(n, E \cup C, F \cup N, w) = Heard(n, E, F, w)
      BY <2>2, HeardOnSending
    <2> QED
      BY <2>1, <2>3
  <1>16. /\ Carries(Arriving(k1)', Led(G, k1)')
         /\ \A n, w : Heard(n, Led(G, k1)', Arriving(k1)', w) = Heard(n, Led(G, k1), Arriving(k1), w)
    BY <1>1, <1>11, <1>12, <1>15
  <1>17. \A k \in Nat : k # k1 => Led(G, k)' = Led(G, k) /\ Arriving(k)' = Arriving(k)
    BY <1>11, <1>12
  <1>18. \A e \in flight' \ flight : e.time \in Nat /\ e.time \div Beat = k1
    BY <1>2, <1>6
  <1> QED
    BY <1>9, <1>10, <1>16, <1>17, <1>18 DEF BeatLeads, k1, t

LEMMA BeatKeeps ==
    ASSUME BuiltIn, NEW G, Played(G), NEW b, Together(b),
           NEW S, S \subseteq GoLNeurons, S # {}, TakeBeat(S)
    PROVE  Played(G)' /\ (Together(b)' \/ Together(b + 1)')
  <1>1. PICK A : A = S \cap Fires(Led(G, b))
    OBVIOUS
  <1>2. BeatTaken(b, S, A)
    BY <1>1, WhatABeatDoes
  <1>3. BeatLeads(G, b, S, A)
    BY <1>1, WhatABeatLeads
  <1>4. /\ b \in Nat /\ b + 1 \in Nat /\ b + 1 # 0
        /\ \A n \in GoLNeurons : beats[n] = b \/ beats[n] = b + 1
        /\ \A n \in S : beats[n] = b
    BY <1>2 DEF Together, BeatTaken
  <1>5. /\ G \subseteq Board /\ \A k \in Nat : Carries(Arriving(k), Led(G, k))
        /\ \A n \in GoLNeurons : beats[n] \in Nat
    BY DEF Played
  <1>6. /\ beats' = [n \in GoLNeurons |-> beats'[n]]
        /\ \A n \in GoLNeurons : beats'[n] \in Nat /\ beats'[n] = IF n \in S THEN b + 1 ELSE beats[n]
    <2>1. beats' = [n \in GoLNeurons |-> IF n \in S THEN b + 1 ELSE beats[n]]
      BY <1>2 DEF BeatTaken
    <2> QED
      BY <1>4, <1>5, <2>1
  <1>7. \A k \in Nat : Carries(Arriving(k)', Led(G, k)')
    <2> SUFFICES ASSUME NEW k \in Nat PROVE Carries(Arriving(k)', Led(G, k)')
      OBVIOUS
    <2>1. CASE k = b + 1
      BY <1>3, <2>1 DEF BeatLeads
    <2>2. CASE k # b + 1
      BY <1>3, <1>5, <2>2 DEF BeatLeads
    <2> QED
      BY <2>1, <2>2
  <1>8. ASSUME NEW e \in flight'
        PROVE  e.time \in Nat /\ e.time \div Beat >= beats'[e.dest]
    <2>1. CASE e \in flight
      <3> DEFINE n == e.dest
                 k == e.time \div Beat
      <3>1. e.time \in Nat /\ k >= beats[n]
        BY <2>1 DEF Played
      <3>2. k \in Nat
        BY <1>4, <3>1, BeatAhead
      <3>3. n \in GoLNeurons
        <4>1. e \in Arriving(k) /\ Led(G, k) \subseteq Pairs
          BY <1>5, <2>1, LedIs DEF Arriving
        <4>2. <<e.id.src, n>> \in Pairs
          BY <1>5, <3>2, <4>1 DEF Carries
        <4> QED
          BY <4>2 DEF Pairs
      <3>4. CASE n \in S
        <4>1. e.time >= (b + 1) * Beat
          BY <1>2, <2>1, <3>4 DEF BeatTaken
        <4>2. k >= b + 1
          BY <1>4, <3>1, <4>1, BeatAhead
        <4> QED
          BY <1>6, <3>1, <3>3, <3>4, <4>2
      <3>5. CASE n \notin S
        BY <1>6, <3>1, <3>3, <3>5
      <3> QED
        BY <3>4, <3>5
    <2>2. CASE e \notin flight
      <3>1. e.time \in Nat /\ e.time \div Beat = b + 1
        BY <1>3, <2>2 DEF BeatLeads
      <3>2. e.dest \in GoLNeurons
        <4>1. e \in Arriving(b + 1)'
          BY <3>1 DEF Arriving
        <4>2. <<e.id.src, e.dest>> \in Led(G, b + 1)'
          BY <1>4, <1>7, <4>1 DEF Carries
        <4>3. <<e.id.src, e.dest>> \in Pairs
          BY <1>4, <4>2 DEF Led
        <4> QED
          BY <4>3 DEF Pairs
      <3>3. beats'[e.dest] = b + 1 \/ beats'[e.dest] = b
        BY <1>4, <1>6, <3>2
      <3> QED
        BY <1>4, <3>1, <3>3
    <2> QED
      BY <2>1, <2>2
  <1>9. ASSUME NEW n \in GoLNeurons, NEW k \in Nat, k > beats'[n], NEW w
        PROVE  Heard(n, Led(G, k)', Arriving(k)', w) = {}
    <2>1. k > beats[n]
      BY <1>4, <1>6, <1>9
    <2>2. Heard(n, Led(G, k), Arriving(k), w) = {}
      BY <1>9, <2>1 DEF Played
    <2>3. CASE k = b + 1
      BY <1>3, <2>2, <2>3 DEF BeatLeads
    <2>4. CASE k # b + 1
      BY <1>3, <2>2, <2>4 DEF BeatLeads
    <2> QED
      BY <2>3, <2>4
  <1>10. ASSUME NEW n \in GoLNeurons, NEW k \in Nat, k = beats'[n]
         PROVE  neuron'[n].current = Balance(n, Led(G, k)', Arriving(k)')
    <2>1. CASE n \in S
      <3>1. k = b + 1 /\ k > beats[n] /\ neuron'[n].current = 0
        BY <1>2, <1>4, <1>6, <1>10, <2>1 DEF BeatTaken
      <3>2. \A w : Heard(n, Led(G, k), Arriving(k), w) = {}
        BY <3>1 DEF Played
      <3>3. \A w : Heard(n, Led(G, k)', Arriving(k)', w) = {}
        BY <1>3, <3>1, <3>2 DEF BeatLeads
      <3>4. Balance(n, Led(G, k)', Arriving(k)') = 10 * Cardinality({}) - 10 * Cardinality({})
        BY <3>3 DEF Balance
      <3> QED
        BY <3>1, <3>4, FS_EmptySet
    <2>2. CASE n \notin S
      <3>1. k = beats[n] /\ neuron'[n] = neuron[n]
        BY <1>2, <1>6, <1>10, <2>2 DEF BeatTaken
      <3>2. neuron[n].current = Balance(n, Led(G, k), Arriving(k))
        BY <3>1 DEF Played
      <3>3. \A w : Heard(n, Led(G, k)', Arriving(k)', w) = Heard(n, Led(G, k), Arriving(k), w)
        <4>1. CASE k = b + 1
          BY <1>3, <4>1 DEF BeatLeads
        <4>2. CASE k # b + 1
          BY <1>3, <4>2 DEF BeatLeads
        <4> QED
          BY <4>1, <4>2
      <3>4. Balance(n, Led(G, k)', Arriving(k)') = Balance(n, Led(G, k), Arriving(k))
        BY <3>3 DEF Balance
      <3> QED
        BY <3>1, <3>2, <3>4
    <2> QED
      BY <2>1, <2>2
  <1>11. ASSUME NEW f \in firings'
         PROVE  \E n \in GoLNeurons : \E a \in 1 .. beats'[n] : f = <<n, a * Beat>>
    <2>1. CASE f \in firings
      <3>1. PICK n \in GoLNeurons : \E a \in 1 .. beats[n] : f = <<n, a * Beat>>
        BY <2>1 DEF Played
      <3>2. 1 .. beats[n] \subseteq 1 .. beats'[n]
        BY <1>4, <1>6
      <3> QED
        BY <3>1, <3>2
    <2>2. CASE f \notin firings
      <3>1. PICK n \in A : f = <<n, (b + 1) * Beat>>
        BY <1>2, <2>2 DEF BeatTaken
      <3>2. n \in S /\ n \in GoLNeurons
        BY <1>1
      <3>3. b + 1 \in 1 .. beats'[n]
        BY <1>4, <1>6, <3>2
      <3> QED
        BY <3>1, <3>2, <3>3
    <2> QED
      BY <2>1, <2>2
  <1>12. ASSUME NEW n \in GoLNeurons, NEW a \in 1 .. beats'[n]
         PROVE  InTime(a - 1) /\ (<<n, a * Beat>> \in firings' <=> n \in Fires(Led(G, a - 1)'))
    <2>1. a \in Nat /\ a - 1 \in Nat /\ a - 1 # b + 1
      BY <1>4, <1>6
    <2>2. Led(G, a - 1)' = Led(G, a - 1)
      BY <1>3, <2>1 DEF BeatLeads
    <2>3. <<n, a * Beat>> \in firings' <=> <<n, a * Beat>> \in firings \/ (a = b + 1 /\ n \in A)
      BY <1>3, <2>1 DEF BeatLeads
    <2>4. CASE a \in 1 .. beats[n]
      <3>1. InTime(a - 1) /\ (<<n, a * Beat>> \in firings <=> n \in Fires(Led(G, a - 1)))
        BY <2>4 DEF Played
      <3>2. ~ (a = b + 1 /\ n \in A)
        BY <1>1, <1>4, <2>4
      <3> QED
        BY <2>2, <2>3, <3>1, <3>2
    <2>5. CASE a \notin 1 .. beats[n]
      <3>1. n \in S /\ a = b + 1 /\ a - 1 = b
        BY <1>4, <1>6, <2>1, <2>5
      <3>2. InTime(b) /\ <<n, a * Beat>> \notin firings
        BY <1>2, <1>3, <3>1 DEF BeatTaken, BeatLeads
      <3>3. n \in A <=> n \in Fires(Led(G, a - 1))
        BY <1>1, <3>1
      <3> QED
        BY <2>2, <2>3, <3>1, <3>2, <3>3
    <2> QED
      BY <2>4, <2>5
  <1>13. ASSUME NEW n \in GoLNeurons, NEW a \in Nat, a % 2 = 1, <<n, a * Beat>> \in firings'
         PROVE  n \in Board
    <2>1. CASE <<n, a * Beat>> \in firings
      BY <1>13, <2>1 DEF Played
    <2>2. CASE <<n, a * Beat>> \notin firings
      <3>1. a = b + 1 /\ n \in A
        BY <1>3, <1>13, <2>2 DEF BeatLeads
      <3>2. b % 2 = 0
        BY <1>4, <1>13, <3>1
      <3>3. InTime(b)
        BY <1>2 DEF BeatTaken
      <3>4. Fires(Led(G, b)) \subseteq Board
        BY <3>2, <3>3, WhoFires
      <3> QED
        BY <1>1, <3>1, <3>4
    <2> QED
      BY <2>1, <2>2
  <1>14. NeuronsAre'
    BY <1>2 DEF BeatTaken
  <1>15. \A n \in GoLNeurons :
            \A k \in Nat :
               /\ k = beats'[n] => neuron'[n].current = Balance(n, Led(G, k)', Arriving(k)')
               /\ k > beats'[n] => \A w : Heard(n, Led(G, k)', Arriving(k)', w) = {}
    BY <1>9, <1>10
  <1>16. Played(G)'
    BY <1>5, <1>6, <1>7, <1>8, <1>11, <1>12, <1>13, <1>14, <1>15 DEF Played
  <1>17. Together(b)' \/ Together(b + 1)'
    <2>1. CASE \E n \in GoLNeurons : beats'[n] = b
      BY <1>4, <1>6, <2>1 DEF Together
    <2>2. CASE ~ \E n \in GoLNeurons : beats'[n] = b
      BY <1>4, <1>6, <2>2 DEF Together
    <2> QED
      BY <2>1, <2>2
  <1> QED
    BY <1>16, <1>17

-----------------------------------------------------------------------------
(* What the board shows.                                                    *)

\* The cells that are given, and then what fired at the last odd beat.
ShowsAs(G, b) == IF b = 0 THEN G ELSE FiredAt((IF b % 2 = 1 THEN b ELSE b - 1) * Beat)

\* The input shows in the cells that have it and in the spikes that have not arrived.
LEMMA GivenShows ==
    ASSUME NEW E, E \subseteq Pairs, \A p \in E : p[1] = p[2] /\ p[1] \in Board,
           NEW F, Carries(F, E), NEW c \in Board, NEW current, current = Balance(c, E, F)
    PROVE  current > 0 \/ (\E s \in F : s.dest = c) <=> <<c, c>> \in E
  <1>1. c \in GoLNeurons
    BY BoardIsNeurons
  <1>2. current = IF <<c, c>> \in E /\ ~ \E s \in F : s.dest = c THEN 10 ELSE 0
    BY <1>1, InputBalance
  <1>3. ASSUME NEW s \in F, s.dest = c PROVE <<c, c>> \in E
    <2>1. <<s.id.src, c>> \in E
      BY <1>3 DEF Carries
    <2>2. <<s.id.src, c>>[1] = s.id.src /\ <<s.id.src, c>>[2] = c
      OBVIOUS
    <2>3. s.id.src = c
      BY <2>1, <2>2
    <2> QED
      BY <2>1, <2>3
  <1>4. CASE \E s \in F : s.dest = c
    BY <1>3, <1>4
  <1>5. CASE ~ \E s \in F : s.dest = c
    BY <1>2, <1>5
  <1> QED
    BY <1>4, <1>5

\* Before the board has beaten twice, no spike but the input's leads to it.
LEMMA NothingBackYet ==
    ASSUME NEW G, Played(G), Together(0), NEW m, NEW c \in Board, NEW k \in Nat,
           <<m, c>> \in Led(G, k)
    PROVE  k = 0
  <1> SUFFICES ASSUME k # 0 PROVE FALSE
    OBVIOUS
  <1>1. <<m, c>> \in Pairs /\ <<m, k * Beat>> \in firings /\ c \in To(m)
    <2>1. <<m, c>>[1] = m /\ <<m, c>>[2] = c
      OBVIOUS
    <2> QED
      BY <2>1 DEF Led
  <1>2. m \in GoLNeurons
    BY <1>1 DEF Pairs
  <1>3. PICK n \in GoLNeurons : \E a \in 1 .. beats[n] : <<m, k * Beat>> = <<n, a * Beat>>
    BY <1>1 DEF Played
  <1>4. PICK a \in 1 .. beats[n] : k * Beat = a * Beat
    BY <1>3
  <1>5. a = 1
    BY <1>4 DEF Together
  <1>6. k = 1
    <2>1. k * Beat = (0 + 1) * Beat
      BY <1>4, <1>5
    <2> QED
      BY <2>1, BeatAhead
  <1>7. m \in Board
    BY <1>1, <1>2, <1>6 DEF Played
  <1>8. m < size_world /\ c < size_world
    BY BoardSize, <1>7 DEF Board
  <1>9. c >= size_world
    BY <1>1, <1>2, <1>8, ToAreNeurons
  <1> QED
    BY <1>8, <1>9, BoardSize DEF Board

LEMMA FirstShown ==
    ASSUME BuiltIn, NEW G, Played(G), Together(0), NEW c \in Board
    PROVE  \/ neuron[c].current > 0
           \/ \E s \in flight : s.dest = c
           \/ <<c, Beat>> \in firings
           <=> c \in G
  <1>1. /\ c \in GoLNeurons /\ G \subseteq Board
        /\ \A k \in Nat : Carries(Arriving(k), Led(G, k))
        /\ beats[c] = 0 \/ beats[c] = 1
        /\ 0 \in Nat /\ 1 \in Nat
    BY BoardIsNeurons DEF Played, Together
  <1>2. ASSUME NEW s \in flight, s.dest = c
        PROVE  s \in Arriving(0) /\ beats[c] = 0
    <2> DEFINE k == s.time \div Beat
    <2>1. s.time \in Nat /\ k >= beats[c]
      BY <1>2 DEF Played
    <2>2. k \in Nat
      BY <1>1, <2>1, BeatAhead
    <2>3. s \in Arriving(k)
      BY DEF Arriving
    <2> HIDE DEF k
    <2>4. <<s.id.src, c>> \in Led(G, k)
      BY <1>1, <1>2, <2>2, <2>3 DEF Carries
    <2>5. k = 0
      BY <2>2, <2>4, NothingBackYet
    <2> QED
      BY <1>1, <2>1, <2>3, <2>5
  <1>3. <<c, c>> \in Led(G, 0) <=> c \in G
    BY DEF Led
  <1>4. CASE beats[c] = 0
    <2>1. /\ Led(G, 0) \subseteq Pairs
          /\ \A p \in Led(G, 0) : p[1] = p[2] /\ p[1] \in Board
      <3>1. Led(G, 0) = {<<d, d>> : d \in G}
        BY DEF Led
      <3>2. ASSUME NEW p \in {<<d, d>> : d \in G}
            PROVE  p[1] = p[2] /\ p[1] \in Board
        <4>1. PICK d \in G : p = <<d, d>>
          BY <3>2
        <4> QED
          BY <1>1, <4>1
      <3> QED
        BY <1>1, <3>1, <3>2, LedIs
    <2>2. neuron[c].current = Balance(c, Led(G, 0), Arriving(0))
      BY <1>1, <1>4 DEF Played
    <2>3. neuron[c].current > 0 \/ (\E s \in Arriving(0) : s.dest = c) <=> <<c, c>> \in Led(G, 0)
      <3>1. PICK E, F, current : E = Led(G, 0) /\ F = Arriving(0) /\ current = neuron[c].current
        OBVIOUS
      <3>2. /\ E \subseteq Pairs /\ \A p \in E : p[1] = p[2] /\ p[1] \in Board
            /\ Carries(F, E) /\ current = Balance(c, E, F)
        BY <1>1, <2>1, <2>2, <3>1
      <3>3. current > 0 \/ (\E s \in F : s.dest = c) <=> <<c, c>> \in E
        BY <3>2, GivenShows
      <3> QED
        BY <3>1, <3>3
    <2>4. (\E s \in flight : s.dest = c) <=> (\E s \in Arriving(0) : s.dest = c)
      BY <1>2 DEF Arriving
    <2>5. <<c, Beat>> \notin firings
      <3> SUFFICES ASSUME <<c, Beat>> \in firings PROVE FALSE
        OBVIOUS
      <3>1. PICK n \in GoLNeurons : \E a \in 1 .. beats[n] : <<c, Beat>> = <<n, a * Beat>>
        BY DEF Played
      <3> QED
        BY <1>4, <3>1
    <2> QED
      BY <1>3, <2>3, <2>4, <2>5
  <1>5. CASE beats[c] = 1
    <2>1. neuron[c].current = 0
      <3>1. \A m : <<m, c>> \notin Led(G, 1)
        BY <1>1, NothingBackYet
      <3>2. \A w : Heard(c, Led(G, 1), Arriving(1), w) = {}
        BY <3>1 DEF Heard
      <3>3. neuron[c].current = Balance(c, Led(G, 1), Arriving(1))
        BY <1>1, <1>5 DEF Played
      <3>4. neuron[c].current = 10 * Cardinality({}) - 10 * Cardinality({})
        BY <3>2, <3>3 DEF Balance
      <3> QED
        BY <3>4, FS_EmptySet
    <2>2. <<c, Beat>> \in firings <=> c \in G
      <3>1. 1 \in 1 .. beats[c] /\ 1 - 1 = 0 /\ 1 * Beat = Beat
        BY <1>5, DriverAssumption
      <3>2. <<c, 1 * Beat>> \in firings <=> c \in Fires(Led(G, 1 - 1))
        BY <1>1, <3>1 DEF Played
      <3>3. Fires(Led(G, 0)) = G
        BY WhoFires DEF InTime
      <3> QED
        BY <3>1, <3>2, <3>3
    <2>3. ~ \E s \in flight : s.dest = c
      BY <1>2, <1>5
    <2> QED
      BY <2>1, <2>2, <2>3
  <1> QED
    BY <1>1, <1>4, <1>5

LEMMA ShownIs ==
    ASSUME BuiltIn, NEW G, Played(G), NEW b, Together(b)
    PROVE  Shown = ShowsAs(G, b)
  <1> DEFINE least == CHOOSE x \in {beats[n] : n \in Neurons} : \A n \in Neurons : x <= beats[n]
  <1>1. least = b
    <2>1. /\ Neurons = GoLNeurons /\ b \in Nat
          /\ \A n \in GoLNeurons : beats[n] = b \/ beats[n] = b + 1
      BY DEF BuiltIn, Together
    <2>2. PICK m \in GoLNeurons : beats[m] = b
      BY DEF Together
    <2>3. b \in {beats[n] : n \in Neurons} /\ \A n \in Neurons : b <= beats[n]
      BY <2>1, <2>2
    <2>4. least \in {beats[n] : n \in Neurons} /\ \A n \in Neurons : least <= beats[n]
      BY <2>3
    <2>5. PICK n \in GoLNeurons : least = beats[n]
      BY <2>1, <2>4
    <2>6. least <= b
      BY <2>1, <2>2, <2>4
    <2> HIDE DEF least
    <2> QED
      BY <2>1, <2>5, <2>6
  <1> HIDE DEF least
  <1>2. Shown = LET last == IF b % 2 = 1 THEN b ELSE b - 1
                IN  IF b = 0
                    THEN {c \in Board : \/ neuron[c].current > 0
                                        \/ \E s \in flight : s.dest = c
                                        \/ <<c, Beat>> \in firings}
                    ELSE {c \in Board : <<c, last * Beat>> \in firings}
    BY <1>1 DEF Shown, least
  <1>3. CASE b = 0
    <2>1. G \subseteq Board
      BY DEF Played
    <2> QED
      BY <1>2, <1>3, <2>1, FirstShown DEF ShowsAs
  <1>4. CASE b # 0
    BY <1>2, <1>4 DEF ShowsAs, FiredAt
  <1> QED
    BY <1>3, <1>4

LEMMA ShownThen ==
    ASSUME BuiltIn, NEW G, NEW b
    PROVE  (Played(G) /\ Together(b) => Shown = ShowsAs(G, b))'
  <1>1. Played(G) /\ Together(b) => Shown = ShowsAs(G, b)
    BY ShownIs
  <1> QED
    BY <1>1, PTL

LEMMA SameCount == \A A : Conway!Cardinality(A) = Cardinality(A)
  BY DEF Conway!Cardinality, Cardinality

LEMMA CellsAre == Conway!Cells = Board
  BY DEF Conway!Cells, Board, size_world

LEMMA DeliverShows ==
    ASSUME BuiltIn, NEW G, Played(G), NEW b, Together(b), NEW s \in flight, Deliver(s)
    PROVE  GoLInv' /\ Shown' = Shown
  <1>1. beats' = beats /\ firings' = firings
    BY DEF Deliver
  <1>2. Played(G)'
    BY DeliverKeeps
  <1>3. Together(b)'
    BY <1>1 DEF Together
  <1>4. Shown' = ShowsAs(G, b)'
    BY <1>2, <1>3, ShownThen
  <1>5. ShowsAs(G, b)' = ShowsAs(G, b)
    BY <1>1 DEF ShowsAs, FiredAt
  <1>6. Shown = ShowsAs(G, b)
    BY ShownIs
  <1> QED
    BY <1>2, <1>3, <1>4, <1>5, <1>6 DEF GoLInv

\* A step of Life shows when the last neuron takes an odd beat after the first; nothing
\* shows of any other beat.
LEMMA BeatShows ==
    ASSUME BuiltIn, NEW G, Played(G), NEW b, Together(b),
           NEW S, S \subseteq GoLNeurons, S # {}, TakeBeat(S)
    PROVE  GoLInv' /\ (Conway!Evolve \/ Shown' = Shown)
  <1> DEFINE k == b + 1
  <1>1. PICK A : A = S \cap Fires(Led(G, b))
    OBVIOUS
  <1>2. BeatTaken(b, S, A)
    BY <1>1, WhatABeatDoes
  <1>3. BeatLeads(G, b, S, A)
    BY <1>1, WhatABeatLeads
  <1>4. b \in Nat /\ k \in Nat /\ k # 0 /\ k - 1 = b /\ k # b
    BY DEF Together
  <1>5. Shown = ShowsAs(G, b)
    BY ShownIs
  <1>6. Played(G)' /\ (Together(b)' \/ Together(k)')
    BY BeatKeeps
  <1> SUFFICES Conway!Evolve \/ Shown' = Shown
    BY <1>6 DEF GoLInv
  <1> HIDE DEF k
  <1>7. \A a \in Nat : a # k => FiredAt(a * Beat)' = FiredAt(a * Beat)
    <2> SUFFICES ASSUME NEW a \in Nat, a # k PROVE FiredAt(a * Beat)' = FiredAt(a * Beat)
      OBVIOUS
    <2>1. \A n : <<n, a * Beat>> \in firings' <=> <<n, a * Beat>> \in firings
      BY <1>3 DEF BeatLeads, k
    <2> QED
      BY <2>1 DEF FiredAt
  <1>8. CASE Together(b)'
    <2>1. Shown' = ShowsAs(G, b)'
      BY <1>6, <1>8, ShownThen
    <2>2. CASE b = 0
      BY <1>5, <2>1, <2>2 DEF ShowsAs
    <2>3. CASE b # 0
      <3> DEFINE a == IF b % 2 = 1 THEN b ELSE b - 1
      <3>1. a \in Nat /\ a # k
        BY <1>4, <2>3
      <3>2. Shown = FiredAt(a * Beat)
        BY <1>5, <2>3 DEF ShowsAs
      <3>3. Shown' = FiredAt(a * Beat)'
        BY <2>1, <2>3 DEF ShowsAs
      <3> HIDE DEF a
      <3> QED
        BY <1>7, <3>1, <3>2, <3>3
    <2> QED
      BY <2>2, <2>3
  <1>9. CASE Together(k)' /\ k % 2 = 1
    <2>1. Shown' = FiredAt(k * Beat)'
      <3>1. Shown' = ShowsAs(G, k)'
        BY <1>6, <1>9, ShownThen
      <3> QED
        BY <1>4, <1>9, <3>1 DEF ShowsAs
    <2>2. Shown' = {c \in Board : c \in Fires(Led(G, b))}
      <3>1. Led(G, b)' = Led(G, b)
        BY <1>3, <1>4 DEF BeatLeads, k
      <3>2. ASSUME NEW c \in Board
            PROVE  <<c, k * Beat>> \in firings' <=> c \in Fires(Led(G, b))
        <4>1. c \in GoLNeurons
          BY BoardIsNeurons
        <4>2. k \in 1 .. beats'[c]
          <5>1. beats'[c] = k \/ beats'[c] = k + 1
            BY <1>9, <4>1 DEF Together
          <5> QED
            BY <1>4, <5>1
        <4>3. <<c, k * Beat>> \in firings' <=> c \in Fires(Led(G, k - 1)')
          BY <1>6, <4>1, <4>2 DEF Played
        <4> QED
          BY <1>4, <3>1, <4>3
      <3>3. FiredAt(k * Beat)' = {c \in Board : <<c, k * Beat>> \in firings'}
        BY DEF FiredAt
      <3> QED
        BY <2>1, <3>2, <3>3
    <2>3. InTime(b) /\ b % 2 = 0
      BY <1>2, <1>4, <1>9 DEF BeatTaken, k
    <2>4. CASE b = 0
      <3>1. Fires(Led(G, b)) = G /\ G \subseteq Board
        BY <2>3, <2>4, WhoFires DEF Played
      <3> QED
        BY <1>5, <2>2, <2>4, <3>1 DEF ShowsAs
    <2>5. CASE b # 0
      <3> DEFINE B == FiredAt((b - 1) * Beat)
      <3>1. Shown = B
        BY <1>5, <2>3, <2>5 DEF ShowsAs
      <3>2. B \subseteq Board
        BY DEF FiredAt
      <3>3. Fires(Led(G, b)) = {c \in Board : CountsEnough(size_world + c, B)
                                              /\ ~ CountsEnough(2 * size_world + c, B)}
        BY <2>3, <2>5, WhoFires
      <3> HIDE DEF B
      <3>4. \A c \in Board :
               c \in Fires(Led(G, b)) <=> LET n == Cardinality(Conway!Neighbours(c) \cap B)
                                          IN  n = 3 \/ (n = 2 /\ c \in B)
        BY <3>2, <3>3, RulesOfLife
      <3>5. Shown' = {c \in Board : LET n == Cardinality(Conway!Neighbours(c) \cap Shown)
                                    IN  n = 3 \/ (n = 2 /\ c \in Shown)}
        BY <2>2, <3>1, <3>4
      <3> QED
        BY <3>5, CellsAre, SameCount DEF Conway!Evolve
    <2> QED
      BY <2>4, <2>5
  <1>10. CASE Together(k)' /\ k % 2 # 1
    <2>1. b % 2 = 1 /\ b # 0
      BY <1>4, <1>10 DEF k
    <2>2. Shown = FiredAt(b * Beat)
      BY <1>5, <2>1 DEF ShowsAs
    <2>3. Shown' = FiredAt(b * Beat)'
      <3>1. Shown' = ShowsAs(G, k)'
        BY <1>6, <1>10, ShownThen
      <3> QED
        BY <1>4, <1>10, <3>1 DEF ShowsAs
    <2> QED
      BY <1>4, <1>7, <2>2, <2>3
  <1> QED
    BY <1>6, <1>8, <1>9, <1>10

LEMMA LifeStep ==
    ASSUME BuiltIn, GoLInv, [Next]_vars
    PROVE  GoLInv' /\ (Conway!Evolve \/ Shown' = Shown)
  <1>1. PICK b, G : Played(G) /\ Together(b)
    BY DEF GoLInv
  <1>2. CASE \E s \in flight : Deliver(s)
    BY <1>1, <1>2, DeliverShows
  <1>3. CASE \E S \in (SUBSET Neurons) \ {{}} : TakeBeat(S)
    <2>1. PICK S \in (SUBSET Neurons) \ {{}} : TakeBeat(S)
      BY <1>3
    <2>2. S \subseteq GoLNeurons /\ S # {}
      BY DEF BuiltIn
    <2> QED
      BY <1>1, <2>1, <2>2, BeatShows
  <1>4. CASE UNCHANGED vars
    <2>1. Played(G)' /\ Together(b)'
      <3>1. UNCHANGED <<beats, neuron, flight, firings>>
        BY <1>4 DEF vars
      <3>2. /\ \A k : Led(G, k)' = Led(G, k) /\ Arriving(k)' = Arriving(k)
            /\ NeuronsAre' <=> NeuronsAre
        BY <3>1 DEF Led, Arriving, NeuronsAre
      <3> QED
        BY <1>1, <3>1, <3>2 DEF Played, Together
    <2>2. Shown' = Shown
      BY <1>4 DEF vars, Shown
    <2> QED
      BY <2>1, <2>2 DEF GoLInv
  <1> QED
    BY <1>2, <1>3, <1>4 DEF Next

LEMMA FirstBoard ==
    ASSUME BuiltIn, Init
    PROVE  GoLInv /\ Shown \in SUBSET Conway!Cells
  <1>1. GoLInv
    BY StartsQuiet DEF GoLInv
  <1>2. Shown \subseteq Board
    BY DEF Shown
  <1> QED
    BY <1>1, <1>2, CellsAre

\* gameoflife.c:12-18, 42-54, README.md:70-75. In whatever order the spikes are delivered and
\* the neurons take their beats, the board makes one step of the Game of Life every two
\* beats, on a board of any width, from any cells, edges and corners included.
THEOREM LifeInAnyOrder ==
    ASSUME BuiltIn
    PROVE  Init /\ [][Next]_vars => ImplementsLife
  <1>1. Init => GoLInv /\ Shown \in SUBSET Conway!Cells
    BY FirstBoard
  <1>2. GoLInv /\ [Next]_vars => GoLInv'
    BY LifeStep
  <1>3. GoLInv /\ [Next]_vars => [Conway!Evolve]_Shown
    BY LifeStep
  <1> QED
    BY <1>1, <1>2, <1>3, PTL DEF ImplementsLife, Conway!Spec

\* README.md:70-75, gameoflife.c:12-18, 42-54. The order that the checked specification
\* takes is one of them.
THEOREM BoardPlaysLife ==
    ASSUME BuiltIn
    PROVE  GoLSpec => ImplementsLife
  <1>1. [GoLNext]_vars => [Next]_vars
    <2>1. ASSUME flight # {} PROVE (CHOOSE s \in flight : TRUE) \in flight
      BY <2>1
    <2>2. Neurons \in (SUBSET Neurons) \ {{}}
      <3>1. 0 \in GoLNeurons
        BY BoardSize DEF GoLNeurons
      <3> QED
        BY <3>1 DEF BuiltIn
    <2> QED
      BY <2>1, <2>2 DEF GoLNext, Next
  <1>2. Init /\ [][Next]_vars => ImplementsLife
    BY LifeInAnyOrder
  <1> QED
    BY <1>1, <1>2, PTL DEF GoLSpec
=============================================================================
