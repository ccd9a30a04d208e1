----------------------------- MODULE TimeWarpProofs -----------------------------
(***************************************************************************)
(* The optimistic run, for every network, every placement of the neurons   *)
(* on PEs, every order of the messages, and any neuron model whose own     *)
(* undo is exact: its invariants, and that what it commits is a sequential *)
(* run.                                                                    *)
(***************************************************************************)
EXTENDS TimeWarp, NeuronDriverProofs

-----------------------------------------------------------------------------
(* The inductive invariant.  A PE is sent events by itself and by others;   *)
(* each event has one sender, and what the sender has done about it reaches *)
(* the PE of its neuron in the order in which it was done.                  *)

Event(r) == AsSent(r.event)
EventAt(p, i) == Event(processed[p][i])

\* What PE p knows of: it waits in the queue or is handled.
There(p) == pending[p] \cup {EventAt(p, i) : i \in DOMAIN processed[p]}

\* Spikes are sent by the PE of the neuron that fired, or is stimulated; heartbeats by
\* the one of the neuron itself.
Sender(e) == IF e.type = "heartbeat" THEN PEOf[e.dest] ELSE PEOf[e.id.src]

\* What PE q has sent and not taken back, and what the committed records have.
Wanted(q) == due \cup UNION {processed[q][i].sent : i \in DOMAIN processed[q]}

IsSeq(s) == \E T : s \in Seq(T)

\* An event of the run, as it was sent.
InRun(e) ==
    /\ IsEvent(e)
    /\ e.time < End
    /\ e.current \in Int
    /\ e.type = "heartbeat" => e.time % Beat = 0 /\ e.time > 0
    /\ e.type = "spike" => e.id.src \in Neurons

\* An LP in one of the states S of its neuron model.
IsState(lp, S) ==
    /\ IsLP(lp)
    /\ lp.neuron \in S
    /\ lp.last_heartbeat \in Nat
    /\ lp.next_heartbeat_sent \in BOOLEAN

LPInv(S) ==
    /\ lps = [n \in Neurons |-> lps[n]]
    /\ \A n \in Neurons : IsState(lps[n], S)

PendingInv ==
    /\ pending = [p \in PEs |-> pending[p]]
    /\ \A p \in PEs : \A f \in pending[p] : InRun(f) /\ PEOf[f.dest] = p

IsRecord(r, S) ==
    /\ InRun(Event(r))
    /\ IsState(r.before, S)
    /\ r.event = Handled(r.before, Event(r))
    /\ r.saved = Saved(r.before)
    /\ r.sent = Sent(Handle(r.before, Event(r)).sent)

RecordInv(S) ==
    /\ processed = [p \in PEs |-> processed[p]]
    /\ \A p \in PEs :
          /\ IsSeq(processed[p])
          /\ \A i \in DOMAIN processed[p] :
                IsRecord(processed[p][i], S) /\ PEOf[EventAt(p, i).dest] = p

\* No event is handled after one that should have come later, or is there twice.
OrderInv ==
    \A p \in PEs : \A i \in DOMAIN processed[p] :
        /\ \A j \in DOMAIN processed[p] :
              i < j => ~ Before(EventAt(p, j), EventAt(p, i)) /\ EventAt(p, j) # EventAt(p, i)
        /\ \A f \in pending[p] : ~ Before(f, EventAt(p, i)) /\ f # EventAt(p, i)

\* No record from the i-th on and before the j-th is of n.
NoneOf(p, n, i, j) ==
    \A k \in DOMAIN processed[p] : i <= k /\ k < j => EventAt(p, k).dest # n

\* The LP as a record leaves it is the LP as the next one of the same neuron finds it.
ChainInv ==
    \A p \in PEs : \A i \in DOMAIN processed[p] :
        LET n   == EventAt(p, i).dest
            out == Handle(processed[p][i].before, EventAt(p, i)).lp
        IN  /\ \A j \in DOMAIN processed[p] :
                  i < j /\ EventAt(p, j).dest = n /\ NoneOf(p, n, i + 1, j)
                      => processed[p][j].before = out
            /\ NoneOf(p, n, i + 1, Len(processed[p]) + 1) => lps[n] = out

IsMessage(m, q, p) ==
    /\ m = Message(m.event, m.anti) /\ m.anti \in BOOLEAN
    /\ InRun(m.event) /\ Sender(m.event) = q /\ PEOf[m.event.dest] = p

ChannelInv ==
    /\ channel = [pair \in PEs \X PEs |-> channel[pair]]
    /\ \A p \in PEs : channel[<<p, p>>] = <<>>
    /\ \A q, p \in PEs :
          /\ IsSeq(channel[<<q, p>>])
          /\ \A k \in DOMAIN channel[<<q, p>>] : IsMessage(channel[<<q, p>>][k], q, p)

\* The messages of c about e, in their order, turn whether it is there into whether it
\* is wanted: after the k-th of them it is there if k is in `present`.
Delivers(c, e, there, wanted) ==
    \E present \in SUBSET (0 .. Len(c)) :
        /\ 0 \in present <=> e \in there
        /\ Len(c) \in present <=> e \in wanted
        /\ \A k \in 1 .. Len(c) :
              IF c[k].event = e
              THEN (c[k].anti <=> k - 1 \in present) /\ (k \in present <=> k - 1 \notin present)
              ELSE k \in present <=> k - 1 \in present

Agreed(e) ==
    Delivers(channel[<<Sender(e), PEOf[e.dest]>>], e, There(PEOf[e.dest]), Wanted(Sender(e)))

DeliveryInv == \A e : InRun(e) => Agreed(e)

\* Nothing is sent twice.
OnceInv ==
    \A p \in PEs : \A i \in DOMAIN processed[p] :
        /\ processed[p][i].sent \cap due = {}
        /\ \A j \in DOMAIN processed[p] :
              i # j => processed[p][i].sent \cap processed[p][j].sent = {}

\* A neuron has one heartbeat at a time, after those that are committed; in needy mode
\* the committed one that is due comes first.
HeartbeatInv ==
    \A p \in PEs : \A x \in There(p) :
        x.type = "heartbeat" =>
            /\ \A y \in There(p) :
                  y.type = "heartbeat" /\ y.dest = x.dest /\ y.time = x.time => y = x
            /\ \A r \in trace : r.neuron = x.dest => r.time < x.time
            /\ ~ SpikeDriven =>
                  \A y \in due : y.type = "heartbeat" /\ y.dest = x.dest => y.time <= x.time

\* While a heartbeat is to come, the LP knows; and so it did at each record.
FlagInv ==
    SpikeDriven =>
        \A p \in PEs : \A y \in There(p) :
            y.type = "heartbeat" =>
                /\ y \in pending[p] => lps[y.dest].next_heartbeat_sent
                /\ \A j \in DOMAIN processed[p] :
                      /\ EventAt(p, j).dest = y.dest
                      /\ \A k \in DOMAIN processed[p] :
                            IF k < j THEN EventAt(p, k) # y ELSE y \notin processed[p][k].sent
                      => processed[p][j].before.next_heartbeat_sent

\* A spike that is due was there from the start or sent by a committed heartbeat, and of
\* the heartbeats of a neuron one at most is due.
DueInv ==
    \A e \in due :
        /\ InRun(e)
        /\ e.type = "spike" =>
              e.id.at = 0 \/ \E r \in trace : r.neuron = e.id.src /\ r.time = e.id.at
        /\ \A f \in due :
              e.type = "heartbeat" /\ f.type = "heartbeat" /\ f.dest = e.dest => f = e

\* Nothing is left to be done before the horizon.
HorizonInv ==
    /\ \A p \in PEs : \A f \in There(p) : horizon <= f.time
    /\ \A q, p \in PEs : \A k \in DOMAIN channel[<<q, p>>] :
          horizon <= channel[<<q, p>>][k].event.time
    /\ \A e \in due : horizon <= e.time

IInv(S) ==
    /\ horizon \in Nat /\ horizon < End
    /\ \A r \in trace : r.time \in Nat /\ r.time <= horizon
    /\ LPInv(S)
    /\ PendingInv
    /\ RecordInv(S)
    /\ OrderInv
    /\ ChainInv
    /\ ChannelInv
    /\ DeliveryInv
    /\ OnceInv
    /\ HeartbeatInv
    /\ FlagInv
    /\ DueInv
    /\ HorizonInv

-----------------------------------------------------------------------------
(* Sequences of whatever elements.                                          *)

LEMMA SeqShape ==
    ASSUME NEW s, IsSeq(s)
    PROVE  Len(s) \in Nat /\ DOMAIN s = 1 .. Len(s)
  BY DEF IsSeq

LEMMA SeqAppend ==
    ASSUME NEW s, IsSeq(s), NEW x
    PROVE  /\ IsSeq(Append(s, x))
           /\ Len(Append(s, x)) = Len(s) + 1
           /\ DOMAIN Append(s, x) = 1 .. Len(s) + 1
           /\ \A i \in 1 .. Len(s) : Append(s, x)[i] = s[i]
           /\ Append(s, x)[Len(s) + 1] = x
  <1>1. PICK T : s \in Seq(T)
    BY DEF IsSeq
  <1>2. s \in Seq(T \cup {x}) /\ x \in T \cup {x}
    BY <1>1
  <1>3. Append(s, x) \in Seq(T \cup {x})
    BY <1>2
  <1>4. IsSeq(Append(s, x))
    BY <1>3 DEF IsSeq
  <1> QED
    BY <1>2, <1>3, <1>4

LEMMA SeqTail ==
    ASSUME NEW s, IsSeq(s), s # <<>>
    PROVE  /\ IsSeq(Tail(s))
           /\ Len(s) \in Nat /\ Len(s) > 0
           /\ Len(Tail(s)) = Len(s) - 1
           /\ DOMAIN Tail(s) = 1 .. Len(s) - 1
           /\ \A i \in 1 .. Len(s) - 1 : Tail(s)[i] = s[i + 1]
           /\ Head(s) = s[1]
  <1>1. PICK T : s \in Seq(T)
    BY DEF IsSeq
  <1>2. Tail(s) \in Seq(T)
    BY <1>1
  <1>3. IsSeq(Tail(s))
    BY <1>2 DEF IsSeq
  <1> QED
    BY <1>1, <1>2, <1>3

LEMMA SeqSub ==
    ASSUME NEW s, IsSeq(s), NEW i \in 1 .. Len(s) + 1, NEW j \in 0 .. Len(s), i <= j + 1
    PROVE  /\ IsSeq(SubSeq(s, i, j))
           /\ Len(SubSeq(s, i, j)) = j - i + 1
           /\ DOMAIN SubSeq(s, i, j) = 1 .. j - i + 1
           /\ \A k \in 1 .. j - i + 1 : SubSeq(s, i, j)[k] = s[k + i - 1]
  <1>1. PICK T : s \in Seq(T)
    BY DEF IsSeq
  <1>2. Len(s) \in Nat
    BY <1>1
  <1>3. \A k \in i .. j : s[k] \in T
    BY <1>1, <1>2
  <1>4. SubSeq(s, i, j) \in Seq(T)
    BY <1>1, <1>2, <1>3
  <1>5. IsSeq(SubSeq(s, i, j))
    BY <1>4 DEF IsSeq
  <1> QED
    BY <1>1, <1>2, <1>4, <1>5

LEMMA SeqConcat ==
    ASSUME NEW s, IsSeq(s), NEW d, IsSeq(d)
    PROVE  /\ IsSeq(s \o d)
           /\ Len(s \o d) = Len(s) + Len(d)
           /\ DOMAIN (s \o d) = 1 .. Len(s) + Len(d)
           /\ \A k \in 1 .. Len(s) : (s \o d)[k] = s[k]
           /\ \A k \in 1 .. Len(d) : (s \o d)[Len(s) + k] = d[k]
  <1>1. PICK T : s \in Seq(T)
    BY DEF IsSeq
  <1>2. PICK U : d \in Seq(U)
    BY DEF IsSeq
  <1>3. s \in Seq(T \cup U) /\ d \in Seq(T \cup U)
    BY <1>1, <1>2
  <1>4. s \o d \in Seq(T \cup U)
    BY <1>3
  <1>5. IsSeq(s \o d)
    BY <1>4 DEF IsSeq
  <1> QED
    BY <1>3, <1>4, <1>5

\* The messages of a finite set of events: a sequence that has each of them once.
LEMMA SetToSeqShape ==
    ASSUME NEW E, IsFiniteSet(E)
    PROVE  /\ IsSeq(SetToSeq(E))
           /\ \A e : e \in E <=> \E k \in 1 .. Len(SetToSeq(E)) : SetToSeq(E)[k] = e
           /\ \A j, k \in 1 .. Len(SetToSeq(E)) : SetToSeq(E)[j] = SetToSeq(E)[k] => j = k
  <1> DEFINE n == Cardinality(E)
             d == SetToSeq(E)
  <1>1. n \in Nat
    BY FS_CardinalityType
  <1>2. PICK f \in [1 .. n -> E] : IsInjective(f)
    <2>1. ExistsBijection(1 .. n, E)
      BY FS_CardinalityType
    <2>2. PICK f \in Bijection(1 .. n, E) : TRUE
      BY <2>1 DEF ExistsBijection
    <2>3. f \in [1 .. n -> E] /\ IsInjective(f)
      BY <2>2 DEF Bijection, Injection, IsInjective
    <2> QED
      BY <2>3
  <1>3. d \in [1 .. n -> E] /\ IsInjective(d)
    <2>1. d = CHOOSE g \in [1 .. n -> E] : IsInjective(g)
      BY DEF SetToSeq
    <2> HIDE DEF d
    <2> QED
      BY <1>2, <2>1
  <1> HIDE DEF d, n
  <1>4. d \in Seq(E) /\ Len(d) = n /\ DOMAIN d = 1 .. n
    BY <1>1, <1>3
  <1>5. \A j, k \in 1 .. n : d[j] = d[k] => j = k
    BY <1>3, <1>4 DEF IsInjective
  <1>6. \A e \in E : \E k \in 1 .. n : d[k] = e
    <2>1. d \in Injection(1 .. n, E)
      BY <1>3, <1>4, <1>5 DEF Injection, IsInjective
    <2>2. IsFiniteSet(1 .. n) /\ Cardinality(1 .. n) = n
      BY <1>1, FS_Interval
    <2>3. d \in Surjection(1 .. n, E)
      BY <2>1, <2>2, FS_Injection DEF n
    <2> QED
      BY <2>3 DEF Surjection
  <1>7. \A k \in 1 .. n : d[k] \in E
    BY <1>3
  <1>8. IsSeq(d)
    BY <1>4 DEF IsSeq
  <1> QED
    BY <1>4, <1>5, <1>6, <1>7, <1>8 DEF d

-----------------------------------------------------------------------------
(* Rolling back is a fold: it undoes the last record first.                 *)

Backward(s, base, it) ==
    [t \in SUBSET DOMAIN s |-> IF t = {} THEN base ELSE Undo(s[Min(t)], it[t \ {Min(t)}])]

LEMMA MinOfInterval ==
    ASSUME NEW m \in Nat, NEW n \in Nat, m <= n
    PROVE  Min(m .. n) = m /\ (m .. n) \ {m} = m + 1 .. n
  <1>1. m \in m .. n /\ \A x \in m .. n : m <= x
    OBVIOUS
  <1>2. \A x \in m .. n : (\A y \in m .. n : x <= y) => x = m
    BY <1>1
  <1>3. Min(m .. n) = CHOOSE x \in m .. n : \A y \in m .. n : x <= y
    BY DEF Min
  <1> QED
    BY <1>1, <1>2, <1>3

\* The recursion has a solution: it is correct on ever larger sets.
LEMMA BackwardExists ==
    ASSUME NEW s, IsFiniteSet(DOMAIN s), NEW base,
           \A t \in SUBSET DOMAIN s : t # {} => Min(t) \in t
    PROVE  \E it : it = Backward(s, base, it)
  <1> DEFINE D    == SUBSET DOMAIN s
             P    == {k \in Nat : \E g : /\ g = [t \in D |-> g[t]]
                                         /\ \A t \in D : Cardinality(t) <= k
                                              => g[t] = Backward(s, base, g)[t]}
  <1>1. \A t \in D : IsFiniteSet(t) /\ Cardinality(t) \in Nat
    BY FS_Subset, FS_CardinalityType
  <1>2. \A t \in D : t # {} => /\ t \ {Min(t)} \in D
                               /\ Cardinality(t \ {Min(t)}) = Cardinality(t) - 1
    BY <1>1, FS_RemoveElement
  <1>3. 0 \in P
    <2> DEFINE g == [t \in D |-> base]
    <2>1. ASSUME NEW t \in D, Cardinality(t) <= 0
          PROVE  g[t] = Backward(s, base, g)[t]
      <3>1. t = {}
        BY <1>1, <2>1, FS_EmptySet
      <3> QED
        BY <3>1 DEF Backward
    <2>2. g = [t \in D |-> g[t]]
      OBVIOUS
    <2> HIDE DEF g, D
    <2> QED
      BY <2>1, <2>2
  <1>4. ASSUME NEW k \in Nat, k \in P
        PROVE  k + 1 \in P
    <2>1. PICK g : /\ g = [t \in D |-> g[t]]
                   /\ \A t \in D : Cardinality(t) <= k => g[t] = Backward(s, base, g)[t]
      BY <1>4
    <2> DEFINE f == Backward(s, base, g)
    <2>2. f = [t \in D |-> f[t]]
      BY DEF Backward
    <2>3. ASSUME NEW t \in D, Cardinality(t) <= k + 1
          PROVE  f[t] = Backward(s, base, f)[t]
      <3>1. CASE t = {}
        BY <3>1 DEF Backward
      <3>2. CASE t # {}
        <4> DEFINE u == t \ {Min(t)}
        <4>1. u \in D /\ Cardinality(u) <= k
          BY <1>1, <1>2, <2>3, <3>2
        <4>2. g[u] = f[u]
          BY <2>1, <4>1
        <4>3. f[t] = Undo(s[Min(t)], g[u])
          BY <3>2 DEF Backward
        <4> HIDE DEF f
        <4>4. Backward(s, base, f)[t] = Undo(s[Min(t)], f[u])
          BY <3>2 DEF Backward
        <4> QED
          BY <4>2, <4>3, <4>4
      <3> QED
        BY <3>1, <3>2
    <2> HIDE DEF f, D
    <2> QED
      BY <2>2, <2>3
  <1>5. Cardinality(DOMAIN s) \in P
    <2>1. \A k \in Nat : k \in P
      <3> HIDE DEF P
      <3> QED
        BY <1>3, <1>4, Induction
    <2> QED
      BY <2>1, FS_CardinalityType
  <1>6. PICK g : /\ g = [t \in D |-> g[t]]
                 /\ \A t \in D : Cardinality(t) <= Cardinality(DOMAIN s)
                                     => g[t] = Backward(s, base, g)[t]
    BY <1>5
  <1>7. \A t \in D : g[t] = Backward(s, base, g)[t]
    BY <1>6, FS_Subset
  <1>8. Backward(s, base, g) = [t \in D |-> Backward(s, base, g)[t]]
    BY DEF Backward
  <1>9. g = Backward(s, base, g)
    <2> HIDE DEF D
    <2> QED
      BY <1>6, <1>7, <1>8
  <1> QED
    BY <1>9

UndoAll(s, base) == FoldRight(Undo, s, base)

\* What a rollback leaves after each of the records it undoes, f[m] being what it leaves
\* after the m-th of them.
Unwinds(f, s, base) ==
    /\ f[Len(s) + 1] = base
    /\ \A m \in 1 .. Len(s) : f[m] = Undo(s[m], f[m + 1])
    /\ UndoAll(s, base) = f[1]

LEMMA FoldRightUndo ==
    ASSUME NEW s, IsSeq(s), NEW base
    PROVE  \E f : Unwinds(f, s, base)
  <1>1. Len(s) \in Nat /\ DOMAIN s = 1 .. Len(s)
    BY SeqShape
  <1> DEFINE n == Len(s)
             it == CHOOSE g : g = Backward(s, base, g)
             f  == [m \in 1 .. n + 1 |-> it[m .. n]]
  <1>2. \E g : g = Backward(s, base, g)
    <2>1. IsFiniteSet(DOMAIN s)
      BY <1>1, FS_Interval
    <2>2. \A t \in SUBSET DOMAIN s : t # {} => Min(t) \in t
      <3> SUFFICES ASSUME NEW t \in SUBSET DOMAIN s, t # {} PROVE Min(t) \in t
        OBVIOUS
      <3>1. t \subseteq Nat
        BY <1>1
      <3>2. \E m \in t : \A x \in t : m <= x
        BY <3>1, Least
      <3> QED
        BY <3>2 DEF Min
    <2> QED
      BY <2>1, <2>2, BackwardExists
  <1>3. it = Backward(s, base, it)
    BY <1>2, Zenon
  <1>4. UndoAll(s, base) = it[DOMAIN s]
    BY DEF UndoAll, FoldRight, MapThenFoldSet, Backward
  <1> HIDE DEF it
  <1>5. f[n + 1] = base
    <2>1. n + 1 .. n = {}
      BY <1>1
    <2>2. it[{}] = base
      BY <1>3 DEF Backward
    <2> QED
      BY <1>1, <2>1, <2>2
  <1>6. ASSUME NEW m \in 1 .. n
        PROVE  f[m] = Undo(s[m], f[m + 1])
    <2>1. m .. n \in SUBSET DOMAIN s /\ m .. n # {}
      BY <1>1
    <2>2. it[m .. n] = Undo(s[Min(m .. n)], it[(m .. n) \ {Min(m .. n)}])
      BY <1>3, <2>1 DEF Backward
    <2>3. Min(m .. n) = m /\ (m .. n) \ {m} = m + 1 .. n
      BY <1>1, MinOfInterval
    <2>4. m \in 1 .. n + 1 /\ m + 1 \in 1 .. n + 1
      BY <1>1
    <2> QED
      BY <2>2, <2>3, <2>4
  <1>7. UndoAll(s, base) = f[1]
    BY <1>1, <1>4
  <1> HIDE DEF f
  <1>8. Unwinds(f, s, base)
    BY <1>5, <1>6, <1>7 DEF Unwinds
  <1> QED
    BY <1>8

-----------------------------------------------------------------------------
(* What the messages on their way do.                                       *)

\* Nothing is on its way about e.
LEMMA DeliversNothing ==
    ASSUME NEW c, IsSeq(c), NEW e, \A k \in 1 .. Len(c) : c[k].event # e,
           NEW there, NEW wanted
    PROVE  Delivers(c, e, there, wanted) <=> (e \in there <=> e \in wanted)
  <1> DEFINE n == Len(c)
  <1>1. n \in Nat
    BY SeqShape
  <1>2. ASSUME NEW present \in SUBSET (0 .. n), 0 \in present <=> e \in there,
               n \in present <=> e \in wanted,
               \A k \in 1 .. n : k \in present <=> k - 1 \in present
        PROVE  e \in there <=> e \in wanted
    <2> DEFINE P == {k \in Nat : k <= n => (k \in present <=> 0 \in present)}
    <2>1. 0 \in P
      OBVIOUS
    <2>2. \A k \in Nat : k \in P => k + 1 \in P
      BY <1>1, <1>2
    <2>3. n \in P
      <3> HIDE DEF P
      <3> QED
        BY <1>1, <2>1, <2>2, Induction
    <2> QED
      BY <1>2, <2>3
  <1>3. ASSUME e \in there <=> e \in wanted
        PROVE  Delivers(c, e, there, wanted)
    <2> DEFINE present == {k \in 0 .. n : e \in there}
    <2>1. present \in SUBSET (0 .. n) 
          /\ (0 \in present <=> e \in there) /\ (n \in present <=> e \in wanted)
      BY <1>1, <1>3
    <2>2. \A k \in 1 .. n : k \in present <=> k - 1 \in present
      BY <1>1
    <2> HIDE DEF present
    <2> QED
      BY <2>1, <2>2 DEF Delivers
  <1> QED
    BY <1>2, <1>3 DEF Delivers

LEMMA DeliversTail ==
    ASSUME NEW c, IsSeq(c), c # <<>>, NEW e, NEW there, NEW wanted,
           Delivers(c, e, there, wanted),
           NEW then, e \in then <=> IF c[1].event = e THEN e \notin there ELSE e \in there
    PROVE  /\ c[1].event = e => (c[1].anti <=> e \in there)
           /\ Delivers(Tail(c), e, then, wanted)
  <1> DEFINE n == Len(c)
             t == Tail(c)
  <1>1. /\ n \in Nat /\ n > 0 /\ Len(t) = n - 1
        /\ \A k \in 1 .. n - 1 : t[k] = c[k + 1]
    BY SeqTail
  <1>2. PICK present \in SUBSET (0 .. n) :
            /\ 0 \in present <=> e \in there
            /\ n \in present <=> e \in wanted
            /\ \A k \in 1 .. n :
                  IF c[k].event = e
                  THEN (c[k].anti <=> k - 1 \in present) /\ (k \in present <=> k - 1 \notin present)
                  ELSE k \in present <=> k - 1 \in present
    BY DEF Delivers
  <1> DEFINE later == {k \in 0 .. n - 1 : k + 1 \in present}
  <1>3. later \in SUBSET (0 .. Len(t)) /\ (Len(t) \in later <=> e \in wanted)
    BY <1>1, <1>2
  <1>4. 0 \in later <=> 1 \in present
    BY <1>1
  <1>5. ASSUME NEW k \in 1 .. Len(t)
        PROVE  IF t[k].event = e
               THEN (t[k].anti <=> k - 1 \in later) /\ (k \in later <=> k - 1 \notin later)
               ELSE k \in later <=> k - 1 \in later
    <2>1. k + 1 \in 1 .. n /\ t[k] = c[k + 1] /\ k - 1 \in 0 .. n - 1 /\ k \in 0 .. n - 1
      BY <1>1
    <2>2. (k \in later <=> k + 1 \in present) /\ (k - 1 \in later <=> k \in present)
      BY <2>1
    <2>3. k + 1 - 1 = k
      OBVIOUS
    <2> QED
      BY <1>2, <2>1, <2>2, <2>3
  <1>6. /\ c[1].event = e => (c[1].anti <=> e \in there)
        /\ 1 \in present <=> e \in then
    BY <1>1, <1>2
  <1> HIDE DEF later, t
  <1>7. 0 \in later <=> e \in then
    BY <1>4, <1>6
  <1>8. Delivers(t, e, then, wanted)
    BY <1>3, <1>5, <1>7 DEF Delivers
  <1> QED
    BY <1>6, <1>8 DEF t

\* More messages are sent, and among them at most one is about e.
LEMMA DeliversMore ==
    ASSUME NEW c, IsSeq(c), NEW d, IsSeq(d), NEW e, NEW there, NEW wanted,
           Delivers(c, e, there, wanted),
           \A j, k \in 1 .. Len(d) : d[j].event = e /\ d[k].event = e => j = k,
           \A k \in 1 .. Len(d) : d[k].event = e => (d[k].anti <=> e \in wanted),
           NEW then,
           e \in then <=> IF \E k \in 1 .. Len(d) : d[k].event = e
                         THEN e \notin wanted ELSE e \in wanted
    PROVE  Delivers(c \o d, e, there, then)
  <1> DEFINE n == Len(c)
             m == Len(d)
             s == c \o d
  <1>1. /\ n \in Nat /\ m \in Nat /\ Len(s) = n + m
        /\ \A k \in 1 .. n : s[k] = c[k]
        /\ \A k \in 1 .. m : s[n + k] = d[k]
    BY SeqShape, SeqConcat
  <1>2. PICK present \in SUBSET (0 .. n) :
            /\ 0 \in present <=> e \in there
            /\ n \in present <=> e \in wanted
            /\ \A k \in 1 .. n :
                  IF c[k].event = e
                  THEN (c[k].anti <=> k - 1 \in present) /\ (k \in present <=> k - 1 \notin present)
                  ELSE k \in present <=> k - 1 \in present
    BY DEF Delivers
  <1> DEFINE Told(k) == \E j \in 1 .. m : j <= k - n /\ d[j].event = e
             all == {k \in 0 .. n + m : IF k <= n THEN k \in present
                                        ELSE IF Told(k) THEN e \notin wanted ELSE e \in wanted}
  <1>3. all \in SUBSET (0 .. Len(s))
    BY <1>1
  <1>4. 0 \in all <=> e \in there
    BY <1>1, <1>2
  <1>5. n + m \in all <=> e \in then
    <2>1. CASE m = 0
      BY <1>1, <1>2, <2>1
    <2>2. CASE m > 0
      <3>1. Told(n + m) <=> \E k \in 1 .. m : d[k].event = e
        BY <1>1
      <3>2. n + m \in 0 .. n + m /\ ~ (n + m <= n)
        BY <1>1, <2>2
      <3> HIDE DEF Told
      <3>3. n + m \in all <=> IF Told(n + m) THEN e \notin wanted ELSE e \in wanted
        BY <3>2
      <3> QED
        BY <3>1, <3>3
    <2> QED
      BY <1>1, <2>1, <2>2
  <1>6. ASSUME NEW k \in 1 .. n + m
        PROVE  IF s[k].event = e
               THEN (s[k].anti <=> k - 1 \in all) /\ (k \in all <=> k - 1 \notin all)
               ELSE k \in all <=> k - 1 \in all
    <2>0. k \in 0 .. n + m /\ k - 1 \in 0 .. n + m
      BY <1>1
    <2>1. CASE k <= n
      <3>1. s[k] = c[k] /\ (k \in all <=> k \in present) /\ (k - 1 \in all <=> k - 1 \in present)
        BY <1>1, <2>0, <2>1
      <3>2. k \in 1 .. n
        BY <1>1, <2>1
      <3> HIDE DEF all
      <3> QED
        BY <1>2, <3>1, <3>2
    <2>2. CASE k > n
      <3> DEFINE j == k - n
      <3>1. j \in 1 .. m /\ s[k] = d[j]
        <4>1. k - n \in 1 .. m /\ n + (k - n) = k
          BY <1>1, <2>2
        <4> QED
          BY <1>1, <4>1
      <3>2. k \in all <=> IF Told(k) THEN e \notin wanted ELSE e \in wanted
        <4> HIDE DEF Told
        <4> QED
          BY <1>1, <2>0, <2>2
      <3>3. k - 1 \in all <=> IF Told(k - 1) THEN e \notin wanted ELSE e \in wanted
        <4>1. CASE k - 1 = n
          <5>1. ~ Told(k - 1)
            BY <1>1, <4>1
          <5>2. k - 1 \in all <=> k - 1 \in present
            BY <1>1, <2>0, <4>1
          <5> HIDE DEF Told, all
          <5> QED
            BY <1>2, <4>1, <5>1, <5>2
        <4>2. CASE k - 1 > n
          <5> HIDE DEF Told
          <5> QED
            BY <1>1, <2>0, <4>2
        <4> QED
          BY <1>1, <2>2, <4>1, <4>2
      <3>4. CASE d[j].event = e
        <4>1. Told(k)
          BY <1>1, <3>1, <3>4
        <4>2. ~ Told(k - 1)
          BY <1>1, <3>1, <3>4
        <4>3. d[j].anti <=> e \in wanted
          BY <3>1, <3>4
        <4> HIDE DEF Told, all, j
        <4> QED
          BY <3>1, <3>2, <3>3, <3>4, <4>1, <4>2, <4>3
      <3>5. CASE d[j].event # e
        <4>1. Told(k) <=> Told(k - 1)
          <5>1. \A i \in 1 .. m : i <= k - n /\ d[i].event = e => i <= k - 1 - n
            BY <1>1, <3>1, <3>5
          <5>2. \A i \in 1 .. m : i <= k - 1 - n => i <= k - n
            BY <1>1
          <5> QED
            BY <5>1, <5>2
        <4> HIDE DEF Told, all, j
        <4> QED
          BY <3>1, <3>2, <3>3, <3>5, <4>1
      <3> QED
        BY <3>4, <3>5
    <2> QED
      BY <1>1, <2>1, <2>2
  <1> HIDE DEF all, s
  <1>7. Delivers(s, e, there, then)
    BY <1>1, <1>3, <1>4, <1>5, <1>6 DEF Delivers
  <1> QED
    BY <1>7 DEF s

\* Only e itself matters.
LEMMA DeliversSame ==
    ASSUME NEW c, NEW e, NEW there, NEW wanted, Delivers(c, e, there, wanted),
           NEW there2, e \in there2 <=> e \in there, NEW wanted2, e \in wanted2 <=> e \in wanted
    PROVE  Delivers(c, e, there2, wanted2)
  BY DEF Delivers

-----------------------------------------------------------------------------
(* The handlers, called on an event of the run.                             *)

LEMMA AsSentShape ==
    ASSUME NEW e, IsEvent(e)
    PROVE  AsSent(e) = e
  BY DEF AsSent, IsEvent

LEMMA HandledState ==
    ASSUME NEW S, NeuronModel(S), NEW lp, IsState(lp, S), NEW e, InRun(e)
    PROVE  IsState(Handle(lp, e).lp, S)
  <1> DEFINE new == Handle(lp, e).lp
  <1>1. IsLP(lp) /\ lp.neuron \in S /\ lp.last_heartbeat \in Nat /\ lp.next_heartbeat_sent \in BOOLEAN
    BY DEF IsState
  <1>2. IsEvent(e) /\ e.time \in Nat /\ Prev(e.time) \in Nat
    BY PrevBeat DEF InRun, IsEvent
  <1>3. IsLP(new) /\ new.last_heartbeat \in Nat /\ new.next_heartbeat_sent \in BOOLEAN
    BY <1>1, <1>2, HandledLP
  <1>4. new.neuron \in S
    BY <1>1, <1>2, HandledNeuron DEF NeuronModel
  <1> QED
    BY <1>3, <1>4 DEF IsState

\* The record of an event handled, and what undoing it gives.
LEMMA HandledRecord ==
    ASSUME NEW S, NeuronModel(S), NEW lp, IsState(lp, S), NEW e, InRun(e), NEW r,
           r = [event |-> Handled(lp, e), saved |-> Saved(lp), before |-> lp,
                sent |-> Sent(Handle(lp, e).sent)]
    PROVE  /\ Event(r) = e
           /\ IsRecord(r, S)
  <1>1. e = [type |-> e.type, dest |-> e.dest, time |-> e.time, current |-> e.current,
             id |-> e.id, fired |-> FALSE]
    BY DEF InRun, IsEvent
  <1>2. Event(r) = e
    <2>1. Handled(lp, e) = [e EXCEPT !.fired = e.fired \/ Handle(lp, e).fired]
      BY Zenon DEF Handled
    <2>2. Event(r) = [[e EXCEPT !.fired = e.fired \/ Handle(lp, e).fired] EXCEPT !.fired = FALSE]
      BY <2>1 DEF Event, AsSent
    <2> QED
      BY <1>1, <2>2, ClearedFired
  <1> QED
    BY <1>2 DEF IsRecord

LEMMA RecordUndone ==
    ASSUME NEW S, NeuronModel(S), NEW r, IsRecord(r, S)
    PROVE  /\ Unhandle(Handle(r.before, Event(r)).lp, r.saved) = r.before
           /\ Unhandled(r.event) = Event(r)
           /\ r.event.dest = Event(r).dest
  <1> DEFINE lp == r.before
             e  == Event(r)
  <1>1. IsLP(lp) /\ RestoredFromStore(lp.neuron) /\ r.saved = Saved(lp) /\ r.event = Handled(lp, e)
    BY DEF IsRecord, IsState, NeuronModel
  <1>2. e = [type |-> e.type, dest |-> e.dest, time |-> e.time, current |-> e.current,
             id |-> e.id, fired |-> FALSE]
    BY DEF IsRecord, InRun, IsEvent
  <1>3. Handled(lp, e).dest = e.dest
    <2> HIDE DEF lp, e
    <2> QED
      BY <1>2 DEF Handled
  <1> HIDE DEF lp, e
  <1>4. Unhandle(Handle(lp, e).lp, Saved(lp)) = lp /\ Unhandled(Handled(lp, e)) = e
    BY <1>1, <1>2, UndoneIsUndone
  <1> QED
    BY <1>1, <1>3, <1>4 DEF lp, e

\* The events a handler sends within the run.
LEMMA HandledEvents ==
    ASSUME NEW lp, NEW e, InRun(e), NEW s \in Sent(Handle(lp, e).sent)
    PROVE  /\ InRun(s)
           /\ Sender(s) = PEOf[e.dest]
           /\ s.time > e.time
           /\ s.type = "spike" =>
                 e.type = "heartbeat" /\ s.id.src = e.dest /\ s.id.at = e.time
           /\ s.type = "heartbeat" =>
                 /\ s.dest = e.dest
                 /\ s.time = Prev(e.time) + Beat
                 /\ IF SpikeDriven THEN e.type = "spike" /\ ~ lp.next_heartbeat_sent
                                   ELSE e.type = "heartbeat"
  <1>1. IsEvent(e) /\ (e.type = "heartbeat" => e.time % Beat = 0) /\ s \in Handle(lp, e).sent
    BY DEF InRun, Sent
  <1>2. /\ IsEvent(s) /\ s.current \in Int
        /\ s.time > e.time
        /\ s.type = "spike" =>
              s.id.src = e.dest /\ s.id.at = e.time /\ e.type = "heartbeat"
        /\ s.type = "heartbeat" =>
              /\ s.dest = e.dest
              /\ s.time = Prev(e.time) + Beat
              /\ IF SpikeDriven THEN e.type = "spike" /\ ~ lp.next_heartbeat_sent
                                ELSE e.type = "heartbeat"
    BY <1>1, HandledSent
  <1>3. e.time \in Nat /\ e.dest \in Neurons
    BY <1>1 DEF IsEvent
  <1>4. s.type = "heartbeat" => s.time % Beat = 0 /\ s.time > 0
    <2>1. Prev(e.time) \in Nat /\ Prev(e.time) % Beat = 0
      BY <1>3, PrevBeat
    <2>2. (Prev(e.time) + Beat) % Beat = 0
      BY <2>1, NextMultiple
    <2> QED
      BY <1>2, <2>1, <2>2, DriverAssumption
  <1>5. InRun(s)
    <2>1. s.time < End
      BY DEF Sent
    <2> QED
      BY <1>2, <1>3, <1>4, <2>1 DEF InRun
  <1>6. Sender(s) = PEOf[e.dest]
    <2>1. s.type \in {"heartbeat", "spike"}
      BY <1>2 DEF IsEvent
    <2> QED
      BY <1>2, <2>1 DEF Sender
  <1> QED
    BY <1>2, <1>5, <1>6

LEMMA HandledEventsFinite ==
    ASSUME NEW lp, NEW e, InRun(e)
    PROVE  IsFiniteSet(Sent(Handle(lp, e).sent))
  <1>1. IsFiniteSet(Handle(lp, e).sent)
    BY HandledFinite DEF InRun, IsEvent
  <1>2. Sent(Handle(lp, e).sent) \subseteq Handle(lp, e).sent
    BY DEF Sent
  <1> QED
    BY <1>1, <1>2, FS_Subset

-----------------------------------------------------------------------------
(* The invariant holds at the start.                                        *)

LEMMA RouteOf ==
    ASSUME NEW e, InRun(e)
    PROVE  Sender(e) \in PEs /\ PEOf[e.dest] \in PEs
  BY PEAssumption DEF InRun, IsEvent, Sender

LEMMA InitDue ==
    ASSUME Init, NEW e \in due
    PROVE  /\ InRun(e)
           /\ Sender(e) = PEOf[e.dest]
           /\ e.type = "spike" => e.id.at = 0
           /\ e.type = "heartbeat" => ~ SpikeDriven /\ e = heartbeat(e.dest, Beat, Id(e.dest, 0, 0))
  <1>1. PICK input \in SpikeInputs :
           due = Sent(UNION {driver_neuron_init(n, input[n]) : n \in Neurons})
    BY DEF Init
  <1>2. PICK n \in Neurons : e \in driver_neuron_init(n, input[n]) /\ e.time < End
    BY <1>1 DEF Sent
  <1>3. /\ IsEvent(e)
        /\ e.current \in Int
        /\ e.type = "spike" => e.dest = n /\ e.id.src = n /\ e.id.at = 0
        /\ e.type = "heartbeat" => ~ SpikeDriven /\ e = heartbeat(n, Beat, Id(n, 0, 0))
    BY <1>2, FirstEvents
  <1>4. LET h == heartbeat(n, Beat, Id(n, 0, 0)) IN h.time = Beat /\ h.dest = n
    BY NewHeartbeat, DriverAssumption
  <1>5. Beat % Beat = 0
    BY NextMultiple, ZeroIsABeat, DriverAssumption
  <1>6. e.type = "heartbeat" => e.time % Beat = 0 /\ e.time > 0 /\ e.dest = n
    BY <1>3, <1>4, <1>5, DriverAssumption
  <1>7. InRun(e)
    BY <1>2, <1>3, <1>6 DEF InRun
  <1>8. Sender(e) = PEOf[e.dest]
    BY <1>3 DEF Sender, IsEvent
  <1> QED
    BY <1>3, <1>6, <1>7, <1>8

LEMMA InitInv ==
    ASSUME NEW S, NeuronModel(S), Init
    PROVE  IInv(S)
  <1>1. /\ lps = [n \in Neurons |-> initialize_NeuronLP(n)]
        /\ pending = [p \in PEs |-> Local(p, due)]
        /\ processed = [p \in PEs |-> <<>>]
        /\ channel = [pair \in PEs \X PEs |-> <<>>]
        /\ horizon = 0 /\ trace = {}
    BY DEF Init
  <1>2. \A p \in PEs : /\ DOMAIN processed[p] = {} /\ pending[p] = Local(p, due)
                       /\ processed[p] = <<>>
    BY <1>1
  <1>3. \A q, p \in PEs : channel[<<q, p>>] = <<>>
    BY <1>1
  <1>4. \A p \in PEs : There(p) = {e \in due : PEOf[e.dest] = p}
    BY <1>2 DEF There, Local
  <1>5. horizon \in Nat /\ horizon < End
    BY <1>1, DriverAssumption
  <1>6. LPInv(S)
    <2>1. \A n \in Neurons : lps[n] = initialize_NeuronLP(n)
      BY <1>1
    <2>2. \A n \in Neurons : IsState(initialize_NeuronLP(n), S)
      BY DEF IsState, IsLP, initialize_NeuronLP, NeuronModel, StateSpace
    <2> QED
      BY <1>1, <2>1, <2>2 DEF LPInv
  <1>7. PendingInv
    BY <1>1, <1>2, InitDue DEF PendingInv, Local
  <1>8. RecordInv(S)
    <2>1. IsSeq(<<>>)
      BY <<>> \in Seq({}) DEF IsSeq
    <2> QED
      BY <1>1, <1>2, <2>1 DEF RecordInv
  <1>9. OrderInv /\ ChainInv /\ OnceInv
    BY <1>2 DEF OrderInv, ChainInv, OnceInv
  <1>10. ChannelInv
    <2>1. IsSeq(<<>>)
      BY <<>> \in Seq({}) DEF IsSeq
    <2> QED
      BY <1>1, <1>3, <2>1 DEF ChannelInv
  <1>11. DeliveryInv
    <2> SUFFICES ASSUME NEW e, InRun(e) PROVE Agreed(e)
      BY DEF DeliveryInv
    <2>1. Sender(e) \in PEs /\ PEOf[e.dest] \in PEs
      BY RouteOf
    <2>2. channel[<<Sender(e), PEOf[e.dest]>>] = <<>>
      BY <1>3, <2>1
    <2>3. IsSeq(<<>>) /\ Len(<<>>) = 0
      BY <<>> \in Seq({}) DEF IsSeq
    <2>4. e \in There(PEOf[e.dest]) <=> e \in due
      BY <1>4, <2>1
    <2>5. e \in Wanted(Sender(e)) <=> e \in due
      BY <1>2, <2>1 DEF Wanted
    <2> QED
      BY <2>2, <2>3, <2>4, <2>5, DeliversNothing DEF Agreed
  <1>12. HeartbeatInv
    <2>1. ASSUME NEW x \in due, NEW y \in due, x.type = "heartbeat", y.type = "heartbeat",
                 x.dest = y.dest
          PROVE  x = y
      BY <2>1, InitDue
    <2>2. \A x \in due : x.time \in Nat
      BY InitDue DEF InRun, IsEvent
    <2> QED
      BY <1>1, <1>4, <2>1, <2>2 DEF HeartbeatInv
  <1>13. FlagInv
    BY <1>4, InitDue DEF FlagInv
  <1>14. DueInv
    <2>1. ASSUME NEW x \in due, NEW y \in due, x.type = "heartbeat", y.type = "heartbeat",
                 y.dest = x.dest
          PROVE  y = x
      BY <2>1, InitDue
    <2>2. \A e \in due : InRun(e) /\ (e.type = "spike" => e.id.at = 0)
      BY InitDue
    <2> QED
      BY <2>1, <2>2 DEF DueInv
  <1>15. HorizonInv
    <2>1. ASSUME NEW e \in due PROVE horizon <= e.time
      <3>1. InRun(e)
        BY InitDue
      <3> QED
        BY <1>1, <3>1 DEF InRun, IsEvent
    <2> QED
      BY <1>3, <1>4, <2>1 DEF HorizonInv
  <1> QED
    BY <1>1, <1>5, <1>6, <1>7, <1>8, <1>9, <1>10, <1>11, <1>12, <1>13, <1>14, <1>15 DEF IInv

-----------------------------------------------------------------------------
(* What the invariant says of an event.                                     *)

LEMMA ThereInRun ==
    ASSUME NEW S, IInv(S), NEW p \in PEs, NEW f \in There(p)
    PROVE  InRun(f) /\ PEOf[f.dest] = p /\ f.time \in Nat /\ f.dest \in Neurons /\ horizon <= f.time
  <1>1. InRun(f) /\ PEOf[f.dest] = p
    BY DEF IInv, PendingInv, RecordInv, IsRecord, There, EventAt
  <1> QED
    BY <1>1 DEF InRun, IsEvent, IInv, HorizonInv

LEMMA RecordEvents ==
    ASSUME NEW S, IInv(S), NEW p \in PEs, NEW i \in DOMAIN processed[p],
           NEW x \in processed[p][i].sent
    PROVE  /\ InRun(x)
           /\ Sender(x) = p
           /\ x.time > EventAt(p, i).time
           /\ x.type = "spike" =>
                 /\ EventAt(p, i).type = "heartbeat"
                 /\ x.id.src = EventAt(p, i).dest /\ x.id.at = EventAt(p, i).time
           /\ x.type = "heartbeat" =>
                 /\ x.dest = EventAt(p, i).dest
                 /\ x.time = Prev(EventAt(p, i).time) + Beat
                 /\ IF SpikeDriven
                    THEN /\ EventAt(p, i).type = "spike"
                         /\ ~ processed[p][i].before.next_heartbeat_sent
                    ELSE EventAt(p, i).type = "heartbeat"
  <1> DEFINE r == processed[p][i]
             e == EventAt(p, i)
  <1>1. IsRecord(r, S) /\ PEOf[e.dest] = p
    BY DEF IInv, RecordInv
  <1>2. InRun(e) /\ x \in Sent(Handle(r.before, e).sent)
    BY <1>1 DEF IsRecord, EventAt
  <1> HIDE DEF r, e
  <1>3. /\ InRun(x)
        /\ Sender(x) = PEOf[e.dest]
        /\ x.time > e.time
        /\ x.type = "spike" =>
              e.type = "heartbeat" /\ x.id.src = e.dest /\ x.id.at = e.time
        /\ x.type = "heartbeat" =>
              /\ x.dest = e.dest
              /\ x.time = Prev(e.time) + Beat
              /\ IF SpikeDriven THEN e.type = "spike" /\ ~ r.before.next_heartbeat_sent
                                ELSE e.type = "heartbeat"
    BY <1>2, HandledEvents
  <1> QED
    BY <1>1, <1>3 DEF r, e

\* An event nothing is on its way about is where its sender wants it.
LEMMA Arrived ==
    ASSUME NEW S, IInv(S), NEW e, InRun(e),
           \A k \in DOMAIN channel[<<Sender(e), PEOf[e.dest]>>] :
               channel[<<Sender(e), PEOf[e.dest]>>][k].event # e
    PROVE  e \in There(PEOf[e.dest]) <=> e \in Wanted(Sender(e))
  <1> DEFINE c == channel[<<Sender(e), PEOf[e.dest]>>]
  <1>1. Sender(e) \in PEs /\ PEOf[e.dest] \in PEs
    BY RouteOf
  <1>2. IsSeq(c)
    BY <1>1 DEF IInv, ChannelInv
  <1>3. \A k \in 1 .. Len(c) : c[k].event # e
    BY <1>2, SeqShape
  <1>4. Delivers(c, e, There(PEOf[e.dest]), Wanted(Sender(e)))
    BY DEF IInv, DeliveryInv, Agreed
  <1> HIDE DEF c
  <1> QED
    BY <1>2, <1>3, <1>4, DeliversNothing

\* In particular one that a PE sends to itself.
LEMMA Own ==
    ASSUME NEW S, IInv(S), NEW p \in PEs, NEW e, InRun(e), Sender(e) = p, PEOf[e.dest] = p
    PROVE  e \in There(p) <=> e \in Wanted(p)
  <1>1. channel[<<p, p>>] = <<>>
    BY DEF IInv, ChannelInv
  <1>2. \A k \in DOMAIN channel[<<p, p>>] : channel[<<p, p>>][k].event # e
    BY <1>1
  <1> QED
    BY <1>2, Arrived

\* A heartbeat that an event asks for is not there yet.
LEMMA NewHeartbeatTime ==
    ASSUME NEW S, IInv(S), NEW p \in PEs, NEW e \in pending[p],
           NEW x \in Sent(Handle(lps[e.dest], e).sent), x.type = "heartbeat",
           NEW y \in There(p), y.type = "heartbeat", y.dest = x.dest
    PROVE  y.time # x.time
  <1> DEFINE lp == lps[e.dest]
  <1>1. /\ e \in There(p) /\ InRun(e) /\ InRun(y) /\ PEOf[y.dest] = p
        /\ e.time \in Nat /\ y.time \in Nat /\ e.dest \in Neurons
    BY ThereInRun DEF There
  <1>2. /\ x.dest = e.dest /\ x.time = Prev(e.time) + Beat /\ x.time > e.time
        /\ IF SpikeDriven THEN e.type = "spike" /\ ~ lp.next_heartbeat_sent
                          ELSE e.type = "heartbeat"
    BY <1>1, HandledEvents
  <1>3. SUFFICES ASSUME y.time = x.time PROVE FALSE
    OBVIOUS
  <1>4. CASE SpikeDriven
    <2>1. CASE y \in pending[p]
      BY <1>2, <1>4, <2>1 DEF IInv, FlagInv
    <2>2. CASE y \notin pending[p]
      <3>1. PICK i \in DOMAIN processed[p] : y = EventAt(p, i)
        BY <2>2 DEF There
      <3>2. ~ Before(e, y)
        BY <3>1 DEF IInv, OrderInv
      <3> QED
        BY <1>1, <1>2, <1>3, <3>2 DEF Before
    <2> QED
      BY <2>1, <2>2
  <1>5. CASE ~ SpikeDriven
    <2>1. e.type = "heartbeat" /\ Prev(e.time) = e.time
      <3>1. e.time % Beat = 0
        BY <1>1, <1>2, <1>5 DEF InRun
      <3> QED
        BY <1>1, <1>2, <1>5, <3>1, PrevBeat
    <2>2. y \in Wanted(p)
      BY <1>1, Own DEF Sender
    <2>3. CASE y \in due
      <3>1. y.time <= e.time
        BY <1>1, <1>2, <1>5, <2>1, <2>3 DEF IInv, HeartbeatInv
      <3> QED
        BY <1>1, <1>2, <1>3, <3>1
    <2>4. CASE \E i \in DOMAIN processed[p] : y \in processed[p][i].sent
      <3>1. PICK i \in DOMAIN processed[p] : y \in processed[p][i].sent
        BY <2>4
      <3> DEFINE z == EventAt(p, i)
      <3>2. z \in There(p) /\ z.time \in Nat /\ InRun(z)
        BY <3>1, ThereInRun DEF There
      <3>3. z.type = "heartbeat" /\ z.dest = y.dest /\ y.time = Prev(z.time) + Beat
        BY <1>5, <3>1, RecordEvents
      <3>4. Prev(z.time) = z.time
        BY <3>2, <3>3, PrevBeat DEF InRun
      <3>5. z.time = e.time
        BY <1>1, <1>2, <1>3, <2>1, <3>2, <3>3, <3>4, DriverAssumption
      <3>6. z = e
        BY <1>1, <1>2, <2>1, <3>2, <3>3, <3>5 DEF IInv, HeartbeatInv
      <3> QED
        BY <3>1, <3>6 DEF IInv, OrderInv
    <2> QED
      BY <2>2, <2>3, <2>4 DEF Wanted
  <1> QED
    BY <1>4, <1>5

\* What an event has its neuron send has not been sent yet, or has been taken back.
LEMMA NewEvents ==
    ASSUME NEW S, IInv(S), NEW p \in PEs, NEW e \in pending[p],
           NEW x \in Sent(Handle(lps[e.dest], e).sent)
    PROVE  x \notin Wanted(p)
  <1>1. e \in There(p) /\ InRun(e) /\ e.time \in Nat /\ PEOf[e.dest] = p
    BY ThereInRun DEF There
  <1>2. /\ InRun(x) /\ Sender(x) = p
        /\ x.type = "spike" =>
              e.type = "heartbeat" /\ x.id.src = e.dest /\ x.id.at = e.time
        /\ x.type = "heartbeat" => x.dest = e.dest
    BY <1>1, HandledEvents
  <1>3. CASE x.type = "heartbeat"
    <2>1. x \notin There(p)
      BY <1>3, NewHeartbeatTime
    <2> QED
      BY <1>1, <1>2, <1>3, <2>1, Own
  <1>4. CASE x.type = "spike"
    <2>1. e.type = "heartbeat" /\ x.id.src = e.dest /\ x.id.at = e.time /\ e.time > 0
      BY <1>1, <1>2, <1>4 DEF InRun
    <2>2. x \notin due
      <3> SUFFICES ASSUME x \in due PROVE FALSE
        OBVIOUS
      <3>1. PICK r \in trace : r.neuron = e.dest /\ r.time = e.time
        BY <1>4, <2>1 DEF IInv, DueInv
      <3>2. r.time < e.time
        BY <1>1, <2>1, <3>1 DEF IInv, HeartbeatInv
      <3> QED
        BY <1>1, <3>1, <3>2
    <2>3. ASSUME NEW i \in DOMAIN processed[p], x \in processed[p][i].sent
          PROVE  FALSE
      <3> DEFINE z == EventAt(p, i)
      <3>1. z \in There(p)
        BY DEF There
      <3>2. z.type = "heartbeat" /\ z.dest = e.dest /\ z.time = e.time
        BY <1>4, <2>1, <2>3, RecordEvents
      <3>3. z = e
        BY <1>1, <2>1, <3>1, <3>2 DEF IInv, HeartbeatInv
      <3> QED
        BY <3>3 DEF IInv, OrderInv
    <2> QED
      BY <2>2, <2>3 DEF Wanted
  <1> QED
    BY <1>2, <1>3, <1>4 DEF InRun, IsEvent

-----------------------------------------------------------------------------
(* What p sends, or cancels.                                                *)

IsCancelling(what) == what = "cancelled"

\* The messages d tell of each of the events once, that it is sent or that it is cancelled.
Tells(d, events, what) ==
    /\ IsSeq(d)
    /\ \A k \in 1 .. Len(d) :
          /\ d[k] = Message(d[k].event, d[k].anti)
          /\ d[k].anti \in BOOLEAN /\ (d[k].anti <=> IsCancelling(what))
          /\ d[k].event \in events
    /\ \A x \in events : \E k \in 1 .. Len(d) : d[k].event = x
    /\ \A j, k \in 1 .. Len(d) : d[j].event = d[k].event => j = k

\* Between channels c and new, p has sent the events, or their cancellations.
Sends(c, new, p, events, what) ==
    /\ new = [pair \in PEs \X PEs |-> new[pair]]
    /\ \A a, b \in PEs :
          IF a # p \/ b = p THEN new[<<a, b>>] = c[<<a, b>>]
          ELSE \E d : Tells(d, Local(b, events), what) /\ new[<<a, b>>] = c[<<a, b>>] \o d

LEMMA PostedSends ==
    ASSUME NEW c, NEW p \in PEs, NEW events, IsFiniteSet(events), NEW anti \in BOOLEAN,
           NEW what, anti <=> IsCancelling(what)
    PROVE  Sends(c, Posted(c, p, events, anti), p, events, what)
  <1> DEFINE new == Posted(c, p, events, anti)
             Told(b) == [i \in DOMAIN SetToSeq(Local(b, events))
                            |-> Message(SetToSeq(Local(b, events))[i], anti)]
  <1>1. new = [pair \in PEs \X PEs |-> new[pair]]
    BY DEF Posted
  <1>2. ASSUME NEW a \in PEs, NEW b \in PEs
        PROVE  new[<<a, b>>] = IF a # p \/ b = p THEN c[<<a, b>>] ELSE c[<<a, b>>] \o Told(b)
    BY DEF Posted
  <1>3. ASSUME NEW b \in PEs
        PROVE  Tells(Told(b), Local(b, events), what)
    <2> DEFINE E == Local(b, events)
               s == SetToSeq(E)
               d == Told(b)
    <2>1. IsFiniteSet(E)
      <3>1. E \subseteq events
        BY DEF Local
      <3> QED
        BY <3>1, FS_Subset
    <2>2. /\ IsSeq(s)
          /\ \A e : e \in E <=> \E k \in 1 .. Len(s) : s[k] = e
          /\ \A j, k \in 1 .. Len(s) : s[j] = s[k] => j = k
      BY <2>1, SetToSeqShape
    <2>3. Len(s) \in Nat /\ DOMAIN s = 1 .. Len(s)
      BY <2>2, SeqShape
    <2> HIDE DEF E
    <2>4. d = [i \in 1 .. Len(s) |-> Message(s[i], anti)]
      BY <2>3 DEF E
    <2> HIDE DEF s, Told
    <2>5. d \in Seq({Message(s[i], anti) : i \in 1 .. Len(s)}) /\ Len(d) = Len(s)
      BY <2>3, <2>4
    <2>6. IsSeq(d)
      BY <2>5 DEF IsSeq
    <2>7. \A k \in 1 .. Len(d) : d[k] = Message(s[k], anti) /\ d[k].event = s[k] /\ d[k].anti = anti
      BY <2>4, <2>5 DEF Message
    <2> QED
      BY <2>2, <2>5, <2>6, <2>7 DEF Tells, E
  <1> HIDE DEF new, Told
  <1> QED
    BY <1>1, <1>2, <1>3 DEF Sends, new

LEMMA Posting ==
    ASSUME NEW c, NEW p \in PEs, NEW events, IsFiniteSet(events)
    PROVE  /\ Sends(c, Posted(c, p, events, FALSE), p, events, "sent")
           /\ Sends(c, Posted(c, p, events, TRUE), p, events, "cancelled")
  <1>1. ~ IsCancelling("sent") /\ IsCancelling("cancelled")
    BY DEF IsCancelling
  <1> QED
    BY <1>1, PostedSends

\* Each channel keeps what it held, and holds besides what p has to say to the PE at its end.
LEMMA SentOn ==
    ASSUME NEW c, NEW new, NEW p, NEW events, NEW what, Sends(c, new, p, events, what),
           NEW a \in PEs, NEW b \in PEs, IsSeq(c[<<a, b>>]),
           NEW k \in DOMAIN new[<<a, b>>]
    PROVE  \/ k \in DOMAIN c[<<a, b>>] /\ new[<<a, b>>][k] = c[<<a, b>>][k]
           \/ /\ a = p /\ b # p
              /\ new[<<a, b>>][k].event \in Local(b, events)
              /\ new[<<a, b>>][k].anti \in BOOLEAN
              /\ new[<<a, b>>][k] = Message(new[<<a, b>>][k].event, new[<<a, b>>][k].anti)
  <1> DEFINE s == c[<<a, b>>]
             t == new[<<a, b>>]
  <1>1. CASE a # p \/ b = p
    BY <1>1 DEF Sends
  <1>2. CASE a = p /\ b # p
    <2>1. PICK d : Tells(d, Local(b, events), what) /\ t = s \o d
      BY <1>2 DEF Sends
    <2>2. /\ DOMAIN t = 1 .. Len(s) + Len(d)
          /\ \A i \in 1 .. Len(s) : t[i] = s[i]
          /\ \A i \in 1 .. Len(d) : t[Len(s) + i] = d[i]
      BY <2>1, SeqConcat DEF Tells
    <2>3. Len(s) \in Nat /\ DOMAIN s = 1 .. Len(s) /\ Len(d) \in Nat
      BY <2>1, SeqShape DEF Tells
    <2> HIDE DEF s, t
    <2>4. CASE k \in 1 .. Len(s)
      BY <2>2, <2>3, <2>4 DEF s, t
    <2>5. CASE k \notin 1 .. Len(s)
      <3> DEFINE i == k - Len(s)
      <3>1. i \in 1 .. Len(d) /\ k = Len(s) + i
        BY <2>2, <2>3, <2>5 DEF t
      <3>2. t[k] = d[i]
        BY <2>2, <3>1
      <3> QED
        BY <1>2, <2>1, <3>1, <3>2 DEF Tells, t
    <2> QED
      BY <2>4, <2>5
  <1> QED
    BY <1>1, <1>2

LEMMA SendsSeq ==
    ASSUME NEW c, NEW new, NEW p, NEW events, NEW what, Sends(c, new, p, events, what),
           NEW a \in PEs, NEW b \in PEs, IsSeq(c[<<a, b>>])
    PROVE  IsSeq(new[<<a, b>>])
  <1>1. CASE a # p \/ b = p
    BY <1>1 DEF Sends
  <1>2. CASE a = p /\ b # p
    <2>1. PICK d : Tells(d, Local(b, events), what) /\ new[<<a, b>>] = c[<<a, b>>] \o d
      BY <1>2 DEF Sends
    <2> QED
      BY <2>1, SeqConcat DEF Tells
  <1> QED
    BY <1>1, <1>2

\* What is on its way once p has sent an event it did not want there, or cancelled one it did.
LEMMA SendsDelivers ==
    ASSUME NEW c, NEW new, NEW p \in PEs, NEW events, NEW what,
           Sends(c, new, p, events, what),
           NEW b \in PEs, b # p, IsSeq(c[<<p, b>>]),
           NEW e, PEOf[e.dest] = b,
           NEW there, NEW wanted, Delivers(c[<<p, b>>], e, there, wanted),
           e \in events => (IsCancelling(what) <=> e \in wanted),
           NEW then, e \in then <=> IF e \in events THEN e \notin wanted ELSE e \in wanted
    PROVE  Delivers(new[<<p, b>>], e, there, then)
  <1>1. PICK d : Tells(d, Local(b, events), what) /\ new[<<p, b>>] = c[<<p, b>>] \o d
    BY DEF Sends
  <1>2. e \in events <=> \E k \in 1 .. Len(d) : d[k].event = e
    BY <1>1 DEF Tells, Local
  <1>3. IsSeq(d) /\ \A j, k \in 1 .. Len(d) : d[j].event = e /\ d[k].event = e => j = k
    BY <1>1 DEF Tells
  <1>4. \A k \in 1 .. Len(d) : d[k].event = e => (d[k].anti <=> e \in wanted)
    BY <1>1, <1>2 DEF Tells
  <1>5. e \in then <=> IF \E k \in 1 .. Len(d) : d[k].event = e
                      THEN e \notin wanted ELSE e \in wanted
    BY <1>2
  <1>6. Delivers(c[<<p, b>>] \o d, e, there, then)
    BY <1>3, <1>4, <1>5, DeliversMore
  <1> QED
    BY <1>1, <1>6

-----------------------------------------------------------------------------
(* An event is handled.                                                     *)

\* What Process(p) does when e is the event and r the record made of it.
Forward(p, e, r) ==
    /\ e \in pending[p] /\ InRun(e) /\ PEOf[e.dest] = p
    /\ \A f \in pending[p] : ~ Before(f, e)
    /\ r.before = lps[e.dest] /\ Event(r) = e /\ r.event.dest = e.dest
    /\ lps' = [lps EXCEPT ![e.dest] = Handle(r.before, e).lp]
    /\ pending' = [pending EXCEPT ![p] = (@ \ {e}) \cup Local(p, r.sent)]
    /\ processed' = [processed EXCEPT ![p] = Append(@, r)]
    /\ Sends(channel, channel', p, r.sent, "sent")
    /\ UNCHANGED <<horizon, due, trace>>

LEMMA ProcessForward ==
    ASSUME NEW S, NeuronModel(S), IInv(S), NEW p \in PEs, Process(p)
    PROVE  \E e, r : Forward(p, e, r) /\ IsRecord(r, S)
  <1>1. PICK e \in pending[p] :
           LET lp   == lps[e.dest]
               out  == Handle(lp, e)
               sent == Sent(out.sent)
           IN  /\ \A f \in pending[p] : ~ Before(f, e)
               /\ lps' = [lps EXCEPT ![e.dest] = out.lp]
               /\ pending' = [pending EXCEPT ![p] = (@ \ {e}) \cup Local(p, sent)]
               /\ channel' = Posted(channel, p, sent, FALSE)
               /\ processed' = [processed EXCEPT ![p] =
                       Append(@, [event |-> Handled(lp, e), saved |-> Saved(lp),
                                  before |-> lp, sent |-> sent])]
               /\ UNCHANGED <<horizon, due, trace>>
    BY DEF Process
  <1> DEFINE lp == lps[e.dest]
             sent == Sent(Handle(lp, e).sent)
             r == [event |-> Handled(lp, e), saved |-> Saved(lp), before |-> lp, sent |-> sent]
  <1>2. InRun(e) /\ PEOf[e.dest] = p /\ e.dest \in Neurons
    BY DEF IInv, PendingInv, InRun, IsEvent
  <1>3. IsState(lp, S)
    BY <1>2 DEF IInv, LPInv
  <1>4. Event(r) = e /\ IsRecord(r, S)
    BY <1>2, <1>3, HandledRecord
  <1>5. r.event.dest = e.dest
    BY <1>4, RecordUndone
  <1>6. IsFiniteSet(sent)
    BY <1>2, HandledEventsFinite
  <1>7. Sends(channel, Posted(channel, p, sent, FALSE), p, sent, "sent")
    BY <1>6, Posting
  <1>8. r.before = lp /\ r.sent = sent
    OBVIOUS
  <1>9. Forward(p, e, r)
    BY <1>1, <1>2, <1>4, <1>5, <1>7, <1>8 DEF Forward
  <1> QED
    BY <1>4, <1>9

\* The state after it, PE by PE.
LEMMA ForwardState ==
    ASSUME NEW S, NeuronModel(S), IInv(S), NEW p \in PEs, NEW e, NEW r,
           Forward(p, e, r), IsRecord(r, S)
    PROVE  /\ e \in There(p) /\ e.time \in Nat /\ e.dest \in Neurons /\ horizon <= e.time
           /\ \A x \in r.sent : /\ InRun(x) /\ Sender(x) = p /\ x.time > e.time /\ x.time \in Nat
                                /\ x \notin Wanted(p)
           /\ lps' = [n \in Neurons |-> lps'[n]]
           /\ \A n \in Neurons : n # e.dest => lps'[n] = lps[n]
           /\ lps'[e.dest] = Handle(r.before, e).lp
           /\ pending' = [b \in PEs |-> pending'[b]]
           /\ pending'[p] = (pending[p] \ {e}) \cup Local(p, r.sent)
           /\ processed' = [b \in PEs |-> processed'[b]]
           /\ IsSeq(processed'[p])
           /\ Len(processed[p]) \in Nat /\ DOMAIN processed[p] = 1 .. Len(processed[p])
           /\ Len(processed'[p]) = Len(processed[p]) + 1
           /\ DOMAIN processed'[p] = 1 .. Len(processed[p]) + 1
           /\ \A i \in 1 .. Len(processed[p]) : processed'[p][i] = processed[p][i]
           /\ processed'[p][Len(processed[p]) + 1] = r
           /\ \A b \in PEs : b # p => pending'[b] = pending[b] /\ processed'[b] = processed[b]
  <1>1. e \in There(p) /\ e.time \in Nat /\ e.dest \in Neurons /\ horizon <= e.time
    BY ThereInRun DEF Forward, There
  <1>2. ASSUME NEW x \in r.sent
        PROVE  /\ InRun(x) /\ Sender(x) = p /\ x.time > e.time /\ x.time \in Nat
               /\ x \notin Wanted(p)
    <2>1. r.sent = Sent(Handle(lps[e.dest], e).sent)
      BY DEF Forward, IsRecord
    <2>2. x \in Sent(Handle(lps[e.dest], e).sent)
      BY <2>1
    <2>3. InRun(e) /\ PEOf[e.dest] = p /\ e \in pending[p]
      BY DEF Forward
    <2>4. InRun(x) /\ Sender(x) = p /\ x.time > e.time
      BY <2>2, <2>3, HandledEvents
    <2>5. x \notin Wanted(p)
      BY <2>2, <2>3, NewEvents
    <2> QED
      BY <2>4, <2>5 DEF InRun, IsEvent
  <1>3. /\ lps' = [n \in Neurons |-> lps'[n]]
        /\ \A n \in Neurons : n # e.dest => lps'[n] = lps[n]
        /\ lps'[e.dest] = Handle(r.before, e).lp
    BY <1>1 DEF Forward, IInv, LPInv
  <1>4. /\ pending' = [b \in PEs |-> pending'[b]]
        /\ pending'[p] = (pending[p] \ {e}) \cup Local(p, r.sent)
        /\ \A b \in PEs : b # p => pending'[b] = pending[b]
    BY DEF Forward, IInv, PendingInv
  <1>5. /\ processed' = [b \in PEs |-> processed'[b]]
        /\ processed'[p] = Append(processed[p], r)
        /\ \A b \in PEs : b # p => processed'[b] = processed[b]
    BY DEF Forward, IInv, RecordInv
  <1>6. IsSeq(processed[p])
    BY DEF IInv, RecordInv
  <1>7. Len(processed[p]) \in Nat /\ DOMAIN processed[p] = 1 .. Len(processed[p])
    BY <1>6, SeqShape
  <1>8. /\ IsSeq(Append(processed[p], r))
        /\ Len(Append(processed[p], r)) = Len(processed[p]) + 1
        /\ DOMAIN Append(processed[p], r) = 1 .. Len(processed[p]) + 1
        /\ \A i \in 1 .. Len(processed[p]) : Append(processed[p], r)[i] = processed[p][i]
        /\ Append(processed[p], r)[Len(processed[p]) + 1] = r
    BY <1>6, SeqAppend
  <1> QED
    BY <1>1, <1>2, <1>3, <1>4, <1>5, <1>7, <1>8

LEMMA ForwardThere ==
    ASSUME NEW S, NeuronModel(S), IInv(S), NEW p \in PEs, NEW e, NEW r,
           Forward(p, e, r), IsRecord(r, S)
    PROVE  /\ \A i \in 1 .. Len(processed[p]) : EventAt(p, i)' = EventAt(p, i)
           /\ \A i : i = Len(processed[p]) + 1 => EventAt(p, i)' = e
           /\ There(p)' = There(p) \cup Local(p, r.sent)
           /\ Wanted(p)' = Wanted(p) \cup r.sent
           /\ \A b \in PEs : b # p => /\ There(b)' = There(b) /\ Wanted(b)' = Wanted(b)
                                      /\ \A i : EventAt(b, i)' = EventAt(b, i)
  <1>1. PICK n \in Nat : n = Len(processed[p])
    BY ForwardState
  <1>2. /\ DOMAIN processed[p] = 1 .. n
        /\ DOMAIN processed'[p] = 1 .. n + 1
        /\ \A i \in 1 .. n : processed'[p][i] = processed[p][i]
        /\ processed'[p][n + 1] = r
        /\ pending'[p] = (pending[p] \ {e}) \cup Local(p, r.sent)
        /\ \A b \in PEs : b # p => pending'[b] = pending[b] /\ processed'[b] = processed[b]
    BY <1>1, ForwardState
  <1>3. e \in pending[p] /\ Event(r) = e /\ due' = due
    BY DEF Forward
  <1>4. \A i \in 1 .. n : EventAt(p, i)' = EventAt(p, i)
    BY <1>2 DEF EventAt, Event, AsSent
  <1>5. EventAt(p, n + 1)' = e
    BY <1>2, <1>3 DEF EventAt, Event, AsSent
  <1>6. There(p)' = There(p) \cup Local(p, r.sent)
    <2> DEFINE old == {EventAt(p, i) : i \in 1 .. n}
               new == {EventAt(p, i)' : i \in 1 .. n + 1}
    <2>1. There(p) = pending[p] \cup old
      BY <1>2 DEF There
    <2>2. There(p)' = pending'[p] \cup new
      BY <1>2 DEF There
    <2>3. new = old \cup {e}
      BY <1>4, <1>5
    <2> HIDE DEF old, new
    <2> QED
      BY <1>2, <1>3, <2>1, <2>2, <2>3
  <1>7. Wanted(p)' = Wanted(p) \cup r.sent
    <2> DEFINE old == UNION {processed[p][i].sent : i \in 1 .. n}
               new == UNION {processed'[p][i].sent : i \in 1 .. n + 1}
    <2>1. Wanted(p) = due \cup old /\ Wanted(p)' = due \cup new
      BY <1>2, <1>3 DEF Wanted
    <2>2. new = old \cup r.sent
      BY <1>2
    <2> HIDE DEF old, new
    <2> QED
      BY <2>1, <2>2
  <1>8. \A b \in PEs : b # p => /\ There(b)' = There(b) /\ Wanted(b)' = Wanted(b)
                               /\ \A i : EventAt(b, i)' = EventAt(b, i)
    BY <1>2, <1>3 DEF There, Wanted, EventAt
  <1> QED
    BY <1>1, <1>4, <1>5, <1>6, <1>7, <1>8

LEMMA ForwardRecords ==
    ASSUME NEW S, NeuronModel(S), IInv(S), NEW p \in PEs, NEW e, NEW r,
           Forward(p, e, r), IsRecord(r, S)
    PROVE  LPInv(S)' /\ PendingInv' /\ RecordInv(S)'
  <1>1. PICK n \in Nat : n = Len(processed[p])
    BY ForwardState
  <1>2. /\ lps' = [m \in Neurons |-> lps'[m]]
        /\ \A m \in Neurons : m # e.dest => lps'[m] = lps[m]
        /\ lps'[e.dest] = Handle(r.before, e).lp
    BY ForwardState
  <1>3. e.dest \in Neurons /\ InRun(e) /\ PEOf[e.dest] = p /\ Event(r) = e
    BY ForwardState DEF Forward
  <1>4. LPInv(S)'
    <2>1. IsState(Handle(r.before, e).lp, S)
      BY <1>3, HandledState DEF IsRecord
    <2>2. \A m \in Neurons : IsState(lps[m], S)
      BY DEF IInv, LPInv
    <2>3. \A m \in Neurons : IsState(lps'[m], S)
      BY <1>2, <2>1, <2>2
    <2> QED
      BY <1>2, <2>3 DEF LPInv
  <1>5. PendingInv'
    <2>1. /\ pending' = [b \in PEs |-> pending'[b]]
          /\ pending'[p] = (pending[p] \ {e}) \cup Local(p, r.sent)
          /\ \A b \in PEs : b # p => pending'[b] = pending[b]
      BY ForwardState
    <2>2. \A x \in r.sent : InRun(x)
      BY ForwardState
    <2>3. \A b \in PEs : \A f \in pending[b] : InRun(f) /\ PEOf[f.dest] = b
      BY DEF IInv, PendingInv
    <2>4. \A b \in PEs : \A f \in pending'[b] : InRun(f) /\ PEOf[f.dest] = b
      BY <2>1, <2>2, <2>3 DEF Local
    <2> QED
      BY <2>1, <2>4 DEF PendingInv
  <1>6. RecordInv(S)'
    <2>1. /\ processed' = [b \in PEs |-> processed'[b]]
          /\ IsSeq(processed'[p])
          /\ DOMAIN processed[p] = 1 .. n
          /\ DOMAIN processed'[p] = 1 .. n + 1
          /\ \A i \in 1 .. n : processed'[p][i] = processed[p][i]
          /\ processed'[p][n + 1] = r
          /\ \A b \in PEs : b # p => processed'[b] = processed[b]
      BY <1>1, ForwardState
    <2>2. \A b \in PEs :
             /\ IsSeq(processed[b])
             /\ \A i \in DOMAIN processed[b] :
                   IsRecord(processed[b][i], S) /\ PEOf[Event(processed[b][i]).dest] = b
      BY DEF IInv, RecordInv, EventAt
    <2>3. ASSUME NEW b \in PEs
          PROVE  /\ IsSeq(processed'[b])
                 /\ \A i \in DOMAIN processed'[b] :
                       IsRecord(processed'[b][i], S) /\ PEOf[Event(processed'[b][i]).dest] = b
      <3>1. CASE b # p
        BY <2>1, <2>2, <3>1
      <3>2. CASE b = p
        <4>1. ASSUME NEW i \in 1 .. n + 1
              PROVE  IsRecord(processed'[p][i], S) /\ PEOf[Event(processed'[p][i]).dest] = p
          <5>1. CASE i = n + 1
            BY <1>3, <2>1, <5>1
          <5>2. CASE i \in 1 .. n
            BY <2>1, <2>2, <5>2
          <5> QED
            BY <5>1, <5>2
        <4> QED
          BY <2>1, <3>2, <4>1
      <3> QED
        BY <3>1, <3>2
    <2> QED
      BY <2>1, <2>3 DEF RecordInv, EventAt, Event, AsSent
  <1> QED
    BY <1>4, <1>5, <1>6

LEMMA ForwardOrder ==
    ASSUME NEW S, NeuronModel(S), IInv(S), NEW p \in PEs, NEW e, NEW r,
           Forward(p, e, r), IsRecord(r, S)
    PROVE  OrderInv'
  <1>1. PICK n \in Nat : n = Len(processed[p])
    BY ForwardState
  <1>2. /\ DOMAIN processed[p] = 1 .. n
        /\ DOMAIN processed'[p] = 1 .. n + 1
        /\ pending'[p] = (pending[p] \ {e}) \cup Local(p, r.sent)
        /\ \A b \in PEs : b # p => pending'[b] = pending[b] /\ processed'[b] = processed[b]
    BY <1>1, ForwardState
  <1>3. /\ \A i \in 1 .. n : EventAt(p, i)' = EventAt(p, i)
        /\ EventAt(p, n + 1)' = e
        /\ \A b \in PEs : b # p => \A i : EventAt(b, i)' = EventAt(b, i)
    BY <1>1, ForwardThere
  <1>4. /\ e \in pending[p] /\ e.time \in Nat
        /\ \A f \in pending[p] : ~ Before(f, e)
    BY ForwardState DEF Forward
  <1>5. \A x \in r.sent : x.time > e.time /\ x.time \in Nat
    BY ForwardState
  <1>6. \A b \in PEs : \A i \in DOMAIN processed[b] : EventAt(b, i).time \in Nat
    BY ThereInRun DEF There
  <1>7. \A b \in PEs : \A i \in DOMAIN processed[b] :
           /\ \A j \in DOMAIN processed[b] :
                 i < j => ~ Before(EventAt(b, j), EventAt(b, i)) /\ EventAt(b, j) # EventAt(b, i)
           /\ \A f \in pending[b] : ~ Before(f, EventAt(b, i)) /\ f # EventAt(b, i)
    BY DEF IInv, OrderInv
  <1>8. ASSUME NEW b \in PEs, NEW i \in DOMAIN processed'[b]
        PROVE  /\ \A j \in DOMAIN processed'[b] :
                     i < j => /\ ~ Before(EventAt(b, j)', EventAt(b, i)')
                              /\ EventAt(b, j)' # EventAt(b, i)'
               /\ \A f \in pending'[b] : ~ Before(f, EventAt(b, i)') /\ f # EventAt(b, i)'
    <2>1. CASE b # p
      BY <1>2, <1>3, <1>7, <2>1
    <2>2. CASE b = p /\ i = n + 1
      <3>1. \A f \in pending'[p] : ~ Before(f, e) /\ f # e
        BY <1>2, <1>4, <1>5 DEF Local, Before
      <3> QED
        BY <1>2, <1>3, <2>2, <3>1
    <2>3. CASE b = p /\ i \in 1 .. n
      <3>1. ~ Before(e, EventAt(p, i)) /\ e # EventAt(p, i) /\ EventAt(p, i).time \in Nat
        BY <1>2, <1>4, <1>6, <1>7, <2>3
      <3>2. \A x \in r.sent : ~ Before(x, EventAt(p, i)) /\ x # EventAt(p, i)
        BY <1>4, <1>5, <3>1 DEF Before
      <3>3. \A f \in pending'[p] : ~ Before(f, EventAt(p, i)) /\ f # EventAt(p, i)
        BY <1>2, <1>7, <2>3, <3>2 DEF Local
      <3>4. ASSUME NEW j \in 1 .. n + 1, i < j
            PROVE  ~ Before(EventAt(p, j)', EventAt(p, i)) /\ EventAt(p, j)' # EventAt(p, i)
        <4>1. CASE j \in 1 .. n
          BY <1>2, <1>3, <1>7, <2>3, <3>4, <4>1
        <4>2. CASE j = n + 1
          BY <1>3, <3>1, <4>2
        <4> QED
          BY <4>1, <4>2
      <3> QED
        BY <1>2, <1>3, <2>3, <3>3, <3>4
    <2> QED
      BY <1>2, <2>1, <2>2, <2>3
  <1> QED
    BY <1>8 DEF OrderInv

LEMMA ForwardChain ==
    ASSUME NEW S, NeuronModel(S), IInv(S), NEW p \in PEs, NEW e, NEW r,
           Forward(p, e, r), IsRecord(r, S)
    PROVE  ChainInv'
  <1> DEFINE Out(rec, ev) == Handle(rec.before, ev).lp
  <1>1. PICK n \in Nat : n = Len(processed[p])
    BY ForwardState
  <1>2. /\ DOMAIN processed[p] = 1 .. n
        /\ DOMAIN processed'[p] = 1 .. n + 1
        /\ \A i \in 1 .. n : processed'[p][i] = processed[p][i]
        /\ processed'[p][n + 1] = r
        /\ \A b \in PEs : b # p => processed'[b] = processed[b]
        /\ \A m \in Neurons : m # e.dest => lps'[m] = lps[m]
        /\ lps'[e.dest] = Handle(r.before, e).lp
        /\ e.dest \in Neurons
    BY <1>1, ForwardState
  <1>3. /\ \A i \in 1 .. n : EventAt(p, i)' = EventAt(p, i)
        /\ EventAt(p, n + 1)' = e
        /\ \A b \in PEs : b # p => \A i : EventAt(b, i)' = EventAt(b, i)
    BY <1>1, ForwardThere
  <1>4. r.before = lps[e.dest] /\ PEOf[e.dest] = p
    BY DEF Forward
  <1>5. \A b \in PEs : \A i \in DOMAIN processed[b] :
           EventAt(b, i).dest \in Neurons /\ PEOf[EventAt(b, i).dest] = b
    BY ThereInRun DEF There
  <1>6. \A b \in PEs : Len(processed[b]) \in Nat /\ DOMAIN processed[b] = 1 .. Len(processed[b])
    BY SeqShape DEF IInv, RecordInv
  <1>7. ASSUME NEW b \in PEs, NEW i \in DOMAIN processed[b]
        PROVE  /\ \A j \in DOMAIN processed[b] :
                     /\ i < j /\ EventAt(b, j).dest = EventAt(b, i).dest
                     /\ NoneOf(b, EventAt(b, i).dest, i + 1, j)
                     => processed[b][j].before = Out(processed[b][i], EventAt(b, i))
               /\ NoneOf(b, EventAt(b, i).dest, i + 1, Len(processed[b]) + 1)
                     => lps[EventAt(b, i).dest] = Out(processed[b][i], EventAt(b, i))
    BY DEF IInv, ChainInv
  <1> HIDE DEF Out
  <1>8. ASSUME NEW b \in PEs, NEW i \in DOMAIN processed'[b]
        PROVE  /\ \A j \in DOMAIN processed'[b] :
                     /\ i < j /\ EventAt(b, j)'.dest = EventAt(b, i)'.dest
                     /\ \A k \in DOMAIN processed'[b] :
                           i + 1 <= k /\ k < j => EventAt(b, k)'.dest # EventAt(b, i)'.dest
                     => processed'[b][j].before = Out(processed'[b][i], EventAt(b, i)')
               /\ (\A k \in DOMAIN processed'[b] :
                      i + 1 <= k /\ k < Len(processed'[b]) + 1
                          => EventAt(b, k)'.dest # EventAt(b, i)'.dest)
                     => lps'[EventAt(b, i)'.dest] = Out(processed'[b][i], EventAt(b, i)')
    <2>1. CASE b # p
      BY <1>2, <1>3, <1>4, <1>5, <1>7, <2>1 DEF NoneOf
    <2>2. CASE b = p /\ i = n + 1
      BY <1>2, <1>3, <2>2 DEF Out
    <2>3. CASE b = p /\ i \in 1 .. n
      <3> DEFINE m == EventAt(p, i).dest
      <3>1. m \in Neurons
        BY <1>2, <1>5, <2>3
      <3>2. NoneOf(p, m, i + 1, n + 1) => lps[m] = Out(processed[p][i], EventAt(p, i))
        BY <1>1, <1>2, <1>7, <2>3
      <3>3. Len(processed'[p]) = n + 1
        BY <1>1, ForwardState
      <3>4. ASSUME \A k \in 1 .. n + 1 : i + 1 <= k /\ k < n + 2 => EventAt(p, k)'.dest # m
            PROVE  lps'[m] = Out(processed[p][i], EventAt(p, i))
        <4>1. NoneOf(p, m, i + 1, n + 1)
          BY <1>2, <1>3, <3>4 DEF NoneOf
        <4>2. e.dest # m
          <5>1. i + 1 <= n + 1 /\ n + 1 < n + 2 /\ n + 1 \in 1 .. n + 1
            BY <2>3
          <5> QED
            BY <1>3, <3>4, <5>1
        <4> QED
          BY <1>2, <3>1, <3>2, <4>1, <4>2
      <3>5. ASSUME NEW j \in 1 .. n + 1, i < j, EventAt(p, j)'.dest = m,
                   \A k \in 1 .. n + 1 : i + 1 <= k /\ k < j => EventAt(p, k)'.dest # m
            PROVE  processed'[p][j].before = Out(processed[p][i], EventAt(p, i))
        <4>1. NoneOf(p, m, i + 1, j)
          BY <1>2, <1>3, <3>5 DEF NoneOf
        <4>2. CASE j \in 1 .. n
          <5>1. EventAt(p, j).dest = m /\ processed'[p][j] = processed[p][j]
            BY <1>2, <1>3, <3>5, <4>2
          <5>2. j \in DOMAIN processed[p] /\ i \in DOMAIN processed[p]
            BY <1>2, <2>3, <4>2
          <5>3. processed[p][j].before = Out(processed[p][i], EventAt(p, i))
            BY <1>7, <3>5, <4>1, <5>1, <5>2
          <5> QED
            BY <5>1, <5>3
        <4>3. CASE j = n + 1
          BY <1>2, <1>3, <1>4, <3>2, <3>5, <4>1, <4>3
        <4> QED
          BY <4>2, <4>3
      <3>6. EventAt(p, i)' = EventAt(p, i) /\ processed'[p][i] = processed[p][i]
        BY <1>2, <1>3, <2>3
      <3>7. n + 1 + 1 = n + 2
        OBVIOUS
      <3>8. EventAt(b, i)'.dest = m /\ DOMAIN processed'[b] = 1 .. n + 1
            /\ Out(processed'[b][i], EventAt(b, i)') = Out(processed[p][i], EventAt(p, i))
            /\ Len(processed'[b]) + 1 = n + 2
        BY <1>2, <2>3, <3>3, <3>6, <3>7
      <3> HIDE DEF m
      <3>9. (\A k \in DOMAIN processed'[b] :
                i + 1 <= k /\ k < Len(processed'[b]) + 1 => EventAt(b, k)'.dest # m)
             => lps'[m] = Out(processed[p][i], EventAt(p, i))
        BY <2>3, <3>4, <3>8
      <3>10. \A j \in DOMAIN processed'[b] :
                /\ i < j /\ EventAt(b, j)'.dest = m
                /\ \A k \in DOMAIN processed'[b] :
                      i + 1 <= k /\ k < j => EventAt(b, k)'.dest # m
                => processed'[b][j].before = Out(processed[p][i], EventAt(p, i))
        BY <2>3, <3>5, <3>8
      <3> QED
        BY <3>8, <3>9, <3>10
    <2> QED
      BY <1>2, <2>1, <2>2, <2>3
  <1> QED
    BY <1>8 DEF ChainInv, NoneOf, Out

LEMMA ForwardChannel ==
    ASSUME NEW S, NeuronModel(S), IInv(S), NEW p \in PEs, NEW e, NEW r,
           Forward(p, e, r), IsRecord(r, S)
    PROVE  ChannelInv'
  <1>1. Sends(channel, channel', p, r.sent, "sent")
    BY DEF Forward
  <1>2. \A x \in r.sent : InRun(x) /\ Sender(x) = p
    BY ForwardState
  <1>3. channel' = [pair \in PEs \X PEs |-> channel'[pair]]
    BY <1>1 DEF Sends
  <1>4. \A a \in PEs : channel'[<<a, a>>] = <<>>
    <2>1. \A a \in PEs : channel'[<<a, a>>] = channel[<<a, a>>]
      BY <1>1 DEF Sends
    <2> QED
      BY <2>1 DEF IInv, ChannelInv
  <1>5. ASSUME NEW a \in PEs, NEW b \in PEs
        PROVE  /\ IsSeq(channel'[<<a, b>>])
               /\ \A k \in DOMAIN channel'[<<a, b>>] :
                     IsMessage(channel'[<<a, b>>][k], a, b)
    <2>1. /\ IsSeq(channel[<<a, b>>])
          /\ \A k \in DOMAIN channel[<<a, b>>] :
                IsMessage(channel[<<a, b>>][k], a, b)
      BY DEF IInv, ChannelInv
    <2>2. IsSeq(channel'[<<a, b>>])
      BY <1>1, <2>1, SendsSeq
    <2>3. ASSUME NEW k \in DOMAIN channel'[<<a, b>>]
          PROVE  IsMessage(channel'[<<a, b>>][k], a, b)
      <3> DEFINE m == channel'[<<a, b>>][k]
      <3>1. \/ k \in DOMAIN channel[<<a, b>>] /\ m = channel[<<a, b>>][k]
            \/ /\ a = p /\ m.event \in Local(b, r.sent)
               /\ m = Message(m.event, m.anti) /\ m.anti \in BOOLEAN
        BY <1>1, <2>1, SentOn
      <3> HIDE DEF m
      <3>2. CASE k \in DOMAIN channel[<<a, b>>] /\ m = channel[<<a, b>>][k]
        BY <2>1, <3>2 DEF m
      <3>3. CASE /\ a = p /\ m.event \in Local(b, r.sent)
                 /\ m = Message(m.event, m.anti) /\ m.anti \in BOOLEAN
        BY <1>2, <3>3 DEF Local, IsMessage, m
      <3> QED
        BY <3>1, <3>2, <3>3
    <2> QED
      BY <2>2, <2>3
  <1> QED
    BY <1>3, <1>4, <1>5 DEF ChannelInv

LEMMA ForwardDelivery ==
    ASSUME NEW S, NeuronModel(S), IInv(S), NEW p \in PEs, NEW e, NEW r,
           Forward(p, e, r), IsRecord(r, S)
    PROVE  DeliveryInv'
  <1> SUFFICES ASSUME NEW x, InRun(x)
               PROVE  Delivers(channel'[<<Sender(x), PEOf[x.dest]>>], x,
                               There(PEOf[x.dest])', Wanted(Sender(x))')
    BY DEF DeliveryInv, Agreed
  <1>1. PICK a \in PEs : a = Sender(x)
    BY RouteOf
  <1>2. PICK b \in PEs : b = PEOf[x.dest]
    BY RouteOf
  <1>3. Delivers(channel[<<a, b>>], x, There(b), Wanted(a))
    BY <1>1, <1>2 DEF IInv, DeliveryInv, Agreed
  <1>4. /\ There(p)' = There(p) \cup Local(p, r.sent)
        /\ Wanted(p)' = Wanted(p) \cup r.sent
        /\ \A c \in PEs : c # p => There(c)' = There(c) /\ Wanted(c)' = Wanted(c)
    BY ForwardThere
  <1>5. \A s \in r.sent : Sender(s) = p /\ s \notin Wanted(p)
    BY ForwardState
  <1>6. Sends(channel, channel', p, r.sent, "sent")
    BY DEF Forward
  <1>7. CASE a # p
    <2>1. channel'[<<a, b>>] = channel[<<a, b>>]
      BY <1>6, <1>7 DEF Sends
    <2>2. x \in There(b)' <=> x \in There(b)
      BY <1>1, <1>4, <1>5, <1>7 DEF Local
    <2>3. Wanted(a)' = Wanted(a)
      BY <1>4, <1>7
    <2> QED
      BY <1>1, <1>2, <1>3, <2>1, <2>2, <2>3, DeliversSame
  <1>8. CASE a = p /\ b = p
    <2>1. x \in There(p) <=> x \in Wanted(p)
      BY <1>1, <1>2, <1>8, Own
    <2>2. x \in There(p)' <=> x \in Wanted(p)'
      BY <1>2, <1>4, <1>8, <2>1 DEF Local
    <2>3. channel'[<<p, p>>] = <<>>
      <3>1. channel'[<<p, p>>] = channel[<<p, p>>]
        BY <1>6 DEF Sends
      <3> QED
        BY <3>1 DEF IInv, ChannelInv
    <2>4. IsSeq(<<>>) /\ Len(<<>>) = 0
      BY <<>> \in Seq({}) DEF IsSeq
    <2> QED
      BY <1>1, <1>2, <1>8, <2>2, <2>3, <2>4, DeliversNothing
  <1>9. CASE a = p /\ b # p
    <2>1. IsSeq(channel[<<p, b>>])
      BY DEF IInv, ChannelInv
    <2>2. x \in r.sent => (IsCancelling("sent") <=> x \in Wanted(p))
      BY <1>5 DEF IsCancelling
    <2>3. x \in Wanted(p)' <=> IF x \in r.sent THEN x \notin Wanted(p) ELSE x \in Wanted(p)
      BY <1>4, <1>5
    <2>4. There(b)' = There(b)
      BY <1>4, <1>9
    <2>5. Delivers(channel[<<p, b>>], x, There(b), Wanted(p))
      BY <1>3, <1>9
    <2>6. Delivers(channel'[<<p, b>>], x, There(b), Wanted(p)')
      BY <1>2, <1>6, <1>9, <2>1, <2>2, <2>3, <2>5, SendsDelivers
    <2> QED
      BY <1>1, <1>2, <1>9, <2>4, <2>6
  <1> QED
    BY <1>7, <1>8, <1>9

LEMMA ForwardOnce ==
    ASSUME NEW S, NeuronModel(S), IInv(S), NEW p \in PEs, NEW e, NEW r,
           Forward(p, e, r), IsRecord(r, S)
    PROVE  OnceInv'
  <1>1. PICK n \in Nat : n = Len(processed[p])
    BY ForwardState
  <1>2. /\ DOMAIN processed[p] = 1 .. n
        /\ DOMAIN processed'[p] = 1 .. n + 1
        /\ \A i \in 1 .. n : processed'[p][i] = processed[p][i]
        /\ processed'[p][n + 1] = r
        /\ \A b \in PEs : b # p => processed'[b] = processed[b]
    BY <1>1, ForwardState
  <1>3. due' = due
    BY DEF Forward
  <1>4. r.sent \cap due = {} /\ \A i \in 1 .. n : r.sent \cap processed[p][i].sent = {}
    <2>1. \A x \in r.sent : x \notin Wanted(p)
      BY ForwardState
    <2> QED
      BY <1>2, <2>1 DEF Wanted
  <1>5. \A b \in PEs : \A i \in DOMAIN processed[b] :
           /\ processed[b][i].sent \cap due = {}
           /\ \A j \in DOMAIN processed[b] :
                 i # j => processed[b][i].sent \cap processed[b][j].sent = {}
    BY DEF IInv, OnceInv
  <1>6. ASSUME NEW b \in PEs, NEW i \in DOMAIN processed'[b]
        PROVE  /\ processed'[b][i].sent \cap due = {}
               /\ \A j \in DOMAIN processed'[b] :
                     i # j => processed'[b][i].sent \cap processed'[b][j].sent = {}
    <2>1. CASE b # p
      BY <1>2, <1>5, <2>1
    <2>2. CASE b = p
      <3>1. \A j \in 1 .. n + 1 : j \in 1 .. n \/ j = n + 1
        OBVIOUS
      <3> QED
        BY <1>2, <1>4, <1>5, <2>2, <3>1
    <2> QED
      BY <2>1, <2>2
  <1> QED
    BY <1>3, <1>6 DEF OnceInv

LEMMA ForwardHeartbeat ==
    ASSUME NEW S, NeuronModel(S), IInv(S), NEW p \in PEs, NEW e, NEW r,
           Forward(p, e, r), IsRecord(r, S)
    PROVE  HeartbeatInv'
  <1>1. /\ There(p)' = There(p) \cup Local(p, r.sent)
        /\ \A b \in PEs : b # p => There(b)' = There(b)
        /\ due' = due /\ trace' = trace
    <2>1. due' = due /\ trace' = trace
      BY DEF Forward
    <2> QED
      BY <2>1, ForwardThere
  <1>2. r.sent = Sent(Handle(lps[e.dest], e).sent)
    BY DEF Forward, IsRecord
  <1>3. /\ e \in pending[p] /\ InRun(e) /\ e \in There(p) /\ e.time \in Nat
        /\ horizon <= e.time /\ horizon \in Nat /\ IsEvent(e)
    BY ForwardState DEF Forward, IInv, InRun
  <1>4. \A b \in PEs : \A x \in There(b) :
           x.type = "heartbeat" =>
               /\ \A y \in There(b) :
                     y.type = "heartbeat" /\ y.dest = x.dest /\ y.time = x.time => y = x
               /\ \A t \in trace : t.neuron = x.dest => t.time < x.time
               /\ ~ SpikeDriven =>
                     \A y \in due : y.type = "heartbeat" /\ y.dest = x.dest => y.time <= x.time
    BY DEF IInv, HeartbeatInv
  <1>5. ASSUME NEW x \in r.sent, x.type = "heartbeat"
        PROVE  /\ x.dest = e.dest /\ x.time > e.time /\ x.time \in Nat
               /\ ~ SpikeDriven => e.type = "heartbeat"
               /\ \A y \in r.sent : y.type = "heartbeat" => y = x
               /\ \A y \in There(p) : y.type = "heartbeat" /\ y.dest = x.dest => y.time # x.time
    <2>1. /\ x.dest = e.dest
          /\ IF SpikeDriven THEN e.type = "spike" /\ ~ lps[e.dest].next_heartbeat_sent
                            ELSE e.type = "heartbeat"
      BY <1>2, <1>3, <1>5, HandledEvents
    <2>2. x.time > e.time /\ x.time \in Nat
      BY ForwardState
    <2>3. \A y \in r.sent : y.type = "heartbeat" => y = x
      <3>1. PICK h \in Handle(lps[e.dest], e).sent :
               \A g \in Handle(lps[e.dest], e).sent : g.type = "heartbeat" => g = h
        BY <1>3, <2>1, HandledHeartbeat DEF InRun
      <3> QED
        BY <1>2, <1>5, <3>1 DEF Sent
    <2>4. \A y \in There(p) : y.type = "heartbeat" /\ y.dest = x.dest => y.time # x.time
      BY <1>2, <1>3, <1>5, NewHeartbeatTime
    <2> QED
      BY <2>1, <2>2, <2>3, <2>4
  <1>6. ASSUME NEW b \in PEs, NEW x \in There(b)', x.type = "heartbeat"
        PROVE  /\ \A y \in There(b)' :
                     y.type = "heartbeat" /\ y.dest = x.dest /\ y.time = x.time => y = x
               /\ \A t \in trace : t.neuron = x.dest => t.time < x.time
               /\ ~ SpikeDriven =>
                     \A y \in due : y.type = "heartbeat" /\ y.dest = x.dest => y.time <= x.time
    <2>1. CASE b # p
      BY <1>1, <1>4, <1>6, <2>1
    <2>2. CASE b = p /\ x \in There(p)
      <3>1. ASSUME NEW y \in There(p)', y.type = "heartbeat", y.dest = x.dest, y.time = x.time
            PROVE  y = x
        <4>1. CASE y \in There(p)
          BY <1>4, <1>6, <2>2, <3>1, <4>1
        <4>2. CASE y \in r.sent
          BY <1>5, <1>6, <2>2, <3>1, <4>2
        <4> QED
          BY <1>1, <3>1, <4>1, <4>2 DEF Local
      <3> QED
        BY <1>4, <1>6, <2>2, <3>1
    <2>3. CASE b = p /\ x \in r.sent
      <3>1. ASSUME NEW y \in There(p)', y.type = "heartbeat", y.dest = x.dest, y.time = x.time
            PROVE  y = x
        BY <1>1, <1>5, <1>6, <2>3, <3>1 DEF Local
      <3>2. \A t \in trace : t.time < x.time
        <4>1. \A t \in trace : t.time \in Nat /\ t.time <= horizon
          BY DEF IInv
        <4> QED
          BY <1>3, <1>5, <1>6, <2>3, <4>1
      <3>3. ASSUME ~ SpikeDriven, NEW y \in due, y.type = "heartbeat", y.dest = x.dest
            PROVE  y.time <= x.time
        <4>1. e.type = "heartbeat" /\ x.dest = e.dest /\ x.time > e.time /\ x.time \in Nat
          BY <1>5, <1>6, <2>3, <3>3
        <4>2. y.time <= e.time
          BY <1>3, <1>4, <3>3, <4>1
        <4>3. y.time \in Nat
          BY DEF IInv, DueInv, InRun, IsEvent
        <4> QED
          BY <1>3, <4>1, <4>2, <4>3
      <3> QED
        BY <2>3, <3>1, <3>2, <3>3
    <2> QED
      BY <1>1, <1>6, <2>1, <2>2, <2>3 DEF Local
  <1> QED
    BY <1>1, <1>6 DEF HeartbeatInv

\* Two heartbeats of a neuron do not wait at once: each would have been sent while the other
\* was on its way.
LEMMA OneWaiting ==
    ASSUME NEW S, IInv(S), SpikeDriven, NEW p \in PEs, NEW x \in pending[p], NEW y \in pending[p],
           x.type = "heartbeat", y.type = "heartbeat", y.dest = x.dest
    PROVE  y = x
  <1> DEFINE D == DOMAIN processed[p]
             SentBy(z, k) == z \in processed[p][k].sent
  <1>1. SUFFICES ASSUME y # x PROVE FALSE
    OBVIOUS
  <1>2. \A z \in {x, y} : /\ InRun(z) /\ z \in There(p) /\ z.type = "heartbeat" /\ z.dest = x.dest
                          /\ Sender(z) = p /\ PEOf[z.dest] = p
    BY ThereInRun DEF There, Sender
  <1>3. \A z \in {x, y} : z \in due \/ \E k \in D : SentBy(z, k)
    BY <1>2, Own DEF Wanted
  <1>4. ASSUME NEW z \in {x, y}, NEW w \in {x, y}, NEW k \in D, SentBy(z, k)
        PROVE  \E m \in D : k <= m /\ SentBy(w, m)
    <2>1. EventAt(p, k).dest = x.dest /\ ~ processed[p][k].before.next_heartbeat_sent
      BY <1>2, <1>4, RecordEvents
    <2>2. \A m \in D : EventAt(p, m) # w
      BY DEF IInv, OrderInv
    <2>3. w \in There(p) /\ w.type = "heartbeat" /\ w.dest = EventAt(p, k).dest
      BY <1>2, <2>1
    <2>4. ~ \A m \in D : IF m < k THEN EventAt(p, m) # w ELSE ~ SentBy(w, m)
      BY <2>1, <2>3 DEF IInv, FlagInv
    <2>5. IsSeq(processed[p])
      BY DEF IInv, RecordInv
    <2>6. D \subseteq Nat
      BY <2>5, SeqShape
    <2> HIDE DEF SentBy, D
    <2> QED
      BY <2>2, <2>4, <2>6
  <1>5. \A z : \A k, m \in D : SentBy(z, k) /\ SentBy(z, m) => k = m
    BY DEF IInv, OnceInv
  <1>6. \A z : \A k \in D : SentBy(z, k) => z \notin due
    BY DEF IInv, OnceInv
  <1>7. ~ (x \in due /\ y \in due)
    BY <1>1 DEF IInv, DueInv
  <1>8. PICK k \in D : SentBy(x, k)
    <2> HIDE DEF SentBy, D
    <2> QED
      BY <1>3, <1>4, <1>7
  <1>9. PICK m \in D : SentBy(y, m) /\ k <= m
    <2> HIDE DEF SentBy, D
    <2> QED
      BY <1>4, <1>8
  <1>10. m <= k
    <2> HIDE DEF SentBy, D
    <2> QED
      BY <1>4, <1>5, <1>8, <1>9
  <1>11. k = m
    <2>1. IsSeq(processed[p])
      BY DEF IInv, RecordInv
    <2>2. k \in Nat /\ m \in Nat
      BY <2>1, SeqShape
    <2> QED
      BY <1>9, <1>10, <2>2
  <1>12. x.time = y.time
    BY <1>2, <1>8, <1>9, <1>11, RecordEvents
  <1> QED
    BY <1>1, <1>2, <1>12 DEF IInv, HeartbeatInv

LEMMA ForwardFlag ==
    ASSUME NEW S, NeuronModel(S), IInv(S), NEW p \in PEs, NEW e, NEW r,
           Forward(p, e, r), IsRecord(r, S)
    PROVE  FlagInv'
  <1> SUFFICES ASSUME SpikeDriven, NEW b \in PEs, NEW y \in There(b)', y.type = "heartbeat"
               PROVE  /\ y \in pending'[b] => lps'[y.dest].next_heartbeat_sent
                      /\ \A j \in DOMAIN processed'[b] :
                            /\ EventAt(b, j)'.dest = y.dest
                            /\ \A k \in DOMAIN processed'[b] :
                                  IF k < j THEN EventAt(b, k)' # y ELSE y \notin processed'[b][k].sent
                            => processed'[b][j].before.next_heartbeat_sent
    BY DEF FlagInv
  <1>1. PICK n \in Nat : n = Len(processed[p])
    BY ForwardState
  <1>2. /\ DOMAIN processed[p] = 1 .. n
        /\ DOMAIN processed'[p] = 1 .. n + 1
        /\ \A i \in 1 .. n : processed'[p][i] = processed[p][i]
        /\ processed'[p][n + 1] = r
        /\ pending'[p] = (pending[p] \ {e}) \cup Local(p, r.sent)
        /\ \A c \in PEs : c # p => processed'[c] = processed[c] /\ pending'[c] = pending[c]
        /\ \A m \in Neurons : m # e.dest => lps'[m] = lps[m]
        /\ lps'[e.dest] = Handle(r.before, e).lp
        /\ e.dest \in Neurons
    BY <1>1, ForwardState
  <1>3. /\ \A i \in 1 .. n : EventAt(p, i)' = EventAt(p, i)
        /\ EventAt(p, n + 1)' = e
        /\ There(p)' = There(p) \cup Local(p, r.sent)
        /\ \A c \in PEs : c # p => There(c)' = There(c) /\ \A i : EventAt(c, i)' = EventAt(c, i)
    BY <1>1, ForwardThere
  <1>4. e \in pending[p] /\ r.before = lps[e.dest] /\ PEOf[e.dest] = p /\ InRun(e)
    BY DEF Forward
  <1>5. \A c \in PEs : \A z \in There(c) :
           z.type = "heartbeat" =>
               /\ z \in pending[c] => lps[z.dest].next_heartbeat_sent
               /\ \A j \in DOMAIN processed[c] :
                     /\ EventAt(c, j).dest = z.dest
                     /\ \A k \in DOMAIN processed[c] :
                           IF k < j THEN EventAt(c, k) # z ELSE z \notin processed[c][k].sent
                     => processed[c][j].before.next_heartbeat_sent
    BY DEF IInv, FlagInv
  <1>6. CASE b # p
    <2>1. y \in There(b) /\ PEOf[y.dest] = b /\ y.dest \in Neurons
      BY <1>3, <1>6, ThereInRun
    <2>2. lps'[y.dest] = lps[y.dest]
      BY <1>2, <1>4, <1>6, <2>1
    <2> QED
      BY <1>2, <1>3, <1>5, <1>6, <2>1, <2>2
  <1>7. CASE b = p
    <2>1. e.type = "spike" => lps'[e.dest].next_heartbeat_sent
      <3>1. IsLP(r.before)
        BY DEF IsRecord, IsState
      <3> QED
        BY <1>2, <3>1, HandledLP
    <2>2. y \in r.sent => y.dest = e.dest /\ e.type = "spike"
      <3>1. r.sent = Sent(Handle(lps[e.dest], e).sent)
        BY DEF Forward, IsRecord
      <3> QED
        BY <1>4, <3>1, HandledEvents
    <2>3. \A z \in There(p) : z.dest \in Neurons
      BY ThereInRun
    <2>4. ASSUME y \in pending'[p]
          PROVE  lps'[y.dest].next_heartbeat_sent
      <3>1. CASE y \in r.sent
        BY <2>1, <2>2, <3>1
      <3>2. CASE y \in pending[p] /\ y # e
        <4>1. y \in There(p)
          BY <3>2 DEF There
        <4>2. lps[y.dest].next_heartbeat_sent
          BY <1>5, <3>2, <4>1
        <4>3. CASE y.dest # e.dest
          BY <1>2, <2>3, <4>1, <4>2, <4>3
        <4>4. CASE y.dest = e.dest
          <5>1. e.type # "heartbeat"
            BY <1>4, <3>2, <4>4, OneWaiting
          <5> QED
            BY <1>4, <2>1, <4>4, <5>1 DEF InRun, IsEvent
        <4> QED
          BY <4>3, <4>4
      <3> QED
        BY <1>2, <2>4, <3>1, <3>2 DEF Local
    <2>5. ASSUME NEW j \in 1 .. n + 1, EventAt(p, j)'.dest = y.dest,
                 \A k \in 1 .. n + 1 :
                    IF k < j THEN EventAt(p, k)' # y ELSE y \notin processed'[p][k].sent
          PROVE  processed'[p][j].before.next_heartbeat_sent
      <3>1. y \notin r.sent
        <4>1. n + 1 \in 1 .. n + 1 /\ ~ (n + 1 < j)
          OBVIOUS
        <4> QED
          BY <1>2, <2>5, <4>1
      <3>2. y \in There(p)
        BY <1>3, <1>7, <3>1 DEF Local
      <3>3. CASE j \in 1 .. n
        <4>1. EventAt(p, j).dest = y.dest /\ processed'[p][j] = processed[p][j]
          BY <1>2, <1>3, <2>5, <3>3
        <4>2. \A k \in 1 .. n : IF k < j THEN EventAt(p, k) # y ELSE y \notin processed[p][k].sent
          BY <1>2, <1>3, <2>5
        <4> QED
          BY <1>2, <1>5, <3>2, <3>3, <4>1, <4>2
      <3>4. CASE j = n + 1
        <4>1. \A k \in 1 .. n : EventAt(p, k) # y
          <5>1. \A k \in 1 .. n : k \in 1 .. n + 1 /\ k < j
            BY <3>4
          <5> QED
            BY <1>3, <2>5, <5>1
        <4>2. y \in pending[p]
          BY <1>2, <3>2, <4>1 DEF There
        <4> QED
          BY <1>2, <1>3, <1>4, <1>5, <2>5, <3>2, <3>4, <4>2
      <3> QED
        BY <3>3, <3>4
    <2> QED
      BY <1>2, <1>7, <2>4, <2>5
  <1> QED
    BY <1>6, <1>7

LEMMA ForwardRest ==
    ASSUME NEW S, NeuronModel(S), IInv(S), NEW p \in PEs, NEW e, NEW r,
           Forward(p, e, r), IsRecord(r, S)
    PROVE  DueInv' /\ HorizonInv'
  <1>1. horizon' = horizon /\ due' = due /\ trace' = trace /\ Sends(channel, channel', p, r.sent, "sent")
    BY DEF Forward
  <1>2. DueInv'
    BY <1>1 DEF IInv, DueInv
  <1>3. horizon \in Nat /\ e.time \in Nat /\ horizon <= e.time
        /\ \A x \in r.sent : x.time > e.time /\ x.time \in Nat
    BY ForwardState DEF IInv
  <1>4. \A b \in PEs : \A f \in There(b)' : horizon <= f.time
    <2>1. /\ There(p)' = There(p) \cup Local(p, r.sent)
          /\ \A b \in PEs : b # p => There(b)' = There(b)
      BY ForwardThere
    <2>2. \A b \in PEs : \A f \in There(b) : horizon <= f.time
      BY DEF IInv, HorizonInv
    <2>3. \A x \in r.sent : horizon <= x.time
      BY <1>3
    <2> QED
      BY <2>1, <2>2, <2>3 DEF Local
  <1>5. ASSUME NEW a \in PEs, NEW b \in PEs, NEW k \in DOMAIN channel'[<<a, b>>]
        PROVE  horizon <= channel'[<<a, b>>][k].event.time
    <2> DEFINE m == channel'[<<a, b>>][k]
    <2>1. IsSeq(channel[<<a, b>>])
      BY DEF IInv, ChannelInv
    <2>2. \/ k \in DOMAIN channel[<<a, b>>] /\ m = channel[<<a, b>>][k]
          \/ m.event \in Local(b, r.sent)
      BY <1>1, <2>1, SentOn
    <2>3. \A i \in DOMAIN channel[<<a, b>>] : horizon <= channel[<<a, b>>][i].event.time
      BY DEF IInv, HorizonInv
    <2> HIDE DEF m
    <2>4. horizon <= m.event.time
      BY <1>3, <2>2, <2>3 DEF Local
    <2> QED
      BY <2>4 DEF m
  <1>6. \A x \in due : horizon <= x.time
    BY DEF IInv, HorizonInv
  <1>7. HorizonInv'
    BY <1>1, <1>4, <1>5, <1>6 DEF HorizonInv
  <1> QED
    BY <1>2, <1>7

LEMMA ProcessInv ==
    ASSUME NEW S, NeuronModel(S), IInv(S), NEW p \in PEs, Process(p)
    PROVE  IInv(S)'
  <1>1. PICK e, r : Forward(p, e, r) /\ IsRecord(r, S)
    BY ProcessForward
  <1>2. horizon' \in Nat /\ horizon' < End /\ \A t \in trace' : t.time \in Nat /\ t.time <= horizon'
    BY <1>1 DEF Forward, IInv
  <1>3. LPInv(S)' /\ PendingInv' /\ RecordInv(S)'
    BY <1>1, ForwardRecords
  <1>4. OrderInv' /\ ChainInv' /\ ChannelInv'
    BY <1>1, ForwardOrder, ForwardChain, ForwardChannel
  <1>5. DeliveryInv' /\ OnceInv' /\ HeartbeatInv' /\ FlagInv'
    BY <1>1, ForwardDelivery, ForwardOnce, ForwardHeartbeat, ForwardFlag
  <1>6. DueInv' /\ HorizonInv'
    BY <1>1, ForwardRest
  <1> QED
    BY <1>2, <1>3, <1>4, <1>5, <1>6 DEF IInv

-----------------------------------------------------------------------------
(* What a rollback leaves.                                                  *)

Cancelled(p, i) == UNION {processed[p][k].sent : k \in i .. Len(processed[p])}
Redone(p, i) == {EventAt(p, k) : k \in i .. Len(processed[p])}

\* st is what is left of p with Q in its queue once the records from the i-th on are undone:
\* each LP is as the first of its records among them found it.
IsBack(st, p, i, Q) ==
    /\ st = [lps |-> st.lps, queue |-> st.queue, cancel |-> st.cancel]
    /\ st.lps = [n \in Neurons |-> st.lps[n]]
    /\ \A n \in Neurons : NoneOf(p, n, i, Len(processed[p]) + 1) => st.lps[n] = lps[n]
    /\ \A j \in DOMAIN processed[p] :
          i <= j /\ NoneOf(p, EventAt(p, j).dest, i, j)
              => st.lps[EventAt(p, j).dest] = processed[p][j].before
    /\ st.queue = {f \in Q \cup Redone(p, i) : f \notin Cancelled(p, i)}
    /\ st.cancel = Cancelled(p, i)

\* A neuron has no record in an interval or there is a first one.
LEMMA FirstRecord ==
    ASSUME NEW S, IInv(S), NEW p \in PEs, NEW n, NEW i \in Nat
    PROVE  \/ NoneOf(p, n, i, Len(processed[p]) + 1)
           \/ \E j \in DOMAIN processed[p] :
                 i <= j /\ EventAt(p, j).dest = n /\ NoneOf(p, n, i, j)
  <1> DEFINE T == {j \in DOMAIN processed[p] : i <= j /\ EventAt(p, j).dest = n}
  <1>1. IsSeq(processed[p])
    BY DEF IInv, RecordInv
  <1>2. Len(processed[p]) \in Nat /\ DOMAIN processed[p] = 1 .. Len(processed[p])
    BY <1>1, SeqShape
  <1>3. CASE T = {}
    BY <1>3 DEF NoneOf
  <1>4. CASE T # {}
    <2>1. T \subseteq Nat
      BY <1>2
    <2>2. PICK m \in T : \A j \in T : m <= j
      <3> HIDE DEF T
      <3> QED
        BY <1>4, <2>1, Least
    <2>3. NoneOf(p, n, i, m)
      BY <1>2, <2>2 DEF NoneOf
    <2> QED
      BY <2>2, <2>3
  <1> QED
    BY <1>3, <1>4

LEMMA UndoBack ==
    ASSUME NEW S, NeuronModel(S), IInv(S), NEW p \in PEs, NEW m \in DOMAIN processed[p],
           NEW Q, \A f \in Q : InRun(f), NEW st, IsBack(st, p, m + 1, Q)
    PROVE  IsBack(Undo(processed[p][m], st), p, m, Q)
  <1> DEFINE L == Len(processed[p])
             r == processed[p][m]
             e == EventAt(p, m)
             new == Undo(r, st)
  <1>1. IsSeq(processed[p])
    BY DEF IInv, RecordInv
  <1>2. L \in Nat /\ DOMAIN processed[p] = 1 .. L /\ m \in 1 .. L
    BY <1>1, SeqShape
  <1>3. IsRecord(r, S) /\ Event(r) = e
    BY DEF IInv, RecordInv, EventAt
  <1>4. /\ Unhandle(Handle(r.before, e).lp, r.saved) = r.before
        /\ Unhandled(r.event) = e
        /\ r.event.dest = e.dest
    BY <1>3, RecordUndone
  <1>5. /\ new.lps = [st.lps EXCEPT ![e.dest] = Unhandle(st.lps[e.dest], r.saved)]
        /\ new.queue = {f \in st.queue : AsSent(f) \notin r.sent} \cup {e}
        /\ new.cancel = st.cancel \cup r.sent
        /\ new = [lps |-> new.lps, queue |-> new.queue, cancel |-> new.cancel]
    BY <1>4 DEF Undo
  <1>6. /\ e.dest \in Neurons
        /\ \A k \in 1 .. L : InRun(EventAt(p, k)) /\ EventAt(p, k).time \in Nat
    BY <1>2, ThereInRun DEF There
  <1>7. /\ st.lps = [n \in Neurons |-> st.lps[n]]
        /\ \A n \in Neurons : NoneOf(p, n, m + 1, L + 1) => st.lps[n] = lps[n]
        /\ \A j \in DOMAIN processed[p] :
              m + 1 <= j /\ NoneOf(p, EventAt(p, j).dest, m + 1, j)
                  => st.lps[EventAt(p, j).dest] = processed[p][j].before
        /\ st.queue = {f \in Q \cup Redone(p, m + 1) : f \notin Cancelled(p, m + 1)}
        /\ st.cancel = Cancelled(p, m + 1)
    BY DEF IsBack
  <1>8. st.lps[e.dest] = Handle(r.before, e).lp
    <2>1. CASE NoneOf(p, e.dest, m + 1, L + 1)
      BY <1>2, <1>6, <1>7, <2>1 DEF IInv, ChainInv
    <2>2. CASE \E j \in DOMAIN processed[p] :
                  m + 1 <= j /\ EventAt(p, j).dest = e.dest /\ NoneOf(p, e.dest, m + 1, j)
      <3>1. PICK j \in DOMAIN processed[p] :
                  m + 1 <= j /\ EventAt(p, j).dest = e.dest /\ NoneOf(p, e.dest, m + 1, j)
        BY <2>2
      <3>2. m < j
        BY <1>2, <3>1
      <3>3. processed[p][j].before = Handle(r.before, e).lp
        BY <3>1, <3>2 DEF IInv, ChainInv
      <3> QED
        BY <1>7, <3>1, <3>3
    <2>3. m + 1 \in Nat
      BY <1>2
    <2>4. \/ NoneOf(p, e.dest, m + 1, L + 1)
          \/ \E j \in DOMAIN processed[p] :
                m + 1 <= j /\ EventAt(p, j).dest = e.dest /\ NoneOf(p, e.dest, m + 1, j)
      BY <2>3, FirstRecord
    <2> QED
      BY <2>1, <2>2, <2>4
  <1>9. m .. L = {m} \cup (m + 1 .. L)
    BY <1>2
  <1>10. Cancelled(p, m) = Cancelled(p, m + 1) \cup r.sent
    BY <1>9 DEF Cancelled
  <1>11. Redone(p, m) = Redone(p, m + 1) \cup {e}
    BY <1>9 DEF Redone
  <1>12. e \notin Cancelled(p, m)
    <2> SUFFICES ASSUME NEW k \in m .. L, e \in processed[p][k].sent PROVE FALSE
      BY DEF Cancelled
    <2>1. k \in 1 .. L
      BY <1>2
    <2>2. e.time > EventAt(p, k).time
      BY <1>2, <2>1, RecordEvents
    <2>3. k = m \/ ~ Before(EventAt(p, k), e)
      BY <1>2, <2>1 DEF IInv, OrderInv
    <2> QED
      BY <1>2, <1>6, <2>1, <2>2, <2>3 DEF Before
  <1>13. /\ new.lps = [n \in Neurons |-> new.lps[n]]
         /\ new.lps[e.dest] = r.before
         /\ \A n \in Neurons : n # e.dest => new.lps[n] = st.lps[n]
    BY <1>4, <1>5, <1>6, <1>7, <1>8
  <1> HIDE DEF new, r
  <1>14. ASSUME NEW n \in Neurons, NoneOf(p, n, m, L + 1)
         PROVE  new.lps[n] = lps[n]
    <2>1. n # e.dest /\ NoneOf(p, n, m + 1, L + 1)
      BY <1>2, <1>14 DEF NoneOf
    <2> QED
      BY <1>7, <1>13, <2>1
  <1>15. ASSUME NEW j \in DOMAIN processed[p], m <= j, NoneOf(p, EventAt(p, j).dest, m, j)
         PROVE  new.lps[EventAt(p, j).dest] = processed[p][j].before
    <2>1. CASE j = m
      BY <1>13, <2>1 DEF r
    <2>2. CASE j # m
      <3>1. m + 1 <= j /\ m < j
        BY <1>2, <1>15, <2>2
      <3>2. EventAt(p, j).dest # e.dest /\ NoneOf(p, EventAt(p, j).dest, m + 1, j)
        BY <1>2, <1>15, <3>1 DEF NoneOf
      <3>3. EventAt(p, j).dest \in Neurons
        BY <1>2, <1>6 DEF InRun, IsEvent
      <3> QED
        BY <1>7, <1>13, <3>1, <3>2, <3>3
    <2> QED
      BY <2>1, <2>2
  <1>16. new.queue = {f \in Q \cup Redone(p, m) : f \notin Cancelled(p, m)}
    <2>1. \A f \in st.queue : AsSent(f) = f
      <3>1. \A f \in Redone(p, m + 1) : InRun(f)
        BY <1>2, <1>6 DEF Redone
      <3> QED
        BY <1>7, <3>1, AsSentShape DEF InRun
    <2>2. new.queue = {f \in st.queue : f \notin r.sent} \cup {e}
      BY <1>5, <2>1
    <2> QED
      BY <1>7, <1>10, <1>11, <1>12, <2>2
  <1>17. new.cancel = Cancelled(p, m)
    BY <1>5, <1>7, <1>10
  <1>18. IsBack(new, p, m, Q)
    BY <1>5, <1>13, <1>14, <1>15, <1>16, <1>17 DEF IsBack
  <1> QED
    BY <1>18 DEF new, r

LEMMA RolledBackShape ==
    ASSUME NEW S, NeuronModel(S), IInv(S), NEW p \in PEs,
           NEW i \in 1 .. Len(processed[p]) + 1, NEW Q, \A f \in Q : InRun(f)
    PROVE  IsBack(RolledBack(p, i, Q), p, i, Q)
  <1>1. IsSeq(processed[p])
    BY DEF IInv, RecordInv
  <1>2. PICK L \in Nat : L = Len(processed[p]) /\ DOMAIN processed[p] = 1 .. L /\ i \in 1 .. L + 1
    BY <1>1, SeqShape
  <1> DEFINE s == SubSeq(processed[p], i, L)
             base == [lps |-> lps, queue |-> Q, cancel |-> {}]
             n == L - i + 1
  <1>3. n \in Nat /\ n + 1 - n = 1 /\ L + 1 - n = i
    <2>1. i \in Int /\ L \in Int /\ i <= L + 1
      BY <1>2
    <2>2. n \in Int /\ n >= 0
      BY <2>1
    <2> QED
      BY <2>1, <2>2
  <1>4. /\ IsSeq(s) /\ Len(s) = n
        /\ \A k \in 1 .. n : s[k] = processed[p][k + i - 1]
    <2>1. L \in 0 .. L /\ i <= L + 1
      BY <1>2
    <2> QED
      BY <1>1, <1>2, <2>1, SeqSub
  <1>5. RolledBack(p, i, Q) = UndoAll(s, base)
    BY <1>2 DEF RolledBack, UndoAll
  <1> HIDE DEF s, base, n
  <1>6. PICK f : Unwinds(f, s, base)
    BY <1>4, FoldRightUndo
  <1>7. IsBack(base, p, L + 1, Q)
    <2>1. L + 1 .. L = {}
      BY <1>2
    <2>2. Cancelled(p, L + 1) = {} /\ Redone(p, L + 1) = {}
      BY <1>2, <2>1 DEF Cancelled, Redone
    <2>3. lps = [m \in Neurons |-> lps[m]]
      BY DEF IInv, LPInv
    <2>4. /\ base.lps = lps /\ base.queue = Q /\ base.cancel = {}
          /\ base = [lps |-> base.lps, queue |-> base.queue, cancel |-> base.cancel]
      BY DEF base
    <2>5. \A j \in DOMAIN processed[p] : ~ (L + 1 <= j)
      BY <1>2
    <2> QED
      BY <1>2, <2>2, <2>3, <2>4, <2>5 DEF IsBack
  <1> DEFINE P == {d \in Nat : d <= n => IsBack(f[n + 1 - d], p, L + 1 - d, Q)}
  <1>8. 0 \in P
    <2>1. n + 1 - 0 = n + 1 /\ L + 1 - 0 = L + 1
      BY <1>2, <1>3
    <2> QED
      BY <1>4, <1>6, <1>7, <2>1 DEF Unwinds
  <1>9. ASSUME NEW d \in Nat, d \in P
        PROVE  d + 1 \in P
    <2> SUFFICES ASSUME d + 1 <= n
                 PROVE  IsBack(f[n + 1 - (d + 1)], p, L + 1 - (d + 1), Q)
      OBVIOUS
    <2>1. IsBack(f[n + 1 - d], p, L + 1 - d, Q)
      BY <1>2, <1>3, <1>9
    <2> DEFINE k == n - d
               m == L - d
    <2>2. n = L - i + 1 /\ i \in Int /\ 1 <= i /\ i <= L + 1 /\ L \in Int /\ d \in Int /\ 0 <= d
      BY <1>2 DEF n
    <2>3. /\ k \in 1 .. n /\ n + 1 - d = k + 1 /\ n + 1 - (d + 1) = k
          /\ m \in 1 .. L /\ L + 1 - d = m + 1 /\ L + 1 - (d + 1) = m
          /\ k + i - 1 = m
      BY <2>2
    <2> HIDE DEF k, m
    <2>4. s[k] = processed[p][m]
      BY <1>4, <2>3
    <2>5. f[k] = Undo(processed[p][m], f[k + 1])
      BY <1>4, <1>6, <2>3, <2>4 DEF Unwinds
    <2>6. IsBack(f[k + 1], p, m + 1, Q)
      BY <2>1, <2>3
    <2>7. IsBack(Undo(processed[p][m], f[k + 1]), p, m, Q)
      BY <1>2, <2>3, <2>6, UndoBack
    <2> QED
      BY <2>3, <2>5, <2>7
  <1>10. n \in P
    <2> HIDE DEF P
    <2> QED
      BY <1>3, <1>8, <1>9, Induction
  <1>11. IsBack(f[n + 1 - n], p, L + 1 - n, Q)
    BY <1>3, <1>10
  <1> QED
    BY <1>3, <1>5, <1>6, <1>11 DEF Unwinds

-----------------------------------------------------------------------------
(* A message is received.                                                   *)

\* What a message does to a set of events: one is added or one is taken away.
Arriving(m, T) == IF m.anti THEN T \ {m.event} ELSE T \cup {m.event}

\* What p does when it takes m, the first message on the channel from q, and keeps the
\* records before the i-th.
Takes(q, p, i, m) ==
    /\ q # p
    /\ channel[<<q, p>>] # <<>> /\ m = channel[<<q, p>>][1] /\ IsMessage(m, q, p)
    /\ m.anti <=> m.event \in There(p)
    /\ i \in 1 .. Len(processed[p]) + 1
    /\ \A k \in 1 .. i - 1 : EventAt(p, k) # m.event /\ ~ Before(m.event, EventAt(p, k))
    /\ \E st, Q : /\ IsBack(st, p, i, Q)
                  /\ lps' = st.lps
    /\ pending' = [b \in PEs |-> pending'[b]]
    /\ pending'[p] = {f \in Arriving(m, pending[p] \cup Redone(p, i)) : f \notin Cancelled(p, i)}
    /\ processed' = [processed EXCEPT ![p] = SubSeq(@, 1, i - 1)]
    /\ \A b \in PEs : b # p => pending'[b] = pending[b]
    /\ Sends([channel EXCEPT ![<<q, p>>] = Tail(@)], channel', p, Cancelled(p, i), "cancelled")
    /\ UNCHANGED <<horizon, due, trace>>

LEMMA MinIsLeast ==
    ASSUME NEW T, T \subseteq Nat, T # {}
    PROVE  Min(T) \in T /\ \A n \in T : Min(T) <= n
  <1>1. \E m \in T : \A n \in T : m <= n
    BY Least
  <1> QED
    BY <1>1 DEF Min

\* The order of the events knows nothing of what is noted in them.
LEMMA RecordOrder ==
    ASSUME NEW S, NEW r, IsRecord(r, S)
    PROVE  /\ r.event.time = Event(r).time /\ r.event.dest = Event(r).dest
           /\ \A f : /\ Before(f, r.event) <=> Before(f, Event(r))
                     /\ Before(r.event, f) <=> Before(Event(r), f)
  <1> DEFINE e == Event(r)
  <1>1. e = [type |-> e.type, dest |-> e.dest, time |-> e.time, current |-> e.current,
             id |-> e.id, fired |-> e.fired]
    BY DEF IsRecord, InRun, IsEvent
  <1>2. r.event = Handled(r.before, e)
    BY DEF IsRecord
  <1> HIDE DEF e
  <1>3. r.event.time = e.time /\ r.event.dest = e.dest /\ r.event.type = e.type
    BY <1>1, <1>2 DEF Handled
  <1>4. \A f : /\ Before(f, r.event) <=> Before(f, e)
               /\ Before(r.event, f) <=> Before(e, f)
    BY <1>3 DEF Before, Priority
  <1> QED
    BY <1>3, <1>4 DEF e

LEMMA CancelledEvents ==
    ASSUME NEW S, IInv(S), NEW p \in PEs, NEW i \in 1 .. Len(processed[p]) + 1
    PROVE  /\ IsFiniteSet(Cancelled(p, i))
           /\ Cancelled(p, i) \subseteq Wanted(p)
           /\ \A x \in Cancelled(p, i) :
                 /\ InRun(x) /\ Sender(x) = p /\ x.time \in Nat /\ horizon <= x.time
                 /\ \A k \in 1 .. i - 1 : EventAt(p, k) # x
  <1>1. IsSeq(processed[p])
    BY DEF IInv, RecordInv
  <1>2. PICK L \in Nat : L = Len(processed[p]) /\ DOMAIN processed[p] = 1 .. L /\ i \in 1 .. L + 1
    BY <1>1, SeqShape
  <1>3. \A k \in i .. L : IsFiniteSet(processed[p][k].sent)
    <2> SUFFICES ASSUME NEW k \in i .. L PROVE IsFiniteSet(processed[p][k].sent)
      OBVIOUS
    <2>1. IsRecord(processed[p][k], S)
      BY <1>2 DEF IInv, RecordInv
    <2> QED
      BY <2>1, HandledEventsFinite DEF IsRecord
  <1>4. IsFiniteSet(Cancelled(p, i))
    <2> DEFINE sets == {processed[p][k].sent : k \in i .. L}
    <2>1. IsFiniteSet(i .. L)
      BY <1>2, FS_Interval
    <2>2. IsFiniteSet(sets)
      <3> DEFINE g == [k \in i .. L |-> processed[p][k].sent]
      <3>1. g \in Surjection(i .. L, sets)
        BY DEF Surjection
      <3> HIDE DEF g, sets
      <3> QED
        BY <2>1, <3>1, FS_Surjection
    <2>3. \A s \in sets : IsFiniteSet(s)
      BY <1>3
    <2> HIDE DEF sets
    <2>4. IsFiniteSet(UNION sets)
      BY <2>2, <2>3, FS_UNION
    <2> QED
      BY <1>2, <2>4 DEF Cancelled, sets
  <1>5. Cancelled(p, i) \subseteq Wanted(p)
    BY <1>2 DEF Cancelled, Wanted
  <1>6. ASSUME NEW x \in Cancelled(p, i)
        PROVE  /\ InRun(x) /\ Sender(x) = p /\ x.time \in Nat /\ horizon <= x.time
               /\ \A k \in 1 .. i - 1 : EventAt(p, k) # x
    <2>1. PICK j \in i .. L : x \in processed[p][j].sent
      BY <1>2 DEF Cancelled
    <2>2. j \in DOMAIN processed[p]
      BY <1>2
    <2>3. InRun(x) /\ Sender(x) = p /\ x.time > EventAt(p, j).time
      BY <2>1, <2>2, RecordEvents
    <2>4. \A k \in DOMAIN processed[p] : EventAt(p, k).time \in Nat /\ horizon <= EventAt(p, k).time
      BY ThereInRun DEF There
    <2>5. x.time \in Nat /\ horizon \in Nat
      BY <2>3 DEF InRun, IsEvent, IInv
    <2>6. ASSUME NEW k \in 1 .. i - 1, EventAt(p, k) = x
          PROVE  FALSE
      <3>1. k < j /\ k \in DOMAIN processed[p]
        BY <1>2
      <3>2. ~ Before(EventAt(p, j), EventAt(p, k))
        BY <2>2, <3>1 DEF IInv, OrderInv
      <3> QED
        BY <2>2, <2>3, <2>4, <2>5, <2>6, <3>1, <3>2 DEF Before
    <2> QED
      BY <2>2, <2>3, <2>4, <2>5, <2>6
  <1> QED
    BY <1>4, <1>5, <1>6

LEMMA ReceiveTakes ==
    ASSUME NEW S, NeuronModel(S), IInv(S), NEW p \in PEs, NEW q \in PEs,
           ReceiveEvent(q, p) \/ ReceiveAnti(q, p)
    PROVE  \E i, m : Takes(q, p, i, m)
  <1> DEFINE c == channel[<<q, p>>]
             m == c[1]
             e == m.event
             old == processed[p]
  <1>1. PICK L \in Nat : L = Len(old) /\ DOMAIN old = 1 .. L
    <2>1. IsSeq(old)
      BY DEF IInv, RecordInv
    <2> QED
      BY <2>1, SeqShape
  <1>2. c # <<>> /\ IsSeq(c) /\ Head(c) = m /\ 1 \in DOMAIN c
    <2>1. c # <<>>
      BY DEF ReceiveEvent, ReceiveAnti
    <2>2. IsSeq(c)
      BY DEF IInv, ChannelInv
    <2> HIDE DEF c
    <2>3. Len(c) \in Nat /\ Len(c) > 0 /\ Head(c) = c[1]
      BY <2>1, <2>2, SeqTail
    <2> QED
      BY <2>1, <2>2, <2>3, SeqShape
  <1>3. q # p
    BY <1>2 DEF IInv, ChannelInv
  <1>4. IsMessage(m, q, p)
    BY <1>2 DEF IInv, ChannelInv
  <1>5. InRun(e) /\ Sender(e) = q /\ PEOf[e.dest] = p /\ m.anti \in BOOLEAN
    BY <1>4 DEF IsMessage
  <1>6. m.anti <=> e \in There(p)
    <2>1. Delivers(c, e, There(p), Wanted(q))
      BY <1>5 DEF IInv, DeliveryInv, Agreed
    <2> DEFINE then == IF c[1].event = e /\ e \in There(p) THEN {} ELSE {e}
    <2>2. e \in then <=> IF c[1].event = e THEN e \notin There(p) ELSE e \in There(p)
      OBVIOUS
    <2> HIDE DEF c, then
    <2> QED
      BY <1>2, <2>1, <2>2, DeliversTail
  <1>7. \A k \in 1 .. L : IsRecord(old[k], S) /\ EventAt(p, k) = Event(old[k])
                          /\ EventAt(p, k).time \in Nat /\ InRun(EventAt(p, k))
    BY <1>1, ThereInRun DEF IInv, RecordInv, EventAt, There
  <1>8. \A j, k \in 1 .. L : j < k => ~ Before(EventAt(p, k), EventAt(p, j))
                                      /\ EventAt(p, k) # EventAt(p, j)
    BY <1>1 DEF IInv, OrderInv
  <1>9. \A k \in 1 .. L : \A f \in pending[p] : ~ Before(f, EventAt(p, k)) /\ f # EventAt(p, k)
    BY <1>1 DEF IInv, OrderInv
  <1>10. \A f \in pending[p] : InRun(f)
    BY DEF IInv, PendingInv
  <1>11. /\ pending = [b \in PEs |-> pending[b]]
         /\ lps = [n \in Neurons |-> lps[n]]
    BY DEF IInv, PendingInv, LPInv
  <1> HIDE DEF c, m, e, old
  <1>12. CASE ReceiveEvent(q, p)
    <2> DEFINE i == FirstAfter(p, e)
               st == RolledBack(p, i, pending[p] \cup {e})
               late == {k \in 1 .. L : Before(e, EventAt(p, k))}
    <2>1. ~ m.anti /\ RollBack(q, p, i, st)
      BY <1>2, <1>12 DEF ReceiveEvent, c, e
    <2>2. i = IF late = {} THEN L + 1 ELSE Min(late)
      <3>1. late = {k \in DOMAIN old : Before(e, old[k].event)}
        BY <1>1, <1>7, RecordOrder
      <3> QED
        BY <1>1, <3>1 DEF FirstAfter, old
    <2>3. i \in 1 .. L + 1 /\ \A k \in 1 .. i - 1 : k \in 1 .. L /\ k \notin late
      <3>1. CASE late = {}
        BY <1>1, <2>2, <3>1
      <3>2. CASE late # {}
        <4>1. Min(late) \in late /\ \A k \in late : Min(late) <= k
          BY <3>2, MinIsLeast
        <4> HIDE DEF late
        <4>2. i \in late /\ \A k \in late : i <= k
          BY <2>2, <3>2, <4>1
        <4> HIDE DEF i
        <4>3. i \in 1 .. L
          BY <4>2 DEF late
        <4> QED
          BY <4>2, <4>3
      <3> QED
        BY <3>1, <3>2
    <2> HIDE DEF i
    <2>4. \A k \in 1 .. i - 1 : EventAt(p, k) # e /\ ~ Before(e, EventAt(p, k))
      BY <1>1, <1>6, <2>1, <2>3 DEF There, old
    <2>5. IsBack(st, p, i, pending[p] \cup {e})
      BY <1>1, <1>5, <1>10, <2>3, RolledBackShape DEF old
    <2> HIDE DEF st
    <2>6. st.queue = {f \in Arriving(m, pending[p] \cup Redone(p, i)) : f \notin Cancelled(p, i)}
      <3>1. Arriving(m, pending[p] \cup Redone(p, i)) = (pending[p] \cup {e}) \cup Redone(p, i)
        BY <2>1 DEF Arriving, e
      <3> QED
        BY <2>5, <3>1 DEF IsBack
    <2>7. st.cancel = Cancelled(p, i)
      BY <2>5 DEF IsBack
    <2>8. IsFiniteSet(Cancelled(p, i))
      BY <1>1, <2>3, CancelledEvents DEF old
    <2>9. Sends([channel EXCEPT ![<<q, p>>] = Tail(@)], channel', p, Cancelled(p, i), "cancelled")
      BY <2>1, <2>7, <2>8, Posting DEF RollBack
    <2>10. /\ pending' = [pending EXCEPT ![p] = st.queue]
           /\ processed' = [processed EXCEPT ![p] = SubSeq(@, 1, i - 1)]
           /\ lps' = st.lps
           /\ UNCHANGED <<horizon, due, trace>>
      BY <2>1 DEF RollBack
    <2>11. /\ pending' = [b \in PEs |-> pending'[b]]
           /\ pending'[p] = st.queue
           /\ \A b \in PEs : b # p => pending'[b] = pending[b]
      BY <1>11, <2>10
    <2>12. Takes(q, p, i, m)
      BY <1>1, <1>2, <1>3, <1>4, <1>6, <2>3, <2>4, <2>5, <2>6, <2>9, <2>10, <2>11
      DEF Takes, c, m, e, old
    <2> QED
      BY <2>12
  <1>13. CASE ReceiveAnti(q, p)
    <2> DEFINE at == {k \in 1 .. L : EventAt(p, k) = e}
               i == IF at = {} THEN L + 1 ELSE Min(at)
               st == RolledBack(p, i, pending[p])
    <2>1. Position(p, e) = at
      BY <1>1 DEF Position, EventAt, Event, old
    <2>2. m.anti /\ RollBack(q, p, i, [st EXCEPT !.queue = {f \in @ : AsSent(f) # e}])
      BY <1>1, <1>2, <1>13, <2>1 DEF ReceiveAnti, c, e, old
    <2>3. /\ i \in 1 .. L + 1 /\ \A k \in 1 .. i - 1 : k \in 1 .. L /\ k \notin at
          /\ i = L + 1 \/ i \in at
      <3>1. CASE at = {}
        BY <1>1, <3>1
      <3>2. CASE at # {}
        <4>1. Min(at) \in at /\ \A k \in at : Min(at) <= k
          BY <3>2, MinIsLeast
        <4> HIDE DEF at
        <4>2. i \in at /\ \A k \in at : i <= k
          BY <3>2, <4>1
        <4> HIDE DEF i
        <4>3. i \in 1 .. L
          BY <4>2 DEF at
        <4> QED
          BY <4>2, <4>3
      <3> QED
        BY <3>1, <3>2
    <2> HIDE DEF i
    <2>4. \A k \in 1 .. i - 1 : EventAt(p, k) # e /\ ~ Before(e, EventAt(p, k))
      <3> SUFFICES ASSUME NEW k \in 1 .. i - 1
                   PROVE  EventAt(p, k) # e /\ ~ Before(e, EventAt(p, k))
        OBVIOUS
      <3>1. k \in 1 .. L /\ EventAt(p, k) # e
        BY <2>3
      <3>2. e \in pending[p] \/ \E j \in 1 .. L : e = EventAt(p, j)
        BY <1>1, <1>6, <2>2 DEF There, old
      <3>3. CASE e \in pending[p]
        BY <1>9, <3>1, <3>3
      <3>4. CASE \E j \in 1 .. L : e = EventAt(p, j)
        <4>1. i \in at
          BY <2>3, <3>4
        <4>2. i \in 1 .. L /\ EventAt(p, i) = e
          BY <4>1
        <4>3. k < i
          BY <1>1, <2>3
        <4> QED
          BY <1>8, <3>1, <4>2, <4>3
      <3> QED
        BY <3>2, <3>3, <3>4
    <2>5. IsBack(st, p, i, pending[p])
      BY <1>1, <1>10, <2>3, RolledBackShape DEF old
    <2> HIDE DEF st
    <2>6. \A f \in st.queue : AsSent(f) = f
      <3>1. \A f \in Redone(p, i) : InRun(f)
        BY <1>1, <1>7, <2>3 DEF Redone, old
      <3> QED
        BY <1>10, <2>5, <3>1, AsSentShape DEF IsBack, InRun
    <2> DEFINE queue == {f \in st.queue : AsSent(f) # e}
    <2>7. queue = {f \in Arriving(m, pending[p] \cup Redone(p, i)) : f \notin Cancelled(p, i)}
      <3>1. Arriving(m, pending[p] \cup Redone(p, i)) = (pending[p] \cup Redone(p, i)) \ {e}
        BY <2>2 DEF Arriving, e
      <3>2. queue = {f \in st.queue : f # e}
        BY <2>6
      <3> HIDE DEF queue
      <3> QED
        BY <2>5, <3>1, <3>2 DEF IsBack
    <2>8. IsFiniteSet(Cancelled(p, i))
      BY <1>1, <2>3, CancelledEvents DEF old
    <2>9. /\ pending' = [pending EXCEPT ![p] = queue]
          /\ processed' = [processed EXCEPT ![p] = SubSeq(@, 1, i - 1)]
          /\ lps' = st.lps
          /\ channel' = Posted([channel EXCEPT ![<<q, p>>] = Tail(@)], p, st.cancel, TRUE)
          /\ UNCHANGED <<horizon, due, trace>>
      <3> DEFINE new == [st EXCEPT !.queue = queue]
      <3>1. new.queue = queue /\ new.lps = st.lps /\ new.cancel = st.cancel
        <4>1. st = [lps |-> st.lps, queue |-> st.queue, cancel |-> st.cancel]
          BY <2>5 DEF IsBack
        <4> HIDE DEF queue
        <4> QED
          BY <4>1
      <3>2. RollBack(q, p, i, new)
        BY <2>2
      <3> HIDE DEF new, queue
      <3> QED
        BY <3>1, <3>2 DEF RollBack
    <2>10. Sends([channel EXCEPT ![<<q, p>>] = Tail(@)], channel', p, Cancelled(p, i), "cancelled")
      BY <2>5, <2>8, <2>9, Posting DEF IsBack
    <2> HIDE DEF queue
    <2>11. /\ pending' = [b \in PEs |-> pending'[b]]
           /\ pending'[p] = queue
           /\ \A b \in PEs : b # p => pending'[b] = pending[b]
      BY <1>11, <2>9
    <2>12. Takes(q, p, i, m)
      BY <1>1, <1>2, <1>3, <1>4, <1>6, <2>3, <2>4, <2>5, <2>7, <2>9, <2>10, <2>11
      DEF Takes, c, m, e, old
    <2> QED
      BY <2>12
  <1> QED
    BY <1>12, <1>13

LEMMA TakesState ==
    ASSUME NEW S, NeuronModel(S), IInv(S), NEW p \in PEs, NEW q \in PEs, NEW i, NEW m,
           Takes(q, p, i, m)
    PROVE  /\ Len(processed[p]) \in Nat /\ DOMAIN processed[p] = 1 .. Len(processed[p])
           /\ i \in 1 .. Len(processed[p]) + 1
           /\ processed' = [b \in PEs |-> processed'[b]]
           /\ IsSeq(processed'[p])
           /\ Len(processed'[p]) = i - 1
           /\ DOMAIN processed'[p] = 1 .. i - 1
           /\ \A k \in 1 .. i - 1 : processed'[p][k] = processed[p][k]
           /\ \A b \in PEs : b # p => processed'[b] = processed[b] /\ pending'[b] = pending[b]
           /\ lps' = [n \in Neurons |-> lps'[n]]
           /\ \A n \in Neurons : NoneOf(p, n, i, Len(processed[p]) + 1) => lps'[n] = lps[n]
           /\ \A j \in DOMAIN processed[p] :
                 i <= j /\ NoneOf(p, EventAt(p, j).dest, i, j)
                     => lps'[EventAt(p, j).dest] = processed[p][j].before
           /\ \A n \in Neurons : PEOf[n] # p => lps'[n] = lps[n]
           /\ m.event.type # "heartbeat"
  <1>1. PICK L \in Nat : L = Len(processed[p]) /\ DOMAIN processed[p] = 1 .. L
    <2>1. IsSeq(processed[p])
      BY DEF IInv, RecordInv
    <2> QED
      BY <2>1, SeqShape
  <1>2. i \in 1 .. L + 1
    BY <1>1 DEF Takes
  <1>3. /\ processed' = [b \in PEs |-> processed'[b]]
        /\ processed'[p] = SubSeq(processed[p], 1, i - 1)
        /\ \A b \in PEs : b # p => processed'[b] = processed[b] /\ pending'[b] = pending[b]
    BY DEF Takes, IInv, RecordInv
  <1>4. /\ IsSeq(processed'[p])
        /\ Len(processed'[p]) = i - 1
        /\ DOMAIN processed'[p] = 1 .. i - 1
        /\ \A k \in 1 .. i - 1 : processed'[p][k] = processed[p][k]
    <2>1. IsSeq(processed[p])
      BY DEF IInv, RecordInv
    <2>2. 1 \in 1 .. L + 1 /\ i - 1 \in 0 .. L /\ 1 <= i - 1 + 1
          /\ i - 1 - 1 + 1 = i - 1 /\ \A k \in 1 .. i - 1 : k + 1 - 1 = k
      BY <1>2
    <2> DEFINE j == i - 1
    <2>3. /\ IsSeq(SubSeq(processed[p], 1, j))
          /\ Len(SubSeq(processed[p], 1, j)) = j - 1 + 1
          /\ DOMAIN SubSeq(processed[p], 1, j) = 1 .. j - 1 + 1
          /\ \A k \in 1 .. j - 1 + 1 : SubSeq(processed[p], 1, j)[k] = processed[p][k + 1 - 1]
      <3> HIDE DEF j
      <3>1. j \in 0 .. Len(processed[p]) /\ 1 <= j + 1 /\ 1 \in 1 .. Len(processed[p]) + 1
        BY <1>1, <2>2 DEF j
      <3> DEFINE s == processed[p]
      <3>2. IsSeq(s) /\ j \in 0 .. Len(s) /\ 1 <= j + 1 /\ 1 \in 1 .. Len(s) + 1
        BY <2>1, <3>1
      <3> HIDE DEF s
      <3>3. /\ IsSeq(SubSeq(s, 1, j))
            /\ Len(SubSeq(s, 1, j)) = j - 1 + 1
            /\ DOMAIN SubSeq(s, 1, j) = 1 .. j - 1 + 1
            /\ \A k \in 1 .. j - 1 + 1 : SubSeq(s, 1, j)[k] = s[k + 1 - 1]
        BY <3>2, SeqSub
      <3> QED
        BY <3>3 DEF s
    <2> QED
      BY <1>3, <2>2, <2>3
  <1>5. PICK st, Q : IsBack(st, p, i, Q) /\ lps' = st.lps
    BY DEF Takes
  <1>6. /\ lps' = [n \in Neurons |-> lps'[n]]
        /\ \A n \in Neurons : NoneOf(p, n, i, L + 1) => lps'[n] = lps[n]
        /\ \A j \in DOMAIN processed[p] :
              i <= j /\ NoneOf(p, EventAt(p, j).dest, i, j)
                  => lps'[EventAt(p, j).dest] = processed[p][j].before
    BY <1>1, <1>5 DEF IsBack
  <1>7. ASSUME NEW n \in Neurons, PEOf[n] # p
        PROVE  lps'[n] = lps[n]
    <2>1. \A k \in DOMAIN processed[p] : PEOf[EventAt(p, k).dest] = p
      BY DEF IInv, RecordInv
    <2>2. NoneOf(p, n, i, L + 1)
      BY <1>7, <2>1 DEF NoneOf
    <2> QED
      BY <1>6, <2>2
  <1>8. m.event.type # "heartbeat"
    BY DEF Takes, IsMessage, Sender
  <1> QED
    BY <1>1, <1>2, <1>3, <1>4, <1>6, <1>7, <1>8

LEMMA TakesThere ==
    ASSUME NEW S, NeuronModel(S), IInv(S), NEW p \in PEs, NEW q \in PEs, NEW i, NEW m,
           Takes(q, p, i, m)
    PROVE  /\ \A k \in 1 .. i - 1 : EventAt(p, k)' = EventAt(p, k)
           /\ There(p)' = Arriving(m, There(p)) \ Cancelled(p, i)
           /\ Wanted(p)' = Wanted(p) \ Cancelled(p, i)
           /\ \A b \in PEs : b # p => /\ There(b)' = There(b) /\ Wanted(b)' = Wanted(b)
                                      /\ \A k : EventAt(b, k)' = EventAt(b, k)
  <1>1. PICK L \in Nat : L = Len(processed[p])
    BY TakesState
  <1>2. /\ DOMAIN processed[p] = 1 .. L
        /\ i \in 1 .. L + 1
        /\ DOMAIN processed'[p] = 1 .. i - 1
        /\ \A k \in 1 .. i - 1 : processed'[p][k] = processed[p][k]
        /\ \A b \in PEs : b # p => processed'[b] = processed[b] /\ pending'[b] = pending[b]
    BY <1>1, TakesState
  <1>3. /\ pending'[p] = {f \in Arriving(m, pending[p] \cup Redone(p, i)) : f \notin Cancelled(p, i)}
        /\ \A k \in 1 .. i - 1 : EventAt(p, k) # m.event
        /\ due' = due
    BY DEF Takes
  <1>4. \A k \in 1 .. i - 1 : EventAt(p, k)' = EventAt(p, k)
    BY <1>2 DEF EventAt, Event, AsSent
  <1>5. \A x \in Cancelled(p, i) : \A k \in 1 .. i - 1 : EventAt(p, k) # x
    BY <1>1, <1>2, CancelledEvents
  <1>6. 1 .. L = (1 .. i - 1) \cup (i .. L)
    BY <1>2
  <1>7. There(p)' = Arriving(m, There(p)) \ Cancelled(p, i)
    <2> DEFINE kept == {EventAt(p, k) : k \in 1 .. i - 1}
    <2>1. There(p) = pending[p] \cup Redone(p, i) \cup kept
      BY <1>1, <1>2, <1>6 DEF There, Redone
    <2>2. There(p)' = pending'[p] \cup kept
      BY <1>2, <1>4 DEF There
    <2>3. m.event \notin kept /\ \A x \in kept : x \notin Cancelled(p, i)
      BY <1>3, <1>5
    <2> HIDE DEF kept
    <2>4. CASE m.anti
      <3>1. /\ Arriving(m, pending[p] \cup Redone(p, i)) = (pending[p] \cup Redone(p, i)) \ {m.event}
            /\ Arriving(m, There(p)) = There(p) \ {m.event}
        BY <2>4 DEF Arriving
      <3> QED
        BY <1>3, <2>1, <2>2, <2>3, <3>1
    <2>5. CASE ~ m.anti
      <3>1. /\ Arriving(m, pending[p] \cup Redone(p, i)) = (pending[p] \cup Redone(p, i)) \cup {m.event}
            /\ Arriving(m, There(p)) = There(p) \cup {m.event}
        BY <2>5 DEF Arriving
      <3> QED
        BY <1>3, <2>1, <2>2, <2>3, <3>1
    <2> QED
      BY <2>4, <2>5
  <1>8. Wanted(p)' = Wanted(p) \ Cancelled(p, i)
    <2> DEFINE kept == UNION {processed[p][k].sent : k \in 1 .. i - 1}
    <2>1. Wanted(p) = due \cup kept \cup Cancelled(p, i)
      BY <1>1, <1>2, <1>6 DEF Wanted, Cancelled
    <2>2. Wanted(p)' = due \cup kept
      BY <1>2, <1>3 DEF Wanted
    <2>3. \A x \in Cancelled(p, i) : x \notin due /\ x \notin kept
      <3>1. \A k, j \in 1 .. L : /\ processed[p][k].sent \cap due = {}
                                 /\ j # k => processed[p][j].sent \cap processed[p][k].sent = {}
        BY <1>2 DEF IInv, OnceInv
      <3>2. \A k \in i .. L : k \in 1 .. L /\ \A j \in 1 .. i - 1 : j # k /\ j \in 1 .. L
        BY <1>2
      <3> QED
        BY <1>1, <3>1, <3>2 DEF Cancelled
    <2> HIDE DEF kept
    <2> QED
      BY <2>1, <2>2, <2>3
  <1>9. \A b \in PEs : b # p => /\ There(b)' = There(b) /\ Wanted(b)' = Wanted(b)
                               /\ \A k : EventAt(b, k)' = EventAt(b, k)
    BY <1>2, <1>3 DEF There, Wanted, EventAt
  <1> QED
    BY <1>4, <1>7, <1>8, <1>9

LEMMA TakesRecords ==
    ASSUME NEW S, NeuronModel(S), IInv(S), NEW p \in PEs, NEW q \in PEs, NEW i, NEW m,
           Takes(q, p, i, m)
    PROVE  LPInv(S)' /\ PendingInv' /\ RecordInv(S)'
  <1>1. PICK L \in Nat : L = Len(processed[p])
    BY TakesState
  <1>2. /\ DOMAIN processed[p] = 1 .. L
        /\ i \in 1 .. L + 1
        /\ processed' = [b \in PEs |-> processed'[b]]
        /\ IsSeq(processed'[p])
        /\ DOMAIN processed'[p] = 1 .. i - 1
        /\ \A k \in 1 .. i - 1 : processed'[p][k] = processed[p][k]
        /\ \A b \in PEs : b # p => processed'[b] = processed[b] /\ pending'[b] = pending[b]
    BY <1>1, TakesState
  <1>3. /\ lps' = [n \in Neurons |-> lps'[n]]
        /\ \A n \in Neurons : NoneOf(p, n, i, L + 1) => lps'[n] = lps[n]
        /\ \A j \in DOMAIN processed[p] :
              i <= j /\ NoneOf(p, EventAt(p, j).dest, i, j)
                  => lps'[EventAt(p, j).dest] = processed[p][j].before
    BY <1>1, TakesState
  <1>4. \A b \in PEs :
           /\ IsSeq(processed[b])
           /\ \A k \in DOMAIN processed[b] :
                 IsRecord(processed[b][k], S) /\ PEOf[Event(processed[b][k]).dest] = b
    BY DEF IInv, RecordInv, EventAt
  <1>5. LPInv(S)'
    <2>1. ASSUME NEW n \in Neurons
          PROVE  IsState(lps'[n], S)
      <3>1. i \in Nat
        BY <1>2
      <3>2. \/ NoneOf(p, n, i, L + 1)
            \/ \E j \in DOMAIN processed[p] :
                  i <= j /\ EventAt(p, j).dest = n /\ NoneOf(p, n, i, j)
        BY <1>1, <3>1, FirstRecord
      <3>3. CASE NoneOf(p, n, i, L + 1)
        BY <1>3, <3>3 DEF IInv, LPInv
      <3>4. CASE \E j \in DOMAIN processed[p] :
                    i <= j /\ EventAt(p, j).dest = n /\ NoneOf(p, n, i, j)
        <4>1. \E j \in DOMAIN processed[p] : lps'[n] = processed[p][j].before
          BY <1>3, <3>4
        <4> QED
          BY <1>4, <4>1 DEF IsRecord
      <3> QED
        BY <3>2, <3>3, <3>4
    <2> QED
      BY <1>3, <2>1 DEF LPInv
  <1>6. PendingInv'
    <2>1. /\ pending' = [b \in PEs |-> pending'[b]]
          /\ pending'[p] = {f \in Arriving(m, pending[p] \cup Redone(p, i)) : f \notin Cancelled(p, i)}
          /\ IsMessage(m, q, p)
      BY DEF Takes
    <2>2. \A f \in Arriving(m, pending[p] \cup Redone(p, i)) : InRun(f) /\ PEOf[f.dest] = p
      <3>1. \A f \in pending[p] : InRun(f) /\ PEOf[f.dest] = p
        BY DEF IInv, PendingInv
      <3>2. \A f \in Redone(p, i) : InRun(f) /\ PEOf[f.dest] = p
        BY <1>1, <1>2, <1>4 DEF Redone, EventAt, IsRecord
      <3> QED
        BY <2>1, <3>1, <3>2 DEF Arriving, IsMessage
    <2>3. \A b \in PEs : \A f \in pending[b] : InRun(f) /\ PEOf[f.dest] = b
      BY DEF IInv, PendingInv
    <2>4. \A b \in PEs : \A f \in pending'[b] : InRun(f) /\ PEOf[f.dest] = b
      BY <1>2, <2>1, <2>2, <2>3
    <2> QED
      BY <2>1, <2>4 DEF PendingInv
  <1>7. RecordInv(S)'
    <2>1. \A k \in 1 .. i - 1 : k \in DOMAIN processed[p]
      BY <1>2
    <2>2. \A b \in PEs :
             /\ IsSeq(processed'[b])
             /\ \A k \in DOMAIN processed'[b] :
                   IsRecord(processed'[b][k], S) /\ PEOf[Event(processed'[b][k]).dest] = b
      BY <1>2, <1>4, <2>1
    <2> QED
      BY <1>2, <2>2 DEF RecordInv, EventAt, Event, AsSent
  <1> QED
    BY <1>5, <1>6, <1>7

LEMMA TakesOrder ==
    ASSUME NEW S, NeuronModel(S), IInv(S), NEW p \in PEs, NEW q \in PEs, NEW i, NEW m,
           Takes(q, p, i, m)
    PROVE  OrderInv' /\ OnceInv'
  <1>1. PICK L \in Nat : L = Len(processed[p])
    BY TakesState
  <1>2. /\ DOMAIN processed[p] = 1 .. L
        /\ i \in 1 .. L + 1
        /\ DOMAIN processed'[p] = 1 .. i - 1
        /\ \A k \in 1 .. i - 1 : processed'[p][k] = processed[p][k]
        /\ \A b \in PEs : b # p => processed'[b] = processed[b] /\ pending'[b] = pending[b]
    BY <1>1, TakesState
  <1>3. /\ \A k \in 1 .. i - 1 : EventAt(p, k)' = EventAt(p, k)
        /\ \A b \in PEs : b # p => \A k : EventAt(b, k)' = EventAt(b, k)
    BY TakesThere
  <1>4. /\ pending'[p] = {f \in Arriving(m, pending[p] \cup Redone(p, i)) : f \notin Cancelled(p, i)}
        /\ \A k \in 1 .. i - 1 : EventAt(p, k) # m.event /\ ~ Before(m.event, EventAt(p, k))
        /\ due' = due
    BY DEF Takes
  <1>5. \A b \in PEs : \A k \in DOMAIN processed[b] :
           /\ \A j \in DOMAIN processed[b] :
                 k < j => ~ Before(EventAt(b, j), EventAt(b, k)) /\ EventAt(b, j) # EventAt(b, k)
           /\ \A f \in pending[b] : ~ Before(f, EventAt(b, k)) /\ f # EventAt(b, k)
    BY DEF IInv, OrderInv
  <1>6. ASSUME NEW k \in 1 .. i - 1, NEW f \in pending'[p]
        PROVE  ~ Before(f, EventAt(p, k)) /\ f # EventAt(p, k)
    <2>1. f \in pending[p] \/ f = m.event \/ \E j \in i .. L : f = EventAt(p, j)
      BY <1>1, <1>4 DEF Arriving, Redone
    <2>2. k \in 1 .. L /\ \A j \in i .. L : j \in 1 .. L /\ k < j
      BY <1>2
    <2> QED
      BY <1>2, <1>4, <1>5, <2>1, <2>2
  <1>7. OrderInv'
    <2>1. ASSUME NEW b \in PEs, NEW k \in DOMAIN processed'[b]
          PROVE  /\ \A j \in DOMAIN processed'[b] :
                       k < j => /\ ~ Before(EventAt(b, j)', EventAt(b, k)')
                                /\ EventAt(b, j)' # EventAt(b, k)'
                 /\ \A f \in pending'[b] : ~ Before(f, EventAt(b, k)') /\ f # EventAt(b, k)'
      <3>1. CASE b # p
        BY <1>2, <1>3, <1>5, <3>1
      <3>2. CASE b = p
        <4>1. \A j \in 1 .. i - 1 : j \in 1 .. L
          BY <1>2
        <4> QED
          BY <1>2, <1>3, <1>5, <1>6, <3>2, <4>1
      <3> QED
        BY <3>1, <3>2
    <2> QED
      BY <2>1 DEF OrderInv
  <1>8. OnceInv'
    <2>1. \A j \in 1 .. i - 1 : j \in 1 .. L
      BY <1>2
    <2>2. \A b \in PEs : \A k \in DOMAIN processed[b] :
             /\ processed[b][k].sent \cap due = {}
             /\ \A j \in DOMAIN processed[b] :
                   k # j => processed[b][k].sent \cap processed[b][j].sent = {}
      BY DEF IInv, OnceInv
    <2>3. \A b \in PEs : \A k \in DOMAIN processed'[b] :
             /\ processed'[b][k].sent \cap due = {}
             /\ \A j \in DOMAIN processed'[b] :
                   k # j => processed'[b][k].sent \cap processed'[b][j].sent = {}
      BY <1>2, <2>1, <2>2
    <2> QED
      BY <1>4, <2>3 DEF OnceInv
  <1> QED
    BY <1>7, <1>8

LEMMA TakesChain ==
    ASSUME NEW S, NeuronModel(S), IInv(S), NEW p \in PEs, NEW q \in PEs, NEW i, NEW m,
           Takes(q, p, i, m)
    PROVE  ChainInv'
  <1> DEFINE Out(rec, ev) == Handle(rec.before, ev).lp
  <1>1. PICK L \in Nat : L = Len(processed[p])
    BY TakesState
  <1>2. /\ DOMAIN processed[p] = 1 .. L
        /\ i \in 1 .. L + 1
        /\ DOMAIN processed'[p] = 1 .. i - 1
        /\ Len(processed'[p]) = i - 1
        /\ \A k \in 1 .. i - 1 : processed'[p][k] = processed[p][k]
        /\ \A b \in PEs : b # p => processed'[b] = processed[b]
        /\ \A n \in Neurons : NoneOf(p, n, i, L + 1) => lps'[n] = lps[n]
        /\ \A j \in DOMAIN processed[p] :
              i <= j /\ NoneOf(p, EventAt(p, j).dest, i, j)
                  => lps'[EventAt(p, j).dest] = processed[p][j].before
        /\ \A n \in Neurons : PEOf[n] # p => lps'[n] = lps[n]
    BY <1>1, TakesState
  <1>3. /\ \A k \in 1 .. i - 1 : EventAt(p, k)' = EventAt(p, k)
        /\ \A b \in PEs : b # p => \A k : EventAt(b, k)' = EventAt(b, k)
    BY TakesThere
  <1>4. \A b \in PEs : \A k \in DOMAIN processed[b] :
           EventAt(b, k).dest \in Neurons /\ PEOf[EventAt(b, k).dest] = b
    BY ThereInRun DEF There
  <1>5. ASSUME NEW b \in PEs, NEW k \in DOMAIN processed[b]
        PROVE  /\ \A j \in DOMAIN processed[b] :
                     /\ k < j /\ EventAt(b, j).dest = EventAt(b, k).dest
                     /\ NoneOf(b, EventAt(b, k).dest, k + 1, j)
                     => processed[b][j].before = Out(processed[b][k], EventAt(b, k))
               /\ NoneOf(b, EventAt(b, k).dest, k + 1, Len(processed[b]) + 1)
                     => lps[EventAt(b, k).dest] = Out(processed[b][k], EventAt(b, k))
    BY DEF IInv, ChainInv
  <1> HIDE DEF Out
  <1>6. ASSUME NEW b \in PEs, NEW k \in DOMAIN processed'[b]
        PROVE  /\ \A j \in DOMAIN processed'[b] :
                     /\ k < j /\ EventAt(b, j)'.dest = EventAt(b, k)'.dest
                     /\ \A l \in DOMAIN processed'[b] :
                           k + 1 <= l /\ l < j => EventAt(b, l)'.dest # EventAt(b, k)'.dest
                     => processed'[b][j].before = Out(processed'[b][k], EventAt(b, k)')
               /\ (\A l \in DOMAIN processed'[b] :
                      k + 1 <= l /\ l < Len(processed'[b]) + 1
                          => EventAt(b, l)'.dest # EventAt(b, k)'.dest)
                     => lps'[EventAt(b, k)'.dest] = Out(processed'[b][k], EventAt(b, k)')
    <2>1. CASE b # p
      BY <1>2, <1>3, <1>4, <1>5, <2>1 DEF NoneOf
    <2>2. CASE b = p
      <3> DEFINE n == EventAt(p, k).dest
                 out == Out(processed[p][k], EventAt(p, k))
      <3>1. k \in 1 .. i - 1 /\ k \in 1 .. L
        BY <1>2, <2>2
      <3>2. n \in Neurons
        BY <1>2, <1>4, <3>1
      <3>3. /\ \A j \in 1 .. L : k < j /\ EventAt(p, j).dest = n /\ NoneOf(p, n, k + 1, j)
                                    => processed[p][j].before = out
            /\ NoneOf(p, n, k + 1, L + 1) => lps[n] = out
        BY <1>1, <1>2, <1>5, <3>1
      <3>4. EventAt(p, k)' = EventAt(p, k) /\ processed'[p][k] = processed[p][k]
        BY <1>2, <1>3, <3>1
      <3> HIDE DEF n, out
      <3>5. ASSUME NEW j \in 1 .. i - 1, k < j, EventAt(p, j)'.dest = n,
                   \A l \in 1 .. i - 1 : k + 1 <= l /\ l < j => EventAt(p, l)'.dest # n
            PROVE  processed'[p][j].before = out
        <4>1. j \in 1 .. L /\ EventAt(p, j).dest = n /\ processed'[p][j] = processed[p][j]
          BY <1>2, <1>3, <3>5
        <4>2. NoneOf(p, n, k + 1, j)
          <5>1. \A l \in 1 .. L : l < j => l \in 1 .. i - 1
            BY <1>2
          <5> QED
            BY <1>2, <1>3, <3>5, <5>1 DEF NoneOf
        <4> QED
          BY <3>3, <3>5, <4>1, <4>2
      <3>6. ASSUME \A l \in 1 .. i - 1 : k + 1 <= l /\ l < i => EventAt(p, l)'.dest # n
            PROVE  lps'[n] = out
        <4>1. \A l \in 1 .. L : k + 1 <= l /\ l < i => EventAt(p, l).dest # n
          <5>1. \A l \in 1 .. L : l < i => l \in 1 .. i - 1
            BY <1>2
          <5> QED
            BY <1>3, <3>6, <5>1
        <4>2. \A j : NoneOf(p, n, i, j) => NoneOf(p, n, k + 1, j)
          <5>1. \A l \in 1 .. L : l < i \/ i <= l
            BY <1>2
          <5> QED
            BY <1>2, <4>1, <5>1 DEF NoneOf
        <4>3. i \in Nat
          BY <1>2
        <4>4. \/ NoneOf(p, n, i, L + 1)
              \/ \E j \in DOMAIN processed[p] :
                    i <= j /\ EventAt(p, j).dest = n /\ NoneOf(p, n, i, j)
          BY <1>1, <4>3, FirstRecord
        <4>5. CASE NoneOf(p, n, i, L + 1)
          BY <1>2, <3>2, <3>3, <4>2, <4>5
        <4>6. CASE \E j \in DOMAIN processed[p] :
                      i <= j /\ EventAt(p, j).dest = n /\ NoneOf(p, n, i, j)
          <5>1. PICK j \in DOMAIN processed[p] :
                        i <= j /\ EventAt(p, j).dest = n /\ NoneOf(p, n, i, j)
            BY <4>6
          <5>2. lps'[n] = processed[p][j].before
            BY <1>2, <5>1
          <5>3. k < j /\ j \in 1 .. L
            BY <1>2, <3>1, <5>1
          <5> QED
            BY <3>3, <4>2, <5>1, <5>2, <5>3
        <4> QED
          BY <4>4, <4>5, <4>6
      <3>7. EventAt(b, k)'.dest = n /\ DOMAIN processed'[b] = 1 .. i - 1
            /\ Out(processed'[b][k], EventAt(b, k)') = out
            /\ Len(processed'[b]) + 1 = i
        BY <1>2, <2>2, <3>4 DEF n, out
      <3>8. (\A l \in DOMAIN processed'[b] :
                k + 1 <= l /\ l < Len(processed'[b]) + 1 => EventAt(b, l)'.dest # n)
             => lps'[n] = out
        BY <2>2, <3>6, <3>7
      <3>9. \A j \in DOMAIN processed'[b] :
                /\ k < j /\ EventAt(b, j)'.dest = n
                /\ \A l \in DOMAIN processed'[b] :
                      k + 1 <= l /\ l < j => EventAt(b, l)'.dest # n
                => processed'[b][j].before = out
        BY <2>2, <3>5, <3>7
      <3> QED
        BY <3>7, <3>8, <3>9
    <2> QED
      BY <2>1, <2>2
  <1> QED
    BY <1>6 DEF ChainInv, NoneOf, Out

\* c are the channels once the message is off its own and before p cancels anything.
Off(c, q, p, i) ==
    /\ Sends(c, channel', p, Cancelled(p, i), "cancelled")
    /\ c[<<q, p>>] = Tail(channel[<<q, p>>])
    /\ \A a, b \in PEs :
          /\ <<a, b>> # <<q, p>> => c[<<a, b>>] = channel[<<a, b>>]
          /\ IsSeq(c[<<a, b>>])
          /\ \A k \in DOMAIN c[<<a, b>>] :
                \E j \in DOMAIN channel[<<a, b>>] : c[<<a, b>>][k] = channel[<<a, b>>][j]

LEMMA TakenOff ==
    ASSUME NEW S, IInv(S), NEW p \in PEs, NEW q \in PEs, NEW i, NEW m, Takes(q, p, i, m)
    PROVE  \E c : Off(c, q, p, i)
  <1> DEFINE c == [channel EXCEPT ![<<q, p>>] = Tail(@)]
             s == channel[<<q, p>>]
  <1>1. /\ channel = [pair \in PEs \X PEs |-> channel[pair]]
        /\ \A a, b \in PEs : IsSeq(channel[<<a, b>>])
    BY DEF IInv, ChannelInv
  <1>2. c[<<q, p>>] = Tail(s)
    BY <1>1
  <1>3. \A a, b \in PEs : <<a, b>> # <<q, p>> => c[<<a, b>>] = channel[<<a, b>>]
    BY <1>1
  <1>4. /\ IsSeq(Tail(s))
        /\ \A k \in DOMAIN Tail(s) : \E j \in DOMAIN s : Tail(s)[k] = s[j]
    <2>1. IsSeq(s) /\ s # <<>>
      BY <1>1 DEF Takes
    <2> HIDE DEF s
    <2>2. /\ IsSeq(Tail(s)) /\ Len(s) \in Nat /\ DOMAIN s = 1 .. Len(s)
          /\ DOMAIN Tail(s) = 1 .. Len(s) - 1
          /\ \A k \in 1 .. Len(s) - 1 : Tail(s)[k] = s[k + 1]
      BY <2>1, SeqTail, SeqShape
    <2>3. \A k \in 1 .. Len(s) - 1 : k + 1 \in 1 .. Len(s)
      BY <2>2
    <2> QED
      BY <2>2, <2>3
  <1>5. Sends(c, channel', p, Cancelled(p, i), "cancelled")
    BY DEF Takes
  <1>6. \A a, b \in PEs :
           /\ IsSeq(c[<<a, b>>])
           /\ \A k \in DOMAIN c[<<a, b>>] :
                 \E j \in DOMAIN channel[<<a, b>>] : c[<<a, b>>][k] = channel[<<a, b>>][j]
    <2> SUFFICES ASSUME NEW a \in PEs, NEW b \in PEs
                 PROVE  /\ IsSeq(c[<<a, b>>])
                        /\ \A k \in DOMAIN c[<<a, b>>] :
                              \E j \in DOMAIN channel[<<a, b>>] :
                                  c[<<a, b>>][k] = channel[<<a, b>>][j]
      OBVIOUS
    <2>1. CASE <<a, b>> = <<q, p>>
      BY <1>2, <1>4, <2>1
    <2>2. CASE <<a, b>> # <<q, p>>
      <3>1. c[<<a, b>>] = channel[<<a, b>>]
        BY <1>3, <2>2
      <3> HIDE DEF c
      <3> QED
        BY <1>1, <3>1
    <2> QED
      BY <2>1, <2>2
  <1> HIDE DEF c
  <1>7. Off(c, q, p, i)
    BY <1>2, <1>3, <1>5, <1>6 DEF Off
  <1> QED
    BY <1>7

LEMMA TakesChannel ==
    ASSUME NEW S, NeuronModel(S), IInv(S), NEW p \in PEs, NEW q \in PEs, NEW i, NEW m,
           Takes(q, p, i, m)
    PROVE  ChannelInv'
  <1>0. PICK c : Off(c, q, p, i)
    BY TakenOff
  <1>1. Sends(c, channel', p, Cancelled(p, i), "cancelled")
    BY <1>0 DEF Off
  <1>2. i \in 1 .. Len(processed[p]) + 1 /\ q # p
    BY DEF Takes
  <1>3. \A x \in Cancelled(p, i) : InRun(x) /\ Sender(x) = p
    BY <1>2, CancelledEvents
  <1>4. channel' = [pair \in PEs \X PEs |-> channel'[pair]]
    BY <1>1 DEF Sends
  <1>5. \A a \in PEs : channel'[<<a, a>>] = <<>>
    <2> SUFFICES ASSUME NEW a \in PEs PROVE channel'[<<a, a>>] = <<>>
      OBVIOUS
    <2>1. channel'[<<a, a>>] = c[<<a, a>>]
      BY <1>1 DEF Sends
    <2>2. <<a, a>> # <<q, p>>
      BY <1>2
    <2>3. c[<<a, a>>] = channel[<<a, a>>]
      BY <1>0, <2>2 DEF Off
    <2>4. channel[<<a, a>>] = <<>>
      BY DEF IInv, ChannelInv
    <2> QED
      BY <2>1, <2>3, <2>4
  <1>6. ASSUME NEW a \in PEs, NEW b \in PEs
        PROVE  /\ IsSeq(channel'[<<a, b>>])
               /\ \A k \in DOMAIN channel'[<<a, b>>] :
                     IsMessage(channel'[<<a, b>>][k], a, b)
    <2>1. \A k \in DOMAIN channel[<<a, b>>] : IsMessage(channel[<<a, b>>][k], a, b)
      BY DEF IInv, ChannelInv
    <2>2. IsSeq(c[<<a, b>>])
      BY <1>0 DEF Off
    <2>3. IsSeq(channel'[<<a, b>>])
      BY <1>1, <2>2, SendsSeq
    <2>4. ASSUME NEW k \in DOMAIN channel'[<<a, b>>]
          PROVE  IsMessage(channel'[<<a, b>>][k], a, b)
      <3> DEFINE n == channel'[<<a, b>>][k]
      <3>1. \/ k \in DOMAIN c[<<a, b>>] /\ n = c[<<a, b>>][k]
            \/ /\ a = p /\ n.event \in Local(b, Cancelled(p, i))
               /\ n = Message(n.event, n.anti) /\ n.anti \in BOOLEAN
        BY <1>1, <2>2, SentOn
      <3> HIDE DEF n
      <3>2. CASE k \in DOMAIN c[<<a, b>>] /\ n = c[<<a, b>>][k]
        <4>1. PICK j \in DOMAIN channel[<<a, b>>] : n = channel[<<a, b>>][j]
          BY <1>0, <3>2 DEF Off
        <4> QED
          BY <2>1, <4>1 DEF n
      <3>3. CASE /\ a = p /\ n.event \in Local(b, Cancelled(p, i))
                 /\ n = Message(n.event, n.anti) /\ n.anti \in BOOLEAN
        BY <1>3, <3>3 DEF Local, IsMessage, n
      <3> QED
        BY <3>1, <3>2, <3>3
    <2> QED
      BY <2>3, <2>4
  <1> QED
    BY <1>4, <1>5, <1>6 DEF ChannelInv

LEMMA TakesDelivery ==
    ASSUME NEW S, NeuronModel(S), IInv(S), NEW p \in PEs, NEW q \in PEs, NEW i, NEW m,
           Takes(q, p, i, m)
    PROVE  DeliveryInv'
  <1> SUFFICES ASSUME NEW x, InRun(x)
               PROVE  Delivers(channel'[<<Sender(x), PEOf[x.dest]>>], x,
                               There(PEOf[x.dest])', Wanted(Sender(x))')
    BY DEF DeliveryInv, Agreed
  <1>1. PICK a \in PEs : a = Sender(x)
    BY RouteOf
  <1>2. PICK b \in PEs : b = PEOf[x.dest]
    BY RouteOf
  <1>3. Delivers(channel[<<a, b>>], x, There(b), Wanted(a))
    BY <1>1, <1>2 DEF IInv, DeliveryInv, Agreed
  <1>4. PICK c : Off(c, q, p, i)
    BY TakenOff
  <1>12. Sends(c, channel', p, Cancelled(p, i), "cancelled")
    BY <1>4 DEF Off
  <1>5. /\ There(p)' = Arriving(m, There(p)) \ Cancelled(p, i)
        /\ Wanted(p)' = Wanted(p) \ Cancelled(p, i)
        /\ \A d \in PEs : d # p => There(d)' = There(d) /\ Wanted(d)' = Wanted(d)
    BY TakesThere
  <1>6. /\ q # p /\ i \in 1 .. Len(processed[p]) + 1
        /\ m = channel[<<q, p>>][1] /\ channel[<<q, p>>] # <<>>
        /\ m.anti <=> m.event \in There(p)
        /\ Sender(m.event) = q /\ PEOf[m.event.dest] = p /\ m.anti \in BOOLEAN
    BY DEF Takes, IsMessage
  <1>7. \A z \in Cancelled(p, i) : Sender(z) = p /\ z \in Wanted(p)
    BY <1>6, CancelledEvents
  <1>8. CASE a = q /\ b = p
    <2>1. x \notin Cancelled(p, i)
      BY <1>1, <1>6, <1>7, <1>8
    <2>2. x \in There(p)' <=> IF channel[<<q, p>>][1].event = x THEN x \notin There(p) ELSE x \in There(p)
      <3>1. x \in There(p)' <=> x \in Arriving(m, There(p))
        BY <1>5, <2>1
      <3>2. CASE m.event = x
        BY <1>6, <3>1, <3>2 DEF Arriving
      <3>3. CASE m.event # x
        BY <1>6, <3>1, <3>3 DEF Arriving
      <3> QED
        BY <1>6, <3>2, <3>3
    <2>3. IsSeq(channel[<<q, p>>])
      BY DEF IInv, ChannelInv
    <2>4. Delivers(channel[<<q, p>>], x, There(p), Wanted(q))
      BY <1>3, <1>8
    <2>5. Delivers(Tail(channel[<<q, p>>]), x, There(p)', Wanted(q))
      BY <1>6, <2>2, <2>3, <2>4, DeliversTail
    <2>6. channel'[<<q, p>>] = Tail(channel[<<q, p>>])
      BY <1>4, <1>6, <1>12 DEF Sends, Off
    <2>7. Wanted(q)' = Wanted(q)
      BY <1>5, <1>6
    <2> QED
      BY <1>1, <1>2, <1>8, <2>5, <2>6, <2>7
  <1>9. CASE a = p /\ b = p
    <2>1. x \in There(p) <=> x \in Wanted(p)
      BY <1>1, <1>2, <1>9, Own
    <2>2. x # m.event
      BY <1>1, <1>6, <1>9
    <2>3. x \in There(p)' <=> x \in Wanted(p)'
      BY <1>5, <2>1, <2>2 DEF Arriving
    <2>4. channel'[<<p, p>>] = <<>>
      BY TakesChannel DEF ChannelInv
    <2>5. IsSeq(<<>>) /\ Len(<<>>) = 0
      BY <<>> \in Seq({}) DEF IsSeq
    <2> QED
      BY <1>1, <1>2, <1>9, <2>3, <2>4, <2>5, DeliversNothing
  <1>10. CASE a = p /\ b # p
    <2>1. c[<<p, b>>] = channel[<<p, b>>] /\ IsSeq(c[<<p, b>>])
      <3>1. <<p, b>> # <<q, p>>
        BY <1>6
      <3> QED
        BY <1>4, <3>1 DEF Off
    <2>2. x \in Cancelled(p, i) => (IsCancelling("cancelled") <=> x \in Wanted(p))
      BY <1>7 DEF IsCancelling
    <2>3. x \in Wanted(p)' <=> IF x \in Cancelled(p, i) THEN x \notin Wanted(p) ELSE x \in Wanted(p)
      BY <1>5, <1>7
    <2>4. There(b)' = There(b)
      BY <1>5, <1>10
    <2>5. Delivers(c[<<p, b>>], x, There(b), Wanted(p))
      BY <1>3, <1>10, <2>1
    <2>6. Delivers(channel'[<<p, b>>], x, There(b), Wanted(p)')
      <3> DEFINE E == Cancelled(p, i)
                 new == channel'
                 wanted == Wanted(p)
                 then == Wanted(p)'
                 there == There(b)
      <3>1. Sends(c, new, p, E, "cancelled")
        BY <1>12
      <3>2. x \in E => (IsCancelling("cancelled") <=> x \in wanted)
        BY <2>2
      <3>3. x \in then <=> IF x \in E THEN x \notin wanted ELSE x \in wanted
        BY <2>3
      <3>4. Delivers(c[<<p, b>>], x, there, wanted) /\ IsSeq(c[<<p, b>>]) /\ PEOf[x.dest] = b /\ b # p
        BY <1>2, <1>10, <2>1, <2>5
      <3> HIDE DEF E, new, wanted, then, there
      <3>5. Delivers(new[<<p, b>>], x, there, then)
        BY <3>1, <3>2, <3>3, <3>4, SendsDelivers
      <3> QED
        BY <3>5 DEF new, there, then
    <2> QED
      BY <1>1, <1>2, <1>10, <2>4, <2>6
  <1>11. CASE a # p /\ ~ (a = q /\ b = p)
    <2>1. <<a, b>> # <<q, p>>
      BY <1>11
    <2>2. channel'[<<a, b>>] = channel[<<a, b>>]
      BY <1>4, <1>11, <1>12, <2>1 DEF Sends, Off
    <2>3. x # m.event /\ x \notin Cancelled(p, i)
      BY <1>1, <1>2, <1>6, <1>7, <1>11
    <2>4. x \in There(b)' <=> x \in There(b)
      BY <1>5, <2>3 DEF Arriving
    <2>5. Wanted(a)' = Wanted(a)
      BY <1>5, <1>11
    <2> QED
      BY <1>1, <1>2, <1>3, <2>2, <2>4, <2>5, DeliversSame
  <1> QED
    BY <1>8, <1>9, <1>10, <1>11


\* A rollback leaves a heartbeat that was there before it; and it was sent by no record undone.
LEMMA TakesHeartbeats ==
    ASSUME NEW S, NeuronModel(S), IInv(S), NEW p \in PEs, NEW q \in PEs, NEW i, NEW m,
           Takes(q, p, i, m), NEW b \in PEs, NEW y \in There(b)', y.type = "heartbeat"
    PROVE  /\ y \in There(b)
           /\ b = p => y \notin Cancelled(p, i)
  <1>1. /\ There(p)' = Arriving(m, There(p)) \ Cancelled(p, i)
        /\ \A d \in PEs : d # p => There(d)' = There(d)
    BY TakesThere
  <1>2. m.event.type # "heartbeat"
    BY TakesState
  <1>3. y # m.event
    BY <1>2
  <1>4. CASE b # p
    BY <1>1, <1>4
  <1>5. CASE b = p
    BY <1>1, <1>3, <1>5 DEF Arriving
  <1> QED
    BY <1>4, <1>5

LEMMA TakesHeartbeat ==
    ASSUME NEW S, NeuronModel(S), IInv(S), NEW p \in PEs, NEW q \in PEs, NEW i, NEW m,
           Takes(q, p, i, m)
    PROVE  HeartbeatInv'
  <1>1. due' = due /\ trace' = trace
    BY DEF Takes
  <1>2. \A b \in PEs : \A x \in There(b)' : x.type = "heartbeat" => x \in There(b)
    BY TakesHeartbeats
  <1>3. \A b \in PEs : \A x \in There(b) :
           x.type = "heartbeat" =>
               /\ \A y \in There(b) :
                     y.type = "heartbeat" /\ y.dest = x.dest /\ y.time = x.time => y = x
               /\ \A t \in trace : t.neuron = x.dest => t.time < x.time
               /\ ~ SpikeDriven =>
                     \A y \in due : y.type = "heartbeat" /\ y.dest = x.dest => y.time <= x.time
    BY DEF IInv, HeartbeatInv
  <1> QED
    BY <1>1, <1>2, <1>3 DEF HeartbeatInv

LEMMA TakesRest ==
    ASSUME NEW S, NeuronModel(S), IInv(S), NEW p \in PEs, NEW q \in PEs, NEW i, NEW m,
           Takes(q, p, i, m)
    PROVE  DueInv' /\ HorizonInv'
  <1>1. horizon' = horizon /\ due' = due /\ trace' = trace
        /\ i \in 1 .. Len(processed[p]) + 1
        /\ channel[<<q, p>>] # <<>> /\ m = channel[<<q, p>>][1]
    BY DEF Takes
  <1>2. DueInv'
    BY <1>1 DEF IInv, DueInv
  <1>3. \A x \in Cancelled(p, i) : horizon <= x.time
    BY <1>1, CancelledEvents
  <1>4. /\ \A b \in PEs : \A f \in There(b) : horizon <= f.time
        /\ \A a, b \in PEs : \A k \in DOMAIN channel[<<a, b>>] :
              horizon <= channel[<<a, b>>][k].event.time
        /\ \A e \in due : horizon <= e.time
    BY DEF IInv, HorizonInv
  <1>5. horizon <= m.event.time
    <2>1. IsSeq(channel[<<q, p>>])
      BY DEF IInv, ChannelInv
    <2>2. 1 \in DOMAIN channel[<<q, p>>]
      BY <1>1, <2>1, SeqShape, SeqTail
    <2> QED
      BY <1>1, <1>4, <2>2
  <1>6. \A b \in PEs : \A f \in There(b)' : horizon <= f.time
    <2>1. /\ There(p)' = Arriving(m, There(p)) \ Cancelled(p, i)
          /\ \A b \in PEs : b # p => There(b)' = There(b)
      BY TakesThere
    <2>2. \A f \in Arriving(m, There(p)) : f \in There(p) \/ f = m.event
      BY DEF Arriving
    <2> QED
      BY <1>4, <1>5, <2>1, <2>2
  <1>7. PICK c : Off(c, q, p, i)
    BY TakenOff
  <1>8. Sends(c, channel', p, Cancelled(p, i), "cancelled")
    BY <1>7 DEF Off
  <1>9. ASSUME NEW a \in PEs, NEW b \in PEs, NEW k \in DOMAIN channel'[<<a, b>>]
        PROVE  horizon <= channel'[<<a, b>>][k].event.time
    <2> DEFINE n == channel'[<<a, b>>][k]
    <2>1. IsSeq(c[<<a, b>>])
      BY <1>7 DEF Off
    <2>2. \/ k \in DOMAIN c[<<a, b>>] /\ n = c[<<a, b>>][k]
          \/ n.event \in Local(b, Cancelled(p, i))
      BY <1>8, <2>1, SentOn
    <2> HIDE DEF n
    <2>3. CASE k \in DOMAIN c[<<a, b>>] /\ n = c[<<a, b>>][k]
      <3>1. PICK j \in DOMAIN channel[<<a, b>>] : n = channel[<<a, b>>][j]
        BY <1>7, <2>3 DEF Off
      <3> QED
        BY <1>4, <3>1 DEF n
    <2>4. CASE n.event \in Local(b, Cancelled(p, i))
      BY <1>3, <2>4 DEF Local, n
    <2> QED
      BY <2>2, <2>3, <2>4
  <1>10. HorizonInv'
    BY <1>1, <1>4, <1>6, <1>9 DEF HorizonInv
  <1> QED
    BY <1>2, <1>10

LEMMA TakesFlag ==
    ASSUME NEW S, NeuronModel(S), IInv(S), NEW p \in PEs, NEW q \in PEs, NEW i, NEW m,
           Takes(q, p, i, m)
    PROVE  FlagInv'
  <1> SUFFICES ASSUME SpikeDriven, NEW b \in PEs, NEW y \in There(b)', y.type = "heartbeat"
               PROVE  /\ y \in pending'[b] => lps'[y.dest].next_heartbeat_sent
                      /\ \A j \in DOMAIN processed'[b] :
                            /\ EventAt(b, j)'.dest = y.dest
                            /\ \A k \in DOMAIN processed'[b] :
                                  IF k < j THEN EventAt(b, k)' # y ELSE y \notin processed'[b][k].sent
                            => processed'[b][j].before.next_heartbeat_sent
    BY DEF FlagInv
  <1>1. PICK L \in Nat : L = Len(processed[p])
    BY TakesState
  <1>2. /\ DOMAIN processed[p] = 1 .. L
        /\ i \in 1 .. L + 1
        /\ DOMAIN processed'[p] = 1 .. i - 1
        /\ \A k \in 1 .. i - 1 : processed'[p][k] = processed[p][k]
        /\ \A c \in PEs : c # p => processed'[c] = processed[c] /\ pending'[c] = pending[c]
        /\ \A n \in Neurons : NoneOf(p, n, i, L + 1) => lps'[n] = lps[n]
        /\ \A j \in DOMAIN processed[p] :
              i <= j /\ NoneOf(p, EventAt(p, j).dest, i, j)
                  => lps'[EventAt(p, j).dest] = processed[p][j].before
        /\ \A n \in Neurons : PEOf[n] # p => lps'[n] = lps[n]
    BY <1>1, TakesState
  <1>3. /\ \A k \in 1 .. i - 1 : EventAt(p, k)' = EventAt(p, k)
        /\ \A c \in PEs : c # p => \A k : EventAt(c, k)' = EventAt(c, k)
    BY TakesThere
  <1>4. y \in There(b) /\ (b = p => y \notin Cancelled(p, i))
    BY TakesHeartbeats
  <1>5. /\ y \in pending[b] => lps[y.dest].next_heartbeat_sent
        /\ \A j \in DOMAIN processed[b] :
              /\ EventAt(b, j).dest = y.dest
              /\ \A k \in DOMAIN processed[b] :
                    IF k < j THEN EventAt(b, k) # y ELSE y \notin processed[b][k].sent
              => processed[b][j].before.next_heartbeat_sent
    BY <1>4 DEF IInv, FlagInv
  <1>6. y.dest \in Neurons /\ PEOf[y.dest] = b
    BY <1>4, ThereInRun
  <1>7. CASE b # p
    BY <1>2, <1>3, <1>5, <1>6, <1>7
  <1>8. CASE b = p
    <2>1. \A k \in i .. L : y \notin processed[p][k].sent
      BY <1>1, <1>4, <1>8 DEF Cancelled
    <2>2. ASSUME NEW j \in 1 .. i - 1, EventAt(p, j)'.dest = y.dest,
                 \A k \in 1 .. i - 1 :
                    IF k < j THEN EventAt(p, k)' # y ELSE y \notin processed'[p][k].sent
          PROVE  processed'[p][j].before.next_heartbeat_sent
      <3>1. j \in 1 .. L /\ EventAt(p, j).dest = y.dest /\ processed'[p][j] = processed[p][j]
        BY <1>2, <1>3, <2>2
      <3>2. ASSUME NEW k \in 1 .. L
            PROVE  IF k < j THEN EventAt(p, k) # y ELSE y \notin processed[p][k].sent
        <4>1. CASE k \in 1 .. i - 1
          BY <1>2, <1>3, <2>2, <4>1
        <4>2. CASE k \in i .. L
          <5>1. ~ (k < j)
            BY <1>2, <4>2
          <5> QED
            BY <2>1, <4>2, <5>1
        <4> QED
          BY <1>2, <4>1, <4>2
      <3> QED
        BY <1>2, <1>5, <1>8, <3>1, <3>2
    <2>3. ASSUME y \in pending'[p]
          PROVE  lps'[y.dest].next_heartbeat_sent
      <3>1. \A k \in 1 .. i - 1 : EventAt(p, k) # y
        <4>1. \A k \in 1 .. i - 1 : EventAt(p, k)' # y
          <5>1. OrderInv'
            BY TakesOrder
          <5>2. \A k \in DOMAIN processed'[p] : \A f \in pending'[p] : f # EventAt(p, k)'
            BY <5>1 DEF OrderInv
          <5> QED
            BY <1>2, <2>3, <5>2
        <4> QED
          BY <1>3, <4>1
      <3>2. i \in Nat
        BY <1>2
      <3>3. \/ NoneOf(p, y.dest, i, L + 1)
            \/ \E j \in DOMAIN processed[p] :
                  i <= j /\ EventAt(p, j).dest = y.dest /\ NoneOf(p, y.dest, i, j)
        BY <1>1, <3>2, FirstRecord
      <3>4. CASE NoneOf(p, y.dest, i, L + 1)
        <4>1. \A k \in 1 .. L : EventAt(p, k) # y
          <5>1. \A k \in 1 .. L : k \in 1 .. i - 1 \/ (i <= k /\ k < L + 1)
            BY <1>2
          <5> QED
            BY <1>2, <3>1, <3>4, <5>1 DEF NoneOf
        <4>2. y \in pending[p]
          BY <1>2, <1>4, <1>8, <4>1 DEF There
        <4> QED
          BY <1>2, <1>5, <1>6, <1>8, <3>4, <4>2
      <3>5. CASE \E j \in DOMAIN processed[p] :
                    i <= j /\ EventAt(p, j).dest = y.dest /\ NoneOf(p, y.dest, i, j)
        <4>1. PICK j \in DOMAIN processed[p] :
                    i <= j /\ EventAt(p, j).dest = y.dest /\ NoneOf(p, y.dest, i, j)
          BY <3>5
        <4>2. lps'[y.dest] = processed[p][j].before
          BY <1>2, <4>1
        <4>3. ASSUME NEW k \in 1 .. L
              PROVE  IF k < j THEN EventAt(p, k) # y ELSE y \notin processed[p][k].sent
          <5>1. CASE k \in 1 .. i - 1
            <6>1. k < j
              BY <1>2, <4>1, <5>1
            <6> QED
              BY <3>1, <5>1, <6>1
          <5>2. CASE k \in i .. L
            BY <1>2, <2>1, <4>1, <5>2 DEF NoneOf
          <5> QED
            BY <1>2, <5>1, <5>2
        <4> QED
          BY <1>2, <1>5, <1>8, <4>1, <4>2, <4>3
      <3> QED
        BY <3>3, <3>4, <3>5
    <2> QED
      BY <1>2, <1>8, <2>2, <2>3
  <1> QED
    BY <1>7, <1>8

LEMMA ReceiveInv ==
    ASSUME NEW S, NeuronModel(S), IInv(S), NEW p \in PEs, NEW q \in PEs,
           ReceiveEvent(q, p) \/ ReceiveAnti(q, p)
    PROVE  IInv(S)'
  <1>1. PICK i, m : Takes(q, p, i, m)
    BY ReceiveTakes
  <1>2. horizon' \in Nat /\ horizon' < End /\ \A t \in trace' : t.time \in Nat /\ t.time <= horizon'
    BY <1>1 DEF Takes, IInv
  <1>3. LPInv(S)' /\ PendingInv' /\ RecordInv(S)'
    BY <1>1, TakesRecords
  <1>4. OrderInv' /\ OnceInv' /\ ChainInv' /\ ChannelInv'
    BY <1>1, TakesOrder, TakesChain, TakesChannel
  <1>5. DeliveryInv' /\ HeartbeatInv' /\ FlagInv'
    BY <1>1, TakesDelivery, TakesHeartbeat, TakesFlag
  <1>6. DueInv' /\ HorizonInv'
    BY <1>1, TakesRest
  <1> QED
    BY <1>2, <1>3, <1>4, <1>5, <1>6 DEF IInv

-----------------------------------------------------------------------------
(* A commit.                                                                *)

\* What Commit(p) does when e is the event of the first record, r.
Settles(p, e, r) ==
    /\ processed[p] # <<>> /\ r = processed[p][1] /\ e = EventAt(p, 1)
    /\ InRun(e) /\ PEOf[e.dest] = p /\ e.time = horizon
    /\ e \in There(p) /\ e \in due
    /\ \A q \in PEs : \A k \in DOMAIN processed[q] : e \notin processed[q][k].sent
    /\ \A q, b \in PEs : \A k \in DOMAIN channel[<<q, b>>] : channel[<<q, b>>][k].event # e
    /\ \A b \in PEs : \A f \in There(b) : ~ Before(f, e)
    /\ \A f \in due : ~ Before(f, e)
    /\ processed' = [processed EXCEPT ![p] = Tail(@)]
    /\ due' = (due \ {e}) \cup r.sent
    /\ trace \subseteq trace'
    /\ \A t \in trace' \ trace : e.type = "heartbeat" /\ t.neuron = e.dest /\ t.time = e.time
    /\ e.type = "heartbeat" => \E t \in trace' : t.neuron = e.dest /\ t.time = e.time
    /\ trace' = trace \cup driver_neuron_event_commit(Handle(r.before, e).lp,
                                                     Handled(r.before, e), Saved(r.before))
    /\ UNCHANGED <<lps, pending, channel, horizon>>

\* An event that is due is there or on its way.
LEMMA DueIsSomewhere ==
    ASSUME NEW S, IInv(S), NEW e \in due
    PROVE  \/ \E b \in PEs : e \in There(b)
           \/ \E q, b \in PEs : \E k \in DOMAIN channel[<<q, b>>] : channel[<<q, b>>][k].event = e
  <1>1. InRun(e)
    BY DEF IInv, DueInv
  <1>2. Sender(e) \in PEs /\ PEOf[e.dest] \in PEs
    BY <1>1, RouteOf
  <1>3. e \in Wanted(Sender(e))
    BY DEF Wanted
  <1> QED
    BY <1>1, <1>2, <1>3, Arrived

LEMMA CommitSettles ==
    ASSUME NEW S, NeuronModel(S), IInv(S), NEW p \in PEs, Commit(p)
    PROVE  Settles(p, EventAt(p, 1), processed[p][1])
  <1> DEFINE r == processed[p][1]
             e == EventAt(p, 1)
  <1>1. /\ \A q \in PEs : IsSeq(processed[q])
        /\ \A q, b \in PEs : IsSeq(channel[<<q, b>>])
        /\ processed[p] # <<>>
    BY DEF IInv, RecordInv, ChannelInv, Commit
  <1>2. 1 \in DOMAIN processed[p] /\ Head(processed[p]) = r
    BY <1>1, SeqTail, SeqShape
  <1>3. IsRecord(r, S) /\ InRun(e) /\ PEOf[e.dest] = p /\ e \in There(p) /\ e.time \in Nat
    BY <1>2, ThereInRun DEF IInv, RecordInv, There
  <1>4. /\ r.event.time = e.time
        /\ \A f : /\ Before(f, r.event) <=> Before(f, e)
                  /\ Before(r.event, f) <=> Before(e, f)
    BY <1>3, RecordOrder DEF EventAt
  <1>5. AsSent(r.event) = e
    BY DEF EventAt, Event
  <1> HIDE DEF e
  <1>6. /\ e.time = horizon
        /\ \A f \in Unsettled : f.time > e.time
        /\ \A q \in PEs : \A f \in HandledBy(q) : ~ Before(f, e)
        /\ processed' = [processed EXCEPT ![p] = Tail(@)]
        /\ due' = (due \ {e}) \cup r.sent
        /\ trace' = trace \cup driver_neuron_event_commit(lps[r.event.dest], r.event, r.saved)
        /\ UNCHANGED <<lps, pending, channel, horizon>>
    <2> HIDE DEF r
    <2> QED
      BY <1>2, <1>4, <1>5 DEF Commit
  <1>7. ASSUME NEW q \in PEs, NEW b \in PEs, NEW k \in DOMAIN channel[<<q, b>>]
        PROVE  channel[<<q, b>>][k].event.time > e.time
    <2>1. channel[<<q, b>>][k] \in ToSet(channel[<<q, b>>]) /\ <<q, b>> \in PEs \X PEs
      BY DEF ToSet
    <2>2. channel[<<q, b>>][k].event \in InTransit
      BY <2>1 DEF InTransit
    <2> QED
      BY <1>6, <2>2 DEF Unsettled
  <1>8. ASSUME NEW q \in PEs, NEW k \in DOMAIN processed[q]
        PROVE  ~ Before(EventAt(q, k), e)
    <2>1. processed[q][k].event \in HandledBy(q)
      BY DEF HandledBy, ToSet
    <2>2. IsRecord(processed[q][k], S)
      BY DEF IInv, RecordInv
    <2>3. Before(processed[q][k].event, e) <=> Before(EventAt(q, k), e)
      BY <2>2, RecordOrder DEF EventAt
    <2> QED
      BY <1>6, <2>1, <2>3
  <1>9. ASSUME NEW f, f.time > e.time, f.time \in Nat
        PROVE  ~ Before(f, e)
    BY <1>3, <1>9 DEF Before
  <1>10. ASSUME NEW b \in PEs, NEW f \in There(b)
         PROVE  ~ Before(f, e)
    <2>1. CASE f \in pending[b]
      <3>1. f.time > e.time /\ f.time \in Nat
        BY <1>6, <2>1, ThereInRun DEF Unsettled, There
      <3> QED
        BY <1>9, <3>1
    <2>2. CASE \E k \in DOMAIN processed[b] : f = EventAt(b, k)
      BY <1>8, <2>2
    <2> QED
      BY <2>1, <2>2 DEF There
  <1>11. ASSUME NEW q \in PEs, NEW k \in DOMAIN processed[q]
         PROVE  e \notin processed[q][k].sent
    <2>1. EventAt(q, k).time \in Nat
      BY ThereInRun DEF There
    <2>2. e \in processed[q][k].sent => e.time > EventAt(q, k).time
      BY RecordEvents
    <2> QED
      BY <1>3, <1>8, <2>1, <2>2 DEF Before
  <1>12. \A q, b \in PEs : \A k \in DOMAIN channel[<<q, b>>] : channel[<<q, b>>][k].event # e
    <2> SUFFICES ASSUME NEW q \in PEs, NEW b \in PEs, NEW k \in DOMAIN channel[<<q, b>>]
                 PROVE  channel[<<q, b>>][k].event # e
      OBVIOUS
    <2>1. channel[<<q, b>>][k].event.time > e.time
      BY <1>7
    <2> QED
      BY <1>3, <2>1
  <1>13. e \in due
    <2>1. Sender(e) \in PEs /\ PEOf[e.dest] \in PEs
      BY <1>3, RouteOf
    <2>2. e \in Wanted(Sender(e))
      BY <1>3, <1>12, <2>1, Arrived
    <2> QED
      BY <1>11, <2>1, <2>2 DEF Wanted
  <1>14. ASSUME NEW f \in due
         PROVE  ~ Before(f, e)
    <2>1. CASE \E b \in PEs : f \in There(b)
      BY <1>10, <2>1
    <2>2. CASE \E q, b \in PEs : \E k \in DOMAIN channel[<<q, b>>] : channel[<<q, b>>][k].event = f
      <3>1. f.time > e.time
        BY <1>7, <2>2
      <3>2. f.time \in Nat
        BY DEF IInv, DueInv, InRun, IsEvent
      <3> QED
        BY <1>9, <3>1, <3>2
    <2> QED
      BY <2>1, <2>2, DueIsSomewhere
  <1>15. /\ trace \subseteq trace'
         /\ \A t \in trace' \ trace : e.type = "heartbeat" /\ t.neuron = e.dest /\ t.time = e.time
         /\ e.type = "heartbeat" => \E t \in trace' : t.neuron = e.dest /\ t.time = e.time
    <2>1. r.event.type = e.type /\ r.event.dest = e.dest
      <3>1. e = [type |-> e.type, dest |-> e.dest, time |-> e.time, current |-> e.current,
                 id |-> e.id, fired |-> e.fired]
        BY <1>3 DEF InRun, IsEvent
      <3>2. r.event = Handled(r.before, e)
        BY <1>3 DEF IsRecord, e, EventAt
      <3> QED
        BY <3>1, <3>2 DEF Handled
    <2> HIDE DEF r
    <2>2. CASE e.type = "heartbeat"
      <3> DEFINE t == [neuron |-> r.event.dest, time |-> r.event.time, fired |-> r.event.fired,
                       state |-> r.saved.reserved_for_reverse]
      <3>1. trace' = trace \cup {t}
        BY <1>6, <2>1, <2>2 DEF driver_neuron_event_commit
      <3>2. t.neuron = e.dest /\ t.time = e.time
        BY <1>4, <2>1
      <3> HIDE DEF t
      <3> QED
        BY <2>2, <3>1, <3>2
    <2>3. CASE e.type # "heartbeat"
      <3>1. trace' = trace
        BY <1>6, <2>1, <2>3 DEF driver_neuron_event_commit
      <3> QED
        BY <2>3, <3>1
    <2> QED
      BY <2>2, <2>3
  <1>16. e = EventAt(p, 1)
    BY DEF e
  <1>17. trace' = trace \cup driver_neuron_event_commit(Handle(r.before, e).lp,
                                                       Handled(r.before, e), Saved(r.before))
    <2>1. r.event = Handled(r.before, e) /\ r.saved = Saved(r.before)
      BY <1>3 DEF IsRecord, e, EventAt
    <2>2. driver_neuron_event_commit(lps[r.event.dest], r.event, r.saved)
            = driver_neuron_event_commit(Handle(r.before, e).lp, r.event, r.saved)
      BY DEF driver_neuron_event_commit
    <2> HIDE DEF r
    <2> QED
      BY <1>6, <2>1, <2>2
  <1> HIDE DEF r
  <1>18. Settles(p, e, r)
    <2>1. r = processed[p][1]
      BY DEF r
    <2> QED
      BY <1>1, <1>3, <1>6, <1>10, <1>11, <1>12, <1>13, <1>14, <1>15, <1>16, <1>17, <2>1 DEF Settles
  <1> QED
    BY <1>18 DEF e, r

LEMMA SettlesState ==
    ASSUME NEW S, NeuronModel(S), IInv(S), NEW p \in PEs, NEW e, NEW r, Settles(p, e, r)
    PROVE  /\ Len(processed[p]) - 1 \in Nat
           /\ DOMAIN processed[p] = 1 .. Len(processed[p])
           /\ processed' = [b \in PEs |-> processed'[b]]
           /\ IsSeq(processed'[p])
           /\ Len(processed'[p]) = Len(processed[p]) - 1
           /\ DOMAIN processed'[p] = 1 .. Len(processed[p]) - 1
           /\ \A k \in 1 .. Len(processed[p]) - 1 :
                 /\ k + 1 \in DOMAIN processed[p] /\ k + 1 # 1
                 /\ processed'[p][k] = processed[p][k + 1]
           /\ \A b \in PEs : b # p => processed'[b] = processed[b]
           /\ 1 \in DOMAIN processed[p]
           /\ IsRecord(r, S) /\ e = Event(r)
  <1> DEFINE s == processed[p]
  <1>1. IsSeq(s) /\ s # <<>> /\ processed = [b \in PEs |-> processed[b]]
    BY DEF IInv, RecordInv, Settles
  <1>2. processed' = [processed EXCEPT ![p] = Tail(@)]
    BY DEF Settles
  <1>3. /\ IsSeq(Tail(s))
        /\ Len(s) \in Nat /\ Len(s) > 0
        /\ Len(Tail(s)) = Len(s) - 1
        /\ DOMAIN Tail(s) = 1 .. Len(s) - 1
        /\ \A k \in 1 .. Len(s) - 1 : Tail(s)[k] = s[k + 1]
        /\ DOMAIN s = 1 .. Len(s)
    <2> HIDE DEF s
    <2> QED
      BY <1>1, SeqTail, SeqShape
  <1>4. /\ processed' = [b \in PEs |-> processed'[b]]
        /\ processed'[p] = Tail(s)
        /\ \A b \in PEs : b # p => processed'[b] = processed[b]
    BY <1>1, <1>2
  <1>5. /\ Len(s) - 1 \in Nat /\ 1 \in 1 .. Len(s)
        /\ \A k \in 1 .. Len(s) - 1 : k + 1 \in 1 .. Len(s) /\ k + 1 # 1
    <2> HIDE DEF s
    <2> QED
      BY <1>3
  <1>6. IsRecord(r, S) /\ e = Event(r)
    BY <1>3, <1>5 DEF Settles, EventAt, IInv, RecordInv
  <1> QED
    BY <1>3, <1>4, <1>5, <1>6

LEMMA SettlesThere ==
    ASSUME NEW S, NeuronModel(S), IInv(S), NEW p \in PEs, NEW e, NEW r, Settles(p, e, r)
    PROVE  /\ \A k \in 1 .. Len(processed[p]) - 1 : EventAt(p, k)' = EventAt(p, k + 1)
           /\ There(p)' = There(p) \ {e}
           /\ \A b \in PEs : b # p => There(b)' = There(b) /\ \A k : EventAt(b, k)' = EventAt(b, k)
           /\ \A b \in PEs : \A x :
                 Sender(x) = b => (x \in Wanted(b)' <=> x \in Wanted(b) /\ x # e)
           /\ \A x \in r.sent : Sender(x) = p
  <1>1. PICK n \in Nat : n = Len(processed[p]) - 1
    BY SettlesState
  <1>2. /\ DOMAIN processed[p] = 1 .. n + 1
        /\ DOMAIN processed'[p] = 1 .. n
        /\ \A k \in 1 .. n : k + 1 \in 1 .. n + 1 /\ k + 1 # 1 /\ processed'[p][k] = processed[p][k + 1]
        /\ \A b \in PEs : b # p => processed'[b] = processed[b]
        /\ 1 \in 1 .. n + 1
    <2>1. Len(processed[p]) = n + 1
      BY <1>1, SettlesState
    <2> QED
      BY <1>1, <2>1, SettlesState
  <1>3. pending' = pending /\ due' = (due \ {e}) \cup r.sent /\ e = EventAt(p, 1) /\ r = processed[p][1]
        /\ \A q \in PEs : \A k \in DOMAIN processed[q] : e \notin processed[q][k].sent
    BY DEF Settles
  <1>4. \A k \in 1 .. n : EventAt(p, k)' = EventAt(p, k + 1)
    BY <1>2 DEF EventAt, Event, AsSent
  <1>5. \A k \in 1 .. n + 1 : k = 1 \/ \E j \in 1 .. n : k = j + 1
    <2> SUFFICES ASSUME NEW k \in 1 .. n + 1, k # 1 PROVE \E j \in 1 .. n : k = j + 1
      OBVIOUS
    <2>1. k - 1 \in 1 .. n /\ k = (k - 1) + 1
      OBVIOUS
    <2> QED
      BY <2>1
  <1>6. There(p)' = There(p) \ {e}
    <2>1. /\ \A f \in pending[p] : f # e
          /\ \A j \in 1 .. n + 1 : 1 < j => EventAt(p, j) # e
      BY <1>2, <1>3 DEF IInv, OrderInv
    <2>2. \A j \in 1 .. n : EventAt(p, j + 1) # e
      BY <1>2, <2>1
    <2>3. There(p)' = pending[p] \cup {EventAt(p, k + 1) : k \in 1 .. n}
      BY <1>2, <1>3, <1>4 DEF There
    <2>4. There(p) = pending[p] \cup {EventAt(p, k) : k \in 1 .. n + 1}
      BY <1>2 DEF There
    <2>5. {EventAt(p, k + 1) : k \in 1 .. n} = {EventAt(p, k) : k \in 1 .. n + 1} \ {e}
      BY <1>2, <1>3, <1>5, <2>2
    <2> QED
      BY <2>1, <2>3, <2>4, <2>5
  <1>7. \A b \in PEs : b # p => There(b)' = There(b) /\ \A k : EventAt(b, k)' = EventAt(b, k)
    BY <1>2, <1>3 DEF There, EventAt
  <1>8. \A x \in r.sent : Sender(x) = p
    BY <1>2, <1>3, RecordEvents
  <1>9. ASSUME NEW b \in PEs, NEW x, Sender(x) = b
        PROVE  x \in Wanted(b)' <=> x \in Wanted(b) /\ x # e
    <2>1. CASE b # p
      <3>1. /\ Wanted(b)' = due' \cup UNION {processed[b][k].sent : k \in DOMAIN processed[b]}
            /\ Wanted(b) = due \cup UNION {processed[b][k].sent : k \in DOMAIN processed[b]}
        BY <1>2, <2>1 DEF Wanted
      <3> QED
        BY <1>3, <1>8, <1>9, <2>1, <3>1
    <2>2. CASE b = p
      <3>1. x \in Wanted(p)' <=> x \in due' \/ \E k \in 1 .. n : x \in processed[p][k + 1].sent
        <4>1. x \in Wanted(p)' <=> x \in due' \/ \E k \in 1 .. n : x \in processed'[p][k].sent
          BY <1>2 DEF Wanted
        <4> QED
          BY <1>2, <4>1
      <3>2. x \in Wanted(p) <=> \/ x \in due \/ x \in r.sent
                               \/ \E k \in 1 .. n : x \in processed[p][k + 1].sent
        <4>1. x \in Wanted(p) <=> x \in due \/ \E k \in 1 .. n + 1 : x \in processed[p][k].sent
          BY <1>2 DEF Wanted
        <4> QED
          BY <1>2, <1>3, <1>5, <4>1
      <3>3. x = e => /\ x \notin r.sent
                     /\ \A k \in 1 .. n : x \notin processed[p][k + 1].sent
        BY <1>2, <1>3
      <3> QED
        BY <1>3, <2>2, <3>1, <3>2, <3>3
    <2> QED
      BY <2>1, <2>2
  <1> QED
    BY <1>1, <1>4, <1>6, <1>7, <1>8, <1>9

LEMMA SettlesRecords ==
    ASSUME NEW S, NeuronModel(S), IInv(S), NEW p \in PEs, NEW e, NEW r, Settles(p, e, r)
    PROVE  LPInv(S)' /\ PendingInv' /\ RecordInv(S)' /\ ChannelInv'
  <1>1. lps' = lps /\ pending' = pending /\ channel' = channel
    BY DEF Settles
  <1>2. LPInv(S)' /\ PendingInv' /\ ChannelInv'
    BY <1>1 DEF IInv, LPInv, PendingInv, ChannelInv
  <1>3. PICK n \in Nat : n = Len(processed[p]) - 1
    BY SettlesState
  <1>4. /\ processed' = [b \in PEs |-> processed'[b]]
        /\ IsSeq(processed'[p])
        /\ DOMAIN processed'[p] = 1 .. n
        /\ \A k \in 1 .. n : k + 1 \in DOMAIN processed[p] /\ processed'[p][k] = processed[p][k + 1]
        /\ \A b \in PEs : b # p => processed'[b] = processed[b]
    BY <1>3, SettlesState
  <1>5. /\ \A k \in 1 .. n : EventAt(p, k)' = EventAt(p, k + 1)
        /\ \A b \in PEs : b # p => \A k : EventAt(b, k)' = EventAt(b, k)
    BY <1>3, SettlesThere
  <1>6. \A b \in PEs : /\ IsSeq(processed[b])
                       /\ \A k \in DOMAIN processed[b] :
                             IsRecord(processed[b][k], S) /\ PEOf[EventAt(b, k).dest] = b
    BY DEF IInv, RecordInv
  <1>7. ASSUME NEW b \in PEs
        PROVE  /\ IsSeq(processed'[b])
               /\ \A k \in DOMAIN processed'[b] :
                     IsRecord(processed'[b][k], S) /\ PEOf[EventAt(b, k)'.dest] = b
    <2>1. CASE b # p
      BY <1>4, <1>5, <1>6, <2>1
    <2>2. CASE b = p
      BY <1>4, <1>5, <1>6, <2>2
    <2> QED
      BY <2>1, <2>2
  <1>8. RecordInv(S)'
    BY <1>4, <1>7 DEF RecordInv
  <1> QED
    BY <1>2, <1>8

LEMMA SettlesOrder ==
    ASSUME NEW S, NeuronModel(S), IInv(S), NEW p \in PEs, NEW e, NEW r, Settles(p, e, r)
    PROVE  OrderInv'
  <1>1. PICK n \in Nat : n = Len(processed[p]) - 1
    BY SettlesState
  <1>2. /\ DOMAIN processed'[p] = 1 .. n
        /\ \A k \in 1 .. n : k + 1 \in DOMAIN processed[p]
        /\ \A b \in PEs : b # p => processed'[b] = processed[b]
    BY <1>1, SettlesState
  <1>3. /\ \A k \in 1 .. n : EventAt(p, k)' = EventAt(p, k + 1)
        /\ \A b \in PEs : b # p => \A k : EventAt(b, k)' = EventAt(b, k)
    BY <1>1, SettlesThere
  <1>4. pending' = pending
    BY DEF Settles
  <1>5. \A b \in PEs : \A i \in DOMAIN processed[b] :
           /\ \A j \in DOMAIN processed[b] :
                 i < j => ~ Before(EventAt(b, j), EventAt(b, i)) /\ EventAt(b, j) # EventAt(b, i)
           /\ \A f \in pending[b] : ~ Before(f, EventAt(b, i)) /\ f # EventAt(b, i)
    BY DEF IInv, OrderInv
  <1>6. ASSUME NEW b \in PEs, NEW i \in DOMAIN processed'[b]
        PROVE  /\ \A j \in DOMAIN processed'[b] :
                     i < j => ~ Before(EventAt(b, j)', EventAt(b, i)') /\ EventAt(b, j)' # EventAt(b, i)'
               /\ \A f \in pending'[b] : ~ Before(f, EventAt(b, i)') /\ f # EventAt(b, i)'
    <2>1. CASE b # p
      BY <1>2, <1>3, <1>4, <1>5, <2>1
    <2>2. CASE b = p
      <3>1. \A j \in 1 .. n : i < j => i + 1 < j + 1
        BY <1>2, <2>2
      <3>2. i \in 1 .. n
        BY <1>2, <2>2
      <3>3. \A j \in 1 .. n : i < j =>
               ~ Before(EventAt(p, j + 1), EventAt(p, i + 1)) /\ EventAt(p, j + 1) # EventAt(p, i + 1)
        BY <1>2, <1>5, <3>1, <3>2
      <3>4. \A f \in pending[p] : ~ Before(f, EventAt(p, i + 1)) /\ f # EventAt(p, i + 1)
        BY <1>2, <1>5, <3>2
      <3> QED
        BY <1>2, <1>3, <1>4, <2>2, <3>2, <3>3, <3>4
    <2> QED
      BY <2>1, <2>2
  <1> QED
    BY <1>6 DEF OrderInv, Before, Priority

LEMMA SettlesChain ==
    ASSUME NEW S, NeuronModel(S), IInv(S), NEW p \in PEs, NEW e, NEW r, Settles(p, e, r)
    PROVE  ChainInv'
  <1> DEFINE Out(rec, ev) == Handle(rec.before, ev).lp
  <1>1. PICK n \in Nat : n = Len(processed[p]) - 1
    BY SettlesState
  <1>2. /\ DOMAIN processed'[p] = 1 .. n
        /\ Len(processed'[p]) = n
        /\ \A k \in 1 .. n : k + 1 \in DOMAIN processed[p] /\ processed'[p][k] = processed[p][k + 1]
        /\ \A b \in PEs : b # p => processed'[b] = processed[b]
    BY <1>1, SettlesState
  <1>3. Len(processed[p]) = n + 1 /\ DOMAIN processed[p] = 1 .. n + 1
    <2>1. Len(processed[p]) = n + 1
      BY <1>1, SettlesState
    <2> QED
      BY <2>1, SettlesState
  <1>4. /\ \A k \in 1 .. n : EventAt(p, k)' = EventAt(p, k + 1)
        /\ \A b \in PEs : b # p => \A k : EventAt(b, k)' = EventAt(b, k)
    BY <1>1, SettlesThere
  <1>5. lps' = lps
    BY DEF Settles
  <1>6. \A b \in PEs : \A k \in DOMAIN processed[b] :
           /\ \A j \in DOMAIN processed[b] :
                 /\ k < j /\ EventAt(b, j).dest = EventAt(b, k).dest
                 /\ NoneOf(b, EventAt(b, k).dest, k + 1, j)
                 => processed[b][j].before = Out(processed[b][k], EventAt(b, k))
           /\ NoneOf(b, EventAt(b, k).dest, k + 1, Len(processed[b]) + 1)
                 => lps[EventAt(b, k).dest] = Out(processed[b][k], EventAt(b, k))
    BY DEF IInv, ChainInv
  <1> HIDE DEF Out
  <1>7. ASSUME NEW x, NEW i \in Nat, i > 0, NEW j \in Nat,
               \A l \in 1 .. n : i <= l /\ l < j => EventAt(p, l)'.dest # x
        PROVE  NoneOf(p, x, i + 1, j + 1)
    <2> SUFFICES ASSUME NEW k \in 1 .. n + 1, i + 1 <= k, k < j + 1
                 PROVE  EventAt(p, k).dest # x
      BY <1>3 DEF NoneOf
    <2> DEFINE l == k - 1
    <2>1. l \in 1 .. n /\ i <= l /\ l < j /\ k = l + 1
      BY <1>7
    <2> HIDE DEF l
    <2> QED
      BY <1>4, <1>7, <2>1
  <1>8. ASSUME NEW b \in PEs, NEW k \in DOMAIN processed'[b]
        PROVE  /\ \A j \in DOMAIN processed'[b] :
                     /\ k < j /\ EventAt(b, j)'.dest = EventAt(b, k)'.dest
                     /\ \A l \in DOMAIN processed'[b] :
                           k + 1 <= l /\ l < j => EventAt(b, l)'.dest # EventAt(b, k)'.dest
                     => processed'[b][j].before = Out(processed'[b][k], EventAt(b, k)')
               /\ (\A l \in DOMAIN processed'[b] :
                      k + 1 <= l /\ l < Len(processed'[b]) + 1
                          => EventAt(b, l)'.dest # EventAt(b, k)'.dest)
                     => lps'[EventAt(b, k)'.dest] = Out(processed'[b][k], EventAt(b, k)')
    <2>1. CASE b # p
      BY <1>2, <1>4, <1>5, <1>6, <2>1 DEF NoneOf
    <2>2. CASE b = p
      <3> DEFINE x == EventAt(p, k + 1).dest
                 out == Out(processed[p][k + 1], EventAt(p, k + 1))
      <3>1. k \in 1 .. n /\ k + 1 \in 1 .. n + 1
        BY <1>2, <2>2
      <3>2. /\ \A j \in 1 .. n + 1 :
                  k + 1 < j /\ EventAt(p, j).dest = x /\ NoneOf(p, x, k + 1 + 1, j)
                      => processed[p][j].before = out
            /\ NoneOf(p, x, k + 1 + 1, n + 1 + 1) => lps[x] = out
        BY <1>3, <1>6, <3>1
      <3>3. EventAt(p, k)' = EventAt(p, k + 1) /\ processed'[p][k] = processed[p][k + 1]
        BY <1>2, <1>4, <3>1
      <3>4. Out(processed'[b][k], EventAt(b, k)') = out /\ EventAt(b, k)'.dest = x
        BY <2>2, <3>3
      <3> HIDE DEF x, out
      <3>5. ASSUME NEW j \in 1 .. n, k < j, EventAt(p, j)'.dest = x,
                   \A l \in 1 .. n : k + 1 <= l /\ l < j => EventAt(p, l)'.dest # x
            PROVE  processed'[p][j].before = out
        <4>1. /\ EventAt(p, j + 1).dest = x /\ processed'[p][j] = processed[p][j + 1]
              /\ j + 1 \in 1 .. n + 1 /\ k + 1 < j + 1
          BY <1>2, <1>4, <3>1, <3>5
        <4>2. NoneOf(p, x, k + 1 + 1, j + 1)
          <5> DEFINE i == k + 1
          <5>1. i \in Nat /\ i > 0 /\ j \in Nat
            BY <3>1
          <5>2. \A l \in 1 .. n : i <= l /\ l < j => EventAt(p, l)'.dest # x
            BY <3>5
          <5> HIDE DEF i
          <5>3. NoneOf(p, x, i + 1, j + 1)
            BY <1>7, <5>1, <5>2
          <5> QED
            BY <5>3 DEF i
        <4> QED
          BY <3>2, <4>1, <4>2
      <3>6. ASSUME \A l \in 1 .. n : k + 1 <= l /\ l < n + 1 => EventAt(p, l)'.dest # x
            PROVE  lps'[x] = out
        <4>1. NoneOf(p, x, k + 1 + 1, n + 1 + 1)
          <5> DEFINE i == k + 1
                     j == n + 1
          <5>1. i \in Nat /\ i > 0 /\ j \in Nat
            BY <3>1
          <5>2. \A l \in 1 .. n : i <= l /\ l < j => EventAt(p, l)'.dest # x
            BY <3>6
          <5> HIDE DEF i, j
          <5>3. NoneOf(p, x, i + 1, j + 1)
            BY <1>7, <5>1, <5>2
          <5> QED
            BY <5>3 DEF i, j
        <4> QED
          BY <1>5, <3>2, <4>1
      <3>7. DOMAIN processed'[b] = 1 .. n /\ Len(processed'[b]) = n
        BY <1>2, <2>2
      <3> QED
        BY <2>2, <3>4, <3>5, <3>6, <3>7
    <2> QED
      BY <2>1, <2>2
  <1> QED
    BY <1>8 DEF ChainInv, NoneOf, Out

LEMMA SettlesDelivery ==
    ASSUME NEW S, NeuronModel(S), IInv(S), NEW p \in PEs, NEW e, NEW r, Settles(p, e, r)
    PROVE  DeliveryInv'
  <1> SUFFICES ASSUME NEW x, InRun(x)
               PROVE  Delivers(channel'[<<Sender(x), PEOf[x.dest]>>], x,
                               There(PEOf[x.dest])', Wanted(Sender(x))')
    BY DEF DeliveryInv, Agreed
  <1>1. PICK a \in PEs : a = Sender(x)
    BY RouteOf
  <1>2. PICK b \in PEs : b = PEOf[x.dest]
    BY RouteOf
  <1>3. Delivers(channel[<<a, b>>], x, There(b), Wanted(a))
    BY <1>1, <1>2 DEF IInv, DeliveryInv, Agreed
  <1>4. channel' = channel /\ PEOf[e.dest] = p /\ \A k \in DOMAIN channel[<<a, b>>] : channel[<<a, b>>][k].event # e
    BY DEF Settles
  <1>5. /\ x \in Wanted(a)' <=> x \in Wanted(a) /\ x # e
        /\ There(p)' = There(p) \ {e}
        /\ b # p => There(b)' = There(b)
    BY <1>1, SettlesThere
  <1>6. CASE x # e
    <2>1. x \in Wanted(a)' <=> x \in Wanted(a)
      BY <1>5, <1>6
    <2>2. x \in There(b)' <=> x \in There(b)
      BY <1>5, <1>6
    <2>3. Delivers(channel[<<a, b>>], x, There(b)', Wanted(a)')
      <3> DEFINE there == There(b)
                 there2 == There(b)'
                 wanted == Wanted(a)
                 wanted2 == Wanted(a)'
                 c == channel[<<a, b>>]
      <3> HIDE DEF there, there2, wanted, wanted2, c
      <3>1. Delivers(c, x, there, wanted) /\ (x \in there2 <=> x \in there) /\ (x \in wanted2 <=> x \in wanted)
        BY <1>3, <2>1, <2>2 DEF there, there2, wanted, wanted2, c
      <3>2. Delivers(c, x, there2, wanted2)
        BY <3>1, DeliversSame
      <3> QED
        BY <3>2 DEF there2, wanted2, c
    <2> QED
      BY <1>1, <1>2, <1>4, <2>3
  <1>7. CASE x = e
    <2>1. x \notin Wanted(a)' /\ x \notin There(b)'
      BY <1>2, <1>4, <1>5, <1>7
    <2>2. IsSeq(channel[<<a, b>>])
      BY DEF IInv, ChannelInv
    <2>3. \A k \in 1 .. Len(channel[<<a, b>>]) : channel[<<a, b>>][k].event # x
      BY <1>4, <1>7, <2>2, SeqShape
    <2>4. Delivers(channel[<<a, b>>], x, There(b)', Wanted(a)')
      BY <2>1, <2>2, <2>3, DeliversNothing
    <2> QED
      BY <1>1, <1>2, <1>4, <2>4
  <1> QED
    BY <1>6, <1>7

\* The record that is committed, among those of its PE.
LEMMA SettledRecord ==
    ASSUME NEW S, NeuronModel(S), IInv(S), NEW p \in PEs, NEW e, NEW r, Settles(p, e, r)
    PROVE  /\ r.sent = Sent(Handle(r.before, e).sent)
           /\ \A k \in 1 .. Len(processed[p]) - 1 : r.sent \cap processed'[p][k].sent = {}
           /\ r.sent \cap due = {}
           /\ \A x \in r.sent :
                 /\ InRun(x) /\ Sender(x) = p
                 /\ x.time > e.time /\ x.time \in Nat
                 /\ x.type = "spike" =>
                       e.type = "heartbeat" /\ x.id.src = e.dest /\ x.id.at = e.time
                 /\ x.type = "heartbeat" =>
                       /\ x.dest = e.dest
                       /\ x.time = Prev(e.time) + Beat
                       /\ IF SpikeDriven THEN e.type = "spike" /\ ~ r.before.next_heartbeat_sent
                                         ELSE e.type = "heartbeat"
  <1>1. PICK n \in Nat : n = Len(processed[p]) - 1
    BY SettlesState
  <1>2. /\ 1 \in DOMAIN processed[p]
        /\ \A k \in 1 .. n : k + 1 \in DOMAIN processed[p] /\ k + 1 # 1
                             /\ processed'[p][k] = processed[p][k + 1]
        /\ IsRecord(r, S) /\ e = Event(r)
    BY <1>1, SettlesState
  <1>3. r = processed[p][1] /\ e = EventAt(p, 1)
    BY DEF Settles
  <1>4. \A k \in 1 .. n : r.sent \cap processed'[p][k].sent = {}
    <2>1. \A k \in DOMAIN processed[p] : 1 # k => processed[p][1].sent \cap processed[p][k].sent = {}
      BY <1>2 DEF IInv, OnceInv
    <2> QED
      BY <1>2, <1>3, <2>1
  <1>5. r.sent \cap due = {}
    BY <1>2, <1>3 DEF IInv, OnceInv
  <1>6. ASSUME NEW x \in r.sent
        PROVE  /\ InRun(x) /\ Sender(x) = p
               /\ x.time > e.time /\ x.time \in Nat
               /\ x.type = "spike" =>
                     e.type = "heartbeat" /\ x.id.src = e.dest /\ x.id.at = e.time
               /\ x.type = "heartbeat" =>
                     /\ x.dest = e.dest
                     /\ x.time = Prev(e.time) + Beat
                     /\ IF SpikeDriven THEN e.type = "spike" /\ ~ r.before.next_heartbeat_sent
                                       ELSE e.type = "heartbeat"
    <2>1. x \in processed[p][1].sent
      BY <1>3
    <2>2. /\ InRun(x) /\ Sender(x) = p
          /\ x.time > EventAt(p, 1).time
          /\ x.type = "spike" =>
                /\ EventAt(p, 1).type = "heartbeat"
                /\ x.id.src = EventAt(p, 1).dest /\ x.id.at = EventAt(p, 1).time
          /\ x.type = "heartbeat" =>
                /\ x.dest = EventAt(p, 1).dest
                /\ x.time = Prev(EventAt(p, 1).time) + Beat
                /\ IF SpikeDriven
                   THEN /\ EventAt(p, 1).type = "spike"
                        /\ ~ processed[p][1].before.next_heartbeat_sent
                   ELSE EventAt(p, 1).type = "heartbeat"
      BY <1>2, <2>1, RecordEvents
    <2>3. x.time \in Nat
      BY <2>2 DEF InRun, IsEvent
    <2> QED
      BY <1>3, <2>2, <2>3
  <1>7. r.sent = Sent(Handle(r.before, e).sent)
    BY <1>2 DEF IsRecord
  <1> QED
    BY <1>1, <1>4, <1>5, <1>6, <1>7

LEMMA SettlesOnce ==
    ASSUME NEW S, NeuronModel(S), IInv(S), NEW p \in PEs, NEW e, NEW r, Settles(p, e, r)
    PROVE  OnceInv'
  <1>1. PICK n \in Nat : n = Len(processed[p]) - 1
    BY SettlesState
  <1>2. /\ DOMAIN processed'[p] = 1 .. n
        /\ \A k \in 1 .. n : k + 1 \in DOMAIN processed[p] /\ processed'[p][k] = processed[p][k + 1]
        /\ \A b \in PEs : b # p => processed'[b] = processed[b]
    BY <1>1, SettlesState
  <1>3. /\ \A k \in 1 .. n : r.sent \cap processed'[p][k].sent = {}
        /\ \A x \in r.sent : Sender(x) = p
    BY <1>1, SettledRecord
  <1>4. due' = (due \ {e}) \cup r.sent
    BY DEF Settles
  <1>5. \A b \in PEs : \A i \in DOMAIN processed[b] :
           /\ processed[b][i].sent \cap due = {}
           /\ \A j \in DOMAIN processed[b] :
                 i # j => processed[b][i].sent \cap processed[b][j].sent = {}
    BY DEF IInv, OnceInv
  <1>6. ASSUME NEW b \in PEs, NEW i \in DOMAIN processed'[b]
        PROVE  /\ processed'[b][i].sent \cap due' = {}
               /\ \A j \in DOMAIN processed'[b] :
                     i # j => processed'[b][i].sent \cap processed'[b][j].sent = {}
    <2>1. CASE b # p
      <3>1. i \in DOMAIN processed[b] /\ processed'[b] = processed[b]
        BY <1>2, <2>1
      <3>2. \A x \in processed[b][i].sent : x \notin r.sent
        <4>1. \A x \in processed[b][i].sent : Sender(x) = b
          BY <3>1, RecordEvents
        <4> QED
          BY <1>3, <2>1, <4>1
      <3> QED
        BY <1>4, <1>5, <3>1, <3>2
    <2>2. CASE b = p
      <3>1. i \in 1 .. n /\ i + 1 \in DOMAIN processed[p] /\ processed'[p][i] = processed[p][i + 1]
        BY <1>2, <2>2
      <3>2. processed'[p][i].sent \cap due' = {}
        BY <1>3, <1>4, <1>5, <3>1
      <3>3. ASSUME NEW j \in 1 .. n, i # j
            PROVE  processed'[p][i].sent \cap processed'[p][j].sent = {}
        <4>1. j + 1 \in DOMAIN processed[p] /\ i + 1 # j + 1 /\ processed'[p][j] = processed[p][j + 1]
          BY <1>2, <3>1, <3>3
        <4> QED
          BY <1>5, <3>1, <4>1
      <3> QED
        BY <1>2, <2>2, <3>2, <3>3
    <2> QED
      BY <2>1, <2>2
  <1> QED
    BY <1>6 DEF OnceInv

\* A heartbeat after another one is a beat later at least.
LEMMA BeatApart ==
    ASSUME NEW t \in Nat, NEW u \in Nat, t % Beat = 0, u % Beat = 0, t < u
    PROVE  t + Beat <= u
  <1>1. PICK k \in Nat : t = k * Beat
    BY Multiple
  <1>2. PICK l \in Nat : u = l * Beat
    BY Multiple
  <1>3. CASE k < l
    BY <1>1, <1>2, <1>3, Product
  <1>4. CASE l < k
    <2>1. l * Beat + Beat <= k * Beat
      BY <1>4, Product
    <2> QED
      BY <1>1, <1>2, <2>1, DriverAssumption
  <1>5. CASE l = k
    BY <1>1, <1>2, <1>5
  <1> QED
    BY <1>3, <1>4, <1>5

LEMMA SettlesHeartbeat ==
    ASSUME NEW S, NeuronModel(S), IInv(S), NEW p \in PEs, NEW e, NEW r, Settles(p, e, r)
    PROVE  HeartbeatInv'
  <1>1. /\ There(p)' = There(p) \ {e}
        /\ \A b \in PEs : b # p => There(b)' = There(b)
    BY SettlesThere
  <1>2. /\ due' = (due \ {e}) \cup r.sent
        /\ \A t \in trace' \ trace : e.type = "heartbeat" /\ t.neuron = e.dest /\ t.time = e.time
        /\ InRun(e) /\ PEOf[e.dest] = p /\ e \in There(p) /\ e \in due
        /\ \A b \in PEs : \A f \in There(b) : ~ Before(f, e)
    BY DEF Settles
  <1>3. e.time \in Nat
    BY <1>2 DEF InRun, IsEvent
  <1>4. \A b \in PEs : \A x \in There(b) :
           x.type = "heartbeat" =>
               /\ \A y \in There(b) :
                     y.type = "heartbeat" /\ y.dest = x.dest /\ y.time = x.time => y = x
               /\ \A t \in trace : t.neuron = x.dest => t.time < x.time
               /\ ~ SpikeDriven =>
                     \A y \in due : y.type = "heartbeat" /\ y.dest = x.dest => y.time <= x.time
    BY DEF IInv, HeartbeatInv
  <1>5. ASSUME NEW b \in PEs, NEW x \in There(b)', x.type = "heartbeat"
        PROVE  /\ \A y \in There(b)' :
                     y.type = "heartbeat" /\ y.dest = x.dest /\ y.time = x.time => y = x
               /\ \A t \in trace' : t.neuron = x.dest => t.time < x.time
               /\ ~ SpikeDriven =>
                     \A y \in due' : y.type = "heartbeat" /\ y.dest = x.dest => y.time <= x.time
    <2>1. x \in There(b) /\ There(b)' \subseteq There(b) /\ (b = p => x # e)
      BY <1>1, <1>5
    <2>2. x.time \in Nat /\ PEOf[x.dest] = b /\ InRun(x)
      BY <2>1, ThereInRun
    <2>3. ASSUME e.type = "heartbeat", e.dest = x.dest
          PROVE  e.time < x.time
      <3>1. b = p /\ x # e
        BY <1>2, <2>1, <2>2, <2>3
      <3>2. x.time # e.time
        BY <1>2, <1>4, <1>5, <2>1, <2>3, <3>1
      <3>3. ~ Before(x, e)
        BY <1>2, <2>1
      <3> QED
        BY <1>3, <2>2, <3>2, <3>3 DEF Before
    <2>4. \A t \in trace' : t.neuron = x.dest => t.time < x.time
      BY <1>2, <1>4, <1>5, <2>1, <2>3
    <2>5. ASSUME ~ SpikeDriven, NEW y \in due', y.type = "heartbeat", y.dest = x.dest
          PROVE  y.time <= x.time
      <3>1. CASE y \in due
        BY <1>4, <1>5, <2>1, <2>5, <3>1
      <3>2. CASE y \in r.sent
        <4>1. y.dest = e.dest /\ e.type = "heartbeat" /\ y.time = Prev(e.time) + Beat
          BY <2>5, <3>2, SettledRecord
        <4>2. e.time < x.time
          BY <2>3, <2>5, <4>1
        <4>3. e.time % Beat = 0 /\ x.time % Beat = 0
          BY <1>2, <1>5, <2>2, <4>1 DEF InRun
        <4>4. e.time + Beat <= x.time
          BY <1>3, <2>2, <4>2, <4>3, BeatApart
        <4>5. Prev(e.time) = e.time
          BY <1>3, <4>3, PrevBeat
        <4> QED
          BY <4>1, <4>4, <4>5
      <3> QED
        BY <1>2, <2>5, <3>1, <3>2
    <2>6. \A y \in There(b)' :
             y.type = "heartbeat" /\ y.dest = x.dest /\ y.time = x.time => y = x
      BY <1>4, <1>5, <2>1
    <2> QED
      BY <2>4, <2>5, <2>6
  <1> QED
    BY <1>5 DEF HeartbeatInv

LEMMA SettlesFlag ==
    ASSUME NEW S, NeuronModel(S), IInv(S), NEW p \in PEs, NEW e, NEW r, Settles(p, e, r)
    PROVE  FlagInv'
  <1> SUFFICES ASSUME SpikeDriven, NEW b \in PEs, NEW y \in There(b)', y.type = "heartbeat"
               PROVE  /\ y \in pending'[b] => lps'[y.dest].next_heartbeat_sent
                      /\ \A j \in DOMAIN processed'[b] :
                            /\ EventAt(b, j)'.dest = y.dest
                            /\ \A k \in DOMAIN processed'[b] :
                                  IF k < j THEN EventAt(b, k)' # y ELSE y \notin processed'[b][k].sent
                            => processed'[b][j].before.next_heartbeat_sent
    BY DEF FlagInv
  <1>1. PICK n \in Nat : n = Len(processed[p]) - 1
    BY SettlesState
  <1>2. /\ DOMAIN processed'[p] = 1 .. n
        /\ \A k \in 1 .. n : k + 1 \in DOMAIN processed[p] /\ processed'[p][k] = processed[p][k + 1]
        /\ \A c \in PEs : c # p => processed'[c] = processed[c]
    BY <1>1, SettlesState
  <1>3. DOMAIN processed[p] = 1 .. n + 1
    <2>1. Len(processed[p]) = n + 1
      BY <1>1, SettlesState
    <2> QED
      BY <2>1, SettlesState
  <1>4. /\ \A k \in 1 .. n : EventAt(p, k)' = EventAt(p, k + 1)
        /\ There(p)' = There(p) \ {e}
        /\ \A c \in PEs : c # p => There(c)' = There(c) /\ \A k : EventAt(c, k)' = EventAt(c, k)
    BY <1>1, SettlesThere
  <1>5. lps' = lps /\ pending' = pending /\ e = EventAt(p, 1)
    BY DEF Settles
  <1>6. y \in There(b) /\ (b = p => y # e)
    BY <1>4
  <1>7. /\ y \in pending[b] => lps[y.dest].next_heartbeat_sent
        /\ \A j \in DOMAIN processed[b] :
              /\ EventAt(b, j).dest = y.dest
              /\ \A k \in DOMAIN processed[b] :
                    IF k < j THEN EventAt(b, k) # y ELSE y \notin processed[b][k].sent
              => processed[b][j].before.next_heartbeat_sent
    BY <1>6 DEF IInv, FlagInv
  <1>8. CASE b # p
    BY <1>2, <1>4, <1>5, <1>7, <1>8
  <1>9. CASE b = p
    <2>1. ASSUME NEW j \in 1 .. n, EventAt(p, j)'.dest = y.dest,
                 \A k \in 1 .. n :
                    IF k < j THEN EventAt(p, k)' # y ELSE y \notin processed'[p][k].sent
          PROVE  processed'[p][j].before.next_heartbeat_sent
      <3>1. /\ j + 1 \in DOMAIN processed[p] /\ EventAt(p, j + 1).dest = y.dest
            /\ processed'[p][j] = processed[p][j + 1]
        BY <1>2, <1>4, <2>1
      <3>2. ASSUME NEW k \in 1 .. n + 1
            PROVE  IF k < j + 1 THEN EventAt(p, k) # y ELSE y \notin processed[p][k].sent
        <4>1. CASE k = 1
          BY <1>5, <1>6, <1>9, <2>1, <4>1
        <4>2. CASE k # 1
          <5> DEFINE l == k - 1
          <5>1. l \in 1 .. n /\ k = l + 1 /\ (l < j <=> k < j + 1)
            BY <4>2
          <5> HIDE DEF l
          <5> QED
            BY <1>2, <1>4, <2>1, <5>1
        <4> QED
          BY <4>1, <4>2
      <3> QED
        BY <1>3, <1>7, <1>9, <3>1, <3>2
    <2> QED
      BY <1>2, <1>5, <1>7, <1>9, <2>1
  <1> QED
    BY <1>8, <1>9

LEMMA SettlesDue ==
    ASSUME NEW S, NeuronModel(S), IInv(S), NEW p \in PEs, NEW e, NEW r, Settles(p, e, r)
    PROVE  DueInv'
  <1>1. /\ due' = (due \ {e}) \cup r.sent
        /\ trace \subseteq trace'
        /\ e.type = "heartbeat" => \E t \in trace' : t.neuron = e.dest /\ t.time = e.time
        /\ InRun(e) /\ PEOf[e.dest] = p /\ e \in due
        /\ r = processed[p][1] /\ e = EventAt(p, 1)
    BY DEF Settles
  <1>2. /\ 1 \in DOMAIN processed[p]
        /\ DOMAIN processed[p] = 1 .. Len(processed[p])
    BY SettlesState
  <1>3. ASSUME NEW x \in r.sent
        PROVE  /\ InRun(x) /\ Sender(x) = p
               /\ x.type = "spike" =>
                     e.type = "heartbeat" /\ x.id.src = e.dest /\ x.id.at = e.time
               /\ x.type = "heartbeat" =>
                     /\ x.dest = e.dest
                     /\ IF SpikeDriven THEN e.type = "spike" /\ ~ r.before.next_heartbeat_sent
                                       ELSE e.type = "heartbeat"
    BY SettledRecord
  <1>4. \A x \in due :
           /\ InRun(x)
           /\ x.type = "spike" =>
                 x.id.at = 0 \/ \E t \in trace : t.neuron = x.id.src /\ t.time = x.id.at
           /\ \A f \in due :
                 x.type = "heartbeat" /\ f.type = "heartbeat" /\ f.dest = x.dest => f = x
    BY DEF IInv, DueInv
  <1>5. ASSUME NEW x \in r.sent, NEW y \in r.sent, x.type = "heartbeat", y.type = "heartbeat"
        PROVE  x = y
    <2>1. IF SpikeDriven THEN e.type = "spike" /\ ~ r.before.next_heartbeat_sent
                         ELSE e.type = "heartbeat"
      BY <1>3, <1>5
    <2>2. PICK h \in Handle(r.before, e).sent :
             \A g \in Handle(r.before, e).sent : g.type = "heartbeat" => g = h
      BY <1>1, <2>1, HandledHeartbeat DEF InRun
    <2>3. r.sent \subseteq Handle(r.before, e).sent
      BY SettledRecord DEF Sent
    <2> QED
      BY <1>5, <2>2, <2>3
  <1>6. ASSUME NEW x \in r.sent, NEW y \in due, y # e,
               x.type = "heartbeat", y.type = "heartbeat", y.dest = x.dest
        PROVE  FALSE
    <2>1. x.dest = e.dest /\ (IF SpikeDriven THEN e.type = "spike" /\ ~ r.before.next_heartbeat_sent
                                             ELSE e.type = "heartbeat")
      BY <1>3, <1>6
    <2>2. CASE ~ SpikeDriven
      BY <1>1, <1>4, <1>6, <2>1, <2>2
    <2>3. CASE SpikeDriven
      <3>1. InRun(y) /\ Sender(y) = p /\ PEOf[y.dest] = p
        BY <1>1, <1>4, <1>6, <2>1 DEF Sender
      <3>2. y \in There(p)
        BY <3>1, Own DEF Wanted
      <3>3. \A k \in DOMAIN processed[p] : y \notin processed[p][k].sent
        BY DEF IInv, OnceInv
      <3>4. \A k \in DOMAIN processed[p] :
               IF k < 1 THEN EventAt(p, k) # y ELSE y \notin processed[p][k].sent
        BY <1>2, <3>3
      <3>5. EventAt(p, 1).dest = y.dest
        BY <1>1, <1>6, <2>1
      <3>6. processed[p][1].before.next_heartbeat_sent
        BY <1>2, <1>6, <2>3, <3>2, <3>4, <3>5 DEF IInv, FlagInv
      <3> QED
        BY <1>1, <2>1, <2>3, <3>6
    <2> QED
      BY <2>2, <2>3
  <1>7. ASSUME NEW x \in due'
        PROVE  /\ InRun(x)
               /\ x.type = "spike" =>
                     x.id.at = 0 \/ \E t \in trace' : t.neuron = x.id.src /\ t.time = x.id.at
               /\ \A f \in due' :
                     x.type = "heartbeat" /\ f.type = "heartbeat" /\ f.dest = x.dest => f = x
    <2>1. CASE x \in due /\ x # e
      <3>1. InRun(x) /\ (x.type = "spike" =>
               x.id.at = 0 \/ \E t \in trace' : t.neuron = x.id.src /\ t.time = x.id.at)
        BY <1>1, <1>4, <2>1
      <3>2. ASSUME NEW f \in due', x.type = "heartbeat", f.type = "heartbeat", f.dest = x.dest
            PROVE  f = x
        <4>1. CASE f \in due
          BY <1>4, <2>1, <3>2, <4>1
        <4>2. CASE f \in r.sent
          BY <1>6, <2>1, <3>2, <4>2
        <4> QED
          BY <1>1, <3>2, <4>1, <4>2
      <3> QED
        BY <3>1, <3>2
    <2>2. CASE x \in r.sent
      <3>1. InRun(x) /\ (x.type = "spike" =>
               x.id.at = 0 \/ \E t \in trace' : t.neuron = x.id.src /\ t.time = x.id.at)
        BY <1>1, <1>3, <2>2
      <3>2. ASSUME NEW f \in due', x.type = "heartbeat", f.type = "heartbeat", f.dest = x.dest
            PROVE  f = x
        <4>1. CASE f \in due /\ f # e
          BY <1>6, <2>2, <3>2, <4>1
        <4>2. CASE f \in r.sent
          BY <1>5, <2>2, <3>2, <4>2
        <4> QED
          BY <1>1, <3>2, <4>1, <4>2
      <3> QED
        BY <3>1, <3>2
    <2> QED
      BY <1>1, <1>7, <2>1, <2>2
  <1> QED
    BY <1>7 DEF DueInv

LEMMA CommitInv ==
    ASSUME NEW S, NeuronModel(S), IInv(S), NEW p \in PEs, Commit(p)
    PROVE  IInv(S)'
  <1>1. PICK e, r : Settles(p, e, r)
    BY CommitSettles
  <1>2. /\ horizon' = horizon /\ horizon \in Nat /\ horizon < End
        /\ \A t \in trace' \ trace : t.time = e.time
        /\ e.time = horizon /\ channel' = channel
        /\ due' = (due \ {e}) \cup r.sent
    BY <1>1 DEF Settles, IInv
  <1>3. \A t \in trace' : t.time \in Nat /\ t.time <= horizon'
    <2>1. \A t \in trace : t.time \in Nat /\ t.time <= horizon
      BY DEF IInv
    <2> QED
      BY <1>2, <2>1
  <1>4. HorizonInv'
    <2>1. \A b \in PEs : There(b)' \subseteq There(b)
      BY <1>1, SettlesThere
    <2>2. \A x \in r.sent : x.time > e.time /\ x.time \in Nat
      BY <1>1, SettledRecord
    <2>3. \A x \in due' : horizon <= x.time
      <3>1. \A x \in due : horizon <= x.time
        BY DEF IInv, HorizonInv
      <3> QED
        BY <1>2, <2>2, <3>1
    <2>4. /\ \A b \in PEs : \A f \in There(b) : horizon <= f.time
          /\ \A a, b \in PEs : \A k \in DOMAIN channel[<<a, b>>] :
                horizon <= channel[<<a, b>>][k].event.time
      BY DEF IInv, HorizonInv
    <2> QED
      BY <1>2, <2>1, <2>3, <2>4 DEF HorizonInv
  <1>5. LPInv(S)' /\ PendingInv' /\ RecordInv(S)' /\ ChannelInv'
    BY <1>1, SettlesRecords
  <1>6. OrderInv' /\ OnceInv' /\ ChainInv' /\ DeliveryInv'
    BY <1>1, SettlesOrder, SettlesOnce, SettlesChain, SettlesDelivery
  <1>7. HeartbeatInv' /\ FlagInv' /\ DueInv'
    BY <1>1, SettlesHeartbeat, SettlesFlag, SettlesDue
  <1> QED
    BY <1>2, <1>3, <1>4, <1>5, <1>6, <1>7 DEF IInv

-----------------------------------------------------------------------------
(* The horizon.                                                             *)

LEMMA HorizonFar ==
    ASSUME NEW S, IInv(S), AdvanceHorizon
    PROVE  /\ \A b \in PEs : \A f \in There(b) : f.time > horizon
           /\ \A q, b \in PEs : \A k \in DOMAIN channel[<<q, b>>] :
                 channel[<<q, b>>][k].event.time > horizon
           /\ \A e \in due : e.time > horizon
  <1>1. \A f \in Unsettled \cup UNION {HandledBy(q) : q \in PEs} : f.time > horizon
    BY DEF AdvanceHorizon
  <1>2. ASSUME NEW b \in PEs, NEW f \in There(b)
        PROVE  f.time > horizon
    <2>1. CASE f \in pending[b]
      BY <1>1, <2>1 DEF Unsettled
    <2>2. CASE \E k \in DOMAIN processed[b] : f = EventAt(b, k)
      <3>1. PICK k \in DOMAIN processed[b] : f = EventAt(b, k)
        BY <2>2
      <3>2. IsRecord(processed[b][k], S)
        BY DEF IInv, RecordInv
      <3>3. processed[b][k].event \in HandledBy(b)
        BY DEF HandledBy, ToSet
      <3>4. processed[b][k].event.time > horizon
        BY <1>1, <3>3
      <3>5. processed[b][k].event.time = f.time
        BY <3>1, <3>2, RecordOrder DEF EventAt
      <3> QED
        BY <3>4, <3>5
    <2> QED
      BY <2>1, <2>2 DEF There
  <1>3. ASSUME NEW q \in PEs, NEW b \in PEs, NEW k \in DOMAIN channel[<<q, b>>]
        PROVE  channel[<<q, b>>][k].event.time > horizon
    <2>1. channel[<<q, b>>][k] \in ToSet(channel[<<q, b>>]) /\ <<q, b>> \in PEs \X PEs
      BY DEF ToSet
    <2>2. channel[<<q, b>>][k].event \in InTransit
      BY <2>1 DEF InTransit
    <2> QED
      BY <1>1, <2>2 DEF Unsettled
  <1>4. ASSUME NEW e \in due
        PROVE  e.time > horizon
    <2>1. CASE \E b \in PEs : e \in There(b)
      BY <1>2, <2>1
    <2>2. CASE \E q, b \in PEs : \E k \in DOMAIN channel[<<q, b>>] : channel[<<q, b>>][k].event = e
      BY <1>3, <2>2
    <2> QED
      BY <2>1, <2>2, DueIsSomewhere
  <1> QED
    BY <1>2, <1>3, <1>4

\* What only the horizon changes leaves as it is.
LEMMA SameInv ==
    ASSUME NEW S, IInv(S),
           UNCHANGED <<lps, pending, processed, channel, due, trace>>
    PROVE  /\ LPInv(S)' /\ PendingInv' /\ RecordInv(S)' /\ OrderInv' /\ ChainInv' /\ ChannelInv'
           /\ DeliveryInv' /\ OnceInv' /\ HeartbeatInv' /\ FlagInv' /\ DueInv'
           /\ \A b \in PEs : There(b)' = There(b)
  <1>1. \A b : There(b)' = There(b) /\ Wanted(b)' = Wanted(b) /\ \A k : EventAt(b, k)' = EventAt(b, k)
    BY DEF There, Wanted, EventAt
  <1>2. LPInv(S)' /\ PendingInv' /\ ChannelInv'
    BY DEF IInv, LPInv, PendingInv, ChannelInv
  <1>3. RecordInv(S)' /\ OrderInv' /\ OnceInv'
    BY <1>1 DEF IInv, RecordInv, OrderInv, OnceInv
  <1>4. ChainInv'
    BY <1>1 DEF IInv, ChainInv, NoneOf
  <1>5. DeliveryInv'
    BY <1>1 DEF IInv, DeliveryInv, Agreed
  <1>6. HeartbeatInv' /\ FlagInv'
    BY <1>1 DEF IInv, HeartbeatInv, FlagInv
  <1>7. DueInv'
    BY DEF IInv, DueInv
  <1> QED
    BY <1>1, <1>2, <1>3, <1>4, <1>5, <1>6, <1>7

LEMMA HorizonAdvances ==
    ASSUME NEW S, IInv(S), AdvanceHorizon
    PROVE  IInv(S)'
  <1>1. /\ horizon' = horizon + 1 /\ horizon + 1 < End /\ horizon \in Nat
        /\ UNCHANGED <<lps, pending, processed, channel, due, trace>>
    BY DEF AdvanceHorizon, IInv
  <1>2. \A t \in trace' : t.time \in Nat /\ t.time <= horizon'
    <2>1. \A t \in trace : t.time \in Nat /\ t.time <= horizon
      BY DEF IInv
    <2> QED
      BY <1>1, <2>1
  <1>3. /\ LPInv(S)' /\ PendingInv' /\ RecordInv(S)' /\ OrderInv' /\ ChainInv' /\ ChannelInv'
        /\ DeliveryInv' /\ OnceInv' /\ HeartbeatInv' /\ FlagInv' /\ DueInv'
        /\ \A b \in PEs : There(b)' = There(b)
    BY <1>1, SameInv
  <1>4. HorizonInv'
    <2>1. ASSUME NEW b \in PEs, NEW f \in There(b)'
          PROVE  horizon' <= f.time
      <3>1. f.time > horizon /\ f.time \in Nat
        BY <1>3, <2>1, HorizonFar, ThereInRun
      <3> QED
        BY <1>1, <3>1
    <2>2. ASSUME NEW q \in PEs, NEW b \in PEs, NEW k \in DOMAIN channel[<<q, b>>]
          PROVE  horizon' <= channel[<<q, b>>][k].event.time
      <3>1. channel[<<q, b>>][k].event.time > horizon
        BY HorizonFar
      <3>2. channel[<<q, b>>][k].event.time \in Nat
        BY DEF IInv, ChannelInv, IsMessage, InRun, IsEvent
      <3> QED
        BY <1>1, <3>1, <3>2
    <2>3. ASSUME NEW e \in due
          PROVE  horizon' <= e.time
      <3>1. e.time > horizon
        BY HorizonFar
      <3>2. e.time \in Nat
        BY DEF IInv, DueInv, InRun, IsEvent
      <3> QED
        BY <1>1, <3>1, <3>2
    <2> QED
      BY <1>1, <2>1, <2>2, <2>3 DEF HorizonInv
  <1> QED
    BY <1>1, <1>2, <1>3, <1>4 DEF IInv

-----------------------------------------------------------------------------
(* The theorems.                                                            *)

LEMMA NextInv ==
    ASSUME NEW S, NeuronModel(S), IInv(S), [Next]_vars
    PROVE  IInv(S)'
  <1>1. CASE \E p \in PEs : Process(p)
    BY <1>1, ProcessInv
  <1>2. CASE \E p \in PEs : Commit(p)
    BY <1>2, CommitInv
  <1>3. CASE \E p, q \in PEs : ReceiveEvent(q, p) \/ ReceiveAnti(q, p)
    BY <1>3, ReceiveInv
  <1>4. CASE AdvanceHorizon
    BY <1>4, HorizonAdvances
  <1>5. CASE UNCHANGED vars
    <2>1. /\ horizon' = horizon
          /\ UNCHANGED <<lps, pending, processed, channel, due, trace>>
      BY <1>5 DEF vars
    <2>2. /\ LPInv(S)' /\ PendingInv' /\ RecordInv(S)' /\ OrderInv' /\ ChainInv' /\ ChannelInv'
          /\ DeliveryInv' /\ OnceInv' /\ HeartbeatInv' /\ FlagInv' /\ DueInv'
          /\ \A b \in PEs : There(b)' = There(b)
      BY <2>1, SameInv
    <2>3. HorizonInv'
      BY <2>1, <2>2 DEF IInv, HorizonInv
    <2>4. horizon' \in Nat /\ horizon' < End /\ \A t \in trace' : t.time \in Nat /\ t.time <= horizon'
      BY <2>1 DEF IInv
    <2> QED
      BY <2>2, <2>3, <2>4 DEF IInv
  <1> QED
    BY <1>1, <1>2, <1>3, <1>4, <1>5 DEF Next, Finished

\* The invariant holds throughout, whichever states S the neuron model keeps to.
LEMMA IInvHolds ==
    ASSUME NEW CONSTANT S, NeuronModel(S)
    PROVE  Spec => []IInv(S)
  <1>1. Init => IInv(S)
    BY InitInv
  <1>2. IInv(S) /\ [Next]_vars => IInv(S)'
    BY NextInv
  <1> QED
    BY <1>1, <1>2, PTL DEF Spec

LEMMA TypeOKHolds ==
    ASSUME NEW S, IInv(S)
    PROVE  TypeOK
  <1>1. horizon \in 0 .. End - 1
    BY DriverAssumption DEF IInv
  <1>2. ASSUME NEW f \in InTransit
        PROVE  f.time \in horizon .. End - 1
    <2>1. PICK pair \in PEs \X PEs : \E m \in ToSet(channel[pair]) : f = m.event
      BY DEF InTransit
    <2>2. PICK q \in PEs, p \in PEs : pair = <<q, p>>
      BY <2>1
    <2>3. PICK k \in DOMAIN channel[<<q, p>>] : f = channel[<<q, p>>][k].event
      BY <2>1, <2>2 DEF ToSet
    <2>4. horizon <= f.time
      BY <2>3 DEF IInv, HorizonInv
    <2>5. InRun(f)
      BY <2>3 DEF IInv, ChannelInv, IsMessage
    <2> QED
      BY <1>1, <2>4, <2>5, DriverAssumption DEF InRun, IsEvent
  <1>3. ASSUME NEW p \in PEs
        PROVE  /\ \A f \in pending[p] \cup HandledBy(p) :
                     PEOf[f.dest] = p /\ f.time \in horizon .. End - 1
               /\ \A i, j \in DOMAIN processed[p] :
                     i < j => ~ Before(processed[p][j].event, processed[p][i].event)
    <2>1. ASSUME NEW f \in There(p)
          PROVE  PEOf[f.dest] = p /\ f.time \in horizon .. End - 1
      <3>1. InRun(f) /\ PEOf[f.dest] = p /\ f.time \in Nat /\ horizon <= f.time
        BY <2>1, ThereInRun
      <3>2. f.time < End
        BY <3>1 DEF InRun
      <3> QED
        BY <1>1, <3>1, <3>2, DriverAssumption
    <2>2. ASSUME NEW i \in DOMAIN processed[p]
          PROVE  /\ EventAt(p, i) \in There(p)
                 /\ processed[p][i].event.dest = EventAt(p, i).dest
                 /\ processed[p][i].event.time = EventAt(p, i).time
                 /\ \A f : /\ Before(f, processed[p][i].event) <=> Before(f, EventAt(p, i))
                           /\ Before(processed[p][i].event, f) <=> Before(EventAt(p, i), f)
      <3>1. IsRecord(processed[p][i], S)
        BY DEF IInv, RecordInv
      <3> QED
        BY <3>1, RecordOrder DEF EventAt, There
    <2>3. ASSUME NEW f \in HandledBy(p)
          PROVE  PEOf[f.dest] = p /\ f.time \in horizon .. End - 1
      <3>1. PICK i \in DOMAIN processed[p] : f = processed[p][i].event
        BY DEF HandledBy, ToSet
      <3> QED
        BY <2>1, <2>2, <3>1
    <2>4. ASSUME NEW i \in DOMAIN processed[p], NEW j \in DOMAIN processed[p], i < j
          PROVE  ~ Before(processed[p][j].event, processed[p][i].event)
      <3>1. ~ Before(EventAt(p, j), EventAt(p, i))
        BY <2>4 DEF IInv, OrderInv
      <3> QED
        BY <2>2, <3>1
    <2> QED
      BY <2>1, <2>3, <2>4 DEF There
  <1> QED
    BY <1>1, <1>2, <1>3 DEF TypeOK

\* For every placement of the neurons, every order of the messages and every neuron model
\* with an exact undo: nothing is left to do before the horizon, and each PE has handled its
\* events in their order.
THEOREM TypeCorrect ==
    ASSUME NEW CONSTANT S, NeuronModel(S)
    PROVE  Spec => []TypeOK
  <1>1. Spec => []IInv(S)
    BY IInvHolds
  <1>2. IInv(S) => TypeOK
    BY TypeOKHolds
  <1> QED
    BY <1>1, <1>2, PTL

LEMMA CancelsInTimeHolds ==
    ASSUME NEW S, IInv(S)
    PROVE  CancelsInTime
  <1>1. ASSUME NEW p \in PEs
        PROVE  {AsSent(f) : f \in pending[p] \cup HandledBy(p)} = There(p)
    <2>1. \A f \in pending[p] : AsSent(f) = f
      BY ThereInRun, AsSentShape DEF There, InRun
    <2>2. \A f : f \in HandledBy(p) <=> \E i \in DOMAIN processed[p] : f = processed[p][i].event
      BY DEF HandledBy, ToSet
    <2>3. \A i \in DOMAIN processed[p] : AsSent(processed[p][i].event) = EventAt(p, i)
      BY DEF EventAt, Event
    <2> QED
      BY <2>1, <2>2, <2>3 DEF There
  <1>2. ASSUME NEW p \in PEs, NEW q \in PEs, channel[<<q, p>>] # <<>>
        PROVE  Head(channel[<<q, p>>]).anti <=> Head(channel[<<q, p>>]).event \in There(p)
    <2> DEFINE c == channel[<<q, p>>]
               m == c[1]
               e == m.event
               there == There(p)
               wanted == Wanted(q)
               then == IF e \in there THEN {} ELSE {e}
    <2>1. IsSeq(c) /\ c # <<>>
      BY <1>2 DEF IInv, ChannelInv
    <2>2. Head(c) = m /\ 1 \in DOMAIN c
      <3> HIDE DEF c, m
      <3> QED
        BY <2>1, SeqTail, SeqShape DEF m
    <2>3. IsMessage(m, q, p)
      BY <2>2 DEF IInv, ChannelInv
    <2>4. InRun(e) /\ Sender(e) = q /\ PEOf[e.dest] = p
      BY <2>3 DEF IsMessage
    <2>5. Delivers(c, e, there, wanted)
      BY <2>4 DEF IInv, DeliveryInv, Agreed
    <2>6. e \in then <=> IF c[1].event = e THEN e \notin there ELSE e \in there
      OBVIOUS
    <2>7. c[1].event = e
      OBVIOUS
    <2> HIDE DEF c, e, there, wanted, then
    <2>8. c[1].anti <=> e \in there
      BY <2>1, <2>5, <2>6, <2>7, DeliversTail
    <2> QED
      BY <2>2, <2>8 DEF c, e, there
  <1>3. ASSUME NEW p \in PEs, NEW f \in pending[p]
        PROVE  Position(p, AsSent(f)) = {}
    <2>1. AsSent(f) = f
      BY ThereInRun, AsSentShape DEF There, InRun
    <2>2. \A i \in DOMAIN processed[p] : EventAt(p, i) # f
      BY DEF IInv, OrderInv
    <2> QED
      BY <2>1, <2>2 DEF Position, EventAt, Event
  <1> QED
    BY <1>1, <1>2, <1>3 DEF CancelsInTime

\* For every placement, every order of the messages and every neuron model with an exact
\* undo: a cancellation finds its event waiting or handled, an event that arrives is new,
\* and none is both waiting and handled.
THEOREM AllCancelsInTime ==
    ASSUME NEW CONSTANT S, NeuronModel(S)
    PROVE  Spec => []CancelsInTime
  <1>1. Spec => []IInv(S)
    BY IInvHolds
  <1>2. IInv(S) => CancelsInTime
    BY CancelsInTimeHolds
  <1> QED
    BY <1>1, <1>2, PTL

\* The committed state of an LP is the one its first record found.
LEMMA CommittedShape ==
    ASSUME NEW S, IInv(S), NEW n \in Neurons, NEW p \in PEs, p = PEOf[n]
    PROVE  /\ NoneOf(p, n, 1, Len(processed[p]) + 1) => CommittedLP(n) = lps[n]
           /\ \A j \in DOMAIN processed[p] :
                 EventAt(p, j).dest = n /\ NoneOf(p, n, 1, j)
                     => CommittedLP(n) = processed[p][j].before
  <1> DEFINE h == processed[p]
             own == {i \in DOMAIN h : h[i].event.dest = n}
  <1>1. IsSeq(h)
    BY DEF IInv, RecordInv
  <1>2. Len(h) \in Nat /\ DOMAIN h = 1 .. Len(h)
    BY <1>1, SeqShape
  <1>3. \A i \in DOMAIN h : h[i].event.dest = EventAt(p, i).dest
    <2> SUFFICES ASSUME NEW i \in DOMAIN h PROVE h[i].event.dest = EventAt(p, i).dest
      OBVIOUS
    <2>1. IsRecord(h[i], S)
      BY DEF IInv, RecordInv
    <2> QED
      BY <2>1, RecordOrder DEF EventAt
  <1>4. CommittedLP(n) = IF own = {} THEN lps[n] ELSE h[Min(own)].before
    BY DEF CommittedLP
  <1>5. ASSUME NoneOf(p, n, 1, Len(h) + 1)
        PROVE  CommittedLP(n) = lps[n]
    <2>1. own = {}
      BY <1>2, <1>3, <1>5 DEF NoneOf
    <2> QED
      BY <1>4, <2>1
  <1>6. ASSUME NEW j \in DOMAIN h, EventAt(p, j).dest = n, NoneOf(p, n, 1, j)
        PROVE  CommittedLP(n) = h[j].before
    <2>1. j \in own /\ own \subseteq Nat
      BY <1>2, <1>3, <1>6
    <2>2. \A i \in own : j <= i
      BY <1>2, <1>3, <1>6 DEF NoneOf
    <2> HIDE DEF own, h
    <2>3. Min(own) = j
      <3>1. Min(own) \in own /\ Min(own) <= j
        BY <2>1, MinIsLeast
      <3> QED
        BY <2>1, <2>2, <3>1
    <2> QED
      BY <1>4, <2>1, <2>3
  <1> QED
    BY <1>5, <1>6

LEMMA UndoRestoresHolds ==
    ASSUME NEW S, NeuronModel(S), IInv(S)
    PROVE  UndoRestores
  <1> SUFFICES ASSUME NEW p \in PEs
               PROVE  /\ \A n \in Neurons :
                            PEOf[n] = p => RolledBack(p, 1, pending[p]).lps[n] = CommittedLP(n)
                      /\ \A f \in RolledBack(p, 1, pending[p]).queue : f = AsSent(f)
    BY DEF UndoRestores
  <1> DEFINE st == RolledBack(p, 1, pending[p])
  <1>1. IsSeq(processed[p])
    BY DEF IInv, RecordInv
  <1>2. Len(processed[p]) \in Nat /\ DOMAIN processed[p] = 1 .. Len(processed[p])
        /\ 1 \in 1 .. Len(processed[p]) + 1
    BY <1>1, SeqShape
  <1>3. \A f \in pending[p] : InRun(f)
    BY DEF IInv, PendingInv
  <1>4. IsBack(st, p, 1, pending[p])
    BY <1>2, <1>3, RolledBackShape
  <1> HIDE DEF st
  <1>5. ASSUME NEW n \in Neurons, PEOf[n] = p
        PROVE  st.lps[n] = CommittedLP(n)
    <2>1. \/ NoneOf(p, n, 1, Len(processed[p]) + 1)
          \/ \E j \in DOMAIN processed[p] :
                1 <= j /\ EventAt(p, j).dest = n /\ NoneOf(p, n, 1, j)
      BY FirstRecord
    <2>2. /\ NoneOf(p, n, 1, Len(processed[p]) + 1) => CommittedLP(n) = lps[n]
          /\ \A j \in DOMAIN processed[p] :
                EventAt(p, j).dest = n /\ NoneOf(p, n, 1, j)
                    => CommittedLP(n) = processed[p][j].before
      BY <1>5, CommittedShape
    <2> QED
      BY <1>4, <2>1, <2>2 DEF IsBack
  <1>6. ASSUME NEW f \in st.queue
        PROVE  f = AsSent(f)
    <2>1. f \in pending[p] \cup Redone(p, 1)
      BY <1>4 DEF IsBack
    <2>2. InRun(f)
      BY <1>2, <1>3, <2>1, ThereInRun DEF Redone, There
    <2> QED
      BY <2>2, AsSentShape DEF InRun
  <1> QED
    BY <1>5, <1>6 DEF st

\* For every placement, every order of the messages and every neuron model with an exact
\* undo: what is not committed can always be undone without a trace.
THEOREM AllUndoRestores ==
    ASSUME NEW CONSTANT S, NeuronModel(S)
    PROVE  Spec => []UndoRestores
  <1>1. Spec => []IInv(S)
    BY IInvHolds
  <1>2. IInv(S) => UndoRestores
    BY UndoRestoresHolds
  <1> QED
    BY <1>1, <1>2, PTL

-----------------------------------------------------------------------------
(* What is committed is a sequential run.                                   *)

CommittedIs(n) ==
    LET p == PEOf[n]
    IN  /\ NoneOf(p, n, 1, Len(processed[p]) + 1) => CommittedLP(n) = lps[n]
        /\ \A j \in DOMAIN processed[p] :
              EventAt(p, j).dest = n /\ NoneOf(p, n, 1, j)
                  => CommittedLP(n) = processed[p][j].before

LEMMA CommittedThen ==
    ASSUME NEW S, NEW n \in Neurons
    PROVE  (IInv(S) => CommittedIs(n))'
  <1>1. PEOf[n] \in PEs
    BY PEAssumption
  <1>2. IInv(S) => CommittedIs(n)
    BY <1>1, CommittedShape DEF CommittedIs
  <1> QED
    BY <1>2, PTL

\* The same of the next state.
LEMMA NoRecordNext ==
    ASSUME NEW S, IInv(S)', NEW n \in Neurons, NEW p \in PEs, p = PEOf[n],
           \A k \in DOMAIN processed'[p] : EventAt(p, k)'.dest # n
    PROVE  CommittedLP(n)' = lps'[n]
  <1>1. CommittedIs(n)'
    BY CommittedThen
  <1> QED
    BY <1>1 DEF CommittedIs, NoneOf

LEMMA FirstRecordNext ==
    ASSUME NEW S, IInv(S)', NEW n \in Neurons, NEW p \in PEs, p = PEOf[n],
           NEW j \in DOMAIN processed'[p], EventAt(p, j)'.dest = n,
           \A k \in DOMAIN processed'[p] : k < j => EventAt(p, k)'.dest # n
    PROVE  CommittedLP(n)' = processed'[p][j].before
  <1>1. CommittedIs(n)'
    BY CommittedThen
  <1> QED
    BY <1>1 DEF CommittedIs, NoneOf

\* The neurons of other PEs are as they were.
LEMMA CommittedElsewhere ==
    ASSUME NEW n \in Neurons,
           processed'[PEOf[n]] = processed[PEOf[n]], lps'[n] = lps[n]
    PROVE  CommittedLP(n)' = CommittedLP(n)
  BY DEF CommittedLP

LEMMA ForwardCommitted ==
    ASSUME NEW S, NeuronModel(S), IInv(S), IInv(S)', NEW p \in PEs, NEW e, NEW r,
           Forward(p, e, r), IsRecord(r, S), NEW m \in Neurons
    PROVE  CommittedLP(m)' = CommittedLP(m)
  <1>1. PICK n \in Nat : n = Len(processed[p])
    BY ForwardState
  <1>2. /\ DOMAIN processed[p] = 1 .. n
        /\ DOMAIN processed'[p] = 1 .. n + 1
        /\ \A i \in 1 .. n : processed'[p][i] = processed[p][i]
        /\ processed'[p][n + 1] = r
        /\ \A c \in PEs : c # p => processed'[c] = processed[c]
        /\ \A k \in Neurons : k # e.dest => lps'[k] = lps[k]
        /\ IsSeq(processed'[p])
    BY <1>1, ForwardState
  <1>3. /\ \A i \in 1 .. n : EventAt(p, i)' = EventAt(p, i)
        /\ EventAt(p, n + 1)' = e
    BY <1>1, ForwardThere
  <1>4. r.before = lps[e.dest] /\ PEOf[e.dest] = p
    BY DEF Forward
  <1>5. CASE PEOf[m] # p
    <2>1. m # e.dest /\ PEOf[m] \in PEs
      BY <1>4, <1>5, PEAssumption
    <2> QED
      BY <1>2, <1>5, <2>1, CommittedElsewhere
  <1>6. CASE PEOf[m] = p
    <2>1. /\ NoneOf(p, m, 1, n + 1) => CommittedLP(m) = lps[m]
          /\ \A j \in 1 .. n :
                EventAt(p, j).dest = m /\ NoneOf(p, m, 1, j)
                    => CommittedLP(m) = processed[p][j].before
      BY <1>1, <1>2, <1>6, CommittedShape
    <2>4. \/ NoneOf(p, m, 1, n + 1)
          \/ \E j \in 1 .. n : 1 <= j /\ EventAt(p, j).dest = m /\ NoneOf(p, m, 1, j)
      <3>1. 1 \in Nat
        OBVIOUS
      <3>2. \/ NoneOf(p, m, 1, Len(processed[p]) + 1)
            \/ \E j \in DOMAIN processed[p] :
                  1 <= j /\ EventAt(p, j).dest = m /\ NoneOf(p, m, 1, j)
        BY <3>1, FirstRecord
      <3> QED
        BY <1>1, <1>2, <3>2
    <2>5. CASE NoneOf(p, m, 1, n + 1)
      <3>1. \A k \in 1 .. n : EventAt(p, k)'.dest # m
        BY <1>2, <1>3, <2>5 DEF NoneOf
      <3>2. CASE m = e.dest
        <4>1. n + 1 \in 1 .. n + 1 /\ \A k \in 1 .. n + 1 : k < n + 1 => k \in 1 .. n
          OBVIOUS
        <4>2. CommittedLP(m)' = processed'[p][n + 1].before
          BY <1>2, <1>3, <1>6, <3>1, <3>2, <4>1, FirstRecordNext
        <4> QED
          BY <1>2, <1>4, <2>1, <2>5, <3>2, <4>2
      <3>3. CASE m # e.dest
        <4>1. \A k \in 1 .. n + 1 : k \in 1 .. n \/ k = n + 1
          OBVIOUS
        <4>2. \A k \in 1 .. n + 1 : EventAt(p, k)'.dest # m
          BY <1>3, <3>1, <3>3, <4>1
        <4>3. CommittedLP(m)' = lps'[m]
          BY <1>2, <1>6, <4>2, NoRecordNext
        <4> QED
          BY <1>2, <2>1, <2>5, <3>3, <4>3
      <3> QED
        BY <3>2, <3>3
    <2>6. CASE \E j \in 1 .. n : 1 <= j /\ EventAt(p, j).dest = m /\ NoneOf(p, m, 1, j)
      <3>1. PICK j \in 1 .. n : EventAt(p, j).dest = m /\ NoneOf(p, m, 1, j)
        BY <2>6
      <3>2. j \in 1 .. n + 1 /\ \A k \in 1 .. n + 1 : k < j => k \in 1 .. n
        OBVIOUS
      <3>3. \A k \in 1 .. n + 1 : k < j => EventAt(p, k)'.dest # m
        BY <1>2, <1>3, <3>1, <3>2 DEF NoneOf
      <3>4. CommittedLP(m)' = processed'[p][j].before
        <4>1. j \in DOMAIN processed'[p] /\ EventAt(p, j)'.dest = m
          BY <1>2, <1>3, <3>1, <3>2
        <4>2. \A k \in DOMAIN processed'[p] : k < j => EventAt(p, k)'.dest # m
          BY <1>2, <3>3
        <4> QED
          BY <1>6, <4>1, <4>2, FirstRecordNext
      <3> QED
        BY <1>2, <2>1, <3>1, <3>4
    <2> QED
      BY <2>4, <2>5, <2>6
  <1> QED
    BY <1>5, <1>6

LEMMA TakesCommitted ==
    ASSUME NEW S, NeuronModel(S), IInv(S), IInv(S)', NEW p \in PEs, NEW q \in PEs,
           NEW i, NEW m, Takes(q, p, i, m), NEW x \in Neurons
    PROVE  CommittedLP(x)' = CommittedLP(x)
  <1>1. PICK L \in Nat : L = Len(processed[p])
    BY TakesState
  <1>2. /\ DOMAIN processed[p] = 1 .. L
        /\ i \in 1 .. L + 1
        /\ DOMAIN processed'[p] = 1 .. i - 1
        /\ \A k \in 1 .. i - 1 : processed'[p][k] = processed[p][k]
        /\ \A b \in PEs : b # p => processed'[b] = processed[b]
        /\ \A n \in Neurons : NoneOf(p, n, i, L + 1) => lps'[n] = lps[n]
        /\ \A j \in DOMAIN processed[p] :
              i <= j /\ NoneOf(p, EventAt(p, j).dest, i, j)
                  => lps'[EventAt(p, j).dest] = processed[p][j].before
        /\ \A n \in Neurons : PEOf[n] # p => lps'[n] = lps[n]
    BY <1>1, TakesState
  <1>3. \A k \in 1 .. i - 1 : EventAt(p, k)' = EventAt(p, k)
    BY TakesThere
  <1>4. CASE PEOf[x] # p
    <2>1. PEOf[x] \in PEs
      BY PEAssumption
    <2> QED
      BY <1>2, <1>4, <2>1, CommittedElsewhere
  <1>5. CASE PEOf[x] = p
    <2>1. /\ NoneOf(p, x, 1, L + 1) => CommittedLP(x) = lps[x]
          /\ \A j \in 1 .. L :
                EventAt(p, j).dest = x /\ NoneOf(p, x, 1, j)
                    => CommittedLP(x) = processed[p][j].before
      <3>1. /\ NoneOf(p, x, 1, Len(processed[p]) + 1) => CommittedLP(x) = lps[x]
            /\ \A j \in DOMAIN processed[p] :
                  EventAt(p, j).dest = x /\ NoneOf(p, x, 1, j)
                      => CommittedLP(x) = processed[p][j].before
        BY <1>5, CommittedShape
      <3> QED
        BY <1>1, <1>2, <3>1
    <2>2. \/ NoneOf(p, x, 1, L + 1)
          \/ \E j \in 1 .. L : 1 <= j /\ EventAt(p, j).dest = x /\ NoneOf(p, x, 1, j)
      <3>1. 1 \in Nat
        OBVIOUS
      <3>2. \/ NoneOf(p, x, 1, Len(processed[p]) + 1)
            \/ \E j \in DOMAIN processed[p] :
                  1 <= j /\ EventAt(p, j).dest = x /\ NoneOf(p, x, 1, j)
        BY <3>1, FirstRecord
      <3> QED
        BY <1>1, <1>2, <3>2
    <2>3. CASE NoneOf(p, x, 1, L + 1)
      <3>1. NoneOf(p, x, i, L + 1)
        BY <1>2, <2>3 DEF NoneOf
      <3>2. \A k \in 1 .. i - 1 : EventAt(p, k)'.dest # x
        <4>1. \A k \in 1 .. i - 1 : k \in 1 .. L /\ 1 <= k /\ k < L + 1
          BY <1>2
        <4> QED
          BY <1>2, <1>3, <2>3, <4>1 DEF NoneOf
      <3>3. CommittedLP(x)' = lps'[x]
        BY <1>2, <1>5, <3>2, NoRecordNext
      <3> QED
        BY <1>2, <2>1, <2>3, <3>1, <3>3
    <2>4. CASE \E j \in 1 .. L : 1 <= j /\ EventAt(p, j).dest = x /\ NoneOf(p, x, 1, j)
      <3>1. PICK j \in 1 .. L : EventAt(p, j).dest = x /\ NoneOf(p, x, 1, j)
        BY <2>4
      <3>2. CommittedLP(x) = processed[p][j].before
        BY <2>1, <3>1
      <3>3. \A k \in 1 .. i - 1 : k < j => EventAt(p, k)'.dest # x
        <4>1. \A k \in 1 .. i - 1 : k \in 1 .. L /\ 1 <= k
          BY <1>2
        <4> QED
          BY <1>2, <1>3, <3>1, <4>1 DEF NoneOf
      <3>4. CASE j \in 1 .. i - 1
        <4>1. CommittedLP(x)' = processed'[p][j].before
          <5>1. j \in DOMAIN processed'[p] /\ EventAt(p, j)'.dest = x
            BY <1>2, <1>3, <3>1, <3>4
          <5>2. \A k \in DOMAIN processed'[p] : k < j => EventAt(p, k)'.dest # x
            BY <1>2, <3>3
          <5> QED
            BY <1>5, <5>1, <5>2, FirstRecordNext
        <4> QED
          BY <1>2, <3>2, <3>4, <4>1
      <3>5. CASE j \notin 1 .. i - 1
        <4>1. i <= j /\ j \in DOMAIN processed[p]
          BY <1>2, <3>5
        <4>2. NoneOf(p, x, i, j)
          BY <1>2, <3>1 DEF NoneOf
        <4>3. lps'[x] = processed[p][j].before
          BY <1>2, <3>1, <4>1, <4>2
        <4>4. \A k \in 1 .. i - 1 : EventAt(p, k)'.dest # x
          <5>1. \A k \in 1 .. i - 1 : k < j
            BY <1>2, <4>1
          <5> QED
            BY <3>3, <5>1
        <4>5. CommittedLP(x)' = lps'[x]
          BY <1>2, <1>5, <4>4, NoRecordNext
        <4> QED
          BY <3>2, <4>3, <4>5
      <3> QED
        BY <3>4, <3>5
    <2> QED
      BY <2>2, <2>3, <2>4
  <1> QED
    BY <1>4, <1>5

LEMMA SettlesCommitted ==
    ASSUME NEW S, NeuronModel(S), IInv(S), IInv(S)', NEW p \in PEs, NEW e, NEW r,
           Settles(p, e, r), NEW x \in Neurons
    PROVE  /\ x = e.dest => /\ CommittedLP(x) = r.before
                            /\ CommittedLP(x)' = Handle(r.before, e).lp
           /\ x # e.dest => CommittedLP(x)' = CommittedLP(x)
  <1>1. PICK n \in Nat : n = Len(processed[p]) - 1
    BY SettlesState
  <1>2. /\ DOMAIN processed'[p] = 1 .. n
        /\ \A k \in 1 .. n : k + 1 \in DOMAIN processed[p] /\ processed'[p][k] = processed[p][k + 1]
        /\ \A b \in PEs : b # p => processed'[b] = processed[b]
        /\ 1 \in DOMAIN processed[p]
    BY <1>1, SettlesState
  <1>3. Len(processed[p]) = n + 1 /\ DOMAIN processed[p] = 1 .. n + 1
    <2>1. Len(processed[p]) = n + 1
      BY <1>1, SettlesState
    <2> QED
      BY <2>1, SettlesState
  <1>4. \A k \in 1 .. n : EventAt(p, k)' = EventAt(p, k + 1)
    BY <1>1, SettlesThere
  <1>5. lps' = lps /\ PEOf[e.dest] = p /\ r = processed[p][1] /\ e = EventAt(p, 1)
    BY DEF Settles
  <1>6. CASE PEOf[x] # p
    <2>1. PEOf[x] \in PEs
      BY PEAssumption
    <2> QED
      BY <1>2, <1>5, <1>6, <2>1, CommittedElsewhere
  <1>7. CASE PEOf[x] = p
    <2>1. /\ NoneOf(p, x, 1, n + 1 + 1) => CommittedLP(x) = lps[x]
          /\ \A j \in 1 .. n + 1 :
                EventAt(p, j).dest = x /\ NoneOf(p, x, 1, j)
                    => CommittedLP(x) = processed[p][j].before
      BY <1>3, <1>7, CommittedShape
    <2>2. \/ NoneOf(p, x, 2, n + 1 + 1)
          \/ \E j \in 1 .. n + 1 : 2 <= j /\ EventAt(p, j).dest = x /\ NoneOf(p, x, 2, j)
      <3>1. 2 \in Nat
        OBVIOUS
      <3>2. \/ NoneOf(p, x, 2, Len(processed[p]) + 1)
            \/ \E j \in DOMAIN processed[p] :
                  2 <= j /\ EventAt(p, j).dest = x /\ NoneOf(p, x, 2, j)
        BY <3>1, FirstRecord
      <3> QED
        BY <1>3, <3>2
    <2>3. ASSUME NoneOf(p, x, 2, n + 1 + 1)
          PROVE  CommittedLP(x)' = lps[x]
      <3>1. \A k \in 1 .. n : EventAt(p, k)'.dest # x
        <4>1. \A k \in 1 .. n : k + 1 \in 1 .. n + 1 /\ 2 <= k + 1 /\ k + 1 < n + 1 + 1
          OBVIOUS
        <4> QED
          BY <1>3, <1>4, <2>3, <4>1 DEF NoneOf
      <3> QED
        BY <1>2, <1>5, <1>7, <3>1, NoRecordNext
    <2>4. ASSUME NEW j \in 1 .. n + 1, 2 <= j, EventAt(p, j).dest = x, NoneOf(p, x, 2, j)
          PROVE  CommittedLP(x)' = processed[p][j].before
      <3>1. PICK i \in 1 .. n : j = i + 1
        <4>1. j - 1 \in 1 .. n /\ j = (j - 1) + 1
          BY <2>4
        <4> QED
          BY <4>1
      <3>2. EventAt(p, i)'.dest = x /\ processed'[p][i] = processed[p][j]
        BY <1>2, <1>4, <2>4, <3>1
      <3>3. \A k \in 1 .. n : k < i => EventAt(p, k)'.dest # x
        <4>1. \A k \in 1 .. n : k < i => k + 1 \in 1 .. n + 1 /\ 2 <= k + 1 /\ k + 1 < j
          BY <3>1
        <4> QED
          BY <1>3, <1>4, <2>4, <4>1 DEF NoneOf
      <3>4. CommittedLP(x)' = processed'[p][i].before
        <4>1. i \in DOMAIN processed'[p] /\ EventAt(p, i)'.dest = x
          BY <1>2, <3>2
        <4>2. \A k \in DOMAIN processed'[p] : k < i => EventAt(p, k)'.dest # x
          BY <1>2, <3>3
        <4> QED
          BY <1>7, <4>1, <4>2, FirstRecordNext
      <3> QED
        BY <3>2, <3>4
    <2>5. CASE x = e.dest
      <3>1. NoneOf(p, x, 1, 1)
        <4>1. \A k \in 1 .. n + 1 : ~ (1 <= k /\ k < 1)
          OBVIOUS
        <4> QED
          BY <1>3, <4>1 DEF NoneOf
      <3>2. CommittedLP(x) = r.before
        BY <1>3, <1>2, <1>5, <2>1, <2>5, <3>1
      <3>3. /\ \A j \in DOMAIN processed[p] :
                  1 < j /\ EventAt(p, j).dest = x /\ NoneOf(p, x, 1 + 1, j)
                      => processed[p][j].before = Handle(r.before, e).lp
            /\ NoneOf(p, x, 1 + 1, Len(processed[p]) + 1) => lps[x] = Handle(r.before, e).lp
        BY <1>2, <1>5, <2>5 DEF IInv, ChainInv
      <3>4. /\ \A j \in 1 .. n + 1 :
                  1 < j /\ EventAt(p, j).dest = x /\ NoneOf(p, x, 2, j)
                      => processed[p][j].before = Handle(r.before, e).lp
            /\ NoneOf(p, x, 2, n + 1 + 1) => lps[x] = Handle(r.before, e).lp
        <4>1. 1 + 1 = 2
          OBVIOUS
        <4> QED
          BY <1>3, <3>3, <4>1
      <3>5. \A j \in 1 .. n + 1 : 2 <= j => 1 < j
        OBVIOUS
      <3>6. CASE NoneOf(p, x, 2, n + 1 + 1)
        BY <2>3, <2>5, <3>2, <3>4, <3>6
      <3>7. CASE \E j \in 1 .. n + 1 : 2 <= j /\ EventAt(p, j).dest = x /\ NoneOf(p, x, 2, j)
        <4>1. PICK j \in 1 .. n + 1 : 2 <= j /\ EventAt(p, j).dest = x /\ NoneOf(p, x, 2, j)
          BY <3>7
        <4> QED
          BY <2>4, <2>5, <3>2, <3>4, <3>5, <4>1
      <3> QED
        BY <2>2, <3>6, <3>7
    <2>6. CASE x # e.dest
      <3>1. \A j : NoneOf(p, x, 2, j) => NoneOf(p, x, 1, j)
        <4>1. \A k \in 1 .. n + 1 : k = 1 \/ 2 <= k
          OBVIOUS
        <4> QED
          BY <1>3, <1>5, <2>6, <4>1 DEF NoneOf
      <3>2. CASE NoneOf(p, x, 2, n + 1 + 1)
        BY <2>1, <2>3, <2>6, <3>1, <3>2
      <3>3. CASE \E j \in 1 .. n + 1 : 2 <= j /\ EventAt(p, j).dest = x /\ NoneOf(p, x, 2, j)
        <4>1. PICK j \in 1 .. n + 1 : 2 <= j /\ EventAt(p, j).dest = x /\ NoneOf(p, x, 2, j)
          BY <3>3
        <4> QED
          BY <2>1, <2>4, <2>6, <3>1, <4>1
      <3> QED
        BY <2>2, <3>2, <3>3
    <2> QED
      BY <2>5, <2>6
  <1> QED
    BY <1>6, <1>7

\* The handlers of the sequential run are those of this one.
LEMMA SameDriver ==
    /\ \A lp, e : Sequential!Handle(lp, e) = Handle(lp, e)
    /\ \A lp, e : Sequential!Handled(lp, e) = Handled(lp, e)
    /\ \A lp : Sequential!Saved(lp) = Saved(lp)
    /\ \A lp, e, saved : Sequential!driver_neuron_event_commit(lp, e, saved)
                           = driver_neuron_event_commit(lp, e, saved)
    /\ \A events : Sequential!Sent(events) = Sent(events)
    /\ \A e, f : Sequential!Before(e, f) <=> Before(e, f)
  <1>1. \A lp, e : Sequential!event_spike_driven(lp, e) = event_spike_driven(lp, e)
    <2>1. \A lp, e : Sequential!AskHeartbeat(lp, e) = AskHeartbeat(lp, e)
      BY DEF Sequential!AskHeartbeat, AskHeartbeat, Sequential!heartbeat, heartbeat,
             Sequential!find_prev_heartbeat_time, find_prev_heartbeat_time
    <2>2. \A lp, t : Sequential!UpToDate(lp, t) = UpToDate(lp, t)
      BY DEF Sequential!UpToDate, UpToDate, Sequential!IsBehind, IsBehind,
             Sequential!BeatsBehind, BeatsBehind,
             Sequential!find_prev_heartbeat_time, find_prev_heartbeat_time
    <2>3. \A n, t : Sequential!send_spike(n, t) = send_spike(n, t)
      BY DEF Sequential!send_spike, send_spike, Sequential!spike, spike,
             Sequential!delay_double, delay_double, Sequential!Id, Id
    <2> QED
      BY <2>1, <2>2, <2>3
      DEF Sequential!event_spike_driven, event_spike_driven, Sequential!AfterBeat, AfterBeat,
          Sequential!leak_and_fire, leak_and_fire
  <1>2. \A lp, e : Sequential!event_needy(lp, e) = event_needy(lp, e)
    <2>1. \A n, t : Sequential!send_spike(n, t) = send_spike(n, t)
      BY DEF Sequential!send_spike, send_spike, Sequential!spike, spike,
             Sequential!delay_double, delay_double, Sequential!Id, Id
    <2>2. \A n, t : Sequential!send_heartbeat(n, t) = send_heartbeat(n, t)
      BY DEF Sequential!send_heartbeat, send_heartbeat, Sequential!heartbeat, heartbeat,
             Sequential!Id, Id
    <2> QED
      BY <2>1, <2>2 DEF Sequential!event_needy, event_needy, Sequential!leak_and_fire, leak_and_fire
  <1>3. \A lp, e : Sequential!Handle(lp, e) = Handle(lp, e)
    BY <1>1, <1>2 DEF Sequential!Handle, Handle
  <1>4. \A lp, e : Sequential!Handled(lp, e) = Handled(lp, e)
    BY <1>3 DEF Sequential!Handled, Handled
  <1>5. \A lp : Sequential!Saved(lp) = Saved(lp)
    BY DEF Sequential!Saved, Saved
  <1>6. \A lp, e, saved : Sequential!driver_neuron_event_commit(lp, e, saved)
                            = driver_neuron_event_commit(lp, e, saved)
    BY DEF Sequential!driver_neuron_event_commit, driver_neuron_event_commit
  <1>7. \A events : Sequential!Sent(events) = Sent(events)
    BY DEF Sequential!Sent, Sent
  <1>8. \A e, f : Sequential!Before(e, f) <=> Before(e, f)
    BY DEF Sequential!Before, Before, Sequential!Priority, Priority
  <1> QED
    BY <1>3, <1>4, <1>5, <1>6, <1>7, <1>8

LEMMA SequentialInit ==
    ASSUME Init
    PROVE  Sequential!Init
  <1>1. \A n \in Neurons : CommittedLP(n) = Sequential!initialize_NeuronLP(n)
    <2>1. ASSUME NEW n \in Neurons
          PROVE  CommittedLP(n) = lps[n]
      <3>1. processed[PEOf[n]] = <<>>
        BY PEAssumption DEF Init
      <3>2. DOMAIN processed[PEOf[n]] = {}
        BY <3>1
      <3> QED
        BY <3>2 DEF CommittedLP
    <2> QED
      BY <2>1 DEF Init, initialize_NeuronLP, Sequential!initialize_NeuronLP
  <1>2. \E input \in SpikeInputs :
           due = Sequential!Sent(UNION {Sequential!driver_neuron_init(n, input[n]) : n \in Neurons})
    <2>1. \A n, array : Sequential!driver_neuron_init(n, array) = driver_neuron_init(n, array)
      BY DEF Sequential!driver_neuron_init, driver_neuron_init,
             Sequential!send_spike_from_StorableSpike, send_spike_from_StorableSpike,
             Sequential!spike, spike, Sequential!Id, Id,
             Sequential!send_heartbeat, send_heartbeat, Sequential!heartbeat, heartbeat
    <2>2. \A input : {Sequential!driver_neuron_init(n, input[n]) : n \in Neurons}
                       = {driver_neuron_init(n, input[n]) : n \in Neurons}
      BY <2>1
    <2> QED
      BY <2>2, SameDriver DEF Init
  <1>3. horizon = 0 /\ trace = {}
    BY DEF Init
  <1> QED
    BY <1>1, <1>2, <1>3 DEF Sequential!Init

LEMMA SequentialStutters ==
    ASSUME \A n \in Neurons : CommittedLP(n)' = CommittedLP(n), UNCHANGED <<due, horizon, trace>>
    PROVE  UNCHANGED Sequential!vars
  <1>1. [n \in Neurons |-> CommittedLP(n)]' = [n \in Neurons |-> CommittedLP(n)]
    OBVIOUS
  <1> QED
    BY <1>1 DEF Sequential!vars

LEMMA SequentialProcess ==
    ASSUME NEW S, NeuronModel(S), IInv(S), IInv(S)', NEW p \in PEs, NEW e, NEW r,
           Settles(p, e, r)
    PROVE  Sequential!Process(e)
  <1> DEFINE old == [n \in Neurons |-> CommittedLP(n)]
             new == [n \in Neurons |-> CommittedLP(n)']
             lp == old[e.dest]
  <1>1. /\ e.time = horizon /\ \A f \in due : ~ Before(f, e)
        /\ due' = (due \ {e}) \cup r.sent
        /\ trace' = trace \cup driver_neuron_event_commit(Handle(r.before, e).lp,
                                                          Handled(r.before, e), Saved(r.before))
        /\ horizon' = horizon /\ InRun(e)
    BY DEF Settles
  <1>2. e.dest \in Neurons
    BY <1>1 DEF InRun, IsEvent
  <1>3. /\ CommittedLP(e.dest) = r.before
        /\ CommittedLP(e.dest)' = Handle(r.before, e).lp
        /\ \A n \in Neurons : n # e.dest => CommittedLP(n)' = CommittedLP(n)
    BY <1>2, SettlesCommitted
  <1>4. lp = r.before
    BY <1>2, <1>3
  <1>5. r.sent = Sent(Handle(r.before, e).sent)
    BY SettledRecord
  <1>6. new = [old EXCEPT ![e.dest] = Handle(lp, e).lp]
    <2>1. \A n \in Neurons : new[n] = IF n = e.dest THEN Handle(lp, e).lp ELSE old[n]
      BY <1>3, <1>4
    <2> QED
      BY <2>1
  <1>7. /\ new = [old EXCEPT ![e.dest] = Sequential!Handle(lp, e).lp]
        /\ due' = (due \ {e}) \cup Sequential!Sent(Sequential!Handle(lp, e).sent)
        /\ trace' = trace \cup Sequential!driver_neuron_event_commit(Sequential!Handle(lp, e).lp,
                                   Sequential!Handled(lp, e), Sequential!Saved(lp))
        /\ \A f \in due : ~ Sequential!Before(f, e)
    <2> HIDE DEF old, new, lp
    <2> QED
      BY <1>1, <1>4, <1>5, <1>6, SameDriver
  <1>8. /\ old = [n \in Neurons |-> CommittedLP(n)]
        /\ new = [n \in Neurons |-> CommittedLP(n)]'
    OBVIOUS
  <1>9. lp = [n \in Neurons |-> CommittedLP(n)][e.dest]
    OBVIOUS
  <1> HIDE DEF old, new, lp
  <1> QED
    BY <1>1, <1>7, <1>8, <1>9 DEF Sequential!Process

LEMMA SequentialTick ==
    ASSUME NEW S, IInv(S), AdvanceHorizon
    PROVE  Sequential!Tick
  <1>1. /\ horizon + 1 < End /\ horizon' = horizon + 1
        /\ UNCHANGED <<lps, pending, processed, channel, due, trace>>
    BY DEF AdvanceHorizon
  <1>2. \A e \in due : e.time > horizon
    BY HorizonFar
  <1>3. [n \in Neurons |-> CommittedLP(n)]' = [n \in Neurons |-> CommittedLP(n)]
    BY <1>1 DEF CommittedLP
  <1> QED
    BY <1>1, <1>2, <1>3 DEF Sequential!Tick

LEMMA SequentialStep ==
    ASSUME NEW S, NeuronModel(S), IInv(S), IInv(S)', [Next]_vars
    PROVE  [Sequential!Next]_Sequential!vars
  <1>1. CASE \E p \in PEs : Process(p)
    <2>1. PICK p \in PEs : Process(p)
      BY <1>1
    <2>2. PICK e, r : Forward(p, e, r) /\ IsRecord(r, S)
      BY <2>1, ProcessForward
    <2>3. \A n \in Neurons : CommittedLP(n)' = CommittedLP(n)
      BY <2>2, ForwardCommitted
    <2>4. UNCHANGED <<due, horizon, trace>>
      BY <2>2 DEF Forward
    <2> QED
      BY <2>3, <2>4, SequentialStutters
  <1>2. CASE \E p \in PEs : Commit(p)
    <2>1. PICK p \in PEs : Commit(p)
      BY <1>2
    <2>2. PICK e, r : Settles(p, e, r)
      BY <2>1, CommitSettles
    <2>3. e \in due
      BY <2>2 DEF Settles
    <2>4. Sequential!Process(e)
      BY <2>2, SequentialProcess
    <2> QED
      BY <2>3, <2>4 DEF Sequential!Next
  <1>3. CASE \E p, q \in PEs : ReceiveEvent(q, p) \/ ReceiveAnti(q, p)
    <2>1. PICK p \in PEs, q \in PEs : ReceiveEvent(q, p) \/ ReceiveAnti(q, p)
      BY <1>3
    <2>2. PICK i, m : Takes(q, p, i, m)
      BY <2>1, ReceiveTakes
    <2>3. \A n \in Neurons : CommittedLP(n)' = CommittedLP(n)
      BY <2>2, TakesCommitted
    <2>4. UNCHANGED <<due, horizon, trace>>
      BY <2>2 DEF Takes
    <2> QED
      BY <2>3, <2>4, SequentialStutters
  <1>4. CASE AdvanceHorizon
    BY <1>4, SequentialTick DEF Sequential!Next
  <1>5. CASE UNCHANGED vars
    <2>1. UNCHANGED <<lps, processed, due, horizon, trace>>
      BY <1>5 DEF vars
    <2>2. \A n \in Neurons : CommittedLP(n)' = CommittedLP(n)
      BY <2>1 DEF CommittedLP
    <2> QED
      BY <2>1, <2>2, SequentialStutters
  <1> QED
    BY <1>1, <1>2, <1>3, <1>4, <1>5 DEF Next, Finished

\* For every placement, every order of the messages and every neuron model with an exact
\* undo: what an optimistic run commits, and what its probes write down, is a run of the
\* sequential scheduler on the same network.
THEOREM RunIsSequential ==
    ASSUME NEW CONSTANT S, NeuronModel(S)
    PROVE  Spec => ImplementsSequential
  <1>1. Init => Sequential!Init
    BY SequentialInit
  <1>2. IInv(S) /\ IInv(S)' /\ [Next]_vars => [Sequential!Next]_Sequential!vars
    BY SequentialStep
  <1>3. Spec => []IInv(S)
    BY IInvHolds
  <1> QED
    BY <1>1, <1>2, <1>3, PTL DEF Spec, ImplementsSequential
=============================================================================
