--------------------------- MODULE NeuronDriverProofs --------------------------
(***************************************************************************)
(* What the handlers of NeuronDriver do to an LP and what they schedule,   *)
(* in both modes of execution, whatever scheduler calls them; that an      *)
(* event handled and then undone leaves no trace; and the arithmetic and   *)
(* the induction that the proofs about a run rest on.  LIF and LIF-beta    *)
(* are neuron models the driver may be given: their states have what       *)
(* HandlerAssertsHold and SpikeDrivenIsTheNetwork of SequentialRunProofs,  *)
(* UndoneIsUndone and the theorems of TimeWarpProofs ask of a model.       *)
(***************************************************************************)
EXTENDS NeuronDriver, LifNeuron, LifBetaNeuron, FiniteSetTheorems, WellFoundedInduction, TLAPS

-----------------------------------------------------------------------------
(* Induction over the natural numbers, with the set of those that have the  *)
(* property as its parameter.                                               *)

\* A set of natural numbers has a least element: among the intervals up to an element of
\* it there is one that is minimal.
LEMMA Least ==
    ASSUME NEW T, T \subseteq Nat, T # {}
    PROVE  \E m \in T : \A n \in T : m <= n
  <1> DEFINE R == StrictSubsetOrdering(Nat)
             F == {0 .. m : m \in T}
  <1>1. IsWellFoundedOn(R, FiniteSubsetsOf(Nat))
    BY FS_StrictSubsetOrderingWellFounded
  <1>2. F \subseteq FiniteSubsetsOf(Nat) /\ F # {}
    <2>1. \A m \in T : 0 .. m \in FiniteSubsetsOf(Nat)
      BY FS_Interval DEF FiniteSubsetsOf
    <2> QED
      BY <2>1
  <1>3. PICK x \in F : \A y \in F : <<y, x>> \notin R
    <2> HIDE DEF R, F
    <2> QED
      BY <1>1, <1>2, WFMin
  <1>4. PICK m \in T : x = 0 .. m
    OBVIOUS
  <1>5. ASSUME NEW n \in T, n < m
        PROVE  FALSE
    <2>1. <<0 .. n, 0 .. m>> \notin R
      BY <1>3, <1>4
    <2>2. 0 .. n \subseteq 0 .. m /\ m \in 0 .. m /\ m \notin 0 .. n
      BY <1>5
    <2>3. 0 .. n \in SUBSET Nat /\ 0 .. m \in SUBSET Nat
      OBVIOUS
    <2> HIDE DEF F
    <2> QED
      BY <2>1, <2>2, <2>3 DEF StrictSubsetOrdering
  <1> QED
    BY <1>5

LEMMA Induction ==
    ASSUME NEW P, 0 \in P, \A k \in Nat : k \in P => k + 1 \in P
    PROVE  \A k \in Nat : k \in P
  <1> DEFINE T == {k \in Nat : k \notin P}
  <1> SUFFICES ASSUME T # {} PROVE FALSE
    OBVIOUS
  <1>1. PICK m \in T : \A n \in T : m <= n
    <2>1. T \subseteq Nat
      OBVIOUS
    <2> HIDE DEF T
    <2> QED
      BY <2>1, Least
  <1>2. m \in Nat /\ m # 0
    OBVIOUS
  <1>3. m - 1 \in Nat /\ m - 1 \notin T
    BY <1>1, <1>2
  <1> QED
    BY <1>2, <1>3

-----------------------------------------------------------------------------
(* Arithmetic of heartbeats.                                                *)

LEMMA Division ==
    ASSUME NEW t \in Nat
    PROVE  /\ t \div Beat \in Nat
           /\ t % Beat \in 0 .. Beat - 1
           /\ t = Beat * (t \div Beat) + (t % Beat)
  BY DriverAssumption

\* A product grows with its factor.
LEMMA Product ==
    ASSUME NEW a \in Int, NEW b \in Int, a < b
    PROVE  a * Beat + Beat <= b * Beat
  BY DriverAssumption

LEMMA Remainder ==
    ASSUME NEW k \in Nat, NEW r \in 0 .. Beat - 1
    PROVE  /\ (k * Beat + r) % Beat = r
           /\ (k * Beat + r) \div Beat = k
  <1> DEFINE t == k * Beat + r
  <1>1. t \in Nat /\ Beat \in Nat /\ Beat > 0
    BY DriverAssumption
  <1>2. /\ t \div Beat \in Nat
        /\ t % Beat \in 0 .. Beat - 1
        /\ t = (t \div Beat) * Beat + (t % Beat)
    BY <1>1, Division
  <1> DEFINE q == t \div Beat
  <1>3. ~ (q < k)
    BY <1>1, <1>2, Product
  <1>4. ~ (k < q)
    BY <1>1, <1>2, Product
  <1>5. q = k
    BY <1>2, <1>3, <1>4
  <1> QED
    BY <1>1, <1>2, <1>5

Prev(t) == find_prev_heartbeat_time(t)

LEMMA PrevBeat ==
    ASSUME NEW t \in Nat
    PROVE  /\ Prev(t) \in Nat
           /\ Prev(t) <= t
           /\ t < Prev(t) + Beat
           /\ Prev(t) % Beat = 0
           /\ t % Beat = 0 => Prev(t) = t
  <1> DEFINE q == t \div Beat
             r == t % Beat
  <1>1. q \in Nat /\ r \in 0 .. Beat - 1 /\ t = Beat * q + r
    BY Division
  <1>2. Prev(t) = q * Beat
    BY DEF Prev, find_prev_heartbeat_time
  <1>3. q * Beat \in Nat /\ q * Beat = Beat * q
    BY <1>1, DriverAssumption
  <1>4. (q * Beat + 0) % Beat = 0
    BY <1>1, Remainder, DriverAssumption
  <1> HIDE DEF q, r
  <1>5. Prev(t) % Beat = 0
    BY <1>2, <1>3, <1>4
  <1> QED
    BY <1>1, <1>2, <1>3, <1>5, DriverAssumption DEF r

\* A multiple of a beat is that many beats.
LEMMA Multiple ==
    ASSUME NEW a \in Nat, a % Beat = 0
    PROVE  \E k \in Nat : a = k * Beat
  <1>1. a \div Beat \in Nat /\ a = Beat * (a \div Beat) + (a % Beat)
    BY Division
  <1>2. a = (a \div Beat) * Beat
    BY <1>1, DriverAssumption
  <1> QED
    BY <1>1, <1>2

LEMMA NextMultiple ==
    ASSUME NEW a \in Nat, a % Beat = 0
    PROVE  (a + Beat) % Beat = 0
  <1>1. PICK k \in Nat : a = k * Beat
    BY Multiple
  <1>2. ((k + 1) * Beat + 0) % Beat = 0
    BY Remainder, DriverAssumption
  <1>3. a + Beat = (k + 1) * Beat + 0
    BY <1>1, DriverAssumption
  <1> QED
    BY <1>2, <1>3

\* Prev(t) is the last multiple of a beat not after t.
LEMMA PrevIsLast ==
    ASSUME NEW a \in Nat, a % Beat = 0, NEW t \in Nat, a <= t
    PROVE  a <= Prev(t)
  <1>1. PICK k \in Nat : a = k * Beat
    BY Multiple
  <1>2. PICK m \in Nat : Prev(t) = m * Beat
    BY PrevBeat, Multiple
  <1>3. CASE k <= m
    <2>1. k = m \/ k < m
      BY <1>3
    <2> QED
      BY <1>1, <1>2, <2>1, Product, DriverAssumption
  <1>4. CASE m < k
    <2>1. Prev(t) + Beat <= a
      BY <1>1, <1>2, <1>4, Product
    <2> QED
      BY <2>1, PrevBeat, DriverAssumption
  <1> QED
    BY <1>3, <1>4

LEMMA ZeroIsABeat == Prev(0) = 0 /\ 0 % Beat = 0
  <1>1. (0 * Beat + 0) % Beat = 0
    BY Remainder, DriverAssumption
  <1>2. 0 * Beat + 0 = 0
    BY DriverAssumption
  <1>3. 0 % Beat = 0
    BY <1>1, <1>2
  <1> QED
    BY <1>3, PrevBeat

\* The clock reaches the next beat exactly one beat after the previous one.
LEMMA PrevTick ==
    ASSUME NEW t \in Nat
    PROVE  \/ Prev(t + 1) = Prev(t) /\ (t + 1) % Beat # 0
           \/ Prev(t + 1) = t + 1 /\ (t + 1) % Beat = 0 /\ t + 1 = Prev(t) + Beat
  <1>1. /\ Prev(t) \in Nat /\ Prev(t) <= t /\ t < Prev(t) + Beat /\ Prev(t) % Beat = 0
        /\ Beat \in Nat /\ Beat > 0
    BY PrevBeat, DriverAssumption
  <1>2. /\ Prev(t + 1) \in Nat /\ Prev(t + 1) <= t + 1 /\ t + 1 < Prev(t + 1) + Beat
        /\ Prev(t + 1) % Beat = 0 /\ ((t + 1) % Beat = 0 => Prev(t + 1) = t + 1)
    BY PrevBeat, t + 1 \in Nat
  <1>3. Prev(t) <= Prev(t + 1)
    BY <1>1, <1>2, PrevIsLast
  <1>4. CASE t + 1 = Prev(t) + Beat
    <2>1. (t + 1) % Beat = 0
      BY <1>1, <1>4, NextMultiple
    <2> QED
      BY <1>2, <1>4, <2>1
  <1>5. CASE t + 1 < Prev(t) + Beat
    <2>1. Prev(t + 1) <= t
      <3>1. CASE Prev(t + 1) = t + 1
        <4>1. PICK k \in Nat : Prev(t) = k * Beat
          BY <1>1, Multiple
        <4>2. PICK m \in Nat : Prev(t + 1) = m * Beat
          BY <1>2, Multiple
        <4>3. k < m
          BY <1>1, <3>1, <4>1, <4>2, Product, DriverAssumption
        <4>4. Prev(t) + Beat <= Prev(t + 1)
          BY <4>1, <4>2, <4>3, Product
        <4> QED
          BY <1>1, <1>5, <3>1, <4>4
      <3> QED
        BY <1>2, <3>1
    <2>2. Prev(t + 1) <= Prev(t)
      BY <1>2, <2>1, PrevIsLast
    <2>3. Prev(t + 1) = Prev(t)
      BY <1>1, <1>2, <1>3, <2>2
    <2>4. (t + 1) % Beat # 0
      BY <1>2, <2>1
    <2> QED
      BY <2>3, <2>4
  <1> QED
    BY <1>1, <1>4, <1>5

\* A spike sent at a beat arrives later and strictly between two beats.
LEMMA ArrivesMidBeat ==
    ASSUME NEW t \in Nat, t % Beat = 0, NEW delay \in Nat \ {0}
    PROVE  /\ t + delay_double(delay) \in Nat
           /\ t + delay_double(delay) > t
           /\ (t + delay_double(delay)) % Beat # 0
  <1> DEFINE half == Beat \div 2
  <1>1. half \in Nat /\ half > 0 /\ half < Beat /\ Beat = 2 * half
    BY DriverAssumption
  <1>2. PICK k \in Nat : t = k * Beat
    BY Multiple
  <1>3. delay - 1 \in Nat /\ k + (delay - 1) \in Nat
    OBVIOUS
  <1> HIDE DEF half
  <1>4. (2 * delay - 1) * half = (delay - 1) * (2 * half) + half
    BY <1>1, <1>3
  <1>5. delay_double(delay) = (delay - 1) * Beat + half
    BY <1>1, <1>4 DEF delay_double, half
  <1>6. (delay - 1) * Beat \in Nat
    BY <1>3, DriverAssumption
  <1>7. t + delay_double(delay) = (k + (delay - 1)) * Beat + half
    BY <1>1, <1>2, <1>3, <1>5, <1>6, DriverAssumption
  <1>8. ((k + (delay - 1)) * Beat + half) % Beat = half
    <2>1. half \in 0 .. Beat - 1
      BY <1>1, DriverAssumption
    <2> QED
      BY <1>3, <2>1, Remainder
  <1> QED
    BY <1>1, <1>5, <1>6, <1>7, <1>8

-----------------------------------------------------------------------------
(* What the handlers leave behind.                                          *)

IsLP(r) == r = [neuron              |-> r.neuron,
                last_heartbeat      |-> r.last_heartbeat,
                next_heartbeat_sent |-> r.next_heartbeat_sent]

IsEvent(e) ==
    /\ e = [type |-> e.type, dest |-> e.dest, time |-> e.time, current |-> e.current,
            id |-> e.id, fired |-> e.fired]
    /\ e.type \in {"heartbeat", "spike"}
    /\ e.dest \in Neurons
    /\ e.time \in Nat
    /\ e.current \in Int
    /\ e.fired = FALSE

\* The elements of a sequence, whatever they are.
LEMMA Element ==
    ASSUME NEW T, NEW s \in Seq(T), NEW i \in DOMAIN s
    PROVE  s[i] \in T
  OBVIOUS

LEMMA NewHeartbeat ==
    ASSUME NEW n \in Neurons, NEW t \in Nat, NEW id
    PROVE  LET h == heartbeat(n, t, id)
           IN  /\ IsEvent(h) /\ h.type = "heartbeat" /\ h.dest = n /\ h.time = t
               /\ h.current = 0 /\ h.id = id
  BY DEF IsEvent, heartbeat

LEMMA NewSpike ==
    ASSUME NEW n \in Neurons, NEW t \in Nat, NEW w \in Int, NEW id
    PROVE  LET s == spike(n, t, w, id)
           IN  /\ IsEvent(s) /\ s.type = "spike" /\ s.dest = n /\ s.time = t
               /\ s.current = w /\ s.id = id
  BY DEF IsEvent, spike

\* Every event a handler sees comes after a beat and before the next one.
LEMMA EventBeat ==
    ASSUME NEW e, IsEvent(e)
    PROVE  /\ e.dest \in Neurons /\ e.time \in Nat /\ e.type \in {"heartbeat", "spike"}
           /\ Prev(e.time) \in Nat /\ Prev(e.time) + Beat \in Nat
           /\ Prev(e.time) <= e.time /\ e.time < Prev(e.time) + Beat
           /\ e.time % Beat = 0 => Prev(e.time) = e.time
  <1>1. e.dest \in Neurons /\ e.time \in Nat /\ e.type \in {"heartbeat", "spike"}
    BY DEF IsEvent
  <1>2. /\ Prev(e.time) \in Nat /\ Prev(e.time) <= e.time /\ e.time < Prev(e.time) + Beat
        /\ e.time % Beat = 0 => Prev(e.time) = e.time
    BY <1>1, PrevBeat
  <1> QED
    BY <1>1, <1>2, DriverAssumption

LEMMA SpikesSent ==
    ASSUME NEW n \in Neurons, NEW t \in Nat, t % Beat = 0,
           NEW s \in send_spike(n, t)
    PROVE  /\ IsEvent(s) /\ s.type = "spike" /\ s.time > t /\ s.time % Beat # 0
           /\ s.current \in Int /\ s.id.src = n /\ s.id.at = t
  <1>1. PICK i \in DOMAIN Synapses[n] :
           s = spike(Synapses[n][i].to, t + delay_double(Synapses[n][i].delay),
                     Synapses[n][i].weight, Id(n, t, i))
    BY DEF send_spike
  <1> DEFINE syn == Synapses[n][i]
  <1>2. syn \in [to : Neurons, weight : Int, delay : Nat \ {0}]
    <2>1. Synapses[n] \in Seq([to : Neurons, weight : Int, delay : Nat \ {0}])
      BY WiringAssumption
    <2> QED
      BY <1>1, <2>1, Element
  <1>3. syn.to \in Neurons /\ syn.delay \in Nat \ {0} /\ syn.weight \in Int
    BY <1>2
  <1>4. /\ t + delay_double(syn.delay) \in Nat
        /\ t + delay_double(syn.delay) > t
        /\ (t + delay_double(syn.delay)) % Beat # 0
    BY <1>3, ArrivesMidBeat
  <1> HIDE DEF syn
  <1>5. s = spike(syn.to, t + delay_double(syn.delay), syn.weight, Id(n, t, i))
    BY <1>1 DEF syn
  <1> QED
    BY <1>3, <1>4, <1>5, NewSpike DEF Id

LEMMA InputSpikes ==
    ASSUME NEW n \in Neurons, NEW input \in SpikeInputs,
           NEW s \in send_spike_from_StorableSpike(n, input[n])
    PROVE  /\ IsEvent(s) /\ s.type = "spike"
           /\ s.current \in Int /\ s.id.src = n /\ s.id.at = 0 /\ s.dest = n
  <1> DEFINE array == input[n]
  <1>1. array \in Seq([time : Nat, intensity : Int])
    BY WiringAssumption
  <1>2. PICK i \in DOMAIN array :
           s = spike(n, array[i].time, array[i].intensity, Id(n, 0, i))
    BY DEF send_spike_from_StorableSpike
  <1>3. array[i].time \in Nat /\ array[i].intensity \in Int
    <2>1. array[i] \in [time : Nat, intensity : Int]
      <3> HIDE DEF array
      <3> QED
        BY <1>1, <1>2, Element
    <2> QED
      BY <2>1
  <1> QED
    BY <1>2, <1>3, NewSpike DEF Id

\* What driver_neuron_init puts in the queue: a neuron's input spikes and, in needy
\* mode, its first heartbeat.
LEMMA FirstEvents ==
    ASSUME NEW n \in Neurons, NEW input \in SpikeInputs,
           NEW e \in driver_neuron_init(n, input[n])
    PROVE  /\ IsEvent(e)
           /\ e.current \in Int
           /\ e.type = "spike" => e.dest = n /\ e.id.src = n /\ e.id.at = 0
           /\ e.type = "heartbeat" => ~ SpikeDriven /\ e = heartbeat(n, Beat, Id(n, 0, 0))
  <1>1. CASE e \in send_spike_from_StorableSpike(n, input[n])
    <2>1. IsEvent(e) /\ e.type = "spike" /\ e.current \in Int /\ e.id.src = n /\ e.id.at = 0
          /\ e.dest = n
      BY <1>1, InputSpikes
    <2> QED
      BY <2>1
  <1>2. CASE ~ SpikeDriven /\ e = send_heartbeat(n, 0)
    <2>1. e = heartbeat(n, Beat, Id(n, 0, 0))
      BY <1>2, DriverAssumption DEF send_heartbeat
    <2>2. /\ IsEvent(heartbeat(n, Beat, Id(n, 0, 0)))
          /\ heartbeat(n, Beat, Id(n, 0, 0)).type = "heartbeat"
          /\ heartbeat(n, Beat, Id(n, 0, 0)).current = 0
      BY NewHeartbeat, DriverAssumption
    <2> QED
      BY <1>2, <2>1, <2>2
  <1> QED
    BY <1>1, <1>2 DEF driver_neuron_init

\* The LP after the handler.
LEMMA HandledLP ==
    ASSUME NEW lp, IsLP(lp), NEW e
    PROVE  LET new == Handle(lp, e).lp
           IN  /\ IsLP(new)
               /\ ~ SpikeDriven => /\ new.last_heartbeat = lp.last_heartbeat
                                   /\ new.next_heartbeat_sent = lp.next_heartbeat_sent
               /\ SpikeDriven /\ e.type = "heartbeat" =>
                     /\ new.last_heartbeat = e.time
                     /\ new.next_heartbeat_sent = FALSE
               /\ SpikeDriven /\ e.type # "heartbeat" =>
                     /\ new.last_heartbeat = IF IsBehind(lp, e.time) THEN Prev(e.time)
                                             ELSE lp.last_heartbeat
                     /\ new.next_heartbeat_sent = TRUE
  <1> DEFINE new == Handle(lp, e).lp
  <1>1. CASE ~ SpikeDriven
    <2>1. Handle(lp, e) = event_needy(lp, e)
      BY <1>1 DEF Handle
    <2> QED
      BY <1>1, <2>1 DEF event_needy, IsLP
  <1>2. CASE SpikeDriven /\ e.type = "heartbeat"
    <2>1. new = AfterBeat(leak_and_fire(lp.neuron).neuron, e.time)
      BY <1>2 DEF Handle, event_spike_driven
    <2> QED
      BY <1>2, <2>1 DEF AfterBeat, IsLP
  <1>3. CASE SpikeDriven /\ e.type # "heartbeat"
    <2>1. new = [UpToDate(lp, e.time) EXCEPT !.neuron = neuron_integrate(@, e.current),
                                             !.next_heartbeat_sent = TRUE]
      BY <1>3 DEF Handle, event_spike_driven
    <2>2. /\ IsLP(UpToDate(lp, e.time))
          /\ UpToDate(lp, e.time).last_heartbeat =
                IF IsBehind(lp, e.time) THEN Prev(e.time) ELSE lp.last_heartbeat
      BY DEF UpToDate, IsLP, Prev
    <2> QED
      BY <1>3, <2>1, <2>2 DEF IsLP
  <1> QED
    BY <1>1, <1>2, <1>3

\* The neuron stays in the state space of its model.
LEMMA HandledNeuron ==
    ASSUME NEW S, StateSpace(S), NEW lp, IsLP(lp), lp.neuron \in S, lp.last_heartbeat \in Nat,
           NEW e, IsEvent(e)
    PROVE  Handle(lp, e).lp.neuron \in S
  <1> DEFINE new == Handle(lp, e).lp
  <1>1. e.time \in Nat /\ e.current \in Int /\ Prev(e.time) \in Nat
    BY PrevBeat DEF IsEvent
  <1>2. /\ leak_and_fire(lp.neuron).neuron \in S
        /\ neuron_integrate(lp.neuron, e.current) \in S
    BY <1>1 DEF StateSpace
  <1>3. CASE ~ SpikeDriven
    BY <1>2, <1>3 DEF Handle, event_needy, IsLP
  <1>4. CASE SpikeDriven /\ e.type = "heartbeat"
    BY <1>2, <1>4 DEF Handle, event_spike_driven, AfterBeat
  <1>5. CASE SpikeDriven /\ e.type # "heartbeat"
    <2> DEFINE up == UpToDate(lp, e.time)
    <2>1. IsLP(up) /\ up.neuron \in S
      <3>1. CASE ~ IsBehind(lp, e.time)
        BY <3>1 DEF UpToDate
      <3>2. CASE IsBehind(lp, e.time)
        <4> DEFINE gap == Prev(e.time) - lp.last_heartbeat
        <4>1. gap \in Nat
          BY <1>1, <3>2 DEF IsBehind, Prev
        <4>2. gap \div Beat \in Nat
          <5> HIDE DEF gap
          <5> QED
            BY <4>1, Division
        <4>3. BeatsBehind(lp, e.time) \in Nat
          BY <4>2 DEF BeatsBehind, Prev
        <4>4. neuron_leak_bigdt(lp.neuron, BeatsBehind(lp, e.time)) \in S
          BY <1>5, <4>3 DEF StateSpace
        <4> QED
          BY <3>2, <4>4 DEF UpToDate, IsLP
      <3> QED
        BY <3>1, <3>2
    <2>2. neuron_integrate(up.neuron, e.current) \in S
      BY <1>1, <2>1 DEF StateSpace
    <2>3. new = [up EXCEPT !.neuron = neuron_integrate(@, e.current),
                           !.next_heartbeat_sent = TRUE]
      BY <1>5 DEF Handle, event_spike_driven
    <2> HIDE DEF up, new
    <2>4. new.neuron = neuron_integrate(up.neuron, e.current)
      BY <2>1, <2>3 DEF IsLP
    <2> QED
      BY <2>2, <2>4 DEF new
  <1> QED
    BY <1>3, <1>4, <1>5

\* The events a handler schedules: spikes of a neuron that fired, and at most one
\* heartbeat, the neuron's own and a beat after the previous beat.
LEMMA HandledSent ==
    ASSUME NEW lp, NEW e, IsEvent(e), e.type = "heartbeat" => e.time % Beat = 0,
           NEW s \in Handle(lp, e).sent
    PROVE  /\ IsEvent(s)
           /\ s.time > e.time
           /\ s.current \in Int
           /\ s.type = "spike" => /\ s.time % Beat # 0 /\ e.type = "heartbeat"
                                  /\ s.id.src = e.dest /\ s.id.at = e.time
           /\ s.type = "heartbeat" =>
                 /\ s.dest = e.dest
                 /\ s.time = Prev(e.time) + Beat
                 /\ IF SpikeDriven THEN e.type = "spike" /\ ~ lp.next_heartbeat_sent
                                   ELSE e.type = "heartbeat"
  <1> DEFINE next == Prev(e.time) + Beat
  <1>1. /\ e.dest \in Neurons /\ e.time \in Nat /\ e.type \in {"heartbeat", "spike"}
        /\ Prev(e.time) \in Nat /\ next \in Nat /\ next > e.time
        /\ (e.time % Beat = 0 => Prev(e.time) = e.time)
    BY EventBeat
  <1>2. ASSUME e.type = "heartbeat", s \in send_spike(e.dest, e.time)
        PROVE  /\ IsEvent(s) /\ s.time > e.time /\ s.type = "spike" /\ s.time % Beat # 0
               /\ s.current \in Int /\ s.id.src = e.dest /\ s.id.at = e.time
    BY <1>1, <1>2, SpikesSent
  <1>3. ASSUME NEW id, s = heartbeat(e.dest, next, id)
        PROVE  /\ IsEvent(s) /\ s.time > e.time /\ s.type = "heartbeat"
               /\ s.dest = e.dest /\ s.time = next /\ s.current \in Int
    BY <1>1, <1>3, NewHeartbeat
  <1>4. CASE ~ SpikeDriven
    <2>1. s \in event_needy(lp, e).sent
      BY <1>4 DEF Handle
    <2>2. e.type = "heartbeat"
      BY <2>1, <1>1 DEF event_needy
    <2>3. s = send_heartbeat(e.dest, e.time) \/ s \in send_spike(e.dest, e.time)
      BY <2>1, <2>2 DEF event_needy
    <2>4. send_heartbeat(e.dest, e.time) = heartbeat(e.dest, next, Id(e.dest, e.time, 0))
      BY <1>1, <2>2 DEF send_heartbeat
    <2> QED
      BY <1>2, <1>3, <1>4, <2>2, <2>3, <2>4
  <1>5. CASE SpikeDriven /\ e.type = "heartbeat"
    <2>1. s \in send_spike(e.dest, e.time)
      BY <1>5 DEF Handle, event_spike_driven
    <2> QED
      BY <1>2, <1>5, <2>1
  <1>6. CASE SpikeDriven /\ e.type = "spike"
    <2>1. s \in AskHeartbeat(lp, e)
      BY <1>6 DEF Handle, event_spike_driven
    <2>2. ~ lp.next_heartbeat_sent /\ s = heartbeat(e.dest, next, e.id)
      BY <2>1 DEF AskHeartbeat, Prev
    <2> QED
      BY <1>3, <1>6, <2>2
  <1> QED
    BY <1>1, <1>4, <1>5, <1>6

\* There are finitely many.
LEMMA HandledFinite ==
    ASSUME NEW lp, NEW e, e.dest \in Neurons
    PROVE  IsFiniteSet(Handle(lp, e).sent)
  <1>1. IsFiniteSet(DOMAIN Synapses[e.dest])
    <2>1. DOMAIN Synapses[e.dest] = 1 .. Len(Synapses[e.dest]) /\ Len(Synapses[e.dest]) \in Nat
      BY WiringAssumption
    <2> QED
      BY <2>1, FS_Interval
  <1>2. IsFiniteSet(send_spike(e.dest, e.time))
    <2> DEFINE n == e.dest
               Spike(i) == spike(Synapses[n][i].to, e.time + delay_double(Synapses[n][i].delay),
                                 Synapses[n][i].weight, Id(n, e.time, i))
               f == [i \in DOMAIN Synapses[n] |-> Spike(i)]
    <2>1. send_spike(n, e.time) = {f[i] : i \in DOMAIN Synapses[n]}
      BY DEF send_spike
    <2>2. f \in Surjection(DOMAIN Synapses[n], {f[i] : i \in DOMAIN Synapses[n]})
      <3> HIDE DEF Spike
      <3> QED
        BY DEF Surjection
    <2> HIDE DEF f
    <2> QED
      BY <1>1, <2>1, <2>2, FS_Surjection
  <1>3. \A h : IsFiniteSet({h}) /\ IsFiniteSet({h} \cup send_spike(e.dest, e.time))
    BY <1>2, FS_Singleton, FS_AddElement
  <1>4. IsFiniteSet({})
    BY FS_EmptySet
  <1>5. \/ Handle(lp, e).sent = {}
        \/ Handle(lp, e).sent = send_spike(e.dest, e.time)
        \/ \E h : \/ Handle(lp, e).sent = {h}
                 \/ Handle(lp, e).sent = {h} \cup send_spike(e.dest, e.time)
    <2>1. CASE SpikeDriven
      BY <2>1 DEF Handle, event_spike_driven, AskHeartbeat
    <2>2. CASE ~ SpikeDriven /\ e.type = "heartbeat"
      <3>1. \E h : Handle(lp, e).sent = {h} \cup (IF leak_and_fire(lp.neuron).fired
                                                 THEN send_spike(e.dest, e.time) ELSE {})
        BY <2>2 DEF Handle, event_needy
      <3> QED
        BY <3>1
    <2>3. CASE ~ SpikeDriven /\ e.type # "heartbeat"
      BY <2>3 DEF Handle, event_needy
    <2> QED
      BY <2>1, <2>2, <2>3
  <1> QED
    BY <1>2, <1>3, <1>4, <1>5

\* The heartbeat among them, and that there is only one.
LEMMA HandledHeartbeat ==
    ASSUME NEW lp, NEW e, IsEvent(e), e.type = "heartbeat" => e.time % Beat = 0,
           IF SpikeDriven THEN e.type = "spike" /\ ~ lp.next_heartbeat_sent
                          ELSE e.type = "heartbeat"
    PROVE  \E h \in Handle(lp, e).sent :
              /\ h.type = "heartbeat" /\ h.dest = e.dest /\ h.time = Prev(e.time) + Beat
              /\ \A g \in Handle(lp, e).sent : g.type = "heartbeat" => g = h
  <1> DEFINE next == Prev(e.time) + Beat
  <1>1. /\ e.dest \in Neurons /\ e.time \in Nat /\ next \in Nat
        /\ (e.time % Beat = 0 => Prev(e.time) = e.time)
    BY EventBeat
  <1>2. CASE ~ SpikeDriven
    <2> DEFINE h == send_heartbeat(e.dest, e.time)
    <2>1. h = heartbeat(e.dest, next, Id(e.dest, e.time, 0))
      BY <1>1, <1>2 DEF send_heartbeat
    <2>2. h.type = "heartbeat" /\ h.dest = e.dest /\ h.time = next
      BY <1>1, <2>1, NewHeartbeat
    <2>3. h \in Handle(lp, e).sent
      BY <1>2 DEF Handle, event_needy
    <2>4. ASSUME NEW g \in Handle(lp, e).sent, g.type = "heartbeat"
          PROVE  g = h
      <3>1. g = h \/ g \in send_spike(e.dest, e.time)
        BY <1>2, <2>4 DEF Handle, event_needy
      <3>2. g \notin send_spike(e.dest, e.time)
        BY <1>1, <1>2, <2>4, SpikesSent
      <3> QED
        BY <3>1, <3>2
    <2> HIDE DEF h
    <2> QED
      BY <2>2, <2>3, <2>4
  <1>3. CASE SpikeDriven
    <2> DEFINE h == heartbeat(e.dest, next, e.id)
    <2>1. h.type = "heartbeat" /\ h.dest = e.dest /\ h.time = next
      BY <1>1, NewHeartbeat
    <2>2. Handle(lp, e).sent = {h}
      BY <1>3 DEF Handle, event_spike_driven, AskHeartbeat, Prev
    <2> HIDE DEF h
    <2> QED
      BY <2>1, <2>2
  <1> QED
    BY <1>2, <1>3
-----------------------------------------------------------------------------
(* The reverse handlers.                                                    *)

LEMMA NeedyUndone ==
    ASSUME NEW lp, IsLP(lp), RestoredFromStore(lp.neuron), NEW e
    PROVE  event_reverse_needy(event_needy(lp, e).lp, Saved(lp)) = lp
<1> DEFINE changed == IF e.type = "heartbeat" THEN leak_and_fire(lp.neuron).neuron
                      ELSE neuron_integrate(lp.neuron, e.current)
<1>1. event_needy(lp, e).lp = [lp EXCEPT !.neuron = changed]
  BY DEF event_needy
<1>2. reverse_store_neuron(changed, store_neuron(lp.neuron)) = lp.neuron
  BY DEF RestoredFromStore
<1>3. Saved(lp).reserved_for_reverse = store_neuron(lp.neuron)
  BY DEF Saved
<1> HIDE DEF changed
<1> QED
  BY <1>1, <1>2, <1>3 DEF event_reverse_needy, IsLP

LEMMA SpikeDrivenUndone ==
    ASSUME SpikeDriven, NEW lp, IsLP(lp), RestoredFromStore(lp.neuron), NEW e
    PROVE  event_reverse_spike_driven(event_spike_driven(lp, e).lp, Saved(lp)) = lp
<1> DEFINE changed == event_spike_driven(lp, e).lp.neuron
<1>1. reverse_store_neuron(changed, store_neuron(lp.neuron)) = lp.neuron
  <2>1. CASE e.type = "heartbeat"
    <3>1. changed = leak_and_fire(lp.neuron).neuron
      BY <2>1 DEF event_spike_driven, AfterBeat
    <3> QED
      BY <3>1 DEF RestoredFromStore
  <2>2. CASE e.type # "heartbeat"
    <3>1. changed = neuron_integrate(UpToDate(lp, e.time).neuron, e.current)
      <4>1. UpToDate(lp, e.time) = [UpToDate(lp, e.time) EXCEPT
                                       !.neuron = UpToDate(lp, e.time).neuron]
        BY DEF UpToDate, IsLP
      <4> QED
        BY <2>2, <4>1 DEF event_spike_driven, UpToDate, IsLP
    <3>2. \/ UpToDate(lp, e.time).neuron = lp.neuron
          \/ UpToDate(lp, e.time).neuron
               = neuron_leak_bigdt(lp.neuron, BeatsBehind(lp, e.time))
      BY DEF UpToDate, IsLP
    <3> QED
      BY <3>1, <3>2 DEF RestoredFromStore
  <2> QED
    BY <2>1, <2>2
<1> QED
  BY <1>1 DEF event_reverse_spike_driven, Saved, IsLP

LEMMA ClearedFired ==
    ASSUME NEW e, NEW noted, NEW cleared,
           e = [type |-> e.type, dest |-> e.dest, time |-> e.time,
                current |-> e.current, id |-> e.id, fired |-> cleared]
    PROVE  [[e EXCEPT !.fired = noted] EXCEPT !.fired = cleared] = e
<1> DEFINE f == [e EXCEPT !.fired = noted]
<1>1. f = [type |-> e.type, dest |-> e.dest, time |-> e.time,
           current |-> e.current, id |-> e.id, fired |-> noted]
  OBVIOUS
<1>2. /\ f.type = e.type /\ f.dest = e.dest /\ f.time = e.time
      /\ f.current = e.current /\ f.id = e.id
  BY <1>1
<1> HIDE DEF f
<1>3. [f EXCEPT !.fired = cleared]
        = [type |-> e.type, dest |-> e.dest, time |-> e.time,
           current |-> e.current, id |-> e.id, fired |-> cleared]
  BY <1>1, <1>2
<1> QED
  BY <1>3, Zenon DEF f

\* neuron.c:206-218, 290-303. The reverse handler gives the LP back exactly as it was
\* before the forward handler, though in needy mode it leaves two of its fields alone,
\* and the message as it was sent, ready to be handled again.
THEOREM UndoneIsUndone ==
    ASSUME NEW lp, IsLP(lp), RestoredFromStore(lp.neuron),
           NEW e, e = [type |-> e.type, dest |-> e.dest, time |-> e.time,
                       current |-> e.current, id |-> e.id, fired |-> FALSE]
    PROVE  /\ Unhandle(Handle(lp, e).lp, Saved(lp)) = lp
           /\ Unhandled(Handled(lp, e)) = e
<1>1. Unhandle(Handle(lp, e).lp, Saved(lp)) = lp
  BY NeedyUndone, SpikeDrivenUndone DEF Unhandle, Handle
<1>2. CASE e.type = "heartbeat"
  <2>1. Handled(lp, e).type = "heartbeat"
    BY <1>2 DEF Handled
  <2>2. Unhandled(Handled(lp, e)) = [Handled(lp, e) EXCEPT !.fired = FALSE]
    BY <2>1, Zenon DEF Unhandled
  <2>3. Handled(lp, e) = [e EXCEPT !.fired = e.fired \/ Handle(lp, e).fired]
    BY Zenon DEF Handled
  <2>4. Unhandled(Handled(lp, e)) = e
    BY <2>2, <2>3, ClearedFired
  <2> QED
    BY <1>1, <2>4
<1>3. CASE e.type # "heartbeat"
  <2>1. Handle(lp, e).fired = FALSE
    BY <1>3 DEF Handle, event_needy, event_spike_driven
  <2>2. (e.fired \/ Handle(lp, e).fired) = FALSE
    BY <2>1
  <2>3. Handled(lp, e) = [e EXCEPT !.fired = e.fired \/ Handle(lp, e).fired]
    BY Zenon DEF Handled
  <2>4. Handled(lp, e) = e
    BY <2>2, <2>3
  <2>5. Unhandled(e) = [e EXCEPT !.fired = e.fired]
    BY <1>3, Zenon DEF Unhandled
  <2>6. Unhandled(e) = e
    BY <2>5
  <2> QED
    BY <1>1, <2>4, <2>6
<1> QED
  BY <1>2, <1>3
-----------------------------------------------------------------------------
(* Division by LeakDen, and the decay over a gap.                           *)

LEMMA Quotient ==
    ASSUME NEW D \in Nat \ {0}, NEW a \in Int
    PROVE  /\ a \div D \in Int /\ a % D \in 0 .. D - 1
           /\ a = (a \div D) * D + (a % D)
  OBVIOUS

LEMMA Exceeds ==
    ASSUME NEW D \in Nat \ {0}, NEW p \in Int, NEW q \in Int, p < q
    PROVE  p * D + D <= q * D
  <1> DEFINE k == q - p - 1
  <1>1. k \in Nat /\ q = p + 1 + k
    OBVIOUS
  <1>2. k * D \in Nat
    BY <1>1
  <1> HIDE DEF k
  <1>3. q * D = p * D + D + k * D
    BY <1>1
  <1> QED
    BY <1>2, <1>3

\* Floor division is the only way to write a number as a multiple and a remainder.
LEMMA QuotientIs ==
    ASSUME NEW D \in Nat \ {0}, NEW q \in Int, NEW r \in 0 .. D - 1
    PROVE  (q * D + r) \div D = q
  <1> DEFINE a == q * D + r
             p == a \div D
  <1>1. a \in Int
    OBVIOUS
  <1>2. p \in Int /\ a % D \in 0 .. D - 1 /\ a = p * D + (a % D)
    BY <1>1, Quotient
  <1>3. a = q * D + r
    OBVIOUS
  <1> HIDE DEF a, p
  <1>4. ~ (p < q)
    BY <1>2, <1>3, Exceeds
  <1>5. ~ (q < p)
    BY <1>2, <1>3, Exceeds
  <1> QED
    BY <1>2, <1>4, <1>5 DEF a, p

LEMMA QuotientShifts ==
    ASSUME NEW D \in Nat \ {0}, NEW m \in Int, NEW a \in Int
    PROVE  (m * D + a) \div D = m + (a \div D)
  <1> DEFINE q == a \div D
             r == a % D
  <1>1. q \in Int /\ r \in 0 .. D - 1 /\ a = q * D + r
    BY Quotient
  <1> HIDE DEF q, r
  <1>2. m * D + a = (m + q) * D + r
    BY <1>1
  <1>3. ((m + q) * D + r) \div D = m + q
    BY <1>1, QuotientIs
  <1> QED
    BY <1>2, <1>3 DEF q

\* A quotient does not pass a bound that its dividend keeps to.
LEMMA QuotientBelow ==
    ASSUME NEW D \in Nat \ {0}, NEW a \in Int, NEW m \in Int, a <= m * D
    PROVE  a \div D <= m
  <1> DEFINE q == a \div D
             r == a % D
  <1>1. q \in Int /\ r \in 0 .. D - 1 /\ a = q * D + r
    BY Quotient
  <1> HIDE DEF q, r
  <1>2. ~ (m < q)
    <2> SUFFICES ASSUME m < q PROVE FALSE
      OBVIOUS
    <2>1. m * D + D <= q * D
      BY <1>1, Exceeds
    <2> QED
      BY <1>1, <2>1
  <1> QED
    BY <1>1, <1>2 DEF q

DecayStep(distance, g) ==
    [i \in Nat |-> IF i = 0 THEN distance ELSE (g[i - 1] * DecayKeep) \div LeakDen]

\* The recursion has a solution: one that is correct up to k for every k.
LEMMA DecayExists ==
    ASSUME NEW distance \in Int
    PROVE  \E g : g = DecayStep(distance, g)
  <1> DEFINE UpTo(g, k) == \A i \in 0 .. k : g[i] = DecayStep(distance, g)[i]
             P == {k \in Nat : \E g : UpTo(g, k)}
             Q == {k \in Nat : \A g, h : UpTo(g, k) /\ UpTo(h, k) => g[k] = h[k]}
  <1>1. \A g : \A k \in Nat : UpTo(g, k + 1) => UpTo(g, k)
    OBVIOUS
  <1>2. \A k \in Nat : k \in P
    <2>1. 0 \in P
      <3>1. UpTo([i \in {0} |-> distance], 0)
        BY DEF DecayStep
      <3> HIDE DEF UpTo
      <3> QED
        BY <3>1
    <2>2. ASSUME NEW k \in Nat, k \in P PROVE k + 1 \in P
      <3>1. PICK g : UpTo(g, k)
        BY <2>2
      <3> DEFINE f == DecayStep(distance, g)
      <3>2. ASSUME NEW i \in 0 .. k + 1 PROVE f[i] = DecayStep(distance, f)[i]
        <4>1. i \in Nat
          OBVIOUS
        <4>2. CASE i = 0
          BY <4>2 DEF DecayStep
        <4>3. CASE i # 0
          <5>1. i - 1 \in 0 .. k /\ i - 1 \in Nat
            BY <4>1, <4>3
          <5>2. g[i - 1] = f[i - 1]
            BY <3>1, <5>1
          <5>3. f[i] = (g[i - 1] * DecayKeep) \div LeakDen
            BY <4>1, <4>3 DEF DecayStep
          <5> HIDE DEF f
          <5>4. DecayStep(distance, f)[i] = (f[i - 1] * DecayKeep) \div LeakDen
            BY <4>1, <4>3 DEF DecayStep
          <5> QED
            BY <5>2, <5>3, <5>4
        <4> QED
          BY <4>2, <4>3
      <3> HIDE DEF f
      <3> QED
        BY <3>2
    <2> HIDE DEF P
    <2> QED
      BY <2>1, <2>2, Induction
  <1>3. \A k \in Nat : k \in Q
    <2>1. 0 \in Q
      <3>1. ASSUME NEW g, UpTo(g, 0) PROVE g[0] = distance
        BY <3>1 DEF DecayStep
      <3> HIDE DEF UpTo
      <3> QED
        BY <3>1
    <2>2. ASSUME NEW k \in Nat, k \in Q PROVE k + 1 \in Q
      <3>1. ASSUME NEW g, UpTo(g, k + 1)
            PROVE  UpTo(g, k) /\ g[k + 1] = (g[k] * DecayKeep) \div LeakDen
        <4>1. k + 1 \in 0 .. k + 1 /\ k + 1 \in Nat /\ k + 1 # 0 /\ (k + 1) - 1 = k
          OBVIOUS
        <4>2. g[k + 1] = DecayStep(distance, g)[k + 1]
          BY <3>1, <4>1
        <4> QED
          BY <1>1, <3>1, <4>1, <4>2 DEF DecayStep
      <3> HIDE DEF UpTo
      <3> QED
        BY <2>2, <3>1
    <2> HIDE DEF Q
    <2> QED
      BY <2>1, <2>2, Induction
  <1> DEFINE Sol(k) == CHOOSE g : UpTo(g, k)
             h == [i \in Nat |-> Sol(i)[i]]
  <1>4. \A k \in Nat : UpTo(Sol(k), k)
    <2> HIDE DEF UpTo
    <2> QED
      BY <1>2
  <1>5. ASSUME NEW i \in Nat PROVE h[i] = DecayStep(distance, h)[i]
    <2>1. h[i] = DecayStep(distance, Sol(i))[i]
      <3>1. i \in 0 .. i
        OBVIOUS
      <3> HIDE DEF Sol
      <3> QED
        BY <1>4, <3>1
    <2>2. CASE i = 0
      BY <2>1, <2>2 DEF DecayStep
    <2>3. CASE i # 0
      <3> DEFINE j == i - 1
      <3>1. j \in Nat /\ j + 1 = i
        BY <2>3
      <3>2. UpTo(Sol(i), j) /\ UpTo(Sol(j), j)
        <4> HIDE DEF UpTo, Sol, j
        <4> QED
          BY <1>1, <1>4, <3>1
      <3>3. Sol(i)[j] = Sol(j)[j]
        <4>1. j \in Q
          BY <1>3, <3>1
        <4> HIDE DEF UpTo, Sol, j
        <4> QED
          BY <3>2, <4>1
      <3>4. h[j] = Sol(j)[j]
        BY <3>1
      <3> HIDE DEF Sol, h
      <3> QED
        BY <2>1, <2>3, <3>3, <3>4 DEF DecayStep
    <2> QED
      BY <2>2, <2>3
  <1>6. DecayStep(distance, h) = [i \in Nat |-> DecayStep(distance, h)[i]]
    BY DEF DecayStep
  <1>7. h = [i \in Nat |-> h[i]]
    OBVIOUS
  <1> HIDE DEF h
  <1>8. h = DecayStep(distance, h)
    BY <1>5, <1>6, <1>7
  <1> QED
    BY <1>8

\* What a leak over a gap does to the distance from rest, beat by beat.
LEMMA DecayedByBeats ==
    ASSUME NEW distance \in Int
    PROVE  /\ Decayed(distance, 0) = distance
           /\ \A j \in Nat :
                 /\ Decayed(distance, j) \in Int
                 /\ Decayed(distance, j + 1) = (Decayed(distance, j) * DecayKeep) \div LeakDen
  <1> DEFINE d == CHOOSE g : g = DecayStep(distance, g)
  <1>1. d = DecayStep(distance, d)
    <2>1. \E g : g = DecayStep(distance, g)
      BY DecayExists
    <2> QED
      BY <2>1, Zenon
  <1>2. \A j : Decayed(distance, j) = d[j]
    BY DEF Decayed, DecayStep
  <1> HIDE DEF d
  <1>3. d[0] = distance /\ \A j \in Nat : d[j + 1] = (d[j] * DecayKeep) \div LeakDen
    <2>1. d[0] = distance
      BY <1>1 DEF DecayStep
    <2>2. ASSUME NEW j \in Nat PROVE d[j + 1] = (d[j] * DecayKeep) \div LeakDen
      <3>1. j + 1 \in Nat /\ j + 1 # 0 /\ (j + 1) - 1 = j
        OBVIOUS
      <3>2. d[j + 1] = DecayStep(distance, d)[j + 1]
        BY <1>1
      <3> QED
        BY <3>1, <3>2 DEF DecayStep
    <2> QED
      BY <2>1, <2>2
  <1> DEFINE P == {j \in Nat : d[j] \in Int}
  <1>4. \A j \in Nat : j \in P
    <2>1. 0 \in P
      BY <1>3
    <2>2. ASSUME NEW j \in Nat, j \in P PROVE j + 1 \in P
      <3>1. d[j] \in Int /\ DecayKeep \in Int /\ LeakDen \in Nat \ {0}
        BY <2>2, LifAssumption
      <3>2. (d[j] * DecayKeep) \div LeakDen \in Int
        BY <3>1, Quotient
      <3> QED
        BY <1>3, <3>2
    <2> HIDE DEF P
    <2> QED
      BY <2>1, <2>2, Induction
  <1> QED
    BY <1>2, <1>3, <1>4

-----------------------------------------------------------------------------
(* LIF.                                                                     *)

\* A neuron that cannot reach its threshold by resting; its fields may have any value
\* the arithmetic gives them.
IsLif(x) ==
    /\ x = [potential |-> x.potential, current |-> x.current,
            resting_potential |-> x.resting_potential,
            reset_potential |-> x.reset_potential,
            threshold |-> x.threshold, resistance |-> x.resistance]
    /\ x.threshold > x.resting_potential

\* lif.c:5-38. After a beat a LIF neuron is ready to be leaked over any gap: the beat
\* uses up its current, fire or not, and nothing changes its threshold. Leaks over a gap
\* and spikes keep it a LIF neuron.
THEOREM LifKeepsNoCurrent ==
    ASSUME NEW x, IsLif(x)
    PROVE  LET beat == neurons_lif_fire(neurons_lif_leak(x)).neuron
           IN  /\ IsLif(beat) /\ BigLeakAllowed(beat)
               /\ \A beats : IsLif(neurons_lif_big_leak(x, beats))
               /\ \A current : IsLif(neurons_lif_integrate(x, current))
               /\ x.current = 0 => BigLeakAllowed(x)
  <1> DEFINE leaked == neurons_lif_leak(x)
             beat   == neurons_lif_fire(leaked).neuron
  <1>1. IsLif(leaked)
    BY DEF IsLif, neurons_lif_leak
  <1> HIDE DEF leaked
  <1>2. IsLif(beat) /\ beat.current = 0
    BY <1>1 DEF IsLif, neurons_lif_fire
  <1>3. BigLeakAllowed(beat)
    BY <1>2 DEF IsLif, BigLeakAllowed
  <1>4. \A beats : IsLif(neurons_lif_big_leak(x, beats))
    BY DEF IsLif, neurons_lif_big_leak
  <1>5. \A current : IsLif(neurons_lif_integrate(x, current))
    BY DEF IsLif, neurons_lif_integrate
  <1>6. x.current = 0 => BigLeakAllowed(x)
    BY DEF IsLif, BigLeakAllowed
  <1> QED
    BY <1>2, <1>3, <1>4, <1>5, <1>6 DEF leaked

\* lif.c:41-54. The two fields that a message carries are all that a beat, a leak over a
\* gap or a spike changes: what RestoredFromStore of NeuronDriverProofs asks of a neuron model.
THEOREM LifRestored ==
    ASSUME NEW x, IsLif(x)
    PROVE  LET back(changed) ==
                  neurons_lif_reverse_store_state(changed, neurons_lif_store_state(x))
           IN  /\ back(neurons_lif_fire(neurons_lif_leak(x)).neuron) = x
               /\ \A current : back(neurons_lif_integrate(x, current)) = x
               /\ \A beats, current :
                     back(neurons_lif_integrate(neurons_lif_big_leak(x, beats), current)) = x
  <1> DEFINE back(changed) ==
                neurons_lif_reverse_store_state(changed, neurons_lif_store_state(x))
             Differs(y) ==
                /\ y = [potential |-> y.potential, current |-> y.current,
                        resting_potential |-> y.resting_potential,
                        reset_potential |-> y.reset_potential,
                        threshold |-> y.threshold, resistance |-> y.resistance]
                /\ y.resting_potential = x.resting_potential
                /\ y.reset_potential = x.reset_potential
                /\ y.threshold = x.threshold /\ y.resistance = x.resistance
  <1>1. ASSUME NEW y, Differs(y) PROVE back(y) = x
    <2>1. Differs(back(y)) /\ back(y).potential = x.potential /\ back(y).current = x.current
      <3> DEFINE stored == neurons_lif_store_state(x)
      <3>1. stored.potential = x.potential /\ stored.current = x.current
        BY DEF neurons_lif_store_state
      <3> HIDE DEF stored
      <3>2. /\ Differs(neurons_lif_reverse_store_state(y, stored))
            /\ neurons_lif_reverse_store_state(y, stored).potential = stored.potential
            /\ neurons_lif_reverse_store_state(y, stored).current = stored.current
        <4>1. Differs(neurons_lif_reverse_store_state(y, stored))
          <5> DEFINE half == [y EXCEPT !.potential = stored.potential]
          <5>1. Differs(half)
            BY <1>1
          <5>2. neurons_lif_reverse_store_state(y, stored)
                  = [half EXCEPT !.current = stored.current]
            BY <1>1 DEF neurons_lif_reverse_store_state
          <5> HIDE DEF half
          <5>3. Differs([half EXCEPT !.current = stored.current])
            BY <5>1
          <5> HIDE DEF Differs
          <5> QED
            BY <5>2, <5>3
        <4>2. neurons_lif_reverse_store_state(y, stored).potential = stored.potential
          BY <1>1 DEF neurons_lif_reverse_store_state
        <4>3. neurons_lif_reverse_store_state(y, stored).current = stored.current
          BY <1>1 DEF neurons_lif_reverse_store_state
        <4> QED
          BY <4>1, <4>2, <4>3
      <3> QED
        BY <3>1, <3>2 DEF stored
    <2> HIDE DEF back
    <2> QED
      BY <2>1 DEF IsLif
  <1>2. Differs(neurons_lif_leak(x))
    BY DEF IsLif, neurons_lif_leak
  <1>3. ASSUME NEW y, Differs(y) PROVE Differs(neurons_lif_fire(y).neuron)
    BY <1>3 DEF neurons_lif_fire
  <1>4. ASSUME NEW y, Differs(y), NEW current PROVE Differs(neurons_lif_integrate(y, current))
    BY <1>4 DEF neurons_lif_integrate
  <1>5. \A beats : Differs(neurons_lif_big_leak(x, beats))
    BY DEF IsLif, neurons_lif_big_leak
  <1>6. Differs(x)
    BY DEF IsLif
  <1> HIDE DEF back, Differs
  <1>7. back(neurons_lif_fire(neurons_lif_leak(x)).neuron) = x
    BY <1>1, <1>2, <1>3
  <1>8. \A current : back(neurons_lif_integrate(x, current)) = x
    BY <1>1, <1>4, <1>6
  <1>9. \A beats, current :
            back(neurons_lif_integrate(neurons_lif_big_leak(x, beats), current)) = x
    BY <1>1, <1>4, <1>5
  <1> QED
    BY <1>7, <1>8, <1>9 DEF back
\* The driver with LIF neurons.
Lif == INSTANCE NeuronDriver WITH
    neuron_leak          <- neurons_lif_leak,
    neuron_leak_bigdt    <- neurons_lif_big_leak,
    neuron_integrate     <- neurons_lif_integrate,
    neuron_fire          <- neurons_lif_fire,
    store_neuron         <- neurons_lif_store_state,
    reverse_store_neuron <- neurons_lif_reverse_store_state,
    leak_bigdt_ready     <- BigLeakAllowed

LifStates ==
    {x \in [potential : Int, current : Int, resting_potential : Int,
            reset_potential : Int, threshold : Int, resistance : Int] :
        x.threshold > x.resting_potential}

LEMMA LifFields ==
    ASSUME NEW x \in LifStates
    PROVE  /\ IsLif(x)
           /\ x.potential \in Int /\ x.current \in Int /\ x.resting_potential \in Int
           /\ x.reset_potential \in Int /\ x.threshold \in Int /\ x.resistance \in Int
  BY DEF LifStates, IsLif

LEMMA LifLeaks ==
    ASSUME NEW x \in LifStates
    PROVE  neurons_lif_leak(x) \in LifStates
  <1> DEFINE drive == x.resting_potential - x.potential + x.current * x.resistance
  <1>1. drive \in Int
    BY LifFields
  <1>2. (drive * LeakNum) \div LeakDen \in Int
    <2> HIDE DEF drive
    <2>1. drive * LeakNum \in Int /\ LeakDen \in Nat \ {0}
      BY <1>1, LifAssumption
    <2> QED
      BY <2>1, Quotient
  <1>3. neurons_lif_leak(x) = [x EXCEPT !.potential = @ + (drive * LeakNum) \div LeakDen]
    BY DEF neurons_lif_leak
  <1> HIDE DEF drive
  <1> DEFINE step == (drive * LeakNum) \div LeakDen
  <1>4. step \in Int /\ neurons_lif_leak(x) = [x EXCEPT !.potential = @ + step]
    BY <1>2, <1>3
  <1> HIDE DEF step
  <1> QED
    BY <1>4 DEF LifStates

LEMMA LifFires ==
    ASSUME NEW x \in LifStates
    PROVE  LET y == neurons_lif_fire(x).neuron
           IN  /\ y \in LifStates /\ y.current = 0
               /\ y.reset_potential = x.reset_potential /\ y.threshold = x.threshold
               /\ y.potential = IF x.potential > x.threshold THEN x.reset_potential ELSE x.potential
  <1> DEFINE p == IF x.potential > x.threshold THEN x.reset_potential ELSE x.potential
  <1>1. p \in Int
    BY LifFields
  <1>2. neurons_lif_fire(x).neuron = [[x EXCEPT !.potential = p] EXCEPT !.current = 0]
    BY DEF neurons_lif_fire, LifStates
  <1> HIDE DEF p
  <1> DEFINE h == [x EXCEPT !.potential = p]
  <1>3. /\ h \in LifStates /\ h.potential = p
        /\ h.reset_potential = x.reset_potential /\ h.threshold = x.threshold
    BY <1>1 DEF LifStates
  <1> HIDE DEF h
  <1> DEFINE y == [h EXCEPT !.current = 0]
  <1>4. /\ y \in LifStates /\ y.current = 0 /\ y.potential = h.potential
        /\ y.reset_potential = h.reset_potential /\ y.threshold = h.threshold
    BY <1>3 DEF LifStates
  <1> HIDE DEF y
  <1>5. neurons_lif_fire(x).neuron = y
    BY <1>2 DEF y, h
  <1> QED
    BY <1>3, <1>4, <1>5 DEF p

\* lif.c, neuron.h:172-182. LIF is a model the driver may be given, in either mode: a
\* neuron whose threshold is above its resting potential stays one, whatever the driver
\* calls, and what the message stores of it brings it back.
THEOREM LifIsANeuronModel ==
    ASSUME \A n \in Neurons : InitialNeuron[n] \in LifStates
    PROVE  Lif!NeuronModel(LifStates)
  <1>1. ASSUME NEW x \in LifStates
        PROVE  /\ Lif!leak_and_fire(x).neuron \in LifStates
               /\ \A current \in Int : neurons_lif_integrate(x, current) \in LifStates
               /\ \A beats \in Nat : neurons_lif_big_leak(x, beats) \in LifStates
    <2>1. Lif!leak_and_fire(x).neuron \in LifStates
      <3> DEFINE y == neurons_lif_leak(x)
      <3>1. y \in LifStates
        BY LifLeaks
      <3> HIDE DEF y
      <3>2. neurons_lif_fire(y).neuron \in LifStates
        BY <3>1, LifFires
      <3> QED
        BY <3>2 DEF y, Lif!leak_and_fire
    <2>2. ASSUME NEW current \in Int PROVE neurons_lif_integrate(x, current) \in LifStates
      BY DEF neurons_lif_integrate, LifStates
    <2>3. ASSUME NEW beats \in Nat PROVE neurons_lif_big_leak(x, beats) \in LifStates
      <3> DEFINE left == Decayed(x.potential - x.resting_potential, beats)
      <3>1. left \in Int
        <4>1. x.potential - x.resting_potential \in Int
          BY LifFields
        <4> QED
          BY <4>1, DecayedByBeats
      <3>2. neurons_lif_big_leak(x, beats) = [x EXCEPT !.potential = x.resting_potential + left]
        BY DEF neurons_lif_big_leak, LifStates
      <3> HIDE DEF left
      <3> QED
        BY <3>1, <3>2 DEF LifStates
    <2> QED
      BY <2>1, <2>2, <2>3
  <1>2. ASSUME NEW x \in LifStates PROVE Lif!RestoredFromStore(x)
    BY LifFields, LifRestored DEF Lif!RestoredFromStore, Lif!leak_and_fire
  <1> QED
    BY <1>1, <1>2 DEF Lif!NeuronModel, Lif!StateSpace

\* Held at or below its threshold and without current.
Resting(x) ==
    /\ x \in LifStates /\ x.current = 0
    /\ x.potential <= x.threshold

\* lif.c:5-25. If a step of the leak takes off what a beat of the decay does not keep, a
\* LIF neuron at rest is quiet over any gap: leaking over it is the same as beat by beat,
\* and the neuron does not fire.
THEOREM RestingIsQuiet ==
    ASSUME DecayKeep = LeakDen - LeakNum, NEW x, Resting(x)
    PROVE  Lif!Quiet(x)
  <1> DEFINE rest == x.resting_potential
             D(j) == Decayed(x.potential - rest, j)
             y(j) == neurons_lif_big_leak(x, j)
             M    == x.threshold - rest
  <1>1. /\ IsLif(x) /\ x.potential \in Int /\ rest \in Int /\ x.resistance \in Int
        /\ x.threshold \in Int /\ M \in Nat /\ x.potential - rest \in Int
    BY LifFields DEF Resting, LifStates
  <1>2. /\ LeakDen \in Nat \ {0} /\ LeakNum \in Int /\ DecayKeep \in Int
        /\ 0 <= DecayKeep /\ DecayKeep <= LeakDen
    BY LifAssumption
  <1>3. /\ D(0) = x.potential - rest
        /\ \A j \in Nat : D(j) \in Int /\ D(j + 1) = (D(j) * DecayKeep) \div LeakDen
    BY <1>1, DecayedByBeats
  <1>4. \A j : y(j) = [x EXCEPT !.potential = rest + D(j)]
    BY DEF neurons_lif_big_leak, Resting, LifStates
  <1> HIDE DEF D, M
  <1>5. \A j \in Nat : D(j) <= M
    <2> DEFINE P == {j \in Nat : D(j) <= M}
    <2>1. 0 \in P
      BY <1>1, <1>3 DEF M, Resting
    <2>2. ASSUME NEW j \in Nat, j \in P PROVE j + 1 \in P
      <3>1. D(j) \in Int /\ D(j) <= M
        BY <1>3, <2>2
      <3> DEFINE d == D(j)
      <3> HIDE DEF d
      <3>2. d * DecayKeep <= M * LeakDen
        <4>1. d \in Int /\ d <= M
          BY <3>1 DEF d
        <4>2. d * DecayKeep <= M * DecayKeep
          <5>1. (M - d) * DecayKeep \in Nat
            BY <1>1, <1>2, <4>1
          <5> QED
            BY <1>1, <1>2, <4>1, <5>1
        <4>3. M * DecayKeep <= M * LeakDen
          <5>1. M * (LeakDen - DecayKeep) \in Nat
            BY <1>1, <1>2
          <5> QED
            BY <1>1, <1>2, <5>1
        <4>4. d * DecayKeep \in Int /\ M * DecayKeep \in Int /\ M * LeakDen \in Int
          BY <1>1, <1>2, <4>1
        <4> QED
          BY <4>2, <4>3, <4>4
      <3>3. (d * DecayKeep) \div LeakDen <= M
        <4>1. d * DecayKeep \in Int /\ M \in Int
          BY <1>1, <1>2, <3>1 DEF d
        <4> QED
          BY <1>2, <3>2, <4>1, QuotientBelow
      <3> QED
        BY <1>3, <3>3 DEF d
    <2> HIDE DEF P
    <2>3. \A j \in Nat : j \in P
      BY <2>1, <2>2, Induction
    <2> QED
      BY <2>3 DEF P
  <1>6. y(0) = x
    BY <1>1, <1>3, <1>4 DEF IsLif
  <1>7. ASSUME NEW j \in Nat
        PROVE  LET beat == neurons_lif_fire(neurons_lif_leak(y(j)))
               IN  ~ beat.fired /\ beat.neuron = y(j + 1)
    <2>1. D(j) \in Int /\ D(j + 1) \in Int /\ D(j + 1) <= M
      BY <1>3, <1>5
    <2>2. D(j + 1) = D(j) + ((- D(j)) * LeakNum) \div LeakDen
      <3> DEFINE d == D(j)
      <3> HIDE DEF d
      <3>1. d \in Int
        BY <2>1 DEF d
      <3>2. d * DecayKeep = d * LeakDen + (- d) * LeakNum
        BY <1>2, <3>1
      <3>3. (d * LeakDen + (- d) * LeakNum) \div LeakDen = d + ((- d) * LeakNum) \div LeakDen
        <4>1. (- d) * LeakNum \in Int
          BY <1>2, <3>1
        <4> QED
          BY <1>2, <3>1, <4>1, QuotientShifts
      <3> QED
        BY <1>3, <3>2, <3>3 DEF d
    <2>3. /\ IsLif(y(j)) /\ y(j).current = 0 /\ y(j).potential = rest + D(j)
          /\ y(j).resting_potential = rest
      BY <1>1, <1>4 DEF IsLif, Resting
    <2>4. y(j).resting_potential - y(j).potential + y(j).current * y(j).resistance = - D(j)
      <3>1. y(j).resistance \in Int
        BY <1>1, <1>4 DEF IsLif
      <3>2. 0 * y(j).resistance = 0
        BY <3>1
      <3> HIDE DEF y
      <3> QED
        BY <1>1, <2>1, <2>3, <3>2
    <2>5. neurons_lif_leak(y(j)) = [y(j) EXCEPT !.potential = rest + D(j + 1)]
      <3> HIDE DEF y
      <3>1. neurons_lif_leak(y(j))
              = [y(j) EXCEPT !.potential = y(j).potential + ((- D(j)) * LeakNum) \div LeakDen]
        BY <2>3, <2>4 DEF neurons_lif_leak, IsLif
      <3>2. y(j).potential + ((- D(j)) * LeakNum) \div LeakDen = rest + D(j + 1)
        <4> DEFINE s == ((- D(j)) * LeakNum) \div LeakDen
        <4>1. s \in Int
          <5>1. (- D(j)) * LeakNum \in Int
            BY <1>2, <2>1
          <5> QED
            BY <1>2, <5>1, Quotient
        <4> HIDE DEF s
        <4> QED
          BY <1>1, <2>1, <2>2, <2>3, <4>1 DEF s
      <3> QED
        BY <3>1, <3>2
    <2>6. neurons_lif_leak(y(j)) = y(j + 1)
      BY <1>4, <2>5, <1>1 DEF IsLif
    <2>7. /\ y(j + 1).potential = rest + D(j + 1) /\ y(j + 1).current = 0
          /\ y(j + 1).threshold = x.threshold /\ IsLif(y(j + 1))
      BY <1>1, <1>4 DEF IsLif, Resting
    <2> HIDE DEF y
    <2>8. ~ (y(j + 1).potential > y(j + 1).threshold)
      BY <1>1, <2>1, <2>7 DEF M
    <2>9. /\ ~ neurons_lif_fire(y(j + 1)).fired
          /\ neurons_lif_fire(y(j + 1)).neuron = y(j + 1)
      BY <2>7, <2>8 DEF neurons_lif_fire, IsLif
    <2> QED
      BY <2>6, <2>9
  <1> QED
    BY <1>6, <1>7 DEF Lif!Quiet, Lif!leak_and_fire

\* lif.c:28-38. A beat leaves a LIF neuron so, unless it is reset above its threshold:
\* with RestingIsQuiet, what SpikeDrivenIsTheNetwork asks of a neuron model.
THEOREM BeatLeavesResting ==
    ASSUME NEW x \in LifStates, x.reset_potential <= x.threshold
    PROVE  /\ Resting(Lif!leak_and_fire(x).neuron)
           /\ Lif!leak_and_fire(x).neuron.reset_potential = x.reset_potential
           /\ Lif!leak_and_fire(x).neuron.threshold = x.threshold
  <1> DEFINE y == neurons_lif_leak(x)
  <1>1. y \in LifStates /\ y.reset_potential = x.reset_potential /\ y.threshold = x.threshold
    <2>1. y.reset_potential = x.reset_potential /\ y.threshold = x.threshold
      BY DEF neurons_lif_leak, LifStates
    <2> HIDE DEF y
    <2> QED
      BY <2>1, LifLeaks DEF y
  <1> HIDE DEF y
  <1> DEFINE z == neurons_lif_fire(y).neuron
  <1>2. /\ z \in LifStates /\ z.current = 0 /\ z.potential <= z.threshold
        /\ z.reset_potential = y.reset_potential /\ z.threshold = y.threshold
    <2>1. y.potential \in Int /\ y.threshold \in Int
      BY <1>1, LifFields
    <2> QED
      BY <1>1, <2>1, LifFires
  <1> HIDE DEF z
  <1> QED
    BY <1>1, <1>2 DEF z, y, Resting, Lif!leak_and_fire

-----------------------------------------------------------------------------
(* LIF-beta, which the driver may be given in needy mode.                   *)

IsLifBeta(x) ==
    x = [potential |-> x.potential, threshold |-> x.threshold, baseline |-> x.baseline]

\* lif_beta.c:4-35. The potential is all that a beat or a spike changes of a LIF-beta
\* neuron, and it is what the message carries: undoing either gives the neuron back.
THEOREM LifBetaRestored ==
    ASSUME NEW x, IsLifBeta(x)
    PROVE  LET back(changed) ==
                  neurons_lif_beta_reverse_store_state(changed, neurons_lif_beta_store_state(x))
           IN  /\ back(neurons_lif_beta_fire(neurons_lif_beta_leak(x)).neuron) = x
               /\ \A current : back(neurons_lif_beta_integrate(x, current)) = x
  <1> DEFINE back(changed) ==
                neurons_lif_beta_reverse_store_state(changed, neurons_lif_beta_store_state(x))
             Differs(y) == y = [potential |-> y.potential, threshold |-> x.threshold,
                                baseline |-> x.baseline]
  <1>1. ASSUME NEW y, Differs(y) PROVE back(y) = x
    BY <1>1 DEF IsLifBeta, neurons_lif_beta_reverse_store_state, neurons_lif_beta_store_state
  <1>2. Differs(neurons_lif_beta_leak(x))
    BY DEF IsLifBeta, neurons_lif_beta_leak
  <1>3. ASSUME NEW y, Differs(y) PROVE Differs(neurons_lif_beta_fire(y).neuron)
    BY <1>3 DEF neurons_lif_beta_fire
  <1>4. \A current : Differs(neurons_lif_beta_integrate(x, current))
    BY DEF IsLifBeta, neurons_lif_beta_integrate
  <1> HIDE DEF back, Differs
  <1>5. back(neurons_lif_beta_fire(neurons_lif_beta_leak(x)).neuron) = x
    BY <1>1, <1>2, <1>3
  <1>6. \A current : back(neurons_lif_beta_integrate(x, current)) = x
    BY <1>1, <1>4
  <1> QED
    BY <1>5, <1>6 DEF back

\* The driver with LIF-beta neurons, in needy mode: nothing calls neuron_leak_bigdt,
\* which is NULL.
NoBigLeak(x, beats) == x
BigLeakForbidden(x) == FALSE

LifBeta == INSTANCE NeuronDriver WITH
    SpikeDriven          <- FALSE,
    neuron_leak          <- neurons_lif_beta_leak,
    neuron_leak_bigdt    <- NoBigLeak,
    neuron_integrate     <- neurons_lif_beta_integrate,
    neuron_fire          <- neurons_lif_beta_fire,
    store_neuron         <- neurons_lif_beta_store_state,
    reverse_store_neuron <- neurons_lif_beta_reverse_store_state,
    leak_bigdt_ready     <- BigLeakForbidden

LifBetaStates == [potential : Int, threshold : Int, baseline : Int]

\* lif_beta.c, neuron.h:172-182. LIF-beta is a model the driver may be given in needy mode.
THEOREM LifBetaIsANeuronModel ==
    ASSUME \A n \in Neurons : InitialNeuron[n] \in LifBetaStates
    PROVE  LifBeta!NeuronModel(LifBetaStates)
  <1>1. ASSUME NEW x \in LifBetaStates
        PROVE  /\ LifBeta!leak_and_fire(x).neuron \in LifBetaStates
               /\ \A current \in Int : neurons_lif_beta_integrate(x, current) \in LifBetaStates
               /\ LifBeta!RestoredFromStore(x)
    <2> DEFINE y == neurons_lif_beta_leak(x)
    <2>1. y \in LifBetaStates
      <3>1. BetaNum * x.potential \in Int /\ BetaDen \in Nat \ {0}
        BY BetaAssumption DEF LifBetaStates
      <3>2. (BetaNum * x.potential) \div BetaDen \in Int
        BY <3>1, Quotient
      <3> QED
        BY <3>2 DEF neurons_lif_beta_leak, LifBetaStates
    <2> HIDE DEF y
    <2>2. neurons_lif_beta_fire(y).neuron \in LifBetaStates
      BY <2>1 DEF neurons_lif_beta_fire, LifBetaStates
    <2>3. LifBeta!leak_and_fire(x).neuron \in LifBetaStates
      BY <2>2 DEF y, LifBeta!leak_and_fire
    <2>4. ASSUME NEW current \in Int PROVE neurons_lif_beta_integrate(x, current) \in LifBetaStates
      BY DEF neurons_lif_beta_integrate, LifBetaStates
    <2>5. IsLifBeta(x)
      BY DEF IsLifBeta, LifBetaStates
    <2>6. LifBeta!RestoredFromStore(x)
      BY <2>5, LifBetaRestored DEF LifBeta!RestoredFromStore, LifBeta!leak_and_fire
    <2> QED
      BY <2>3, <2>4, <2>6
  <1> QED
    BY <1>1 DEF LifBeta!NeuronModel, LifBeta!StateSpace
=============================================================================
