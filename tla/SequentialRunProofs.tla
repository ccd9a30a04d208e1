-------------------------- MODULE SequentialRunProofs --------------------------
(***************************************************************************)
(* Theorems about SequentialRun, in both modes of execution and for every  *)
(* network, input, heartbeat length and end of the run; and about Probes:  *)
(* what their buffers hold is the first records of the run, and the        *)
(* statistics account for every spike.                                     *)
(***************************************************************************)
EXTENDS Probes, NeuronDriverProofs

-----------------------------------------------------------------------------
(* The inductive invariant.  HeartbeatProtocol counts beats; here the next  *)
(* beat of a neuron is the time of it, so that arithmetic stays linear.     *)

LPInv ==
    /\ lps = [n \in Neurons |-> lps[n]]
    /\ \A n \in Neurons :
          /\ IsLP(lps[n])
          /\ lps[n].last_heartbeat \in 0 .. now
          /\ lps[n].last_heartbeat % Beat = 0
          /\ lps[n].next_heartbeat_sent \in BOOLEAN
          /\ ~ SpikeDriven => ~ lps[n].next_heartbeat_sent

QueueInv ==
    \A e \in pending : IsEvent(e) /\ now <= e.time /\ e.time < End

\* A heartbeat in the queue is for now, at a beat, or for the beat after the last.
HeartbeatTime(h) ==
    \/ h.time = now /\ Prev(now) = now
    \/ h.time = Prev(now) + Beat

BeatsNow(n) == \E h \in Heartbeats(n) : h.time = now

BeatInv ==
    \A n \in Neurons :
        /\ \A h \in Heartbeats(n) : AwaitsHeartbeat(n) /\ HeartbeatTime(h)
        /\ \A h, k \in Heartbeats(n) : h = k
        /\ AwaitsHeartbeat(n) /\ Heartbeats(n) = {} => End <= Prev(now) + Beat
        /\ lps[n].next_heartbeat_sent =>
              lps[n].last_heartbeat + Beat = IF BeatsNow(n) THEN now ELSE Prev(now) + Beat

TraceInv ==
    \A r \in trace : r.neuron \in Neurons /\ r.time \in 0 .. now /\ r.time % Beat = 0

IInv ==
    /\ now \in Nat /\ now < End
    /\ LPInv
    /\ QueueInv
    /\ BeatInv
    /\ TraceInv

LEMMA InitInv == Init => IInv
  <1> SUFFICES ASSUME Init PROVE IInv
    OBVIOUS
  <1>1. PICK input \in SpikeInputs :
           pending = Sent(UNION {driver_neuron_init(n, input[n]) : n \in Neurons})
    BY DEF Init
  <1>2. now = 0 /\ trace = {} /\ lps = [n \in Neurons |-> initialize_NeuronLP(n)]
    BY DEF Init
  <1>3. /\ now \in Nat /\ now < End /\ Prev(now) = now /\ now % Beat = 0
        /\ Beat \in Nat /\ Beat > 0
    BY <1>2, ZeroIsABeat, DriverAssumption
  <1>4. LPInv
    <2>1. lps = [n \in Neurons |-> lps[n]]
      BY <1>2
    <2>2. ASSUME NEW n \in Neurons
          PROVE  /\ IsLP(lps[n])
                 /\ lps[n].last_heartbeat = 0
                 /\ lps[n].next_heartbeat_sent = FALSE
      BY <1>2 DEF IsLP, initialize_NeuronLP
    <2>3. 0 \in 0 .. now /\ 0 % Beat = 0
      BY <1>2, <1>3
    <2> QED
      BY <2>1, <2>2, <2>3 DEF LPInv
  <1>5. ASSUME NEW e \in pending
        PROVE  /\ IsEvent(e) /\ e.time < End
               /\ e.type = "heartbeat" =>
                     ~ SpikeDriven /\ e = heartbeat(e.dest, Beat, Id(e.dest, 0, 0))
    <2>1. e.time < End
      BY <1>1 DEF Sent
    <2>2. PICK n \in Neurons : e \in driver_neuron_init(n, input[n])
      BY <1>1 DEF Sent
    <2>3. /\ IsEvent(e)
          /\ e.type = "heartbeat" => ~ SpikeDriven /\ e = heartbeat(n, Beat, Id(n, 0, 0))
      BY <2>2, FirstEvents
    <2>4. heartbeat(n, Beat, Id(n, 0, 0)).dest = n
      BY DEF heartbeat
    <2> QED
      BY <2>1, <2>3, <2>4
  <1>6. QueueInv
    <2> SUFFICES ASSUME NEW e \in pending
                 PROVE  IsEvent(e) /\ now <= e.time /\ e.time < End
      BY DEF QueueInv
    <2>1. IsEvent(e) /\ e.time < End
      BY <1>5
    <2>2. e.time \in Nat
      BY <2>1, EventBeat
    <2> QED
      BY <1>2, <2>1, <2>2
  <1>7. BeatInv
    <2> SUFFICES ASSUME NEW n \in Neurons
                 PROVE  /\ \A h \in Heartbeats(n) : AwaitsHeartbeat(n) /\ HeartbeatTime(h)
                        /\ \A h, k \in Heartbeats(n) : h = k
                        /\ AwaitsHeartbeat(n) /\ Heartbeats(n) = {} => End <= Prev(now) + Beat
                        /\ ~ lps[n].next_heartbeat_sent
      BY DEF BeatInv
    <2> DEFINE first == heartbeat(n, Beat, Id(n, 0, 0))
    <2>1. first.type = "heartbeat" /\ first.dest = n /\ first.time = Beat
      BY <1>3, NewHeartbeat
    <2>2. \A h \in Heartbeats(n) : ~ SpikeDriven /\ h = first
      BY <1>5 DEF Heartbeats
    <2>3. ~ lps[n].next_heartbeat_sent
      BY <1>2 DEF initialize_NeuronLP
    <2>4. ASSUME ~ SpikeDriven, Beat < End
          PROVE  Heartbeats(n) # {}
      <3>1. first \in driver_neuron_init(n, input[n])
        BY <1>3, <2>4 DEF driver_neuron_init, send_heartbeat
      <3>2. first \in pending
        BY <1>1, <2>1, <2>4, <3>1 DEF Sent
      <3> QED
        BY <2>1, <3>2 DEF Heartbeats
    <2> HIDE DEF first
    <2>5. AwaitsHeartbeat(n) /\ Heartbeats(n) = {} => End <= Prev(now) + Beat
      BY <1>2, <1>3, <2>3, <2>4, DriverAssumption DEF AwaitsHeartbeat
    <2>6. \A h \in Heartbeats(n) : AwaitsHeartbeat(n) /\ HeartbeatTime(h)
      BY <1>2, <1>3, <2>1, <2>2 DEF AwaitsHeartbeat, HeartbeatTime
    <2> QED
      BY <2>2, <2>3, <2>5, <2>6
  <1>8. TraceInv
    BY <1>2 DEF TraceInv
  <1> QED
    BY <1>3, <1>4, <1>6, <1>7, <1>8 DEF IInv

-----------------------------------------------------------------------------
(* An event handled.                                                        *)

\* What is known of the event the scheduler hands out, of its LP and of the queue.
LEMMA NextEvent ==
    ASSUME IInv, NEW e \in pending, Process(e)
    PROVE  /\ IsEvent(e) /\ e.time = now /\ IsLP(lps[e.dest])
           /\ e.type = "heartbeat" =>
                 /\ e \in Heartbeats(e.dest) /\ AwaitsHeartbeat(e.dest)
                 /\ Prev(now) = now /\ now % Beat = 0
           /\ e.type = "spike" => ~ BeatsNow(e.dest)
  <1>1. IsEvent(e) /\ e.time = now /\ e.dest \in Neurons
    BY DEF IInv, QueueInv, Process, IsEvent
  <1>2. Prev(now) \in Nat /\ now < Prev(now) + Beat /\ Prev(now) % Beat = 0
    BY PrevBeat DEF IInv
  <1>3. IsLP(lps[e.dest])
    BY <1>1 DEF IInv, LPInv
  <1>4. ASSUME e.type = "heartbeat"
        PROVE  /\ e \in Heartbeats(e.dest) /\ AwaitsHeartbeat(e.dest)
               /\ Prev(now) = now /\ now % Beat = 0
    <2>1. e \in Heartbeats(e.dest)
      BY <1>4 DEF Heartbeats
    <2>2. AwaitsHeartbeat(e.dest) /\ HeartbeatTime(e)
      BY <1>1, <2>1 DEF IInv, BeatInv
    <2>3. Prev(now) = now
      BY <1>1, <1>2, <2>2, DriverAssumption DEF HeartbeatTime, IInv
    <2> QED
      BY <1>2, <2>1, <2>2, <2>3
  <1>5. ASSUME e.type = "spike", BeatsNow(e.dest)
        PROVE  FALSE
    <2>1. PICK h \in pending : h.type = "heartbeat" /\ h.time = now
      BY <1>5 DEF BeatsNow, Heartbeats
    <2>2. Before(h, e)
      BY <1>1, <1>5, <2>1 DEF Before, Priority
    <2> QED
      BY <2>1, <2>2 DEF Process
  <1> QED
    BY <1>1, <1>3, <1>4, <1>5

\* The heartbeats of a neuron after an event is handled.
LEMMA HeartbeatsAfter ==
    ASSUME IInv, NEW e \in pending, Process(e), NEW n \in Neurons,
           NEW h \in Heartbeats(n)'
    PROVE  \/ h \in Heartbeats(n) /\ h # e
           \/ /\ n = e.dest /\ h \in Handle(lps[e.dest], e).sent /\ h.type = "heartbeat"
              /\ h.time = Prev(now) + Beat
              /\ IF SpikeDriven THEN e.type = "spike" /\ ~ lps[n].next_heartbeat_sent
                                ELSE e.type = "heartbeat"
  <1>1. /\ h.type = "heartbeat" /\ h.dest = n
        /\ (h \in pending /\ h # e) \/ h \in Handle(lps[e.dest], e).sent
    BY DEF Heartbeats, Process, Sent
  <1>2. CASE h \in pending /\ h # e
    BY <1>1, <1>2 DEF Heartbeats
  <1>3. CASE h \in Handle(lps[e.dest], e).sent
    <2>1. IsEvent(e) /\ e.time = now /\ (e.type = "heartbeat" => now % Beat = 0)
      BY NextEvent
    <2> QED
      BY <1>1, <1>3, <2>1, HandledSent
  <1> QED
    BY <1>1, <1>2, <1>3

LEMMA HeartbeatsKept ==
    ASSUME NEW e \in pending, Process(e), NEW n \in Neurons, NEW h \in Heartbeats(n), h # e
    PROVE  h \in Heartbeats(n)'
  BY DEF Heartbeats, Process

\* The LPs after an event is handled: only the one it is for has changed.
LEMMA LPAfter ==
    ASSUME IInv, NEW e \in pending, Process(e)
    PROVE  LET lp  == lps[e.dest]
               new == lps'[e.dest]
           IN  /\ lps' = [n \in Neurons |-> lps'[n]]
               /\ \A n \in Neurons : n # e.dest => lps'[n] = lps[n]
               /\ IsLP(new)
               /\ ~ SpikeDriven => /\ new.last_heartbeat = lp.last_heartbeat
                                   /\ new.next_heartbeat_sent = FALSE
               /\ SpikeDriven /\ e.type = "heartbeat" =>
                     /\ new.last_heartbeat = now
                     /\ new.next_heartbeat_sent = FALSE
               /\ SpikeDriven /\ e.type = "spike" =>
                     /\ new.last_heartbeat = IF lp.next_heartbeat_sent THEN lp.last_heartbeat
                                             ELSE Prev(now)
                     /\ new.next_heartbeat_sent = TRUE
  <1> DEFINE d   == e.dest
             lp  == lps[d]
             new == Handle(lp, e).lp
  <1>1. /\ IsEvent(e) /\ e.time = now /\ d \in Neurons /\ now \in Nat
        /\ Prev(now) \in Nat
    BY NextEvent, EventBeat DEF IInv
  <1>2. lps' = [lps EXCEPT ![d] = new]
    BY DEF Process
  <1>3. lps = [n \in Neurons |-> lps[n]]
    BY DEF IInv, LPInv
  <1>4. /\ IsLP(lp) /\ lp.last_heartbeat \in Nat /\ lp.last_heartbeat <= Prev(now)
        /\ lp.next_heartbeat_sent \in BOOLEAN
        /\ ~ SpikeDriven => lp.next_heartbeat_sent = FALSE
    BY <1>1, PrevIsLast DEF IInv, LPInv
  <1>5. /\ IsLP(new)
        /\ ~ SpikeDriven => /\ new.last_heartbeat = lp.last_heartbeat
                            /\ new.next_heartbeat_sent = lp.next_heartbeat_sent
        /\ SpikeDriven /\ e.type = "heartbeat" =>
              /\ new.last_heartbeat = e.time
              /\ new.next_heartbeat_sent = FALSE
        /\ SpikeDriven /\ e.type # "heartbeat" =>
              /\ new.last_heartbeat = IF IsBehind(lp, e.time) THEN Prev(e.time)
                                      ELSE lp.last_heartbeat
              /\ new.next_heartbeat_sent = TRUE
    <2> HIDE DEF lp
    <2> QED
      BY <1>4, HandledLP
  <1> HIDE DEF lp, new
  <1>6. SpikeDriven /\ e.type = "spike" =>
           new.last_heartbeat = IF lp.next_heartbeat_sent THEN lp.last_heartbeat
                                ELSE Prev(now)
    BY <1>1, <1>4, <1>5 DEF IsBehind, Prev
  <1>7. /\ lps' = [n \in Neurons |-> lps'[n]]
        /\ lps'[d] = new
        /\ \A n \in Neurons : n # d => lps'[n] = lps[n]
    BY <1>1, <1>2, <1>3
  <1> QED
    BY <1>1, <1>4, <1>5, <1>6, <1>7 DEF lp

LEMMA ProcessLP ==
    ASSUME IInv, NEW e \in pending, Process(e)
    PROVE  LPInv'
  <1> DEFINE d   == e.dest
             new == lps'[d]
  <1>1. /\ d \in Neurons /\ e.type \in {"heartbeat", "spike"} /\ now' = now /\ now \in Nat
        /\ e.type = "heartbeat" => now % Beat = 0
    BY NextEvent DEF IsEvent, Process, IInv
  <1>2. Prev(now) \in 0 .. now /\ Prev(now) % Beat = 0
    BY <1>1, PrevBeat
  <1>3. /\ lps[d].last_heartbeat \in 0 .. now
        /\ lps[d].last_heartbeat % Beat = 0
    BY <1>1 DEF IInv, LPInv
  <1>4. /\ new.last_heartbeat \in 0 .. now /\ new.last_heartbeat % Beat = 0
        /\ new.next_heartbeat_sent \in BOOLEAN
        /\ ~ SpikeDriven => ~ new.next_heartbeat_sent
    <2>1. CASE ~ SpikeDriven
      BY <1>3, <2>1, LPAfter
    <2>2. CASE SpikeDriven /\ e.type = "heartbeat"
      <3>1. new.last_heartbeat = now /\ new.next_heartbeat_sent = FALSE
        BY <2>2, LPAfter
      <3>2. now \in 0 .. now /\ now % Beat = 0
        BY <1>1, <2>2
      <3> QED
        BY <2>2, <3>1, <3>2
    <2>3. CASE SpikeDriven /\ e.type = "spike"
      BY <1>2, <1>3, <2>3, LPAfter
    <2> QED
      BY <1>1, <2>1, <2>2, <2>3
  <1>5. \A n \in Neurons : n # d => lps'[n] = lps[n]
    BY LPAfter
  <1>6. lps' = [n \in Neurons |-> lps'[n]] /\ IsLP(new)
    BY LPAfter
  <1> HIDE DEF new
  <1>7. LPInv
    BY DEF IInv
  <1> QED
    BY <1>1, <1>4, <1>5, <1>6, <1>7 DEF LPInv, new

LEMMA ProcessQueue ==
    ASSUME IInv, NEW e \in pending, Process(e)
    PROVE  QueueInv'
  <1> SUFFICES ASSUME NEW f \in pending'
               PROVE  IsEvent(f) /\ now <= f.time /\ f.time < End
    BY DEF QueueInv, Process
  <1>1. CASE f \in pending
    BY <1>1 DEF IInv, QueueInv
  <1>2. CASE f \in Handle(lps[e.dest], e).sent /\ f.time < End
    <2>1. IsEvent(e) /\ e.time = now /\ (e.type = "heartbeat" => now % Beat = 0)
      BY NextEvent
    <2>2. IsEvent(f) /\ f.time > now
      BY <1>2, <2>1, HandledSent
    <2>3. f.time \in Nat /\ now \in Nat
      BY <2>2, EventBeat DEF IInv
    <2> QED
      BY <1>2, <2>2, <2>3
  <1> QED
    BY <1>1, <1>2 DEF Process, Sent

LEMMA ProcessTrace ==
    ASSUME IInv, NEW e \in pending, Process(e)
    PROVE  TraceInv'
  <1> DEFINE new == driver_neuron_event_commit(Handle(lps[e.dest], e).lp,
                        Handled(lps[e.dest], e), Saved(lps[e.dest]))
  <1>1. IsEvent(e) /\ e.time = now /\ (e.type = "heartbeat" => now % Beat = 0)
    BY NextEvent
  <1>2. trace' = trace \cup new /\ now' = now
    BY DEF Process
  <1>3. /\ Handled(lps[e.dest], e).type = e.type
        /\ Handled(lps[e.dest], e).dest = e.dest
        /\ Handled(lps[e.dest], e).time = e.time
    BY DEF Handled
  <1>4. \A r \in new : r.neuron = e.dest /\ r.time = now /\ e.type = "heartbeat"
    BY <1>1, <1>3 DEF driver_neuron_event_commit
  <1> HIDE DEF new
  <1>5. e.dest \in Neurons /\ now \in Nat
    BY <1>1 DEF IsEvent, IInv
  <1>6. TraceInv
    BY DEF IInv
  <1> QED
    BY <1>1, <1>2, <1>4, <1>5, <1>6 DEF TraceInv

\* BeatInv, for one neuron.
NeuronBeatInv(n) ==
    /\ \A h \in Heartbeats(n) : AwaitsHeartbeat(n) /\ HeartbeatTime(h)
    /\ \A h, k \in Heartbeats(n) : h = k
    /\ AwaitsHeartbeat(n) /\ Heartbeats(n) = {} => End <= Prev(now) + Beat
    /\ lps[n].next_heartbeat_sent =>
          lps[n].last_heartbeat + Beat = IF BeatsNow(n) THEN now ELSE Prev(now) + Beat

\* An event concerns only the neuron it is for.
LEMMA OtherNeuronBeat ==
    ASSUME IInv, NEW e \in pending, Process(e), NEW n \in Neurons, n # e.dest
    PROVE  NeuronBeatInv(n)'
  <1>1. lps'[n] = lps[n] /\ now' = now
    BY LPAfter DEF Process
  <1>2. \A h \in Heartbeats(n)' : h \in Heartbeats(n)
    BY HeartbeatsAfter
  <1>3. \A h \in Heartbeats(n) : h \in Heartbeats(n)'
    <2> SUFFICES ASSUME NEW h \in Heartbeats(n) PROVE h \in Heartbeats(n)'
      OBVIOUS
    <2>1. h # e
      BY DEF Heartbeats
    <2> QED
      BY <2>1, HeartbeatsKept
  <1>4. Heartbeats(n)' = Heartbeats(n)
    BY <1>2, <1>3
  <1>5. NeuronBeatInv(n)
    BY DEF IInv, BeatInv, NeuronBeatInv
  <1> QED
    BY <1>1, <1>4, <1>5 DEF NeuronBeatInv, AwaitsHeartbeat, HeartbeatTime, BeatsNow

LEMMA OwnBeat ==
    ASSUME IInv, NEW e \in pending, Process(e)
    PROVE  NeuronBeatInv(e.dest)'
  <1> DEFINE d   == e.dest
             lp  == lps[d]
             out == Handle(lp, e)
  <1>1. /\ IsEvent(e) /\ e.time = now /\ d \in Neurons /\ e.type \in {"heartbeat", "spike"}
        /\ now' = now /\ now \in Nat /\ now < End /\ IsLP(lp)
        /\ Prev(now) \in Nat /\ Prev(now) <= now /\ now < Prev(now) + Beat
        /\ Beat \in Nat /\ Beat > 0 /\ End \in Nat
    BY NextEvent, EventBeat, DriverAssumption DEF Process, IInv
  <1>2. NeuronBeatInv(d)
    BY <1>1 DEF IInv, BeatInv, NeuronBeatInv
  <1>4. lp.last_heartbeat \in Nat /\ lp.next_heartbeat_sent \in BOOLEAN
    BY <1>1 DEF IInv, LPInv
  <1>5. CASE SpikeDriven /\ e.type = "heartbeat"
    <2>1. lps'[d].next_heartbeat_sent = FALSE
      BY <1>5, LPAfter
    <2>2. Heartbeats(d)' = {}
      <3> SUFFICES ASSUME NEW h \in Heartbeats(d)' PROVE FALSE
        OBVIOUS
      <3>1. h \in Heartbeats(d) /\ h # e
        BY <1>1, <1>5, HeartbeatsAfter
      <3>2. e \in Heartbeats(d)
        BY <1>5, NextEvent
      <3> QED
        BY <1>2, <3>1, <3>2 DEF NeuronBeatInv
    <2> QED
      BY <1>5, <2>1, <2>2 DEF NeuronBeatInv, AwaitsHeartbeat
  <1>6. CASE SpikeDriven /\ e.type = "spike" /\ lp.next_heartbeat_sent
    <2>1. /\ lps'[d].next_heartbeat_sent = TRUE
          /\ lps'[d].last_heartbeat = lp.last_heartbeat
      BY <1>6, LPAfter
    <2>2. Heartbeats(d)' = Heartbeats(d)
      <3>1. \A h \in Heartbeats(d)' : h \in Heartbeats(d)
        BY <1>1, <1>6, HeartbeatsAfter
      <3>2. \A h \in Heartbeats(d) : h \in Heartbeats(d)'
        <4> SUFFICES ASSUME NEW h \in Heartbeats(d) PROVE h \in Heartbeats(d)'
          OBVIOUS
        <4>1. h # e
          BY <1>6 DEF Heartbeats
        <4> QED
          BY <1>1, <4>1, HeartbeatsKept
      <3> QED
        BY <3>1, <3>2
    <2> QED
      BY <1>1, <1>2, <1>6, <2>1, <2>2 DEF NeuronBeatInv, AwaitsHeartbeat, HeartbeatTime, BeatsNow
  <1>7. CASE SpikeDriven /\ e.type = "spike" /\ ~ lp.next_heartbeat_sent
    <2>1. Heartbeats(d) = {}
      BY <1>2, <1>7 DEF NeuronBeatInv, AwaitsHeartbeat
    <2>2. PICK h \in out.sent :
             /\ h.type = "heartbeat" /\ h.dest = d /\ h.time = Prev(now) + Beat
             /\ \A g \in out.sent : g.type = "heartbeat" => g = h
      BY <1>1, <1>7, HandledHeartbeat
    <2>3. \A g \in Heartbeats(d)' : g = h
      BY <1>1, <2>1, <2>2, HeartbeatsAfter
    <2>4. h.time < End => h \in Heartbeats(d)'
      BY <2>2 DEF Heartbeats, Process, Sent
    <2>5. lps'[d].next_heartbeat_sent = TRUE /\ lps'[d].last_heartbeat = Prev(now)
      BY <1>7, LPAfter
    <2>6. ~ BeatsNow(d)'
      BY <1>1, <2>2, <2>3 DEF BeatsNow
    <2> HIDE DEF lp, out
    <2> QED
      BY <1>1, <2>2, <2>3, <2>4, <2>5, <2>6 DEF NeuronBeatInv, AwaitsHeartbeat, HeartbeatTime
  <1>8. CASE ~ SpikeDriven /\ e.type = "heartbeat"
    <2>1. e \in Heartbeats(d) /\ Prev(now) = now
      BY <1>8, NextEvent
    <2>2. PICK h \in out.sent :
             /\ h.type = "heartbeat" /\ h.dest = d /\ h.time = Prev(now) + Beat
             /\ \A g \in out.sent : g.type = "heartbeat" => g = h
      BY <1>1, <1>8, HandledHeartbeat, NextEvent
    <2>3. \A g \in Heartbeats(d)' : g = h
      <3> SUFFICES ASSUME NEW g \in Heartbeats(d)' PROVE g = h
        OBVIOUS
      <3>1. \/ g \in Heartbeats(d) /\ g # e
            \/ g \in out.sent /\ g.type = "heartbeat"
        BY <1>1, HeartbeatsAfter
      <3> QED
        BY <1>2, <2>1, <2>2, <3>1 DEF NeuronBeatInv
    <2>4. h.time < End => h \in Heartbeats(d)'
      BY <2>2 DEF Heartbeats, Process, Sent
    <2>5. lps'[d].next_heartbeat_sent = FALSE
      BY <1>8, LPAfter
    <2> HIDE DEF lp, out
    <2> QED
      BY <1>1, <1>8, <2>2, <2>3, <2>4, <2>5 DEF NeuronBeatInv, AwaitsHeartbeat, HeartbeatTime
  <1>9. CASE ~ SpikeDriven /\ e.type = "spike"
    <2>1. lps'[d].next_heartbeat_sent = FALSE
      BY <1>9, LPAfter
    <2>2. \A h \in Heartbeats(d)' : h \in Heartbeats(d)
      BY <1>1, <1>9, HeartbeatsAfter
    <2>3. \A h \in Heartbeats(d) : h \in Heartbeats(d)'
      <3> SUFFICES ASSUME NEW h \in Heartbeats(d) PROVE h \in Heartbeats(d)'
        OBVIOUS
      <3>1. h # e
        BY <1>9 DEF Heartbeats
      <3> QED
        BY <1>1, <3>1, HeartbeatsKept
    <2>4. Heartbeats(d)' = Heartbeats(d)
      BY <2>2, <2>3
    <2> QED
      BY <1>1, <1>2, <1>9, <2>1, <2>4 DEF NeuronBeatInv, AwaitsHeartbeat, HeartbeatTime
  <1> QED
    BY <1>1, <1>4, <1>5, <1>6, <1>7, <1>8, <1>9, DriverAssumption

LEMMA ProcessInv ==
    ASSUME IInv, NEW e \in pending, Process(e)
    PROVE  IInv'
  <1>1. BeatInv'
    <2>1. \A n \in Neurons : NeuronBeatInv(n)'
      BY OtherNeuronBeat, OwnBeat
    <2> QED
      BY <2>1 DEF BeatInv, NeuronBeatInv
  <1>2. now' = now
    BY DEF Process
  <1> QED
    BY <1>1, <1>2, ProcessLP, ProcessQueue, ProcessTrace DEF IInv

-----------------------------------------------------------------------------
(* The clock moves on.                                                      *)

LEMMA TickBeat ==
    ASSUME IInv, Tick, NEW n \in Neurons
    PROVE  NeuronBeatInv(n)'
  <1>1. /\ now \in Nat /\ now' = now + 1 /\ now + 1 < End /\ End \in Nat
        /\ lps' = lps /\ pending' = pending
        /\ Beat \in Nat /\ Beat > 0
    BY DriverAssumption DEF IInv, Tick
  <1>2. NeuronBeatInv(n) /\ Heartbeats(n)' = Heartbeats(n)
    BY <1>1 DEF IInv, BeatInv, NeuronBeatInv, Heartbeats
  <1>3. ~ BeatsNow(n)
    BY <1>1 DEF BeatsNow, Heartbeats, Tick
  <1>4. \A h \in Heartbeats(n) : AwaitsHeartbeat(n) /\ h.time = Prev(now) + Beat
    BY <1>2, <1>3 DEF NeuronBeatInv, HeartbeatTime, BeatsNow
  <1>5. Prev(now) \in Nat /\ Prev(now) % Beat = 0 /\ (Prev(now) + Beat) % Beat = 0
    BY <1>1, PrevBeat, NextMultiple
  <1>6. lps[n].last_heartbeat \in Nat
    BY DEF IInv, LPInv
  <1>7. CASE Prev(now + 1) = Prev(now) /\ (now + 1) % Beat # 0
    <2>1. ~ BeatsNow(n)'
      BY <1>1, <1>2, <1>4, <1>5, <1>7 DEF BeatsNow
    <2> QED
      BY <1>1, <1>2, <1>3, <1>4, <1>7, <2>1
      DEF NeuronBeatInv, AwaitsHeartbeat, HeartbeatTime
  <1>8. CASE Prev(now + 1) = now + 1 /\ now + 1 = Prev(now) + Beat
    <2>1. AwaitsHeartbeat(n) => Heartbeats(n) # {}
      BY <1>1, <1>2, <1>8 DEF NeuronBeatInv
    <2>2. AwaitsHeartbeat(n) => BeatsNow(n)'
      BY <1>1, <1>2, <1>4, <1>8, <2>1 DEF BeatsNow
    <2>3. lps[n].next_heartbeat_sent => AwaitsHeartbeat(n)
      BY DEF AwaitsHeartbeat
    <2> QED
      BY <1>1, <1>2, <1>3, <1>4, <1>8, <2>1, <2>2, <2>3
      DEF NeuronBeatInv, AwaitsHeartbeat, HeartbeatTime
  <1> QED
    BY <1>1, <1>7, <1>8, PrevTick

LEMMA TickInv ==
    ASSUME IInv, Tick
    PROVE  IInv'
  <1>1. now \in Nat /\ now' = now + 1 /\ now' < End /\ now' \in Nat
    BY DEF IInv, Tick
  <1>2. lps' = lps /\ pending' = pending /\ trace' = trace
    BY DEF Tick
  <1>3. LPInv'
    BY <1>1, <1>2 DEF IInv, LPInv
  <1>4. QueueInv'
    <2> SUFFICES ASSUME NEW e \in pending
                 PROVE  IsEvent(e) /\ now + 1 <= e.time /\ e.time < End
      BY <1>1, <1>2 DEF QueueInv
    <2>1. IsEvent(e) /\ e.time < End /\ e.time > now
      BY DEF IInv, QueueInv, Tick
    <2>2. e.time \in Nat
      BY <2>1, EventBeat
    <2> QED
      BY <1>1, <2>1, <2>2
  <1>5. BeatInv'
    <2>1. \A n \in Neurons : NeuronBeatInv(n)'
      BY TickBeat
    <2> QED
      BY <2>1 DEF BeatInv, NeuronBeatInv
  <1>6. TraceInv'
    BY <1>1, <1>2 DEF IInv, TraceInv
  <1> QED
    BY <1>1, <1>3, <1>4, <1>5, <1>6 DEF IInv

LEMMA IdleInv == IInv /\ UNCHANGED vars => IInv'
  <1> SUFFICES ASSUME IInv, UNCHANGED vars PROVE IInv'
    OBVIOUS
  <1>1. lps' = lps /\ pending' = pending /\ now' = now /\ trace' = trace
    BY DEF vars
  <1>2. LPInv' /\ QueueInv' /\ TraceInv'
    BY <1>1 DEF IInv, LPInv, QueueInv, TraceInv
  <1>3. BeatInv'
    BY <1>1 DEF IInv, BeatInv, Heartbeats, AwaitsHeartbeat, HeartbeatTime, BeatsNow
  <1> QED
    BY <1>1, <1>2, <1>3 DEF IInv

\* The inductive invariant holds in every run.
THEOREM Inductive == Spec => []IInv
  <1>1. Init => IInv
    BY InitInv
  <1>2. IInv /\ [Next]_vars => IInv'
    <2> SUFFICES ASSUME IInv, [Next]_vars PROVE IInv'
      OBVIOUS
    <2>1. CASE \E e \in pending : Process(e)
      BY <2>1, ProcessInv
    <2>2. CASE Tick
      BY <2>2, TickInv
    <2>3. CASE Finished \/ UNCHANGED vars
      BY <2>3, IdleInv DEF Finished
    <2> QED
      BY <2>1, <2>2, <2>3 DEF Next
  <1> QED
    BY <1>1, <1>2, PTL DEF Spec

-----------------------------------------------------------------------------
(* What follows from it.                                                    *)

LEMMA IInvImpliesTypeOK == IInv => TypeOK
  <1> SUFFICES ASSUME IInv PROVE TypeOK
    OBVIOUS
  <1>1. now \in 0 .. End - 1
    BY DriverAssumption DEF IInv
  <1>2. DOMAIN lps = Neurons
    BY DEF IInv, LPInv
  <1>3. \A n \in Neurons : /\ lps[n].last_heartbeat \in 0 .. now
                           /\ lps[n].next_heartbeat_sent \in BOOLEAN
    BY DEF IInv, LPInv
  <1>4. ASSUME NEW e \in pending
        PROVE  /\ e.type \in {"heartbeat", "spike"}
               /\ e.dest \in Neurons
               /\ e.time \in now .. End - 1
               /\ e.fired = FALSE
    <2>1. IsEvent(e) /\ now <= e.time /\ e.time < End
      BY DEF IInv, QueueInv
    <2>2. now \in Nat /\ End \in Nat
      BY DriverAssumption DEF IInv
    <2> QED
      BY <2>1, <2>2 DEF IsEvent
  <1>5. \A r \in trace : r.neuron \in Neurons /\ r.time \in 0 .. now /\ r.time % Beat = 0
    BY DEF IInv, TraceInv
  <1> QED
    BY <1>1, <1>2, <1>3, <1>4, <1>5 DEF TypeOK

\* The clock never leaves the run, no event is ever left behind it, and LPs and events
\* keep their shape.
THEOREM TypeCorrect == Spec => []TypeOK
  BY Inductive, IInvImpliesTypeOK, PTL

\* The time of a neuron's next beat, counted in beats or from the clock.
LEMMA NextBeatTime ==
    ASSUME IInv, NEW n \in Neurons
    PROVE  (BeatsTaken(n) + 1) * Beat = IF BeatsNow(n) THEN Prev(now) ELSE Prev(now) + Beat
  <1> DEFINE q == now \div Beat
  <1>1. q \in Nat /\ Prev(now) = q * Beat /\ Beat \in Nat
    BY Division, DriverAssumption DEF IInv, Prev, find_prev_heartbeat_time
  <1>2. BeatsTaken(n) = q - (IF BeatsNow(n) THEN 1 ELSE 0)
    BY DEF BeatsTaken, BeatsNow
  <1> HIDE DEF q
  <1>3. (q + 1) * Beat = q * Beat + Beat
    BY <1>1
  <1>4. CASE BeatsNow(n)
    <2>1. BeatsTaken(n) + 1 = q
      BY <1>1, <1>2, <1>4
    <2> QED
      BY <1>1, <1>4, <2>1
  <1>5. CASE ~ BeatsNow(n)
    <2>1. BeatsTaken(n) + 1 = q + 1
      BY <1>1, <1>2, <1>5
    <2> QED
      BY <1>1, <1>3, <1>5, <2>1
  <1> QED
    BY <1>4, <1>5

LEMMA IInvImpliesProtocol == IInv => HeartbeatProtocol
  <1> SUFFICES ASSUME IInv, NEW n \in Neurons
               PROVE  LET next == (BeatsTaken(n) + 1) * Beat
                      IN  /\ \A h \in Heartbeats(n) : AwaitsHeartbeat(n) /\ h.time = next
                          /\ \A h, k \in Heartbeats(n) : h = k
                          /\ AwaitsHeartbeat(n) /\ next < End => Heartbeats(n) # {}
                          /\ lps[n].next_heartbeat_sent => lps[n].last_heartbeat + Beat = next
                          /\ lps[n].last_heartbeat % Beat = 0
    BY DEF HeartbeatProtocol
  <1> DEFINE next == (BeatsTaken(n) + 1) * Beat
  <1>1. next = IF BeatsNow(n) THEN Prev(now) ELSE Prev(now) + Beat
    BY NextBeatTime
  <1>2. /\ now \in Nat /\ now < End /\ Prev(now) \in Nat
        /\ Prev(now) <= now /\ now < Prev(now) + Beat
        /\ Beat \in Nat /\ End \in Nat
    BY PrevBeat, DriverAssumption DEF IInv
  <1>3. NeuronBeatInv(n)
    BY DEF IInv, BeatInv, NeuronBeatInv
  <1> HIDE DEF next
  <1>4. BeatsNow(n) => Prev(now) = now
    BY <1>2, <1>3 DEF NeuronBeatInv, HeartbeatTime, BeatsNow
  <1>5. \A h \in Heartbeats(n) : AwaitsHeartbeat(n) /\ h.time = next
    <2> SUFFICES ASSUME NEW h \in Heartbeats(n)
                 PROVE  AwaitsHeartbeat(n) /\ h.time = next
      OBVIOUS
    <2>1. AwaitsHeartbeat(n) /\ HeartbeatTime(h)
      BY <1>3 DEF NeuronBeatInv
    <2>2. CASE BeatsNow(n)
      <3>1. h.time = now
        BY <1>3, <2>2 DEF NeuronBeatInv, BeatsNow
      <3> QED
        BY <1>1, <1>4, <2>1, <2>2, <3>1
    <2>3. CASE ~ BeatsNow(n)
      <3>1. h.time # now
        BY <2>3 DEF BeatsNow
      <3> QED
        BY <1>1, <2>1, <2>3, <3>1 DEF HeartbeatTime
    <2> QED
      BY <2>2, <2>3
  <1>6. AwaitsHeartbeat(n) /\ next < End => Heartbeats(n) # {}
    BY <1>1, <1>2, <1>3 DEF NeuronBeatInv, BeatsNow
  <1>7. lps[n].next_heartbeat_sent => lps[n].last_heartbeat + Beat = next
    BY <1>1, <1>3, <1>4 DEF NeuronBeatInv
  <1>8. lps[n].last_heartbeat % Beat = 0
    BY DEF IInv, LPInv
  <1>9. \A h, k \in Heartbeats(n) : h = k
    BY <1>3 DEF NeuronBeatInv
  <1> QED
    BY <1>5, <1>6, <1>7, <1>8, <1>9 DEF next

\* In both modes every neuron that awaits a heartbeat has exactly one in the queue, at
\* its next beat: none is lost, doubled or off the beat, in any network and any run.
THEOREM HeartbeatsFollowProtocol == Spec => []HeartbeatProtocol
  BY Inductive, IInvImpliesProtocol, PTL

-----------------------------------------------------------------------------
\* The only step that adds to the queue hands an event out at its own time.
LEMMA StepSchedulesAhead ==
    ASSUME IInv, Next
    PROVE  \A s \in pending' \ pending :
              s.time > now /\ (s.type = "spike" => s.time % Beat # 0)
  <1> SUFFICES ASSUME NEW s \in pending' \ pending
               PROVE  s.time > now /\ (s.type = "spike" => s.time % Beat # 0)
    OBVIOUS
  <1>1. PICK e \in pending : Process(e)
    BY DEF Next, Tick, Finished, vars
  <1>2. e.time = now /\ s \in Handle(lps[e.dest], e).sent
    BY <1>1 DEF Process, Sent
  <1>3. IsEvent(e) /\ e.dest \in Neurons
    BY DEF IInv, QueueInv, IsEvent
  <1>4. e.type = "heartbeat" => e.time % Beat = 0
    <2> SUFFICES ASSUME e.type = "heartbeat" PROVE e.time % Beat = 0
      OBVIOUS
    <2>1. e \in Heartbeats(e.dest)
      BY DEF Heartbeats
    <2>2. HeartbeatTime(e)
      BY <1>3, <2>1 DEF IInv, BeatInv
    <2>3. /\ now \in Nat /\ Prev(now) \in Nat /\ Prev(now) % Beat = 0
          /\ now < Prev(now) + Beat
      BY PrevBeat DEF IInv
    <2> QED
      BY <1>2, <2>2, <2>3 DEF HeartbeatTime
  <1> QED
    BY <1>2, <1>3, <1>4, HandledSent

\* In both modes, whatever the delays and the inputs, nothing is ever scheduled for the
\* instant it is caused at, and no spike of a neuron lands on a heartbeat.
THEOREM SchedulesAhead == Spec => ScheduledAhead
  <1>1. IInv /\ [Next]_vars => [\A e \in pending' \ pending :
            e.time > now /\ (e.type = "spike" => e.time % Beat # 0)]_vars
    BY StepSchedulesAhead
  <1> QED
    BY <1>1, Inductive, PTL DEF Spec, ScheduledAhead
-----------------------------------------------------------------------------
(* The assertions of the spike-driven handler and of the leak it calls      *)
(* hold with any neuron model that keeps no current after a beat.           *)


\* The previous beat is a whole number of beats after an earlier one.
LEMMA WholeBeatsBehind ==
    ASSUME NEW a \in Nat, a % Beat = 0, NEW t \in Nat, a <= t
    PROVE  /\ a <= Prev(t)
           /\ ((Prev(t) - a) \div Beat) * Beat = Prev(t) - a
  <1>1. a <= Prev(t) /\ Prev(t) \in Nat /\ Prev(t) % Beat = 0
    BY PrevIsLast, PrevBeat
  <1>2. PICK k \in Nat : a = k * Beat
    BY Multiple
  <1>3. PICK m \in Nat : Prev(t) = m * Beat
    BY <1>1, Multiple
  <1>4. k <= m
    BY <1>1, <1>2, <1>3, Product, DriverAssumption
  <1>5. m - k \in Nat /\ Prev(t) - a = (m - k) * Beat + 0
    BY <1>2, <1>3, <1>4, DriverAssumption
  <1>6. ((m - k) * Beat + 0) \div Beat = m - k
    BY <1>5, Remainder, DriverAssumption
  <1>7. (m - k) * Beat + 0 = (m - k) * Beat
    BY <1>5, DriverAssumption
  <1> QED
    BY <1>1, <1>5, <1>6, <1>7

\* neuron.c:263, lif.c:15-16. In spike-driven mode the assertion that a neuron is not
\* ahead of the previous beat never fails, a neuron that catches up does so by whole
\* beats, and the leak over them finds no current: for every network and any neuron
\* model that starts, and is left by a beat, ready for that leak.
THEOREM HandlerAssertsHold ==
    ASSUME NEW CONSTANT S, StateSpace(S),
           \A n \in Neurons : leak_bigdt_ready(InitialNeuron[n]),
           \A x \in S : leak_bigdt_ready(leak_and_fire(x).neuron)
    PROVE  Spec => []HandlerAsserts
  <1> DEFINE Ready(lp) == /\ lp.neuron \in S
                          /\ ~ lp.next_heartbeat_sent => leak_bigdt_ready(lp.neuron)
             ReadyInv  == SpikeDriven => \A n \in Neurons : Ready(lps[n])
  <1>1. Init => ReadyInv
    <2> SUFFICES ASSUME Init, NEW n \in Neurons PROVE Ready(lps[n])
      OBVIOUS
    <2>1. lps[n].neuron = InitialNeuron[n]
      BY DEF Init, initialize_NeuronLP
    <2>2. InitialNeuron[n] \in S /\ leak_bigdt_ready(InitialNeuron[n])
      BY DEF StateSpace
    <2> QED
      BY <2>1, <2>2
  <1>2. IInv /\ ReadyInv /\ [Next]_vars => ReadyInv'
    <2> SUFFICES ASSUME IInv, ReadyInv, [Next]_vars, SpikeDriven, NEW n \in Neurons
                 PROVE  Ready(lps'[n])
      OBVIOUS
    <2>1. CASE UNCHANGED lps
      BY <2>1
    <2>2. ASSUME NEW e \in pending, Process(e)
          PROVE  Ready(lps'[n])
      <3>1. IsEvent(e) /\ e.dest \in Neurons /\ IsLP(lps[e.dest])
        BY <2>2, NextEvent DEF IsEvent
      <3>2. DOMAIN lps = Neurons
        BY DEF IInv, LPInv
      <3>3. CASE n # e.dest
        BY <2>2, <3>2, <3>3 DEF Process
      <3>4. CASE n = e.dest
        <4> DEFINE lp == lps[n]
        <4>1. lps'[n] = Handle(lp, e).lp
          BY <2>2, <3>1, <3>2, <3>4 DEF Process
        <4>2. lp.neuron \in S /\ lp.last_heartbeat \in Nat
          BY DEF IInv, LPInv
        <4>3. lps'[n].neuron \in S
          BY <3>1, <3>4, <4>1, <4>2, HandledNeuron
        <4>4. CASE e.type = "heartbeat"
          <5>1. lps'[n].neuron = leak_and_fire(lp.neuron).neuron
            BY <4>1, <4>4 DEF Handle, event_spike_driven, AfterBeat
          <5> QED
            BY <4>2, <4>3, <5>1
        <4>5. CASE e.type # "heartbeat"
          <5>1. Handle(lp, e).lp.next_heartbeat_sent = TRUE
            BY <3>1, <3>4, <4>5, HandledLP
          <5>2. lps'[n].next_heartbeat_sent = TRUE
            BY <4>1, <5>1
          <5> QED
            BY <4>3, <5>2
        <4> QED
          BY <4>4, <4>5
      <3> QED
        BY <3>3, <3>4
    <2> QED
      BY <2>1, <2>2 DEF Next, Tick, Finished, vars
  <1>3. IInv /\ ReadyInv => HandlerAsserts
    <2> SUFFICES ASSUME IInv, ReadyInv, NEW e \in pending, SpikeDriven
                 PROVE  LET lp == lps[e.dest]
                        IN  /\ lp.last_heartbeat <= find_prev_heartbeat_time(now)
                            /\ IsBehind(lp, now) =>
                                  /\ leak_bigdt_ready(lp.neuron)
                                  /\ BeatsBehind(lp, now) * Beat
                                       = find_prev_heartbeat_time(now) - lp.last_heartbeat
      BY DEF HandlerAsserts
    <2> DEFINE lp == lps[e.dest]
    <2>1. e.dest \in Neurons /\ now \in Nat
      BY DEF IInv, QueueInv, IsEvent
    <2>2. lp.last_heartbeat \in 0 .. now /\ lp.last_heartbeat % Beat = 0
      BY <2>1 DEF IInv, LPInv
    <2>3. lp.last_heartbeat \in Nat /\ lp.last_heartbeat <= now
      BY <2>1, <2>2
    <2>4. /\ lp.last_heartbeat <= Prev(now)
          /\ ((Prev(now) - lp.last_heartbeat) \div Beat) * Beat = Prev(now) - lp.last_heartbeat
      BY <2>1, <2>2, <2>3, WholeBeatsBehind
    <2>5. IsBehind(lp, now) => leak_bigdt_ready(lp.neuron)
      BY <2>1 DEF IsBehind
    <2> QED
      BY <2>4, <2>5 DEF BeatsBehind, Prev
  <1> HIDE DEF ReadyInv
  <1> QED
    BY <1>1, <1>2, <1>3, Inductive, PTL DEF Spec
-----------------------------------------------------------------------------
(* Every run of doryta, in either mode of execution, is a run of the        *)
(* clocked network of SpikingNetwork: its first state is one of that        *)
(* network and each of its steps is a step of it or leaves it as it is.     *)
(* This is the part of ImplementsNetwork that says nothing of fairness.     *)

\* The variables of the network as SequentialRun!Network maps them.
Cell(n) ==
    IF AwaitsHeartbeat(n) THEN lps[n].neuron
    ELSE neuron_leak_bigdt(lps[n].neuron, BeatsTaken(n) - lps[n].last_heartbeat \div Beat)

Beats   == [n \in Neurons |-> BeatsTaken(n)]
Cells   == [n \in Neurons |-> Cell(n)]
Flight  == {e \in pending : e.type = "spike"}
Firings == {<<r.neuron, r.time>> : r \in {q \in trace : q.fired}}

\* Only the spike-driven mode ever skips beats.
QuietInv == SpikeDriven => \A n \in Neurons : ~ lps[n].next_heartbeat_sent => Quiet(lps[n].neuron)

-----------------------------------------------------------------------------
(* Counting beats.                                                          *)

LEMMA PrevQuotient ==
    ASSUME NEW t \in Nat
    PROVE  t \div Beat \in Nat /\ Prev(t) = (t \div Beat) * Beat /\ Prev(t) \div Beat = t \div Beat
  <1> DEFINE q == t \div Beat
  <1>1. q \in Nat /\ Prev(t) = q * Beat
    BY Division DEF Prev, find_prev_heartbeat_time
  <1> HIDE DEF q
  <1>2. (q * Beat + 0) \div Beat = q
    BY <1>1, Remainder, DriverAssumption
  <1>3. q * Beat + 0 = q * Beat
    BY <1>1, DriverAssumption
  <1> QED
    BY <1>1, <1>2, <1>3 DEF q

\* The beats between an earlier beat and the last one.
LEMMA BeatsBetween ==
    ASSUME NEW a \in Nat, a % Beat = 0, NEW t \in Nat, a <= t
    PROVE  /\ a <= Prev(t)
           /\ (t \div Beat) - (a \div Beat) \in Nat
           /\ (Prev(t) - a) \div Beat = (t \div Beat) - (a \div Beat)
           /\ a = Prev(t) => (t \div Beat) - (a \div Beat) = 0
  <1>1. a <= Prev(t) /\ Prev(t) \in Nat /\ Prev(a) = a
    BY PrevIsLast, PrevBeat
  <1> DEFINE k == a \div Beat
             m == t \div Beat
  <1>2. k \in Nat /\ m \in Nat /\ a = k * Beat /\ Prev(t) = m * Beat
    BY <1>1, PrevQuotient
  <1> HIDE DEF k, m
  <1>3. k <= m
    BY <1>1, <1>2, Product, DriverAssumption
  <1>4. m - k \in Nat /\ Prev(t) - a = (m - k) * Beat + 0
    BY <1>2, <1>3, DriverAssumption
  <1>5. ((m - k) * Beat + 0) \div Beat = m - k
    BY <1>4, Remainder, DriverAssumption
  <1>6. a = Prev(t) => m = k
    BY <1>2, <1>3, Product, DriverAssumption
  <1> QED
    BY <1>1, <1>2, <1>4, <1>5, <1>6 DEF k, m

LEMMA TickQuotient ==
    ASSUME NEW t \in Nat
    PROVE  \/ (t + 1) \div Beat = t \div Beat /\ (t + 1) % Beat # 0
           \/ /\ (t + 1) \div Beat = (t \div Beat) + 1 /\ (t + 1) % Beat = 0
              /\ t + 1 = ((t \div Beat) + 1) * Beat
  <1>1. /\ Prev(t) \div Beat = t \div Beat /\ Prev(t) = (t \div Beat) * Beat
        /\ Prev(t + 1) \div Beat = (t + 1) \div Beat
        /\ t \div Beat \in Nat
    BY PrevQuotient
  <1> DEFINE q == t \div Beat
  <1> HIDE DEF q
  <1>2. q \in Nat /\ Prev(t) = q * Beat
    BY <1>1 DEF q
  <1>3. CASE Prev(t + 1) = Prev(t) /\ (t + 1) % Beat # 0
    BY <1>1, <1>3
  <1>4. CASE (t + 1) % Beat = 0 /\ t + 1 = Prev(t) + Beat
    <2>1. t + 1 = (q + 1) * Beat /\ t + 1 = (q + 1) * Beat + 0
      BY <1>2, <1>4, DriverAssumption
    <2>2. ((q + 1) * Beat + 0) \div Beat = q + 1
      BY <1>2, Remainder, DriverAssumption
    <2> QED
      BY <1>4, <2>1, <2>2 DEF q
  <1> QED
    BY <1>3, <1>4, PrevTick

\* Beats taken, by whether a heartbeat is due at this very instant.
LEMMA BeatCount ==
    ASSUME IInv, NEW n \in Neurons
    PROVE  /\ now \div Beat \in Nat
           /\ BeatsNow(n) => BeatsTaken(n) = (now \div Beat) - 1
           /\ ~ BeatsNow(n) => BeatsTaken(n) = now \div Beat
  <1>1. now \div Beat \in Nat
    BY PrevQuotient DEF IInv
  <1> QED
    BY <1>1 DEF BeatsTaken, BeatsNow

\* Once an event is handled its neuron awaits nothing at this instant, and has taken all
\* its beats; the other neurons are as they were.
LEMMA CountAfter ==
    ASSUME IInv, NEW e \in pending, Process(e), NEW n \in Neurons
    PROVE  /\ n # e.dest => /\ BeatsTaken(n)' = BeatsTaken(n)
                            /\ Cell(n)' = Cell(n)
           /\ n = e.dest => BeatsTaken(n)' = now \div Beat
  <1>1. /\ now' = now /\ now \in Nat /\ now \div Beat \in Nat
        /\ Prev(now) + Beat # now
    BY PrevBeat, PrevQuotient, DriverAssumption DEF Process, IInv
  <1>2. ASSUME n # e.dest
        PROVE  BeatsTaken(n)' = BeatsTaken(n) /\ Cell(n)' = Cell(n)
    <2>1. \A h \in Heartbeats(n)' : h \in Heartbeats(n)
      BY <1>2, HeartbeatsAfter
    <2>2. \A h \in Heartbeats(n) : h \in Heartbeats(n)'
      <3> SUFFICES ASSUME NEW h \in Heartbeats(n) PROVE h \in Heartbeats(n)'
        OBVIOUS
      <3>1. h # e
        BY <1>2 DEF Heartbeats
      <3> QED
        BY <3>1, HeartbeatsKept
    <2>3. Heartbeats(n)' = Heartbeats(n)
      BY <2>1, <2>2
    <2>4. lps'[n] = lps[n]
      BY <1>2, LPAfter
    <2>5. BeatsTaken(n)' = BeatsTaken(n)
      BY <1>1, <2>3 DEF BeatsTaken
    <2>6. Cell(n)' = Cell(n)
      BY <2>4, <2>5 DEF Cell, AwaitsHeartbeat
    <2> QED
      BY <2>5, <2>6
  <1>3. ASSUME n = e.dest, NEW h \in Heartbeats(n)', h.time = now
        PROVE  FALSE
    <2>1. h \in Heartbeats(n) /\ h # e
      BY <1>1, <1>3, HeartbeatsAfter
    <2>2. BeatsNow(n)
      BY <1>3, <2>1 DEF BeatsNow
    <2>3. IsEvent(e) /\ (e.type = "spike" => ~ BeatsNow(n))
             /\ (e.type = "heartbeat" => e \in Heartbeats(n))
      BY <1>3, NextEvent
    <2>4. e \in Heartbeats(n)
      BY <2>2, <2>3 DEF IsEvent
    <2>5. \A g, k \in Heartbeats(n) : g = k
      BY DEF IInv, BeatInv
    <2> QED
      BY <2>1, <2>4, <2>5
  <1>4. n = e.dest => BeatsTaken(n)' = now \div Beat
    BY <1>1, <1>3 DEF BeatsTaken
  <1> QED
    BY <1>2, <1>4

\* The neuron a spike is handed to, seen from the network: it integrates the spike
\* on top of the beats it had to make up for.
LEMMA CellAfterSpike ==
    ASSUME IInv, QuietInv, NEW e \in pending, Process(e), e.type = "spike"
    PROVE  Cell(e.dest)' = neuron_integrate(Cell(e.dest), e.current)
  <1> DEFINE d == e.dest
             lp == lps[d]
  <1>1. /\ IsEvent(e) /\ e.time = now /\ IsLP(lp) /\ d \in Neurons /\ ~ BeatsNow(d)
        /\ e.type # "heartbeat" /\ now \in Nat
    BY NextEvent DEF IsEvent, IInv
  <1>2. lps'[d] = Handle(lp, e).lp
    BY <1>1 DEF Process, IInv, LPInv
  <1>3. /\ lp.last_heartbeat \in Nat /\ lp.last_heartbeat <= now
        /\ lp.last_heartbeat % Beat = 0
        /\ lp.next_heartbeat_sent \in BOOLEAN
        /\ ~ SpikeDriven => ~ lp.next_heartbeat_sent
    BY <1>1 DEF IInv, LPInv
  <1>4. BeatsTaken(d) = now \div Beat
    BY <1>1, BeatCount
  <1>5. CASE ~ SpikeDriven
    <2>1. lps'[d].neuron = neuron_integrate(lp.neuron, e.current)
      BY <1>1, <1>2, <1>5 DEF Handle, event_needy, IsLP
    <2> QED
      BY <1>5, <2>1 DEF Cell, AwaitsHeartbeat
  <1>6. CASE SpikeDriven
    <2> DEFINE up == UpToDate(lp, now)
    <2>1. lps'[d] = [up EXCEPT !.neuron = neuron_integrate(@, e.current),
                               !.next_heartbeat_sent = TRUE]
      BY <1>1, <1>2, <1>6 DEF Handle, event_spike_driven
    <2>2. IsLP(up)
      BY <1>1 DEF UpToDate, IsLP
    <2>3. up.neuron = Cell(d)
      <3>1. CASE lp.next_heartbeat_sent
        BY <3>1 DEF UpToDate, IsBehind, Cell, AwaitsHeartbeat
      <3>2. CASE ~ lp.next_heartbeat_sent
        <4> DEFINE j == (now \div Beat) - (lp.last_heartbeat \div Beat)
        <4>1. Cell(d) = neuron_leak_bigdt(lp.neuron, j)
          BY <1>4, <1>6, <3>2 DEF Cell, AwaitsHeartbeat
        <4>2. /\ lp.last_heartbeat <= Prev(now)
              /\ (Prev(now) - lp.last_heartbeat) \div Beat = j
              /\ lp.last_heartbeat = Prev(now) => j = 0
          <5> HIDE DEF lp
          <5> QED
            BY <1>1, <1>3, BeatsBetween
        <4> HIDE DEF j
        <4>3. CASE lp.last_heartbeat < Prev(now)
          <5>1. IsBehind(lp, now) /\ BeatsBehind(lp, now) = j
            BY <3>2, <4>2, <4>3 DEF IsBehind, BeatsBehind, Prev
          <5> QED
            BY <1>1, <4>1, <5>1 DEF UpToDate, IsLP
        <4>4. CASE lp.last_heartbeat = Prev(now)
          <5>1. ~ IsBehind(lp, now)
            BY <1>3, <4>4 DEF IsBehind, Prev
          <5>2. Quiet(lp.neuron)
            BY <1>1, <1>6, <3>2 DEF QuietInv
          <5>3. Cell(d) = lp.neuron
            BY <4>1, <4>2, <4>4, <5>2 DEF Quiet
          <5> QED
            BY <5>1, <5>3 DEF UpToDate
        <4>5. Prev(now) \in Nat
          BY <1>1, PrevBeat
        <4> QED
          BY <1>3, <4>2, <4>3, <4>4, <4>5
      <3> QED
        BY <1>3, <3>1, <3>2
    <2> HIDE DEF up
    <2>4. /\ lps'[d].neuron = neuron_integrate(up.neuron, e.current)
          /\ lps'[d].next_heartbeat_sent = TRUE
      BY <2>1, <2>2 DEF IsLP
    <2> QED
      BY <2>3, <2>4 DEF Cell, AwaitsHeartbeat
  <1> QED
    BY <1>5, <1>6

\* The neuron a heartbeat is handed to leaks and fires.
LEMMA CellAfterBeat ==
    ASSUME IInv, QuietInv', NEW e \in pending, Process(e), e.type = "heartbeat"
    PROVE  /\ Cell(e.dest) = lps[e.dest].neuron
           /\ Cell(e.dest)' = leak_and_fire(Cell(e.dest)).neuron
  <1> DEFINE d == e.dest
             lp == lps[d]
             beat == leak_and_fire(lp.neuron)
  <1>1. /\ IsEvent(e) /\ e.time = now /\ IsLP(lp) /\ d \in Neurons
        /\ AwaitsHeartbeat(d) /\ now \in Nat
    BY NextEvent DEF IsEvent, IInv
  <1>2. lps'[d] = Handle(lp, e).lp
    BY <1>1 DEF Process, IInv, LPInv
  <1>3. Cell(d) = lp.neuron
    BY <1>1 DEF Cell
  <1>4. CASE ~ SpikeDriven
    <2>1. lps'[d].neuron = beat.neuron
      BY <1>1, <1>2, <1>4 DEF Handle, event_needy, IsLP
    <2> QED
      BY <1>3, <1>4, <2>1 DEF Cell, AwaitsHeartbeat
  <1>5. CASE SpikeDriven
    <2>1. lps'[d] = [neuron |-> beat.neuron, last_heartbeat |-> now,
                     next_heartbeat_sent |-> FALSE]
      BY <1>1, <1>2, <1>5 DEF Handle, event_spike_driven, AfterBeat
    <2>2. BeatsTaken(d)' = now \div Beat /\ now \div Beat \in Nat
      BY <1>1, CountAfter, PrevQuotient
    <2>3. Cell(d)' = neuron_leak_bigdt(beat.neuron, 0)
      <3> HIDE DEF beat
      <3> QED
        BY <1>5, <2>1, <2>2 DEF Cell, AwaitsHeartbeat
    <2>4. Quiet(beat.neuron)
      BY <1>1, <1>5, <2>1 DEF QuietInv
    <2> QED
      BY <1>3, <2>3, <2>4 DEF Quiet
  <1> QED
    BY <1>3, <1>4, <1>5

\* The spikes under way and the firings, after a spike and after a heartbeat.
LEMMA TrafficAfterSpike ==
    ASSUME IInv, NEW e \in pending, Process(e), e.type = "spike"
    PROVE  Flight' = Flight \ {e} /\ Firings' = Firings
  <1>1. IsEvent(e) /\ e.type # "heartbeat"
    BY NextEvent
  <1>2. \A s \in Handle(lps[e.dest], e).sent : s.type # "spike"
    <2> SUFFICES ASSUME NEW s \in Handle(lps[e.dest], e).sent PROVE s.type # "spike"
      OBVIOUS
    <2>1. CASE ~ SpikeDriven
      BY <1>1, <2>1 DEF Handle, event_needy
    <2>2. CASE SpikeDriven
      BY <1>1, <2>2 DEF Handle, event_spike_driven, AskHeartbeat, heartbeat
    <2> QED
      BY <2>1, <2>2
  <1>3. Flight' = Flight \ {e}
    BY <1>2 DEF Flight, Process, Sent
  <1>4. trace' = trace
    BY <1>1 DEF Process, driver_neuron_event_commit, Handled
  <1> QED
    BY <1>3, <1>4 DEF Firings

LEMMA TrafficAfterBeat ==
    ASSUME IInv, NEW e \in pending, Process(e), e.type = "heartbeat"
    PROVE  LET fired == leak_and_fire(lps[e.dest].neuron).fired
           IN  /\ Flight' = Flight \cup Sent(IF fired THEN send_spike(e.dest, now) ELSE {})
               /\ Firings' = Firings \cup (IF fired THEN {<<e.dest, now>>} ELSE {})
  <1> DEFINE lp    == lps[e.dest]
             fired == leak_and_fire(lp.neuron).fired
             out   == Handle(lp, e)
             spikes == IF fired THEN send_spike(e.dest, now) ELSE {}
  <1>1. /\ IsEvent(e) /\ e.time = now /\ e.dest \in Neurons /\ now \in Nat
        /\ now % Beat = 0
    BY NextEvent DEF IsEvent, IInv
  <1>2. out.fired = fired
    BY DEF Handle, event_needy, event_spike_driven
  <1>3. \A s \in spikes : s.type = "spike"
    BY <1>1, SpikesSent
  <1>4. \A s : s \in out.sent /\ s.type = "spike" <=> s \in spikes
    <2>1. CASE SpikeDriven
      BY <1>1, <1>3, <2>1 DEF Handle, event_spike_driven
    <2>2. CASE ~ SpikeDriven
      <3>1. out.sent = {send_heartbeat(e.dest, now)} \cup spikes
        BY <1>1, <2>2 DEF Handle, event_needy
      <3>2. send_heartbeat(e.dest, now).type # "spike"
        BY DEF send_heartbeat, heartbeat
      <3> QED
        BY <1>3, <3>1, <3>2
    <2> QED
      BY <2>1, <2>2
  <1>5. Flight' = Flight \cup Sent(spikes)
    <2> HIDE DEF spikes
    <2>1. pending' = (pending \ {e}) \cup Sent(out.sent)
      BY DEF Process
    <2> HIDE DEF out
    <2> QED
      BY <1>4, <2>1 DEF Flight, Sent
  <1>6. Firings' = Firings \cup (IF fired THEN {<<e.dest, now>>} ELSE {})
    <2> DEFINE m == Handled(lp, e)
    <2>1. m.type = "heartbeat" /\ m.dest = e.dest /\ m.time = now /\ (m.fired <=> fired)
      BY <1>1, <1>2 DEF Handled, IsEvent
    <2> DEFINE r == [neuron |-> e.dest, time |-> now, fired |-> m.fired,
                     state |-> store_neuron(lp.neuron)]
    <2>2. trace' = trace \cup {r}
      <3> HIDE DEF m
      <3>1. trace' = trace \cup driver_neuron_event_commit(out.lp, m, Saved(lp))
        BY DEF Process, m
      <3> QED
        BY <2>1, <3>1 DEF driver_neuron_event_commit, Saved
    <2> HIDE DEF m
    <2>3. r.neuron = e.dest /\ r.time = now /\ (r.fired <=> fired)
      BY <2>1
    <2> HIDE DEF r
    <2> QED
      BY <2>2, <2>3 DEF Firings
  <1> QED
    BY <1>5, <1>6

-----------------------------------------------------------------------------
(* Steps of the network.                                                    *)

LEMMA NetworkIdle == UNCHANGED <<Beats, Cells, Flight, Firings>> => UNCHANGED Network!vars
  BY DEF Network!vars, Beats, Cells, Cell, Flight, Firings

LEMMA NetworkDelivers ==
    ASSUME NEW s \in Flight,
           Beats[s.dest] = s.time \div Beat,
           Cells' = [Cells EXCEPT ![s.dest] = neuron_integrate(@, s.current)],
           Flight' = Flight \ {s},
           UNCHANGED <<Beats, Firings>>
    PROVE  Network!Next
  <1>1. Network!Deliver(s)
    BY DEF Network!Deliver, Beats, Cells, Cell, Flight, Firings
  <1>2. s \in {e \in pending : e.type = "spike"}
    BY DEF Flight
  <1> QED
    BY <1>1, <1>2 DEF Network!Next

\* Neurons that take a beat at time t.
LEMMA NetworkBeats ==
    ASSUME NEW S \in SUBSET Neurons, S # {}, NEW t \in Nat, t < End, NEW k \in Int,
           t = (k + 1) * Beat,
           \A n \in S : BeatsTaken(n) = k,
           \A m \in Neurons : BeatsTaken(m) \in Int /\ k <= BeatsTaken(m),
           \A s \in Flight : s.dest \in S => s.time >= t,
           Beats' = [n \in Neurons |-> IF n \in S THEN BeatsTaken(n) + 1 ELSE BeatsTaken(n)],
           Cells' = [n \in Neurons |->
                       IF n \in S THEN leak_and_fire(Cell(n)).neuron ELSE Cell(n)],
           Firings' = Firings \cup {<<n, t>> : n \in {i \in S : leak_and_fire(Cell(i)).fired}},
           Flight' = Flight \cup Sent(UNION {send_spike(n, t) :
                                 n \in {i \in S : leak_and_fire(Cell(i)).fired}})
    PROVE  Network!Next
  <1> DEFINE fire == {i \in S : leak_and_fire(Cell(i)).fired}
  <1>1. \A n \in S : Network!NextBeat(n) = t
    BY DEF Network!NextBeat
  <1>2. \A n \in S : Network!CanBeat(n)
    BY <1>1 DEF Network!CanBeat, Flight
  <1>3. \A n \in Neurons : Cells[n] = Cell(n) /\ Beats[n] = BeatsTaken(n)
    BY DEF Cells, Beats
  <1>4. fire = {n \in S : Network!leak_and_fire(Cells[n]).fired}
    BY <1>3 DEF leak_and_fire, Network!leak_and_fire
  <1> HIDE DEF fire
  <1>5. fire \subseteq S
    BY DEF fire
  <1>6. Beats' = [n \in Neurons |-> IF n \in S THEN Beats[n] + 1 ELSE Beats[n]]
    BY <1>3
  <1>7. Cells' = [n \in Neurons |-> IF n \in S THEN Network!leak_and_fire(Cells[n]).neuron
                                   ELSE Cells[n]]
    BY <1>3 DEF leak_and_fire, Network!leak_and_fire
  <1>8. {<<n, t>> : n \in fire} = {<<n, Network!NextBeat(n)>> : n \in fire}
    BY <1>1, <1>5
  <1>9. Firings' = Firings \cup {<<n, Network!NextBeat(n)>> : n \in fire}
    BY <1>8 DEF fire
  <1>10. Flight' = Flight \cup Network!Sent(UNION {Network!send_spike(n, Network!NextBeat(n)) :
                                                   n \in fire})
    <2>1. \A n \in fire : send_spike(n, t) = Network!send_spike(n, Network!NextBeat(n))
      BY <1>1, <1>5
      DEF send_spike, Network!send_spike, spike, Network!spike, Id, Network!Id,
          delay_double, Network!delay_double
    <2>2. {send_spike(n, t) : n \in fire}
             = {Network!send_spike(n, Network!NextBeat(n)) : n \in fire}
      BY <2>1
    <2>3. Flight' = Flight \cup Sent(UNION {send_spike(n, t) : n \in fire})
      BY DEF fire
    <2> QED
      BY <2>2, <2>3 DEF Sent, Network!Sent
  <1>11. Network!TakeBeat(S)
    BY <1>2, <1>4, <1>6, <1>7, <1>9, <1>10
    DEF Network!TakeBeat, Beats, Cells, Cell, Flight, Firings
  <1>12. S \in (SUBSET Neurons) \ {{}}
    OBVIOUS
  <1> QED
    BY <1>11, <1>12 DEF Network!Next

-----------------------------------------------------------------------------
(* Steps of the run.                                                        *)

LEMMA SpikeIsDelivered ==
    ASSUME IInv, QuietInv, NEW e \in pending, Process(e), e.type = "spike"
    PROVE  Network!Next
  <1>1. /\ e.time = now /\ e.dest \in Neurons /\ ~ BeatsNow(e.dest) /\ e \in Flight
    BY NextEvent DEF IsEvent, Flight
  <1>2. Beats[e.dest] = e.time \div Beat
    BY <1>1, BeatCount DEF Beats
  <1>3. Beats' = Beats
    <2>1. \A n \in Neurons : BeatsTaken(n)' = BeatsTaken(n)
      BY <1>1, BeatCount, CountAfter
    <2> QED
      BY <2>1 DEF Beats
  <1>4. Cells' = [Cells EXCEPT ![e.dest] = neuron_integrate(@, e.current)]
    <2>1. Cell(e.dest)' = neuron_integrate(Cell(e.dest), e.current)
      BY CellAfterSpike
    <2>2. \A n \in Neurons : n # e.dest => Cell(n)' = Cell(n)
      BY CountAfter
    <2> QED
      BY <1>1, <2>1, <2>2 DEF Cells
  <1> QED
    BY <1>1, <1>2, <1>3, <1>4, TrafficAfterSpike, NetworkDelivers

LEMMA HeartbeatIsABeat ==
    ASSUME IInv, QuietInv', NEW e \in pending, Process(e), e.type = "heartbeat"
    PROVE  Network!Next
  <1> DEFINE d == e.dest
             S == {d}
             k == (now \div Beat) - 1
             fire == {i \in S : leak_and_fire(Cell(i)).fired}
  <1>1. /\ e.time = now /\ d \in Neurons /\ e \in Heartbeats(d) /\ Prev(now) = now
        /\ now \in Nat /\ now < End
    BY NextEvent DEF IsEvent, IInv
  <1>2. now \div Beat \in Nat /\ k \in Int /\ now = (k + 1) * Beat
    BY <1>1, PrevQuotient
  <1>3. BeatsNow(d) /\ BeatsTaken(d) = k
    BY <1>1, BeatCount DEF BeatsNow
  <1>4. \A m \in Neurons : BeatsTaken(m) \in Int /\ k <= BeatsTaken(m)
    BY <1>2, BeatCount
  <1>5. \A s \in Flight : s.time >= now
    <2> SUFFICES ASSUME NEW s \in Flight PROVE s.time >= now
      OBVIOUS
    <2>1. IsEvent(s) /\ now <= s.time
      BY DEF Flight, IInv, QueueInv
    <2> QED
      BY <1>1, <2>1 DEF IsEvent
  <1>6. Beats' = [n \in Neurons |-> IF n \in S THEN BeatsTaken(n) + 1 ELSE BeatsTaken(n)]
    <2>1. \A n \in Neurons : BeatsTaken(n)' = IF n \in S THEN BeatsTaken(n) + 1 ELSE BeatsTaken(n)
      BY <1>2, <1>3, CountAfter
    <2> HIDE DEF S
    <2> QED
      BY <2>1 DEF Beats
  <1>7. Cell(d) = lps[d].neuron /\ Cell(d)' = leak_and_fire(Cell(d)).neuron
    BY CellAfterBeat
  <1>8. Cells' = [n \in Neurons |-> IF n \in S THEN leak_and_fire(Cell(n)).neuron ELSE Cell(n)]
    <2>1. \A n \in Neurons : Cell(n)' = IF n \in S THEN leak_and_fire(Cell(n)).neuron ELSE Cell(n)
      BY <1>7, CountAfter
    <2> HIDE DEF S
    <2> QED
      BY <2>1 DEF Cells
  <1>9. fire = IF leak_and_fire(lps[d].neuron).fired THEN {d} ELSE {}
    BY <1>7
  <1>10. /\ Firings' = Firings \cup {<<n, now>> : n \in fire}
         /\ Flight' = Flight \cup Sent(UNION {send_spike(n, now) : n \in fire})
    <2> DEFINE fired == leak_and_fire(lps[d].neuron).fired
    <2>1. /\ Flight' = Flight \cup Sent(IF fired THEN send_spike(d, now) ELSE {})
          /\ Firings' = Firings \cup (IF fired THEN {<<d, now>>} ELSE {})
      BY TrafficAfterBeat
    <2>2. fire = IF fired THEN {d} ELSE {}
      BY <1>9
    <2> HIDE DEF fired, fire
    <2>3. CASE fired
      <3>1. UNION {send_spike(n, now) : n \in fire} = send_spike(d, now)
        BY <2>2, <2>3
      <3>2. {<<n, now>> : n \in fire} = {<<d, now>>}
        BY <2>2, <2>3
      <3> QED
        BY <2>1, <2>3, <3>1, <3>2
    <2>4. CASE ~ fired
      <3>1. UNION {send_spike(n, now) : n \in fire} = {} /\ {<<n, now>> : n \in fire} = {}
        BY <2>2, <2>4
      <3> QED
        BY <2>1, <2>4, <3>1
    <2> QED
      BY <2>3, <2>4
  <1>11. S \in SUBSET Neurons /\ S # {} /\ \A n \in S : BeatsTaken(n) = k
    BY <1>1, <1>3
  <1> HIDE DEF S, k
  <1> QED
    BY <1>1, <1>2, <1>4, <1>5, <1>6, <1>8, <1>10, <1>11, NetworkBeats DEF fire

\* The clock moves on: to a beat, where all that await no heartbeat take theirs
\* together, or not.
LEMMA TickIsQuietBeats ==
    ASSUME IInv, QuietInv, Tick
    PROVE  Network!Next \/ UNCHANGED <<Beats, Cells, Flight, Firings>>
  <1> DEFINE q == now \div Beat
  <1>1. /\ now \in Nat /\ now' = now + 1 /\ now + 1 < End /\ End \in Nat /\ q \in Nat
        /\ lps' = lps /\ pending' = pending /\ trace' = trace
        /\ \A e \in pending : e.time > now
    BY PrevQuotient, DriverAssumption DEF IInv, Tick
  <1>2. Flight' = Flight /\ Firings' = Firings
    BY <1>1 DEF Flight, Firings
  <1>3. \A n \in Neurons : /\ Heartbeats(n)' = Heartbeats(n)
                           /\ AwaitsHeartbeat(n)' = AwaitsHeartbeat(n)
    BY <1>1 DEF Heartbeats, AwaitsHeartbeat
  <1>4. \A n \in Neurons : BeatsTaken(n) = q
    <2>1. \A n \in Neurons : ~ BeatsNow(n)
      BY <1>1 DEF BeatsNow, Heartbeats
    <2> QED
      BY <2>1, BeatCount
  <1>5. CASE (now + 1) \div Beat = q /\ (now + 1) % Beat # 0
    <2>1. ASSUME NEW n \in Neurons, NEW h \in Heartbeats(n), h.time = now + 1
          PROVE  FALSE
      <3>1. HeartbeatTime(h) /\ h.time > now
        BY <1>1 DEF IInv, BeatInv, Heartbeats
      <3>2. /\ Prev(now) \in Nat /\ Prev(now) % Beat = 0 /\ (Prev(now) + Beat) % Beat = 0
        BY <1>1, PrevBeat, NextMultiple
      <3>3. h.time = Prev(now) + Beat
        BY <1>1, <3>1 DEF HeartbeatTime
      <3> QED
        BY <1>5, <2>1, <3>2, <3>3
    <2>2. \A n \in Neurons : BeatsTaken(n)' = q
      BY <1>1, <1>3, <1>5, <2>1 DEF BeatsTaken
    <2>3. \A n \in Neurons : BeatsTaken(n)' = BeatsTaken(n) /\ Cell(n)' = Cell(n)
      BY <1>1, <1>3, <1>4, <2>2 DEF Cell
    <2> QED
      BY <1>2, <2>3 DEF Beats, Cells
  <1>6. CASE /\ (now + 1) \div Beat = q + 1 /\ (now + 1) % Beat = 0
             /\ now + 1 = (q + 1) * Beat
    <2> DEFINE S == {n \in Neurons : ~ AwaitsHeartbeat(n)}
               fire == {i \in S : leak_and_fire(Cell(i)).fired}
    <2>1. \A n \in Neurons : BeatsTaken(n)' = IF n \in S THEN q + 1 ELSE q
      <3> SUFFICES ASSUME NEW n \in Neurons
                   PROVE  BeatsTaken(n)' = IF AwaitsHeartbeat(n) THEN q ELSE q + 1
        OBVIOUS
      <3>1. BeatsTaken(n)' = (q + 1) - (IF \E h \in Heartbeats(n) : h.time = now + 1 THEN 1 ELSE 0)
        BY <1>1, <1>3, <1>6 DEF BeatsTaken
      <3>2. ~ AwaitsHeartbeat(n) => Heartbeats(n) = {}
        BY DEF IInv, BeatInv
      <3>3. CASE AwaitsHeartbeat(n)
        <4>1. now + 1 = Prev(now) + Beat
          BY <1>1, <1>6, PrevQuotient, DriverAssumption
        <4>2. Heartbeats(n) # {}
          BY <1>1, <3>3, <4>1, DriverAssumption DEF IInv, BeatInv
        <4>3. PICK h \in Heartbeats(n) : TRUE
          BY <4>2
        <4>4. HeartbeatTime(h) /\ h.time > now
          BY <1>1 DEF IInv, BeatInv, Heartbeats
        <4>5. h.time = now + 1
          BY <1>1, <4>1, <4>4 DEF HeartbeatTime
        <4> QED
          BY <1>1, <3>1, <3>3, <4>5
      <3>4. CASE ~ AwaitsHeartbeat(n)
        BY <1>1, <3>1, <3>2, <3>4
      <3> QED
        BY <3>3, <3>4
    <2>2. ASSUME NEW n \in S
          PROVE  /\ ~ leak_and_fire(Cell(n)).fired
                 /\ Cell(n)' = leak_and_fire(Cell(n)).neuron
      <3> DEFINE j == q - (lps[n].last_heartbeat \div Beat)
      <3>1. j \in Nat
        <4>1. /\ lps[n].last_heartbeat \in 0 .. now /\ lps[n].last_heartbeat % Beat = 0
          BY <2>2 DEF IInv, LPInv
        <4> QED
          BY <1>1, <4>1, BeatsBetween
      <3>2. lps[n].last_heartbeat \div Beat \in Nat
        <4>1. lps[n].last_heartbeat \in Nat
          BY <1>1, <2>2 DEF IInv, LPInv
        <4> QED
          BY <4>1, Division
      <3>3. Cell(n) = neuron_leak_bigdt(lps[n].neuron, j)
        BY <1>4, <2>2 DEF Cell
      <3>4. BeatsTaken(n)' - (lps[n].last_heartbeat \div Beat) = j + 1
        BY <1>1, <2>1, <2>2, <3>2
      <3>5. Cell(n)' = neuron_leak_bigdt(lps[n].neuron, j + 1)
        BY <1>1, <1>3, <2>2, <3>4 DEF Cell
      <3>6. Quiet(lps[n].neuron)
        BY <2>2 DEF QuietInv, AwaitsHeartbeat
      <3> HIDE DEF j
      <3> QED
        BY <3>1, <3>3, <3>5, <3>6 DEF Quiet
    <2>3. ASSUME NEW n \in Neurons, n \notin S
          PROVE  Cell(n)' = Cell(n)
      BY <1>1, <1>3, <2>3 DEF Cell
    <2> HIDE DEF S
    <2>4. CASE S = {}
      <3>1. \A n \in Neurons : BeatsTaken(n)' = BeatsTaken(n) /\ Cell(n)' = Cell(n)
        BY <1>4, <2>1, <2>3, <2>4
      <3> QED
        BY <1>2, <3>1 DEF Beats, Cells
    <2>5. CASE S # {}
      <3>1. fire = {}
        BY <2>2
      <3>2. Firings' = Firings \cup {<<n, now + 1>> : n \in fire}
        BY <1>2, <3>1
      <3>3. Flight' = Flight \cup Sent(UNION {send_spike(n, now + 1) : n \in fire})
        BY <1>2, <3>1 DEF Sent
      <3>4. Beats' = [n \in Neurons |-> IF n \in S THEN BeatsTaken(n) + 1 ELSE BeatsTaken(n)]
        BY <1>4, <2>1 DEF Beats
      <3>5. Cells' = [n \in Neurons |-> IF n \in S THEN leak_and_fire(Cell(n)).neuron ELSE Cell(n)]
        BY <2>2, <2>3 DEF Cells
      <3>6. \A s \in Flight : s.time >= now + 1
        <4> SUFFICES ASSUME NEW s \in Flight PROVE s.time >= now + 1
          OBVIOUS
        <4>1. IsEvent(s) /\ s.time > now
          BY <1>1 DEF Flight, IInv, QueueInv
        <4> QED
          BY <1>1, <4>1 DEF IsEvent
      <3>7. /\ S \in SUBSET Neurons /\ \A n \in S : BeatsTaken(n) = q
            /\ \A m \in Neurons : BeatsTaken(m) \in Int /\ q <= BeatsTaken(m)
        BY <1>1, <1>4 DEF S
      <3> HIDE DEF q
      <3>8. q \in Int /\ now + 1 \in Nat /\ now + 1 < End /\ now + 1 = (q + 1) * Beat
        BY <1>1, <1>6 DEF q
      <3> QED
        BY <2>5, <3>2, <3>3, <3>4, <3>5, <3>6, <3>7, <3>8, NetworkBeats
    <2> QED
      BY <2>4, <2>5
  <1> QED
    BY <1>1, <1>5, <1>6, TickQuotient

\* The run starts as the network does.
LEMMA StartsAsNetwork ==
    ASSUME Init, QuietInv
    PROVE  Network!Init
  <1>1. /\ now = 0 /\ trace = {} /\ IInv
        /\ lps = [n \in Neurons |-> initialize_NeuronLP(n)]
    BY InitInv DEF Init
  <1>2. PICK input \in SpikeInputs :
           pending = Sent(UNION {driver_neuron_init(n, input[n]) : n \in Neurons})
    BY DEF Init
  <1>3. 0 \div Beat = 0
    <2>1. (0 * Beat + 0) \div Beat = 0 /\ 0 * Beat + 0 = 0
      BY Remainder, DriverAssumption
    <2> QED
      BY <2>1
  <1>4. ASSUME NEW n \in Neurons
        PROVE  BeatsTaken(n) = 0 /\ Cell(n) = InitialNeuron[n]
    <2>1. ~ BeatsNow(n)
      <3> SUFFICES ASSUME NEW h \in Heartbeats(n), h.time = now PROVE FALSE
        BY DEF BeatsNow
      <3>1. h \in pending /\ h.type = "heartbeat"
        BY DEF Heartbeats
      <3>2. PICK m \in Neurons : h \in driver_neuron_init(m, input[m])
        BY <1>2, <3>1 DEF Sent
      <3>3. h = heartbeat(m, Beat, Id(m, 0, 0))
        BY <3>1, <3>2, FirstEvents
      <3>4. h.time = Beat
        BY <3>3, NewHeartbeat, DriverAssumption
      <3> QED
        BY <1>1, <3>4, DriverAssumption
    <2>2. BeatsTaken(n) = 0
      BY <1>1, <1>3, <2>1, BeatCount
    <2>3. /\ lps[n].neuron = InitialNeuron[n] /\ lps[n].last_heartbeat = 0
          /\ ~ lps[n].next_heartbeat_sent
      BY <1>1 DEF initialize_NeuronLP
    <2>4. SpikeDriven => Quiet(InitialNeuron[n])
      BY <2>3 DEF QuietInv
    <2> QED
      BY <1>3, <2>2, <2>3, <2>4 DEF Cell, AwaitsHeartbeat, Quiet
  <1>5. Beats = [n \in Neurons |-> 0] /\ Cells = [n \in Neurons |-> InitialNeuron[n]]
    BY <1>4 DEF Beats, Cells
  <1>6. Firings = {}
    BY <1>1 DEF Firings
  <1>7. Flight = Sent(UNION {send_spike_from_StorableSpike(n, input[n]) : n \in Neurons})
    <2>1. \A n \in Neurons : \A e \in driver_neuron_init(n, input[n]) :
             e.type = "spike" <=> e \in send_spike_from_StorableSpike(n, input[n])
      <3> SUFFICES ASSUME NEW n \in Neurons, NEW e \in driver_neuron_init(n, input[n])
                   PROVE  e.type = "spike" <=> e \in send_spike_from_StorableSpike(n, input[n])
        OBVIOUS
      <3>1. e \in send_spike_from_StorableSpike(n, input[n]) => e.type = "spike"
        BY InputSpikes
      <3>2. e \notin send_spike_from_StorableSpike(n, input[n]) => e = send_heartbeat(n, 0)
        BY DEF driver_neuron_init
      <3>3. send_heartbeat(n, 0).type = "heartbeat"
        BY DEF send_heartbeat, heartbeat
      <3> QED
        BY <3>1, <3>2, <3>3
    <2>2. \A n \in Neurons :
             send_spike_from_StorableSpike(n, input[n]) \subseteq driver_neuron_init(n, input[n])
      BY DEF driver_neuron_init
    <2> QED
      BY <1>2, <2>1, <2>2 DEF Flight, Sent
  <1>8. Network!Sent(UNION {Network!send_spike_from_StorableSpike(n, input[n]) : n \in Neurons})
           = Sent(UNION {send_spike_from_StorableSpike(n, input[n]) : n \in Neurons})
    BY DEF Network!Sent, Sent, Network!send_spike_from_StorableSpike,
           send_spike_from_StorableSpike, Network!spike, spike, Network!Id, Id
  <1> QED
    BY <1>5, <1>6, <1>7, <1>8 DEF Network!Init, Beats, Cells, Cell, Flight, Firings

LEMMA StepOfNetwork ==
    ASSUME IInv, QuietInv, QuietInv', [Next]_vars
    PROVE  [Network!Next]_(Network!vars)
  <1>1. ASSUME NEW e \in pending, Process(e)
        PROVE  Network!Next
    <2>1. e.type = "spike" \/ e.type = "heartbeat"
      BY <1>1, NextEvent DEF IsEvent
    <2> QED
      BY <1>1, <2>1, SpikeIsDelivered, HeartbeatIsABeat
  <1>2. CASE Tick
    BY <1>2, TickIsQuietBeats, NetworkIdle
  <1>3. CASE UNCHANGED vars
    BY <1>3 DEF vars, Network!vars, BeatsTaken, Heartbeats, AwaitsHeartbeat
  <1> QED
    BY <1>1, <1>2, <1>3 DEF Next, Finished

-----------------------------------------------------------------------------
\* README.md:86-94. In needy mode every run is one of the clocked network, whatever the
\* neuron model, the network, the input and the length of a beat.
THEOREM NeedyIsTheNetwork ==
    ASSUME ~ SpikeDriven
    PROVE  Spec => Network!Init /\ [][Network!Next]_(Network!vars)
  <1>1. QuietInv /\ QuietInv'
    BY DEF QuietInv
  <1>2. Init => Network!Init
    BY <1>1, StartsAsNetwork
  <1>3. IInv /\ [Next]_vars => [Network!Next]_(Network!vars)
    BY StepOfNetwork DEF QuietInv
  <1> QED
    BY <1>2, <1>3, Inductive, PTL DEF Spec

\* README.md:86-94, neuron.c:251-286. The spike-driven mode gives the same network, so
\* the same spikes and firings, for any neuron model that starts, and is left by a beat,
\* Quiet: that is all the two modes need to agree on.
THEOREM SpikeDrivenIsTheNetwork ==
    ASSUME NEW CONSTANT S, StateSpace(S),
           \A n \in Neurons : Quiet(InitialNeuron[n]),
           \A x \in S : Quiet(leak_and_fire(x).neuron)
    PROVE  Spec => Network!Init /\ [][Network!Next]_(Network!vars)
  <1> DEFINE Ready(lp) == lp.neuron \in S /\ (~ lp.next_heartbeat_sent => Quiet(lp.neuron))
             ReadyInv  == SpikeDriven => \A n \in Neurons : Ready(lps[n])
  <1>1. Init => ReadyInv
    <2> SUFFICES ASSUME Init, NEW n \in Neurons PROVE Ready(lps[n])
      OBVIOUS
    <2>1. lps[n].neuron = InitialNeuron[n]
      BY DEF Init, initialize_NeuronLP
    <2>2. InitialNeuron[n] \in S /\ Quiet(InitialNeuron[n])
      BY DEF StateSpace
    <2> QED
      BY <2>1, <2>2
  <1>2. IInv /\ ReadyInv /\ [Next]_vars => ReadyInv'
    <2> SUFFICES ASSUME IInv, ReadyInv, [Next]_vars, SpikeDriven, NEW n \in Neurons
                 PROVE  Ready(lps'[n])
      OBVIOUS
    <2>1. CASE UNCHANGED lps
      BY <2>1
    <2>2. ASSUME NEW e \in pending, Process(e)
          PROVE  Ready(lps'[n])
      <3>1. IsEvent(e) /\ e.dest \in Neurons /\ IsLP(lps[e.dest])
        BY <2>2, NextEvent DEF IsEvent
      <3>2. DOMAIN lps = Neurons
        BY DEF IInv, LPInv
      <3>3. CASE n # e.dest
        BY <2>2, <3>2, <3>3 DEF Process
      <3>4. CASE n = e.dest
        <4> DEFINE lp == lps[n]
        <4>1. lps'[n] = Handle(lp, e).lp
          BY <2>2, <3>1, <3>2, <3>4 DEF Process
        <4>2. lp.neuron \in S /\ lp.last_heartbeat \in Nat
          BY DEF IInv, LPInv
        <4>3. lps'[n].neuron \in S
          BY <3>1, <3>4, <4>1, <4>2, HandledNeuron
        <4>4. CASE e.type = "heartbeat"
          <5>1. lps'[n].neuron = leak_and_fire(lp.neuron).neuron
            BY <4>1, <4>4 DEF Handle, event_spike_driven, AfterBeat
          <5> QED
            BY <4>2, <4>3, <5>1
        <4>5. CASE e.type # "heartbeat"
          <5>1. Handle(lp, e).lp.next_heartbeat_sent = TRUE
            BY <3>1, <3>4, <4>5, HandledLP
          <5>2. lps'[n].next_heartbeat_sent = TRUE
            BY <4>1, <5>1
          <5> QED
            BY <4>3, <5>2
        <4> QED
          BY <4>4, <4>5
      <3> QED
        BY <3>3, <3>4
    <2> QED
      BY <2>1, <2>2 DEF Next, Tick, Finished, vars
  <1>3. ReadyInv => QuietInv
    BY DEF QuietInv
  <1> HIDE DEF ReadyInv
  <1>4. Init => Network!Init
    BY <1>1, <1>3, StartsAsNetwork
  <1>5. IInv /\ QuietInv /\ QuietInv' /\ [Next]_vars => [Network!Next]_(Network!vars)
    BY StepOfNetwork
  <1> QED
    BY <1>1, <1>2, <1>3, <1>4, <1>5, Inductive, PTL DEF Spec

-----------------------------------------------------------------------------
(* A buffer and the set A of all the entries that came for it, in the order *)
(* of time.                                                                 *)

Keeps(buffer, size, A) ==
    /\ buffer = [entries |-> buffer.entries, limit_hit |-> buffer.limit_hit]
    /\ buffer.entries \in Seq(A)
    /\ \A i, j \in DOMAIN buffer.entries :
          i < j => /\ buffer.entries[i].time <= buffer.entries[j].time
                   /\ buffer.entries[i] # buffer.entries[j]
    /\ IsFiniteSet(A)
    /\ \A a \in A : a \notin ToSet(buffer.entries) =>
          \A k \in ToSet(buffer.entries) : k.time <= a.time
    /\ Len(buffer.entries) = IF Cardinality(A) <= size THEN Cardinality(A) ELSE size
    /\ buffer.limit_hit <=> Cardinality(A) > size

LEMMA DistinctCount ==
    ASSUME NEW A, NEW s \in Seq(A), \A i, j \in DOMAIN s : i < j => s[i] # s[j]
    PROVE  IsFiniteSet(ToSet(s)) /\ Cardinality(ToSet(s)) = Len(s) /\ ToSet(s) \subseteq A
  <1> DEFINE n == Len(s)
  <1>1. n \in Nat /\ DOMAIN s = 1 .. n
    OBVIOUS
  <1>2. IsFiniteSet(1 .. n) /\ Cardinality(1 .. n) = n
    BY <1>1, FS_Interval
  <1>3. ExistsBijection(1 .. n, ToSet(s))
    <2> DEFINE f == [i \in 1 .. n |-> s[i]]
    <2>1. f \in [1 .. n -> ToSet(s)]
      BY <1>1 DEF ToSet
    <2>2. \A i, j \in 1 .. n : f[i] = f[j] => i = j
      <3>1. \A i, j \in 1 .. n : i < j => s[i] # s[j]
        BY <1>1
      <3> HIDE DEF n
      <3> SUFFICES ASSUME NEW i \in 1 .. n, NEW j \in 1 .. n, i # j PROVE s[i] # s[j]
        OBVIOUS
      <3>2. i < j \/ j < i
        BY <1>1
      <3> QED
        BY <3>1, <3>2
    <2>3. \A x \in ToSet(s) : \E i \in 1 .. n : f[i] = x
      BY <1>1 DEF ToSet
    <2> HIDE DEF f, n
    <2>4. f \in Bijection(1 .. n, ToSet(s))
      BY <2>1, <2>2, <2>3 DEF Bijection, Injection, Surjection, IsInjective
    <2> QED
      BY <2>4 DEF ExistsBijection
  <1>4. ToSet(s) \subseteq A
    BY DEF ToSet
  <1> HIDE DEF n
  <1> QED
    BY <1>1, <1>2, <1>3, <1>4, FS_Bijection DEF n

Extends(t, s, a) ==
    /\ Len(t) = Len(s) + 1 /\ DOMAIN t = 1 .. Len(s) + 1
    /\ \A i \in 1 .. Len(s) : t[i] = s[i]
    /\ t[Len(s) + 1] = a
    /\ ToSet(t) = ToSet(s) \cup {a}

LEMMA Appended ==
    ASSUME NEW A, NEW s \in Seq(A), NEW a
    PROVE  Append(s, a) \in Seq(A \cup {a}) /\ Extends(Append(s, a), s, a)
  <1> DEFINE n == Len(s)
             t == Append(s, a)
  <1>1. n \in Nat /\ DOMAIN s = 1 .. n /\ \A i \in 1 .. n : s[i] \in A
    OBVIOUS
  <1>2. s \in Seq(A \cup {a})
    OBVIOUS
  <1>3. /\ t \in Seq(A \cup {a}) /\ Len(t) = n + 1 /\ DOMAIN t = 1 .. n + 1
        /\ \A i \in 1 .. n : t[i] = s[i]
        /\ t[n + 1] = a
    BY <1>2
  <1> HIDE DEF n, t
  <1>4. ToSet(t) = ToSet(s) \cup {a}
    <2>1. 1 .. n + 1 = 1 .. n \cup {n + 1}
      BY <1>1
    <2> QED
      BY <1>1, <1>3, <2>1 DEF ToSet
  <1> QED
    BY <1>1, <1>3, <1>4 DEF n, t, Extends

\* A record that is later than all before it leaves the first ones in the buffer.
LEMMA RecordKept ==
    ASSUME NEW A, NEW buffer, NEW size \in Nat, Keeps(buffer, size, A),
           NEW a, a \notin A, \A k \in A : k.time <= a.time
    PROVE  Keeps(Recorded(buffer, size, a), size, A \cup {a})
  <1> DEFINE s == buffer.entries
             B == A \cup {a}
             n == Len(s)
  <1>1. /\ buffer = [entries |-> s, limit_hit |-> buffer.limit_hit]
        /\ s \in Seq(A) /\ IsFiniteSet(A)
        /\ n = IF Cardinality(A) <= size THEN Cardinality(A) ELSE size
        /\ buffer.limit_hit <=> Cardinality(A) > size
        /\ \A i, j \in DOMAIN s : i < j => s[i].time <= s[j].time /\ s[i] # s[j]
        /\ \A x \in A : x \notin ToSet(s) => \A k \in ToSet(s) : k.time <= x.time
    BY DEF Keeps
  <1>2. /\ IsFiniteSet(B) /\ Cardinality(A) \in Nat /\ Cardinality(B) = Cardinality(A) + 1
    BY <1>1, FS_AddElement, FS_CardinalityType
  <1>3. IsFiniteSet(ToSet(s)) /\ Cardinality(ToSet(s)) = n /\ ToSet(s) \subseteq A
    BY <1>1, DistinctCount
  <1>4. n \in Nat /\ DOMAIN s = 1 .. n /\ \A i \in 1 .. n : s[i] \in A
    BY <1>1
  <1> HIDE DEF s, B, n
  <1>5. CASE n < size
    <2> DEFINE t == Append(s, a)
    <2>1. Cardinality(A) = n /\ ~ (Cardinality(A) > size)
      BY <1>1, <1>2, <1>5
    <2>2. ToSet(s) = A
      BY <1>1, <1>3, <2>1, FS_Subset
    <2>3. Recorded(buffer, size, a) = [entries |-> t, limit_hit |-> buffer.limit_hit]
      <3>1. Recorded(buffer, size, a) = [buffer EXCEPT !.entries = Append(@, a)]
        BY <1>5 DEF Recorded, s, n
      <3> HIDE DEF t
      <3>2. [buffer EXCEPT !.entries = Append(@, a)]
              = [buffer EXCEPT !.entries = Append(s, a)]
        BY DEF s
      <3>3. [buffer EXCEPT !.entries = t] = [entries |-> t, limit_hit |-> buffer.limit_hit]
        BY <1>1
      <3> QED
        BY <3>1, <3>2, <3>3 DEF t
    <2>4. /\ t \in Seq(B) /\ Len(t) = n + 1 /\ DOMAIN t = 1 .. n + 1
          /\ \A i \in 1 .. n : t[i] = s[i] /\ s[i] \in A
          /\ t[n + 1] = a
          /\ ToSet(t) = ToSet(s) \cup {a}
      <3>1. s \in Seq(A)
        BY <1>1
      <3>2. t \in Seq(A \cup {a}) /\ Extends(t, s, a)
        BY <3>1, Appended
      <3> QED
        BY <1>4, <3>2 DEF n, B, Extends
    <2> HIDE DEF t
    <2>5. ASSUME NEW i \in DOMAIN t, NEW j \in DOMAIN t, i < j
          PROVE  t[i].time <= t[j].time /\ t[i] # t[j]
      <3>1. i \in 1 .. n
        BY <1>4, <2>4, <2>5
      <3>2. CASE j \in 1 .. n
        BY <1>1, <1>4, <2>4, <2>5, <3>1, <3>2
      <3>3. CASE j = n + 1
        BY <2>4, <3>1, <3>3
      <3> QED
        BY <1>4, <2>4, <3>2, <3>3
    <2>6. ToSet(t) = B
      BY <2>2, <2>4 DEF B
    <2>7. n + 1 = IF Cardinality(B) <= size THEN Cardinality(B) ELSE size
      BY <1>2, <1>4, <1>5, <2>1
    <2>8. buffer.limit_hit <=> Cardinality(B) > size
      BY <1>1, <1>2, <1>4, <1>5, <2>1
    <2>9. Keeps([entries |-> t, limit_hit |-> buffer.limit_hit], size, B)
      BY <1>2, <2>4, <2>5, <2>6, <2>7, <2>8 DEF Keeps
    <2> QED
      BY <2>3, <2>9 DEF B
  <1>6. CASE ~ (n < size)
    <2>1. n = size /\ size <= Cardinality(A)
      BY <1>1, <1>2, <1>4, <1>6
    <2>2. Recorded(buffer, size, a) = [entries |-> s, limit_hit |-> TRUE]
      BY <1>1, <1>6 DEF Recorded, s, n
    <2>3. s \in Seq(B)
      BY <1>1 DEF B
    <2>4. \A x \in B : x \notin ToSet(s) => \A k \in ToSet(s) : k.time <= x.time
      BY <1>1, <1>3 DEF B
    <2>5. n = (IF Cardinality(B) <= size THEN Cardinality(B) ELSE size) /\ Cardinality(B) > size
      BY <1>2, <2>1
    <2>6. Keeps([entries |-> s, limit_hit |-> TRUE], size, B)
      BY <1>1, <1>2, <2>3, <2>4, <2>5 DEF Keeps, n
    <2> QED
      BY <2>2, <2>6 DEF B
  <1> QED
    BY <1>5, <1>6

-----------------------------------------------------------------------------
(* The sum over a set, which is a recursion that takes off one element      *)
(* after the other.                                                         *)

Weight(n, r) == Cardinality(SentTo(n, r))

Total(n, T) == MapThenSumSet(LAMBDA r : Cardinality(SentTo(n, r)), T)

Pick(u) == CHOOSE x \in u : TRUE

Partial(n, T, it) ==
    [u \in SUBSET T |-> IF u = {} THEN 0 ELSE Weight(n, Pick(u)) + it[u \ {Pick(u)}]]

Solves(it, n, T) == it = Partial(n, T, it)

LEMMA Picked ==
    ASSUME NEW T, IsFiniteSet(T), NEW u \in SUBSET T
    PROVE  /\ IsFiniteSet(u) /\ Cardinality(u) \in Nat
           /\ Cardinality(u) = 0 <=> u = {}
           /\ u # {} => /\ Pick(u) \in u /\ u \ {Pick(u)} \in SUBSET T
                        /\ Cardinality(u \ {Pick(u)}) = Cardinality(u) - 1
  <1>1. IsFiniteSet(u) /\ Cardinality(u) \in Nat
    BY FS_Subset, FS_CardinalityType
  <1>2. Cardinality(u) = 0 <=> u = {}
    BY <1>1, FS_EmptySet
  <1>3. ASSUME u # {} PROVE Pick(u) \in u
    BY <1>3 DEF Pick
  <1>4. ASSUME u # {} PROVE Cardinality(u \ {Pick(u)}) = Cardinality(u) - 1
    BY <1>1, <1>3, <1>4, FS_RemoveElement
  <1> QED
    BY <1>1, <1>2, <1>3, <1>4

\* The recursion has a solution: it is correct on ever larger sets.
LEMMA PartialExists ==
    ASSUME NEW n, NEW T, IsFiniteSet(T)
    PROVE  \E it : it = Partial(n, T, it)
  <1> DEFINE UpTo(g, k) == /\ g = [u \in SUBSET T |-> g[u]]
                           /\ \A u \in SUBSET T : Cardinality(u) <= k => g[u] = Partial(n, T, g)[u]
             P == {k \in Nat : \E g : UpTo(g, k)}
  <1>1. 0 \in P
    <2> DEFINE g == [u \in SUBSET T |-> 0]
    <2>1. ASSUME NEW u \in SUBSET T, Cardinality(u) <= 0 PROVE g[u] = Partial(n, T, g)[u]
      <3>1. Cardinality(u) \in Nat /\ (Cardinality(u) = 0 <=> u = {})
        BY Picked
      <3>2. u = {}
        BY <2>1, <3>1
      <3> QED
        BY <3>2 DEF Partial
    <2>2. g = [u \in SUBSET T |-> g[u]]
      OBVIOUS
    <2> HIDE DEF g
    <2> QED
      BY <2>1, <2>2
  <1>2. ASSUME NEW k \in Nat, k \in P PROVE k + 1 \in P
    <2>1. PICK g : UpTo(g, k)
      BY <1>2
    <2> DEFINE f == Partial(n, T, g)
    <2>2. f = [u \in SUBSET T |-> f[u]]
      BY DEF Partial
    <2>3. ASSUME NEW u \in SUBSET T, Cardinality(u) <= k + 1
          PROVE  f[u] = Partial(n, T, f)[u]
      <3>1. CASE u = {}
        BY <3>1 DEF Partial
      <3>2. CASE u # {}
        <4> DEFINE v == u \ {Pick(u)}
        <4>1. v \in SUBSET T /\ Cardinality(v) <= k
          <5>1. /\ Cardinality(u) \in Nat /\ v \in SUBSET T
                /\ Cardinality(v) = Cardinality(u) - 1
            BY <3>2, Picked
          <5> QED
            BY <2>3, <5>1
        <4>2. g[v] = f[v]
          BY <2>1, <4>1
        <4>3. f[u] = Weight(n, Pick(u)) + g[v]
          BY <3>2 DEF Partial
        <4> HIDE DEF f
        <4>4. Partial(n, T, f)[u] = Weight(n, Pick(u)) + f[v]
          BY <3>2 DEF Partial
        <4> QED
          BY <4>2, <4>3, <4>4
      <3> QED
        BY <3>1, <3>2
    <2> HIDE DEF f
    <2>4. UpTo(f, k + 1)
      BY <2>2, <2>3
    <2> HIDE DEF UpTo
    <2> QED
      BY <2>4
  <1>3. Cardinality(T) \in P
    <2>1. \A k \in Nat : k \in P
      <3> HIDE DEF P
      <3> QED
        BY <1>1, <1>2, Induction
    <2> HIDE DEF P
    <2> QED
      BY <2>1, FS_CardinalityType
  <1>4. PICK g : UpTo(g, Cardinality(T))
    <2> HIDE DEF UpTo
    <2> QED
      BY <1>3
  <1>5. \A u \in SUBSET T : g[u] = Partial(n, T, g)[u]
    BY <1>4, FS_Subset
  <1>6. Partial(n, T, g) = [u \in SUBSET T |-> Partial(n, T, g)[u]]
    BY DEF Partial
  <1>7. g = Partial(n, T, g)
    BY <1>4, <1>5, <1>6
  <1> QED
    BY <1>7

LEMMA PartialAgrees ==
    ASSUME NEW n, NEW T, NEW T2, IsFiniteSet(T2), T \subseteq T2,
           NEW it, Solves(it, n, T), NEW it2, Solves(it2, n, T2)
    PROVE  \A u \in SUBSET T : it[u] = it2[u]
  <1> DEFINE P == {k \in Nat : \A u \in SUBSET T : Cardinality(u) = k => it[u] = it2[u]}
  <1>1. \A u \in SUBSET T : u \in SUBSET T2 /\ Cardinality(u) \in Nat
    BY Picked
  <1>2. ASSUME NEW u \in SUBSET T, u = {} PROVE it[u] = it2[u]
    <2>1. it[u] = Partial(n, T, it)[u] /\ it2[u] = Partial(n, T2, it2)[u]
      BY DEF Solves
    <2> QED
      BY <1>1, <1>2, <2>1 DEF Partial
  <1>3. 0 \in P
    BY <1>1, <1>2, Picked
  <1>4. ASSUME NEW k \in Nat, k \in P PROVE k + 1 \in P
    <2>1. ASSUME NEW u \in SUBSET T, Cardinality(u) = k + 1 PROVE it[u] = it2[u]
      <3> DEFINE v == u \ {Pick(u)}
      <3>1. u # {} /\ v \in SUBSET T /\ Cardinality(v) = k
        <4>1. /\ u \in SUBSET T2 /\ IsFiniteSet(u)
              /\ Cardinality(u) = 0 <=> u = {}
              /\ u # {} => Cardinality(v) = Cardinality(u) - 1
          BY <1>1, Picked
        <4> QED
          BY <2>1, <4>1
      <3>2. it[v] = it2[v]
        BY <1>4, <3>1
      <3>3. it[u] = Partial(n, T, it)[u] /\ it2[u] = Partial(n, T2, it2)[u]
        BY DEF Solves
      <3>4. Partial(n, T, it)[u] = Weight(n, Pick(u)) + it[v]
        BY <3>1 DEF Partial
      <3>5. Partial(n, T2, it2)[u] = Weight(n, Pick(u)) + it2[v]
        BY <1>1, <3>1 DEF Partial
      <3> QED
        BY <3>2, <3>3, <3>4, <3>5
    <2> QED
      BY <2>1
  <1>5. \A k \in Nat : k \in P
    <2> HIDE DEF P
    <2> QED
      BY <1>3, <1>4, Induction
  <1> QED
    BY <1>1, <1>5

\* Which element is taken off first makes no difference.
LEMMA PartialAdds ==
    ASSUME NEW n, NEW T, IsFiniteSet(T), \A x \in T : Weight(n, x) \in Nat,
           NEW it, Solves(it, n, T)
    PROVE  \A u \in SUBSET T : /\ it[u] \in Nat
                               /\ \A x \in T \ u : it[u \cup {x}] = it[u] + Weight(n, x)
  <1> DEFINE Adds(u) == /\ it[u] \in Nat
                        /\ \A x \in T \ u : it[u \cup {x}] = it[u] + Weight(n, x)
             P == {k \in Nat : \A u \in SUBSET T : Cardinality(u) = k => Adds(u)}
  <1>1. it[{}] = 0
    <2>1. it[{}] = Partial(n, T, it)[{}]
      BY DEF Solves
    <2> QED
      BY <2>1 DEF Partial
  <1>2. ASSUME NEW u \in SUBSET T, u # {}
        PROVE  it[u] = Weight(n, Pick(u)) + it[u \ {Pick(u)}]
    <2>1. it[u] = Partial(n, T, it)[u]
      BY DEF Solves
    <2> QED
      BY <1>2, <2>1 DEF Partial
  <1>3. 0 \in P
    <2>1. Adds({})
      <3>1. ASSUME NEW x \in T PROVE it[{} \cup {x}] = it[{}] + Weight(n, x)
        <4>1. {x} \in SUBSET T /\ {x} # {} /\ Pick({x}) = x /\ {x} \ {x} = {}
          BY DEF Pick
        <4>2. it[{x}] = Weight(n, x) + it[{}]
          BY <1>2, <4>1
        <4>3. {} \cup {x} = {x}
          OBVIOUS
        <4> QED
          BY <1>1, <4>2, <4>3
      <3> QED
        BY <1>1, <3>1
    <2> HIDE DEF Adds
    <2> QED
      BY <2>1, Picked
  <1>4. ASSUME NEW k \in Nat, k \in P PROVE k + 1 \in P
    <2>1. ASSUME NEW u \in SUBSET T, Cardinality(u) = k + 1 PROVE Adds(u)
      <3>1. /\ IsFiniteSet(u) /\ u # {} /\ Cardinality(u) \in Nat
        <4>1. IsFiniteSet(u) /\ Cardinality(u) \in Nat /\ (Cardinality(u) = 0 <=> u = {})
          BY Picked
        <4> QED
          BY <2>1, <4>1
      <3>2. \A y \in u : /\ u \ {y} \in SUBSET T /\ Adds(u \ {y})
                         /\ it[u] = it[u \ {y}] + Weight(n, y)
        <4> TAKE y \in u
        <4>1. u \ {y} \in SUBSET T
          OBVIOUS
        <4>2. Cardinality(u \ {y}) = k
          <5>1. Cardinality(u \ {y}) = IF y \in u THEN Cardinality(u) - 1 ELSE Cardinality(u)
            BY <3>1, FS_RemoveElement
          <5> QED
            BY <2>1, <5>1
        <4>3. Adds(u \ {y})
          BY <1>4, <4>1, <4>2
        <4>4. y \in T \ (u \ {y}) /\ (u \ {y}) \cup {y} = u
          OBVIOUS
        <4>5. it[(u \ {y}) \cup {y}] = it[u \ {y}] + Weight(n, y)
          BY <4>3, <4>4
        <4> QED
          BY <4>1, <4>3, <4>4, <4>5
      <3>3. it[u] \in Nat
        <4>1. Pick(u) \in u
          BY <3>1, Picked
        <4>2. it[u \ {Pick(u)}] \in Nat /\ it[u] = it[u \ {Pick(u)}] + Weight(n, Pick(u))
          BY <3>2, <4>1
        <4>3. Weight(n, Pick(u)) \in Nat
          BY <4>1
        <4> QED
          BY <4>2, <4>3
      <3>4. ASSUME NEW x \in T \ u PROVE it[u \cup {x}] = it[u] + Weight(n, x)
        <4> DEFINE w == u \cup {x}
                   y == Pick(w)
        <4>1. w \in SUBSET T /\ w # {} /\ y \in w
          BY DEF Pick
        <4>2. it[w] = Weight(n, y) + it[w \ {y}]
          BY <1>2, <4>1
        <4>3. CASE y = x
          <5>1. w \ {y} = u
            BY <4>3
          <5> HIDE DEF w, y
          <5>2. it[w] = Weight(n, x) + it[u]
            BY <4>2, <4>3, <5>1
          <5> QED
            BY <3>3, <5>2 DEF w
        <4>4. CASE y # x
          <5>1. y \in u /\ w \ {y} = (u \ {y}) \cup {x} /\ x \in T \ (u \ {y})
            BY <4>1, <4>4
          <5> HIDE DEF w, y
          <5>2. it[(u \ {y}) \cup {x}] = it[u \ {y}] + Weight(n, x) /\ it[u \ {y}] \in Nat
            BY <3>2, <5>1
          <5>3. it[u] = it[u \ {y}] + Weight(n, y)
            BY <3>2, <5>1
          <5>4. Weight(n, y) \in Nat /\ Weight(n, x) \in Nat
            BY <5>1
          <5>5. it[w] = it[u] + Weight(n, x)
            BY <4>2, <5>1, <5>2, <5>3, <5>4
          <5> QED
            BY <5>5 DEF w
        <4> QED
          BY <4>3, <4>4
      <3> QED
        BY <3>3, <3>4
    <2> HIDE DEF Adds
    <2> QED
      BY <2>1
  <1>5. \A k \in Nat : k \in P
    <2> HIDE DEF P
    <2> QED
      BY <1>3, <1>4, Induction
  <1>6. \A u \in SUBSET T : Cardinality(u) \in Nat
    BY Picked
  <1> HIDE DEF Adds
  <1>7. \A u \in SUBSET T : Adds(u)
    BY <1>5, <1>6
  <1> QED
    BY <1>7 DEF Adds

LEMMA TotalIs ==
    ASSUME NEW n, NEW T, IsFiniteSet(T)
    PROVE  \E it : Solves(it, n, T) /\ Total(n, T) = it[T]
  <1> DEFINE it == CHOOSE g : g = Partial(n, T, g)
  <1>1. it = Partial(n, T, it)
    <2>1. \E g : g = Partial(n, T, g)
      BY PartialExists
    <2> QED
      BY <2>1, Zenon
  <1>2. Total(n, T) = it[T]
    BY DEF Total, MapThenSumSet, MapThenFoldSet, Partial, Weight, Pick
  <1> HIDE DEF it
  <1> QED
    BY <1>1, <1>2 DEF Solves

LEMMA TotalOfNone ==
    ASSUME NEW n
    PROVE  Total(n, {}) = 0
  <1>1. PICK it : Solves(it, n, {}) /\ Total(n, {}) = it[{}]
    BY TotalIs, FS_EmptySet
  <1>2. it[{}] = Partial(n, {}, it)[{}]
    BY <1>1 DEF Solves
  <1>3. it[{}] = 0
    BY <1>2 DEF Partial
  <1> QED
    BY <1>1, <1>3

LEMMA TotalAdds ==
    ASSUME NEW n, NEW T, IsFiniteSet(T), \A x \in T : Weight(n, x) \in Nat,
           NEW r, r \notin T, Weight(n, r) \in Nat
    PROVE  Total(n, T) \in Nat /\ Total(n, T \cup {r}) = Total(n, T) + Weight(n, r)
  <1> DEFINE T2 == T \cup {r}
  <1>1. IsFiniteSet(T2)
    BY FS_AddElement
  <1>2. \A x \in T2 : Weight(n, x) \in Nat
    OBVIOUS
  <1>3. T \subseteq T2 /\ T \in SUBSET T2 /\ r \in T2 \ T
    OBVIOUS
  <1> HIDE DEF T2
  <1>4. PICK it : Solves(it, n, T) /\ Total(n, T) = it[T]
    BY TotalIs
  <1>5. PICK it2 : Solves(it2, n, T2) /\ Total(n, T2) = it2[T2]
    BY <1>1, TotalIs
  <1>6. it[T] = it2[T]
    BY <1>1, <1>3, <1>4, <1>5, PartialAgrees
  <1>7. it2[T] \in Nat /\ it2[T \cup {r}] = it2[T] + Weight(n, r)
    BY <1>1, <1>2, <1>3, <1>5, PartialAdds
  <1> QED
    BY <1>4, <1>5, <1>6, <1>7 DEF T2

-----------------------------------------------------------------------------
(* The buffers.                                                             *)

FiringEntry(r)  == [neuron |-> r.neuron, time |-> r.time]
VoltageEntry(r) == [neuron |-> r.neuron, time |-> r.time, voltage |-> r.state.potential]

FiringRecords == {r \in trace : r.fired /\ Recordable(r.neuron)}

FiringEntries  == {FiringEntry(r) : r \in FiringRecords}
VoltageEntries == {VoltageEntry(r) : r \in trace}

\* A neuron's heartbeat is later than what was recorded of it, so no record comes twice.
RecordsInv ==
    /\ IsFiniteSet(trace)
    /\ \A n \in Neurons : \A h \in Heartbeats(n) :
          \A r \in trace : r.neuron = n => r.time < h.time

BuffersInv ==
    /\ Keeps(firing_spikes, firing_buffer_size, FiringEntries)
    /\ IsFiniteSet(FiringRecords) /\ Cardinality(FiringRecords) = Cardinality(FiringEntries)
    /\ Keeps(voltages, voltage_buffer_size, VoltageEntries)
    /\ Cardinality(trace) = Cardinality(VoltageEntries)

LEMMA EmptyKeeps ==
    ASSUME NEW size \in Nat
    PROVE  Keeps(EmptyBuffer, size, {})
  <1>1. /\ EmptyBuffer.entries = <<>> /\ EmptyBuffer.limit_hit = FALSE
        /\ EmptyBuffer = [entries |-> <<>>, limit_hit |-> FALSE]
    BY DEF EmptyBuffer
  <1>2. IsFiniteSet({}) /\ Cardinality({}) = 0
    BY FS_EmptySet
  <1>3. <<>> \in Seq({}) /\ Len(<<>>) = 0 /\ DOMAIN <<>> = {}
    OBVIOUS
  <1> QED
    BY <1>1, <1>2, <1>3 DEF Keeps, ToSet

LEMMA BuffersStart ==
    ASSUME ProbedInit
    PROVE  BuffersInv /\ IsFiniteSet(trace) /\ trace = {}
  <1>1. trace = {} /\ firing_spikes = EmptyBuffer /\ voltages = EmptyBuffer
    BY DEF ProbedInit, Init
  <1>2. FiringRecords = {} /\ FiringEntries = {} /\ VoltageEntries = {}
    BY <1>1 DEF FiringRecords, FiringEntries, VoltageEntries
  <1> QED
    BY <1>1, <1>2, EmptyKeeps, FS_EmptySet, ProbesAssumption DEF BuffersInv

\* What is recorded of a heartbeat that is handled now.
Rec(e) == [neuron |-> e.dest, time |-> e.time, fired |-> Handled(lps[e.dest], e).fired,
           state |-> Saved(lps[e.dest]).reserved_for_reverse]

LEMMA HandledFields ==
    ASSUME NEW e, IsEvent(e), NEW lp
    PROVE  LET h == Handled(lp, e)
           IN  h.type = e.type /\ h.dest = e.dest /\ h.time = e.time
  BY DEF IsEvent, Handled

LEMMA Recording ==
    ASSUME IInv, RecordsInv, NEW e \in pending, Process(e)
    PROVE  /\ e.type = "heartbeat" => /\ trace' = trace \cup {Rec(e)}
                                      /\ Rec(e).neuron = e.dest /\ Rec(e).time = now
                                      /\ \A r \in trace : r.neuron = e.dest => r.time < now
           /\ e.type # "heartbeat" => trace' = trace
  <1>1. IsEvent(e) /\ e.time = now /\ e.dest \in Neurons
    BY NextEvent DEF IsEvent
  <1>2. trace' = trace \cup driver_neuron_event_commit(Handle(lps[e.dest], e).lp,
                               Handled(lps[e.dest], e), Saved(lps[e.dest]))
    BY DEF Process
  <1>3. CASE e.type = "heartbeat"
    <2>1. trace' = trace \cup {Rec(e)}
      BY <1>1, <1>2, <1>3, HandledFields DEF driver_neuron_event_commit, Rec
    <2>2. e \in Heartbeats(e.dest)
      BY <1>3 DEF Heartbeats
    <2>3. \A r \in trace : r.neuron = e.dest => r.time < now
      BY <1>1, <2>2 DEF RecordsInv
    <2>4. Rec(e).neuron = e.dest /\ Rec(e).time = now
      BY <1>1 DEF Rec
    <2> QED
      BY <1>3, <2>1, <2>3, <2>4
  <1>4. CASE e.type # "heartbeat"
    BY <1>1, <1>2, <1>4, HandledFields DEF driver_neuron_event_commit
  <1> QED
    BY <1>3, <1>4

LEMMA ProcessRecords ==
    ASSUME IInv, RecordsInv, NEW e \in pending, Process(e)
    PROVE  RecordsInv'
  <1>1. /\ e.type = "heartbeat" => /\ trace' = trace \cup {Rec(e)}
                                   /\ Rec(e).neuron = e.dest /\ Rec(e).time = now
        /\ e.type # "heartbeat" => trace' = trace
    BY Recording
  <1>2. IsFiniteSet(trace')
    BY <1>1, FS_AddElement DEF RecordsInv
  <1>3. IsEvent(e) /\ now \in Nat /\ Prev(now) \in Nat /\ now < Prev(now) + Beat
        /\ \A r \in trace : r.time \in Nat /\ r.time <= now
    BY NextEvent, PrevBeat DEF IInv, TraceInv
  <1>4. ASSUME NEW n \in Neurons, NEW h \in Heartbeats(n)', NEW r \in trace', r.neuron = n
        PROVE  r.time < h.time
    <2>1. CASE h \in Heartbeats(n) /\ h # e
      <3>1. CASE r \in trace
        BY <1>4, <2>1, <3>1 DEF RecordsInv
      <3>2. CASE r \notin trace
        <4>1. e.type = "heartbeat" /\ n = e.dest
          BY <1>1, <1>4, <3>2
        <4>2. e \in Heartbeats(n)
          BY <4>1 DEF Heartbeats
        <4>3. h = e
          BY <2>1, <4>2 DEF IInv, BeatInv
        <4> QED
          BY <2>1, <4>3
      <3> QED
        BY <3>1, <3>2
    <2>2. CASE h.time = Prev(now) + Beat
      <3>1. r.time <= now /\ r.time \in Nat
        BY <1>1, <1>3
      <3> QED
        BY <1>3, <2>2, <3>1, DriverAssumption
    <2> QED
      BY <2>1, <2>2, HeartbeatsAfter
  <1> QED
    BY <1>2, <1>4 DEF RecordsInv

LEMMA OneMore ==
    ASSUME NEW all, IsFiniteSet(all), NEW A, IsFiniteSet(A), Cardinality(all) = Cardinality(A),
           NEW r, r \notin all, NEW a, a \notin A
    PROVE  /\ IsFiniteSet(all \cup {r})
           /\ Cardinality(all \cup {r}) = Cardinality(A \cup {a})
  BY FS_AddElement

LEMMA ProcessBuffers ==
    ASSUME IInv, RecordsInv, BuffersInv, NEW e \in pending, ProbedProcess(e)
    PROVE  BuffersInv'
  <1>1. /\ Process(e)
        /\ probes_firing_record(Handled(lps[e.dest], e))
        /\ probes_lif_voltages_record(e, Saved(lps[e.dest]))
    BY DEF ProbedProcess
  <1>2. /\ e.type = "heartbeat" => /\ trace' = trace \cup {Rec(e)}
                                   /\ Rec(e).neuron = e.dest /\ Rec(e).time = now
                                   /\ \A r \in trace : r.neuron = e.dest => r.time < now
        /\ e.type # "heartbeat" => trace' = trace
    BY <1>1, Recording
  <1>3. /\ IsEvent(e) /\ e.time = now /\ now \in Nat
        /\ \A r \in trace : r.time \in Nat /\ r.time <= now
    BY <1>1, NextEvent DEF IInv, TraceInv
  <1>4. /\ Handled(lps[e.dest], e).type = e.type /\ Handled(lps[e.dest], e).dest = e.dest
        /\ Handled(lps[e.dest], e).time = now
    BY <1>3, HandledFields
  <1>5. CASE e.type # "heartbeat"
    <2>1. trace' = trace /\ firing_spikes' = firing_spikes /\ voltages' = voltages
      BY <1>1, <1>2, <1>4, <1>5 DEF probes_firing_record, probes_lif_voltages_record
    <2> QED
      BY <2>1 DEF BuffersInv, FiringEntries, FiringRecords, VoltageEntries
  <1>6. CASE e.type = "heartbeat"
    <2> DEFINE r == Rec(e)
    <2>1. /\ trace' = trace \cup {r} /\ r.neuron = e.dest /\ r.time = now
          /\ \A q \in trace : q.neuron = e.dest => q.time < now
          /\ r.fired = Handled(lps[e.dest], e).fired
          /\ r.state = Saved(lps[e.dest]).reserved_for_reverse
      BY <1>2, <1>6 DEF Rec
    <2> HIDE DEF r
    <2>2. r \notin trace
      BY <1>3, <2>1
    <2>3. \A q \in trace : FiringEntry(q) # FiringEntry(r) /\ VoltageEntry(q) # VoltageEntry(r)
      <3> TAKE q \in trace
      <3>1. ~ (q.neuron = r.neuron /\ q.time = r.time)
        BY <1>3, <2>1
      <3>2. /\ FiringEntry(q).neuron = q.neuron /\ FiringEntry(q).time = q.time
            /\ FiringEntry(r).neuron = r.neuron /\ FiringEntry(r).time = r.time
        BY DEF FiringEntry
      <3>3. /\ VoltageEntry(q).neuron = q.neuron /\ VoltageEntry(q).time = q.time
            /\ VoltageEntry(r).neuron = r.neuron /\ VoltageEntry(r).time = r.time
        BY DEF VoltageEntry
      <3> QED
        BY <3>1, <3>2, <3>3
    <2>4. FiringEntry(r).time = now /\ VoltageEntry(r).time = now
      BY <2>1 DEF FiringEntry, VoltageEntry
    <2>5. (\A a \in FiringEntries : a.time <= now) /\ (\A a \in VoltageEntries : a.time <= now)
      BY <1>3 DEF FiringEntries, FiringRecords, VoltageEntries, FiringEntry, VoltageEntry
    <2>6. /\ Keeps(voltages, voltage_buffer_size, VoltageEntries)'
          /\ Cardinality(trace') = Cardinality(VoltageEntries')
      <3>1. VoltageEntries' = VoltageEntries \cup {VoltageEntry(r)}
        BY <2>1 DEF VoltageEntries
      <3>2. VoltageEntry(r) \notin VoltageEntries
        BY <2>3 DEF VoltageEntries
      <3>3. voltages' = Recorded(voltages, voltage_buffer_size, VoltageEntry(r))
        BY <1>1, <1>3, <1>6, <2>1 DEF probes_lif_voltages_record, VoltageEntry
      <3>4. Keeps(voltages, voltage_buffer_size, VoltageEntries)
            /\ IsFiniteSet(VoltageEntries) /\ voltage_buffer_size \in Nat
        BY ProbesAssumption DEF BuffersInv, Keeps
      <3>5. Keeps(Recorded(voltages, voltage_buffer_size, VoltageEntry(r)),
                  voltage_buffer_size, VoltageEntries \cup {VoltageEntry(r)})
        BY <2>4, <2>5, <3>2, <3>4, RecordKept
      <3>6. Cardinality(trace \cup {r}) = Cardinality(VoltageEntries \cup {VoltageEntry(r)})
        BY <2>2, <3>2, <3>4, OneMore DEF BuffersInv, RecordsInv
      <3> QED
        BY <2>1, <3>1, <3>3, <3>5, <3>6
    <2>7. /\ Keeps(firing_spikes, firing_buffer_size, FiringEntries)'
          /\ IsFiniteSet(FiringRecords')
          /\ Cardinality(FiringRecords') = Cardinality(FiringEntries')
      <3>1. CASE r.fired /\ Recordable(e.dest)
        <4>1. FiringRecords' = FiringRecords \cup {r}
          BY <2>1, <3>1 DEF FiringRecords, Recordable
        <4>2. FiringEntries' = FiringEntries \cup {FiringEntry(r)}
          BY <4>1 DEF FiringEntries
        <4>3. FiringEntry(r) \notin FiringEntries /\ r \notin FiringRecords
          BY <2>2, <2>3 DEF FiringEntries, FiringRecords
        <4>4. firing_spikes' = Recorded(firing_spikes, firing_buffer_size, FiringEntry(r))
          BY <1>1, <1>4, <1>6, <2>1, <3>1 DEF probes_firing_record, FiringEntry
        <4>5. /\ Keeps(firing_spikes, firing_buffer_size, FiringEntries)
              /\ IsFiniteSet(FiringEntries) /\ firing_buffer_size \in Nat
              /\ IsFiniteSet(FiringRecords) /\ Cardinality(FiringRecords) = Cardinality(FiringEntries)
          BY ProbesAssumption DEF BuffersInv, Keeps
        <4>6. Keeps(Recorded(firing_spikes, firing_buffer_size, FiringEntry(r)),
                    firing_buffer_size, FiringEntries \cup {FiringEntry(r)})
          BY <2>4, <2>5, <4>3, <4>5, RecordKept
        <4>7. /\ IsFiniteSet(FiringRecords \cup {r})
              /\ Cardinality(FiringRecords \cup {r}) = Cardinality(FiringEntries \cup {FiringEntry(r)})
          BY <4>3, <4>5, OneMore
        <4> QED
          BY <4>1, <4>2, <4>4, <4>6, <4>7
      <3>2. CASE ~ (r.fired /\ Recordable(e.dest))
        <4>1. FiringRecords' = FiringRecords
          BY <2>1, <3>2 DEF FiringRecords, Recordable
        <4>2. FiringEntries' = FiringEntries
          BY <4>1 DEF FiringEntries
        <4>3. firing_spikes' = firing_spikes
          BY <1>1, <1>4, <1>6, <2>1, <3>2 DEF probes_firing_record
        <4> QED
          BY <4>1, <4>2, <4>3 DEF BuffersInv
      <3> QED
        BY <3>1, <3>2
    <2> QED
      BY <2>6, <2>7 DEF BuffersInv
  <1> QED
    BY <1>5, <1>6

LEMMA IdleProbes ==
    ASSUME UNCHANGED <<pending, trace, firing_spikes, voltages>>
    PROVE  /\ RecordsInv => RecordsInv'
           /\ BuffersInv => BuffersInv'
  BY DEF RecordsInv, BuffersInv, Heartbeats, FiringEntries, FiringRecords, VoltageEntries


LEMMA LeastOfTwo ==
    ASSUME NEW a \in Nat, NEW b \in Nat
    PROVE  Min({a, b}) = IF b <= a THEN b ELSE a
  <1> DEFINE m == IF b <= a THEN b ELSE a
  <1>1. m \in {a, b} /\ \A y \in {a, b} : m <= y
    OBVIOUS
  <1>2. \A x \in {a, b} : (\A y \in {a, b} : x <= y) => x = m
    OBVIOUS
  <1> HIDE DEF m
  <1>3. Min({a, b}) = CHOOSE x \in {a, b} : \A y \in {a, b} : x <= y
    BY DEF Min
  <1>4. Min({a, b}) = m
    BY <1>1, <1>2, <1>3
  <1> QED
    BY <1>4 DEF m

LEMMA KeptCount ==
    ASSUME NEW A, NEW buffer, NEW size \in Nat, Keeps(buffer, size, A)
    PROVE  /\ ToSet(buffer.entries) \subseteq A
           /\ Cardinality(ToSet(buffer.entries)) = Min({size, Cardinality(A)})
  <1>1. /\ buffer.entries \in Seq(A)
        /\ \A i, j \in DOMAIN buffer.entries : i < j => buffer.entries[i] # buffer.entries[j]
        /\ IsFiniteSet(A)
        /\ Len(buffer.entries) = IF Cardinality(A) <= size THEN Cardinality(A) ELSE size
    BY DEF Keeps
  <1>2. /\ ToSet(buffer.entries) \subseteq A
        /\ Cardinality(ToSet(buffer.entries)) = Len(buffer.entries)
    BY <1>1, DistinctCount
  <1>3. Cardinality(A) \in Nat
    BY <1>1, FS_CardinalityType
  <1>4. Min({size, Cardinality(A)}) = IF Cardinality(A) <= size THEN Cardinality(A) ELSE size
    BY <1>3, LeastOfTwo
  <1> QED
    BY <1>1, <1>2, <1>4

LEMMA BuffersImplyFirst == BuffersInv => FirstRecorded
  <1> SUFFICES ASSUME BuffersInv PROVE FirstRecorded
    OBVIOUS
  <1>1. KeepsFirst(firing_spikes, firing_buffer_size,
                   {r \in trace : r.fired /\ Recordable(r.neuron)},
                   LAMBDA r : [neuron |-> r.neuron, time |-> r.time])
    <2> DEFINE kept == ToSet(firing_spikes.entries)
    <2>1. /\ Keeps(firing_spikes, firing_buffer_size, FiringEntries)
          /\ Cardinality(FiringRecords) = Cardinality(FiringEntries)
      BY DEF BuffersInv
    <2>2. kept \subseteq FiringEntries
          /\ Cardinality(kept) = Min({firing_buffer_size, Cardinality(FiringRecords)})
      BY <2>1, KeptCount, ProbesAssumption
    <2>3. \A r \in FiringRecords : FiringEntry(r) \notin kept =>
              \A k \in kept : k.time <= r.time
      <3> TAKE r \in FiringRecords
      <3>1. FiringEntry(r) \in FiringEntries /\ FiringEntry(r).time = r.time
        BY DEF FiringEntries, FiringEntry
      <3> QED
        BY <2>1, <3>1 DEF Keeps
    <2>4. /\ \A i, j \in DOMAIN firing_spikes.entries :
                i < j => /\ firing_spikes.entries[i].time <= firing_spikes.entries[j].time
                         /\ firing_spikes.entries[i] # firing_spikes.entries[j]
          /\ firing_spikes.limit_hit <=> Cardinality(FiringRecords) > firing_buffer_size
      BY <2>1 DEF Keeps
    <2> HIDE DEF kept
    <2> QED
      BY <2>2, <2>3, <2>4 DEF KeepsFirst, FiringEntries, FiringEntry, FiringRecords, kept
  <1>2. KeepsFirst(voltages, voltage_buffer_size, trace,
                   LAMBDA r : [neuron |-> r.neuron, time |-> r.time, voltage |-> r.state.potential])
    <2> DEFINE kept == ToSet(voltages.entries)
    <2>1. /\ Keeps(voltages, voltage_buffer_size, VoltageEntries)
          /\ Cardinality(trace) = Cardinality(VoltageEntries)
      BY DEF BuffersInv
    <2>2. kept \subseteq VoltageEntries
          /\ Cardinality(kept) = Min({voltage_buffer_size, Cardinality(trace)})
      BY <2>1, KeptCount, ProbesAssumption
    <2>3. \A r \in trace : VoltageEntry(r) \notin kept => \A k \in kept : k.time <= r.time
      <3> TAKE r \in trace
      <3>1. VoltageEntry(r) \in VoltageEntries /\ VoltageEntry(r).time = r.time
        BY DEF VoltageEntries, VoltageEntry
      <3> QED
        BY <2>1, <3>1 DEF Keeps
    <2>4. /\ \A i, j \in DOMAIN voltages.entries :
                i < j => /\ voltages.entries[i].time <= voltages.entries[j].time
                         /\ voltages.entries[i] # voltages.entries[j]
          /\ voltages.limit_hit <=> Cardinality(trace) > voltage_buffer_size
      BY <2>1 DEF Keeps
    <2> HIDE DEF kept
    <2> QED
      BY <2>2, <2>3, <2>4 DEF KeepsFirst, VoltageEntries, VoltageEntry, kept
  <1> QED
    BY <1>1, <1>2 DEF FirstRecorded


-----------------------------------------------------------------------------
(* The statistics.                                                          *)

SpikesTo(n)   == {e \in pending : e.type = "spike" /\ e.dest = n}
LoadedTo(n)   == {e \in loaded : e.dest = n}
FiredRecords  == {r \in trace : r.fired}
FiringsOf(n)  == {r \in trace : r.neuron = n /\ r.fired}

\* A spike under way was sent before the next heartbeat of its sender: the spikes that a
\* firing sends are new ones.
IdsInv ==
    \A s \in pending : s.type = "spike" =>
        /\ s.id.at \in Nat /\ s.id.at <= now
        /\ \A h \in Heartbeats(s.id.src) : s.id.at < h.time

NeuronCounts(n) ==
    /\ stats[n].leaks \in Nat /\ stats[n].integrations \in Nat /\ stats[n].fires \in Nat
    /\ IsFiniteSet(SpikesTo(n)) /\ IsFiniteSet(LoadedTo(n))
    /\ stats[n].integrations + Cardinality(SpikesTo(n))
         = Cardinality(LoadedTo(n)) + Total(n, FiredRecords)
    /\ stats[n].fires = Cardinality(FiringsOf(n))
    /\ SpikeDriven => stats[n].leaks + Cardinality(Heartbeats(n)) <= stats[n].integrations
    /\ ~ SpikeDriven => stats[n].leaks = BeatsTaken(n)

CountsInv ==
    /\ stats = [n \in Neurons |-> stats[n]]
    /\ \A n \in Neurons : NeuronCounts(n)

LEMMA WeightType ==
    ASSUME NEW n, NEW r, r.neuron \in Neurons
    PROVE  IsFiniteSet(SentTo(n, r)) /\ Weight(n, r) \in Nat
  <1>1. Synapses[r.neuron] \in Seq([to : Neurons, weight : Int, delay : Nat \ {0}])
    BY WiringAssumption
  <1>2. DOMAIN Synapses[r.neuron] = 1 .. Len(Synapses[r.neuron]) /\ Len(Synapses[r.neuron]) \in Nat
    BY <1>1
  <1>3. IsFiniteSet(DOMAIN Synapses[r.neuron])
    BY <1>2, FS_Interval
  <1>4. SentTo(n, r) \in SUBSET DOMAIN Synapses[r.neuron]
    BY DEF SentTo
  <1>5. IsFiniteSet(SentTo(n, r))
    BY <1>3, <1>4, FS_Subset
  <1> QED
    BY <1>5, FS_CardinalityType DEF Weight

\* A firing sends as many spikes to n as it has synapses to it that reach it in time.
LEMMA SpikesOfAFiring ==
    ASSUME NEW n, NEW d \in Neurons, NEW t \in Nat, NEW r, r.neuron = d, r.time = t
    PROVE  LET new == {s \in Sent(send_spike(d, t)) : s.dest = n}
           IN  IsFiniteSet(new) /\ Cardinality(new) = Weight(n, r)
  <1> DEFINE new  == {s \in Sent(send_spike(d, t)) : s.dest = n}
             S    == SentTo(n, r)
             at(i) == spike(Synapses[d][i].to, t + delay_double(Synapses[d][i].delay),
                            Synapses[d][i].weight, Id(d, t, i))
             f    == [i \in S |-> at(i)]
  <1>1. \A i : /\ at(i).dest = Synapses[d][i].to /\ at(i).id.nth = i
               /\ at(i).time = t + delay_double(Synapses[d][i].delay)
    BY DEF spike, Id
  <1>2. S = {i \in DOMAIN Synapses[d] :
                Synapses[d][i].to = n /\ t + delay_double(Synapses[d][i].delay) < End}
    BY DEF SentTo
  <1>3. send_spike(d, t) = {at(i) : i \in DOMAIN Synapses[d]}
    BY DEF send_spike
  <1> HIDE DEF at, S
  <1>4. new = {at(i) : i \in S}
    BY <1>1, <1>2, <1>3 DEF Sent
  <1>5. \A i, j \in S : f[i] = f[j] => i = j
    BY <1>1
  <1>6. f \in Bijection(S, new)
    <2>1. f \in [S -> new]
      BY <1>4
    <2>2. \A x \in new : \E i \in S : f[i] = x
      BY <1>4
    <2> HIDE DEF f, new
    <2> QED
      BY <1>5, <2>1, <2>2 DEF Bijection, Injection, Surjection, IsInjective
  <1>7. IsFiniteSet(S) /\ Weight(n, r) = Cardinality(S)
    BY WeightType DEF S, Weight
  <1> HIDE DEF f, new
  <1>8. ExistsBijection(S, new)
    BY <1>6 DEF ExistsBijection
  <1>9. IsFiniteSet(new) /\ Cardinality(new) = Cardinality(S)
    BY <1>7, <1>8, FS_Bijection
  <1> QED
    BY <1>7, <1>9 DEF new

LEMMA StatsAfter ==
    ASSUME IInv, CountsInv, NEW e \in pending, ProbedProcess(e)
    PROVE  /\ stats' = [n \in Neurons |-> stats'[n]]
           /\ \A n \in Neurons : n # e.dest => stats'[n] = stats[n]
           /\ e.type = "heartbeat" =>
                 /\ stats'[e.dest].leaks = stats[e.dest].leaks + 1
                 /\ stats'[e.dest].integrations = stats[e.dest].integrations
                 /\ stats'[e.dest].fires = stats[e.dest].fires + One(Rec(e).fired)
           /\ e.type = "spike" =>
                 /\ stats'[e.dest].leaks = stats[e.dest].leaks
                 /\ stats'[e.dest].integrations = stats[e.dest].integrations + 1
                 /\ stats'[e.dest].fires = stats[e.dest].fires
  <1> DEFINE d == e.dest
             h == Handled(lps[d], e)
  <1>1. Process(e) /\ probes_stats_record(h)
    BY DEF ProbedProcess
  <1>2. IsEvent(e) /\ d \in Neurons
    BY <1>1, NextEvent DEF IsEvent
  <1>3. h.type = e.type /\ h.dest = d /\ Rec(e).fired = h.fired
    BY <1>2, HandledFields DEF Rec
  <1> HIDE DEF h
  <1>4. stats = [n \in Neurons |-> stats[n]] /\ NeuronCounts(d)
    BY <1>2 DEF CountsInv
  <1>5. stats' = [stats EXCEPT ![d] =
                    [leaks        |-> stats[d].leaks + One(h.type = "heartbeat"),
                     fires        |-> stats[d].fires + One(h.type = "heartbeat" /\ h.fired),
                     integrations |-> stats[d].integrations + One(h.type = "spike")]]
    BY <1>1, <1>3 DEF probes_stats_record
  <1>6. /\ stats' = [n \in Neurons |-> stats'[n]]
        /\ \A n \in Neurons : n # d => stats'[n] = stats[n]
        /\ stats'[d].leaks = stats[d].leaks + One(h.type = "heartbeat")
        /\ stats'[d].fires = stats[d].fires + One(h.type = "heartbeat" /\ h.fired)
        /\ stats'[d].integrations = stats[d].integrations + One(h.type = "spike")
    BY <1>2, <1>4, <1>5
  <1>7. CASE e.type = "heartbeat"
    <2>1. One(h.type = "heartbeat") = 1 /\ One(h.type = "spike") = 0
          /\ One(h.type = "heartbeat" /\ h.fired) = One(Rec(e).fired)
      BY <1>3, <1>7 DEF One
    <2> QED
      BY <1>4, <1>6, <1>7, <2>1 DEF NeuronCounts
  <1>8. CASE e.type = "spike"
    <2>1. One(h.type = "heartbeat") = 0 /\ One(h.type = "spike") = 1
          /\ One(h.type = "heartbeat" /\ h.fired) = 0
      BY <1>3, <1>8 DEF One
    <2> QED
      BY <1>4, <1>6, <1>8, <2>1 DEF NeuronCounts
  <1> QED
    BY <1>2, <1>6, <1>7, <1>8 DEF IsEvent

\* What the run starts with.
LEMMA StartsWith ==
    ASSUME Init
    PROVE  /\ \A e \in pending : e.type = "spike" =>
                 e.dest \in Neurons /\ e.id.src = e.dest /\ e.id.at = 0
           /\ \A e \in pending : e.type = "heartbeat" => ~ SpikeDriven /\ e.time = Beat
           /\ \A n \in Neurons : IsFiniteSet({e \in pending : e.type = "spike" /\ e.dest = n})
  <1>1. PICK input \in SpikeInputs :
           pending = Sent(UNION {driver_neuron_init(n, input[n]) : n \in Neurons})
    BY DEF Init
  <1>2. ASSUME NEW e \in pending
        PROVE  \E m \in Neurons : e \in driver_neuron_init(m, input[m])
    BY <1>1 DEF Sent
  <1>3. ASSUME NEW e \in pending, e.type = "spike"
        PROVE  e.dest \in Neurons /\ e.id.src = e.dest /\ e.id.at = 0
                 /\ e \in driver_neuron_init(e.dest, input[e.dest])
    <2>1. PICK m \in Neurons : e \in driver_neuron_init(m, input[m])
      BY <1>2
    <2>2. e.dest = m /\ e.id.src = m /\ e.id.at = 0
      BY <1>3, <2>1, FirstEvents
    <2> QED
      BY <2>1, <2>2
  <1>4. ASSUME NEW e \in pending, e.type = "heartbeat"
        PROVE  ~ SpikeDriven /\ e.time = Beat
    <2>1. PICK m \in Neurons : e \in driver_neuron_init(m, input[m])
      BY <1>2
    <2>2. ~ SpikeDriven /\ e = heartbeat(m, Beat, Id(m, 0, 0))
      BY <1>4, <2>1, FirstEvents
    <2>3. e.time = Beat
      BY <2>2, NewHeartbeat, DriverAssumption
    <2> QED
      BY <2>2, <2>3
  <1>5. ASSUME NEW n \in Neurons
        PROVE  IsFiniteSet({e \in pending : e.type = "spike" /\ e.dest = n})
    <2> DEFINE all == send_spike_from_StorableSpike(n, input[n])
               at(i) == spike(n, input[n][i].time, input[n][i].intensity, Id(n, 0, i))
               indices == {j \in DOMAIN input[n] : \A k \in 1 .. j : input[n][k].intensity # 0}
    <2>1. DOMAIN input[n] = 1 .. Len(input[n]) /\ Len(input[n]) \in Nat
      <3>1. input[n] \in Seq([time : Nat, intensity : Int])
        BY WiringAssumption
      <3> QED
        BY <3>1
    <2>2. IsFiniteSet(indices)
      <3>1. IsFiniteSet(DOMAIN input[n])
        BY <2>1, FS_Interval
      <3>2. indices \in SUBSET DOMAIN input[n]
        OBVIOUS
      <3> HIDE DEF indices
      <3> QED
        BY <3>1, <3>2, FS_Subset
    <2>3. all = {at(i) : i \in indices}
      BY DEF send_spike_from_StorableSpike
    <2>4. IsFiniteSet(all)
      <3> DEFINE f == [i \in indices |-> at(i)]
      <3> HIDE DEF at, indices
      <3>1. f \in Surjection(indices, {f[i] : i \in indices})
        BY DEF Surjection
      <3>2. all = {f[i] : i \in indices}
        BY <2>3
      <3> HIDE DEF f, all
      <3> QED
        BY <2>2, <3>1, <3>2, FS_Surjection
    <2>5. ASSUME NEW e \in pending, e.type = "spike", e.dest = n
          PROVE  e \in all
      <3>1. e \in driver_neuron_init(n, input[n])
        BY <1>3, <2>5
      <3>2. send_heartbeat(n, 0).type = "heartbeat"
        BY DEF send_heartbeat, heartbeat
      <3> QED
        BY <2>5, <3>1, <3>2 DEF driver_neuron_init
    <2>6. {e \in pending : e.type = "spike" /\ e.dest = n} \in SUBSET all
      BY <2>5
    <2> HIDE DEF all
    <2> QED
      BY <2>4, <2>6, FS_Subset
  <1> QED
    BY <1>3, <1>4, <1>5

LEMMA CountsStart ==
    ASSUME ProbedInit
    PROVE  RecordsInv /\ IdsInv /\ CountsInv
  <1>1. /\ Init /\ IInv /\ trace = {} /\ now = 0
        /\ loaded = {e \in pending : e.type = "spike"}
        /\ stats = [n \in Neurons |-> [leaks |-> 0, integrations |-> 0, fires |-> 0]]
    BY InitInv DEF ProbedInit, Init
  <1>2. RecordsInv
    BY <1>1, FS_EmptySet DEF RecordsInv
  <1>3. /\ \A e \in pending : e.type = "spike" =>
              e.dest \in Neurons /\ e.id.src = e.dest /\ e.id.at = 0
        /\ \A e \in pending : e.type = "heartbeat" => ~ SpikeDriven /\ e.time = Beat
        /\ \A n \in Neurons : IsFiniteSet(SpikesTo(n))
    BY <1>1, StartsWith DEF SpikesTo
  <1>4. \A n : \A h \in Heartbeats(n) : ~ SpikeDriven /\ h.time = Beat
    BY <1>3 DEF Heartbeats
  <1>5. IdsInv
    BY <1>1, <1>3, <1>4, DriverAssumption DEF IdsInv
  <1>6. ASSUME NEW n \in Neurons
        PROVE  NeuronCounts(n)
    <2>1. stats[n].leaks = 0 /\ stats[n].integrations = 0 /\ stats[n].fires = 0
      BY <1>1
    <2>2. SpikesTo(n) = LoadedTo(n) /\ IsFiniteSet(SpikesTo(n))
      BY <1>1, <1>3 DEF SpikesTo, LoadedTo
    <2>3. FiredRecords = {} /\ FiringsOf(n) = {}
      BY <1>1 DEF FiredRecords, FiringsOf
    <2>4. Total(n, FiredRecords) = 0 /\ Cardinality(FiringsOf(n)) = 0
      BY <2>3, TotalOfNone, FS_EmptySet
    <2>5. Cardinality(SpikesTo(n)) \in Nat
      BY <2>2, FS_CardinalityType
    <2>6. SpikeDriven => Cardinality(Heartbeats(n)) = 0
      <3>1. SpikeDriven => Heartbeats(n) = {}
        BY <1>4
      <3> QED
        BY <3>1, FS_EmptySet
    <2>7. BeatsTaken(n) = 0
      <3>1. ~ BeatsNow(n)
        BY <1>1, <1>4, DriverAssumption DEF BeatsNow
      <3>2. 0 \div Beat = 0
        BY DriverAssumption
      <3> QED
        BY <1>1, <3>1, <3>2, BeatCount
    <2> QED
      BY <2>1, <2>2, <2>4, <2>5, <2>6, <2>7 DEF NeuronCounts
  <1>7. stats = [n \in Neurons |-> stats[n]]
    BY <1>1
  <1> QED
    BY <1>2, <1>5, <1>6, <1>7 DEF CountsInv


\* A heartbeat in the queue, for how long it has been asked for, is later than any spike
\* its neuron has sent.
LEMMA ProcessIds ==
    ASSUME IInv, IdsInv, NEW e \in pending, Process(e)
    PROVE  IdsInv'
  <1>1. /\ IsEvent(e) /\ e.time = now /\ e.dest \in Neurons /\ now' = now /\ now \in Nat
        /\ e.type = "heartbeat" => now % Beat = 0
        /\ now < Prev(now) + Beat /\ Prev(now) + Beat \in Nat
    <2>1. IsEvent(e) /\ e.time = now /\ (e.type = "heartbeat" => now % Beat = 0)
      BY NextEvent
    <2>2. e.dest \in Neurons /\ now' = now /\ now \in Nat
      BY <2>1 DEF IsEvent, Process, IInv
    <2>3. now < Prev(now) + Beat /\ Prev(now) + Beat \in Nat
      BY <2>2, PrevBeat, DriverAssumption
    <2> QED
      BY <2>1, <2>2, <2>3
  <1>2. ASSUME NEW s \in pending', s.type = "spike"
        PROVE  /\ s.id.at \in Nat /\ s.id.at <= now
               /\ s \in pending \/ s.id.src = e.dest
               /\ s \in pending \/ e.type = "heartbeat"
               /\ s \in pending \/ s.id.at = now
    <2>1. CASE s \in pending
      BY <1>2, <2>1 DEF IdsInv
    <2>2. CASE s \in Handle(lps[e.dest], e).sent
      BY <1>1, <1>2, <2>2, HandledSent
    <2> QED
      BY <1>2, <2>1, <2>2 DEF Process, Sent
  <1>3. ASSUME NEW s \in pending', s.type = "spike", NEW h \in Heartbeats(s.id.src)'
        PROVE  s.id.at < h.time
    <2> DEFINE n == s.id.src
    <2>1. n \in Neurons
      <3>1. IsEvent(h) /\ h.dest = n
        BY ProcessInv DEF IInv, QueueInv, Heartbeats
      <3> QED
        BY <3>1 DEF IsEvent
    <2>2. s.id.at \in Nat /\ s.id.at <= now
      BY <1>2, <1>3
    <2>3. CASE h \in Heartbeats(n) /\ h # e
      <3>1. CASE s \in pending
        BY <1>3, <2>3, <3>1 DEF IdsInv
      <3>2. CASE s \notin pending
        <4>1. n = e.dest /\ e.type = "heartbeat"
          BY <1>2, <1>3, <3>2
        <4>2. e \in Heartbeats(n)
          BY <4>1 DEF Heartbeats
        <4>3. h = e
          BY <2>1, <2>3, <4>2 DEF IInv, BeatInv
        <4> QED
          BY <2>3, <4>3
      <3> QED
        BY <3>1, <3>2
    <2>4. CASE h.time = Prev(now) + Beat
      BY <1>1, <2>2, <2>4
    <2> QED
      BY <1>3, <2>1, <2>3, <2>4, HeartbeatsAfter
  <1> QED
    BY <1>1, <1>2, <1>3 DEF IdsInv

\* Every heartbeat is the only one of its neuron.
LEMMA AtMostOne ==
    ASSUME NEW H, \A h, k \in H : h = k
    PROVE  /\ Cardinality(H) \in {0, 1}
           /\ \A h \in H : Cardinality(H) = 1
           /\ H = {} => Cardinality(H) = 0
  <1>1. CASE H = {}
    BY <1>1, FS_EmptySet
  <1>2. CASE H # {}
    <2>1. PICK h : h \in H
      BY <1>2
    <2>2. H = {h}
      BY <2>1
    <2> QED
      BY <2>2, FS_Singleton
  <1> QED
    BY <1>1, <1>2

\* The heartbeats and the beats of the neuron that is handed an event, and of another one.
LEMMA HeartbeatsHandled ==
    ASSUME IInv, NEW e \in pending, Process(e), NEW n \in Neurons
    PROVE  /\ n # e.dest => Cardinality(Heartbeats(n)') <= Cardinality(Heartbeats(n))
           /\ n = e.dest /\ SpikeDriven /\ e.type = "spike" =>
                 Cardinality(Heartbeats(n)') <= Cardinality(Heartbeats(n)) + 1
           /\ n = e.dest /\ SpikeDriven /\ e.type = "heartbeat" =>
                 Cardinality(Heartbeats(n)') = 0 /\ Cardinality(Heartbeats(n)) = 1
           /\ n = e.dest /\ e.type = "heartbeat" => BeatsTaken(n)' = BeatsTaken(n) + 1
           /\ n # e.dest \/ e.type = "spike" => BeatsTaken(n)' = BeatsTaken(n)
           /\ Cardinality(Heartbeats(n)) \in {0, 1} /\ Cardinality(Heartbeats(n)') \in {0, 1}
  <1>1. /\ IInv' /\ IsEvent(e) /\ now \div Beat \in Nat
        /\ e.type = "heartbeat" => e \in Heartbeats(e.dest) /\ e.time = now
        /\ e.type = "spike" => ~ BeatsNow(e.dest)
    BY ProcessInv, NextEvent, BeatCount
  <1>2. /\ Cardinality(Heartbeats(n)) \in {0, 1}
        /\ \A h \in Heartbeats(n) : Cardinality(Heartbeats(n)) = 1
        /\ Heartbeats(n) = {} => Cardinality(Heartbeats(n)) = 0
    <2>1. \A h, k \in Heartbeats(n) : h = k
      BY DEF IInv, BeatInv
    <2> QED
      BY <2>1, AtMostOne
  <1>3. /\ Cardinality(Heartbeats(n)') \in {0, 1}
        /\ Heartbeats(n)' = {} => Cardinality(Heartbeats(n)') = 0
    <2>1. \A h, k \in Heartbeats(n)' : h = k
      BY <1>1 DEF IInv, BeatInv
    <2> QED
      BY <2>1, AtMostOne
  <1>4. ASSUME n # e.dest
        PROVE  Cardinality(Heartbeats(n)') <= Cardinality(Heartbeats(n))
    <2>1. \A h \in Heartbeats(n)' : h \in Heartbeats(n)
      BY <1>4, HeartbeatsAfter
    <2>2. Heartbeats(n) = {} => Heartbeats(n)' = {}
      BY <2>1
    <2> QED
      BY <1>1, <1>2, <1>3, <2>2
  <1>5. ASSUME n = e.dest, SpikeDriven, e.type = "heartbeat"
        PROVE  Heartbeats(n)' = {} /\ Cardinality(Heartbeats(n)) = 1
    <2>1. \A h \in Heartbeats(n)' : h \in Heartbeats(n) /\ h # e
      <3> SUFFICES ASSUME NEW h \in Heartbeats(n)' PROVE h \in Heartbeats(n) /\ h # e
        OBVIOUS
      <3>1. e.type # "spike"
        BY <1>5
      <3> QED
        BY <1>5, <3>1, HeartbeatsAfter
    <2>2. e \in Heartbeats(n) /\ \A h, k \in Heartbeats(n) : h = k
      BY <1>1, <1>5 DEF IInv, BeatInv
    <2> QED
      BY <1>2, <2>1, <2>2
  <1>6. /\ n # e.dest => BeatsTaken(n)' = BeatsTaken(n)
        /\ n = e.dest => BeatsTaken(n)' = now \div Beat
    BY CountAfter
  <1>7. ASSUME n = e.dest, e.type = "heartbeat"
        PROVE  BeatsTaken(n)' = BeatsTaken(n) + 1
    <2>1. BeatsNow(n)
      BY <1>1, <1>7 DEF BeatsNow
    <2>2. BeatsTaken(n) = (now \div Beat) - 1
      BY <2>1, BeatCount
    <2> QED
      BY <1>1, <1>6, <1>7, <2>2
  <1>8. ASSUME n = e.dest, e.type = "spike"
        PROVE  BeatsTaken(n)' = BeatsTaken(n)
    BY <1>1, <1>6, <1>8, BeatCount
  <1>9. Cardinality(Heartbeats(n)') <= Cardinality(Heartbeats(n)) + 1
    BY <1>1, <1>2, <1>3
  <1> QED
    BY <1>1, <1>2, <1>3, <1>4, <1>5, <1>6, <1>7, <1>8, <1>9


\* Two sets that have nothing in common.
LEMMA DisjointCount ==
    ASSUME NEW S, NEW T, IsFiniteSet(S), IsFiniteSet(T), S \cap T = {}
    PROVE  /\ IsFiniteSet(S \cup T) /\ Cardinality(S) \in Nat /\ Cardinality(T) \in Nat
           /\ Cardinality(S \cup T) = Cardinality(S) + Cardinality(T)
  <1>1. /\ IsFiniteSet(S \cup T)
        /\ Cardinality(S \cup T) = Cardinality(S) + Cardinality(T) - Cardinality({})
    BY FS_Union
  <1>2. Cardinality({}) = 0
    BY FS_EmptySet
  <1>3. Cardinality(S) \in Nat /\ Cardinality(T) \in Nat
    BY FS_CardinalityType
  <1> QED
    BY <1>1, <1>2, <1>3

\* The spikes and the firings that a heartbeat adds.
LEMMA CountsOfABeat ==
    ASSUME IInv, RecordsInv, IdsInv, CountsInv, NEW e \in pending, Process(e),
           e.type = "heartbeat", NEW n \in Neurons
    PROVE  /\ IsFiniteSet(SpikesTo(n)')
           /\ Cardinality(SpikesTo(n)') + Total(n, FiredRecords)
                = Cardinality(SpikesTo(n)) + Total(n, FiredRecords')
           /\ n # e.dest => Cardinality(FiringsOf(n)') = Cardinality(FiringsOf(n))
           /\ n = e.dest =>
                 Cardinality(FiringsOf(n)') = Cardinality(FiringsOf(n)) + One(Rec(e).fired)
           /\ Total(n, FiredRecords) \in Nat /\ Total(n, FiredRecords') \in Nat
  <1> DEFINE d == e.dest
             r == Rec(e)
             new == {s \in Sent(send_spike(d, now)) : s.dest = n}
  <1>1. /\ IsEvent(e) /\ e.time = now /\ d \in Neurons /\ now \in Nat /\ now % Beat = 0
        /\ e \in Heartbeats(d)
    BY NextEvent DEF IsEvent, IInv
  <1>2. /\ trace' = trace \cup {r} /\ r.neuron = d /\ r.time = now
        /\ \A q \in trace : q.neuron = d => q.time < now
    BY Recording
  <1>3. r \notin trace
    BY <1>1, <1>2
  <1>4. r.fired <=> leak_and_fire(lps[d].neuron).fired
    <2>1. Handle(lps[d], e).fired = leak_and_fire(lps[d].neuron).fired
      BY DEF Handle, event_needy, event_spike_driven
    <2>2. Handled(lps[d], e).fired <=> Handle(lps[d], e).fired
      BY <1>1 DEF Handled, IsEvent
    <2> QED
      BY <2>1, <2>2 DEF Rec
  <1>5. Flight' = Flight \cup Sent(IF r.fired THEN send_spike(d, now) ELSE {})
    BY <1>4, TrafficAfterBeat
  <1>6. /\ SpikesTo(n) = {s \in Flight : s.dest = n}
        /\ SpikesTo(n)' = {s \in Flight' : s.dest = n}
    BY DEF SpikesTo, Flight
  <1>7. /\ IsFiniteSet(SpikesTo(n)) /\ Cardinality(SpikesTo(n)) \in Nat
    BY FS_CardinalityType DEF CountsInv, NeuronCounts
  <1>8. /\ IsFiniteSet(FiredRecords) /\ IsFiniteSet(FiringsOf(n))
        /\ \A q \in FiredRecords : Weight(n, q) \in Nat
        /\ r \notin FiredRecords /\ r \notin FiringsOf(n) /\ Weight(n, r) \in Nat
    <2>1. FiredRecords \in SUBSET trace /\ FiringsOf(n) \in SUBSET trace
      BY DEF FiredRecords, FiringsOf
    <2>2. IsFiniteSet(FiredRecords) /\ IsFiniteSet(FiringsOf(n))
      BY <2>1, FS_Subset DEF RecordsInv
    <2>3. \A q \in FiredRecords : Weight(n, q) \in Nat
      <3> SUFFICES ASSUME NEW q \in FiredRecords PROVE Weight(n, q) \in Nat
        OBVIOUS
      <3>1. q.neuron \in Neurons
        BY DEF FiredRecords, IInv, TraceInv
      <3> QED
        BY <3>1, WeightType
    <2>4. Weight(n, r) \in Nat
      BY <1>1, <1>2, WeightType
    <2> QED
      BY <1>3, <2>1, <2>2, <2>3, <2>4
  <1>9. Total(n, FiredRecords) \in Nat
        /\ Total(n, FiredRecords \cup {r}) = Total(n, FiredRecords) + Weight(n, r)
    BY <1>8, TotalAdds
  <1> HIDE DEF r
  <1>10. CASE r.fired
    <2>1. FiredRecords' = FiredRecords \cup {r}
      BY <1>2, <1>10 DEF FiredRecords
    <2>2. SpikesTo(n)' = SpikesTo(n) \cup new
      BY <1>5, <1>6, <1>10
    <2>3. SpikesTo(n) \cap new = {}
      <3> SUFFICES ASSUME NEW s \in SpikesTo(n), s \in new PROVE FALSE
        OBVIOUS
      <3>1. s \in send_spike(d, now)
        BY DEF Sent
      <3>2. s.id.src = d /\ s.id.at = now
        BY <1>1, <3>1, SpikesSent
      <3>3. s.id.at < e.time
        BY <1>1, <3>2 DEF SpikesTo, IdsInv
      <3> QED
        BY <1>1, <3>2, <3>3
    <2>4. IsFiniteSet(new) /\ Cardinality(new) = Weight(n, r)
      BY <1>1, <1>2, SpikesOfAFiring
    <2> HIDE DEF new
    <2>5. /\ IsFiniteSet(SpikesTo(n) \cup new)
          /\ Cardinality(SpikesTo(n) \cup new) = Cardinality(SpikesTo(n)) + Cardinality(new)
      BY <1>7, <2>3, <2>4, DisjointCount
    <2>6. n # d => FiringsOf(n)' = FiringsOf(n)
      BY <1>2 DEF FiringsOf
    <2>7. n = d => FiringsOf(n)' = FiringsOf(n) \cup {r}
      BY <1>2, <1>10 DEF FiringsOf
    <2>8. Cardinality(FiringsOf(n) \cup {r}) = Cardinality(FiringsOf(n)) + One(r.fired)
      <3>1. Cardinality(FiringsOf(n) \cup {r}) = Cardinality(FiringsOf(n)) + 1
        BY <1>8, FS_AddElement
      <3> QED
        BY <1>10, <3>1 DEF One
    <2>9. Cardinality(SpikesTo(n)') + Total(n, FiredRecords)
            = Cardinality(SpikesTo(n)) + Total(n, FiredRecords')
      BY <1>7, <1>8, <1>9, <2>1, <2>2, <2>4, <2>5
    <2>10. Total(n, FiredRecords') \in Nat
      BY <1>8, <1>9, <2>1
    <2> QED
      BY <1>9, <2>2, <2>5, <2>6, <2>7, <2>8, <2>9, <2>10 DEF r
  <1>11. CASE ~ r.fired
    <2>1. FiredRecords' = FiredRecords /\ FiringsOf(n)' = FiringsOf(n)
      BY <1>2, <1>11 DEF FiredRecords, FiringsOf
    <2>2. SpikesTo(n)' = SpikesTo(n)
      BY <1>5, <1>6, <1>11 DEF Sent
    <2>3. One(r.fired) = 0
      BY <1>11 DEF One
    <2>4. Cardinality(FiringsOf(n)) \in Nat
      BY <1>8, FS_CardinalityType
    <2>5. Cardinality(FiringsOf(n)') = Cardinality(FiringsOf(n)) + One(r.fired)
      BY <2>1, <2>3, <2>4
    <2> QED
      BY <1>7, <1>9, <2>1, <2>2, <2>5 DEF r
  <1> QED
    BY <1>10, <1>11

\* A spike takes one off those on their way to its neuron.
LEMMA CountsOfASpike ==
    ASSUME IInv, CountsInv, NEW e \in pending, Process(e), e.type = "spike",
           NEW n \in Neurons
    PROVE  /\ trace' = trace
           /\ IsFiniteSet(SpikesTo(n)')
           /\ n # e.dest => Cardinality(SpikesTo(n)') = Cardinality(SpikesTo(n))
           /\ n = e.dest => Cardinality(SpikesTo(n)') = Cardinality(SpikesTo(n)) - 1
  <1>1. IsEvent(e) /\ Flight' = Flight \ {e}
    BY NextEvent, TrafficAfterSpike
  <1>2. trace' = trace
    BY <1>1 DEF Process, driver_neuron_event_commit, Handled, IsEvent
  <1>3. /\ SpikesTo(n) = {s \in Flight : s.dest = n}
        /\ SpikesTo(n)' = {s \in Flight' : s.dest = n}
        /\ e \in Flight
    BY DEF SpikesTo, Flight
  <1>4. IsFiniteSet(SpikesTo(n))
    BY DEF CountsInv, NeuronCounts
  <1>5. CASE n # e.dest
    BY <1>1, <1>2, <1>3, <1>4, <1>5
  <1>6. CASE n = e.dest
    <2>1. SpikesTo(n)' = SpikesTo(n) \ {e} /\ e \in SpikesTo(n)
      BY <1>1, <1>3, <1>6
    <2>2. /\ IsFiniteSet(SpikesTo(n) \ {e})
          /\ Cardinality(SpikesTo(n) \ {e}) = Cardinality(SpikesTo(n)) - 1
      BY <1>4, <2>1, FS_RemoveElement
    <2> QED
      BY <1>2, <1>6, <2>1, <2>2
  <1> QED
    BY <1>5, <1>6


LEMMA CountsType ==
    ASSUME CountsInv, NEW n \in Neurons
    PROVE  /\ stats[n].leaks \in Nat /\ stats[n].integrations \in Nat /\ stats[n].fires \in Nat
           /\ IsFiniteSet(LoadedTo(n)) /\ Cardinality(LoadedTo(n)) \in Nat
           /\ IsFiniteSet(SpikesTo(n)) /\ Cardinality(SpikesTo(n)) \in Nat
           /\ stats[n].integrations + Cardinality(SpikesTo(n))
                = Cardinality(LoadedTo(n)) + Total(n, FiredRecords)
           /\ stats[n].fires = Cardinality(FiringsOf(n))
           /\ SpikeDriven => stats[n].leaks + Cardinality(Heartbeats(n)) <= stats[n].integrations
           /\ ~ SpikeDriven => stats[n].leaks = BeatsTaken(n)
  <1>1. NeuronCounts(n)
    BY DEF CountsInv
  <1>2. IsFiniteSet(LoadedTo(n)) /\ IsFiniteSet(SpikesTo(n))
    BY <1>1 DEF NeuronCounts
  <1>3. Cardinality(LoadedTo(n)) \in Nat /\ Cardinality(SpikesTo(n)) \in Nat
    BY <1>2, FS_CardinalityType
  <1> QED
    BY <1>1, <1>3 DEF NeuronCounts

\* An event leaves every neuron's counts right.
LEMMA ProcessCounts ==
    ASSUME IInv, RecordsInv, IdsInv, CountsInv, NEW e \in pending, ProbedProcess(e)
    PROVE  CountsInv'
  <1> DEFINE d == e.dest
  <1>1. Process(e) /\ loaded' = loaded
    BY DEF ProbedProcess
  <1>2. IsEvent(e) /\ d \in Neurons /\ (e.type = "heartbeat" \/ e.type = "spike")
    BY <1>1, NextEvent DEF IsEvent
  <1>3. /\ stats' = [n \in Neurons |-> stats'[n]]
        /\ \A n \in Neurons : n # d => stats'[n] = stats[n]
        /\ e.type = "heartbeat" =>
              /\ stats'[d].leaks = stats[d].leaks + 1
              /\ stats'[d].integrations = stats[d].integrations
              /\ stats'[d].fires = stats[d].fires + One(Rec(e).fired)
        /\ e.type = "spike" =>
              /\ stats'[d].leaks = stats[d].leaks
              /\ stats'[d].integrations = stats[d].integrations + 1
              /\ stats'[d].fires = stats[d].fires
    BY StatsAfter
  <1>4. One(Rec(e).fired) \in Nat
    BY DEF One
  <1>5. ASSUME NEW n \in Neurons
        PROVE  NeuronCounts(n)'
    <2>1. LoadedTo(n)' = LoadedTo(n)
      BY <1>1 DEF LoadedTo
    <2>2. /\ n # d => Cardinality(Heartbeats(n)') <= Cardinality(Heartbeats(n))
          /\ n = d /\ SpikeDriven /\ e.type = "spike" =>
                Cardinality(Heartbeats(n)') <= Cardinality(Heartbeats(n)) + 1
          /\ n = d /\ SpikeDriven /\ e.type = "heartbeat" =>
                Cardinality(Heartbeats(n)') = 0 /\ Cardinality(Heartbeats(n)) = 1
          /\ n = d /\ e.type = "heartbeat" => BeatsTaken(n)' = BeatsTaken(n) + 1
          /\ n # d \/ e.type = "spike" => BeatsTaken(n)' = BeatsTaken(n)
          /\ Cardinality(Heartbeats(n)) \in {0, 1} /\ Cardinality(Heartbeats(n)') \in {0, 1}
      BY <1>1, HeartbeatsHandled
    <2>3. /\ stats[n].leaks \in Nat /\ stats[n].integrations \in Nat /\ stats[n].fires \in Nat
          /\ IsFiniteSet(LoadedTo(n)) /\ Cardinality(LoadedTo(n)) \in Nat
          /\ IsFiniteSet(SpikesTo(n)) /\ Cardinality(SpikesTo(n)) \in Nat
          /\ stats[n].integrations + Cardinality(SpikesTo(n))
               = Cardinality(LoadedTo(n)) + Total(n, FiredRecords)
          /\ stats[n].fires = Cardinality(FiringsOf(n))
          /\ SpikeDriven => stats[n].leaks + Cardinality(Heartbeats(n)) <= stats[n].integrations
          /\ ~ SpikeDriven => stats[n].leaks = BeatsTaken(n)
      BY CountsType
    <2>4. SUFFICES
            /\ stats'[n].leaks \in Nat /\ stats'[n].integrations \in Nat
            /\ stats'[n].fires \in Nat
            /\ IsFiniteSet(SpikesTo(n)')
            /\ stats'[n].integrations + Cardinality(SpikesTo(n)')
                 = Cardinality(LoadedTo(n)) + Total(n, FiredRecords')
            /\ stats'[n].fires = Cardinality(FiringsOf(n)')
            /\ SpikeDriven =>
                  stats'[n].leaks + Cardinality(Heartbeats(n)') <= stats'[n].integrations
            /\ ~ SpikeDriven => stats'[n].leaks = BeatsTaken(n)'
      BY <2>1, <2>3 DEF NeuronCounts
    <2>5. /\ SpikeDriven =>
                stats'[n].leaks + Cardinality(Heartbeats(n)') <= stats'[n].integrations
          /\ ~ SpikeDriven => stats'[n].leaks = BeatsTaken(n)'
          /\ stats'[n].leaks \in Nat /\ stats'[n].integrations \in Nat
          /\ stats'[n].fires \in Nat
      <3>1. CASE n # d
        BY <1>3, <2>2, <2>3, <3>1
      <3>2. CASE n = d /\ e.type = "heartbeat"
        BY <1>3, <1>4, <2>2, <2>3, <3>2
      <3>3. CASE n = d /\ e.type = "spike"
        BY <1>3, <2>2, <2>3, <3>3
      <3> QED
        BY <1>2, <3>1, <3>2, <3>3
    <2>6. CASE e.type = "heartbeat"
      <3>1. /\ IsFiniteSet(SpikesTo(n)')
            /\ Cardinality(SpikesTo(n)') + Total(n, FiredRecords)
                 = Cardinality(SpikesTo(n)) + Total(n, FiredRecords')
            /\ n # d => Cardinality(FiringsOf(n)') = Cardinality(FiringsOf(n))
            /\ n = d => Cardinality(FiringsOf(n)') = Cardinality(FiringsOf(n)) + One(Rec(e).fired)
            /\ Total(n, FiredRecords) \in Nat /\ Total(n, FiredRecords') \in Nat
        BY <1>1, <2>6, CountsOfABeat
      <3>2. Cardinality(SpikesTo(n)') \in Nat
        BY <3>1, FS_CardinalityType
      <3>3. stats'[n].integrations = stats[n].integrations
        BY <1>3, <2>6
      <3>4. stats'[n].fires = Cardinality(FiringsOf(n)')
        BY <1>3, <2>3, <2>6, <3>1
      <3>5. stats'[n].integrations + Cardinality(SpikesTo(n)')
              = Cardinality(LoadedTo(n)) + Total(n, FiredRecords')
        BY <2>3, <3>1, <3>2, <3>3
      <3> QED
        BY <2>5, <3>1, <3>4, <3>5
    <2>7. CASE e.type = "spike"
      <3>1. /\ trace' = trace
            /\ IsFiniteSet(SpikesTo(n)')
            /\ n # d => Cardinality(SpikesTo(n)') = Cardinality(SpikesTo(n))
            /\ n = d => Cardinality(SpikesTo(n)') = Cardinality(SpikesTo(n)) - 1
        BY <1>1, <2>7, CountsOfASpike
      <3>2. FiredRecords' = FiredRecords /\ FiringsOf(n)' = FiringsOf(n)
        BY <3>1 DEF FiredRecords, FiringsOf
      <3>3. stats'[n].fires = stats[n].fires
        BY <1>3, <2>7
      <3>4. stats'[n].integrations + Cardinality(SpikesTo(n)')
              = stats[n].integrations + Cardinality(SpikesTo(n))
        BY <1>3, <2>3, <2>7, <3>1
      <3> QED
        BY <2>3, <2>5, <3>1, <3>2, <3>3, <3>4
    <2> QED
      BY <1>2, <2>6, <2>7
  <1> QED
    BY <1>3, <1>5 DEF CountsInv

\* When the clock moves to a beat, in needy mode, every neuron has its heartbeat to take.
LEMMA TickCounts ==
    ASSUME IInv, RecordsInv, IdsInv, CountsInv, Tick, UNCHANGED probes
    PROVE  IdsInv' /\ CountsInv'
  <1>1. /\ now \in Nat /\ now' = now + 1 /\ now + 1 < End /\ End \in Nat
        /\ pending' = pending /\ trace' = trace /\ stats' = stats /\ loaded' = loaded
        /\ \A e \in pending : e.time > now
        /\ Beat \in Nat /\ Beat > 0
    BY DriverAssumption DEF IInv, Tick, probes
  <1>2. IdsInv'
    <2>1. \A n : Heartbeats(n)' = Heartbeats(n)
      BY <1>1 DEF Heartbeats
    <2> QED
      BY <1>1, <2>1 DEF IdsInv
  <1>3. ASSUME NEW n \in Neurons, ~ SpikeDriven
        PROVE  BeatsTaken(n)' = BeatsTaken(n)
    <2>1. IInv'
      BY TickInv
    <2>2. ~ BeatsNow(n)
      BY <1>1 DEF BeatsNow, Heartbeats
    <2>3. BeatsTaken(n) = now \div Beat /\ now \div Beat \in Nat
      BY <2>2, BeatCount
    <2>4. BeatsTaken(n)' = ((now + 1) \div Beat) - (IF BeatsNow(n)' THEN 1 ELSE 0)
      BY <1>1 DEF BeatsTaken, BeatsNow
    <2>5. CASE (now + 1) \div Beat = now \div Beat /\ (now + 1) % Beat # 0
      <3>1. ~ BeatsNow(n)'
        <4> SUFFICES ASSUME NEW h \in Heartbeats(n)', h.time = now + 1 PROVE FALSE
          BY <1>1 DEF BeatsNow
        <4>1. h.time = Prev(now) + Beat
          <5>1. h \in Heartbeats(n)
            BY <1>1 DEF Heartbeats
          <5>2. HeartbeatTime(h)
            BY <5>1 DEF IInv, BeatInv
          <5> QED
            BY <1>1, <5>2 DEF HeartbeatTime
        <4>2. Prev(now) \in Nat /\ Prev(now) % Beat = 0
          BY <1>1, PrevBeat
        <4>3. (now + 1) % Beat = 0
          BY <4>1, <4>2, NextMultiple
        <4> QED
          BY <2>5, <4>3
      <3> QED
        BY <2>3, <2>4, <2>5, <3>1
    <2>6. CASE (now + 1) \div Beat = (now \div Beat) + 1 /\ (now + 1) % Beat = 0
      <3>1. now + 1 = Prev(now) + Beat
        BY <1>1, <2>6, PrevTick
      <3>2. BeatsNow(n)'
        <4>1. Heartbeats(n) # {}
          <5>1. AwaitsHeartbeat(n)
            BY <1>3 DEF AwaitsHeartbeat
          <5>2. ~ (End <= Prev(now) + Beat)
            BY <1>1, <3>1
          <5> QED
            BY <5>1, <5>2 DEF IInv, BeatInv
        <4>2. PICK h \in Heartbeats(n) : TRUE
          BY <4>1
        <4>3. h.time = now + 1
          <5>1. HeartbeatTime(h) /\ h.time > now
            BY <1>1 DEF IInv, BeatInv, Heartbeats
          <5> QED
            BY <1>1, <3>1, <5>1 DEF HeartbeatTime
        <4>4. h \in Heartbeats(n)'
          BY <1>1 DEF Heartbeats
        <4> QED
          BY <1>1, <4>3, <4>4 DEF BeatsNow
      <3> QED
        BY <2>3, <2>4, <2>6, <3>2
    <2> QED
      BY <1>1, <2>5, <2>6, TickQuotient
  <1>4. ASSUME NEW n \in Neurons
        PROVE  NeuronCounts(n)'
    <2>1. /\ SpikesTo(n)' = SpikesTo(n) /\ LoadedTo(n)' = LoadedTo(n)
          /\ FiredRecords' = FiredRecords /\ FiringsOf(n)' = FiringsOf(n)
          /\ Heartbeats(n)' = Heartbeats(n)
      BY <1>1 DEF SpikesTo, LoadedTo, FiredRecords, FiringsOf, Heartbeats
    <2>2. NeuronCounts(n)
      BY DEF CountsInv
    <2> QED
      BY <1>1, <1>3, <2>1, <2>2 DEF NeuronCounts
  <1> QED
    BY <1>1, <1>2, <1>4 DEF CountsInv

LEMMA IdleCounts ==
    ASSUME UNCHANGED probedVars
    PROVE  /\ RecordsInv /\ BuffersInv => RecordsInv' /\ BuffersInv'
           /\ IdsInv => IdsInv'
           /\ CountsInv => CountsInv'
  <1>1. /\ pending' = pending /\ now' = now /\ trace' = trace /\ stats' = stats
        /\ loaded' = loaded /\ firing_spikes' = firing_spikes /\ voltages' = voltages
    BY DEF probedVars, vars, probes
  <1>2. \A n : Heartbeats(n)' = Heartbeats(n) /\ BeatsTaken(n)' = BeatsTaken(n)
    BY <1>1 DEF Heartbeats, BeatsTaken
  <1>3. \A n : /\ SpikesTo(n)' = SpikesTo(n) /\ LoadedTo(n)' = LoadedTo(n)
               /\ FiredRecords' = FiredRecords /\ FiringsOf(n)' = FiringsOf(n)
    BY <1>1 DEF SpikesTo, LoadedTo, FiredRecords, FiringsOf
  <1>4. IdsInv => IdsInv'
    BY <1>1, <1>2 DEF IdsInv
  <1>5. CountsInv => CountsInv'
    BY <1>1, <1>2, <1>3 DEF CountsInv, NeuronCounts
  <1> QED
    BY <1>1, <1>4, <1>5, IdleProbes

-----------------------------------------------------------------------------
(* The run.                                                                 *)

PInv ==
    /\ IInv
    /\ RecordsInv /\ BuffersInv
    /\ IdsInv /\ CountsInv

THEOREM ProbedInductive == ProbedSpec => []PInv
  <1>1. ProbedInit => PInv
    BY InitInv, BuffersStart, CountsStart DEF PInv, ProbedInit
  <1>2. PInv /\ [ProbedNext]_probedVars => PInv'
    <2> SUFFICES ASSUME PInv, [ProbedNext]_probedVars PROVE PInv'
      OBVIOUS
    <2>1. ASSUME NEW e \in pending, ProbedProcess(e)
          PROVE  PInv'
      <3>1. Process(e)
        BY <2>1 DEF ProbedProcess
      <3> QED
        BY <2>1, <3>1, ProcessInv, ProcessRecords, ProcessBuffers, ProcessIds, ProcessCounts
        DEF PInv
    <2>2. CASE Tick /\ UNCHANGED probes
      <3>1. UNCHANGED <<pending, trace, firing_spikes, voltages>>
        BY <2>2 DEF Tick, probes
      <3> QED
        BY <2>2, <3>1, TickInv, TickCounts, IdleProbes DEF PInv
    <2>3. CASE UNCHANGED probedVars
      <3>1. UNCHANGED vars
        BY <2>3 DEF probedVars
      <3> QED
        BY <2>3, <3>1, IdleInv, IdleCounts DEF PInv
    <2>4. Finished /\ UNCHANGED probes => UNCHANGED probedVars
      BY DEF Finished, probedVars
    <2> QED
      BY <2>1, <2>2, <2>3, <2>4 DEF ProbedNext
  <1> QED
    BY <1>1, <1>2, PTL DEF ProbedSpec

\* firing.c:57-59, voltage.c:60-62. Whatever the sizes of the buffers, the network, the
\* neuron model and the input: a buffer holds the first records of the run, as many as it
\* has room for, each once and in the order of time, and its flag tells whether any was
\* turned away.
THEOREM FirstAreRecorded == ProbedSpec => []FirstRecorded
  BY ProbedInductive, BuffersImplyFirst, PTL DEF PInv

LEMMA CountsImplyConserved == CountsInv => SpikesConserved
  <1> SUFFICES ASSUME CountsInv, NEW n \in Neurons
               PROVE  /\ stats[n].integrations
                           + Cardinality({e \in pending : e.type = "spike" /\ e.dest = n})
                           = Cardinality({e \in loaded : e.dest = n})
                               + MapThenSumSet(LAMBDA r : Cardinality(SentTo(n, r)),
                                               {r \in trace : r.fired})
                      /\ stats[n].fires = Cardinality({r \in trace : r.neuron = n /\ r.fired})
                      /\ IF SpikeDriven
                         THEN stats[n].leaks + Cardinality(Heartbeats(n)) <= stats[n].integrations
                         ELSE stats[n].leaks = BeatsTaken(n)
    BY DEF SpikesConserved
  <1>1. NeuronCounts(n)
    BY DEF CountsInv
  <1>2. stats[n].integrations + Cardinality({e \in pending : e.type = "spike" /\ e.dest = n})
          = Cardinality({e \in loaded : e.dest = n})
              + MapThenSumSet(LAMBDA r : Cardinality(SentTo(n, r)), {r \in trace : r.fired})
    BY <1>1 DEF NeuronCounts, SpikesTo, LoadedTo, Total, FiredRecords
  <1> QED
    BY <1>1, <1>2 DEF NeuronCounts, FiringsOf

\* stats.c:36-48, neuron.c:80-87, neuron.c:133-149. Whatever the network, the neuron model
\* and the input: every input spike and every spike a firing sent within the run is, at
\* any time, either counted as integrated by the neuron it was for or still on its way,
\* never both; the counts of fires and of leaks agree with the heartbeats handled.
THEOREM SpikesAreConserved == ProbedSpec => []SpikesConserved
  BY ProbedInductive, CountsImplyConserved, PTL DEF PInv
=============================================================================
