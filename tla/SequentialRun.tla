---------------------------- MODULE SequentialRun -----------------------------
(***************************************************************************)
(* A run of doryta under the sequential scheduler of ROSS (--synch=1): the *)
(* events of the whole network in one queue, handed to the driver in the   *)
(* order of their time stamps and, at one instant, of their priorities;    *)
(* what is left of the order is arbitrary.  An event is committed as soon  *)
(* as it is handled.                                                       *)
(***************************************************************************)
EXTENDS NeuronDriver

VARIABLES
    lps,        \* struct NeuronLP of each LP (to_contact never changes: Synapses)
    pending,    \* the queue of events
    now,        \* the clock of the simulation
    trace       \* what the probes have written down of the committed heartbeats

vars == <<lps, pending, now, trace>>

Init ==
    /\ lps = [n \in Neurons |-> initialize_NeuronLP(n)]
    /\ \E input \in SpikeInputs :
          pending = Sent(UNION {driver_neuron_init(n, input[n]) : n \in Neurons})
    /\ now = 0
    /\ trace = {}

\* Event handler, then commit handler.
Process(e) ==
    LET lp  == lps[e.dest]
        out == Handle(lp, e)
    IN  /\ e.time = now
        /\ \A f \in pending : ~ Before(f, e)
        /\ lps' = [lps EXCEPT ![e.dest] = out.lp]
        /\ pending' = (pending \ {e}) \cup Sent(out.sent)
        /\ trace' = trace \cup driver_neuron_event_commit(out.lp, Handled(lp, e), Saved(lp))
        /\ UNCHANGED now

\* The scheduler moves on when nothing is left at this instant.
Tick ==
    /\ now + 1 < End
    /\ \A e \in pending : e.time > now
    /\ now' = now + 1
    /\ UNCHANGED <<lps, pending, trace>>

\* tw_run returns when the queue is empty and the end is reached.
Finished == now + 1 >= End /\ pending = {} /\ UNCHANGED vars

Next ==
    \/ \E e \in pending : Process(e)
    \/ Tick
    \/ Finished

\* The scheduler is a loop: while it can hand out an event it does.
Spec == Init /\ [][Next]_vars /\ WF_vars(Next)

-----------------------------------------------------------------------------
Heartbeats(n) == {e \in pending : e.type = "heartbeat" /\ e.dest = n}

\* The heartbeat a neuron is waiting for: the next one of all in needy mode, and in
\* spike-driven mode the one its first spike of this beat asked for.
AwaitsHeartbeat(n) == ~ SpikeDriven \/ lps[n].next_heartbeat_sent

\* How many beats a neuron has taken: the one at this very instant counts once its
\* heartbeat is handled.
BeatsTaken(n) ==
    (now \div Beat) - (IF \E h \in Heartbeats(n) : h.time = now THEN 1 ELSE 0)

\* The clock stays within the run, nothing pending is in the past, and every LP and
\* every event is of the shape neuron.h and message.h give it.
TypeOK ==
    /\ now \in 0 .. End - 1
    /\ DOMAIN lps = Neurons
    /\ \A n \in Neurons :
          /\ lps[n].last_heartbeat \in 0 .. now
          /\ lps[n].next_heartbeat_sent \in BOOLEAN
    /\ \A e \in pending :
          /\ e.type \in {"heartbeat", "spike"}
          /\ e.dest \in Neurons
          /\ e.time \in now .. End - 1
          /\ e.fired = FALSE
    /\ \A r \in trace : r.neuron \in Neurons /\ r.time \in 0 .. now /\ r.time % Beat = 0

\* neuron.c:251-286, Developing.md:66-70. Whoever awaits a heartbeat has exactly one in
\* the queue, for its next beat (none if the run ends first); whoever does not has none.
\* So no beat is skipped and none is taken twice, heartbeats happen at multiples of a
\* beat in both modes, and last_heartbeat is the beat the neuron is up to date with.
HeartbeatProtocol ==
    \A n \in Neurons :
        LET next == (BeatsTaken(n) + 1) * Beat
        IN  /\ \A h \in Heartbeats(n) : AwaitsHeartbeat(n) /\ h.time = next
            /\ \A h, k \in Heartbeats(n) : h = k
            /\ AwaitsHeartbeat(n) /\ next < End => Heartbeats(n) # {}
            /\ lps[n].next_heartbeat_sent => lps[n].last_heartbeat + Beat = next
            /\ lps[n].last_heartbeat % Beat = 0

\* neuron.c:263, lif.c:15-16. When a spike is handed to its neuron, the neuron is not
\* ahead of the beat before the spike, and if it has beats to make up for then it holds
\* no current that those beats should have consumed.
HandlerAsserts ==
    \A e \in pending :
        SpikeDriven /\ e.type = "spike" /\ e.time = now
                   /\ (\A f \in pending : ~ Before(f, e))
            => LET lp == lps[e.dest]
               IN  /\ lp.last_heartbeat <= find_prev_heartbeat_time(now)
                   /\ IsBehind(lp, now) =>
                         /\ leak_bigdt_ready(lp.neuron)
                         /\ BeatsBehind(lp, now) * Beat
                              = find_prev_heartbeat_time(now) - lp.last_heartbeat

\* neuron.c:133. Whatever a handler schedules lies ahead of it, and a spike never
\* arrives at the time of a heartbeat.
ScheduledAhead ==
    [][\A e \in pending' \ pending :
          e.time > now /\ (e.type = "spike" => e.time % Beat # 0)]_vars

\* A neuron that asked for a heartbeat within the run gets it.
HeartbeatComes ==
    \A n \in Neurons :
        lps[n].next_heartbeat_sent /\ lps[n].last_heartbeat + Beat < End
            ~> ~ lps[n].next_heartbeat_sent

\* The run comes to its end: every input spike and every spike fired has been handled.
RunCompletes == <>[](pending = {} /\ now = End - 1)

\* README.md:86-94. In both modes the run is one of the clocked network: a neuron with
\* no heartbeat pending stands for one that leaks at every beat and does not fire.
Network == INSTANCE SpikingNetwork WITH
    beats   <- [n \in Neurons |-> BeatsTaken(n)],
    neuron  <- [n \in Neurons |->
                  IF AwaitsHeartbeat(n) THEN lps[n].neuron
                  ELSE neuron_leak_bigdt(lps[n].neuron,
                           BeatsTaken(n) - lps[n].last_heartbeat \div Beat)],
    flight  <- {e \in pending : e.type = "spike"},
    firings <- {<<r.neuron, r.time>> : r \in {q \in trace : q.fired}}

ImplementsNetwork == Network!Spec
=============================================================================
