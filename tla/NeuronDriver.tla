----------------------------- MODULE NeuronDriver -----------------------------
(***************************************************************************)
(* The event handlers of src/driver/neuron.c, in both modes of execution,  *)
(* as operators from the LP's record and the event being handled to what   *)
(* the handler leaves behind: the new record, whether the neuron fired,    *)
(* and the events it scheduled.  The modules that schedule the events      *)
(* (SequentialRun, TimeWarp) are built from these operators.               *)
(*                                                                         *)
(* Time is counted in ticks and a heartbeat takes an even number of them,  *)
(* so half a heartbeat is a whole number of ticks.                         *)
(***************************************************************************)
EXTENDS Integers, Sequences

CONSTANTS
    Neurons,        \* LPs; a neuron's doryta id, its gid and its LP are one value here
    Synapses,       \* per neuron, the sequence of its [to, weight, delay]
    SpikeInputs,    \* the inputs considered: per neuron, an array of [time, intensity]
    InitialNeuron,  \* per neuron, the neuron_struct handed over by the model loader
    Beat,           \* settings.beat
    End,            \* g_tw_ts_end: ROSS drops what is due at this time or later
    SpikeDriven,    \* --spike-driven (TRUE) or needy (FALSE)
    \* The functions of struct SettingsNeuronLP.
    neuron_leak(_), neuron_leak_bigdt(_, _), neuron_integrate(_, _), neuron_fire(_),
    store_neuron(_), reverse_store_neuron(_, _),
    leak_bigdt_ready(_) \* what neuron_leak_bigdt asserts of the neuron it is given

ASSUME DriverAssumption ==
    /\ Beat \in Nat /\ Beat > 0 /\ Beat % 2 = 0
    /\ End \in Nat \ {0}
    /\ SpikeDriven \in BOOLEAN

ASSUME WiringAssumption ==
    \A n \in Neurons :
        /\ Synapses[n] \in Seq([to : Neurons, weight : Int, delay : Nat \ {0}])
        /\ \A input \in SpikeInputs :
              input[n] \in Seq([time : Nat, intensity : Int])

-----------------------------------------------------------------------------
(* Messages.  `id` tells apart two messages of the same content: it is who  *)
(* caused the message, when, and as the how-manieth of its kind.            *)

heartbeat(n, time, id) ==
    [type |-> "heartbeat", dest |-> n, time |-> time, current |-> 0,
     id |-> id, fired |-> FALSE]

spike(n, time, current, id) ==
    [type |-> "spike", dest |-> n, time |-> time, current |-> current,
     id |-> id, fired |-> FALSE]

Id(src, at, nth) == [src |-> src, at |-> at, nth |-> nth]

\* HEARTBEAT_PRIORITY and SPIKE_PRIORITY, in tenths: at one instant a heartbeat goes first.
Priority_Swapped(e) == IF e.type = "heartbeat" THEN 8 ELSE 5
Priority(e) == IF e.type = "heartbeat" THEN 5 ELSE 8

\* The order in which ROSS hands out events; the rest of its tie-breaker is arbitrary.
Before(e, f) ==
    \/ e.time < f.time
    \/ e.time = f.time /\ Priority(e) < Priority(f)

\* tw_event_new returns the abort event for anything due at the end of the run or later.
Sent(events) == {e \in events : e.time < End}

-----------------------------------------------------------------------------
\* delay_double: a spike arrives in the middle of a beat of its target.
delay_double_WholeBeats(delay) == delay * Beat
delay_double_FromLastBeat(delay) == (2 * (delay - 1) - 1) * (Beat \div 2)
delay_double(delay) == (2 * delay - 1) * (Beat \div 2)

\* Needy mode: the neuron's next heartbeat, sent by its previous one.
send_heartbeat_Late(n, now) == heartbeat(n, now + 2 * Beat, Id(n, now, 0))
send_heartbeat(n, now) == heartbeat(n, now + Beat, Id(n, now, 0))

send_spike(n, now) ==
    {spike(Synapses[n][i].to, now + delay_double(Synapses[n][i].delay),
           Synapses[n][i].weight, Id(n, now, i)) : i \in DOMAIN Synapses[n]}

\* The array of a neuron's input spikes is read up to the first zero intensity.
send_spike_from_StorableSpike(n, array) ==
    {spike(n, array[i].time, array[i].intensity, Id(n, 0, i)) :
        i \in {j \in DOMAIN array : \A k \in 1 .. j : array[k].intensity # 0}}

initialize_NeuronLP(n) ==
    [neuron |-> InitialNeuron[n], last_heartbeat |-> 0, next_heartbeat_sent |-> FALSE]

\* Events scheduled by driver_neuron_init and, in needy mode, driver_neuron_pre_run_needy.
driver_neuron_init(n, array) ==
    send_spike_from_StorableSpike(n, array)
        \cup (IF SpikeDriven THEN {} ELSE {send_heartbeat(n, 0)})

-----------------------------------------------------------------------------
leak_and_fire(neuron) == neuron_fire(neuron_leak(neuron))

event_needy(lp, e) ==
    IF e.type = "heartbeat"
    THEN LET out == leak_and_fire(lp.neuron)
         IN  [lp    |-> [lp EXCEPT !.neuron = out.neuron],
              fired |-> out.fired,
              sent  |-> {send_heartbeat(e.dest, e.time)}
                          \cup (IF out.fired THEN send_spike(e.dest, e.time) ELSE {})]
    ELSE [lp    |-> [lp EXCEPT !.neuron = neuron_integrate(@, e.current)],
          fired |-> FALSE,
          sent  |-> {}]

event_reverse_needy(lp, saved) ==
    [lp EXCEPT !.neuron = reverse_store_neuron(@, saved.reserved_for_reverse)]

find_prev_heartbeat_time(now) == (now \div Beat) * Beat

\* A neuron that has no heartbeat pending is behind by whole beats of bare leak.
IsBehind(lp, now) ==
    /\ ~ lp.next_heartbeat_sent
    /\ lp.last_heartbeat < find_prev_heartbeat_time(now)

BeatsBehind(lp, now) == (find_prev_heartbeat_time(now) - lp.last_heartbeat) \div Beat

UpToDate_OneBeat(lp, now) ==
    IF IsBehind(lp, now)
    THEN [lp EXCEPT !.neuron         = neuron_leak_bigdt(@, 1),
                    !.last_heartbeat = find_prev_heartbeat_time(now)]
    ELSE lp
UpToDate(lp, now) ==
    IF IsBehind(lp, now)
    THEN [lp EXCEPT !.neuron         = neuron_leak_bigdt(@, BeatsBehind(lp, now)),
                    !.last_heartbeat = find_prev_heartbeat_time(now)]
    ELSE lp

\* The first spike since a heartbeat asks for the next one, at the next beat.
AskHeartbeat_FromLast(lp, e) ==
    IF lp.next_heartbeat_sent THEN {} ELSE {heartbeat(e.dest, lp.last_heartbeat + Beat, e.id)}
AskHeartbeat_Always(lp, e) ==
    {heartbeat(e.dest, find_prev_heartbeat_time(e.time) + Beat, e.id)}
AskHeartbeat(lp, e) ==
    IF lp.next_heartbeat_sent THEN {}
    ELSE {heartbeat(e.dest, find_prev_heartbeat_time(e.time) + Beat, e.id)}

AfterBeat_StillSent(neuron, now) ==
    [neuron |-> neuron, last_heartbeat |-> now, next_heartbeat_sent |-> TRUE]
AfterBeat(neuron, now) ==
    [neuron |-> neuron, last_heartbeat |-> now, next_heartbeat_sent |-> FALSE]

event_spike_driven(lp, e) ==
    IF e.type = "heartbeat"
    THEN LET out == leak_and_fire(lp.neuron)
         IN  [lp    |-> AfterBeat(out.neuron, e.time),
              fired |-> out.fired,
              sent  |-> IF out.fired THEN send_spike(e.dest, e.time) ELSE {}]
    ELSE [lp    |-> [UpToDate(lp, e.time) EXCEPT
                        !.neuron = neuron_integrate(@, e.current),
                        !.next_heartbeat_sent = TRUE],
          fired |-> FALSE,
          sent  |-> AskHeartbeat(lp, e)]

event_reverse_spike_driven_KeepsFlag(lp, saved) ==
    [lp EXCEPT !.neuron         = reverse_store_neuron(@, saved.reserved_for_reverse),
               !.last_heartbeat = saved.prev_heartbeat]
event_reverse_spike_driven(lp, saved) ==
    [neuron              |-> reverse_store_neuron(lp.neuron, saved.reserved_for_reverse),
     last_heartbeat      |-> saved.prev_heartbeat,
     next_heartbeat_sent |-> saved.c0]

-----------------------------------------------------------------------------
(* The LP type main() selects: its forward and its reverse handler, and     *)
(* what the forward handler leaves in the message for the reverse one.      *)

Handle(lp, e) == IF SpikeDriven THEN event_spike_driven(lp, e) ELSE event_needy(lp, e)

Unhandle(lp, saved) ==
    IF SpikeDriven THEN event_reverse_spike_driven(lp, saved)
                   ELSE event_reverse_needy(lp, saved)

Saved(lp) ==
    [reserved_for_reverse |-> store_neuron(lp.neuron),
     prev_heartbeat       |-> lp.last_heartbeat,
     c0                   |-> lp.next_heartbeat_sent]

\* The handler only ever sets msg->fired: a message handled again keeps an old TRUE
\* unless the reverse handler, which is the one to clear it, came in between.
Handled(lp, e) == [e EXCEPT !.fired = @ \/ Handle(lp, e).fired]

Unhandled_StaysFired(e) == e
Unhandled(e) == [e EXCEPT !.fired = IF e.type = "heartbeat" THEN FALSE ELSE @]

\* What the probes write down when an event is committed: for a heartbeat, whether the
\* neuron fired and the state it had before, which they read in the message because the
\* neuron may be further on by then.
driver_neuron_event_commit_ReadsLP(lp, e, saved) ==
    IF e.type = "heartbeat"
    THEN {[neuron |-> e.dest, time |-> e.time, fired |-> e.fired,
           state |-> store_neuron(lp.neuron)]}
    ELSE {}
driver_neuron_event_commit(lp, e, saved) ==
    IF e.type = "heartbeat"
    THEN {[neuron |-> e.dest, time |-> e.time, fired |-> e.fired,
           state |-> saved.reserved_for_reverse]}
    ELSE {}
-----------------------------------------------------------------------------
(* What the driver asks of a neuron model (neuron.h:172-182).               *)

\* S holds the states that a neuron starts in and stays in, whatever the driver calls.
StateSpace(S) ==
    /\ \A n \in Neurons : InitialNeuron[n] \in S
    /\ \A x \in S :
          /\ leak_and_fire(x).neuron \in S
          /\ \A current \in Int : neuron_integrate(x, current) \in S
          /\ SpikeDriven => \A beats \in Nat : neuron_leak_bigdt(x, beats) \in S

\* From whatever the forward handler makes of a neuron, the stored state brings back the
\* one it was stored from.
RestoredFromStore(neuron) ==
    LET back(changed) == reverse_store_neuron(changed, store_neuron(neuron))
    IN  /\ back(leak_and_fire(neuron).neuron) = neuron
        /\ \A current : back(neuron_integrate(neuron, current)) = neuron
        /\ SpikeDriven => \A beats, current :
              back(neuron_integrate(neuron_leak_bigdt(neuron, beats), current)) = neuron

NeuronModel(S) == StateSpace(S) /\ \A x \in S : RestoredFromStore(x)

\* A neuron nothing reaches: a leak over a gap is as many beats at which it does not fire.
\* Doubles only come close to it (lif.c:5-25: a beat is an Euler step, a gap an exponential).
Quiet(x) ==
    /\ neuron_leak_bigdt(x, 0) = x
    /\ \A j \in Nat :
          LET beat == leak_and_fire(neuron_leak_bigdt(x, j))
          IN  ~ beat.fired /\ beat.neuron = neuron_leak_bigdt(x, j + 1)
=============================================================================
