-------------------------------- MODULE Probes --------------------------------
(***************************************************************************)
(* The probes of src/probes: what a commit handler hands over is written   *)
(* into a buffer of fixed size (firings, voltages) or counted (stats), and *)
(* saved to a file once the run is over.  They are fed by the commits of   *)
(* SequentialRun.                                                          *)
(***************************************************************************)
EXTENDS SequentialRun, SequencesExt, FiniteSetsExt

CONSTANTS
    firing_buffer_size, voltage_buffer_size,    \* --probe-firing-buffer, --probe-voltage-buffer
    only_output_neurons                         \* --probe-firing-output-only

ASSUME ProbesAssumption ==
    /\ firing_buffer_size \in Nat /\ voltage_buffer_size \in Nat
    /\ only_output_neurons \in BOOLEAN

VARIABLES
    firing_spikes, voltages,    \* buffers: their entries, and whether any was turned away
    stats,                      \* struct NeuronLPStats of each neuron
    loaded                      \* ghost: the input spikes that the run started with

probes == <<firing_spikes, voltages, stats, loaded>>
probedVars == <<vars, probes>>

EmptyBuffer == [entries |-> <<>>, limit_hit |-> FALSE]

ProbedInit ==
    /\ Init
    /\ firing_spikes = EmptyBuffer
    /\ voltages = EmptyBuffer
    /\ stats = [n \in Neurons |-> [leaks |-> 0, integrations |-> 0, fires |-> 0]]
    /\ loaded = {e \in pending : e.type = "spike"}

Recorded_KeepsLatest(buffer, size, entry) ==
    IF Len(buffer.entries) < size
    THEN [buffer EXCEPT !.entries = Append(@, entry)]
    ELSE [entries |-> SubSeq(Append(buffer.entries, entry), 2, size + 1), limit_hit |-> TRUE]
Recorded_Silently(buffer, size, entry) ==
    IF Len(buffer.entries) < size
    THEN [buffer EXCEPT !.entries = Append(@, entry)]
    ELSE buffer
Recorded(buffer, size, entry) ==
    IF Len(buffer.entries) < size
    THEN [buffer EXCEPT !.entries = Append(@, entry)]
    ELSE [buffer EXCEPT !.limit_hit = TRUE]

Recordable(n) == only_output_neurons => Synapses[n] = <<>>

probes_firing_record(e) ==
    firing_spikes' = IF e.type = "heartbeat" /\ e.fired /\ Recordable(e.dest)
                     THEN Recorded(firing_spikes, firing_buffer_size,
                                   [neuron |-> e.dest, time |-> e.time])
                     ELSE firing_spikes

\* The voltage is the one the handler left in the message, from before the heartbeat.
probes_lif_voltages_record(e, saved) ==
    voltages' = IF e.type = "heartbeat"
                THEN Recorded(voltages, voltage_buffer_size,
                              [neuron |-> e.dest, time |-> e.time,
                               voltage |-> saved.reserved_for_reverse.potential])
                ELSE voltages

One(condition) == IF condition THEN 1 ELSE 0

probes_stats_record_FallsThrough(e) ==
    stats' = [stats EXCEPT ![e.dest] =
                [leaks        |-> @.leaks + One(e.type = "heartbeat"),
                 fires        |-> @.fires + One(e.type = "heartbeat" /\ e.fired),
                 integrations |-> @.integrations + 1]]
probes_stats_record(e) ==
    stats' = [stats EXCEPT ![e.dest] =
                [leaks        |-> @.leaks + One(e.type = "heartbeat"),
                 fires        |-> @.fires + One(e.type = "heartbeat" /\ e.fired),
                 integrations |-> @.integrations + One(e.type = "spike")]]

ProbedProcess(e) ==
    /\ Process(e)
    /\ probes_firing_record(Handled(lps[e.dest], e))
    /\ probes_lif_voltages_record(e, Saved(lps[e.dest]))
    /\ probes_stats_record(Handled(lps[e.dest], e))
    /\ UNCHANGED loaded

ProbedNext ==
    \/ \E e \in pending : ProbedProcess(e)
    \/ (Tick \/ Finished) /\ UNCHANGED probes

ProbedSpec == ProbedInit /\ [][ProbedNext]_probedVars /\ WF_probedVars(ProbedNext)

-----------------------------------------------------------------------------
\* What is in a buffer when the records to be written into it were `all`.
KeepsFirst(buffer, size, all, Entry(_)) ==
    LET kept == ToSet(buffer.entries)
    IN  /\ \A i, j \in DOMAIN buffer.entries :
              i < j => /\ buffer.entries[i].time <= buffer.entries[j].time
                       /\ buffer.entries[i] # buffer.entries[j]
        /\ kept \subseteq {Entry(r) : r \in all}
        /\ \A r \in all : Entry(r) \notin kept => \A k \in kept : k.time <= r.time
        /\ Cardinality(kept) = Min({size, Cardinality(all)})
        /\ buffer.limit_hit <=> Cardinality(all) > size

\* firing.c:57-59, voltage.c:60-62. "Only the first N have been recorded": what is saved is
\* the first N records of the run in the order of time, one each, and the user is told
\* exactly if there were more.
FirstRecorded ==
    /\ KeepsFirst(firing_spikes, firing_buffer_size,
                  {r \in trace : r.fired /\ Recordable(r.neuron)},
                  LAMBDA r : [neuron |-> r.neuron, time |-> r.time])
    /\ KeepsFirst(voltages, voltage_buffer_size, trace,
                  LAMBDA r : [neuron |-> r.neuron, time |-> r.time, voltage |-> r.state.potential])

\* The spikes that a firing sends to n and that are due within the run.
SentTo(n, r) ==
    {i \in DOMAIN Synapses[r.neuron] :
        /\ Synapses[r.neuron][i].to = n
        /\ r.time + delay_double(Synapses[r.neuron][i].delay) < End}

\* stats.c:36-48, neuron.c:80-87. No spike is lost and none counted twice: those a neuron
\* has integrated and those on their way to it are the input spikes and the firings of
\* its sources. And the counts show what the modes are for: needy mode leaks at every
\* beat, spike-driven mode never more often than there were spikes to ask for it.
SpikesConserved ==
    \A n \in Neurons :
        /\ stats[n].integrations + Cardinality({e \in pending : e.type = "spike" /\ e.dest = n})
             = Cardinality({e \in loaded : e.dest = n})
                 + MapThenSumSet(LAMBDA r : Cardinality(SentTo(n, r)), {r \in trace : r.fired})
        /\ stats[n].fires = Cardinality({r \in trace : r.neuron = n /\ r.fired})
        /\ IF SpikeDriven
           THEN stats[n].leaks + Cardinality(Heartbeats(n)) <= stats[n].integrations
           ELSE stats[n].leaks = BeatsTaken(n)
=============================================================================
