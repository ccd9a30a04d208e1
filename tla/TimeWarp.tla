------------------------------- MODULE TimeWarp -------------------------------
(***************************************************************************)
(* A run of doryta under the optimistic scheduler of ROSS (--synch=3).     *)
(* Each PE hands the events of its own LPs to the driver as they come.     *)
(* When an event arrives late, or an event already handled is cancelled,   *)
(* the PE rolls back: the reverse handler is called on what it has handled *)
(* since, last first, and the events those sent are cancelled in turn.     *)
(* The commit handler is called on what can no longer be rolled back.      *)
(*                                                                         *)
(* ROSS is not part of this repository.  It is modelled from what the      *)
(* driver relies on: messages from one PE to another arrive in order, a    *)
(* rollback is one step of its PE, and global virtual time (GVT) is no     *)
(* later than anything unhandled or in transit.                            *)
(***************************************************************************)
EXTENDS NeuronDriver, SequencesExt, FiniteSetsExt

CONSTANTS
    PEs,        \* processing elements, each with a queue and a rollback history of its own
    PEOf        \* the PE of each neuron

ASSUME PEAssumption == PEOf \in [Neurons -> PEs]

VARIABLES
    lps,        \* struct NeuronLP of each LP, as of the last event handled
    pending,    \* per PE, the queue of events to handle
    processed,  \* per PE, the events handled and not committed, oldest first
    channel,    \* per pair of PEs, the messages in transit
    horizon,    \* how far the commits have come
    due,        \* ghost: the queue a sequential run would hold at the horizon
    trace       \* what the probes have written down of the committed heartbeats

vars == <<lps, pending, processed, channel, horizon, due, trace>>

Local(p, events) == {e \in events : PEOf[e.dest] = p}

Init ==
    /\ lps = [n \in Neurons |-> initialize_NeuronLP(n)]
    /\ \E input \in SpikeInputs :
          due = Sent(UNION {driver_neuron_init(n, input[n]) : n \in Neurons})
    /\ pending = [p \in PEs |-> Local(p, due)]
    /\ processed = [p \in PEs |-> <<>>]
    /\ channel = [pair \in PEs \X PEs |-> <<>>]
    /\ horizon = 0
    /\ trace = {}

Message(e, anti) == [event |-> e, anti |-> anti]

\* channels c after p sends every PE its share of the events, or the cancellation of it.
Posted(c, p, events, anti) ==
    [pair \in PEs \X PEs |->
        IF pair[1] # p \/ pair[2] = p THEN c[pair]
        ELSE LET seq == SetToSeq(Local(pair[2], events))
             IN  c[pair] \o [i \in DOMAIN seq |-> Message(seq[i], anti)]]

\* The event of a record as it was sent, whatever has been noted in it since.
AsSent(e) == [e EXCEPT !.fired = FALSE]

-----------------------------------------------------------------------------
(* Forward.                                                                 *)

Process(p) ==
    \E e \in pending[p] :
        LET lp   == lps[e.dest]
            out  == Handle(lp, e)
            sent == Sent(out.sent)
        IN  /\ \A f \in pending[p] : ~ Before(f, e)
            /\ lps' = [lps EXCEPT ![e.dest] = out.lp]
            /\ pending' = [pending EXCEPT ![p] = (@ \ {e}) \cup Local(p, sent)]
            /\ channel' = Posted(channel, p, sent, FALSE)
            /\ processed' = [processed EXCEPT ![p] =
                    Append(@, [event |-> Handled(lp, e), saved |-> Saved(lp),
                               before |-> lp, sent |-> sent])]
            /\ UNCHANGED <<horizon, due, trace>>

-----------------------------------------------------------------------------
(* Backward.                                                                *)

\* One event undone: state, queue and events to cancel, as left by the ones after it.
Undo_KeepsSent(r, st) ==
    [lps    |-> [st.lps EXCEPT ![r.event.dest] = Unhandle(@, r.saved)],
     queue  |-> st.queue \cup {Unhandled(r.event)},
     cancel |-> st.cancel]
Undo(r, st) ==
    [lps    |-> [st.lps EXCEPT ![r.event.dest] = Unhandle(@, r.saved)],
     queue  |-> {f \in st.queue : AsSent(f) \notin r.sent} \cup {Unhandled(r.event)},
     cancel |-> st.cancel \cup r.sent]

\* p's state with the records from the i-th on undone, last first.
RolledBack(p, i, queue) ==
    FoldRight(Undo, SubSeq(processed[p], i, Len(processed[p])),
              [lps |-> lps, queue |-> queue, cancel |-> {}])

\* p takes a message off its channel from q and is left with st and the first i - 1 of
\* its records.
RollBack(q, p, i, st) ==
    /\ lps' = st.lps
    /\ pending' = [pending EXCEPT ![p] = st.queue]
    /\ processed' = [processed EXCEPT ![p] = SubSeq(@, 1, i - 1)]
    /\ channel' = Posted([channel EXCEPT ![<<q, p>>] = Tail(@)], p, st.cancel, TRUE)
    /\ UNCHANGED <<horizon, due, trace>>

FirstAfter(p, e) ==
    LET late == {i \in DOMAIN processed[p] : Before(e, processed[p][i].event)}
    IN  IF late = {} THEN Len(processed[p]) + 1 ELSE Min(late)

\* An event joins the queue; if it is a straggler, all that should come after it is undone.
ReceiveEvent(q, p) ==
    /\ channel[<<q, p>>] # <<>> /\ ~ Head(channel[<<q, p>>]).anti
    /\ LET e == Head(channel[<<q, p>>]).event
           i == FirstAfter(p, e)
       IN  RollBack(q, p, i, RolledBack(p, i, pending[p] \cup {e}))

Position(p, e) == {i \in DOMAIN processed[p] : AsSent(processed[p][i].event) = e}

\* A cancelled event leaves the queue, after the rollback to it if it had been handled.
ReceiveAnti(q, p) ==
    /\ channel[<<q, p>>] # <<>> /\ Head(channel[<<q, p>>]).anti
    /\ LET e  == Head(channel[<<q, p>>]).event
           i  == IF Position(p, e) = {} THEN Len(processed[p]) + 1 ELSE Min(Position(p, e))
           st == RolledBack(p, i, pending[p])
       IN  RollBack(q, p, i, [st EXCEPT !.queue = {f \in @ : AsSent(f) # e}])

-----------------------------------------------------------------------------
(* Commit.                                                                  *)

InTransit == UNION {{m.event : m \in ToSet(channel[pair])} : pair \in PEs \X PEs}

Unsettled == InTransit \cup UNION {pending[p] : p \in PEs}
HandledBy(p) == {r.event : r \in ToSet(processed[p])}

\* GVT is past the oldest record of p. The commits of different PEs touch nothing in
\* common; they are taken here in the order of their events.
Commit(p) ==
    /\ processed[p] # <<>>
    /\ LET r == Head(processed[p])
           e == r.event
       IN  /\ e.time = horizon
           /\ \A f \in Unsettled : f.time > e.time
           /\ \A q \in PEs : \A f \in HandledBy(q) : ~ Before(f, e)
           /\ processed' = [processed EXCEPT ![p] = Tail(@)]
           /\ due' = (due \ {AsSent(e)}) \cup r.sent
           /\ trace' = trace \cup driver_neuron_event_commit(lps[e.dest], e, r.saved)
           /\ UNCHANGED <<lps, pending, channel, horizon>>

AdvanceHorizon ==
    /\ horizon + 1 < End
    /\ \A f \in Unsettled \cup UNION {HandledBy(q) : q \in PEs} : f.time > horizon
    /\ horizon' = horizon + 1
    /\ UNCHANGED <<lps, pending, processed, channel, due, trace>>

Settled == Unsettled \cup UNION {HandledBy(q) : q \in PEs} = {}

\* tw_run returns on every PE.
Finished == Settled /\ horizon + 1 >= End /\ UNCHANGED vars

Next ==
    \/ \E p \in PEs : Process(p) \/ Commit(p)
    \/ \E p, q \in PEs : ReceiveEvent(q, p) \/ ReceiveAnti(q, p)
    \/ AdvanceHorizon
    \/ Finished

\* Every PE runs the loop of the scheduler, which polls the network, handles an event
\* and takes part in the computation of GVT again and again.
Fairness ==
    /\ \A p \in PEs : WF_vars(Process(p)) /\ WF_vars(Commit(p))
    /\ \A p, q \in PEs : WF_vars(ReceiveEvent(q, p)) /\ WF_vars(ReceiveAnti(q, p))
    /\ WF_vars(AdvanceHorizon)

Spec == Init /\ [][Next]_vars /\ Fairness

-----------------------------------------------------------------------------
\* The state a sequential run would have the LP in at the horizon.
CommittedLP(n) ==
    LET h == processed[PEOf[n]]
        own == {i \in DOMAIN h : h[i].event.dest = n}
    IN  IF own = {} THEN lps[n] ELSE h[Min(own)].before

\* Every event that exists is handled in the future of the horizon, by the PE of its
\* LP, and the history of a PE is in the order its events should be handled in.
TypeOK ==
    /\ horizon \in 0 .. End - 1
    /\ \A f \in InTransit : f.time \in horizon .. End - 1
    /\ \A p \in PEs :
          /\ \A f \in pending[p] \cup HandledBy(p) :
                PEOf[f.dest] = p /\ f.time \in horizon .. End - 1
          /\ \A i, j \in DOMAIN processed[p] :
                i < j => ~ Before(processed[p][j].event, processed[p][i].event)

\* neuron.c:206-218, 290-303. At any moment, undoing everything that is not committed
\* brings every LP back to exactly its committed state, and every message to what it
\* was when it was sent.
UndoRestores ==
    \A p \in PEs :
        LET st == RolledBack(p, 1, pending[p])
        IN  /\ \A n \in Neurons : PEOf[n] = p => st.lps[n] = CommittedLP(n)
            /\ \A f \in st.queue : f = AsSent(f)

\* neuron.c:306-308. A cancellation finds the event it is about waiting or handled, never
\* committed; and no event is both waiting and handled.
CancelsInTime ==
    \A p, q \in PEs :
        /\ channel[<<q, p>>] # <<>> =>
              LET m == Head(channel[<<q, p>>])
                  there == {AsSent(f) : f \in pending[p] \cup HandledBy(p)}
              IN  m.anti <=> m.event \in there
        /\ \A f \in pending[p] : Position(p, AsSent(f)) = {}

\* neuron.c:309-320, 45-51 of firing.c. The committed states, and all the probes write
\* down, are those of a sequential run: neither the speculation nor the rollbacks show.
Sequential == INSTANCE SequentialRun WITH
    lps     <- [n \in Neurons |-> CommittedLP(n)],
    pending <- due,
    now     <- horizon,
    trace   <- trace

ImplementsSequential == Sequential!Init /\ [][Sequential!Next]_Sequential!vars

\* Whatever the PEs speculate and undo, every event is committed in the end.
RunCompletes == <>[](Settled /\ horizon = End - 1)
=============================================================================
