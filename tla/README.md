# Doryta in TLA+

Doryta simulates spiking neural networks on top of ROSS, a library for parallel
discrete event simulation. A neuron is an LP (logical process) of ROSS; spikes and
heartbeats are events. These modules specify how neurons are driven by their events,
why a parallel run is a sequential one, what both modes of execution promise,
where the layout puts neurons and synapses, how models and spikes are loaded, what the
probes record, and how `main` takes all PEs through it. Paths are relative to the repository; line
numbers in the modules' comments refer to the file of the same name under `src/`.

## The system

| component | state | operations | who it deals with |
|---|---|---|---|
| neuron driver, `src/driver/neuron.c` | per LP `struct NeuronLP`: the neuron, `last_heartbeat`, `next_heartbeat_sent`, its synapses | init and pre-run; event, reverse, commit and final handlers, for needy and spike-driven mode | ROSS calls it; it calls the neuron model, schedules events, and calls the probes |
| messages, `src/message.h`, `src/storable_spikes.h` | type, `spike_current`, `fired`, `reserved_for_reverse`, `prev_heartbeat` | initialisation, validity | carried by ROSS's events from driver to driver |
| LIF neuron, `src/neurons/lif.c` (and `lif_beta.c`) | potential and current | leak, big leak, integrate, fire, store and restore | function pointers of `struct SettingsNeuronLP` |
| layout, `src/layout/master.c`, `standard_layouts.c` | neuron groups, synapse groups, memory for neurons and synapses | define groups, connect ranges (all to all, convolution), initialise, convert ids, map LPs | called by model loaders and `main`; ROSS calls the mapping |
| model loaders, `src/model-loaders/` | neurons' parameters, weights, input spikes | five neurons, Game of Life, files, spikes from a file or at random | call the layout; hand arrays to the driver |
| probes, `src/probes/` | buffers per PE | record at commit, save at the end | called by the driver's commit and final handlers |
| main, `src/doryta.main.c` | options | choose model, spikes, probes and handlers; run; save | all of them |
| ROSS (external) | queues, processed lists, GVT | sequential, conservative and optimistic schedulers | calls the driver |

What is hard: under the optimistic scheduler PEs (MPI processes) run ahead of each
other, and events are undone by reverse handlers, cancelled by anti-messages and
committed long after they were handled. In spike-driven mode a neuron has no heartbeat
until a spike asks for one, and makes up for the beats it missed with one leak, so that
its bookkeeping has to survive any order of spikes, heartbeats and rollbacks. In the
layout, four formulas for where a neuron lives, memory counted before it is filled, and
a convolution walked backwards from its input have to agree at every edge. A model file
is read in one pass per PE, and which of its groups a weight belongs to is inferred from
the target of the synapse. `main` runs on every PE, and a folder made by one of them, a
copy of the settings and an error on any one tie the PEs together.

What makes each part correct:

* driver: heartbeats come exactly at the beats a neuron needs (`HeartbeatProtocol`,
  `HeartbeatComes`), the handlers' assertions hold (`HandlerAsserts`), nothing is
  scheduled at its own instant or, if it is a fired spike, at a beat (`ScheduledAhead`),
  both modes compute the clocked network (`ImplementsNetwork`), runs end
  (`RunCompletes`);
* driver under rollback: undoing restores (`UndoRestores`), cancellations find their
  events (`CancelsInTime`), what is committed and recorded is what a sequential run
  commits and records (`ImplementsSequential`);
* layout: conversions agree with each other, with the memory and with ROSS's LPs
  (`IdMapsAgree`, `LocalOrder`), memory suffices (`SynapsesFit`), connections are the
  ones asked for, in the order weights are read in (`SynapsesAsMeant`);
* spike loader: every neuron's input reaches it and nobody else, in the memory each PE
  asked for beforehand (`SpikesReachOwners`, `RoomSuffices`);
* model loader: parameters and weights end where the file has them (`WeightsAsStored`),
  its assertions hold (`LoaderAsserts`), and a complete file is loaded
  (`LoadsCompleteFiles`);
* probes: a buffer keeps the first records and says when there were more
  (`FirstRecorded`), and the statistics add up over the network (`SpikesConserved`);
* `main`: a PE that ends has written what it should and holds nothing but the two things
  the code never releases (`CleanEnd`), the driver
  runs only when everything it uses is there (`RunsPrepared`), and no PE waits for ever
  (`EveryPEEnds`);
* Game of Life model: it plays the Game of Life (`ImplementsLife`).

## Modules

| module | models | extends |
|---|---|---|
| `LifNeuron`, `LifBetaNeuron` | `neurons/lif.c`, `neurons/lif_beta.c` | |
| `NeuronDriver` | the handlers of `driver/neuron.c` as operators from (LP, event) to what they leave: new LP, `fired`, events sent, what is saved in the message | |
| `SpikingNetwork` | abstract: a network whose neurons all advance a beat at a time; no clock, no heartbeats, no missed beats | `NeuronDriver` |
| `SequentialRun` | the driver under ROSS's sequential scheduler | `NeuronDriver` |
| `TimeWarp` | the driver under ROSS's optimistic scheduler: PEs, channels, rollback, anti-messages, commit | `NeuronDriver` |
| `Probes` | `probes/`: the three probes, fed by the commits of a run | `SequentialRun` |
| `SynapseIterator` | the synapse groups and the iterator over a neuron's targets | |
| `LayoutMaps` | neuron groups over PEs and the id conversions | |
| `Layout` | the calls of the layout, from definition to `layout_master_free` | `LayoutMaps`, `SynapseIterator` |
| `SpikeLoader` | both formats of `load_spikes.c`, and `random_spikes.c` | `LayoutMaps` |
| `ModelLoader` | both versions of `load_neurons.c`, on top of the actions of `Layout` (`INSTANCE`) | `LayoutMaps`, `SynapseIterator` |
| `Main` | `doryta.main.c` on every PE, from the arguments to `tw_end` | |
| `Life` | abstract: Conway's rule | |
| `GameOfLife` | the network of `gameoflife.c`, run by `SpikingNetwork` | `SpikingNetwork`, `SynapseIterator`, `LifNeuron` |
| `NeuronDriverProofs` | what the handlers leave and send, undoing them, arithmetic of beats, induction; both neuron models are what the driver asks of one | `NeuronDriver`, `LifNeuron`, `LifBetaNeuron` |
| `SequentialRunProofs` | invariants of a sequential run, that it is a run of the clocked network, and invariants of the probes and their buffers | `Probes`, `NeuronDriverProofs` |
| `TimeWarpProofs` | invariants of an optimistic run, and that what it commits is a sequential run | `TimeWarp`, `NeuronDriverProofs` |
| `MainProofs` | invariants of `main` | `Main` |
| `LayoutProofs` | where the neurons of a group, and of a list of groups, live; what the iterator over a neuron's targets returns | `LayoutMaps`, `SynapseIterator` |
| `LayoutRunProofs` | invariants of the calls of the layout | `Layout`, `LayoutProofs` |
| `SpikeLoaderProofs` | that input spikes have room and reach their neurons | `SpikeLoader`, `LayoutProofs` |
| `GameOfLifeProofs` | that the built-in model plays the Game of Life | `GameOfLife`, `LayoutProofs` |
| `MC...` | inputs for TLC; `MCTimeWarpNetwork` is shared by `MCTimeWarp` (LIF) and `MCTimeWarpBeta` (LIF-beta) | |

Refinements, each a `PROPERTY` of a run:

    TimeWarp    --ImplementsSequential-->  SequentialRun  --ImplementsNetwork-->  SpikingNetwork
    GameOfLife  (runs on SpikingNetwork)   --ImplementsLife-->  Life

So the Game of Life result, which is about the clocked network, is about runs of doryta in
either mode by the first two arrows: all three are checked on small instances and proved
for every one, the second without its fairness (Proofs). The third is checked for one order
of the network's steps and proved for all of them, the ones a run can map to included.

**Driver.** `lps[n]` is `struct NeuronLP` without its constant fields; `Handle`,
`Unhandle` and `driver_neuron_event_commit` stand for the handlers `main` puts in the
table of LP types. `SpikeDriven` chooses the mode. The neuron model enters as operator
constants, as it enters the driver as function pointers; the runs use LIF. A message
carries an `id`, the identity an event has in ROSS, because two spikes of the same
content are two events. `fired` is part of the event and survives rollbacks, as in the
code; `Saved` is what the forward handler leaves for the reverse one. Time is in ticks
and a beat has an even number of them, so that half a beat, which `delay_double`
subtracts, is whole. `Sent` drops events at or after the end of the run, as ROSS does.
Of two events of one instant the heartbeat goes first (priorities 0.5 and 0.8); what
remains of the order is left open, ROSS's further tie-breaking being none of the
driver's business.

**Sequential run.** `Process(e)` is a whole turn of the scheduler: event handler, then
commit handler. `Tick` advances the clock when nothing is left at its instant.

**Time warp.** `Process(p)` handles the next event of PE `p`, before it is known whether
an earlier one is on its way. `ReceiveEvent` takes an event off a channel and, when it is
a straggler, undoes everything that comes after it; `ReceiveAnti` takes a cancellation.
A rollback is one step of its PE, as in ROSS. `Commit` handles the oldest event of a PE
once nothing unhandled or in transit is at its time or before. There is one rollback
history per PE (one KP); with more KPs less would be undone. The variable `due` is
auxiliary: the queue of the sequential run whose state the committed state is.

**Layout.** All PEs make the same calls, and the module has the variables all of them
share once and the others (`total_synapses`, `synapses`, `lps`) per PE. `tw_error` ends
the program. `synapses[pe][i]` is what `master_init_neurons` writes for the i-th neuron
of `pe`; the weight is left as the parameter the iterator gives, which loaders use to
find the weight. `layout_master_init` takes at least one group, as all loaders define
one. Neuron groups are not empty, which the loaders ensure.

**Spike loader.** Every PE goes over the whole file; an action is one iteration of its
loop. `naked_spikes[pe]` is the memory, all of it zero at first as `calloc` leaves it, and
`spikes[pe][local_id]` the index in it that stands for a pointer. A write beyond the room
would extend the function's domain, which `RoomSuffices` excludes. `Found` reads an array
as `driver_neuron_init` does, up to the first zero. A file has one entry per neuron.

**Model loader.** What follows the header of a file is a sequence of numbers; the seven
parameters of a neuron are one of them, and a weight another, so that a wrong jump over a
record lands on a wrong number as it does in the file. `reader` holds the locals of the
loop over neurons; an action reads a neuron with all its weights (version 1), a neuron's
parameters and first range, a whole group of weights, or one weight of a convolution
(version 2). Until a weight is written, the field has the place in the kernel that the
layout's iterator left there, as in the code. `Unambiguous` says which files are clear: the
loader cannot tell two convolutions between the same neurons apart, nor a target of a
convolution from the first target of a later group of the same neuron. The properties
are about the others. Reading past the end of the file stops the program; seeking past it
does not; a jump whose length is missing from the file leads past its end. PEs share
nothing in the loader, so one PE is followed, any of them.

**Probes.** `ProbedProcess` is `Process` with the calls of `driver_neuron_event_commit`. A
buffer is the sequence of its entries and the flag. `loaded` is auxiliary: the input
spikes that were there at the start. Under ROSS's optimistic scheduler a PE commits its
KPs one after the other, so that with several of them the first records are the first in
the order of commits; `FirstRecorded` is about one PE in the sequential mode.

**Main.** Every PE runs through the stages of `main` (`at`), sharing the folder, the
collective operations it has `entered`, and the abort. `held` is what it has to give back,
memory and files, each until the code frees or closes it; `settings` is what
`driver_neuron_config` copied, `files` what is complete on disk. Two things the code never
gives back, and `CleanEnd` names them: the layout of the Game of Life, whose deinit is not
called, and the file of the spikes, which `model_load_spikes_init` opens
(`load_spikes.c:17`) and neither it nor `model_load_spikes_deinit` closes. `fault` is the
one thing that goes wrong in a run: a loader, a board of a size that the layout refuses (on
all PEs alike) or a placement without neurons stops the program; a file that cannot be
opened costs that file, or stops PE 0 if it is the file of the parameters. `tw_error`
aborts: the PE is gone at once, the others are taken down one by one at any point before
they have ended. What a PE does inside `tw_run` is the business of the other modules.

**Game of Life.** The layers and weights of `gameoflife.c` (in tenths), any board as
input spikes in the first beat, leak with `tau_m` equal to the beat as in the code.
Because currents add up, neither the order in which the spikes of a beat arrive matters nor
the order in which the neurons take the beat. `GoLNext` takes one, so that TLC has one to
follow: a spike at a time, then all neurons together; `LifeInAnyOrder` is the proof for all
steps of `SpikingNetwork`. `Shown` is the board as of the last beat that all neurons have
taken.

## Runs

| run | instance | shows |
|---|---|---|
| `spike_driven` | 4 LIF neurons with feedback, inhibition, a self-loop, delays 1 and 2, one without synapses; 150 inputs; beat of 2 ticks, end at 11; room for 3 firings and 5 voltages | `TypeOK`, `HeartbeatProtocol`, `HandlerAsserts`, `ScheduledAhead`, `HeartbeatComes`, `ImplementsNetwork`, `FirstRecorded`, `SpikesConserved` |
| `needy` | the same network, room for 1 firing (of neurons without synapses) and 2 voltages | `HeartbeatProtocol`, `RunCompletes`, `ImplementsNetwork`, `FirstRecorded`, `SpikesConserved` |
| `time_warp` | 3 neurons on 2 PEs, spike-driven, end at 9, 4 inputs | `TypeOK`, `UndoRestores`, `CancelsInTime`, `ImplementsSequential`, `RunCompletes` |
| `time_warp_needy` | the same network of LIF-beta neurons, needy, end at 8 | `UndoRestores`, `ImplementsSequential` |
| `layout` | 3 PEs, up to 3 groups of 1, 2 or 5 neurons on whole, partial, single and wrapped ranges of PEs, one all-to-all group, all orders of calls | `IdMapsAgree`, `LocalOrder`, `SynapsesFit` |
| `convolution` | 2 PEs, layers of 9, one or two groups, convolutions with five settings of kernel (1 to 3), stride (1, 2) and padding (0, 1) on each axis independently, and all-to-all | `SynapsesFit`, `SynapsesAsMeant` |
| `spike_loading` | 2 PEs, 12 layouts of 5 neurons in one or two groups, files of both formats with up to 3 neurons in any order and 0 to 2 spikes each, random spikes with three limits | `RoomSuffices`, `SpikesReachOwners` |
| `model_loading` | 2 PEs, 8 neurons, files of version 2 with up to three groups out of four full ones and three convolutions, files of version 1 with up to two; complete, short of one number and short of nine; bad headers | `WeightsAsStored`, `LoaderAsserts`, `LoadsCompleteFiles` |
| `main_program` | 1, 2 and 3 PEs, all choices of models, of spikes and of saved state, four of probes, at most one fault on any PE | `CleanEnd`, `RunsPrepared`, `EveryPEEnds` |
| `game_of_life` | all 512 boards of 3x3, five beats | `ImplementsLife` |
| `stride_over_kernel` | a 1x1 kernel with stride 2 | violates `KernelPositions` |
| `kernel_too_large` | a 3x3 kernel on one cell | violates `ShapesPositive` |

*Why the bounds are enough to be interesting.* The network of `spike_driven` has neurons
that fire again after feedback, that are silent for several beats and then catch up, one
that starts above rest and one reset below it (so that a gap's leak matters in both
directions), spikes at time 0, on a beat and mid-beat, a pending heartbeat beyond the
end, and an input array followed by other data. Five beats exceed the longest cycle of
the network. In the runs of `TimeWarp` neuron 1 fires ahead of an inhibition from the
other PE, so that the spike it sent is cancelled after the other PE handled it:
secondary rollbacks happen, and the `fired` flag goes from true to false between two
handlings of the same heartbeat. In `layout`, 5 neurons over 2 or 3 PEs leave remainders
of 1 and 2, 1 and 2 neurons leave PEs of the range empty, and three groups put a wrapped
one between two others. `convolution` has every residue of position by stride, edges on
all sides and rectangles, so that rows and columns cannot be confused. On 3x3 boards the
cells include corners, edges and an interior cell, and from all boards one generation
covers every neighbourhood. In `spike_loading` a PE may have fewer neurons than the file
names, the case the bound on its memory has a minimum for. On the board, five beats are
the first state and two generations. The groups of `model_loading` overlap as sources and
as targets, so that a neuron has full groups before, between and after convolutions; PE 1
skips the records of PE 0, also as the first thing it does; and no two weights of a file
are equal. In `main_program` three PEs are one more than the five-neuron example accepts,
and PE 0 may be the first or the last to come to the folder. The buffers of the probes
overflow in some runs and not in others.

*Deadlock* is checked in the runs of the driver, where `Finished` is the return of
`tw_run`. It is off in the layout's runs, where the set-up ends, in an error or freed,
in `spike_loading` and `model_loading`, where the loops end, and in `game_of_life`, which ends with its last
beat.

*Fairness.* `SequentialRun`: weak fairness of `Next`; the scheduler is a loop that hands
out an event as long as there is one. `TimeWarp`: weak fairness of every PE's steps; each
PE's loop polls the network, handles an event and joins in GVT again and again.
`Main`: weak fairness of every PE, a process of its own, which goes on unless it is in a
collective operation that not all have come to; an abort reaches every process.
`SpikingNetwork` promises weak fairness of its steps, which `ImplementsNetwork` shows of
the code's.

## Findings

* `stride_over_kernel`: a stride longer than the kernel makes `in_group_next_id` yield a
  connection for input cells under no kernel position, with a position outside of the
  kernel; `master.c:213-224` says the position is one of the kernel's. The check that
  would prevent it is commented out (`master.c:563-567`).
* `kernel_too_large`: a kernel larger than the padded input on both axes gives two
  negative sides whose product passes the size check (`master.c:592-603`), although
  `master.h:46-48` wants the sizes to match.

## Proofs

Everything below is proved for every value of the constants: any set of neurons, any
network, any length of a beat, any end and inputs, any number of PEs, any groups. Each
component declares what it assumes of its constants: `DriverAssumption` (the beat is a
positive even number of ticks, the end is positive), `WiringAssumption` (synapses lead to
neurons and have positive whole delays; inputs are sequences of a time and an intensity),
`PEAssumption` (every neuron is on a PE), `NodesAssumption` (there is a PE),
`LayoutAssumption` (sizes and PE numbers are natural numbers, the ends of a range and the
parameters of a convolution are integers, as the C types say, and there is a KP) and
`SpikesAssumption` (layouts are made of groups defined one after the other; a file names
neurons of the model, none twice, and in format 1 has one spike for each).

*The neuron model* enters the driver as function pointers, and the theorems as
hypotheses, stated in `NeuronDriver`: `StateSpace(S)`, the operations keep a neuron in the
states `S`; `RestoredFromStore`, what is stored before a change brings the neuron back
from it; both together `NeuronModel(S)`; and `Quiet`, a leak over a gap of `j` beats is `j`
beats at which the neuron does not fire. `NeuronDriverProofs` also shows that these are not empty,
for every value of the neurons' fields and of the constants of the arithmetic:

* `LifIsANeuronModel`, `LifBetaIsANeuronModel`: LIF with its threshold above its resting
  potential, in both modes, and LIF-beta, in needy mode, are neuron models;
* `LifKeepsNoCurrent`, `BeatLeavesResting`, `RestingIsQuiet`: after a beat a LIF neuron has no
  current left and, if it is reset to its threshold or below, is at rest; and a neuron at
  rest is `Quiet` if a step of the leak takes off what a beat of the decay does not keep
  (`DecayKeep = LeakDen - LeakNum`). Over doubles the two differ, which is the
  discrepancy between the modes that the repository's README names.

*Driver.* `SequentialRunProofs`, in both modes and for any neuron model:

* `Inductive`: `Spec => []IInv`;
* `TypeCorrect`: `Spec => []TypeOK`;
* `HeartbeatsFollowProtocol`: `Spec => []HeartbeatProtocol`;
* `SchedulesAhead`: `Spec => ScheduledAhead`;
* `HandlerAssertsHold`: `Spec => []HandlerAsserts`, for every neuron model that starts ready
  for the leak over a gap and is left so by every beat; its invariant adds to `IInv` that a
  neuron with no heartbeat pending is ready.

`HeartbeatProtocol` is not inductive. It counts beats, and nothing in it keeps a
heartbeat of the queue from being due between now and the last beat. `IInv` says it by
times: `BeatInv` holds that a heartbeat in the queue is due now, at a beat, or a beat
after the previous one, that there is one if it is awaited (or that it would be past the
end), and that `last_heartbeat` plus a beat is its time; `QueueInv` that nothing pending
is in the past; `LPInv` that an LP's last heartbeat is a past beat; `TraceInv` that what
was recorded was recorded at a beat. The proof has one lemma per action (`InitInv`,
`ProcessInv`, `TickInv`, `IdleInv`) over lemmas of what handlers leave and send
(`HandledLP`, `HandledSent`, `HandledHeartbeat`) and of beats (`PrevBeat`, `PrevTick`,
`NextMultiple`, `ArrivesMidBeat`); `NextBeatTime` leads from times back to counts.

*Refinement to the network.* The part of `ImplementsNetwork` without fairness,
`Spec => Network!Init /\ [][Network!Next]_(Network!vars)`: in needy mode for any neuron model
at all (`NeedyIsTheNetwork`), in spike-driven mode for those that are `Quiet` in the states
they start in and those a beat leaves (`SpikeDrivenIsTheNetwork`). Each turn of the
scheduler is a step of the network: a spike handled is a delivery (`SpikeIsDelivered`, by
`CellAfterSpike`: catching up first makes the same neuron as having taken every beat), a
heartbeat handled is a beat of its neuron (`HeartbeatIsABeat`), and a tick that reaches a
beat is the beat of all neurons that await no heartbeat (`TickIsQuietBeats`); any other
tick changes nothing. The proof uses `IInv`, above all that a heartbeat in the queue is
due now or at the next beat, and `QuietInv`: a neuron that awaits no heartbeat is `Quiet`.

*Undo.* `UndoneIsUndone` (`NeuronDriverProofs`): in both modes the reverse handler, given
what the forward handler saved in the message, brings back the LP, and clears the message,
for a neuron that is `RestoredFromStore`.

*Time warp.* `TimeWarpProofs`, for every number of PEs, placement of the neurons, order of
messages and every `NeuronModel`: `TypeCorrect`; `AllCancelsInTime`, `Spec => []CancelsInTime`;
`AllUndoRestores`, `Spec => []UndoRestores`; and `RunIsSequential`,
`Spec => ImplementsSequential`, the whole property. The invariant `IInv(S)` has nine parts
beyond the shapes of the state:

* `OrderInv`: what a PE has handled is in order, and nothing it still has is to come before;
* `ChainInv`: the LP as one record leaves it is the LP that the next record of the same
  neuron found, and the last one's is the LP now. With `UndoneIsUndone` this makes
  `UndoRestores` an induction over the fold that undoes the records (`FoldRightUndo`);
* `ChannelInv`, `DeliveryInv`: every event has one sender, and the messages about it on the
  channel to its receiver turn, in their order, what the receiver has into what the sender
  wants. So an anti-message always finds its event there, which is `CancelsInTime`;
* `OnceInv`: nothing is sent by two records;
* `HeartbeatInv`, `FlagInv`: a neuron has one heartbeat to come, after the committed ones, and
  while it is to come, the LP of now and every record before it know. Without this a
  neuron that rolled back might send the heartbeat of a beat a second time;
* `DueInv`, `HorizonInv`: what the sequential run has pending is what is due, and nothing is
  left before the horizon.

Each action is described by an operator of its own (`Forward`, `Takes`, `Settles`), so that
a lemma per part of the invariant does not open the action again. The refinement maps a
commit to a turn of the sequential scheduler: by `DeliveryInv` the committed event was one
of its pending ones, by the horizon there is none before it, and by `ChainInv` the state
it was handled in is the committed state (`CommittedIs`). Any other step commits nothing.

*Probes.* `SequentialRunProofs`: `ProbedSpec` keeps `FirstRecorded` (`FirstAreRecorded`) and
`SpikesConserved` (`SpikesAreConserved`), whatever the sizes of the buffers. `Keeps` says of a
buffer that it is the first of the entries that came, in the order they did, and that the
flag is set if there were more than fit; it is kept by `record` (`RecordKept`) as an entry is
never one that came before: a neuron is recorded once per beat. The statistics count per
neuron (`NeuronCounts`), and sending adds what `CountsInv` needs as the spikes of a firing are
new ones: their `id` has the time of the heartbeat, which is later than that of any spike
its neuron sent before (`IdsInv`).

*Layout.* `LayoutProofs` proves, of a group of any size over any range of any number of PEs,
that `group_spot` (the inner part of `layout_master_doryta_id_to_gid`) and the blocks of ids
the PEs set aside (`doryta_id_offset`, `neurons_in_pe`) are inverse to each other:
`SpotIsInBlock` from ids to places, `BlockIsSpot` back. The steps are the rotation of the
PEs (`PEOfIndex`, `IndexOfPE`), which covers ranges that go around the end, and the division
with a remainder on the first PEs (`FirstPEs`, `LaterPEs`, the latter also showing that the
code never divides by zero there). From groups it goes on to layouts (`IsLayout`: each group
begins where those before it end): the sums over the groups grow, so that a number
belongs to one level (`LevelIs`, `LevelExists`); no PE has more than
`max_num_neurons_per_pe` (`WithinWidest`), so that the quotient of a gid is its PE; and what
`LocalNeurons` joins has the blocks at the sums (`LocalNeuronsAre`). `PlacedAt` is what all
conversions say of one neuron; `EveryNeuronHasAPlace` and `EveryPlaceHasANeuron` hold it of
all. `LayoutRunProofs` has the invariant of the calls (`LayoutInv`: the groups are a layout,
and after the mapping the LPs are those of the groups) and `Spec => []IdMapsAgree`
(`MapsAgree`) and `Spec => []LocalOrder` (`FilesReadInOnePass`).

*Synapses.* `Spec => []SynapsesFit` (`RoomForSynapses`), also in `LayoutRunProofs`. The property
says nothing before the synapses are laid down; `RoomInv` has for any time that a PE's
count is what all synapse groups ask for given the neuron groups there are now (`Room`),
although each was counted given those there were then: a range can only name neurons
there are, so that the neurons of a PE within it stay as many when groups join
(`WithinStays`, `NeuronsJoin`). `neurons_within_pe` counts, block by block, the local ids that
lie in the range (`MarkedWithin`), so the room is the same sum counted by group or by
neuron (`CountedBothWays`); and no neuron has more synapses than its groups ask for
(`LengthBounded`): of the kernel positions on an axis at most the rounded up quotient of
kernel and stride lie over a cell (`AlongAxis`). TLC checks `RoomInv`, with `Room` as a plain
sum, on the instances of the runs `layout` and `convolution`.

`ConnectionsAsMeant` is `SynapsesAsMeant` for all layouts with `ShapesPositive` and
`KernelsSpanStrides`, no stride longer than its kernel; without the first, `Wanted` would
divide by a width that is not positive, and without the second the property is false.
Both are what the runs that expect a violation are about. The definition goes through the
output cells and asks which kernel position lies over the input cell, the code goes through the
kernel positions and computes the output cell. On an axis the iterator comes to exactly
the output cells whose kernel lies over the cell, each with its one position (`HitIs`,
`HitsAre`); over both axes it goes through the cells in order (`CellsAre`), so that what it
keeps and what `Wanted` keeps are ascending sequences of the same numbers, and there is
only one (`OneOrder`). Group after group this makes the iterator's list the wanted one
(`IteratorAsAsked`), and its targets are neurons, whose gids lead back to them.
`PositionsWithinKernels` is `KernelPositions` under `KernelsSpanStrides`: what the run
`stride_over_kernel` refutes holds as soon as the check that is commented out is made.

*Game of Life.* `GameOfLifeProofs`: `GoLSpec => ImplementsLife` (`BoardPlaysLife`) on a square
board of any width, from any cells, for any beat and end, and the same of every behaviour of
`SpikingNetwork`, whatever the order in which spikes arrive and neurons take their beats
(`LifeInAnyOrder`). The hypothesis `BuiltIn` is what `GameOfLife.cfg` gives TLC: neurons,
synapses and input of `gameoflife.c`, and LIF for the neuron model; `WidthAssumption` that a
beat leaks all (`tau_m` is the beat). There are three arguments. What the iterator returns:
for a cell with a 3x3 kernel and a padding of one, exactly the cells around it that are on
the board, each once (`SquareReaches`), so that by `IteratorGathers` a board neuron leads to
those of the life and of the kill layer, and these to their one cell (`IteratorLeads`). What
has arrived, which is the invariant `GoLInv`. Its first part, `Played(G)` for the cells `G` that
are given, is about each neuron by itself: its current is ten times the number of neurons
that fired at the last of its beats, lead to it with weight 1 and whose spike is no longer
in flight, less those with weight -1 (`Balance` of `Led` and `Arriving`); it has heard nothing
that belongs after its next beat; it fired at those of its beats for which the balance
was enough (`Fires`); and at odd beats only the board fires. The second part, `Together(b)`, has
all neurons at the beat `b` or the one after. It is inductive: a spike delivered moves one
neuron from those in flight to those heard (`DeliverKeeps`), and a beat turns the currents of
those who take it into firings and the firings into spikes for the beat after, of which no
neuron has heard yet (`WhatABeatDoes`, `WhatABeatLeads`, `BeatKeeps`); what fires of what is
counted is `BoardBalance` and `CellBalance`. `Shown` alone says nothing of what is under way.
Spikes that would arrive after the end are never sent, so that `Led` has those `InTime`, which
a beat that follows implies. Last, that 3 counted with the cell itself and not 4 counted
without is Conway's rule (`RulesOfLife`), and that the board shows it when the last neuron takes
its beat (`BeatShows`).

*Input spikes.* `SpikeLoaderProofs`: `Spec => []RoomSuffices` (`MemorySuffices`) and
`Spec => []SpikesReachOwners` (`EverySpikeArrives`), for every layout, every file of either
format and every draw. `RoomSuffices` is not inductive: what a PE asks for is the spikes of
all of the file and a zero for as many neurons as the file names or the PE has, and that
it stays within that has to be counted entry by entry. `FileInv` has that what is used is
at most the spikes of the entries so far and one for each local neuron that has its array
(`Filled`), who are no more than the entries so far and no more than the PE's neurons; an
entry of its own adds one to them, as a neuron is named once (`KeepsEntry`). It has also
that each array is the entry of its neuron (`Has`), before what is used, and that nothing is
written from there on (`Blank`), so that the next array spoils none (`ArrayKept`) and ends with
a zero that calloc left (`ArrayWritten`). That the entry of a neuron comes to the neuron's own
place is `EveryNeuronHasAPlace`, and that the generator comes from a place to the neuron
`EveryPlaceHasANeuron`. A file that names a neuron twice is outside of this, and rightly:
a PE that has all of the file's spikes and more arrays than neurons is a zero short, and
the code's `assert(j <= spikes_in_pe)` (`load_spikes.c:117`) fails.

*Main.* `MainProofs` proves `Spec => []CleanEnd` (`EndsClean`) and `Spec => []RunsPrepared`
(`Prepared`) for every set of numbers of PEs and of probe choices. Neither is inductive:
that a PE writes its file of states rests on the handler in the settings, which rests on
the folder being there when it was opened, which rests on PE 0 having come to the
barrier. `Inv` has, per PE and stage, what it holds (`HeldBy`), what its driver knows
(`KnownTo`), what it has written (`WrittenBy`) and what it may rely on (`CheckedBy`), above
all that PE 0 has made the folder before it enters any collective operation. The steps of
a PE are proved to keep its own part (`OwnKept`) and to leave those of others alone
(`StepByOne`, `OthersKept`).

*Recursion and folds.* The library's induction theorems take an operator, which the
provers cannot be given; `Induction` takes a set instead and rests on `Least`, that a set
of natural numbers has a least element, which follows from the well-foundedness of the
subsets of a finite set. The folds of the community modules are recursions over sets of
indices or of elements. Each is treated alike: a function that solves the recursion is built
by induction on how many elements are left (`DecayExists`, `BackwardExists`, `PartialExists`,
`FoldExists`), so the one the definition chooses solves it too, and what is wanted of it
follows by induction again.

Only model-checked: liveness and fairness (`HeartbeatComes`, `RunCompletes`, `EveryPEEnds`,
the fairness of the network), which need `ENABLED`; and the properties of `ModelLoader`,
which are about a whole file and need a definition of the format for files of any length.

## Abstractions and what is not modelled

* Potentials and currents are integers and rounding is floor division. The per-beat leak
  of `neurons_lif_leak` is an Euler step and the leak of a gap an exponential; the
  repository's README names the discrepancy between the modes this makes. The instances
  use a step and a decay that agree without current (`DecayKeep = LeakDen - LeakNum`),
  so that what `ImplementsNetwork` compares is beats and spikes. `Quiet` is what the code
  would have to keep for the modes to agree exactly.
* `SpikingNetwork` takes the delays of synapses and the input spikes by the driver's own
  operators, so `ImplementsNetwork` says nothing of an error in these: that spikes land
  ahead and off the beat is `ScheduledAhead`, that arrays end where they should is
  `SpikesReachOwners` and `RoomSuffices`.
* Neurons do not fire without input, which the README demands of spike-driven mode; the
  instances' thresholds are above what leak alone can reach.
* LIF-beta has no leak over a gap (`neuron_leak_bigdt` would be NULL), so only needy mode
  drives it.
* Conservative synchronisation, ROSS's memory limits and event buffers, and MPI.
* `size_t` arithmetic in the layout cannot wrap for the sizes that are accepted.
* A model file that is ambiguous in the sense of `Unambiguous`, and a spikes file that
  names a neuron twice, are read as the code reads them; nothing is claimed of them.
* `main`'s check of `random-spikes-prob` (line 216) joins its two tests with `&&` and rejects
  nothing; `Main` has no such error.
* Not modelled: the wording of output, byte order, the weights of the five-neuron
  example (a random generator), tools and tests.

## Plan

1. Proofs: `ModelLoader`, on top of `IteratorAsAsked`, once the records of a file are
   defined for files of any length.
2. `Probes` under `TimeWarp`, with several KPs on a PE.
