--------------------------------- MODULE Main ---------------------------------
(***************************************************************************)
(* The program of src/doryta.main.c: the same main() on every PE, with the *)
(* same options, from the check of the arguments to tw_end.  The PEs share *)
(* nothing but the output folder, which PE 0 makes, and meet only in a     *)
(* barrier and in the collective operations of ROSS.                       *)
(*                                                                         *)
(* What goes on inside tw_run is in SequentialRun and TimeWarp; what the   *)
(* loaders do is in Layout, ModelLoader and SpikeLoader.  Here it matters  *)
(* in which order the PEs get there, and with what in their hands.         *)
(***************************************************************************)
EXTENDS Integers, FiniteSets

CONSTANTS
    NumPEs,         \* the numbers of PEs considered
    ProbeChoices    \* the choices of probes considered

ASSUME MainAssumption ==
    /\ NumPEs \subseteq Nat \ {0}
    /\ ProbeChoices \subseteq SUBSET {"firing", "voltage", "stats"}

VARIABLES
    tw_nnodes,
    options,    \* the command line
    fault,      \* what goes wrong in this run, if anything, and on which PE
    folder,     \* whether output_dir exists
    at,         \* how far each PE is
    entered,    \* per collective operation, the PEs that have come to it
    held,       \* the memory and files each PE has to give back
    settings,   \* what driver_neuron_config copied
    files,      \* the output files of each PE that are complete
    aborted     \* tw_error was called: MPI_Abort reaches the PEs one by one

vars == <<tw_nnodes, options, fault, folder, at, entered, held, settings, files, aborted>>

PEs == 0 .. tw_nnodes - 1

Collectives == {"MPI_Barrier", "tw_run", "tw_end"}

Options == [models         : SUBSET {"five-example", "gol-model", "load-model"},
            spikes         : SUBSET {"load-spikes", "random-spikes"},
            save_state     : BOOLEAN,
            probes         : ProbeChoices]

\* A board the layout refuses is refused by all PEs: they have the same options.
Faults(n) == [kind : {"none", "output-dir", "params", "gol-model-size"}, pe : {0}]
    \cup [kind : {"load-model", "load-spikes", "state file", "no neurons", "probe files"},
          pe : 0 .. n - 1]

Init ==
    /\ tw_nnodes \in NumPEs
    /\ options \in Options
    /\ fault \in Faults(tw_nnodes)
    /\ folder \in BOOLEAN
    /\ at = [p \in PEs |-> "arguments"]
    /\ entered = [c \in Collectives |-> {}]
    /\ held = [p \in PEs |-> {}]
    /\ settings = [p \in PEs |-> [probe_events |-> {}, save_state_handler |-> {}]]
    /\ files = [p \in PEs |-> {}]
    /\ aborted = FALSE

Fails(kind, p) == fault = [kind |-> kind, pe |-> p]
CanOpen(kind, p) == folder /\ ~ Fails(kind, p)

\* Everything but what a step of p may change.
Given == UNCHANGED <<tw_nnodes, options, fault>>

From(p, here) == p \in PEs /\ at[p] = here
To(p, there) == at' = [at EXCEPT ![p] = there]

tw_error_StopsOne(p) == To(p, "killed") /\ UNCHANGED aborted
tw_error(p) == To(p, "killed") /\ aborted' = TRUE

Takes(p, things) == held' = [held EXCEPT ![p] = @ \cup things]
Frees(p, things) == held' = [held EXCEPT ![p] = @ \ things]

Enters(p, c) == entered' = [entered EXCEPT ![c] = @ \cup {p}]
AllIn(c) == entered[c] = PEs

-----------------------------------------------------------------------------
\* Only PE 0 sees to the folder; the rest of the checks is everybody's.
WrongArguments ==
    \/ Cardinality(options.models) # 1
    \/ Cardinality(options.spikes) = 2

check_arguments(p) ==
    LET refused == Fails("output-dir", p) \/ WrongArguments
    IN  /\ From(p, "arguments")
        /\ folder' = (folder \/ (p = 0 /\ ~ Fails("output-dir", p)))
        /\ IF refused THEN tw_error(p) ELSE To(p, "model") /\ UNCHANGED aborted
        /\ Given /\ UNCHANGED <<entered, held, settings, files>>

\* The five neurons come with spikes of their own, an array on each of at most two PEs.
load_model(p) ==
    LET five   == "five-example" \in options.models
        failed == \/ five /\ tw_nnodes > 2
                  \/ "gol-model" \in options.models /\ fault.kind = "gol-model-size"
                  \/ "load-model" \in options.models /\ Fails("load-model", p)
    IN  /\ From(p, "model")
        /\ IF failed
           THEN tw_error(p) /\ UNCHANGED held
           ELSE /\ To(p, "spikes")
                /\ Takes(p, {"layout"} \cup IF five THEN {"five spikes"} ELSE {})
                /\ UNCHANGED aborted
        /\ Given /\ UNCHANGED <<folder, entered, settings, files>>

\* model_load_spikes_init opens the file and leaves it open; model_load_spikes_deinit
\* frees the memory only.
SpikesFile == IF "load-spikes" \in options.spikes THEN {"spikes file"} ELSE {}

load_spikes(p) ==
    /\ From(p, "spikes")
    /\ IF "load-spikes" \in options.spikes /\ Fails("load-spikes", p)
       THEN tw_error(p) /\ UNCHANGED held
       ELSE /\ To(p, IF options.save_state THEN "state file" ELSE "configuration")
            /\ Takes(p, options.spikes \cup SpikesFile)
            /\ UNCHANGED aborted
    /\ Given /\ UNCHANGED <<folder, entered, settings, files>>

-----------------------------------------------------------------------------
\* "There might be race condition when creating the output folder": the PEs wait for
\* each other, so for PE 0, before they open a file in it.
wait_for_folder(p) ==
    /\ From(p, "state file") /\ p \notin entered["MPI_Barrier"]
    /\ Enters(p, "MPI_Barrier")
    /\ Given /\ UNCHANGED <<folder, at, held, settings, files, aborted>>

FolderAwaited_Not == TRUE
FolderAwaited == AllIn("MPI_Barrier")

\* A file that cannot be opened is no error: the handler stays NULL.
open_state_file(p) ==
    /\ From(p, "state file") /\ p \in entered["MPI_Barrier"]
    /\ FolderAwaited
    /\ Takes(p, IF CanOpen("state file", p) THEN {"state file"} ELSE {})
    /\ To(p, "configuration")
    /\ Given /\ UNCHANGED <<folder, entered, settings, files, aborted>>

\* The handler of p's file of final states: what it points to, nothing for NULL.
StateFileOf(p) == held[p] \cap {"state file"}

\* The settings are copied: what main() changes later does not reach the driver.
configure(p) ==
    /\ From(p, "configuration")
    /\ IF Fails("no neurons", p) /\ "five-example" \notin options.models
       THEN tw_error(p) /\ UNCHANGED settings
       ELSE /\ To(p, "probes")
            /\ settings' = [settings EXCEPT ![p] =
                    [probe_events |-> options.probes,
                     save_state_handler |-> StateFileOf(p)]]
            /\ UNCHANGED aborted
    /\ Given /\ UNCHANGED <<folder, entered, held, files>>

\* PE 0 adds the size of the network to the file of the parameters, or stops.
ParamsFile(p) == IF p = 0 THEN {"params"} ELSE {}

Buffers_WithFiring == IF "firing" \in options.probes THEN options.probes ELSE {}
Buffers == options.probes

probes_init(p) ==
    /\ From(p, "probes")
    /\ IF p = 0 /\ ~ CanOpen("params", p)
       THEN tw_error(p) /\ UNCHANGED <<held, files>>
       ELSE /\ To(p, "running")
            /\ files' = [files EXCEPT ![p] = @ \cup ParamsFile(p)]
            /\ Takes(p, Buffers)
            /\ UNCHANGED aborted
    /\ Given /\ UNCHANGED <<folder, entered, settings>>

-----------------------------------------------------------------------------
\* ROSS initialises the LPs, runs the events and finalises the LPs; no PE gets past its
\* collective operations before all are in.
enter_run(p) ==
    /\ From(p, "running") /\ p \notin entered["tw_run"]
    /\ Enters(p, "tw_run")
    /\ Given /\ UNCHANGED <<folder, at, held, settings, files, aborted>>

\* driver_neuron_final prints the LPs into the file, if the driver was given one.
leave_run(p) ==
    /\ From(p, "running") /\ AllIn("tw_run")
    /\ files' = [files EXCEPT ![p] = @ \cup settings[p].save_state_handler]
    /\ To(p, "probes done")
    /\ Given /\ UNCHANGED <<folder, entered, held, settings, aborted>>

\* What cannot be saved is lost with a message; the buffers are freed all the same.
probes_deinit(p) ==
    /\ From(p, "probes done")
    /\ files' = [files EXCEPT ![p] = IF CanOpen("probe files", p) THEN @ \cup options.probes ELSE @]
    /\ Frees(p, options.probes)
    /\ To(p, "release")
    /\ Given /\ UNCHANGED <<folder, entered, settings, aborted>>

\* The layout of the Game of Life is not given back, its deinit is never called; nor is
\* the file of the spikes closed.
release(p) ==
    /\ From(p, "release")
    /\ Frees(p, {"state file"} \cup options.spikes
                  \cup IF "gol-model" \in options.models THEN {} ELSE {"layout", "five spikes"})
    /\ Enters(p, "tw_end")
    /\ To(p, "end")
    /\ Given /\ UNCHANGED <<folder, settings, files, aborted>>

tw_end(p) ==
    /\ From(p, "end") /\ AllIn("tw_end")
    /\ To(p, "ended")
    /\ Given /\ UNCHANGED <<folder, entered, held, settings, files, aborted>>

\* MPI_Abort of one PE takes the others down, wherever they are by then.
Killed(p) ==
    /\ aborted /\ p \in PEs /\ at[p] \notin {"ended", "killed"}
    /\ To(p, "killed")
    /\ Given /\ UNCHANGED <<folder, entered, held, settings, files, aborted>>

Over == \A p \in PEs : at[p] \in {"ended", "killed"}

Step(p) ==
    \/ check_arguments(p) \/ load_model(p) \/ load_spikes(p)
    \/ wait_for_folder(p) \/ open_state_file(p) \/ configure(p) \/ probes_init(p)
    \/ enter_run(p) \/ leave_run(p) \/ probes_deinit(p) \/ release(p) \/ tw_end(p)
    \/ Killed(p)

Next ==
    \/ \E p \in PEs : Step(p)
    \/ Over /\ UNCHANGED vars

\* Every PE is a process of its own; a blocking call returns once all have made it.
Fairness == \A n \in UNION {0 .. k - 1 : k \in NumPEs} : WF_vars(Step(n))

Spec == Init /\ [][Next]_vars /\ Fairness

-----------------------------------------------------------------------------
Asked(p) == options.probes
    \cup (IF options.save_state THEN {"state file"} ELSE {})
    \cup ParamsFile(p)

\* The files that the file system does not let p write.
Unwritable(p) ==
    (IF Fails("state file", p) THEN {"state file"} ELSE {})
        \cup (IF Fails("probe files", p) THEN options.probes ELSE {})

\* doryta.main.c:252-262, 328-361. A PE that comes to the end of main() has written every
\* file the options ask of it that can be written, whoever was first and whether or not the
\* folder was there, and has given back everything but two things: the layout of the Game
\* of Life (gameoflife.c:169 is never called), and the file of the spikes, which
\* load_spikes.c:17 opens and nothing closes (15-36, 121-124).
CleanEnd ==
    \A p \in PEs : at[p] = "ended" =>
        /\ files[p] = Asked(p) \ Unwritable(p)
        /\ held[p] = SpikesFile \cup IF "gol-model" \in options.models THEN {"layout"} ELSE {}

\* firing.c:32, 82, voltage.c:35, 85, stats.c:30, 85 and neuron.c:126, 328-335. While LPs may
\* run, the driver has its neurons, the memory of every probe it may call and, if it has
\* been given one, an open file.
RunsPrepared ==
    \A p \in PEs : at[p] \in {"running", "probes done"} =>
        settings[p].probe_events \cup settings[p].save_state_handler \cup {"layout"}
            \subseteq held[p]

\* doryta.main.c:254, 326, 363. No PE waits forever for one that has stopped: each ends,
\* or an error takes them all down.
EveryPEEnds == <>Over
=============================================================================
