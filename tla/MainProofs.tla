------------------------------ MODULE MainProofs ------------------------------
(***************************************************************************)
(* CleanEnd and RunsPrepared hold for any number of PEs and any choice of  *)
(* options.  The invariant behind them says, for each stage of main(),     *)
(* what a PE holds, what its driver knows and what it has written, and     *)
(* that the folder is there once PE 0 has met the others.                  *)
(***************************************************************************)
EXTENDS Main, FiniteSetTheorems, TLAPS

Model == {"layout"} \cup IF "five-example" \in options.models THEN {"five spikes"} ELSE {}
StateFile(p) == IF options.save_state /\ ~ Fails("state file", p) THEN {"state file"} ELSE {}
ProbeFiles(p) == IF Fails("probe files", p) THEN {} ELSE options.probes
Spikes == options.spikes \cup SpikesFile
Kept == SpikesFile \cup IF "gol-model" \in options.models THEN {"layout"} ELSE {}

HeldBy(p) ==
    /\ at[p] \in {"arguments", "model"} => held[p] = {}
    /\ at[p] = "spikes" => held[p] = Model
    /\ at[p] = "state file" => held[p] = Model \cup Spikes
    /\ at[p] \in {"configuration", "probes", "release"} =>
            held[p] = Model \cup Spikes \cup StateFile(p)
    /\ at[p] \in {"running", "probes done"} =>
            held[p] = Model \cup Spikes \cup StateFile(p) \cup options.probes
    /\ at[p] \in {"end", "ended"} => held[p] = Kept

KnownTo(p) ==
    at[p] \in {"probes", "running", "probes done"} =>
        /\ settings[p].probe_events = options.probes
        /\ settings[p].save_state_handler = StateFile(p)

WrittenBy(p) ==
    /\ at[p] \in {"arguments", "model", "spikes", "state file", "configuration", "probes"} =>
            files[p] = {}
    /\ at[p] = "running" => files[p] = ParamsFile(p)
    /\ at[p] = "probes done" => files[p] = ParamsFile(p) \cup StateFile(p)
    /\ at[p] \in {"release", "end", "ended"} =>
            files[p] = ParamsFile(p) \cup StateFile(p) \cup ProbeFiles(p)

\* A PE that is past the check of the arguments has one model; if it is PE 0, it has made
\* the folder, and a PE that has waited for PE 0 knows it is there.
CheckedBy(p) ==
    /\ at[p] \notin {"arguments", "killed"} => ~ WrongArguments
    /\ at[p] = "state file" => options.save_state
    /\ p = 0 /\ at[p] \notin {"arguments", "killed"} => folder
    /\ p = 0 /\ (\E c \in {"MPI_Barrier", "tw_run"} : p \in entered[c]) => folder
    /\ at[p] \in {"probes done", "release", "end", "ended"} => folder

Good(p) == HeldBy(p) /\ KnownTo(p) /\ WrittenBy(p) /\ CheckedBy(p)

Shape ==
    /\ tw_nnodes \in Nat \ {0}
    /\ options \in Options
    /\ folder \in BOOLEAN
    /\ at = [p \in PEs |-> at[p]]
    /\ held = [p \in PEs |-> held[p]]
    /\ settings = [p \in PEs |-> settings[p]]
    /\ files = [p \in PEs |-> files[p]]
    /\ entered \in [Collectives -> SUBSET PEs]

\* A step of p leaves what the others have alone, and only ever makes the folder.
OnlyBy(p) ==
    /\ Given
    /\ \A q \in PEs \ {p} :
          /\ at'[q] = at[q] /\ held'[q] = held[q]
          /\ settings'[q] = settings[q] /\ files'[q] = files[q]
          /\ \A c \in Collectives : q \in entered'[c] => q \in entered[c]
    /\ folder => folder'

Inv == Shape /\ \A p \in PEs : Good(p)

-----------------------------------------------------------------------------
\* The choices on the command line are what their type says, member by member.
LEMMA OptionsTyped ==
    ASSUME options \in Options
    PROVE  /\ options.models \subseteq {"five-example", "gol-model", "load-model"}
           /\ options.spikes \subseteq {"load-spikes", "random-spikes"}
           /\ options.save_state \in BOOLEAN
           /\ options.probes \subseteq {"firing", "voltage", "stats"}
BY MainAssumption DEF Options

\* "You have to specify ONE model to run": the example and the Game of Life exclude
\* each other.
LEMMA OneModel ==
    ASSUME options \in Options, ~ WrongArguments
    PROVE  ~ ("five-example" \in options.models /\ "gol-model" \in options.models)
<1>1. IsFiniteSet({"five-example", "gol-model", "load-model"})
  <2>1. IsFiniteSet({} \cup {"five-example"})
    BY FS_EmptySet, FS_AddElement
  <2>2. IsFiniteSet(({} \cup {"five-example"}) \cup {"gol-model"})
    BY <2>1, FS_AddElement
  <2>3. IsFiniteSet((({} \cup {"five-example"}) \cup {"gol-model"}) \cup {"load-model"})
    BY <2>2, FS_AddElement
  <2>4. (({} \cup {"five-example"}) \cup {"gol-model"}) \cup {"load-model"}
            = {"five-example", "gol-model", "load-model"}
    OBVIOUS
  <2> QED
    BY <2>3, <2>4
<1>2. IsFiniteSet(options.models)
  BY <1>1, FS_Subset, OptionsTyped
<1>3. Cardinality(options.models) = 1
  BY DEF WrongArguments
<1>4. PICK m : options.models = {m}
  BY <1>2, <1>3, FS_Singleton
<1> QED
  BY <1>4

LEMMA InitInv == Init => Inv
<1> SUFFICES ASSUME Init PROVE Inv
  OBVIOUS
<1>1. Shape
  BY MainAssumption DEF Init, Shape, Collectives
<1>2. ASSUME NEW p \in PEs PROVE Good(p)
  BY <1>2 DEF Init, Good, HeldBy, KnownTo, WrittenBy, CheckedBy, Collectives
<1> QED
  BY <1>1, <1>2 DEF Inv

LEMMA StepByOne ==
    ASSUME Shape, NEW p \in PEs, Step(p)
    PROVE  Shape' /\ OnlyBy(p)
<1> USE DEF Shape, OnlyBy, Given, PEs, From, To, Takes, Frees, Enters, Collectives, tw_error
<1>1. CASE check_arguments(p)
  BY <1>1 DEF check_arguments
<1>2. CASE load_model(p)
  BY <1>2 DEF load_model
<1>3. CASE load_spikes(p)
  BY <1>3 DEF load_spikes
<1>4. CASE wait_for_folder(p)
  BY <1>4 DEF wait_for_folder
<1>5. CASE open_state_file(p)
  BY <1>5 DEF open_state_file
<1>6. CASE configure(p)
  BY <1>6 DEF configure
<1>7. CASE probes_init(p)
  BY <1>7 DEF probes_init
<1>8. CASE enter_run(p)
  BY <1>8 DEF enter_run
<1>9. CASE leave_run(p)
  BY <1>9 DEF leave_run
<1>10. CASE probes_deinit(p)
  BY <1>10 DEF probes_deinit
<1>11. CASE release(p)
  BY <1>11 DEF release
<1>12. CASE tw_end(p)
  BY <1>12 DEF tw_end
<1>13. CASE Killed(p)
  BY <1>13 DEF Killed
<1> QED
  BY <1>1, <1>2, <1>3, <1>4, <1>5, <1>6, <1>7, <1>8, <1>9, <1>10, <1>11, <1>12, <1>13 DEF Step

LEMMA OthersKept ==
    ASSUME Inv, NEW p \in PEs, OnlyBy(p), NEW q \in PEs, q # p
    PROVE  Good(q)'
<1>1. Good(q)
  BY DEF Inv
<1>2. /\ at'[q] = at[q] /\ held'[q] = held[q]
      /\ settings'[q] = settings[q] /\ files'[q] = files[q]
      /\ options' = options /\ fault' = fault
  BY DEF OnlyBy, Given
<1>3. HeldBy(q)'
  BY <1>1, <1>2 DEF Good, HeldBy, Model, Spikes, SpikesFile, StateFile, Fails, Kept
<1>4. KnownTo(q)'
  BY <1>1, <1>2 DEF Good, KnownTo, StateFile, Fails
<1>5. WrittenBy(q)'
  BY <1>1, <1>2 DEF Good, WrittenBy, ProbeFiles, ParamsFile, StateFile, Fails
<1>6. CheckedBy(q)'
  BY <1>1, <1>2 DEF Good, CheckedBy, WrongArguments, OnlyBy, Collectives
<1> QED
  BY <1>3, <1>4, <1>5, <1>6 DEF Good

\* Whoever is past a meeting of all the PEs knows that PE 0 has made the folder.
LEMMA FolderAfterMeeting ==
    ASSUME Inv, NEW c \in {"MPI_Barrier", "tw_run"}, AllIn(c)
    PROVE  folder
<1>1. 0 \in PEs
  BY DEF Inv, Shape, PEs
<1>2. Good(0) /\ 0 \in entered[c]
  BY <1>1 DEF Inv, AllIn
<1> QED
  BY <1>2 DEF Good, CheckedBy

LEMMA OwnKept ==
    ASSUME Inv, NEW p \in PEs, Step(p)
    PROVE  Good(p)'
<1>1. Good(p) /\ Shape
  BY DEF Inv
<1>2. /\ options.models \subseteq {"five-example", "gol-model", "load-model"}
      /\ options.spikes \subseteq {"load-spikes", "random-spikes"}
      /\ options.save_state \in BOOLEAN
      /\ options.probes \subseteq {"firing", "voltage", "stats"}
  BY <1>1, OptionsTyped DEF Shape
<1>a. options' = options /\ fault' = fault
  BY StepByOne DEF Inv, OnlyBy, Given
<1>b. /\ Model' = Model /\ Spikes' = Spikes /\ StateFile(p)' = StateFile(p) /\ Kept' = Kept
      /\ ParamsFile(p)' = ParamsFile(p) /\ ProbeFiles(p)' = ProbeFiles(p)
  BY <1>a DEF Model, Spikes, SpikesFile, StateFile, Fails, Kept, ParamsFile, ProbeFiles
<1> USE <1>1, <1>2 DEF Good, Given, From, To
<1>3. CASE check_arguments(p)
  <2>1. HeldBy(p)'
    BY <1>3, <1>a, <1>b DEF Shape, check_arguments, tw_error, HeldBy
  <2>2. KnownTo(p)'
    BY <1>3, <1>b DEF Shape, check_arguments, tw_error, KnownTo
  <2>3. WrittenBy(p)'
    BY <1>3, <1>b DEF Shape, check_arguments, tw_error, WrittenBy
  <2>4. CheckedBy(p)'
    BY <1>3 DEF Shape, check_arguments, tw_error, CheckedBy, WrongArguments
  <2> QED
    BY <2>1, <2>2, <2>3, <2>4
<1>4. CASE load_model(p)
  <2>1. HeldBy(p)'
    <3>1. CASE at'[p] = "killed"
      BY <3>1 DEF HeldBy
    <3>2. CASE at'[p] # "killed"
      <4>1. at'[p] = "spikes" /\ held'[p] = held[p] \cup Model
        BY <1>4, <3>2 DEF Shape, load_model, tw_error, Takes, Model
      <4>2. held[p] = {}
        BY <1>4 DEF load_model, HeldBy
      <4> QED
        BY <4>1, <4>2, <1>b DEF HeldBy
    <3> QED
      BY <3>1, <3>2
  <2>2. KnownTo(p)'
    BY <1>4, <1>b DEF Shape, load_model, tw_error, Takes, KnownTo
  <2>3. WrittenBy(p)'
    BY <1>4, <1>b DEF Shape, load_model, tw_error, Takes, WrittenBy
  <2>4. CheckedBy(p)'
    BY <1>4 DEF Shape, load_model, tw_error, Takes, CheckedBy, WrongArguments
  <2> QED
    BY <2>1, <2>2, <2>3, <2>4
<1>5. CASE load_spikes(p)
  <2>1. HeldBy(p)'
    <3>1. CASE at'[p] = "killed"
      BY <3>1 DEF HeldBy
    <3>2. CASE at'[p] # "killed"
      <4>1. /\ at'[p] = IF options.save_state THEN "state file" ELSE "configuration"
            /\ held'[p] = held[p] \cup Spikes
        BY <1>5, <3>2 DEF Shape, load_spikes, tw_error, Takes, Spikes
      <4>2. held[p] = Model
        BY <1>5 DEF load_spikes, HeldBy
      <4> QED
        BY <4>1, <4>2, <1>a, <1>b DEF HeldBy, StateFile, Fails
    <3> QED
      BY <3>1, <3>2
  <2>2. KnownTo(p)'
    BY <1>5, <1>b DEF Shape, load_spikes, tw_error, Takes, KnownTo
  <2>3. WrittenBy(p)'
    BY <1>5, <1>b DEF Shape, load_spikes, tw_error, Takes, WrittenBy
  <2>4. CheckedBy(p)'
    BY <1>5 DEF Shape, load_spikes, tw_error, Takes, CheckedBy, WrongArguments
  <2> QED
    BY <2>1, <2>2, <2>3, <2>4
<1>6. CASE wait_for_folder(p)
  <2>1. HeldBy(p)'
    BY <1>6, <1>a, <1>b DEF Shape, wait_for_folder, Enters, HeldBy
  <2>2. KnownTo(p)'
    BY <1>6, <1>b DEF Shape, wait_for_folder, Enters, KnownTo
  <2>3. WrittenBy(p)'
    BY <1>6, <1>b DEF Shape, wait_for_folder, Enters, WrittenBy
  <2>4. CheckedBy(p)'
    BY <1>6 DEF Shape, wait_for_folder, Enters, CheckedBy, WrongArguments
  <2> QED
    BY <2>1, <2>2, <2>3, <2>4
<1>7. CASE open_state_file(p)
  <2>1. HeldBy(p)'
    <3>1. folder
      BY <1>7, FolderAfterMeeting DEF open_state_file, FolderAwaited
    <3>2. StateFile(p) = IF CanOpen("state file", p) THEN {"state file"} ELSE {}
      BY <1>7, <3>1 DEF open_state_file, CheckedBy, StateFile, CanOpen
    <3>3. at'[p] = "configuration" /\ held'[p] = held[p] \cup StateFile(p)
      BY <1>7, <3>2 DEF Shape, open_state_file, Takes
    <3>4. held[p] = Model \cup Spikes
      BY <1>7 DEF open_state_file, HeldBy
    <3> QED
      BY <3>3, <3>4, <1>a, <1>b DEF HeldBy
  <2>2. KnownTo(p)'
    BY <1>7, <1>b DEF Shape, open_state_file, CanOpen, Takes, FolderAwaited, KnownTo
  <2>3. WrittenBy(p)'
    BY <1>7, <1>b DEF Shape, open_state_file, CanOpen, Takes, FolderAwaited, WrittenBy
  <2>4. CheckedBy(p)'
    BY <1>7 DEF Shape, open_state_file, CanOpen, Takes, FolderAwaited, CheckedBy, WrongArguments
  <2> QED
    BY <2>1, <2>2, <2>3, <2>4
<1>8. CASE configure(p)
  <2>1. HeldBy(p)'
    <3>1. at'[p] \in {"killed", "probes"} /\ held' = held
      BY <1>8 DEF Shape, configure, tw_error
    <3>2. held[p] = Model \cup Spikes \cup StateFile(p)
      BY <1>8 DEF configure, HeldBy
    <3> QED
      BY <3>1, <3>2, <1>a, <1>b DEF HeldBy
  <2>2. KnownTo(p)'
    <3>1. CASE at'[p] = "killed"
      BY <3>1 DEF KnownTo
    <3>2. CASE at'[p] # "killed"
      <4>1. settings'[p] = [probe_events |-> options.probes,
                            save_state_handler |-> StateFileOf(p)]
        BY <1>8, <3>2 DEF Shape, configure, tw_error
      <4>2. held[p] = Model \cup Spikes \cup StateFile(p)
        BY <1>8 DEF configure, HeldBy
      <4>3. "state file" \notin Model \cup Spikes
        BY DEF Model, Spikes, SpikesFile
      <4>4. StateFileOf(p) = StateFile(p)
        <5>1. CASE options.save_state /\ ~ Fails("state file", p)
          BY <4>2, <5>1 DEF StateFile, StateFileOf
        <5>2. CASE ~ (options.save_state /\ ~ Fails("state file", p))
          <6>1. held[p] = Model \cup Spikes
            BY <4>2, <5>2 DEF StateFile
          <6> QED
            BY <4>3, <5>2, <6>1 DEF StateFile, StateFileOf
        <5> QED
          BY <5>1, <5>2
      <4>5. settings'[p].probe_events = options.probes
        BY ONLY <4>1
      <4>6. settings'[p].save_state_handler = StateFile(p)
        BY ONLY <4>1, <4>4
      <4> QED
        BY <4>5, <4>6, <1>a, <1>b DEF KnownTo
    <3> QED
      BY <3>1, <3>2
  <2>3. WrittenBy(p)'
    BY <1>8, <1>b DEF Shape, configure, tw_error, WrittenBy
  <2>4. CheckedBy(p)'
    BY <1>8 DEF Shape, configure, tw_error, CheckedBy, WrongArguments
  <2> QED
    BY <2>1, <2>2, <2>3, <2>4
<1>9. CASE probes_init(p)
  <2>1. HeldBy(p)'
    <3>1. \/ at'[p] = "killed"
          \/ at'[p] = "running" /\ held'[p] = held[p] \cup options.probes
      BY <1>9 DEF Shape, probes_init, tw_error, Takes, Buffers
    <3>2. held[p] = Model \cup Spikes \cup StateFile(p)
      BY <1>9 DEF probes_init, HeldBy
    <3> QED
      BY <3>1, <3>2, <1>a, <1>b DEF HeldBy
  <2>2. KnownTo(p)'
    BY <1>9, <1>b DEF Shape, probes_init, CanOpen, tw_error, Takes, Buffers, KnownTo
  <2>3. WrittenBy(p)'
    <3>1. \/ at'[p] = "killed"
          \/ at'[p] = "running" /\ files'[p] = files[p] \cup ParamsFile(p)
      BY <1>9 DEF Shape, probes_init, tw_error
    <3>2. files[p] = {}
      BY <1>9 DEF probes_init, WrittenBy
    <3> QED
      BY <3>1, <3>2, <1>b DEF WrittenBy
  <2>4. CheckedBy(p)'
    BY <1>9 DEF Shape, probes_init, CanOpen, tw_error, Takes, Buffers, CheckedBy, WrongArguments
  <2> QED
    BY <2>1, <2>2, <2>3, <2>4
<1>10. CASE enter_run(p)
  <2>1. HeldBy(p)'
    BY <1>10, <1>a, <1>b DEF Shape, enter_run, Enters, HeldBy
  <2>2. KnownTo(p)'
    BY <1>10, <1>b DEF Shape, enter_run, Enters, KnownTo
  <2>3. WrittenBy(p)'
    BY <1>10, <1>b DEF Shape, enter_run, Enters, WrittenBy
  <2>4. CheckedBy(p)'
    BY <1>10 DEF Shape, enter_run, Enters, CheckedBy, WrongArguments
  <2> QED
    BY <2>1, <2>2, <2>3, <2>4
<1>11. CASE leave_run(p)
  <2>1. HeldBy(p)'
    BY <1>11, <1>a, <1>b DEF Shape, leave_run, HeldBy
  <2>2. KnownTo(p)'
    BY <1>11, <1>b DEF Shape, leave_run, KnownTo
  <2>3. WrittenBy(p)'
    <3>1. files[p] = ParamsFile(p) /\ settings[p].save_state_handler = StateFile(p)
      BY <1>11 DEF leave_run, WrittenBy, KnownTo
    <3>2. at'[p] = "probes done" /\ files'[p] = files[p] \cup StateFile(p)
      BY <1>11, <3>1 DEF Shape, leave_run, StateFile, Fails
    <3> QED
      BY <3>1, <3>2, <1>b DEF WrittenBy
  <2>4. CheckedBy(p)'
    BY <1>11, FolderAfterMeeting DEF Shape, leave_run, CheckedBy, WrongArguments
  <2> QED
    BY <2>1, <2>2, <2>3, <2>4
<1>12. CASE probes_deinit(p)
  <2>1. HeldBy(p)'
    <3>1. at'[p] = "release" /\ held'[p] = held[p] \ options.probes
      BY <1>12 DEF Shape, probes_deinit, Frees
    <3>2. held[p] = Model \cup Spikes \cup StateFile(p) \cup options.probes
      BY <1>12 DEF probes_deinit, HeldBy
    <3>3. (Model \cup Spikes \cup StateFile(p)) \cap options.probes = {}
      BY DEF Model, Spikes, SpikesFile, StateFile
    <3> QED
      BY <3>1, <3>2, <3>3, <1>a, <1>b DEF HeldBy
  <2>2. KnownTo(p)'
    BY <1>12, <1>b DEF Shape, probes_deinit, CanOpen, Frees, KnownTo
  <2>3. WrittenBy(p)'
    <3>1. folder /\ files[p] = ParamsFile(p) \cup StateFile(p)
      BY <1>12 DEF probes_deinit, WrittenBy, CheckedBy
    <3>2. at'[p] = "release" /\ files'[p] = files[p] \cup ProbeFiles(p)
      BY <1>12, <3>1 DEF Shape, probes_deinit, CanOpen, ProbeFiles
    <3> QED
      BY <3>1, <3>2, <1>b DEF WrittenBy
  <2>4. CheckedBy(p)'
    BY <1>12 DEF Shape, probes_deinit, CanOpen, Frees, CheckedBy, WrongArguments
  <2> QED
    BY <2>1, <2>2, <2>3, <2>4
<1>13. CASE release(p)
  <2>1. HeldBy(p)'
    <3>1. ~ ("five-example" \in options.models /\ "gol-model" \in options.models)
      BY <1>13, OneModel DEF Shape, release, CheckedBy
    <3>2. held[p] = Model \cup Spikes \cup StateFile(p)
      BY <1>13 DEF release, HeldBy
    <3>3. /\ at'[p] = "end"
          /\ held'[p] = held[p] \ ({"state file"} \cup options.spikes
                \cup IF "gol-model" \in options.models THEN {} ELSE {"layout", "five spikes"})
      BY <1>13 DEF Shape, release, Frees
    <3>4. held'[p] = Kept
      BY <3>1, <3>2, <3>3 DEF Model, Spikes, SpikesFile, StateFile, Fails, Kept
    <3> QED
      BY <3>3, <3>4, <1>b DEF HeldBy
  <2>2. KnownTo(p)'
    BY <1>13, <1>b DEF Shape, release, Frees, Enters, KnownTo
  <2>3. WrittenBy(p)'
    BY <1>13, <1>b DEF Shape, release, Frees, Enters, WrittenBy
  <2>4. CheckedBy(p)'
    BY <1>13 DEF Shape, release, Frees, Enters, CheckedBy, WrongArguments
  <2> QED
    BY <2>1, <2>2, <2>3, <2>4
<1>14. CASE tw_end(p)
  <2>1. HeldBy(p)'
    BY <1>14, <1>a, <1>b DEF Shape, tw_end, HeldBy
  <2>2. KnownTo(p)'
    BY <1>14, <1>b DEF Shape, tw_end, KnownTo
  <2>3. WrittenBy(p)'
    BY <1>14, <1>b DEF Shape, tw_end, WrittenBy
  <2>4. CheckedBy(p)'
    BY <1>14 DEF Shape, tw_end, CheckedBy, WrongArguments
  <2> QED
    BY <2>1, <2>2, <2>3, <2>4
<1>15. CASE Killed(p)
  <2>1. HeldBy(p)'
    BY <1>15, <1>a, <1>b DEF Shape, Killed, HeldBy
  <2>2. KnownTo(p)'
    BY <1>15, <1>b DEF Shape, Killed, KnownTo
  <2>3. WrittenBy(p)'
    BY <1>15, <1>b DEF Shape, Killed, WrittenBy
  <2>4. CheckedBy(p)'
    BY <1>15 DEF Shape, Killed, CheckedBy, WrongArguments
  <2> QED
    BY <2>1, <2>2, <2>3, <2>4
<1> QED
  BY <1>3, <1>4, <1>5, <1>6, <1>7, <1>8, <1>9, <1>10, <1>11, <1>12, <1>13, <1>14, <1>15 DEF Step

-----------------------------------------------------------------------------
\* doryta.main.c:175-366. What main() has established at every stage, on every PE.
THEOREM Invariance == Spec => []Inv
<1>1. Inv /\ [Next]_vars => Inv'
  <2> SUFFICES ASSUME Inv, [Next]_vars PROVE Inv'
    OBVIOUS
  <2>1. CASE UNCHANGED vars
    <3>1. Shape' /\ PEs' = PEs
      BY <2>1 DEF vars, Inv, Shape, PEs
    <3>2. ASSUME NEW p \in PEs PROVE Good(p)'
      <4>1. Good(p)
        BY DEF Inv
      <4>2. /\ Model' = Model /\ Spikes' = Spikes
            /\ StateFile(p)' = StateFile(p) /\ Kept' = Kept
            /\ ParamsFile(p)' = ParamsFile(p) /\ ProbeFiles(p)' = ProbeFiles(p)
        BY <2>1 DEF vars, Model, Spikes, SpikesFile, StateFile, Fails, Kept, ParamsFile,
                       ProbeFiles
      <4> QED
        BY <2>1, <4>1, <4>2
           DEF vars, Good, HeldBy, KnownTo, WrittenBy, CheckedBy, WrongArguments
    <3> QED
      BY <3>1, <3>2 DEF Inv
  <2>2. ASSUME NEW p \in PEs, Step(p) PROVE Inv'
    <3>1. Shape' /\ OnlyBy(p)
      BY <2>2, StepByOne DEF Inv
    <3>2. PEs' = PEs
      BY <3>1 DEF OnlyBy, Given, PEs
    <3>3. \A q \in PEs : Good(q)'
      BY <2>2, <3>1, OwnKept, OthersKept
    <3> QED
      BY <3>1, <3>2, <3>3 DEF Inv
  <2> QED
    BY <2>1, <2>2 DEF Next
<1> QED
  BY <1>1, InitInv, PTL DEF Spec

\* doryta.main.c:252-262, 341-361. Whatever the options and whoever is first, a PE that
\* gets to the end has written the files it was asked for and has let go of what it held,
\* except for the layout of the Game of Life and the file of the spikes.
THEOREM EndsClean == Spec => []CleanEnd
<1>1. ASSUME Inv, NEW p \in PEs, at[p] = "ended"
      PROVE  /\ files[p] = Asked(p) \ Unwritable(p)
             /\ held[p] = Kept
  <2>1. Good(p)
    BY <1>1 DEF Inv
  <2>2. options.probes \subseteq {"firing", "voltage", "stats"}
    BY <1>1, OptionsTyped DEF Inv, Shape
  <2>3. files[p] = ParamsFile(p) \cup StateFile(p) \cup ProbeFiles(p)
    BY <1>1, <2>1 DEF Good, WrittenBy
  <2>4. CASE Fails("state file", p)
    <3>1. ~ Fails("probe files", p)
      BY <2>4 DEF Fails
    <3> QED
      BY <1>1, <2>1, <2>2, <2>3, <2>4, <3>1
         DEF Good, HeldBy, Asked, Unwritable, ParamsFile, StateFile, ProbeFiles
  <2>5. CASE Fails("probe files", p)
    <3>1. ~ Fails("state file", p)
      BY <2>5 DEF Fails
    <3> QED
      BY <1>1, <2>1, <2>2, <2>3, <2>5, <3>1
         DEF Good, HeldBy, Asked, Unwritable, ParamsFile, StateFile, ProbeFiles
  <2>6. CASE ~ Fails("state file", p) /\ ~ Fails("probe files", p)
    BY <1>1, <2>1, <2>2, <2>3, <2>6
       DEF Good, HeldBy, Asked, Unwritable, ParamsFile, StateFile, ProbeFiles
  <2> QED
    BY <2>4, <2>5, <2>6
<1>2. Inv => CleanEnd
  BY <1>1 DEF CleanEnd, Kept
<1> QED
  BY <1>2, Invariance, PTL

\* doryta.main.c:243-323. No LP is run on a PE that lacks what its handlers, its probes
\* and its finalisation rely on.
THEOREM Prepared == Spec => []RunsPrepared
<1>1. ASSUME Inv, NEW p \in PEs, at[p] \in {"running", "probes done"}
      PROVE  settings[p].probe_events \cup settings[p].save_state_handler \cup {"layout"}
                \subseteq held[p]
  <2>1. Good(p)
    BY <1>1 DEF Inv
  <2> QED
    BY <1>1, <2>1 DEF Good, HeldBy, KnownTo, Model, StateFile, Fails
<1>2. Inv => RunsPrepared
  BY <1>1 DEF RunsPrepared
<1> QED
  BY <1>2, Invariance, PTL
=============================================================================
