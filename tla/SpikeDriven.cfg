SPECIFICATION ProbedSpec
CONSTANTS
    Neurons <- MCNeurons
    Synapses <- MCSynapses
    SpikeInputs <- MCSpikeInputs
    InitialNeuron <- MCInitialNeuron
    Beat = 2
    End = 11
    SpikeDriven = TRUE
    firing_buffer_size = 3
    voltage_buffer_size = 5
    only_output_neurons = FALSE
    LeakNum = 1
    LeakDen = 2
    DecayKeep = 1
    neuron_leak <- neurons_lif_leak
    neuron_leak_bigdt <- neurons_lif_big_leak
    neuron_integrate <- neurons_lif_integrate
    neuron_fire <- neurons_lif_fire
    store_neuron <- neurons_lif_store_state
    reverse_store_neuron <- neurons_lif_reverse_store_state
    leak_bigdt_ready <- BigLeakAllowed
INVARIANTS
    TypeOK
    HeartbeatProtocol
    FirstRecorded
    SpikesConserved
    HandlerAsserts
PROPERTIES
    ScheduledAhead
    HeartbeatComes
    ImplementsNetwork
