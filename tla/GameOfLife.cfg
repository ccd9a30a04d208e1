SPECIFICATION GoLSpec
CONSTANTS
    width_world = 3
    Neurons <- GoLNeurons
    Synapses <- GoLSynapses
    SpikeInputs <- GoLSpikeInputs
    InitialNeuron <- GoLInitialNeuron
    Beat = 2
    End = 12
    SpikeDriven = TRUE
    LeakNum = 1
    LeakDen = 1
    DecayKeep = 0
    neuron_leak <- neurons_lif_leak
    neuron_leak_bigdt <- neurons_lif_big_leak
    neuron_integrate <- neurons_lif_integrate
    neuron_fire <- neurons_lif_fire
    store_neuron <- neurons_lif_store_state
    reverse_store_neuron <- neurons_lif_reverse_store_state
    leak_bigdt_ready <- BigLeakAllowed
PROPERTY
    ImplementsLife
CHECK_DEADLOCK FALSE
