SPECIFICATION Spec
CONSTANTS
    PEs = {"a", "b"}
    PEOf <- MCPEOf
    Neurons <- MCNeurons
    Synapses <- MCSynapses
    SpikeInputs <- MCSpikeInputs
    InitialNeuron <- MCInitialNeuron
    Beat = 2
    End = 8
    SpikeDriven = FALSE
    BetaNum = 1
    BetaDen = 2
    neuron_leak <- neurons_lif_beta_leak
    neuron_leak_bigdt <- NoBigLeak
    neuron_integrate <- neurons_lif_beta_integrate
    neuron_fire <- neurons_lif_beta_fire
    store_neuron <- neurons_lif_beta_store_state
    reverse_store_neuron <- neurons_lif_beta_reverse_store_state
    leak_bigdt_ready <- BigLeakForbidden
INVARIANTS
    UndoRestores
PROPERTIES
    ImplementsSequential
