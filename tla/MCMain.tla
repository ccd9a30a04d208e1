-------------------------------- MODULE MCMain --------------------------------
(***************************************************************************)
(* One to three PEs, which the five-neuron example does not accept, and    *)
(* every combination of the options that main() looks at.                  *)
(***************************************************************************)
EXTENDS Main

MCProbeChoices == {{}, {"firing"}, {"voltage", "stats"}, {"firing", "voltage", "stats"}}
=============================================================================
