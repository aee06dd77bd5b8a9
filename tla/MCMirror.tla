------------------------------ MODULE MCMirror ------------------------------
(* An instance of Mirror for TLC: no definition is needed beyond the model *)
(* values of the configuration.                                            *)
EXTENDS Mirror
=============================================================================
