-------------------------- MODULE MCBackendHistory --------------------------
(***************************************************************************)
(* Instance of BackendHistory for TLC                                      *)
(***************************************************************************)
EXTENDS BackendHistory, TLC

Alike == Permutations(Backends)
=============================================================================
