------------------------------ MODULE Sv1Miners ------------------------------
(***************************************************************************)
(* The Stratum V1 miners of the translator: the parameters its tasks and    *)
(* its channel manager have in common.                                     *)
(***************************************************************************)
CONSTANTS
  Miner,      \* SV1 connections, by the ids downstream_id_factory gives them
  None        \* nothing: neither a miner nor an upstream, a channel or a factory

=============================================================================
