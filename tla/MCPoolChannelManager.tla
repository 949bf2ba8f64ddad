------------------------ MODULE MCPoolChannelManager ------------------------
(* Two connections and a handful of channels and templates for TLC. *)
EXTENDS PoolChannelManager, TLC

\* Connections are interchangeable: their ids are only compared for equality.
ConnectionSymmetry == Permutations(Downstream)

=============================================================================
