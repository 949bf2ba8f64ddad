------------------------ MODULE MCTranslatorSv1Server ------------------------
EXTENDS TranslatorSv1Server, TLC

\* Aggregated channels with vardiff, and a channel for each miner without it.
TwoModes == {[aggregated |-> b, vardiff |-> b] : b \in BOOLEAN}

\* Miners are interchangeable.
Symmetry == Permutations(Miner)

=============================================================================
