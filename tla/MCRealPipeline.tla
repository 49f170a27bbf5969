--------------------------- MODULE MCRealPipeline ---------------------------
\* RealPipeline for TLC: three token ids, two configurations, and intra-layer
\* captures that hold all stages, the last one only, or none.
EXTENDS RealPipeline

CONSTANTS a, b, c, c1, c2

MCId == {a, b, c}
MCConfig == {"none", c1, c2}
MCStageCaptures == {Stages, {StageCount - 1}, {}}

\* Token ids and configurations are only compared.
Symmetry == Permutations(MCId) \cup Permutations({c1, c2})
=============================================================================
