----------------------------- MODULE MCPipelines -----------------------------
(***************************************************************************)
(* Two clients who both work on one pipeline.  Symmetry is sound in the    *)
(* run that checks an invariant, not in the one that checks liveness.      *)
(***************************************************************************)
EXTENDS Pipelines, TLC

CONSTANTS c1, c2, p1

MCClients == {c1, c2}

MCNames == {p1}

Symmetry == Permutations(MCClients)
=============================================================================
