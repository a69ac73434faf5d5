---------------------------- MODULE MCRekorAnchor ----------------------------
(* Two runs of `verify`; one of the two places in the log may go to somebody *)
(* else.  No symmetry: the run checks liveness as well.                      *)
EXTENDS RekorAnchor

CONSTANTS r1, r2

MCRuns == {r1, r2}
=============================================================================
