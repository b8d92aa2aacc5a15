------------------------ MODULE MCReleaseController ------------------------
(* Two versions and two services: enough for an activation, the return to    *)
(* what it found, and a second service on the same link.                     *)
EXTENDS ReleaseController, TLC

Symmetry == Permutations(Services) \cup Permutations(Sessions)
=============================================================================
