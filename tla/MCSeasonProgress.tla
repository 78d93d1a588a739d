-------------------------- MODULE MCSeasonProgress --------------------------
(***************************************************************************)
(* Small instances of SeasonProgress: a crop with a step of the preparing  *)
(* phase, care that may be repeated, a harvest, and, as for one of the     *)
(* seeded crops, a post-harvest step that may be repeated.                 *)
(***************************************************************************)
EXTENDS SeasonProgress, TLC

CONSTANTS prepare, care, harvest, store

MCSteps == {prepare, care, harvest, store}
MCOrder == (prepare :> 10) @@ (care :> 31) @@ (harvest :> 40) @@ (store :> 50)
MCRepeated == {care, store}
MCPostHarvest == {store}

\* The steps of a crop that needs no more than its first and its last.
ShortSteps == {prepare, store}
ShortOrder == (prepare :> 10) @@ (store :> 50)

Symmetry == Permutations(Details) \cup Permutations(Logs) \cup Permutations(Calls)
=============================================================================
