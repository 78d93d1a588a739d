-------------------------- MODULE MCLogVerification --------------------------
(***************************************************************************)
(* A small instance of LogVerification: two farms, each with a log of a    *)
(* step of its own, that used the same picture.                            *)
(***************************************************************************)
EXTENDS LogVerification, TLC

CONSTANTS l1, l2, s1, s2, farm1, farm2, picture

MCLogs == {l1, l2}

TwoSteps == (l1 :> s1) @@ (l2 :> s2)
TwoFarms == (l1 :> farm1) @@ (l2 :> farm2)
OnePicture == (l1 :> picture) @@ (l2 :> picture)

Symmetry == Permutations(Calls)
=============================================================================
