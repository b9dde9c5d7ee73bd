----------------------------- MODULE MCReleases -----------------------------
(***************************************************************************)
(* Instances of Releases, and with it of Versions, for TLC.                *)
(***************************************************************************)
EXTENDS Releases, TLC

CONSTANTS a1, a2, good, bad, prod, open, strict

TwoActors == {a1, a2}

GoodOrBad == {good, bad}
Good      == {good}

Prod         == {prod}
TwoPolicies  == {open, strict}
ReadyInOpen  == {<<good, open>>}

Symmetry == Permutations(Actors)
=============================================================================
