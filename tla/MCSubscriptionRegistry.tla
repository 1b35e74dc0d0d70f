----------------------- MODULE MCSubscriptionRegistry -----------------------
(***************************************************************************)
(* The instances of SubscriptionRegistry that TLC checks.                  *)
(***************************************************************************)
EXTENDS SubscriptionRegistry, TLC

CONSTANTS a, b

MCPieces == {a, b, Wildcard}

(* Two plain types that share a piece, and the wildcard type over both.    *)
MCTypes == {<<a, a>>, <<a, b>>, <<a, Wildcard>>}

(* One plain type, where matching does not matter.                         *)
MCOneType == {<<a>>}

(* No property tells two PUTs or two URLs apart.                           *)
Symmetry == Permutations(Replaces) \cup Permutations(Urls)
=============================================================================
