------------------------------- MODULE MCKeeper -------------------------------
(***************************************************************************)
(* Small instances of Keeper: a run on one server and a run on two, in     *)
(* either order.                                                           *)
(***************************************************************************)
EXTENDS Keeper, TLC

CONSTANTS r1, r2, h1, h2, root, repl

MCFleet == r1 :> {h1} @@ r2 :> {h1, h2}

\* The two names play the same part.
AnyName == Permutations({root, repl})

\* No run is followed further once it has used two credentials, or one on two servers.
FewUses == \A r \in Runs : Cardinality(given[r]) <= 1
=============================================================================
