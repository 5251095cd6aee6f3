---------------------------- MODULE MCScriptStaging ----------------------------
(***************************************************************************)
(* Small instances of ScriptStaging: a run of two steps and a run of one,  *)
(* in either order or, where they may overlap, together.                   *)
(***************************************************************************)
EXTENDS ScriptStaging, TLC

CONSTANTS a, b

MCLast == a :> 2 @@ b :> 1

\* A later script that does not parse, and a first one.
MCMalformed == {<<a, 2>>, <<b, 1>>}
=============================================================================
