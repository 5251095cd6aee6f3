----------------------------- MODULE MCAgentLoop -----------------------------
(***************************************************************************)
(* Small instances of AgentLoop for TLC.                                   *)
(***************************************************************************)
EXTENDS AgentLoop, TLC

CONSTANTS h1, h2, all, select, drop, wipe

MCVerdict == select :> "allow" @@ drop :> "confirm" @@ wipe :> "block"

\* A done step with no check, one scoped to a server, and one everywhere that the
\* guard will not let the harness run.
MCVerifySets ==
  {{}, {[scope |-> h1, command |-> select]}, {[scope |-> all, command |-> drop]}}

Interactive ==
  [dry |-> FALSE, stepwise |-> FALSE, keep |-> TRUE, capped |-> FALSE, answers |-> BOOLEAN]

\* One person at the terminal, for the long histories.
InteractiveOnly == {Interactive}

\* A capped run; --mode step; a dry run with --yes; an unattended run that keeps
\* nothing on the servers; a run with no terminal to ask on.
EveryMode ==
  {[Interactive EXCEPT !.capped = TRUE],
   [Interactive EXCEPT !.stepwise = TRUE],
   [Interactive EXCEPT !.dry = TRUE, !.answers = {TRUE}],
   [Interactive EXCEPT !.keep = FALSE, !.capped = TRUE, !.answers = {TRUE}],
   [Interactive EXCEPT !.answers = {FALSE}]}
=============================================================================
