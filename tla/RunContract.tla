----------------------------- MODULE RunContract -----------------------------
(***************************************************************************)
(* What a run of do-dba promises, whatever happens in between (README.md,  *)
(* "Safety" and "Done is a claim, not a fact"): nothing reaches a server   *)
(* that the guard blocks, or that it flags and nobody approved for that    *)
(* very step; one step takes effect at most once and in order; a dry run   *)
(* touches nothing; and "done" is said only over checks that came back     *)
(* clean.  AgentLoop implements this.                                      *)
(***************************************************************************)
EXTENDS Naturals

CONSTANTS Hosts, Commands, Verdict, Standing, MaxSteps

VARIABLES
  dry,       \* the run was started as a dry run
  approved,  \* the numbered work a person or a switch said yes to
  permit,    \* the work about to run: one element at most
  effects,   \* the numbered work that reached a server
  evidence,  \* what the latest checks showed
  status     \* "running", then how the run ended

vars == <<dry, approved, permit, effects, evidence, status>>

Numbered == (1 .. MaxSteps) \X Hosts \X Commands

Endings == {"done", "unverified", "aborted", "exhausted", "failed", "api-error", "stuck"}

Outcomes(command) ==
  IF Verdict[command] = "allow"
  THEN {"passed", "failed", "unusable", "unreachable"}
  ELSE {"skipped"}

Init ==
  /\ dry \in BOOLEAN
  /\ approved = {}
  /\ permit = {}
  /\ effects = {}
  /\ evidence = [p \in {} |-> "pending"]
  /\ status = "running"

Approve(w) ==
  /\ status = "running"
  /\ Verdict[w[3]] # "block"
  /\ approved' = approved \cup {w}

\* Consent without anything to follow it: a rehearsal.
Rehearse(w) ==
  /\ Approve(w)
  /\ dry
  /\ UNCHANGED <<dry, permit, effects, evidence, status>>

Permit(w) ==
  /\ status = "running"
  /\ ~dry
  /\ permit = {}
  /\ \A e \in effects : e[1] < w[1]
  /\ \/ Verdict[w[3]] = "allow" /\ UNCHANGED approved
     \/ Approve(w)
  /\ permit' = {w}
  /\ UNCHANGED <<dry, effects, evidence, status>>

TakeEffect ==
  /\ status = "running"
  /\ permit # {}
  /\ effects' = effects \cup permit
  /\ permit' = {}
  /\ UNCHANGED <<dry, approved, evidence, status>>

\* A verification starts over, and covers the standing checks on every server.
StartChecks ==
  /\ status = "running"
  /\ ~dry
  /\ Hosts \X Standing \subseteq DOMAIN evidence'
  /\ evidence' = [p \in DOMAIN evidence' |-> "pending"]
  /\ UNCHANGED <<dry, approved, permit, effects, status>>

LookAt(p) ==
  /\ status = "running"
  /\ p \in DOMAIN evidence
  /\ evidence[p] = "pending"
  /\ \E o \in Outcomes(p[2]) : evidence' = [evidence EXCEPT ![p] = o]
  /\ UNCHANGED <<dry, approved, permit, effects, status>>

\* A run may end on a step whose fate is unknown, and never on an unproven "done".
End(s) ==
  /\ status = "running"
  /\ s = "done" => \A p \in DOMAIN evidence : evidence[p] \in {"passed", "skipped"}
  /\ status' = s
  /\ effects' \in {effects, effects \cup permit}
  /\ permit' = {}
  /\ UNCHANGED <<dry, approved, evidence>>

Next ==
  \/ \E w \in Numbered : Rehearse(w)
  \/ \E w \in Numbered : Permit(w)
  \/ TakeEffect
  \/ StartChecks
  \/ \E p \in Hosts \X Commands : LookAt(p)
  \/ \E s \in Endings : End(s)

Spec == Init /\ [][Next]_vars
=============================================================================
