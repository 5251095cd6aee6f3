--------------------------- MODULE MCInferenceRetry ---------------------------
(***************************************************************************)
(* A small instance of InferenceRetry: half a minimum pause is the unit,   *)
(* the budget pays for two minimum pauses and a half, the schedule grows   *)
(* past what is left, and a header may ask for no wait, a short one, one   *)
(* that ends exactly at the budget, or more than the budget.               *)
(***************************************************************************)
EXTENDS InferenceRetry

MCBackoff == <<2, 3, 4>>

\* A complaint about each parameter alone, about none of them, and three of more than
\* one: "stream_options.include_usage" mentions the usage extension too.
MCComplaints ==
  {{p} : p \in Adjustable} \cup
  {{}, {"stream_options", "usage"}, {"temperature", "top_p"}, Adjustable}
=============================================================================
