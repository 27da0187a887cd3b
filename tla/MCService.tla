----------------------------- MODULE MCService -----------------------------
(* A small instance of Service: one worker, and two deliveries, of which   *)
(* both, one or none may be worth a wake-up; or one and an edit of         *)
(* WORKFLOW.md; or two edits.                                              *)
EXTENDS Service, TLC

CONSTANTS d1, d2, w1

TwoDeliveries == {d1, d2}
OneWorker == {w1}

Delivery(kind, action, project, field) ==
  [kind |-> kind, action |-> action, project |-> project, field |-> field]

Began == Delivery("agentsessionevent", "created", "none", "sortorder")
Moved == Delivery("issue", "update", "none", "stateid")
Closed == Delivery("pull_request", "closed", "watched", "sortorder")
Removed == Delivery("issuelabel", "remove", "other", "sortorder")

SomeDeliveries ==
  {(d1 :> Moved @@ d2 :> Closed), (d1 :> Began @@ d2 :> Removed), (d1 :> Moved), <<>>}
=============================================================================
