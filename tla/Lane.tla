-------------------------------- MODULE Lane --------------------------------
(***************************************************************************)
(* What a lane promises its callers, whatever queue, priorities and limit  *)
(* it uses: one request runs at a time, a request goes only forward, its   *)
(* promise settles once, and a request that somebody withdrew delivers     *)
(* nothing.  extension/src/scheduler.ts states it in a line ("A single     *)
(* lane: latest key wins, canceled work is joined").                       *)
(***************************************************************************)

CONSTANT Requests

VARIABLES
  stage,     \* new, queued, running, settled
  result,    \* what the promise delivered: none, undefined, value, error
  withdrawn  \* requests that must not deliver anything any more

lane == <<stage, result, withdrawn>>

Init ==
  /\ stage = [r \in Requests |-> "new"]
  /\ result = [r \in Requests |-> "none"]
  /\ withdrawn = {}

Keep(r) == stage'[r] = stage[r] /\ result'[r] = result[r]

\* Accepted or refused at once.  Accepted work may start in the same step.
Enter(r) ==
  /\ stage[r] = "new"
  /\ \/ stage'[r] \in {"queued", "running"} /\ result'[r] = "none"
     \/ stage'[r] = "settled" /\ result'[r] = "undefined"

\* Only work nobody withdrew is started.
Start(r) ==
  /\ stage[r] = "queued" /\ r \notin withdrawn'
  /\ stage'[r] = "running" /\ result'[r] = "none"

\* Queued work is given up without running.
Drop(r) ==
  /\ stage[r] = "queued"
  /\ stage'[r] = "settled" /\ result'[r] = "undefined"

\* Running work settles; withdrawn work is joined but delivers nothing.
Settle(r) ==
  /\ stage[r] = "running"
  /\ stage'[r] = "settled"
  /\ result'[r] \in IF r \in withdrawn THEN {"undefined"} ELSE {"value", "error"}

\* One callback of the program may settle one request and start another.
Next ==
  /\ stage' \in [Requests -> {"new", "queued", "running", "settled"}]
  /\ result' \in [Requests -> {"none", "undefined", "value", "error"}]
  /\ withdrawn \subseteq withdrawn'
  /\ \A r \in Requests : Keep(r) \/ Enter(r) \/ Start(r) \/ Drop(r) \/ Settle(r)
  /\ \A q, r \in Requests :
       stage'[q] = "running" /\ stage'[r] = "running" => q = r

Spec == Init /\ [][Next]_lane

=============================================================================
