---------------------------- MODULE MCScheduler ----------------------------
(* A small lane for TLC.  Requests and keys are interchangeable, but a      *)
(* liveness property is checked, so the reduction is made by hand.          *)
EXTENDS Scheduler

\* One typing, one background and one explicit priority.
MCPriorities == {-1, 0, 1}

\* Bound: the requests with a signal are numbered in the order of their
\* priorities, those without one too, and the first of all has the first key:
\* every other assignment is one of these, renamed.
Ordered ==
  /\ \A q, r \in Requests :
       q < r /\ (q \in Signals <=> r \in Signals) => priority[q] <= priority[r]
  /\ \A r \in Requests : (\A q \in Requests : r <= q) =>
                             key[r] = CHOOSE k \in Keys : TRUE

LiveInit == Init /\ Ordered

LiveSpec == LiveInit /\ [][Next]_vars /\ Fairness

=============================================================================
