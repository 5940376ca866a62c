----------------------------- MODULE Scheduler -----------------------------
(***************************************************************************)
(* The single lane of extension/src/scheduler.ts.  Every subprocess the    *)
(* editor starts (lint, formatting, the four query lanes, the rule help)   *)
(* goes through one of these lanes.  A request waits in `pending', runs as *)
(* `active', and its promise settles exactly once.  Callers withdraw a     *)
(* request by submitting the same key again, by cancelling the key, by     *)
(* their own abort signal, or by stopping the whole lane.                  *)
(*                                                                         *)
(* JavaScript runs one callback to completion, so every method is one      *)
(* atomic step.  The interleavings are those of the awaits: the operation  *)
(* returns (Return), and only a later microtask resumes `execute' (Finish).*)
(***************************************************************************)
EXTENDS Integers, FiniteSets

CONSTANTS
  Requests,    \* the calls of submit, each made at most once
  Keys,        \* the keys callers use
  Priorities,  \* -1 typing, 0 background, 1 save or open, 2 manual
  Limit,       \* how many requests may wait
  Signals,     \* the calls that pass an abort signal of their own
  None         \* no active request

ASSUME LaneAssumption ==
  /\ IsFiniteSet(Requests)
  /\ Priorities \subseteq Int
  /\ Limit \in Nat \ {0}
  /\ Signals \subseteq Requests
  /\ None \notin Requests

VARIABLES
  key,        \* the arguments each call of submit is made with; they never
  priority,   \*   change, and Init enumerates every assignment
  pending,    \* Scheduler.pending; its insertion order is the order of `turn'
  active,     \* Scheduler.active
  phase,      \* how far the active operation is: its promise, then execute
  abort,      \* each request's AbortController, with the first reason given
  outcome,    \* each request's promise
  signalled,  \* the caller's own signal has been aborted
  attached,   \* requests listening to their caller's signal
  stopped,    \* Scheduler.stopped
  joining,    \* Scheduler.join after dispose: not called, waiting, returned
  joined,     \* the request whose `running' promise join is awaiting
  turn,       \* history: the order of the calls of submit (0: not called)
  clock,      \* history: how many calls there have been
  asked       \* history: requests some caller asked to withdraw

arguments == <<key, priority>>
vars == <<key, priority, pending, active, phase, abort, outcome, signalled,
          attached, stopped, joining, joined, turn, clock, asked>>

Running == {active} \ {None}

Waiting(r) == outcome[r] = "waiting"

Settled == {"undefined", "value", "error"}

TypeOK ==
  /\ key \in [Requests -> Keys]
  /\ priority \in [Requests -> Priorities]
  /\ pending \in SUBSET Requests
  /\ active \in Requests \cup {None}
  /\ phase \in {"idle", "running", "value", "error"}
  /\ abort \in [Requests -> {"no", "canceled", "preempted"}]
  /\ outcome \in [Requests -> {"new", "waiting"} \cup Settled]
  /\ signalled \in [Requests -> BOOLEAN]
  /\ attached \in SUBSET Requests
  /\ stopped \in BOOLEAN
  /\ joining \in {"no", "waiting", "returned"}
  /\ joined \in Requests \cup {None}
  /\ turn \in [Requests -> Nat]
  /\ clock \in Nat
  /\ asked \in SUBSET Requests

Init ==
  /\ key \in [Requests -> Keys]
  /\ priority \in [Requests -> Priorities]
  /\ pending = {}
  /\ active = None
  /\ phase = "idle"
  /\ abort = [r \in Requests |-> "no"]
  /\ outcome = [r \in Requests |-> "new"]
  /\ signalled = [r \in Requests |-> FALSE]
  /\ attached = {}
  /\ stopped = FALSE
  /\ joining = "no"
  /\ joined = None
  /\ turn = [r \in Requests |-> 0]
  /\ clock = 0
  /\ asked = {}

-----------------------------------------------------------------------------
(* The pieces the methods share.                                           *)

\* AbortController.abort: only the first reason counts.
Aborted(controllers, S, reason) ==
  [r \in Requests |-> IF r \in S /\ controllers[r] = "no"
                      THEN reason ELSE controllers[r]]

\* Promise resolution of every request in S.
Resolved(promises, S, result) ==
  [r \in Requests |-> IF r \in S THEN result ELSE promises[r]]

\* Request.detach of every request in S.
Detached(S) == attached \ S

WithKey(S, k) == {r \in S : key[r] = k}

\* The stable sort of pump: highest priority, then insertion order.
Foremost(n, S) ==
  \A q \in S \ {n} : \/ priority[n] > priority[q]
                     \/ priority[n] = priority[q] /\ turn[n] < turn[q]

\* The stable sort of submit: lowest priority, then insertion order.
Lowest(n, S) ==
  \A q \in S \ {n} : \/ priority[n] < priority[q]
                     \/ priority[n] = priority[q] /\ turn[n] < turn[q]

\* pump with an empty lane and the queue S.
MutPumpKeeps(S) ==
  \/ /\ S = {} \/ stopped
     /\ active' = None
     /\ phase' = "idle"
     /\ pending' = S
  \/ /\ ~stopped
     /\ \E n \in S :
          /\ Foremost(n, S)
          /\ active' = n
          /\ phase' = "running"
          /\ pending' = S

Pump(S) ==
  \/ /\ S = {} \/ stopped
     /\ active' = None
     /\ phase' = "idle"
     /\ pending' = S
  \/ /\ ~stopped
     /\ \E n \in S :
          /\ Foremost(n, S)
          /\ active' = n
          /\ phase' = "running"
          /\ pending' = S \ {n}

-----------------------------------------------------------------------------
(* submit, split at its early returns.  Each part starts with cancel(key). *)

Superseded(r) == WithKey(pending, key[r])

SupersededActive(r) == WithKey(Running, key[r])

StillPending(r) == pending \ Superseded(r)

OverLimit(r) == Cardinality(StillPending(r)) >= Limit

\* The active request typing work must give way to.
MutPreemptsAll(r) == {a \in Running : priority[r] >= 1}

MutPreemptsLate(r) == {a \in Running : priority[r] > 1 /\ priority[a] < 0}

Preempted(r) == {a \in Running : priority[r] >= 1 /\ priority[a] < 0}

Refused(r) == stopped \/ signalled[r]

SubmitCommon(r) ==
  /\ outcome[r] = "new"
  /\ clock' = clock + 1
  /\ turn' = [turn EXCEPT ![r] = clock + 1]
  /\ asked' = asked \cup Superseded(r) \cup SupersededActive(r)
  /\ UNCHANGED <<arguments, signalled, stopped, joining, joined>>

\* A stopped lane, an aborted signal, or a queue full of more important work:
\* the request settles at once.  It has superseded its key all the same, and a
\* request the full queue drops has preempted typing work.
Shed(r) ==
  /\ OverLimit(r)
  /\ \A q \in StillPending(r) : priority[q] > priority[r]

SubmitDropped(r) ==
  /\ Refused(r) \/ Shed(r)
  /\ SubmitCommon(r)
  /\ abort' = Aborted(Aborted(abort, Superseded(r) \cup SupersededActive(r),
                              "canceled"),
                      IF Refused(r) THEN {} ELSE Preempted(r), "preempted")
  /\ outcome' = Resolved(outcome, Superseded(r) \cup {r}, "undefined")
  /\ attached' = Detached(Superseded(r))
  /\ pending' = StillPending(r)
  /\ UNCHANGED <<active, phase>>

\* The requests a full queue gives up for r: the lowest one, unless it is more
\* important than r.
Victims(r, evicted) ==
  IF OverLimit(r)
  THEN /\ \E low \in StillPending(r) :
            /\ Lowest(low, StillPending(r))
            /\ priority[low] <= priority[r]
            /\ evicted = {low}
  ELSE evicted = {}

SubmitQueued(r) ==
  /\ ~Refused(r)
  /\ SubmitCommon(r)
  /\ \E evicted \in SUBSET StillPending(r) :
       /\ Victims(r, evicted)
       /\ LET gone == Superseded(r) \cup evicted
              \* cancel(lowest.key) also aborts an active request of that key
              hit  == SupersededActive(r)
                        \cup {a \in Running : \E v \in evicted : key[a] = key[v]}
          IN  /\ abort' = Aborted(Aborted(Aborted(abort,
                                    Superseded(r) \cup SupersededActive(r),
                                    "canceled"),
                                  Preempted(r), "preempted"),
                                gone \cup hit, "canceled")
              /\ outcome' = [Resolved(outcome, gone, "undefined")
                               EXCEPT ![r] = "waiting"]
              /\ attached' = Detached(gone) \cup ({r} \cap Signals)
              /\ IF active = None
                 THEN Pump((pending \ gone) \cup {r})
                 ELSE /\ pending' = (pending \ gone) \cup {r}
                      /\ UNCHANGED <<active, phase>>

Submit(r) == SubmitDropped(r) \/ SubmitQueued(r)

-----------------------------------------------------------------------------
(* Withdrawal.                                                             *)

\* cancel for every key in K.
MutCancelUnsettled(K) ==
  LET gone == {r \in pending : key[r] \in K}
      hit  == {r \in Running : key[r] \in K}
  IN  /\ abort' = Aborted(abort, gone \cup hit, "canceled")
      /\ pending' = pending \ gone
      /\ attached' = Detached(gone)
      /\ UNCHANGED <<active, phase, outcome>>

CancelKeys(K) ==
  LET gone == {r \in pending : key[r] \in K}
      hit  == {r \in Running : key[r] \in K}
  IN  /\ abort' = Aborted(abort, gone \cup hit, "canceled")
      /\ outcome' = Resolved(outcome, gone, "undefined")
      /\ pending' = pending \ gone
      /\ attached' = Detached(gone)
      /\ UNCHANGED <<active, phase>>

Cancel(k) ==
  /\ CancelKeys({k})
  /\ asked' = asked \cup WithKey(pending \cup Running, k)
  /\ UNCHANGED <<arguments, signalled, stopped, joining, joined, turn, clock>>

CancelAll ==
  /\ CancelKeys(Keys)
  /\ asked' = asked \cup pending \cup Running
  /\ UNCHANGED <<arguments, signalled, stopped, joining, joined, turn, clock>>

Dispose ==
  /\ ~stopped
  /\ stopped' = TRUE
  /\ CancelKeys(Keys)
  /\ asked' = asked \cup pending \cup Running
  /\ UNCHANGED <<arguments, signalled, joining, joined, turn, clock>>

\* The caller's signal fires.  The listener aborts the request if it is active,
\* and cancels its key if it is the one waiting under that key.
SignalAbort(r) ==
  /\ r \in Signals
  /\ ~signalled[r]
  /\ signalled' = [signalled EXCEPT ![r] = TRUE]
  /\ IF r \in attached /\ r \in pending
     THEN /\ CancelKeys({key[r]})
     ELSE /\ abort' = Aborted(abort, {r} \cap attached \cap Running, "canceled")
          /\ attached' = Detached({r})
          /\ UNCHANGED <<pending, active, phase, outcome>>
  /\ asked' = asked \cup ({r} \cap attached)
  /\ UNCHANGED <<arguments, stopped, joining, joined, turn, clock>>

-----------------------------------------------------------------------------
(* The active operation.                                                   *)

\* request.run's promise settles, with or without regard to its signal.
Return(result) ==
  /\ phase = "running"
  /\ phase' = result
  /\ UNCHANGED <<arguments, pending, active, abort, outcome, signalled, attached,
                 stopped, joining, joined, turn, clock, asked>>

\* What execute settles the active request with.
MutDeliversLate == phase

MutDeliversPreempted == IF abort[active] = "canceled" THEN "undefined" ELSE phase

Answer == IF abort[active] # "no" THEN "undefined" ELSE phase

\* execute resumes: settle the request, release the lane, start the next one.
Finish ==
  /\ phase \in {"value", "error"}
  /\ outcome' = [outcome EXCEPT ![active] = Answer]
  /\ attached' = Detached({active})
  /\ Pump(pending)
  /\ UNCHANGED <<arguments, abort, signalled, stopped, joining, joined, turn,
                 clock, asked>>

-----------------------------------------------------------------------------
(* join: `while (this.active) await this.running'.  Both owners call it    *)
(* after dispose.                                                          *)

JoinCall ==
  /\ stopped
  /\ joining = "no"
  /\ joining' = IF active = None THEN "returned" ELSE "waiting"
  /\ joined' = active
  /\ UNCHANGED <<arguments, pending, active, phase, abort, outcome, signalled,
                 attached, stopped, turn, clock, asked>>

JoinResume ==
  /\ joining = "waiting"
  /\ joined # active
  /\ joining' = IF active = None THEN "returned" ELSE "waiting"
  /\ joined' = active
  /\ UNCHANGED <<arguments, pending, active, phase, abort, outcome, signalled,
                 attached, stopped, turn, clock, asked>>

-----------------------------------------------------------------------------

Operation == Return("value") \/ Return("error")

Next ==
  \/ \E r \in Requests : Submit(r)
  \/ \E r \in Requests : SignalAbort(r)
  \/ \E k \in Keys : Cancel(k)
  \/ CancelAll
  \/ Dispose
  \/ Operation
  \/ Finish
  \/ JoinCall
  \/ JoinResume

\* The event loop resumes every ready continuation, and every operation the
\* lane runs ends (each is a subprocess whose exit settles its promise).
Fairness == WF_vars(Operation) /\ WF_vars(Finish) /\ WF_vars(JoinResume)

Spec == Init /\ [][Next]_vars /\ Fairness

-----------------------------------------------------------------------------
(* Properties.                                                             *)

\* A caller's promise is waiting exactly while the lane still owns its request,
\* queued or active: no request is forgotten by an eviction, a cancellation or
\* a hand-over, and none is kept after its promise settled (lines 66-100).
NoRequestLost ==
  /\ \A r \in Requests : Waiting(r) <=> r \in pending \cup Running
  /\ pending \cap Running = {}

\* The lane never idles while it has work: after any step either something runs
\* or nothing waits, a stopped lane included (lines 63, 76-87 and 95-98).
WorkConserving == active = None => pending = {}

\* Latest key wins: at most one request waits under a key, and an older request
\* of that key that is still running has been aborted, so its late answer cannot
\* be delivered (lines 29, 62 and 91).
LatestKeyWins ==
  /\ \A q, r \in pending : key[q] = key[r] => q = r
  /\ \A a \in Running, r \in pending : key[a] = key[r] => abort[a] # "no"

\* Explicit work never waits behind healthy typing work: whenever a request of
\* priority 1 or more waits, an active typing request has been aborted, also when
\* the typing request started while other work was queued (lines 31-34, 78-80).
ExplicitWorkPreempts ==
  \A a \in Running, r \in pending :
    priority[a] < 0 /\ priority[r] >= 1 => abort[a] # "no"

\* The active request is aborted only because someone asked for it: its own key,
\* its own signal, a stopped lane, or explicit work over typing.  Evicting or
\* cancelling a queued request never takes down unrelated healthy work, although
\* both go through cancel(key), which aborts whatever is active under that key
\* (lines 39, 60 and 67).
OnlyAskedAborts ==
  \A a \in Running :
    /\ abort[a] = "canceled" => a \in asked
    /\ abort[a] = "preempted" => priority[a] < 0

\* A long-lived caller's signal keeps no listener of a settled request
\* (lines 56, 71 and 96).
NoListenerLeak == attached \subseteq pending \cup Running

\* The queue never outgrows its limit (lines 51-62).
QueueBounded == Cardinality(pending) <= Limit

\* A full queue gives up the least important request: nothing that stays queued
\* is less important than a request evicted without anybody asking for it
\* (lines 51-61).
EvictsLeastImportant ==
  [][\A r \in pending :
       outcome'[r] = "undefined" /\ r \notin asked' =>
         \A q \in pending' : priority[r] <= priority[q]]_vars

\* After dispose, a returned join means the lane is quiet for good: nothing runs
\* and nothing waits (lines 105-111).
QuietAfterJoin == joining = "returned" => active = None /\ pending = {}

\* A promise settles once and never delivers the answer of a request that was
\* superseded, cancelled or preempted before the lane resumed, even when its
\* process had already answered (lines 90-94).
DeliverOnce ==
  \A r \in Requests :
    /\ outcome[r] \in Settled => outcome'[r] = outcome[r]
    /\ Waiting(r) /\ outcome'[r] \in {"value", "error"} =>
         /\ abort[r] = "no"
         /\ \A q \in Requests : key[q] = key[r] => turn[q] <= turn[r]

NoStaleDelivery == [][DeliverOnce]_vars

\* Every promise a caller holds settles, whatever is submitted, evicted or
\* aborted around it.
EveryRequestSettles == \A r \in Requests : Waiting(r) ~> ~Waiting(r)

\* join returns once the lane is stopped.
JoinReturns == joining = "waiting" ~> joining = "returned"

-----------------------------------------------------------------------------
(* The lane the callers see.                                               *)

Stage(r) ==
  IF outcome[r] = "new" THEN "new"
  ELSE IF outcome[r] \in Settled THEN "settled"
  ELSE IF r = active THEN "running" ELSE "queued"

Result(r) == IF outcome[r] \in Settled THEN outcome[r] ELSE "none"

L == INSTANCE Lane WITH
       stage <- [r \in Requests |-> Stage(r)],
       result <- [r \in Requests |-> Result(r)],
       withdrawn <- {r \in Requests : abort[r] # "no"}

\* The queue, its priorities, its limit and its cancellations together keep the
\* promise of a lane: one operation at a time, forward only, nothing delivered
\* for withdrawn work (the class comment at line 13).
ImplementsLane == L!Spec

=============================================================================
