-------------------------- MODULE SchedulerProofs --------------------------
(* Theorems about Scheduler, for every set of requests, keys and            *)
(* priorities and every limit.                                              *)
EXTENDS Scheduler, FiniteSetTheorems, TLAPS

\* The phase and the active request go together.
PhaseOK == active = None <=> phase = "idle"

\* A request that was not submitted has no turn and no reason to abort.
TurnOK ==
  /\ \A r \in Requests : turn[r] <= clock
  /\ \A r \in Requests : outcome[r] = "new" => turn[r] = 0 /\ abort[r] = "no"

\* Nobody withdrew what still waits in the queue.
QueueHealthy == \A r \in pending : abort[r] = "no"

\* Nothing newer was submitted under the key of a healthy request.
HealthyIsLatest ==
  \A q, r \in Requests :
    Waiting(r) /\ abort[r] = "no" /\ key[q] = key[r] => turn[q] <= turn[r]

\* A stopped lane only joins what it has aborted.
StoppedOK ==
  /\ stopped => pending = {} /\ \A a \in Running : abort[a] # "no"
  /\ joining # "no" => stopped

IInv ==
  /\ TypeOK
  /\ PhaseOK
  /\ TurnOK
  /\ QueueHealthy
  /\ HealthyIsLatest
  /\ StoppedOK
  /\ NoRequestLost
  /\ WorkConserving
  /\ LatestKeyWins
  /\ ExplicitWorkPreempts
  /\ OnlyAskedAborts
  /\ NoListenerLeak
  /\ QuietAfterJoin

-----------------------------------------------------------------------------

\* A new lane, with nothing submitted, satisfies the invariant.
LEMMA InitInvariant == Init => IInv
<1> SUFFICES ASSUME Init PROVE IInv
  OBVIOUS
<1> USE LaneAssumption DEF Init, Running, Waiting, Settled
<1>1. TypeOK BY DEF TypeOK
<1>2. PhaseOK /\ TurnOK /\ QueueHealthy /\ StoppedOK
  BY DEF PhaseOK, TurnOK, QueueHealthy, StoppedOK
<1>3. HealthyIsLatest BY DEF HealthyIsLatest
<1>4. NoRequestLost /\ WorkConserving /\ QuietAfterJoin
  BY DEF NoRequestLost, WorkConserving, QuietAfterJoin
<1>5. LatestKeyWins /\ ExplicitWorkPreempts
  BY DEF LatestKeyWins, ExplicitWorkPreempts
<1>6. OnlyAskedAborts /\ NoListenerLeak
  BY DEF OnlyAskedAborts, NoListenerLeak
<1> QED BY <1>1, <1>2, <1>3, <1>4, <1>5, <1>6 DEF IInv

\* A submission refused by a stopped lane (scheduler.ts, submit) keeps the invariant.
LEMMA DroppedInvariant ==
  ASSUME IInv, NEW r \in Requests, SubmitDropped(r)
  PROVE  IInv'
<1> USE LaneAssumption DEF IInv, TypeOK, SubmitDropped, SubmitCommon, arguments,
        Superseded, StillPending, Preempted, WithKey, Running, Waiting, Settled, Aborted,
        Resolved, Detached, Refused, SupersededActive, Answer
<1>1. TypeOK' OBVIOUS
<1>2. (PhaseOK /\ TurnOK)' BY DEF PhaseOK, TurnOK, NoRequestLost
<1>3. QueueHealthy' BY DEF QueueHealthy, NoRequestLost, LatestKeyWins
<1>4. HealthyIsLatest' BY DEF HealthyIsLatest, NoRequestLost, TurnOK
<1>5. StoppedOK' BY DEF StoppedOK
<1>6. NoRequestLost' BY DEF NoRequestLost
<1>7. (WorkConserving /\ QuietAfterJoin)' BY DEF WorkConserving, QuietAfterJoin
<1>8. (LatestKeyWins /\ ExplicitWorkPreempts)' BY DEF LatestKeyWins, ExplicitWorkPreempts
<1>9. OnlyAskedAborts' BY DEF OnlyAskedAborts
<1>10. NoListenerLeak' BY DEF NoListenerLeak
<1> QED BY <1>1, <1>2, <1>3, <1>4, <1>5, <1>6, <1>7, <1>8, <1>9, <1>10

\* cancel(key) keeps the invariant: the queued request goes, the active one is aborted.
LEMMA CancelInvariant ==
  ASSUME IInv, NEW k \in Keys, Cancel(k)
  PROVE  IInv'
<1> USE LaneAssumption DEF IInv, TypeOK, Cancel, CancelKeys, arguments, WithKey,
        Running, Waiting, Settled, Aborted,
        Resolved, Detached, Refused, SupersededActive, Answer
<1>1. TypeOK' OBVIOUS
<1>2. (PhaseOK /\ TurnOK)' BY DEF PhaseOK, TurnOK, NoRequestLost
<1>3. QueueHealthy' BY DEF QueueHealthy, NoRequestLost, LatestKeyWins
<1>4. HealthyIsLatest' BY DEF HealthyIsLatest, NoRequestLost, TurnOK
<1>5. StoppedOK' BY DEF StoppedOK
<1>6. NoRequestLost' BY DEF NoRequestLost
<1>7. (WorkConserving /\ QuietAfterJoin)' BY DEF WorkConserving, QuietAfterJoin
<1>8. (LatestKeyWins /\ ExplicitWorkPreempts)' BY DEF LatestKeyWins, ExplicitWorkPreempts
<1>9. OnlyAskedAborts' BY DEF OnlyAskedAborts
<1>10. NoListenerLeak' BY DEF NoListenerLeak
<1> QED BY <1>1, <1>2, <1>3, <1>4, <1>5, <1>6, <1>7, <1>8, <1>9, <1>10

\* cancelAll keeps the invariant: it empties the queue and aborts what runs.
LEMMA CancelAllInvariant ==
  ASSUME IInv, CancelAll
  PROVE  IInv'
<1> USE LaneAssumption DEF IInv, TypeOK, CancelAll, CancelKeys, arguments,
        Running, Waiting, Settled, Aborted,
        Resolved, Detached, Refused, SupersededActive, Answer
<1>1. TypeOK' OBVIOUS
<1>2. (PhaseOK /\ TurnOK)' BY DEF PhaseOK, TurnOK, NoRequestLost
<1>3. QueueHealthy' BY DEF QueueHealthy, NoRequestLost, LatestKeyWins
<1>4. HealthyIsLatest' BY DEF HealthyIsLatest, NoRequestLost, TurnOK
<1>5. StoppedOK' BY DEF StoppedOK
<1>6. NoRequestLost' BY DEF NoRequestLost
<1>7. (WorkConserving /\ QuietAfterJoin)' BY DEF WorkConserving, QuietAfterJoin
<1>8. (LatestKeyWins /\ ExplicitWorkPreempts)' BY DEF LatestKeyWins, ExplicitWorkPreempts
<1>9. OnlyAskedAborts' BY DEF OnlyAskedAborts
<1>10. NoListenerLeak' BY DEF NoListenerLeak
<1> QED BY <1>1, <1>2, <1>3, <1>4, <1>5, <1>6, <1>7, <1>8, <1>9, <1>10

\* dispose keeps the invariant: a stopped lane has no queue and no healthy operation.
LEMMA DisposeInvariant ==
  ASSUME IInv, Dispose
  PROVE  IInv'
<1> USE LaneAssumption DEF IInv, TypeOK, Dispose, CancelKeys, arguments,
        Running, Waiting, Settled, Aborted,
        Resolved, Detached, Refused, SupersededActive, Answer
<1>1. TypeOK' OBVIOUS
<1>2. (PhaseOK /\ TurnOK)' BY DEF PhaseOK, TurnOK, NoRequestLost
<1>3. QueueHealthy' BY DEF QueueHealthy, NoRequestLost, LatestKeyWins
<1>4. HealthyIsLatest' BY DEF HealthyIsLatest, NoRequestLost, TurnOK
<1>5. StoppedOK' BY DEF StoppedOK
<1>6. NoRequestLost' BY DEF NoRequestLost
<1>7. (WorkConserving /\ QuietAfterJoin)' BY DEF WorkConserving, QuietAfterJoin
<1>8. (LatestKeyWins /\ ExplicitWorkPreempts)' BY DEF LatestKeyWins, ExplicitWorkPreempts
<1>9. OnlyAskedAborts' BY DEF OnlyAskedAborts
<1>10. NoListenerLeak' BY DEF NoListenerLeak
<1> QED BY <1>1, <1>2, <1>3, <1>4, <1>5, <1>6, <1>7, <1>8, <1>9, <1>10

\* A caller's abort signal, before or while its request runs, keeps the invariant.
LEMMA SignalAbortInvariant ==
  ASSUME IInv, NEW r \in Requests, SignalAbort(r)
  PROVE  IInv'
<1> USE LaneAssumption DEF IInv, TypeOK, SignalAbort, CancelKeys, arguments,
        Running, Waiting, Settled, Aborted,
        Resolved, Detached, Refused, SupersededActive, Answer
<1>1. TypeOK' OBVIOUS
<1>2. (PhaseOK /\ TurnOK)' BY DEF PhaseOK, TurnOK, NoRequestLost
<1>3. QueueHealthy' BY DEF QueueHealthy, NoRequestLost, LatestKeyWins
<1>4. HealthyIsLatest' BY DEF HealthyIsLatest, NoRequestLost, TurnOK
<1>5. StoppedOK' BY DEF StoppedOK
<1>6. NoRequestLost' BY DEF NoRequestLost
<1>7. (WorkConserving /\ QuietAfterJoin)' BY DEF WorkConserving, QuietAfterJoin
<1>8. (LatestKeyWins /\ ExplicitWorkPreempts)' BY DEF LatestKeyWins, ExplicitWorkPreempts
<1>9. OnlyAskedAborts' BY DEF OnlyAskedAborts, LatestKeyWins
<1>10. NoListenerLeak' BY DEF NoListenerLeak
<1> QED BY <1>1, <1>2, <1>3, <1>4, <1>5, <1>6, <1>7, <1>8, <1>9, <1>10

\* The operation of the active request may return at any time.
LEMMA ReturnInvariant ==
  ASSUME IInv, NEW result \in {"value", "error"}, Return(result)
  PROVE  IInv'
<1> USE LaneAssumption DEF IInv, TypeOK, Return, arguments,
        Running, Waiting, Settled, Aborted,
        Resolved, Detached, Refused, SupersededActive, Answer
<1>1. TypeOK' OBVIOUS
<1>2. (PhaseOK /\ TurnOK)' BY DEF PhaseOK, TurnOK, NoRequestLost
<1>3. QueueHealthy' BY DEF QueueHealthy, NoRequestLost, LatestKeyWins
<1>4. HealthyIsLatest' BY DEF HealthyIsLatest, NoRequestLost, TurnOK
<1>5. StoppedOK' BY DEF StoppedOK
<1>6. NoRequestLost' BY DEF NoRequestLost
<1>7. (WorkConserving /\ QuietAfterJoin)' BY DEF WorkConserving, QuietAfterJoin
<1>8. (LatestKeyWins /\ ExplicitWorkPreempts)' BY DEF LatestKeyWins, ExplicitWorkPreempts
<1>9. OnlyAskedAborts' BY DEF OnlyAskedAborts
<1>10. NoListenerLeak' BY DEF NoListenerLeak
<1> QED BY <1>1, <1>2, <1>3, <1>4, <1>5, <1>6, <1>7, <1>8, <1>9, <1>10

\* The pump's turn after an operation (deliver, then start the next request) keeps
\* the invariant.
LEMMA FinishInvariant ==
  ASSUME IInv, Finish
  PROVE  IInv'
<1> USE LaneAssumption DEF IInv, TypeOK, Finish, Pump, arguments,
        Running, Waiting, Settled, Aborted,
        Resolved, Detached, Refused, SupersededActive, Answer
<1>1. TypeOK' OBVIOUS
<1>2. (PhaseOK /\ TurnOK)' BY DEF PhaseOK, TurnOK, NoRequestLost
<1>3. QueueHealthy' BY DEF QueueHealthy, NoRequestLost, LatestKeyWins
<1>4. HealthyIsLatest' BY DEF HealthyIsLatest, NoRequestLost, TurnOK
<1>5. StoppedOK' BY DEF StoppedOK
<1>6. NoRequestLost' BY DEF NoRequestLost
<1>7. (WorkConserving /\ QuietAfterJoin)' 
  BY DEF WorkConserving, QuietAfterJoin, StoppedOK, PhaseOK
<1>8. (LatestKeyWins /\ ExplicitWorkPreempts)'
  <2>1. LatestKeyWins' BY DEF LatestKeyWins
  <2>2. ExplicitWorkPreempts'
    <3>1. SUFFICES ASSUME NEW n \in pending, Foremost(n, pending),
                          active' = n, pending' = pending \ {n}
                   PROVE  ExplicitWorkPreempts'
      BY DEF ExplicitWorkPreempts, StoppedOK
    <3>2. \A q \in pending : priority[n] >= priority[q]
      <4>1. priority \in [Requests -> Int]
        OBVIOUS
      <4>2. pending \subseteq Requests
        OBVIOUS
      <4> QED BY ONLY <3>1, <4>1, <4>2 DEF Foremost
    <3>3. priority' = priority
      OBVIOUS
    <3>4. \A q \in pending : priority[q] \in Int
      OBVIOUS
    <3> QED BY ONLY <3>1, <3>2, <3>3, <3>4 DEF ExplicitWorkPreempts, Running
  <2> QED BY <2>1, <2>2
<1>9. OnlyAskedAborts' BY DEF OnlyAskedAborts, QueueHealthy
<1>10. NoListenerLeak' BY DEF NoListenerLeak, PhaseOK
<1> QED BY <1>1, <1>2, <1>3, <1>4, <1>5, <1>6, <1>7, <1>8, <1>9, <1>10

\* join and its continuation keep the invariant.
LEMMA JoinInvariant ==
  ASSUME IInv, JoinCall \/ JoinResume
  PROVE  IInv'
<1> USE LaneAssumption DEF IInv, TypeOK, JoinCall, JoinResume, arguments,
        Running, Waiting, Settled, Aborted,
        Resolved, Detached, Refused, SupersededActive, Answer
<1>1. TypeOK' OBVIOUS
<1>2. (PhaseOK /\ TurnOK)' BY DEF PhaseOK, TurnOK, NoRequestLost
<1>3. QueueHealthy' BY DEF QueueHealthy, NoRequestLost, LatestKeyWins
<1>4. HealthyIsLatest' BY DEF HealthyIsLatest, NoRequestLost, TurnOK
<1>5. StoppedOK' BY DEF StoppedOK
<1>6. NoRequestLost' BY DEF NoRequestLost
<1>7. (WorkConserving /\ QuietAfterJoin)' BY DEF WorkConserving, QuietAfterJoin
<1>8. (LatestKeyWins /\ ExplicitWorkPreempts)' BY DEF LatestKeyWins, ExplicitWorkPreempts
<1>9. OnlyAskedAborts' BY DEF OnlyAskedAborts
<1>10. NoListenerLeak' BY DEF NoListenerLeak
<1> QED BY <1>1, <1>2, <1>3, <1>4, <1>5, <1>6, <1>7, <1>8, <1>9, <1>10

\* An accepted submission, with what it supersedes, preempts and evicts, keeps the
\* invariant: this is where it needs every one of its parts.
LEMMA QueuedInvariant ==
  ASSUME IInv, NEW r \in Requests, SubmitQueued(r)
  PROVE  IInv'
<1> USE LaneAssumption DEF IInv, TypeOK, SubmitCommon, arguments,
        Superseded, StillPending, Preempted, WithKey, Running, Waiting, Settled,
        Aborted, Resolved, Detached, Refused, SupersededActive
<1>0. PICK evicted \in SUBSET StillPending(r) :
        /\ SubmitCommon(r)
        /\ ~stopped
        /\ LET gone == Superseded(r) \cup evicted
               hit  == SupersededActive(r)
                         \cup {a \in Running : \E v \in evicted : key[a] = key[v]}
           IN  /\ abort' = Aborted(Aborted(Aborted(abort,
                                     Superseded(r) \cup SupersededActive(r),
                                     "canceled"),
                                   Preempted(r), "preempted"),
                                 gone \cup hit, "canceled")
               /\ outcome' = [Resolved(outcome, gone, "undefined")
                                EXCEPT ![r] = "waiting"]
               /\ attached' = Detached(gone) \cup ({r} \cap Signals)
               /\ IF active = None
                  THEN Pump((pending \ gone) \cup {r})
                  ELSE /\ pending' = (pending \ gone) \cup {r}
                       /\ UNCHANGED <<active, phase>>
  BY DEF SubmitQueued
<1>d. SubmitCommon(r) /\ ~stopped
  BY <1>0
<1>a. r \notin pending /\ r # active
  BY <1>0 DEF NoRequestLost
<1>b. CASE active = None
  <2>1. pending = {} /\ evicted = {}
    BY <1>b, <1>0 DEF WorkConserving
  <2>2. active' = r /\ phase' = "running" /\ pending' = {}
    BY <1>b, <2>1, <1>0 DEF Pump
  <2>3. /\ outcome' = [outcome EXCEPT ![r] = "waiting"]
        /\ abort' = abort
        /\ attached' = attached \cup ({r} \cap Signals)
    BY <1>b, <2>1, <1>0
  <2>4. abort[r] = "no" /\ abort'[r] = "no"
    BY <2>3, <1>0 DEF TurnOK
  <2> HIDE DEF Aborted, Resolved
  <2>5. TypeOK' BY <1>d, <2>2, <2>3
  <2>6. (PhaseOK /\ TurnOK)' BY <1>d, <2>2, <2>3, <2>4 DEF PhaseOK, TurnOK
  <2>7. (QueueHealthy /\ StoppedOK)'
    BY <1>d, <2>2, <2>3 DEF QueueHealthy, StoppedOK
  <2>8. HealthyIsLatest'
    BY <1>d, <1>b, <2>1, <2>2, <2>3 DEF HealthyIsLatest, NoRequestLost, TurnOK
  <2>9. NoRequestLost' BY <1>d, <1>b, <2>1, <2>2, <2>3 DEF NoRequestLost
  <2>10. (WorkConserving /\ QuietAfterJoin)'
    BY <1>d, <2>2, <2>3 DEF WorkConserving, QuietAfterJoin, StoppedOK
  <2>11. (LatestKeyWins /\ ExplicitWorkPreempts)'
    BY <2>2 DEF LatestKeyWins, ExplicitWorkPreempts
  <2>12. (OnlyAskedAborts /\ NoListenerLeak)'
    BY <1>b, <2>1, <2>2, <2>3, <2>4 DEF OnlyAskedAborts, NoListenerLeak
  <2> QED
    BY <2>5, <2>6, <2>7, <2>8, <2>9, <2>10, <2>11, <2>12
<1>c. CASE active # None
  <2>1. /\ pending' = (pending \ (Superseded(r) \cup evicted)) \cup {r}
        /\ active' = active /\ phase' = phase
        /\ attached' = (attached \ (Superseded(r) \cup evicted))
                        \cup ({r} \cap Signals)
    BY <1>0, <1>c
  <2>2. \A q \in Requests :
          /\ q \in Superseded(r) \cup evicted => outcome'[q] = "undefined"
          /\ q \notin Superseded(r) \cup evicted \cup {r} =>
               outcome'[q] = outcome[q]
          /\ outcome'[r] = "waiting"
    BY <1>0, <1>a
  <2>3. abort' \in [Requests -> {"no", "canceled", "preempted"}]
    BY <1>0
  <2>4. \A q \in pending' : abort'[q] = "no"
    <3>1. abort[r] = "no" /\ abort'[r] = "no"
      BY <1>0, <1>a DEF TurnOK
    <3>2. ASSUME NEW q \in pending, q \notin Superseded(r) \cup evicted
          PROVE  abort'[q] = "no"
      BY <1>0, <3>2 DEF QueueHealthy, NoRequestLost
    <3> QED BY <2>1, <3>1, <3>2
  <2>5. \A a \in Running :
          /\ abort[a] # "no" => abort'[a] = abort[a]
          /\ key[a] = key[r] => abort'[a] # "no"
          /\ priority[r] >= 1 /\ priority[a] < 0 => abort'[a] # "no"
          /\ abort[a] = "no" /\ abort'[a] = "canceled" => key[a] = key[r]
          /\ abort[a] = "no" /\ abort'[a] = "preempted" => priority[a] < 0
    BY <1>0, <1>c DEF LatestKeyWins
  <2>6. \A q \in Requests : abort[q] # "no" => abort'[q] # "no"
    BY <1>0
  <2>7. outcome' \in [Requests -> {"new", "waiting"} \cup Settled]
    BY <1>0
  <2> HIDE DEF Aborted, Resolved, Settled
  <2>8. TypeOK'
    <3>1. pending' \in SUBSET Requests /\ attached' \in SUBSET Requests
      BY <2>1
    <3>2. /\ key' \in [Requests -> Keys]
          /\ priority' \in [Requests -> Priorities]
          /\ signalled' \in [Requests -> BOOLEAN]
          /\ stopped' \in BOOLEAN
          /\ joining' \in {"no", "waiting", "returned"}
          /\ joined' \in Requests \cup {None}
          /\ asked' \in SUBSET Requests
      BY <1>d
    <3>3. clock' \in Nat /\ turn' \in [Requests -> Nat]
      BY <1>d
    <3> QED BY <2>1, <2>3, <2>7, <3>1, <3>2, <3>3
  <2>9. (PhaseOK /\ StoppedOK)' BY <1>0, <2>1 DEF PhaseOK, StoppedOK
  <2>10. TurnOK'
    <3>1. \A q \in Requests : turn'[q] <= clock'
      BY <1>0 DEF TurnOK
    <3>2. ASSUME NEW q \in Requests, outcome'[q] = "new"
          PROVE  turn'[q] = 0 /\ abort'[q] = "no"
      <4>1. q # r /\ outcome[q] = "new" /\ q \notin pending /\ q # active
        BY <3>2, <2>2 DEF NoRequestLost
      <4>2. abort'[q] = abort[q]
        BY <4>1, <1>0 DEF Aborted
      <4> QED BY <4>1, <4>2, <1>0 DEF TurnOK
    <3> QED BY <3>1, <3>2 DEF TurnOK
  <2>11. QueueHealthy' BY <2>4 DEF QueueHealthy
  <2>12. HealthyIsLatest'
    <3>1. ASSUME NEW p \in Requests, NEW q \in Requests,
                 outcome'[q] = "waiting", abort'[q] = "no", key[p] = key[q]
          PROVE  turn'[p] <= turn'[q]
      <4>1. CASE q = r
        BY <4>1, <1>0 DEF TurnOK
      <4>2. CASE q # r
        <5>1. outcome[q] = "waiting" /\ q \notin Superseded(r) /\ abort[q] = "no"
          BY <4>2, <3>1, <2>2, <2>6
        <5>2. key[q] # key[r]
          BY <5>1, <3>1, <2>5 DEF NoRequestLost
        <5> QED BY <5>1, <5>2, <3>1, <1>0 DEF HealthyIsLatest
      <4> QED BY <4>1, <4>2
    <3>2. key' = key
      BY <1>0
    <3> QED BY <3>1, <3>2 DEF HealthyIsLatest
  <2>13. NoRequestLost'
    BY <1>a, <2>1, <2>2 DEF NoRequestLost
  <2>14. (WorkConserving /\ QuietAfterJoin)'
    BY <1>0, <1>c, <2>1 DEF WorkConserving, QuietAfterJoin, StoppedOK
  <2>15. LatestKeyWins'
    BY <1>0, <2>1, <2>5 DEF LatestKeyWins
  <2>16. ExplicitWorkPreempts'
    BY <1>0, <2>1, <2>5 DEF ExplicitWorkPreempts
  <2>17. OnlyAskedAborts'
    BY <1>0, <2>1, <2>3, <2>5 DEF OnlyAskedAborts
  <2>18. NoListenerLeak'
    BY <1>0, <2>1 DEF NoListenerLeak
  <2> QED
    BY <2>8, <2>9, <2>10, <2>11, <2>12, <2>13, <2>14, <2>15, <2>16, <2>17, <2>18
<1> QED BY <1>b, <1>c

\* Every step of the lane keeps the invariant.
LEMMA NextInvariant == IInv /\ [Next]_vars => IInv'
<1> SUFFICES ASSUME IInv, [Next]_vars PROVE IInv'
  OBVIOUS
<1>1. ASSUME NEW r \in Requests, Submit(r) PROVE IInv'
  BY <1>1, DroppedInvariant, QueuedInvariant DEF Submit
<1>2. ASSUME NEW r \in Requests, SignalAbort(r) PROVE IInv'
  BY <1>2, SignalAbortInvariant
<1>3. ASSUME NEW k \in Keys, Cancel(k) PROVE IInv'
  BY <1>3, CancelInvariant
<1>4. CASE CancelAll
  BY <1>4, CancelAllInvariant
<1>5. CASE Dispose
  BY <1>5, DisposeInvariant
<1>6. CASE Operation
  BY <1>6, ReturnInvariant DEF Operation
<1>7. CASE Finish
  BY <1>7, FinishInvariant
<1>8. CASE JoinCall \/ JoinResume
  BY <1>8, JoinInvariant
<1>9. CASE UNCHANGED vars
  <2> USE <1>9 DEF vars, IInv, Running, Waiting
  <2>1. (TypeOK /\ PhaseOK /\ TurnOK)' BY DEF TypeOK, PhaseOK, TurnOK
  <2>2. (QueueHealthy /\ HealthyIsLatest /\ StoppedOK)'
    BY DEF QueueHealthy, HealthyIsLatest, StoppedOK
  <2>3. (NoRequestLost /\ WorkConserving /\ QuietAfterJoin)'
    BY DEF NoRequestLost, WorkConserving, QuietAfterJoin
  <2>4. (LatestKeyWins /\ ExplicitWorkPreempts)'
    BY DEF LatestKeyWins, ExplicitWorkPreempts
  <2>5. (OnlyAskedAborts /\ NoListenerLeak)'
    BY DEF OnlyAskedAborts, NoListenerLeak
  <2> QED BY <2>1, <2>2, <2>3, <2>4, <2>5
<1> QED
  BY <1>1, <1>2, <1>3, <1>4, <1>5, <1>6, <1>7, <1>8, <1>9 DEF Next

\* The inductive invariant, and with it every part of it, holds in every
\* reachable state of every lane.
LEMMA LaneInvariant == Spec => []IInv
<1>1. Init => IInv
  BY InitInvariant
<1>2. IInv /\ [Next]_vars => IInv'
  BY NextInvariant
<1> QED BY <1>1, <1>2, PTL DEF Spec

\* Every variable keeps its type.
THEOREM TypeCorrect == Spec => []TypeOK
  BY LaneInvariant, PTL DEF IInv

\* No request is forgotten and none is kept after it settled.
THEOREM NothingLost == Spec => []NoRequestLost
  BY LaneInvariant, PTL DEF IInv

\* At most one request waits per key, and a superseded one is aborted.
THEOREM LatestWins == Spec => []LatestKeyWins
  BY LaneInvariant, PTL DEF IInv

\* Explicit work never waits behind healthy typing work.
THEOREM ExplicitWorkNeverBlocked == Spec => []ExplicitWorkPreempts
  BY LaneInvariant, PTL DEF IInv

\* No healthy operation is aborted on another request's behalf.
THEOREM NoCollateralAbort == Spec => []OnlyAskedAborts
  BY LaneInvariant, PTL DEF IInv

\* The lane idles only without work, keeps no listener of a settled request, and
\* is quiet once a join after dispose returned.
THEOREM LaneHousekeeping ==
  Spec => [](WorkConserving /\ NoListenerLeak /\ QuietAfterJoin)
  BY LaneInvariant, PTL DEF IInv

-----------------------------------------------------------------------------
(* The bound of the queue.                                                  *)

\* No step lets the queue outgrow its limit: what a submission leaves is evicted down
\* to it.
LEMMA BoundStep ==
  ASSUME TypeOK, QueueBounded, [Next]_vars
  PROVE  QueueBounded'
<1> USE LaneAssumption
<1>1. IsFiniteSet(pending) /\ Cardinality(pending) \in Nat
  BY FS_Subset, FS_CardinalityType DEF TypeOK
<1>2. ASSUME NEW S, S \subseteq pending
      PROVE  IsFiniteSet(S) /\ Cardinality(S) \in Nat /\ Cardinality(S) <= Limit
  BY <1>1, <1>2, FS_Subset, FS_CardinalityType DEF QueueBounded
<1>3. ASSUME NEW S, IsFiniteSet(S), Cardinality(S) <= Limit, Pump(S)
      PROVE  QueueBounded'
  <2>1. pending' \subseteq S
    BY <1>3 DEF Pump
  <2>2. Cardinality(pending') <= Cardinality(S) /\ Cardinality(pending') \in Nat
        /\ Cardinality(S) \in Nat
    BY <1>3, <2>1, FS_Subset, FS_CardinalityType
  <2> QED BY <1>3, <2>2 DEF QueueBounded
<1>4. ASSUME pending' \subseteq pending
      PROVE  QueueBounded'
  BY <1>2, <1>4 DEF QueueBounded
<1>5. ASSUME NEW r \in Requests, Submit(r)
      PROVE  QueueBounded'
  <2>1. CASE SubmitDropped(r)
    BY <1>4, <2>1 DEF SubmitDropped, StillPending
  <2>2. CASE SubmitQueued(r)
    <3>1. PICK evicted \in SUBSET StillPending(r) :
            /\ Victims(r, evicted)
            /\ \/ Pump((pending \ (Superseded(r) \cup evicted)) \cup {r})
               \/ pending' = (pending \ (Superseded(r) \cup evicted)) \cup {r}
      BY <2>2 DEF SubmitQueued
    <3> DEFINE rest == pending \ (Superseded(r) \cup evicted)
    <3>2. rest = StillPending(r) \ evicted
      BY DEF StillPending
    <3>3. IsFiniteSet(rest) /\ Cardinality(rest) \in Nat
      BY <1>2
    <3>4. Cardinality(rest) < Limit
      <4>1. CASE OverLimit(r)
        <5>1. PICK low \in StillPending(r) : evicted = {low}
          BY <3>1, <4>1 DEF Victims
        <5>2. /\ IsFiniteSet(StillPending(r))
              /\ Cardinality(StillPending(r)) <= Limit
              /\ Cardinality(StillPending(r)) \in Nat
          BY <1>2 DEF StillPending
        <5>3. Cardinality(rest) = Cardinality(StillPending(r)) - 1
          BY <3>2, <5>1, <5>2, FS_RemoveElement
        <5> QED BY <3>3, <5>2, <5>3
      <4>2. CASE ~OverLimit(r)
        <5>1. rest = StillPending(r)
          BY <3>1, <3>2, <4>2 DEF Victims
        <5> QED BY <3>3, <4>2, <5>1 DEF OverLimit
      <4> QED BY <4>1, <4>2
    <3>5. /\ IsFiniteSet(rest \cup {r})
          /\ Cardinality(rest \cup {r}) <= Limit
      <4> HIDE DEF rest
      <4>1. /\ IsFiniteSet(rest \cup {r})
            /\ \/ Cardinality(rest \cup {r}) = Cardinality(rest)
               \/ Cardinality(rest \cup {r}) = Cardinality(rest) + 1
        BY <3>3, FS_AddElement
      <4> QED BY <3>3, <3>4, <4>1
    <3>6. CASE Pump(rest \cup {r})
      BY <1>3, <3>5, <3>6
    <3>7. CASE pending' = rest \cup {r}
      BY <3>5, <3>7 DEF QueueBounded
    <3> QED BY <3>1, <3>6, <3>7
  <2> QED BY <1>5, <2>1, <2>2 DEF Submit
<1>6. ASSUME Finish PROVE QueueBounded'
  BY <1>1, <1>3, <1>6 DEF Finish, QueueBounded
<1>7. CASE \/ \E r \in Requests : SignalAbort(r)
           \/ \E k \in Keys : Cancel(k)
           \/ CancelAll \/ Dispose \/ Operation \/ JoinCall \/ JoinResume
           \/ UNCHANGED vars
  <2>1. pending' \subseteq pending
    BY <1>7 DEF SignalAbort, Cancel, CancelAll, Dispose, CancelKeys, Operation,
                Return, JoinCall, JoinResume, vars
  <2> QED BY <1>4, <2>1
<1> QED BY <1>5, <1>6, <1>7 DEF Next

\* However requests are submitted, superseded and evicted, the queue never
\* outgrows its limit.
THEOREM BoundedQueue == Spec => []QueueBounded
<1>1. Init => QueueBounded
  BY LaneAssumption, FS_EmptySet DEF Init, QueueBounded
<1>2. TypeOK /\ QueueBounded /\ [Next]_vars => QueueBounded'
  BY BoundStep
<1> QED BY <1>1, <1>2, TypeCorrect, PTL DEF Spec

-----------------------------------------------------------------------------
(* What one step of the program does to the requests.                       *)

Move(r) ==
  /\ outcome[r] \in Settled => outcome'[r] = outcome[r]
  /\ outcome[r] = "new" => outcome'[r] \in {"new", "waiting", "undefined"}
  /\ Waiting(r) =>
       \/ /\ outcome'[r] = "waiting"
          /\ r = active => active' = r
          /\ r # active /\ active' = r => abort'[r] = "no"
       \/ outcome'[r] = "undefined" /\ (r = active => abort[r] # "no")
       \/ /\ outcome'[r] \in {"value", "error"}
          /\ r = active /\ abort[r] = "no"
  /\ abort[r] # "no" => abort'[r] # "no"

\* A submission moves every request, its own and the others, as Move allows.
LEMMA SubmitMoves ==
  ASSUME IInv, NEW q \in Requests, Submit(q), NEW r \in Requests
  PROVE  Move(r)
<1> USE LaneAssumption DEF IInv, TypeOK, SubmitCommon, Superseded, StillPending,
        Preempted, WithKey, Running, Waiting, Settled, Aborted, Resolved,
        Refused, SupersededActive, Answer
<1>1. CASE SubmitDropped(q)
  BY <1>1 DEF Move, SubmitDropped, NoRequestLost
<1>2. CASE SubmitQueued(q)
  <2>1. /\ outcome[q] = "new"
        /\ outcome'[q] = "waiting"
        /\ abort' \in [Requests -> {"no", "canceled", "preempted"}]
        /\ abort[r] # "no" => abort'[r] # "no"
    BY <1>2 DEF SubmitQueued
  <2>2. r # q => \/ outcome'[r] = outcome[r]
                 \/ outcome'[r] = "undefined" /\ r \in pending
    BY <1>2 DEF SubmitQueued
  <2>3. CASE active = None
    <3>1. pending = {} /\ outcome[r] # "waiting"
      BY <2>3 DEF WorkConserving, NoRequestLost
    <3> HIDE DEF Aborted, Resolved
    <3> QED BY <2>1, <2>2, <3>1 DEF Move
  <2>4. CASE active # None
    <3>1. active' = active
      BY <1>2, <2>4 DEF SubmitQueued
    <3> HIDE DEF Aborted, Resolved
    <3> QED BY <2>1, <2>2, <3>1 DEF Move, NoRequestLost
  <2> QED BY <2>3, <2>4
<1> QED BY <1>1, <1>2 DEF Submit

\* Every step of the lane moves every request as Move allows.
LEMMA StepMoves ==
  ASSUME IInv, [Next]_vars, NEW r \in Requests
  PROVE  Move(r)
<1> USE DEF IInv, TypeOK, Move, Running, Waiting, Settled, Aborted, Resolved,
        Refused, SupersededActive, Answer
<1>1. ASSUME NEW q \in Requests, Submit(q) PROVE Move(r)
  BY <1>1, SubmitMoves
<1>a. ASSUME NEW K, CancelKeys(K) PROVE Move(r)
  <2>1. active' = active /\ (abort[r] # "no" => abort'[r] # "no")
    BY <1>a DEF CancelKeys
  <2>2. \/ outcome'[r] = outcome[r]
        \/ outcome'[r] = "undefined" /\ r \in pending
    BY <1>a DEF CancelKeys
  <2>3. r \in pending => r # active /\ outcome[r] = "waiting"
    BY LaneAssumption DEF NoRequestLost
  <2> HIDE DEF Aborted, Resolved
  <2> QED BY <2>1, <2>2, <2>3
<1>2. ASSUME NEW q \in Requests, SignalAbort(q) PROVE Move(r)
  <2>1. CASE CancelKeys({key[q]})
    BY <1>a, <2>1
  <2>2. CASE ~CancelKeys({key[q]})
    <3>1. /\ active' = active /\ outcome' = outcome
          /\ abort[r] # "no" => abort'[r] # "no"
      BY <1>2, <2>2 DEF SignalAbort
    <3> QED BY <3>1
  <2> QED BY <2>1, <2>2
<1>3. CASE \/ \E k \in Keys : Cancel(k)
           \/ CancelAll
           \/ Dispose
  BY <1>a, <1>3 DEF Cancel, CancelAll, Dispose
<1>4. CASE Operation \/ JoinCall \/ JoinResume \/ UNCHANGED vars
  BY <1>4 DEF Operation, Return, JoinCall, JoinResume, vars
<1>5. CASE Finish
  BY <1>5 DEF Finish, Pump, PhaseOK, NoRequestLost, QueueHealthy
<1> QED BY <1>1, <1>2, <1>3, <1>4, <1>5 DEF Next

\* A promise settles once, and only the latest, healthy request of its key
\* delivers an answer.
THEOREM DeliveryIsCurrent == Spec => NoStaleDelivery
<1>1. IInv /\ [Next]_vars => [DeliverOnce]_vars
  <2> SUFFICES ASSUME IInv, [Next]_vars, NEW r \in Requests
               PROVE  /\ outcome[r] \in Settled => outcome'[r] = outcome[r]
                      /\ Waiting(r) /\ outcome'[r] \in {"value", "error"} =>
                           /\ abort[r] = "no"
                           /\ \A q \in Requests :
                                key[q] = key[r] => turn[q] <= turn[r]
    BY DEF DeliverOnce
  <2>1. Move(r)
    BY StepMoves
  <2> QED BY <2>1 DEF Move, Waiting, Settled, IInv, HealthyIsLatest
<1> QED BY <1>1, LaneInvariant, PTL DEF Spec, NoStaleDelivery

\* The scheduler implements the abstract lane.
THEOREM SchedulerImplementsLane == Spec => ImplementsLane
<1>1. Init => L!Init
  <2> SUFFICES ASSUME Init PROVE L!Init
    OBVIOUS
  <2>1. \A r \in Requests :
          outcome[r] = "new" /\ abort[r] = "no"
    BY DEF Init
  <2>2. \A r \in Requests : Stage(r) = "new" /\ Result(r) = "none"
    BY <2>1 DEF Stage, Result, Settled
  <2> QED BY <2>1, <2>2 DEF L!Init
<1>2. IInv /\ IInv' /\ [Next]_vars => [L!Next]_(L!lane)
  <2> SUFFICES ASSUME IInv, IInv', [Next]_vars PROVE L!Next
    OBVIOUS
  <2>1. \A r \in Requests : Move(r)
    BY StepMoves
  <2>2. ASSUME NEW r \in Requests
        PROVE  /\ Stage(r)' \in {"new", "queued", "running", "settled"}
               /\ Result(r)' \in {"none", "undefined", "value", "error"}
    BY DEF Stage, Result, Settled, IInv, TypeOK
  <2>3. {r \in Requests : abort[r] # "no"} \subseteq {r \in Requests : abort'[r] # "no"}
    BY <2>1 DEF Move
  <2>4. ASSUME NEW r \in Requests
        PROVE  L!Keep(r) \/ L!Enter(r) \/ L!Start(r) \/ L!Drop(r) \/ L!Settle(r)
    <3> DEFINE st == [q \in Requests |-> Stage(q)]
               re == [q \in Requests |-> Result(q)]
    <3>1. /\ st[r] = Stage(r) /\ st'[r] = Stage(r)'
          /\ re[r] = Result(r) /\ re'[r] = Result(r)'
      OBVIOUS
    <3>2. outcome[r] \in {"new", "waiting"} \cup Settled
      BY DEF IInv, TypeOK
    <3>3. CASE outcome[r] \in Settled
      <4>1. Stage(r)' = Stage(r) /\ Result(r)' = Result(r)
        BY <2>1, <3>3 DEF Move, Stage, Result, Settled
      <4> QED BY <3>1, <4>1 DEF L!Keep
    <3>4. CASE outcome[r] = "new"
      <4>1. Stage(r) = "new" /\ Result(r) = "none"
        BY <3>4 DEF Stage, Result, Settled
      <4>2. \/ Stage(r)' = "new" /\ Result(r)' = "none"
            \/ Stage(r)' \in {"queued", "running"} /\ Result(r)' = "none"
            \/ Stage(r)' = "settled" /\ Result(r)' = "undefined"
        BY <2>1, <3>4 DEF Move, Stage, Result, Settled
      <4> QED BY <3>1, <4>1, <4>2 DEF L!Keep, L!Enter
    <3>5. CASE outcome[r] = "waiting" /\ r = active
      <4>1. Stage(r) = "running" /\ Result(r) = "none"
        BY <3>5 DEF Stage, Result, Settled
      <4>2. \/ Stage(r)' = "running" /\ Result(r)' = "none"
            \/ /\ Stage(r)' = "settled"
               /\ Result(r)' \in IF abort[r] # "no" THEN {"undefined"}
                                 ELSE {"value", "error"}
        BY <2>1, <3>5 DEF Move, Waiting, Stage, Result, Settled
      <4> QED BY <3>1, <4>1, <4>2 DEF L!Keep, L!Settle
    <3>6. CASE outcome[r] = "waiting" /\ r # active
      <4>1. Stage(r) = "queued" /\ Result(r) = "none"
        BY <3>6 DEF Stage, Result, Settled
      <4>2. \/ Stage(r)' = "queued" /\ Result(r)' = "none"
            \/ Stage(r)' = "running" /\ Result(r)' = "none" /\ abort'[r] = "no"
            \/ Stage(r)' = "settled" /\ Result(r)' = "undefined"
        BY <2>1, <3>6 DEF Move, Waiting, Stage, Result, Settled
      <4> QED BY <3>1, <4>1, <4>2 DEF L!Keep, L!Start, L!Drop
    <3> QED BY <3>2, <3>3, <3>4, <3>5, <3>6
  <2>5. ASSUME NEW q \in Requests, NEW r \in Requests,
               Stage(q)' = "running", Stage(r)' = "running"
        PROVE  q = r
    BY <2>5 DEF Stage
  <2> QED BY <2>2, <2>3, <2>4, <2>5 DEF L!Next
<1> QED BY <1>1, <1>2, LaneInvariant, PTL DEF Spec, ImplementsLane, L!Spec

=============================================================================
