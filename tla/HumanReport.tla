---------------------------- MODULE HumanReport -----------------------------
(***************************************************************************)
(* The human report (report/human.go, human_parallel.go): findings grouped *)
(* by file are rendered by several workers ahead of the writer, through    *)
(* bounded channels, while rendering or the output may fail and the caller *)
(* may cancel.                                                             *)
(***************************************************************************)
EXTENDS Naturals, Sequences, FiniteSets

CONSTANTS
  Reports,    \* the finding lists to report: each a sequence of file paths
  WorkerLimit,        \* maximumHumanWorkers
  Lookahead,          \* fileLookaheadPerWorker
  ChunkCapacity,      \* fileRenderChunkCapacity
  Pieces              \* fragments a finding is flushed in

ReportAssumption ==
  /\ WorkerLimit \in Nat \ {0} /\ Lookahead \in Nat \ {0}
  /\ ChunkCapacity \in Nat \ {0} /\ Pieces \in Nat \ {0}
  /\ Reports \subseteq Seq(STRING)

VARIABLES
  ds,        \* the findings, as the path of each
  outer,     \* the caller canceled
  canceled,  \* the report's own context is done
  queue,     \* the channel of jobs
  next,      \* the next job to schedule
  chunks,    \* per job: the channel of rendered fragments
  closed,    \* per job: that channel is closed
  worker,    \* per worker: where it is
  failures,  \* the channel of one failure
  pc,        \* where the caller's goroutine is
  job,       \* the job it consumes
  held,      \* the fragment it received
  verdict,   \* the error it will return unless a failure goes first
  engine,    \* the shared highlighter
  out,       \* what the output received
  result     \* what the report returned

vars == <<ds, outer, canceled, queue, next, chunks, closed, worker, failures,
          pc, job, held, verdict, engine, out, result>>

channels == <<queue, next, chunks, closed, failures>>

-----------------------------------------------------------------------------
\* contiguousDiagnosticGroups: one group per run of findings of one path.
Starts(list) == {i \in DOMAIN list : i = 1 \/ list[i] # list[i - 1]}
Contiguous(list) ==
  \A i, j \in Starts(list) : list[i] = list[j] => i = j
GroupCount(list) == Cardinality(Starts(list))
\* The first finding of group g, and the last.
First(list, g) ==
  CHOOSE i \in Starts(list) : Cardinality({k \in Starts(list) : k <= i}) = g
Last(list, g) == IF g = GroupCount(list) THEN Len(list) ELSE First(list, g + 1) - 1

Jobs == 1..GroupCount(ds)
Least(a, b) == IF a < b THEN a ELSE b
WorkerCount(list) ==
  IF Contiguous(list) THEN Least(WorkerLimit, GroupCount(list)) ELSE 1
Workers == 1..WorkerCount(ds)
\* humanFileLookahead
QueueLimit == Least(GroupCount(ds), WorkerCount(ds) * Lookahead)

\* The report the sequential renderer writes.
Fragment(k) == <<((k - 1) \div Pieces) + 1, ((k - 1) % Pieces) + 1>>
Whole(list) ==
  IF list = <<>> THEN <<"nothing">>
  ELSE <<"title">> \o [k \in 1..(Len(list) * Pieces) |-> Fragment(k)] \o <<"summary">>

Idle == [at |-> "ended", job |-> 1, finding |-> 1, piece |-> 1]
NoFragment == <<>>

Init ==
  /\ ds \in Reports /\ outer = FALSE /\ canceled = FALSE
  /\ queue = <<>> /\ next = 1 /\ failures = <<>>
  /\ chunks = [j \in Jobs |-> <<>>] /\ closed = [j \in Jobs |-> FALSE]
  /\ worker = [w \in Workers |-> Idle]
  /\ pc = "title" /\ job = 1 /\ held = NoFragment
  /\ verdict = [error |-> "ok", failureFirst |-> TRUE]
  /\ engine = "none" /\ out = <<>> /\ result = "running"

\* The caller's context ends, and with it the report's own.
CallerCancels ==
  /\ result = "running" /\ ~outer /\ outer' = TRUE /\ canceled' = TRUE
  /\ UNCHANGED <<ds, channels, worker, pc, job, held, verdict, engine, out, result>>

-----------------------------------------------------------------------------
(***************************************************************************)
(* A worker: takes a job, renders its findings, closes its channel.        *)
(***************************************************************************)

NextFragment(w) ==
  LET at == worker[w] IN
  IF at.piece < Pieces THEN [at EXCEPT !.piece = @ + 1, !.at = "render"]
  ELSE IF at.finding < Last(ds, at.job)
       THEN [at EXCEPT !.piece = 1, !.finding = @ + 1, !.at = "render"]
       ELSE [at EXCEPT !.at = "finished"]

Becomes(w, label) == worker' = [worker EXCEPT ![w].at = label]
Elsewhere == UNCHANGED <<ds, outer, pc, job, held, verdict, out, result>>

\* Ready channels are chosen between at random.
TakeJob(w) ==
  /\ worker[w].at = "take" /\ Elsewhere /\ UNCHANGED <<canceled, next, chunks, closed, failures>>
  /\ \/ canceled /\ Becomes(w, "ended") /\ UNCHANGED <<queue, engine>>
     \/ /\ queue # <<>> /\ queue' = Tail(queue)
        /\ worker' = [worker EXCEPT ![w] =
             [at |-> "render", job |-> Head(queue), finding |-> First(ds, Head(queue)),
              piece |-> 1]]
        /\ engine' = IF engine = "none" /\ ~canceled THEN "open" ELSE engine
     \/ /\ queue = <<>> /\ next > GroupCount(ds)
        /\ Becomes(w, "ended") /\ UNCHANGED <<queue, engine>>

\* A fragment is ready, or rendering fails; a failure counts only while the
\* context still lives, and is kept before the context is canceled.
Render(w) ==
  /\ worker[w].at = "render" /\ Elsewhere
  /\ UNCHANGED <<canceled, queue, next, chunks, closed, engine>>
  /\ \/ ~canceled /\ Becomes(w, "emit") /\ UNCHANGED failures
     \/ canceled /\ Becomes(w, "abandon") /\ UNCHANGED failures
     \/ /\ ~canceled /\ Becomes(w, "cancel")
        /\ failures' = IF failures = <<>> THEN <<worker[w].job>> ELSE failures

CancelAfterFailure(w) ==
  /\ worker[w].at = "cancel" /\ Elsewhere /\ UNCHANGED <<channels, engine>>
  /\ canceled' = TRUE /\ Becomes(w, "abandon")

Emit(w) ==
  /\ worker[w].at = "emit" /\ Elsewhere
  /\ UNCHANGED <<canceled, queue, next, closed, failures, engine>>
  /\ LET at == worker[w] IN
     \/ canceled /\ Becomes(w, "abandon") /\ UNCHANGED chunks
     \/ /\ Len(chunks[at.job]) < ChunkCapacity
        /\ chunks' = [chunks EXCEPT ![at.job] = Append(@, <<at.finding, at.piece>>)]
        /\ worker' = [worker EXCEPT ![w] = NextFragment(w)]

\* The deferred close ends a job either way; only a rendered job leads back to
\* the queue.
CloseJob(w) ==
  /\ worker[w].at \in {"finished", "abandon"} /\ Elsewhere
  /\ closed' = [closed EXCEPT ![worker[w].job] = TRUE]
  /\ Becomes(w, IF worker[w].at = "finished" THEN "take" ELSE "ended")
  /\ UNCHANGED <<canceled, queue, next, chunks, failures, engine>>

WorkerStep(w) ==
  TakeJob(w) \/ Render(w) \/ CancelAfterFailure(w) \/ Emit(w) \/ CloseJob(w)

-----------------------------------------------------------------------------
(***************************************************************************)
(* The caller's goroutine.                                                 *)
(***************************************************************************)

\* The report returns after closing the highlighter it shared.
Return(error) ==
  /\ pc' = "returned" /\ result' = error
  /\ engine' = IF engine = "open" THEN "closed" ELSE engine
  /\ UNCHANGED <<canceled, job, held, verdict>>

\* Writing fails with the context's error before it reaches the output.
WriteOut(text) == ~canceled /\ out' = Append(out, text)

WriteTitle ==
  /\ pc = "title" /\ UNCHANGED <<ds, outer, channels>>
  /\ \/ ds = <<>> /\ ~outer /\ out' = <<"nothing">> /\ Return("ok") /\ UNCHANGED worker
     \/ canceled /\ UNCHANGED <<out, worker>> /\ Return("canceled")
     \/ UNCHANGED <<out, worker>> /\ Return("output")
     \/ /\ ds # <<>> /\ WriteOut("title")
        /\ IF WorkerCount(ds) = 1
           THEN pc' = "sequential" /\ UNCHANGED worker
           ELSE pc' = "prime" /\ worker' = [w \in Workers |-> [Idle EXCEPT !.at = "take"]]
        /\ UNCHANGED <<canceled, job, held, verdict, engine, result>>

\* renderSequentialFindings: one goroutine renders and writes.
WriteSequentially ==
  /\ pc = "sequential" /\ UNCHANGED <<ds, outer, channels, worker>>
  /\ \/ canceled /\ UNCHANGED out /\ Return("canceled")
     \/ UNCHANGED out /\ (Return("render") \/ Return("output"))
     \/ LET k == Len(out) IN
        /\ WriteOut(Fragment(k))
        /\ pc' = IF k = Len(ds) * Pieces THEN "summary" ELSE pc
        /\ engine' = "open"
        /\ UNCHANGED <<canceled, job, held, verdict, result>>

\* Cancel, join the workers and return a kept failure, else this error.
GiveUp(error, failureFirst) ==
  /\ canceled' = TRUE /\ pc' = "join"
  /\ verdict' = [error |-> error, failureFirst |-> failureFirst]

\* schedule: the next job enters the queue, which is closed behind the last.
Schedule(then) ==
  \/ /\ next <= GroupCount(ds) /\ Len(queue) < QueueLimit
     /\ queue' = Append(queue, next) /\ next' = next + 1
     /\ then /\ UNCHANGED <<canceled, verdict>>
  \/ next > GroupCount(ds) /\ then /\ UNCHANGED <<queue, next, canceled, verdict>>
  \/ /\ next <= GroupCount(ds) /\ canceled /\ GiveUp("canceled", TRUE)
     /\ UNCHANGED <<queue, next, job>>

Prime ==
  /\ pc = "prime"
  /\ Schedule(pc' = (IF next >= QueueLimit THEN "consume" ELSE pc) /\ job' = job)
  /\ UNCHANGED <<ds, outer, chunks, closed, worker, failures, held, engine, out, result>>

\* Mutant: a closed channel is taken for a drained one.
MutConsumeEndsEarly ==
  /\ pc = "consume"
  /\ UNCHANGED <<ds, outer, queue, next, closed, worker, failures, engine, out, result>>
  /\ \/ canceled /\ GiveUp("canceled", TRUE) /\ UNCHANGED <<chunks, job, held>>
     \/ /\ chunks[job] # <<>> /\ held' = Head(chunks[job])
        /\ chunks' = [chunks EXCEPT ![job] = Tail(@)]
        /\ pc' = "write" /\ UNCHANGED <<canceled, job, verdict>>
     \/ closed[job] /\ pc' = "advance" /\ UNCHANGED <<chunks, canceled, job, held, verdict>>

\* The fragments of the job in turn; its closed and drained channel leads on.
Consume ==
  /\ pc = "consume"
  /\ UNCHANGED <<ds, outer, queue, next, closed, worker, failures, engine, out, result>>
  /\ \/ canceled /\ GiveUp("canceled", TRUE) /\ UNCHANGED <<chunks, job, held>>
     \/ /\ chunks[job] # <<>> /\ held' = Head(chunks[job])
        /\ chunks' = [chunks EXCEPT ![job] = Tail(@)]
        /\ pc' = "write" /\ UNCHANGED <<canceled, job, verdict>>
     \/ /\ chunks[job] = <<>> /\ closed[job] /\ pc' = "advance"
        /\ UNCHANGED <<chunks, canceled, job, held, verdict>>

\* An output error goes first unless the report was canceled already.
WriteFragment ==
  /\ pc = "write" /\ held' = NoFragment
  /\ UNCHANGED <<ds, outer, channels, worker, job, engine, result>>
  /\ \/ WriteOut(held) /\ pc' = "consume" /\ UNCHANGED <<canceled, verdict>>
     \/ canceled /\ GiveUp("canceled", TRUE) /\ UNCHANGED out
     \/ GiveUp("output", canceled) /\ UNCHANGED out

Advance ==
  /\ pc = "advance"
  /\ Schedule(IF job < GroupCount(ds) THEN pc' = "consume" /\ job' = job + 1
              ELSE pc' = "join" /\ job' = job)
  /\ UNCHANGED <<ds, outer, chunks, closed, worker, failures, held, engine, out, result>>

\* wg.Wait and parallelFailure; a report that was canceled is never complete.
Join ==
  /\ pc = "join" /\ \A w \in Workers : worker[w].at = "ended"
  /\ UNCHANGED <<ds, outer, channels, worker, out>>
  /\ IF verdict.failureFirst /\ failures # <<>> THEN Return("render")
     ELSE IF verdict.error # "ok" THEN Return(verdict.error)
     ELSE IF canceled THEN Return("canceled")
     ELSE pc' = "summary" /\ UNCHANGED <<canceled, job, held, verdict, engine, result>>

WriteSummary ==
  /\ pc = "summary" /\ UNCHANGED <<ds, outer, channels, worker>>
  /\ \/ WriteOut("summary") /\ Return("ok")
     \/ canceled /\ Return("canceled") /\ UNCHANGED out
     \/ Return("output") /\ UNCHANGED out

Caller ==
  \/ WriteTitle \/ WriteSequentially \/ Prime \/ Consume \/ WriteFragment
  \/ Advance \/ Join \/ WriteSummary

Returned == result # "running" /\ UNCHANGED vars

Next == CallerCancels \/ Caller \/ (\E w \in Workers : WorkerStep(w)) \/ Returned

\* Every goroutine that can run is scheduled.
Fairness == WF_vars(Caller) /\ \A w \in 1..WorkerLimit : WF_vars(w \in Workers /\ WorkerStep(w))
Spec == Init /\ [][Next]_vars /\ Fairness

-----------------------------------------------------------------------------
(***************************************************************************)
(* Properties.                                                             *)
(***************************************************************************)

\* Types of the channels and goroutines.
TypeOK ==
  /\ outer \in BOOLEAN /\ canceled \in BOOLEAN
  /\ Len(queue) <= QueueLimit /\ next \in 1..(GroupCount(ds) + 1)
  /\ \A j \in Jobs : Len(chunks[j]) <= ChunkCapacity /\ closed[j] \in BOOLEAN
  /\ \A w \in Workers : worker[w].at \in
       {"take", "render", "emit", "cancel", "finished", "abandon", "ended"}
  /\ Len(failures) <= 1 /\ job \in 1..(GroupCount(ds) + 1)
  /\ pc \in {"title", "sequential", "prime", "consume", "write", "advance",
             "join", "summary", "returned"}
  /\ engine \in {"none", "open", "closed"}
  /\ result \in {"running", "ok", "canceled", "output", "render"}

\* However the workers interleave, the output is at any time a prefix of what
\* one sequential renderer writes for the same findings.
OutputIsSequentialPrefix ==
  /\ Len(out) <= Len(Whole(ds))
  /\ out = SubSeq(Whole(ds), 1, Len(out))

\* A report that returns no error is complete: a canceled or failed one is
\* never taken for a short report.
SuccessIsComplete == result = "ok" => out = Whole(ds)

\* The error returned is the cause: cancellation only if the caller canceled,
\* although a failing worker cancels the same context, and a rendering failure
\* of a parallel report only if a worker kept one.
CauseIsReported ==
  /\ result = "canceled" => outer
  /\ result = "render" /\ WorkerCount(ds) > 1 => failures # <<>>

\* The shared highlighter is closed only when no worker can use it any more.
EngineOutlivesWorkers ==
  engine = "closed" => \A w \in Workers : worker[w].at = "ended"

\* Nobody waits on everybody: whatever fails, fills up or is canceled, the
\* report returns.
ReportReturns == <>(result # "running")

=============================================================================
