---------------------------- MODULE OwnedProcess ----------------------------
(***************************************************************************)
(* One run of the Go program under the extension: runOwnedProcess of        *)
(* extension/src/process.ts on POSIX, the process group it owns, and the    *)
(* program's own watch over its editor (internal/editorprocess).            *)
(*                                                                         *)
(* The child leads a process group; its helpers (Git) are in that group.    *)
(* SIGKILL is accepted in one step and delivered in a later one.  The       *)
(* editor settles its promise when Node reports `close': the child has      *)
(* exited and nobody holds its output pipes any more.                       *)
(***************************************************************************)
EXTENDS FiniteSets

CONSTANTS
  Helpers,   \* descendants the child may start
  Denials    \* group signals the kernel may deny with EPERM: never, redundant
             \*   (no live member: Darwin), or any

ProcessAssumption ==
  IsFiniteSet(Helpers) /\ Denials \in {"never", "redundant", "any"}

VARIABLES
  host,        \* the extension host: up or down
  work,        \* the promise: running, observing the group, resolved, rejected
  failure,     \* the category of the first failure, or none
  denied,      \* the first failed termination: none, qualified for a second look, final
  listening,   \* what may still interrupt the run: its timer, the caller's abort
  child,       \* none (not spawned), up, doomed (SIGKILL accepted), zombie, reaped
  result,      \* what the child leaves behind: good, stderr, status, utf8, a crash
  swept,       \* Node has emitted `exit', or `error' when spawn failed
  helper,      \* each helper: none, up, doomed, gone
  holding,     \* helpers that hold the child's output pipes
  lifetime,    \* the child's watch: reading its pipe, or lost
  trouble,     \* history: the first thing that went wrong while the editor listened
  stray        \* history: a signal went to a process id that was no longer owned

editor == <<work, failure, denied, listening, swept>>
tree == <<child, result, helper, holding, lifetime>>
vars == <<host, editor, tree, trouble, stray>>

Categories == {"none", "cancelled", "spawn", "stdin", "output-limit", "setup",
               "timeout", "stderr", "status", "utf8"}

Live == {h \in Helpers : helper[h] \in {"up", "doomed"}}

Settled == work \in {"resolved", "rejected"}

TypeOK ==
  /\ host \in {"up", "down"}
  /\ work \in {"running", "observing", "resolved", "rejected"}
  /\ failure \in Categories /\ trouble \in Categories
  /\ denied \in {"no", "qualified", "final"}
  /\ listening \subseteq {"timer", "abort"} /\ swept \in BOOLEAN /\ stray \in BOOLEAN
  /\ child \in {"none", "up", "doomed", "zombie", "reaped"}
  /\ result \in {"good", "stderr", "status", "utf8", "crash"}
  /\ helper \in [Helpers -> {"none", "up", "doomed", "gone"}]
  /\ holding \subseteq Helpers
  /\ lifetime \in {"reading", "lost"}
  /\ work # "running" => listening = {}
  /\ work = "observing" => denied = "qualified"

\* The process has been spawned, or could not be.
Init ==
  /\ host = "up" /\ work = "running"
  /\ failure = "none" /\ denied = "no"
  /\ listening = {"timer", "abort"} /\ swept = FALSE
  /\ child \in {"none", "up"} /\ result = "good"
  /\ helper = [h \in Helpers |-> "none"] /\ holding = {}
  /\ lifetime = "reading"
  /\ trouble = "none" /\ stray = FALSE

-----------------------------------------------------------------------------
(* Signals.                                                                *)

\* SIGKILL for the group: every live member is doomed.
Doomed == [h \in Helpers |-> IF helper[h] = "up" THEN "doomed" ELSE helper[h]]

\* The child alone is stopped until Node knows that it has exited.
ChildOnly(phase) == phase # "exit" /\ child # "reaped"

\* A denied signal that may turn out harmless once the group is looked at again.
Qualifies(phase) == phase = "exit" \/ (phase = "abort" /\ child = "reaped")

Deniable == Denials = "any" \/ (Denials = "redundant" /\ Live = {})

\* killTree
KillTree(phase) ==
  IF child = "none" THEN UNCHANGED <<child, helper, denied, stray>>
  ELSE IF ChildOnly(phase)
  THEN /\ child' = IF child = "up" THEN "doomed" ELSE child
       /\ stray' = (stray \/ child = "reaped")
       /\ UNCHANGED <<helper, denied>>
  ELSE /\ stray' = (stray \/ work # "running")
       /\ UNCHANGED child
       /\ \/ helper' = Doomed /\ UNCHANGED denied
          \/ /\ Deniable
             /\ denied' = IF denied # "no" THEN denied
                          ELSE IF Qualifies(phase) THEN "qualified" ELSE "final"
             /\ UNCHANGED helper

\* failure ??= ...
MutFail(category) == failure' = category

Fail(category) == failure' = IF failure = "none" THEN category ELSE failure

Noted(category) == trouble' = IF trouble = "none" THEN category ELSE trouble

-----------------------------------------------------------------------------
(* The editor.                                                             *)

\* Something goes wrong before `close': record it and stop the tree.
Interrupt(category, phase) ==
  /\ host = "up"
  /\ Fail(category) /\ Noted(category)
  /\ KillTree(phase)
  /\ UNCHANGED <<host, work, swept, result, holding, lifetime>>

Abort ==
  /\ "abort" \in listening
  /\ listening' = listening \ {"abort"}
  /\ Interrupt("cancelled", "abort")

Timeout ==
  /\ "timer" \in listening
  /\ listening' = listening \ {"timer"}
  /\ Interrupt("timeout", "timeout")

\* Errors of the child's pipes: its input until it is reaped, its lifetime and its
\* output until `close'.
PipeError ==
  /\ work = "running" /\ child # "none"
  /\ \/ child # "reaped" /\ Interrupt("stdin", "stdin")
     \/ Interrupt("setup", "setup")
     \/ Interrupt("output-limit", "output-limit")
  /\ UNCHANGED listening

\* spawn failed; Node emits `error' and later `close'.
SpawnError ==
  /\ host = "up" /\ work = "running" /\ child = "none" /\ ~swept
  /\ Fail("spawn") /\ Noted("spawn")
  /\ swept' = TRUE
  /\ UNCHANGED <<host, work, denied, listening, tree, stray>>

\* Node reaps the child and sets exitCode.
Reap ==
  /\ host = "up" /\ child = "zombie"
  /\ child' = "reaped"
  /\ UNCHANGED <<host, editor, result, helper, holding, lifetime, trouble, stray>>

\* Node emits `exit'.
MutNoSweep ==
  /\ host = "up" /\ child = "reaped" /\ ~swept
  /\ swept' = TRUE
  /\ UNCHANGED <<host, work, failure, denied, listening, tree, trouble, stray>>

Sweep ==
  /\ host = "up" /\ child = "reaped" /\ ~swept
  /\ swept' = TRUE
  /\ KillTree("exit")
  /\ UNCHANGED <<host, work, failure, listening, result, holding, lifetime, trouble>>

\* What `close' makes of the output when nothing failed before.
Complaint == IF result = "crash" THEN "stderr" ELSE result

Verdict ==
  IF failure # "none" \/ result = "good" THEN failure ELSE Complaint

Outcome(category, termination) ==
  IF category = "none" /\ termination = "no" THEN "resolved" ELSE "rejected"

Released == {}

\* Node emits `close'.
Close ==
  /\ host = "up" /\ work = "running" /\ swept
  /\ \A h \in holding : helper[h] = "gone"
  /\ listening' = Released
  /\ failure' = Verdict
  /\ trouble' = IF trouble = "none" /\ result # "good" THEN Complaint ELSE trouble
  /\ work' = IF denied = "qualified" THEN "observing" ELSE Outcome(Verdict, denied)
  /\ UNCHANGED <<host, denied, swept, tree, stray>>

\* groupHasLiveMembers answers, fails, or is given up after a second.
Observation == IF Live = {} THEN "no" ELSE denied

Observe ==
  /\ host = "up" /\ work = "observing"
  /\ denied' \in {Observation, denied}
  /\ work' = Outcome(failure, denied')
  /\ UNCHANGED <<host, failure, listening, swept, tree, trouble, stray>>

\* The extension host dies at any moment.
HostDies ==
  /\ host = "up" /\ host' = "down"
  /\ UNCHANGED <<editor, tree, trouble, stray>>

-----------------------------------------------------------------------------
(* The child and its helpers.                                              *)

Fork(h) ==
  /\ child = "up" /\ lifetime = "reading" /\ helper[h] = "none"
  /\ helper' = [helper EXCEPT ![h] = "up"]
  /\ holding' \in {holding, holding \cup {h}}
  /\ UNCHANGED <<host, editor, child, result, lifetime, trouble, stray>>

\* A helper ends by itself or by an accepted SIGKILL.
HelperEnds(h) ==
  /\ helper[h] \in {"up", "doomed"}
  /\ helper' = [helper EXCEPT ![h] = "gone"]
  /\ UNCHANGED <<host, editor, child, result, holding, lifetime, trouble, stray>>

\* cmd.Run returns once its helpers have ended, and the process exits.
MutExitsAnyway == child = "up"

MayExit == child = "up" /\ lifetime = "reading" /\ Live = {}

ChildExits ==
  /\ MayExit
  /\ child' = "zombie"
  /\ result' \in {"good", "stderr", "status", "utf8"}
  /\ UNCHANGED <<host, editor, helper, holding, lifetime, trouble, stray>>

\* A crash, or an accepted SIGKILL: either leaves the helpers behind.
ChildFails ==
  /\ child \in {"up", "doomed"}
  /\ child' = "zombie"
  /\ result' = IF child = "up" THEN "crash" ELSE "status"
  /\ UNCHANGED <<host, editor, helper, holding, lifetime, trouble, stray>>

\* The lifetime pipe reaches its end: the context is cancelled.
OwnerLost ==
  /\ host = "down" /\ child = "up" /\ lifetime = "reading"
  /\ lifetime' = "lost"
  /\ UNCHANGED <<host, editor, child, result, helper, holding, trouble, stray>>

\* terminateLostOwner, from the watch or from main after a cancelled command: the
\* child kills the group it leads, itself included.
TerminateLostOwner ==
  /\ child = "up" /\ lifetime = "lost"
  /\ child' = "doomed" /\ helper' = Doomed
  /\ UNCHANGED <<host, editor, result, holding, lifetime, trouble, stray>>

-----------------------------------------------------------------------------

Editor == \/ Abort \/ Timeout \/ PipeError \/ SpawnError
          \/ Reap \/ Sweep \/ Close \/ Observe

Next ==
  \/ Editor \/ HostDies
  \/ \E h \in Helpers : Fork(h) \/ HelperEnds(h)
  \/ ChildExits \/ ChildFails \/ OwnerLost \/ TerminateLostOwner

\* Node reports what happened, the timer fires, an accepted SIGKILL is delivered
\* and the watch is scheduled.  Nothing obliges a child or a helper to end.
Fairness ==
  /\ WF_vars(Timeout) /\ WF_vars(SpawnError) /\ WF_vars(Reap)
  /\ WF_vars(Sweep) /\ WF_vars(Close) /\ WF_vars(Observe)
  /\ WF_vars(child = "doomed" /\ ChildFails)
  /\ \A h \in Helpers : WF_vars(helper[h] = "doomed" /\ HelperEnds(h))
  /\ WF_vars(OwnerLost) /\ WF_vars(TerminateLostOwner)

Spec == Init /\ [][Next]_vars /\ Fairness

-----------------------------------------------------------------------------
(* Properties.                                                             *)

\* A settled promise means that the tree is gone: the child is reaped and every
\* helper, also one that let go of the pipes, is dead or has a SIGKILL accepted,
\* or the caller is told that termination failed (lines 84, 285-325, 361-467).
SettledMeansStopped ==
  Settled =>
    /\ child \in {"none", "reaped"}
    /\ (\E h \in Helpers : helper[h] = "up") => work = "rejected" /\ denied # "no"

\* The caller learns the first thing that went wrong, and gets output only when
\* nothing did: a late abort, timeout or pipe error neither hides an earlier cause
\* nor turns into a result (lines 276-284, 362-391).
FirstTroubleWins ==
  Settled => /\ failure = trouble
             /\ work = "resolved" => trouble = "none"

\* No signal is sent to a process id after the process was reaped, nor to a group
\* after its run closed: the number may belong to someone else (lines 286-302, 363-364).
NeverSignalsStrangers == ~stray

\* A settled run has left no process behind, tells the first thing that went wrong
\* and never signals a number that may belong to someone else.
RunsSettleCleanly ==
  SettledMeansStopped /\ FirstTroubleWins /\ NeverSignalsStrangers

\* Every run settles, also with a child that ignores its cancellation and helpers
\* that hang with its pipes, as long as the host lives and no signal was denied to a
\* group that still lives (lines 361, 478-484).
EveryRunSettles == <>(Settled \/ host = "down" \/ (denied # "no" /\ Live # {}))

\* When the host dies while the program is working, the program ends and takes its
\* helpers along, unless it crashes before it notices (lifetime.go:43-68,
\* lifetime_unix.go:34-46).
OwnerLossEndsTree ==
  (host = "down" /\ child = "up") ~>
    (child = "zombie" /\ (Live = {} \/ result = "crash"))

=============================================================================
