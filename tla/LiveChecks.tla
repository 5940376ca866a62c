----------------------------- MODULE LiveChecks -----------------------------
(***************************************************************************)
(* Checks while typing: extension/src/live-checks.ts.  Every edit restarts *)
(* a document's debounce timer and aborts its running check; a timer that  *)
(* fires while an aborted check is still being joined leaves the document  *)
(* ready, and the end of that check starts the next one.  A bounded number *)
(* of documents is served; a running one keeps its slot until it ends.     *)
(***************************************************************************)
EXTENDS Integers, Sequences, FiniteSets, SequencesExt

CONSTANTS
  Documents,
  Limit,      \* typingDocumentLimit
  MaxEdits    \* bound: how many edits are made in all

TypingAssumption ==
  IsFiniteSet(Documents) /\ Limit \in Nat \ {0} /\ MaxEdits \in Nat

VARIABLES
  entries,    \* the documents of LiveChecks.entries, in insertion order
  timers,     \* Entry.timer: the documents with one, in the order they fire
  run,        \* Entry.active: none, live (not aborted) or aborted
  ready,      \* Entry.ready
  cancelled,  \* Entry.cancelled
  stopped,    \* LiveChecks.stopped
  joining,    \* the caller of join: no, waiting, returned
  joined,     \* the documents whose work join awaits
  edits,      \* bound counter
  due         \* history: documents whose last edit is owed a check

vars == <<entries, timers, run, ready, cancelled, stopped, joining, joined, edits, due>>

Active(d) == run[d] # "none"

TypeOK ==
  /\ entries \in Seq(Documents) /\ IsInjective(entries)
  /\ timers \in Seq(Documents) /\ IsInjective(timers)
  /\ run \in [Documents -> {"none", "live", "aborted"}]
  /\ ready \subseteq Documents /\ cancelled \subseteq Documents
  /\ stopped \in BOOLEAN
  /\ joining \in {"no", "waiting", "returned"} /\ joined \subseteq Documents
  /\ edits \in 0..MaxEdits /\ due \subseteq Documents

Init ==
  /\ entries = <<>> /\ timers = <<>>
  /\ run = [d \in Documents |-> "none"]
  /\ ready = {} /\ cancelled = {}
  /\ stopped = FALSE /\ joining = "no" /\ joined = {}
  /\ edits = 0 /\ due = {}

Listed(d) == d \in ToSet(entries)

Abort(S) == [d \in Documents |-> IF d \in S /\ Active(d) THEN "aborted" ELSE run[d]]

\* What is left of a list without the members of S, in its order.
Without(list, S) ==
  LET kept == {i \in DOMAIN list : list[i] \notin S}
      Place(k) == CHOOSE i \in kept : Cardinality({j \in kept : j <= i}) = k
  IN [k \in 1..Cardinality(kept) |-> list[Place(k)]]

-----------------------------------------------------------------------------
(* schedule.                                                               *)

\* The document that gives up its slot for d: the first entry without a run.
Oldest(v) ==
  \E i \in DOMAIN entries :
    /\ v = entries[i] /\ ~Active(v)
    /\ \A j \in 1..i - 1 : Active(entries[j])

Evicted(d) ==
  IF Listed(d) \/ Len(entries) < Limit THEN {} ELSE {v \in Documents : Oldest(v)}

\* Every slot is running: the edit is dropped.
Dropped(d) == ~Listed(d) /\ Len(entries) >= Limit /\ Evicted(d) = {}

Admitted(d) == ~stopped /\ ~Dropped(d)

\* The timers once d's is set again.
Restarted(d) == Append(Without(timers, Evicted(d) \cup {d}), d)

Schedule(d) ==
  /\ edits < MaxEdits
  /\ edits' = edits + 1
  /\ IF Admitted(d)
     THEN /\ entries' = IF Listed(d) THEN entries
                        ELSE Append(Without(entries, Evicted(d)), d)
          /\ timers' = Restarted(d)
          /\ run' = Abort({d})
          /\ ready' = ready \ {d}
          /\ cancelled' = cancelled \ {d}
          /\ due' = (due \ Evicted(d)) \cup {d}
     ELSE UNCHANGED <<entries, timers, run, ready, cancelled, due>>
  /\ UNCHANGED <<stopped, joining, joined>>

-----------------------------------------------------------------------------
(* start.                                                                  *)

\* The timer that was set first fires.
Fire ==
  /\ timers # <<>>
  /\ timers' = Tail(timers)
  /\ LET d == Head(timers)
     IN  IF stopped \/ d \in cancelled \/ Active(d)
         THEN ready' = ready \cup {d} /\ UNCHANGED run
         ELSE run' = [run EXCEPT ![d] = "live"] /\ UNCHANGED ready
  /\ UNCHANGED <<entries, cancelled, stopped, joining, joined, edits, due>>

\* The run of d ends, whether or not it heeded its signal.
Finish(d) ==
  /\ Active(d)
  /\ due' = IF run[d] = "live" THEN due \ {d} ELSE due
  /\ IF d \in ready /\ d \notin cancelled /\ ~stopped
     THEN /\ run' = [run EXCEPT ![d] = "live"]
          /\ ready' = ready \ {d}
          /\ UNCHANGED entries
     ELSE /\ run' = [run EXCEPT ![d] = "none"]
          /\ entries' = IF d \in ToSet(timers) THEN entries ELSE Without(entries, {d})
          /\ UNCHANGED ready
  /\ UNCHANGED <<timers, cancelled, stopped, joining, joined, edits>>

-----------------------------------------------------------------------------
(* cancel, cancelWhere, dispose and join.                                  *)

MutCancelForgets(S) ==
  /\ cancelled' = cancelled \cup S
  /\ ready' = ready \ S
  /\ timers' = Without(timers, S)
  /\ run' = Abort(S)
  /\ entries' = Without(entries, S)
  /\ due' = due \ S

CancelAll(S) ==
  /\ cancelled' = cancelled \cup S
  /\ ready' = ready \ S
  /\ timers' = Without(timers, S)
  /\ run' = Abort(S)
  /\ entries' = Without(entries, {d \in S : ~Active(d)})
  /\ due' = due \ S

Cancel(S) ==
  /\ S # {} /\ S \subseteq ToSet(entries)
  /\ CancelAll(S)
  /\ UNCHANGED <<stopped, joining, joined, edits>>

Dispose ==
  /\ ~stopped
  /\ stopped' = TRUE
  /\ CancelAll(ToSet(entries))
  /\ UNCHANGED <<joining, joined, edits>>

\* The owner joins after dispose.
JoinCall ==
  /\ stopped /\ joining = "no"
  /\ joining' = "waiting"
  /\ joined' = {d \in ToSet(entries) : Active(d)}
  /\ UNCHANGED <<entries, timers, run, ready, cancelled, stopped, edits, due>>

JoinReturn ==
  /\ joining = "waiting" /\ \A d \in joined : ~Active(d)
  /\ joining' = "returned"
  /\ UNCHANGED <<entries, timers, run, ready, cancelled, stopped, joined, edits, due>>

-----------------------------------------------------------------------------

Next ==
  \/ \E d \in Documents : Schedule(d) \/ Finish(d)
  \/ Fire
  \/ \E S \in SUBSET Documents : Cancel(S)
  \/ Dispose \/ JoinCall \/ JoinReturn

\* Timers fire and runs end: each is a lane request, which always settles.
Fairness ==
  /\ WF_vars(Fire) /\ WF_vars(JoinReturn)
  /\ \A d \in Documents : WF_vars(Finish(d))

Spec == Init /\ [][Next]_vars /\ Fairness

-----------------------------------------------------------------------------
(* Properties.                                                             *)

\* What is being served is exactly what is owed: a document whose last edit is
\* not checked yet has its timer set, a check that started after the edit, or
\* waits behind the check being joined; and nothing withdrawn is still served.
\* An edit while the old check joins is where this could fail (lines 43-70).
ServesExactlyTheDue ==
  due = {d \in Documents : \/ d \in ToSet(timers)
                           \/ run[d] = "live"
                           \/ d \in ready /\ run[d] = "aborted"}

\* A running check holds a slot until it has ended, so cancelling and typing
\* again never has more than Limit checks alive (lines 34-35 and 80).
RunsAreCharged ==
  /\ \A d \in Documents : Active(d) => Listed(d)
  /\ Len(entries) <= Limit

\* Once join returned after dispose no check runs and none will (lines 88-99).
QuietAfterJoin ==
  joining = "returned" => timers = <<>> /\ \A d \in Documents : ~Active(d)

\* Every edit is checked, unless it is withdrawn or gives up its slot.
EveryEditServed == \A d \in Documents : d \in due ~> d \notin due

=============================================================================
