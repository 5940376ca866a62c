------------------------ MODULE FolderRefreshProofs ------------------------
(***************************************************************************)
(* What is pending in the editor is armed, a marked folder without         *)
(* complete coverage is owed a scan, and closed files settle on what the   *)
(* disk holds, for every set of folders, files, documents and controls and *)
(* every number of events.                                                 *)
(*                                                                         *)
(* The first two rest on one inductive invariant: Sound says what the      *)
(* editor's fields hold, that queued work has a timer or a flush, and that *)
(* disposal stops everything; Covered says who owes a folder its scan.     *)
(* The handlers are operators from one record to the next, so each has a   *)
(* lemma of its own: Keeps says that a record led to another keeps both,   *)
(* Covered for all folders but some.  The files have a second invariant,   *)
(* FilesInv: whatever covered file does not show the disk is being worked  *)
(* on or has an event on its way.  There Tends plays the part of Keeps.    *)
(***************************************************************************)
EXTENDS FolderRefresh, FiniteSetTheorems, SequenceTheorems, WellFoundedInduction, TLAPS

Fields == {"marked", "disposed", "pendingRefresh", "refreshTimer", "pendingFiles",
  "fileTimer", "missing", "fingerprint", "complete", "shown", "document", "opening",
  "folderSeen", "known", "sourceSeen", "contexts", "scans", "flush"}
FlushFields == {"phase", "ahead", "todo", "met", "rooted", "admitted", "selected", "item"}
RequestFields == {"folder", "kind", "owner", "items", "want", "phase", "live", "read",
  "accepted", "told", "ahead", "turn", "changed"}
Marks == [Items -> {"no", "plain", "forced"}]

\* A request that is no longer current renders its report; what a full scan has read
\* lies in its own folder, so that a file that moved meanwhile is queued there.
RequestOK(s) ==
  /\ DOMAIN s = RequestFields
  /\ s.folder \in Folders
  /\ s.items \subseteq Items
  /\ s.live \in BOOLEAN /\ (s.live \/ s.phase = "report")
  /\ s.kind = "full" => \A x \in Files : s.read[x] > 0 => FolderOf[x] = s.folder

FieldsOK(state) ==
  /\ DOMAIN state = Fields
  /\ state.marked \subseteq Folders
  /\ state.pendingFiles \in Marks
  /\ state.fileTimer \in BOOLEAN /\ state.disposed \in BOOLEAN
  /\ \A s \in state.scans : RequestOK(s)

\* A flush has met no folder before it takes the queued files.
FlushOK(state) ==
  /\ DOMAIN state.flush = FlushFields
  /\ state.flush.todo \in Marks
  /\ state.flush.phase \in {"idle", "context"} =>
       state.flush.met = {} /\ \A x \in Items : state.flush.todo[x] = "no"

QueuedIn(state, f) == \E x \in Items : FolderOf[x] = f /\ state.pendingFiles[x] # "no"

Armed(state) ==
  /\ ~state.disposed /\ state.pendingRefresh # {} => state.refreshTimer # "none"
  /\ (\E x \in Items : state.pendingFiles[x] # "no")
       => state.fileTimer \/ state.flush.phase # "idle"

Silenced(state) ==
  state.disposed =>
    /\ state.marked = {} /\ ~state.fileTimer /\ state.refreshTimer = "none"
    /\ \A x \in Items : state.pendingFiles[x] = "no"
    /\ \A s \in state.scans : s.phase = "report" /\ ~s.live

Sound(state) == FieldsOK(state) /\ FlushOK(state) /\ Armed(state) /\ Silenced(state)

ScannedIn(state, f) == \E s \in state.scans : s.folder = f /\ s.kind = "full" /\ s.live

\* The flush ends with a scan of the folder: it will meet it, or it holds its root.
FlushOwes(state, f) ==
  \/ f \in state.flush.met /\ f \in state.flush.rooted
  \/ /\ f \notin state.flush.met
     /\ \E x \in Items : FolderOf[x] = f /\ state.flush.todo[x] # "no"

Covered(state, f) ==
  f \in state.marked /\ f \notin state.complete =>
    \/ f \in state.pendingRefresh \/ ScannedIn(state, f) \/ QueuedIn(state, f)
    \/ FlushOwes(state, f)

Coverage(state) == \A f \in Folders : Covered(state, f)

\* No watched file is missing from the disk.
NothingGone == \A w \in Watched : disk[w] # 0

\* One record of the editor led to another: the folders in F may have lost their scan.
Keeps(state, r, F) ==
  /\ Sound(r)
  /\ r.marked = state.marked /\ r.disposed = state.disposed
  /\ \A f \in Folders \ F : Covered(state, f) => Covered(r, f)

\* The two differ in nothing that Sound and Covered speak of.
SameView(state, r) ==
  /\ DOMAIN r = Fields /\ DOMAIN r.flush = FlushFields
  /\ r.marked = state.marked /\ r.disposed = state.disposed
  /\ r.pendingRefresh = state.pendingRefresh /\ r.refreshTimer = state.refreshTimer
  /\ r.pendingFiles = state.pendingFiles /\ r.fileTimer = state.fileTimer
  /\ r.complete = state.complete /\ r.scans = state.scans
  /\ r.flush.phase = state.flush.phase /\ r.flush.todo = state.flush.todo
  /\ r.flush.met = state.flush.met /\ r.flush.rooted = state.flush.rooted

\* Sound and Covered depend on few fields: a record that has the same ones keeps both.
LEMMA ViewKeeps ==
  ASSUME NEW state, Sound(state), NEW r, SameView(state, r)
  PROVE  Keeps(state, r, {})
<1>1. Sound(r)
  <2>1. FieldsOK(r)
    BY DEF Sound, FieldsOK, SameView
  <2>2. FlushOK(r)
    BY DEF Sound, FlushOK, SameView
  <2>3. Armed(r)
    BY DEF Sound, Armed, SameView
  <2>4. Silenced(r)
    BY DEF Sound, Silenced, SameView
  <2> QED BY <2>1, <2>2, <2>3, <2>4 DEF Sound
<1>2. \A f \in Folders : Covered(state, f) => Covered(r, f)
  BY DEF Covered, ScannedIn, QueuedIn, FlushOwes, SameView
<1> QED BY <1>1, <1>2 DEF Keeps, SameView

\* Two steps that keep both do so together.
LEMMA KeepsChain ==
  ASSUME NEW a, NEW b, NEW c, NEW F, NEW G, Keeps(a, b, F), Keeps(b, c, G)
  PROVE  Keeps(a, c, F \cup G)
BY DEF Keeps

\* With other scans both are kept, but for folders whose full scan is gone.
LEMMA NewScans ==
  ASSUME NEW state, Sound(state), NEW X, \A s \in X : RequestOK(s),
         state.disposed => \A s \in X : s.phase = "report" /\ ~s.live,
         NEW F, \A f \in Folders \ F : ScannedIn(state, f) =>
                  \E s \in X : s.folder = f /\ s.kind = "full" /\ s.live
  PROVE  Keeps(state, [state EXCEPT !.scans = X], F)
<1> DEFINE r == [state EXCEPT !.scans = X]
<1>1. /\ DOMAIN r = Fields /\ r.scans = X
      /\ r.flush = state.flush
      /\ r.marked = state.marked /\ r.disposed = state.disposed
      /\ r.pendingRefresh = state.pendingRefresh /\ r.refreshTimer = state.refreshTimer
      /\ r.pendingFiles = state.pendingFiles /\ r.fileTimer = state.fileTimer
      /\ r.complete = state.complete
  BY DEF Sound, FieldsOK, Fields
<1> HIDE DEF r
<1>2. Sound(r)
  <2>1. FieldsOK(r)
    BY <1>1 DEF Sound, FieldsOK
  <2>2. FlushOK(r)
    BY <1>1 DEF Sound, FlushOK
  <2>3. Armed(r)
    BY <1>1 DEF Sound, Armed
  <2>4. Silenced(r)
    BY <1>1 DEF Sound, Silenced
  <2> QED BY <2>1, <2>2, <2>3, <2>4 DEF Sound
<1>3. ASSUME NEW f \in Folders \ F, Covered(state, f) PROVE Covered(r, f)
  BY <1>1, <1>3 DEF Covered, ScannedIn, QueuedIn, FlushOwes
<1> QED BY <1>1, <1>2, <1>3 DEF Keeps, r

-----------------------------------------------------------------------------
(* The handlers' operators.                                                *)

\* Revoking keeps both, but for the folders of the full scans that were revoked.
LEMMA RevokeKeeps ==
  ASSUME NEW state, Sound(state), NEW old, old \subseteq state.scans,
         NEW F, \A s \in old : s.kind = "full" => s.folder \in F
  PROVE  Keeps(state, Revoke(state, old), F)
<1> DEFINE X == (state.scans \ old)
                  \cup {[s EXCEPT !.live = FALSE] : s \in {t \in old : t.phase = "report"}}
<1>1. ASSUME NEW s \in X
      PROVE  \/ s \in state.scans
             \/ \E t \in old : t.phase = "report" /\ s = [t EXCEPT !.live = FALSE]
  OBVIOUS
<1>2. \A s \in state.scans : RequestOK(s)
  BY DEF Sound, FieldsOK
<1>3. ASSUME NEW t \in state.scans, t.phase = "report"
      PROVE  RequestOK([t EXCEPT !.live = FALSE])
  BY <1>2, <1>3 DEF RequestOK, RequestFields
<1>4. \A s \in X : RequestOK(s)
  BY <1>1, <1>2, <1>3
<1>5. ASSUME state.disposed, NEW s \in X PROVE s.phase = "report" /\ ~s.live
  BY <1>1, <1>2, <1>5 DEF Sound, Silenced, RequestOK, RequestFields
<1>6. ASSUME NEW f \in Folders \ F, ScannedIn(state, f)
      PROVE  \E s \in X : s.folder = f /\ s.kind = "full" /\ s.live
  BY <1>6 DEF ScannedIn
<1> HIDE DEF X
<1>7. Keeps(state, [state EXCEPT !.scans = X], F)
  BY <1>4, <1>5, <1>6, NewScans
<1> QED BY <1>7 DEF Revoke, X

\* A moved scanRevision owes its folders a scan.
LEMMA BumpKeeps ==
  ASSUME NEW state, Sound(state), NEW F
  PROVE  Keeps(state, Bump(state, F), F)
<1> DEFINE old == {s \in state.scans : s.folder \in F /\ s.kind = "full"}
<1>1. Keeps(state, Revoke(state, old), F)
  BY RevokeKeeps
<1> QED BY <1>1 DEF Bump

\* What Bump leaves alone.
LEMMA BumpFrame ==
  ASSUME NEW state, DOMAIN state = Fields, NEW F
  PROVE  Bump(state, F) = [state EXCEPT !.scans = Bump(state, F).scans]
BY DEF Bump, Revoke, Fields

\* Queued files revoke the full scans of their folders, and owe them a new one.
LEMMA QueueAnyKeeps ==
  ASSUME NEW state, Sound(state), NEW S, NEW force
  PROVE  /\ Keeps(state, QueueFiles(state, S, force), FoldersOf(S \ Items))
         /\ QueueFiles(state, S, force).complete = state.complete
         /\ \A x \in S \cap Items : FolderOf[x] \in state.marked =>
              QueuedIn(QueueFiles(state, S, force), FolderOf[x])
<1> DEFINE Q == Queueable(state, S)
           B == Bump(state, FoldersOf(Q))
           P == [x \in Items |-> IF x \notin Q THEN state.pendingFiles[x]
                  ELSE IF force \/ state.pendingFiles[x] = "forced" THEN "forced" ELSE "plain"]
           r == QueueFiles(state, S, force)
<1>1. Q \subseteq S /\ (state.disposed => Q = {})
  BY DEF Queueable
<1>2. \A x \in S : FolderOf[x] \in state.marked => x \in Q
  BY DEF Queueable, Sound, Silenced
<1>3. Keeps(state, B, FoldersOf(Q))
  BY BumpKeeps
<1>4. B = [state EXCEPT !.scans = B.scans] /\ DOMAIN state = Fields
  BY BumpFrame DEF Sound, FieldsOK
<1>5. /\ DOMAIN B = Fields /\ B.flush = state.flush
      /\ B.marked = state.marked /\ B.disposed = state.disposed
      /\ B.pendingRefresh = state.pendingRefresh /\ B.refreshTimer = state.refreshTimer
      /\ B.pendingFiles = state.pendingFiles /\ B.fileTimer = state.fileTimer
      /\ B.complete = state.complete
  BY <1>4 DEF Fields
<1>6. r = [B EXCEPT !.pendingFiles = [x \in Items |-> IF x \notin Q THEN B.pendingFiles[x]
              ELSE IF force \/ B.pendingFiles[x] = "forced" THEN "forced" ELSE "plain"],
            !.fileTimer = B.fileTimer \/ Q # {}]
  BY DEF QueueFiles
<1> HIDE DEF B, r, Q
<1>7. /\ DOMAIN r = Fields /\ r.pendingFiles = P /\ r.fileTimer = (state.fileTimer \/ Q # {})
      /\ r.scans = B.scans /\ r.flush = state.flush
      /\ r.marked = state.marked /\ r.disposed = state.disposed
      /\ r.pendingRefresh = state.pendingRefresh /\ r.refreshTimer = state.refreshTimer
      /\ r.complete = state.complete
  BY <1>5, <1>6 DEF Fields
<1>8. P \in Marks /\ \A x \in Items : P[x] = "no" <=> x \notin Q /\ state.pendingFiles[x] = "no"
  BY DEF Sound, FieldsOK, Marks
<1> HIDE DEF P
<1>9. Sound(r)
  <2>1. FieldsOK(r)
    BY <1>3, <1>7, <1>8 DEF Sound, FieldsOK, Keeps
  <2>2. FlushOK(r)
    BY <1>7 DEF Sound, FlushOK
  <2>3. Armed(r)
    BY <1>7, <1>8 DEF Sound, Armed
  <2>4. Silenced(r)
    BY <1>1, <1>3, <1>5, <1>7, <1>8 DEF Sound, Silenced, Keeps
  <2> QED BY <2>1, <2>2, <2>3, <2>4 DEF Sound
<1>10. ASSUME NEW x \in Q \cap Items PROVE QueuedIn(r, FolderOf[x])
  BY <1>1, <1>7, <1>8, <1>10 DEF QueuedIn
<1>11. ASSUME NEW f \in Folders \ FoldersOf(S \ Items), Covered(state, f) PROVE Covered(r, f)
  <2>1. CASE f \in FoldersOf(Q)
    <3>1. PICK x \in Q : f = FolderOf[x]
      BY <2>1 DEF FoldersOf
    <3>2. x \in Items
      BY <1>1, <1>11, <3>1 DEF FoldersOf
    <3> QED BY <1>10, <3>1, <3>2 DEF Covered
  <2>2. CASE f \notin FoldersOf(Q)
    <3>1. Covered(B, f)
      BY <1>3, <1>11, <2>2 DEF Keeps
    <3> QED BY <3>1, <1>5, <1>7, <1>8 DEF Covered, ScannedIn, QueuedIn, FlushOwes
  <2> QED BY <2>1, <2>2
<1>12. \A x \in S \cap Items : FolderOf[x] \in state.marked => QueuedIn(r, FolderOf[x])
  BY <1>2, <1>10
<1> QED BY <1>7, <1>9, <1>11, <1>12 DEF Keeps, r

\* A queued file owes its folder the scan it revoked: its flush ends with it.
LEMMA QueueKeeps ==
  ASSUME NEW state, Sound(state), NEW S \in SUBSET Items, NEW force
  PROVE  /\ Keeps(state, QueueFiles(state, S, force), {})
         /\ \A x \in S : FolderOf[x] \in state.marked =>
              QueuedIn(QueueFiles(state, S, force), FolderOf[x])
<1>1. FoldersOf(S \ Items) = {} /\ S \cap Items = S
  BY DEF FoldersOf
<1> QED BY <1>1, QueueAnyKeeps

\* A folder that owes a refresh is covered, whatever it lost.
LEMMA QueueCoverageKeeps ==
  ASSUME NEW state, Sound(state), NEW f, ~state.disposed
  PROVE  /\ Keeps(state, QueueCoverage(state, f), {})
         /\ Covered(QueueCoverage(state, f), f)
<1> DEFINE r == QueueCoverage(state, f)
<1>1. /\ DOMAIN r = Fields /\ r.flush = state.flush /\ r.scans = state.scans
      /\ r.marked = state.marked /\ r.disposed = state.disposed
      /\ r.pendingFiles = state.pendingFiles /\ r.fileTimer = state.fileTimer
      /\ r.complete = state.complete \ {f} /\ r.pendingRefresh = state.pendingRefresh \cup {f}
      /\ r.refreshTimer = IF f \in state.pendingRefresh THEN state.refreshTimer ELSE "coverage"
  BY DEF QueueCoverage, Sound, FieldsOK, Fields
<1> HIDE DEF r
<1>2. Sound(r)
  <2>1. FieldsOK(r)
    BY <1>1 DEF Sound, FieldsOK
  <2>2. FlushOK(r)
    BY <1>1 DEF Sound, FlushOK
  <2>3. Armed(r)
    BY <1>1 DEF Sound, Armed
  <2>4. Silenced(r)
    BY <1>1 DEF Sound, Silenced
  <2> QED BY <2>1, <2>2, <2>3, <2>4 DEF Sound
<1>3. Covered(r, f)
  BY <1>1 DEF Covered
<1>4. \A g \in Folders : Covered(state, g) => Covered(r, g)
  BY <1>1 DEF Covered, ScannedIn, QueuedIn, FlushOwes
<1> QED BY <1>1, <1>2, <1>3, <1>4 DEF Keeps, r

\* Forgetting files may revoke a scan that nobody else owes.
LEMMA ForgetSound ==
  ASSUME NEW state, Sound(state), NEW S
  PROVE  Keeps(state, Forget(state, S), Folders)
<1> DEFINE B == Bump(state, FoldersOf(S))
           r == Forget(state, S)
<1>1. Keeps(state, B, FoldersOf(S))
  BY BumpKeeps
<1>2. B = [state EXCEPT !.scans = B.scans] /\ DOMAIN state = Fields
  BY BumpFrame DEF Sound, FieldsOK
<1>3. /\ DOMAIN B = Fields /\ B.flush = state.flush
      /\ B.marked = state.marked /\ B.disposed = state.disposed
      /\ B.pendingRefresh = state.pendingRefresh /\ B.refreshTimer = state.refreshTimer
      /\ B.pendingFiles = state.pendingFiles /\ B.fileTimer = state.fileTimer
      /\ B.complete = state.complete
  BY <1>2 DEF Fields
<1>4. /\ DOMAIN r = Fields /\ r.flush = B.flush
      /\ r.pendingFiles = [x \in Items |-> IF x \in S THEN "no" ELSE B.pendingFiles[x]]
      /\ r.fileTimer = B.fileTimer
      /\ r.scans \subseteq B.scans
      /\ r.marked = B.marked /\ r.disposed = B.disposed
      /\ r.pendingRefresh = B.pendingRefresh /\ r.refreshTimer = B.refreshTimer
      /\ r.complete = B.complete
  <2>1. DOMAIN B = Fields
    BY <1>3
  <2> QED BY <2>1 DEF Forget, Fields
<1> HIDE DEF B, r
<1>5. /\ r.pendingFiles \in Marks
      /\ \A x \in Items : state.pendingFiles[x] = "no" => r.pendingFiles[x] = "no"
  BY <1>3, <1>4 DEF Sound, FieldsOK, Marks
<1>6. Sound(B)
  BY <1>1 DEF Keeps
<1>7. Sound(r)
  <2>1. FieldsOK(r)
    BY <1>4, <1>5, <1>6 DEF Sound, FieldsOK
  <2>2. FlushOK(r)
    BY <1>4, <1>6 DEF Sound, FlushOK
  <2>3. Armed(r)
    BY <1>3, <1>4, <1>5 DEF Sound, Armed
  <2>4. Silenced(r)
    BY <1>3, <1>4, <1>5, <1>6 DEF Sound, Silenced
  <2> QED BY <2>1, <2>2, <2>3, <2>4 DEF Sound
<1> QED BY <1>3, <1>4, <1>7 DEF Keeps, r

\* Nothing is lost where no file is missing.
LEMMA ConfirmKeeps ==
  ASSUME NEW state, Sound(state), NEW S \in SUBSET Items
  PROVE  /\ Keeps(state, ConfirmMissing(state, S), Folders)
         /\ S = {} => ConfirmMissing(state, S) = state
<1> DEFINE again == S \cap state.missing
           forgot == Forget(state, again)
           noted == [forgot EXCEPT !.missing = @ \cup (S \ again)]
           r == ConfirmMissing(state, S)
<1>1. Keeps(state, forgot, Folders)
  BY ForgetSound
<1>2. SameView(forgot, noted)
  BY <1>1 DEF SameView, Keeps, Sound, FieldsOK, FlushOK, Fields
<1>3. Keeps(forgot, noted, {})
  BY <1>1, <1>2, ViewKeeps DEF Keeps
<1>4. CASE S = {}
  <2>1. r = state
    BY <1>4 DEF ConfirmMissing
  <2>2. SameView(state, state)
    BY DEF SameView, Sound, FieldsOK, FlushOK
  <2>3. Keeps(state, state, Folders)
    BY <2>2, ViewKeeps DEF Keeps
  <2> QED BY <2>1, <2>3
<1>5. CASE S # {}
  <2>1. r = QueueFiles(noted, S \ again, FALSE) /\ S \ again \in SUBSET Items
    BY <1>5 DEF ConfirmMissing
  <2>2. Sound(noted)
    BY <1>3 DEF Keeps
  <2> HIDE DEF noted, r, again
  <2>3. Keeps(noted, r, {})
    BY <2>1, <2>2, QueueKeeps
  <2> HIDE DEF forgot
  <2>4. Keeps(state, r, Folders)
    BY <1>1, <1>3, <2>3 DEF Keeps
  <2> QED BY <1>5, <2>4 DEF r
<1> QED BY <1>4, <1>5

\* A new request of a folder or of documents.
LEMMA RequestAdded ==
  ASSUME NEW state, Sound(state), ~state.disposed, NEW R, \A s \in R : RequestOK(s)
  PROVE  Keeps(state, [state EXCEPT !.scans = state.scans \cup R], {})
<1>1. \A s \in state.scans \cup R : RequestOK(s)
  BY DEF Sound, FieldsOK
<1>2. \A f \in Folders : ScannedIn(state, f) =>
        \E s \in state.scans \cup R : s.folder = f /\ s.kind = "full" /\ s.live
  BY DEF ScannedIn
<1> QED BY <1>1, <1>2, NewScans

\* A request that is just made is as it should be.
LEMMA RequestFresh ==
  ASSUME NEW f \in Folders, NEW kind \in {"full", "files", "document"}, NEW owner,
         NEW items \in SUBSET Items, NEW want
  PROVE  /\ RequestOK(Request(f, kind, owner, items, want))
         /\ Request(f, kind, owner, items, want).folder = f
         /\ Request(f, kind, owner, items, want).kind = kind
         /\ Request(f, kind, owner, items, want).live
<1>1. \A x \in Files : Blank[x] = -1
  BY DEF Blank, Nil, Watched
<1> QED BY <1>1 DEF Request, RequestOK, RequestFields

\* A document's check owes no folder anything.
LEMMA CheckDocumentsKeeps ==
  ASSUME RefreshAssumption, NEW state, Sound(state), ~state.disposed,
         NEW docs \in SUBSET Documents, NEW owner
  PROVE  Keeps(state, CheckDocuments(state, docs, owner), {})
<1> DEFINE R == {Request(FolderOf[d], "document", owner, {d}, Blank) : d \in docs}
<1>1. \A d \in docs : FolderOf[d] \in Folders /\ {d} \in SUBSET Items
  BY DEF RefreshAssumption, Items
<1>2. ASSUME NEW s \in R PROVE RequestOK(s)
  <2>1. PICK d \in docs : s = Request(FolderOf[d], "document", owner, {d}, Blank)
    OBVIOUS
  <2> QED BY <1>1, <2>1, RequestFresh
<1> HIDE DEF R
<1>3. Keeps(state, [state EXCEPT !.scans = state.scans \cup R], {})
  BY <1>2, RequestAdded
<1> QED BY <1>3 DEF CheckDocuments, R

\* Its folders owe nothing any more.
LEMMA CheckSavedKeeps ==
  ASSUME NEW state, Sound(state), ~state.disposed, NEW F \in SUBSET Folders, NEW owner
  PROVE  /\ Keeps(state, CheckSaved(state, F, owner), {})
         /\ \A f \in F : ScannedIn(CheckSaved(state, F, owner), f)
<1> DEFINE R == {Request(f, "full", owner, {}, Blank) : f \in F}
           r == [state EXCEPT !.scans = state.scans \cup R]
<1>1. \A f \in F : /\ RequestOK(Request(f, "full", owner, {}, Blank))
                   /\ Request(f, "full", owner, {}, Blank).folder = f
                   /\ Request(f, "full", owner, {}, Blank).kind = "full"
                   /\ Request(f, "full", owner, {}, Blank).live
  BY RequestFresh
<1>2. \A s \in R : RequestOK(s)
  BY <1>1
<1>3. \A f \in F : \E s \in R : s.folder = f /\ s.kind = "full" /\ s.live
  BY <1>1
<1> HIDE DEF R
<1>4. Keeps(state, r, {})
  BY <1>2, RequestAdded
<1>5. r.scans = state.scans \cup R
  BY DEF Sound, FieldsOK, Fields
<1>6. r = CheckSaved(state, F, owner)
  BY DEF CheckSaved, R
<1>7. \A f \in F : ScannedIn(r, f)
  BY <1>3, <1>5 DEF ScannedIn
<1> QED BY <1>4, <1>6, <1>7

\* Events are only noted.
LEMMA EventsKeep ==
  ASSUME NEW state, Sound(state), NEW W
  PROVE  Keeps(state, ContextEvents(state, W), {})
<1>1. SameView(state, ContextEvents(state, W))
  <2>1. CASE W = {}
    BY <2>1 DEF ContextEvents, SameView, Sound, FieldsOK, FlushOK
  <2>2. CASE W # {}
    BY <2>2 DEF ContextEvents, SameView, Sound, FieldsOK, FlushOK, Fields
  <2> QED BY <2>1, <2>2
<1> QED BY <1>1, ViewKeeps

\* A request is withdrawn: its own folder may lose its scan.
LEMMA WithoutKeeps ==
  ASSUME NEW state, Sound(state), NEW s \in state.scans
  PROVE  Keeps(state, [state EXCEPT !.scans = @ \ {s}],
               IF s.kind = "full" /\ s.live THEN {s.folder} ELSE {})
<1> DEFINE F == IF s.kind = "full" /\ s.live THEN {s.folder} ELSE {}
<1>1. \A t \in state.scans \ {s} : RequestOK(t)
  BY DEF Sound, FieldsOK
<1>2. state.disposed => \A t \in state.scans \ {s} : t.phase = "report" /\ ~t.live
  BY DEF Sound, Silenced
<1>3. \A f \in Folders \ F : ScannedIn(state, f) =>
        \E t \in state.scans \ {s} : t.folder = f /\ t.kind = "full" /\ t.live
  BY DEF ScannedIn
<1> HIDE DEF F
<1>4. Keeps(state, [state EXCEPT !.scans = state.scans \ {s}], F)
  BY <1>1, <1>2, <1>3, NewScans
<1> QED BY <1>4 DEF F

\* A request goes on: some others of its kind and folder may be dropped.
LEMMA ScanMoves ==
  ASSUME NEW state, Sound(state), ~state.disposed, NEW s \in state.scans, NEW t, RequestOK(t),
         t.folder = s.folder, t.kind = s.kind, t.live,
         NEW X, X \subseteq state.scans,
         \A u \in state.scans : u \in X \/ u = s \/ (u.folder = s.folder /\ u.kind = s.kind)
  PROVE  Keeps(state, [state EXCEPT !.scans = X \cup {t}], {})
<1>1. \A u \in X \cup {t} : RequestOK(u)
  BY DEF Sound, FieldsOK
<1>2. \A f \in Folders : ScannedIn(state, f) =>
        \E u \in X \cup {t} : u.folder = f /\ u.kind = "full" /\ u.live
  BY DEF ScannedIn
<1> QED BY <1>1, <1>2, NewScans

-----------------------------------------------------------------------------
(* The context queue.                                                      *)

\* The event at the head is served: everything behind it moves up.
LEMMA DequeueKeeps ==
  ASSUME NEW state, Sound(state)
  PROVE  Keeps(state, Dequeue(state), {})
<1> DEFINE next(s) == [s EXCEPT !.ahead = IF @ > 0 THEN @ - 1 ELSE 0]
           X == {next(s) : s \in state.scans}
           moved == [state EXCEPT !.scans = X]
<1>1. \A s \in state.scans : RequestOK(s)
  BY DEF Sound, FieldsOK
<1>2. \A s \in state.scans : /\ RequestOK(next(s)) /\ next(s).folder = s.folder
                             /\ next(s).kind = s.kind /\ next(s).live = s.live
                             /\ next(s).phase = s.phase
  BY <1>1 DEF RequestOK, RequestFields
<1> HIDE DEF next
<1>3. \A s \in X : RequestOK(s)
  BY <1>2
<1>4. state.disposed => \A s \in X : s.phase = "report" /\ ~s.live
  BY <1>2 DEF Sound, Silenced
<1>5. \A f \in Folders : ScannedIn(state, f) =>
        \E s \in X : s.folder = f /\ s.kind = "full" /\ s.live
  BY <1>2 DEF ScannedIn
<1> HIDE DEF X
<1>6. Keeps(state, moved, {})
  BY <1>3, <1>4, <1>5, NewScans
<1>7. SameView(moved, Dequeue(state))
  <2>1. DOMAIN state = Fields /\ DOMAIN state.flush = FlushFields
    BY DEF Sound, FieldsOK, FlushOK
  <2>2. Dequeue(state) = [state EXCEPT !.contexts = Tail(state.contexts), !.scans = X,
                            !.flush.ahead = IF @ > 0 THEN @ - 1 ELSE 0]
    BY DEF Dequeue, X, next
  <2> QED BY <2>1, <2>2 DEF SameView, Fields, FlushFields
<1> QED BY <1>6, <1>7, ViewKeeps, KeepsChain DEF Keeps

\* A confirmed event is told to the requests of its folder.
LEMMA ConfirmedKeeps ==
  ASSUME NEW state, Sound(state), NEW w
  PROVE  Keeps(state, Confirm(state, w), {})
<1> DEFINE next(s) == IF s.folder = FolderOf[w]
                      THEN [s EXCEPT !.told = @ \cup {<<w, disk[w]>>}] ELSE s
           X == {next(s) : s \in state.scans}
           moved == [state EXCEPT !.scans = X]
<1>1. \A s \in state.scans : RequestOK(s)
  BY DEF Sound, FieldsOK
<1>2. \A s \in state.scans : /\ RequestOK(next(s)) /\ next(s).folder = s.folder
                             /\ next(s).kind = s.kind /\ next(s).live = s.live
                             /\ next(s).phase = s.phase
  BY <1>1 DEF RequestOK, RequestFields
<1> HIDE DEF next
<1>3. \A s \in X : RequestOK(s)
  BY <1>2
<1>4. state.disposed => \A s \in X : s.phase = "report" /\ ~s.live
  BY <1>2 DEF Sound, Silenced
<1>5. \A f \in Folders : ScannedIn(state, f) =>
        \E s \in X : s.folder = f /\ s.kind = "full" /\ s.live
  BY <1>2 DEF ScannedIn
<1> HIDE DEF X
<1>6. Keeps(state, moved, {})
  BY <1>3, <1>4, <1>5, NewScans
<1>7. SameView(moved, Confirm(state, w))
  <2>1. DOMAIN state = Fields /\ DOMAIN state.flush = FlushFields
    BY DEF Sound, FieldsOK, FlushOK
  <2>2. /\ DOMAIN Confirm(state, w) = Fields
        /\ Confirm(state, w).scans = X
    BY <2>1 DEF Confirm, X, next, Fields
  <2>3. /\ Confirm(state, w).flush = state.flush
        /\ Confirm(state, w).marked = state.marked /\ Confirm(state, w).disposed = state.disposed
        /\ Confirm(state, w).pendingRefresh = state.pendingRefresh
        /\ Confirm(state, w).refreshTimer = state.refreshTimer
        /\ Confirm(state, w).pendingFiles = state.pendingFiles
        /\ Confirm(state, w).fileTimer = state.fileTimer
        /\ Confirm(state, w).complete = state.complete
    BY <2>1 DEF Confirm, Fields
  <2> QED BY <2>1, <2>2, <2>3 DEF SameView, Fields
<1> QED BY <1>6, <1>7, ViewKeeps, KeepsChain DEF Keeps

\* A changed file is queued with what it affects, all in its folder, which owes a scan
\* unless it is covered.
LEMMA ApplyFileKeeps ==
  ASSUME NEW state, Sound(state), ~state.disposed,
         NEW x, NEW affected, \A y \in affected : FolderOf[y] = FolderOf[x]
  PROVE  Keeps(state, ApplyFile(state, x, affected), {})
<1> DEFINE f == FolderOf[x]
           forced == ForceFiles(state, affected)
           queued == QueueFiles(forced, {x}, FALSE)
           bumped == Bump(queued, {f})
           scanned == QueueCoverage(bumped, f)
<1>1. Keeps(state, forced, {f}) /\ forced.complete = state.complete
  <2>1. FoldersOf(affected \ Items) \subseteq {f}
    BY DEF FoldersOf
  <2> QED BY <2>1, QueueAnyKeeps DEF ForceFiles, Keeps
<1>2. Keeps(forced, queued, {f}) /\ queued.complete = forced.complete
  <2>1. FoldersOf({x} \ Items) \subseteq {f} /\ Sound(forced)
    BY <1>1 DEF FoldersOf, Keeps
  <2>2. /\ Keeps(forced, queued, FoldersOf({x} \ Items))
        /\ queued.complete = forced.complete
    <3> HIDE DEF forced
    <3> QED BY <2>1, QueueAnyKeeps
  <2> HIDE DEF forced, queued, f
  <2> QED BY <2>1, <2>2 DEF Keeps
<1>3. Keeps(queued, bumped, {f})
  BY <1>2, BumpKeeps DEF Keeps
<1>4. Keeps(bumped, scanned, {}) /\ Covered(scanned, f)
  <2>1. Sound(bumped) /\ ~bumped.disposed
    BY <1>1, <1>2, <1>3 DEF Keeps
  <2> HIDE DEF bumped, f
  <2> QED BY <2>1, QueueCoverageKeeps
<1>5. ApplyFile(state, x, affected) = IF f \in state.complete THEN queued ELSE scanned
  BY DEF ApplyFile
<1>6. f \in queued.complete => Covered(queued, f)
  BY DEF Covered
<1> HIDE DEF forced, queued, f, bumped, scanned
<1> QED BY <1>1, <1>2, <1>3, <1>4, <1>5, <1>6 DEF Keeps

\* The queued checks of the closed files of one folder are dropped.
LEMMA ClearKeeps ==
  ASSUME NEW state, Sound(state), NEW f
  PROVE  LET r == [state EXCEPT !.pendingFiles =
                    [x \in Items |-> IF x \in In(f, Files) THEN "no" ELSE @[x]]]
         IN  /\ Keeps(state, r, {f})
             /\ r.flush = state.flush /\ r.scans = state.scans /\ r.complete = state.complete
             /\ \A x \in Items : FolderOf[x] # f => r.pendingFiles[x] = state.pendingFiles[x]
<1> DEFINE cleared == [state EXCEPT !.pendingFiles =
             [x \in Items |-> IF x \in In(f, Files) THEN "no" ELSE @[x]]]
<1>2. /\ DOMAIN cleared = Fields /\ cleared.flush = state.flush
      /\ cleared.pendingFiles = [x \in Items |->
           IF x \in In(f, Files) THEN "no" ELSE state.pendingFiles[x]]
      /\ cleared.fileTimer = state.fileTimer
      /\ cleared.scans = state.scans
      /\ cleared.marked = state.marked /\ cleared.disposed = state.disposed
      /\ cleared.pendingRefresh = state.pendingRefresh
      /\ cleared.refreshTimer = state.refreshTimer
      /\ cleared.complete = state.complete
  BY DEF Sound, FieldsOK, Fields
<1>3. /\ cleared.pendingFiles \in Marks
      /\ \A x \in Items : state.pendingFiles[x] = "no" => cleared.pendingFiles[x] = "no"
      /\ \A x \in Items : FolderOf[x] # f => cleared.pendingFiles[x] = state.pendingFiles[x]
  BY <1>2 DEF Sound, FieldsOK, Marks, In
<1> HIDE DEF cleared
<1>4. FieldsOK(cleared)
  BY <1>2, <1>3 DEF Sound, FieldsOK
<1>5. FlushOK(cleared)
  BY <1>2 DEF Sound, FlushOK
<1>6. Armed(cleared)
  BY <1>2, <1>3 DEF Sound, Armed
<1>7. Silenced(cleared)
  BY <1>2, <1>3 DEF Sound, Silenced
<1>8. \A g \in Folders \ {f} : Covered(state, g) => Covered(cleared, g)
  BY <1>2, <1>3 DEF Covered, ScannedIn, QueuedIn, FlushOwes
<1>9. Keeps(state, cleared, {f})
  BY <1>2, <1>4, <1>5, <1>6, <1>7, <1>8 DEF Keeps, Sound
<1> QED BY <1>2, <1>3, <1>9 DEF cleared

\* A changed ignore control moves admission, and its folder owes a scan.
LEMMA ApplyControlKeeps ==
  ASSUME NEW state, Sound(state), ~state.disposed,
         NEW c, NEW affected
  PROVE  Keeps(state, ApplyControl(state, c, affected), {})
<1> DEFINE f == FolderOf[c]
           docs == affected \cap Documents
           revoked == Revoke(state, {s \in state.scans : s.folder = f /\ Admitted(s)})
           stale == [revoked EXCEPT
             !.document = [d \in Documents |->
                IF d \in docs /\ @[d] = "current" THEN "stale" ELSE @[d]],
             !.flush.admitted = @ \ {f}]
           queued == ForceFiles(stale, docs)
           cleared == [queued EXCEPT !.pendingFiles =
             [x \in Items |-> IF x \in In(f, Files) THEN "no" ELSE @[x]]]
<1>1. docs \in SUBSET Items
  BY DEF Items
<1>2. Keeps(state, revoked, {f})
  <2> DEFINE old == {s \in state.scans : s.folder = f /\ Admitted(s)}
  <2>1. old \subseteq state.scans /\ \A s \in old : s.kind = "full" => s.folder \in {f}
    OBVIOUS
  <2> HIDE DEF old
  <2> QED BY <2>1, RevokeKeeps DEF old
<1>3. Keeps(revoked, stale, {})
  <2>1. Sound(revoked)
    BY <1>2 DEF Keeps
  <2> HIDE DEF revoked, docs, f
  <2>2. SameView(revoked, stale)
    BY <2>1 DEF SameView, Sound, FieldsOK, FlushOK, Fields, FlushFields
  <2> QED BY <2>1, <2>2, ViewKeeps
<1>4. Keeps(stale, queued, {})
  <2>1. Sound(stale)
    BY <1>3 DEF Keeps
  <2> HIDE DEF stale, docs
  <2> QED BY <1>1, <2>1, QueueKeeps DEF ForceFiles
<1>5. Keeps(queued, cleared, {f})
  <2>1. Sound(queued)
    BY <1>4 DEF Keeps
  <2> HIDE DEF queued, f
  <2> QED BY <2>1, ClearKeeps
<1>6. /\ Keeps(cleared, QueueCoverage(cleared, f), {})
      /\ Covered(QueueCoverage(cleared, f), f)
  <2>1. Sound(cleared) /\ ~cleared.disposed
    BY <1>2, <1>3, <1>4, <1>5 DEF Keeps
  <2> HIDE DEF cleared, f
  <2> QED BY <2>1, QueueCoverageKeeps
<1>7. ApplyControl(state, c, affected) = QueueCoverage(cleared, f)
  BY DEF ApplyControl
<1> HIDE DEF revoked, stale, queued, cleared, f, docs
<1> QED BY <1>2, <1>3, <1>4, <1>5, <1>6, <1>7 DEF Keeps

-----------------------------------------------------------------------------
(* The steps.                                                              *)

\* What every step keeps: coverage is owed as long as no watched file is gone.
Kept == Sound(e') /\ (NothingGone /\ Coverage(e) => Coverage(e'))

\* A handler that keeps every folder covered.
LEMMA HandlerKept ==
  ASSUME Keeps(e, e', {})
  PROVE  Kept
BY DEF Keeps, Kept, Coverage

\* A root is marked or unmarked: its folder owes a refresh.
LEMMA MoveRootKept ==
  ASSUME RefreshAssumption, Sound(e), NEW f \in Folders, MoveRoot(f)
  PROVE  Kept
<1> DEFINE moved == [e EXCEPT !.marked = (@ \ {f}) \cup ({f} \ @)]
           old == {s \in moved.scans : s.folder = f /\
                     ~(s.kind = "document" /\ s.phase = "waiting")}
           dropped == Revoke(moved, old)
           r == RefreshFolders(moved, f)
<1>1. ~e.disposed /\ e' = r
  BY DEF MoveRoot
<1>2. /\ DOMAIN moved = Fields /\ moved.marked = (e.marked \ {f}) \cup ({f} \ e.marked)
      /\ moved.disposed = e.disposed /\ moved.pendingRefresh = e.pendingRefresh
      /\ moved.refreshTimer = e.refreshTimer /\ moved.pendingFiles = e.pendingFiles
      /\ moved.fileTimer = e.fileTimer /\ moved.complete = e.complete
      /\ moved.scans = e.scans /\ moved.flush = e.flush
  BY DEF Sound, FieldsOK, Fields
<1>3. Sound(moved)
  <2>1. FieldsOK(moved)
    BY <1>2 DEF Sound, FieldsOK
  <2>2. FlushOK(moved)
    BY <1>2 DEF Sound, FlushOK
  <2>3. Armed(moved)
    BY <1>2 DEF Sound, Armed
  <2>4. Silenced(moved)
    BY <1>1, <1>2 DEF Sound, Silenced
  <2> QED BY <2>1, <2>2, <2>3, <2>4 DEF Sound
<1>4. Keeps(moved, dropped, {f})
  <2>1. old \subseteq moved.scans /\ \A s \in old : s.kind = "full" => s.folder \in {f}
    OBVIOUS
  <2> HIDE DEF old, moved
  <2> QED BY <1>3, <2>1, RevokeKeeps
<1>5. /\ DOMAIN dropped = Fields /\ dropped.flush = e.flush
      /\ dropped.pendingRefresh = e.pendingRefresh /\ dropped.pendingFiles = e.pendingFiles
      /\ dropped.fileTimer = e.fileTimer /\ dropped.complete = e.complete
      /\ dropped.marked = moved.marked /\ dropped.disposed = e.disposed
  <2> HIDE DEF moved, old
  <2> QED BY <1>2 DEF Revoke, Fields
<1>6. /\ DOMAIN r = Fields /\ r.marked = dropped.marked /\ r.disposed = dropped.disposed
      /\ r.pendingRefresh = dropped.pendingRefresh \cup {f} /\ r.refreshTimer = "folders"
      /\ r.pendingFiles = dropped.pendingFiles /\ r.fileTimer = dropped.fileTimer
      /\ r.complete = dropped.complete \ {f} /\ r.scans = dropped.scans
      /\ r.flush = [dropped.flush EXCEPT !.rooted = @ \ {f}]
  <2>1. /\ r.flush = [dropped.flush EXCEPT !.rooted = @ \ {f}]
        /\ r.pendingRefresh = dropped.pendingRefresh \cup {f} /\ r.refreshTimer = "folders"
        /\ r.complete = dropped.complete \ {f} /\ DOMAIN r = Fields
    <3> HIDE DEF moved
    <3>1. r = RefreshFolders(moved, f) /\ DOMAIN dropped = Fields
      BY <1>5
    <3> QED BY <3>1 DEF RefreshFolders, Fields
  <2>2. /\ r.marked = dropped.marked /\ r.disposed = dropped.disposed
        /\ r.pendingFiles = dropped.pendingFiles /\ r.fileTimer = dropped.fileTimer
        /\ r.scans = dropped.scans
    <3> HIDE DEF moved
    <3>1. r = RefreshFolders(moved, f) /\ DOMAIN dropped = Fields
      BY <1>5
    <3> QED BY <3>1 DEF RefreshFolders, Fields
  <2> QED BY <2>1, <2>2
<1>7. Sound(dropped)
  BY <1>4 DEF Keeps
<1> HIDE DEF moved, old, dropped, r
<1>8. /\ DOMAIN r.flush = FlushFields /\ r.flush.todo = e.flush.todo
      /\ r.flush.met = e.flush.met /\ r.flush.phase = e.flush.phase
      /\ r.flush.rooted = e.flush.rooted \ {f}
  BY <1>5, <1>6 DEF Sound, FlushOK, FlushFields
<1>9. Sound(r)
  <2>1. FieldsOK(r)
    BY <1>6, <1>7 DEF Sound, FieldsOK
  <2>2. FlushOK(r)
    BY <1>8 DEF Sound, FlushOK
  <2>3. Armed(r)
    BY <1>5, <1>6, <1>8 DEF Sound, Armed
  <2>4. Silenced(r)
    BY <1>1, <1>5, <1>6 DEF Sound, Silenced
  <2> QED BY <2>1, <2>2, <2>3, <2>4 DEF Sound
<1>10. ASSUME NEW g \in Folders, Covered(e, g) PROVE Covered(r, g)
  <2>1. CASE g = f
    BY <1>6, <2>1 DEF Covered
  <2>2. CASE g # f
    <3>1. Covered(moved, g)
      BY <1>2, <1>10, <2>2 DEF Covered, ScannedIn, QueuedIn, FlushOwes
    <3>2. Covered(dropped, g)
      BY <1>4, <2>2, <3>1 DEF Keeps
    <3> QED BY <1>5, <1>6, <1>8, <2>2, <3>2 DEF Covered, ScannedIn, QueuedIn, FlushOwes
  <2> QED BY <2>1, <2>2
<1> QED BY <1>1, <1>9, <1>10 DEF Kept, Coverage

\* Disposal leaves no root, no timer and no request but those that render.
LEMMA DisposeKept ==
  ASSUME Sound(e), Dispose
  PROVE  Kept
<1> DEFINE quiet == Revoke(e, e.scans)
<1>1. /\ DOMAIN quiet = Fields /\ quiet.flush = e.flush
      /\ quiet.scans = (e.scans \ e.scans)
           \cup {[s EXCEPT !.live = FALSE] : s \in {t \in e.scans : t.phase = "report"}}
      /\ quiet.pendingRefresh = e.pendingRefresh
  BY DEF Revoke, Sound, FieldsOK, Fields
<1>2. \A s \in quiet.scans : \E t \in e.scans : t.phase = "report" /\ s = [t EXCEPT !.live = FALSE]
  BY <1>1
<1>3. ASSUME NEW s \in quiet.scans PROVE RequestOK(s) /\ s.phase = "report" /\ ~s.live
  <2>1. PICK t \in e.scans : t.phase = "report" /\ s = [t EXCEPT !.live = FALSE]
    BY <1>2
  <2> HIDE DEF quiet
  <2>2. RequestOK(t)
    BY DEF Sound, FieldsOK
  <2> QED BY <2>1, <2>2 DEF RequestOK, RequestFields
<1>4. /\ DOMAIN e' = Fields /\ e'.marked = {} /\ e'.disposed = TRUE
      /\ e'.pendingRefresh = quiet.pendingRefresh /\ e'.refreshTimer = "none"
      /\ e'.fileTimer = FALSE /\ e'.pendingFiles = [x \in Items |-> "no"]
      /\ e'.scans = quiet.scans /\ e'.flush = quiet.flush
  <2> HIDE DEF quiet
  <2>1. DOMAIN quiet = Fields
    BY <1>1
  <2>2. e' = [quiet EXCEPT
       !.disposed = TRUE, !.marked = {}, !.refreshTimer = "none", !.fileTimer = FALSE,
       !.pendingFiles = [x \in Items |-> "no"], !.complete = {},
       !.shown = [x \in Files |-> Nil], !.document = [d \in Documents |-> "none"],
       !.folderSeen = Blank, !.known = {}, !.sourceSeen = [x \in Items |-> Blank],
       !.contexts = [i \in DOMAIN @ |-> [@[i] EXCEPT !.own = FALSE]]]
    BY DEF Dispose, quiet
  <2> QED BY <2>1, <2>2 DEF Fields
<1> HIDE DEF quiet
<1>5. FieldsOK(e')
  BY <1>3, <1>4 DEF FieldsOK, Marks
<1>6. FlushOK(e')
  BY <1>1, <1>4 DEF Sound, FlushOK
<1>7. Armed(e') /\ Silenced(e')
  BY <1>3, <1>4 DEF Armed, Silenced
<1> QED BY <1>4, <1>5, <1>6, <1>7 DEF Kept, Sound, Coverage, Covered

\* The user's checks and the first check of an open document.
LEMMA AskKept ==
  ASSUME RefreshAssumption, Sound(e)
  PROVE  /\ \A d \in Documents : Activate(d) \/ CheckByUser(d) => Kept
         /\ \A f \in Folders : CheckWorkspace(f) => Kept
<1>1. ASSUME NEW d \in Documents, Activate(d) PROVE Kept
  <2> DEFINE opened == [e EXCEPT !.opening = @ \ {d}]
  <2>1. SameView(e, opened)
    BY DEF SameView, Sound, FieldsOK, FlushOK, Fields
  <2>2. Keeps(e, opened, {})
    BY <2>1, ViewKeeps
  <2>3. CASE FolderOf[d] \in e.marked
    <3>1. e' = CheckDocuments(opened, {d}, "other")
      BY <1>1, <2>3 DEF Activate
    <3>2. Sound(opened) /\ ~opened.disposed
      BY <2>2, <2>3 DEF Keeps, Sound, Silenced
    <3> HIDE DEF opened
    <3>3. Keeps(opened, e', {})
      BY <3>1, <3>2, CheckDocumentsKeeps
    <3> QED BY <2>2, <3>3, HandlerKept DEF Keeps
  <2>4. CASE FolderOf[d] \notin e.marked
    BY <1>1, <2>2, <2>4, HandlerKept DEF Activate
  <2> QED BY <2>3, <2>4
<1>2. ASSUME NEW d \in Documents, CheckByUser(d) PROVE Kept
  <2>1. ~e.disposed /\ e' = CheckDocuments(e, {d}, "other")
    BY <1>2 DEF CheckByUser, Sound, Silenced
  <2> QED BY <2>1, CheckDocumentsKeeps, HandlerKept
<1>3. ASSUME NEW f \in Folders, CheckWorkspace(f) PROVE Kept
  <2>1. ~e.disposed /\ e' = CheckSaved(e, {f}, "other")
    BY <1>3 DEF CheckWorkspace, Sound, Silenced
  <2> QED BY <2>1, CheckSavedKeeps, HandlerKept
<1> QED BY <1>1, <1>2, <1>3

\* The head of the context queue.
LEMMA ContextKept ==
  ASSUME Sound(e), Context
  PROVE  Kept
<1> DEFINE w == Head(e.contexts).file
           affected == Affected(e, w)
           confirmed == Confirm(e, w)
<1>1. ASSUME NEW r, Keeps(e, r, {}), e' = Dequeue(r) PROVE Kept
  BY <1>1, DequeueKeeps, KeepsChain, HandlerKept DEF Keeps
<1>2. CASE e' = Dequeue(e)
  BY <1>2, DequeueKeeps, HandlerKept
<1>3. CASE FolderOf[w] \in e.marked
           /\ e' = Dequeue(IF w \in Controls THEN ApplyControl(confirmed, w, affected)
                           ELSE ApplyFile(confirmed, w, affected))
  <2>1. Keeps(e, confirmed, {})
    BY ConfirmedKeeps
  <2>2. Sound(confirmed) /\ ~confirmed.disposed
    BY <1>3, <2>1 DEF Keeps, Sound, Silenced
  <2>3. \A y \in affected : FolderOf[y] = FolderOf[w]
    BY DEF Affected, Observes, In
  <2> HIDE DEF w, affected, confirmed
  <2>4. CASE w \in Controls
    <3>1. Keeps(confirmed, ApplyControl(confirmed, w, affected), {})
      BY <2>2, ApplyControlKeeps
    <3> QED BY <1>1, <1>3, <2>1, <2>4, <3>1, KeepsChain DEF Keeps
  <2>5. CASE w \notin Controls
    <3>1. Keeps(confirmed, ApplyFile(confirmed, w, affected), {})
      BY <2>2, <2>3, ApplyFileKeeps
    <3> QED BY <1>1, <1>3, <2>1, <2>5, <3>1, KeepsChain DEF Keeps
  <2> QED BY <2>4, <2>5
<1> QED BY <1>2, <1>3 DEF Context

\* The shared timer fires: what was owed is scanned.
LEMMA RefreshFiresKept ==
  ASSUME RefreshAssumption, Sound(e), RefreshFires
  PROVE  Kept
<1> DEFINE due == e.pendingRefresh \cap e.marked
           fired == [e EXCEPT !.refreshTimer = "none", !.pendingRefresh = {}]
           scanned == CheckSaved(fired, due, "other")
           docs == {d \in Documents : FolderOf[d] \in due /\ e.document[d] # "current"}
<1>1. ~e.disposed /\ due \in SUBSET Folders /\ docs \in SUBSET Documents
  BY DEF RefreshFires, Sound, Silenced, FieldsOK
<1>2. /\ DOMAIN fired = Fields /\ fired.marked = e.marked /\ fired.disposed = e.disposed
      /\ fired.pendingRefresh = {} /\ fired.refreshTimer = "none"
      /\ fired.pendingFiles = e.pendingFiles /\ fired.fileTimer = e.fileTimer
      /\ fired.complete = e.complete /\ fired.scans = e.scans /\ fired.flush = e.flush
  BY DEF Sound, FieldsOK, Fields
<1>3. e' = scanned \/ e' = CheckDocuments(scanned, docs, "other")
  BY DEF RefreshFires
<1> HIDE DEF fired
<1>4. Sound(fired)
  <2>1. FieldsOK(fired)
    BY <1>2 DEF Sound, FieldsOK
  <2>2. FlushOK(fired)
    BY <1>2 DEF Sound, FlushOK
  <2>3. Armed(fired)
    BY <1>2 DEF Sound, Armed
  <2>4. Silenced(fired)
    BY <1>1, <1>2 DEF Sound, Silenced
  <2> QED BY <2>1, <2>2, <2>3, <2>4 DEF Sound
<1>5. Keeps(fired, scanned, {}) /\ \A f \in due : ScannedIn(scanned, f)
  <2> HIDE DEF due
  <2> QED BY <1>1, <1>2, <1>4, CheckSavedKeeps
<1>6. \A f \in Folders : Covered(e, f) => Covered(scanned, f)
  <2> SUFFICES ASSUME NEW f \in Folders, Covered(e, f), f \notin due,
                      f \in scanned.marked
               PROVE  Covered(scanned, f)
    <3> HIDE DEF scanned, due
    <3> QED BY <1>5 DEF Covered
  <2>1. f \in e.marked /\ f \notin e.pendingRefresh
    <3> HIDE DEF scanned
    <3> QED BY <1>2, <1>5 DEF Keeps
  <2>2. Covered(fired, f)
    BY <1>2, <2>1 DEF Covered, ScannedIn, QueuedIn, FlushOwes
  <2> HIDE DEF scanned
  <2> QED BY <1>5, <2>2 DEF Keeps
<1>7. Keeps(scanned, CheckDocuments(scanned, docs, "other"), {})
  <2>1. Sound(scanned) /\ ~scanned.disposed
    <3> HIDE DEF scanned
    <3> QED BY <1>1, <1>2, <1>5 DEF Keeps
  <2> HIDE DEF scanned, docs
  <2> QED BY <1>1, <2>1, CheckDocumentsKeeps
<1> HIDE DEF scanned, docs
<1> QED BY <1>3, <1>5, <1>6, <1>7 DEF Keeps, Kept, Coverage

\* Only the flush changes: a step of it that owes what it owed.
LEMMA FlushMoves ==
  ASSUME NEW state, Sound(state), NEW r, DOMAIN r = Fields, FlushOK(r),
         r.marked = state.marked, r.disposed = state.disposed,
         r.pendingRefresh = state.pendingRefresh, r.refreshTimer = state.refreshTimer,
         r.pendingFiles = state.pendingFiles, r.fileTimer \in BOOLEAN,
         r.disposed => ~r.fileTimer,
         (\E x \in Items : r.pendingFiles[x] # "no") => r.fileTimer \/ r.flush.phase # "idle",
         r.complete = state.complete, r.scans = state.scans,
         NEW F, \A f \in Folders \ F : FlushOwes(state, f) => FlushOwes(r, f)
  PROVE  Keeps(state, r, F)
<1>1. FieldsOK(r)
  BY DEF Sound, FieldsOK
<1>2. Armed(r)
  BY DEF Sound, Armed
<1>3. Silenced(r)
  BY DEF Sound, Silenced
<1>4. \A f \in Folders \ F : Covered(state, f) => Covered(r, f)
  BY DEF Covered, ScannedIn, QueuedIn
<1> QED BY <1>1, <1>2, <1>3, <1>4 DEF Keeps, Sound

\* The timer of the queued files fires: a flush starts, or the one that runs goes on.
LEMMA FileTimerKept ==
  ASSUME Sound(e), FileTimerFires
  PROVE  Kept
<1>1. /\ DOMAIN e' = Fields /\ DOMAIN e'.flush = FlushFields
      /\ e'.marked = e.marked /\ e'.disposed = e.disposed
      /\ e'.pendingRefresh = e.pendingRefresh /\ e'.refreshTimer = e.refreshTimer
      /\ e'.pendingFiles = e.pendingFiles /\ e'.fileTimer = FALSE
      /\ e'.complete = e.complete /\ e'.scans = e.scans
      /\ e'.flush.todo = e.flush.todo /\ e'.flush.met = e.flush.met
      /\ e'.flush.rooted = e.flush.rooted
      /\ e'.flush.phase = IF e.flush.phase = "idle" THEN "context" ELSE e.flush.phase
  <2>1. DOMAIN e = Fields /\ DOMAIN e.flush = FlushFields
    BY DEF Sound, FieldsOK, FlushOK
  <2>2. CASE e.flush.phase = "idle"
    BY <2>1, <2>2 DEF FileTimerFires, Fields, FlushFields
  <2>3. CASE e.flush.phase # "idle"
    BY <2>1, <2>3 DEF FileTimerFires, Fields, FlushFields
  <2> QED BY <2>2, <2>3
<1>2. FlushOK(e')
  BY <1>1 DEF Sound, FlushOK
<1>3. \A f \in Folders : FlushOwes(e, f) => FlushOwes(e', f)
  BY <1>1 DEF FlushOwes
<1>4. Keeps(e, e', {})
  BY <1>1, <1>2, <1>3, FlushMoves
<1> QED BY <1>4, HandlerKept

\* The flush takes the queued files: it owes the scans they owed.
LEMMA FlushTakeKept ==
  ASSUME Sound(e), FlushTake
  PROVE  Kept
<1>0. DOMAIN e = Fields /\ DOMAIN e.flush = FlushFields /\ e.pendingFiles \in Marks
  BY DEF Sound, FieldsOK, FlushOK
<1>1. CASE e.disposed
  <2>1. /\ DOMAIN e' = Fields /\ e'.marked = e.marked /\ e'.disposed = e.disposed
        /\ e'.pendingRefresh = e.pendingRefresh /\ e'.refreshTimer = e.refreshTimer
        /\ e'.pendingFiles = e.pendingFiles /\ e'.fileTimer = e.fileTimer
        /\ e'.complete = e.complete /\ e'.scans = e.scans /\ e'.flush = IdleFlush
    BY <1>0, <1>1 DEF FlushTake, Fields
  <2>2. FlushOK(e')
    BY <2>1 DEF FlushOK, IdleFlush, FlushFields, Marks
  <2>3. ~\E x \in Items : e.pendingFiles[x] # "no"
    BY <1>1 DEF Sound, Silenced
  <2>4. e.fileTimer \in BOOLEAN /\ ~e.fileTimer
    BY <1>1 DEF Sound, FieldsOK, Silenced
  <2>5. Keeps(e, e', Folders)
    BY <1>1, <2>1, <2>2, <2>3, <2>4, FlushMoves
  <2>6. Coverage(e')
    BY <1>1, <2>1 DEF Sound, Silenced, Coverage, Covered
  <2> QED BY <2>5, <2>6 DEF Keeps, Kept
<1>2. CASE ~e.disposed
  <2>1. /\ DOMAIN e' = Fields /\ e'.marked = e.marked /\ e'.disposed = e.disposed
        /\ e'.pendingRefresh = e.pendingRefresh /\ e'.refreshTimer = e.refreshTimer
        /\ e'.pendingFiles = [x \in Items |-> "no"] /\ e'.fileTimer = e.fileTimer
        /\ e'.complete = e.complete /\ e'.scans = e.scans
        /\ DOMAIN e'.flush = FlushFields /\ e'.flush.phase = "files"
        /\ e'.flush.todo = e.pendingFiles /\ e'.flush.met = e.flush.met
        /\ e'.flush.rooted = e.flush.rooted
    BY <1>0, <1>2 DEF FlushTake, Fields, FlushFields
  <2>2. e.flush.met = {} /\ \A x \in Items : e.flush.todo[x] = "no"
    BY DEF Sound, FlushOK, FlushTake
  <2>3. FieldsOK(e')
    BY <2>1 DEF Sound, FieldsOK, Marks
  <2>4. FlushOK(e')
    BY <1>0, <2>1 DEF FlushOK
  <2>5. Armed(e')
    BY <2>1 DEF Sound, Armed
  <2>6. Silenced(e')
    BY <1>2, <2>1 DEF Silenced
  <2>7. \A f \in Folders : Covered(e, f) => Covered(e', f)
    BY <2>1, <2>2 DEF Covered, ScannedIn, QueuedIn, FlushOwes
  <2> QED BY <2>3, <2>4, <2>5, <2>6, <2>7 DEF Kept, Sound, Coverage
<1> QED BY <1>1, <1>2

\* A queued file is read: the flush has met its folder.
LEMMA FlushReadKept ==
  ASSUME RefreshAssumption, Sound(e), NEW x \in Items, FlushRead(x)
  PROVE  Kept
<1> DEFINE f == FolderOf[x]
           took == [e EXCEPT !.flush.todo[x] = "no"]
           met == Meet(took, f)
           found == [met EXCEPT !.missing = @ \ {x}]
<1>0. /\ DOMAIN e = Fields /\ DOMAIN e.flush = FlushFields /\ e.flush.todo \in Marks
      /\ e.flush.phase = "files" /\ e.pendingFiles \in Marks
  BY DEF Sound, FieldsOK, FlushOK, FlushRead
<1>1. /\ DOMAIN took = Fields /\ took.flush = [e.flush EXCEPT !.todo[x] = "no"]
      /\ took.marked = e.marked /\ took.disposed = e.disposed
      /\ took.pendingRefresh = e.pendingRefresh /\ took.refreshTimer = e.refreshTimer
      /\ took.pendingFiles = e.pendingFiles /\ took.fileTimer = e.fileTimer
      /\ took.complete = e.complete /\ took.scans = e.scans
  BY <1>0 DEF Fields
<1>2. /\ DOMAIN took.flush = FlushFields /\ took.flush.todo = [e.flush.todo EXCEPT ![x] = "no"]
      /\ took.flush.met = e.flush.met /\ took.flush.rooted = e.flush.rooted
      /\ took.flush.phase = "files"
  <2> HIDE DEF took
  <2> QED BY <1>0, <1>1 DEF FlushFields
<1> HIDE DEF took, f
<1>3. /\ DOMAIN met = Fields /\ DOMAIN met.flush = FlushFields
      /\ met.marked = e.marked /\ met.disposed = e.disposed
      /\ met.pendingRefresh = e.pendingRefresh /\ met.refreshTimer = e.refreshTimer
      /\ met.pendingFiles = e.pendingFiles /\ met.fileTimer = e.fileTimer
      /\ met.complete = e.complete /\ met.scans = e.scans
      /\ met.flush.todo = took.flush.todo /\ met.flush.phase = "files"
      /\ met.flush.met = e.flush.met \cup {f}
      /\ met.flush.rooted = IF f \in e.flush.met THEN e.flush.rooted ELSE e.flush.rooted \cup {f}
  <2>1. CASE f \in e.flush.met
    BY <1>1, <1>2, <2>1 DEF Meet
  <2>2. CASE f \notin e.flush.met
    <3>1. met = [took EXCEPT !.flush.met = @ \cup {f}, !.flush.rooted = @ \cup {f},
                     !.flush.admitted = @ \cup {f}]
      BY <1>2, <2>2 DEF Meet
    <3> HIDE DEF met
    <3> QED BY <1>1, <1>2, <2>2, <3>1 DEF Fields, FlushFields
  <2> QED BY <2>1, <2>2
<1> HIDE DEF met
<1>4. /\ met.flush.todo \in Marks
      /\ \A y \in Items : FolderOf[y] # f => met.flush.todo[y] = e.flush.todo[y]
  BY <1>0, <1>2, <1>3 DEF Marks, f
<1>5. Keeps(e, met, {})
  <2>1. FlushOK(met)
    BY <1>3, <1>4 DEF FlushOK
  <2>2. \A g \in Folders : FlushOwes(e, g) => FlushOwes(met, g)
    BY <1>3, <1>4 DEF FlushOwes
  <2>3. e.fileTimer \in BOOLEAN /\ (e.disposed => ~e.fileTimer)
    BY DEF Sound, FieldsOK, Silenced
  <2> QED BY <1>3, <2>1, <2>2, <2>3, FlushMoves
<1>6. Sound(met)
  BY <1>5 DEF Keeps
<1>7. CASE e' = met
  BY <1>5, <1>7, HandlerKept
<1>8. ASSUME NEW r, SameView(met, r), e' = r PROVE Kept
  BY <1>5, <1>6, <1>8, ViewKeeps, KeepsChain, HandlerKept
<1>9. CASE e' = found
  <2>1. SameView(met, found)
    BY <1>3 DEF SameView, Fields
  <2> QED BY <1>8, <1>9, <2>1
<1>10. CASE e' = [found EXCEPT !.flush.selected[x] = disk[x]]
  <2>1. SameView(met, [found EXCEPT !.flush.selected[x] = disk[x]])
    BY <1>3 DEF SameView, Fields, FlushFields
  <2> QED BY <1>8, <1>10, <2>1
<1>11. CASE /\ f \in e.marked /\ x \in Documents
            /\ e' = [CheckDocuments(met, {x}, "flush") EXCEPT
                      !.flush.phase = "document", !.flush.item = x]
  <2> DEFINE asked == CheckDocuments(met, {x}, "flush")
  <2>1. ~met.disposed
    BY <1>3, <1>11 DEF Sound, Silenced
  <2>2. Keeps(met, asked, {})
    BY <1>6, <1>11, <2>1, CheckDocumentsKeeps
  <2>3. asked.flush = met.flush
    BY <1>3 DEF CheckDocuments, Fields
  <2>4. e' = [asked EXCEPT !.flush.phase = "document", !.flush.item = x]
    BY <1>11
  <2> HIDE DEF asked
  <2>5. DOMAIN asked = Fields /\ DOMAIN asked.flush = FlushFields /\ Sound(asked)
    BY <1>3, <2>2, <2>3 DEF Keeps, Sound, FieldsOK
  <2>6. /\ DOMAIN e' = Fields /\ DOMAIN e'.flush = FlushFields
        /\ e'.marked = asked.marked /\ e'.disposed = asked.disposed
        /\ e'.pendingRefresh = asked.pendingRefresh /\ e'.refreshTimer = asked.refreshTimer
        /\ e'.pendingFiles = asked.pendingFiles /\ e'.fileTimer = asked.fileTimer
        /\ e'.complete = asked.complete /\ e'.scans = asked.scans
        /\ e'.flush.todo = asked.flush.todo /\ e'.flush.met = asked.flush.met
        /\ e'.flush.rooted = asked.flush.rooted
        /\ e'.flush.phase = "document"
    BY <2>4, <2>5 DEF Fields, FlushFields
  <2>7. FlushOK(e')
    BY <1>4, <2>3, <2>6 DEF FlushOK
  <2>8. \A g \in Folders : FlushOwes(asked, g) => FlushOwes(e', g)
    BY <2>6 DEF FlushOwes
  <2>9. asked.fileTimer \in BOOLEAN /\ ~asked.disposed
    BY <2>1, <2>2, <2>5 DEF Keeps, Sound, FieldsOK
  <2>10. Keeps(asked, e', {})
    BY <2>5, <2>6, <2>7, <2>8, <2>9, FlushMoves
  <2> QED BY <1>5, <2>2, <2>10, KeepsChain, HandlerKept DEF Keeps
<1>12. CASE x \in Files /\ disk[x] = 0 /\ e' = ConfirmMissing(met, {x})
  <2>1. Keeps(met, ConfirmMissing(met, {x}), Folders)
    BY <1>6, ConfirmKeeps
  <2>2. ~NothingGone
    BY <1>12 DEF NothingGone, Watched
  <2> QED BY <1>12, <2>1, <2>2 DEF Keeps, Kept
<1> QED BY <1>7, <1>9, <1>10, <1>11, <1>12 DEF FlushRead, Items, f, met, took

\* The other steps of a flush.
LEMMA FlushDocumentKept ==
  ASSUME Sound(e), FlushDocument
  PROVE  Kept
<1>1. DOMAIN e = Fields /\ DOMAIN e.flush = FlushFields /\ e.flush.phase = "document"
  BY DEF Sound, FieldsOK, FlushOK, FlushDocument
<1>2. /\ DOMAIN e' = Fields /\ DOMAIN e'.flush = FlushFields
      /\ e'.marked = e.marked /\ e'.disposed = e.disposed
      /\ e'.pendingRefresh = e.pendingRefresh /\ e'.refreshTimer = e.refreshTimer
      /\ e'.pendingFiles = e.pendingFiles /\ e'.fileTimer = e.fileTimer
      /\ e'.complete = e.complete /\ e'.scans = e.scans
      /\ e'.flush.todo = e.flush.todo /\ e'.flush.met = e.flush.met
      /\ e'.flush.rooted = e.flush.rooted /\ e'.flush.phase = "files"
  BY <1>1 DEF FlushDocument, Fields, FlushFields
<1>3. FlushOK(e')
  BY <1>2 DEF Sound, FlushOK
<1>4. \A f \in Folders : FlushOwes(e, f) => FlushOwes(e', f)
  BY <1>2 DEF FlushOwes
<1>5. e.fileTimer \in BOOLEAN /\ (e.disposed => ~e.fileTimer)
  BY DEF Sound, FieldsOK, Silenced
<1>6. Keeps(e, e', {})
  BY <1>2, <1>3, <1>4, <1>5, FlushMoves
<1> QED BY <1>6, HandlerKept

\* A selected batch leaves its folder to the flush that took it.
LEMMA FlushBatchKept ==
  ASSUME Sound(e), NEW f \in Folders, FlushBatch(f)
  PROVE  Kept
<1> DEFINE taken == [e EXCEPT !.flush.selected = [w \in Watched |->
                       IF FolderOf[w] = f THEN Nil ELSE @[w]]]
           want == [w \in Watched |-> IF w \in Selected(f) THEN e.flush.selected[w] ELSE Nil]
           R == {Request(f, "files", "flush", Selected(f), want)}
<1>1. SameView(e, taken)
  BY DEF SameView, Sound, FieldsOK, FlushOK, Fields, FlushFields
<1>2. Keeps(e, taken, {})
  BY <1>1, ViewKeeps
<1>3. CASE e' = taken
  BY <1>2, <1>3, HandlerKept
<1>4. CASE f \in e.marked /\ e' = [taken EXCEPT !.scans = @ \cup R]
  <2>1. Sound(taken) /\ ~taken.disposed
    BY <1>2, <1>4 DEF Keeps, Sound, Silenced
  <2>2. Selected(f) \in SUBSET Items
    BY DEF Selected, In, Items
  <2> HIDE DEF taken, want
  <2>3. \A s \in R : RequestOK(s)
    BY <2>2, RequestFresh
  <2> HIDE DEF R
  <2>4. Keeps(taken, e', {})
    BY <1>4, <2>1, <2>3, RequestAdded
  <2> QED BY <1>2, <2>4, KeepsChain, HandlerKept
<1> QED BY <1>3, <1>4 DEF FlushBatch

\* The flush is through with a folder: it asked for the scan, or somebody else owes it.
LEMMA FlushCoverageKept ==
  ASSUME Sound(e), NEW f \in Folders, FlushCoverage(f)
  PROVE  Kept
<1> DEFINE done == [e EXCEPT !.flush.met = @ \ {f}]
<1>1. /\ DOMAIN e = Fields /\ DOMAIN e.flush = FlushFields /\ e.flush.phase = "files"
      /\ f \in e.flush.met
      /\ \A x \in Items : e.flush.todo[x] = "no"
  BY DEF Sound, FieldsOK, FlushOK, FlushCoverage, FlushFree
<1>2. /\ DOMAIN done = Fields /\ DOMAIN done.flush = FlushFields
      /\ done.marked = e.marked /\ done.disposed = e.disposed
      /\ done.pendingRefresh = e.pendingRefresh /\ done.refreshTimer = e.refreshTimer
      /\ done.pendingFiles = e.pendingFiles /\ done.fileTimer = e.fileTimer
      /\ done.complete = e.complete /\ done.scans = e.scans
      /\ done.flush.todo = e.flush.todo /\ done.flush.met = e.flush.met \ {f}
      /\ done.flush.rooted = e.flush.rooted /\ done.flush.phase = "files"
  BY <1>1 DEF Fields, FlushFields
<1>3. Keeps(e, done, {f})
  <2>1. FlushOK(done)
    BY <1>2 DEF Sound, FlushOK
  <2>2. \A g \in Folders \ {f} : FlushOwes(e, g) => FlushOwes(done, g)
    BY <1>2 DEF FlushOwes
  <2>3. e.fileTimer \in BOOLEAN /\ (e.disposed => ~e.fileTimer)
    BY DEF Sound, FieldsOK, Silenced
  <2> HIDE DEF done
  <2> QED BY <1>2, <2>1, <2>2, <2>3, FlushMoves
<1>4. CASE /\ f \in e.flush.rooted /\ f \in e.marked
           /\ f \notin e.complete /\ f \notin e.pendingRefresh
  <2>1. e' = CheckSaved(done, {f}, "flush")
    BY <1>4 DEF FlushCoverage
  <2>2. Sound(done) /\ ~done.disposed
    BY <1>3, <1>4 DEF Keeps, Sound, Silenced
  <2> HIDE DEF done
  <2>3. Keeps(done, e', {}) /\ ScannedIn(e', f)
    BY <2>1, <2>2, CheckSavedKeeps
  <2> QED BY <1>3, <2>3 DEF Keeps, Kept, Coverage, Covered
<1>5. CASE ~(/\ f \in e.flush.rooted /\ f \in e.marked
             /\ f \notin e.complete /\ f \notin e.pendingRefresh)
  <2>1. e' = done
    BY <1>5 DEF FlushCoverage
  <2>2. Covered(e, f) => Covered(done, f)
    BY <1>1, <1>2, <1>5 DEF Covered, ScannedIn, QueuedIn, FlushOwes
  <2> QED BY <1>3, <2>1, <2>2 DEF Keeps, Kept, Coverage
<1> QED BY <1>4, <1>5

\* The flush ends when it owes no folder anything any more.
LEMMA FlushEndsKept ==
  ASSUME Sound(e), FlushEnds
  PROVE  Kept
<1>1. /\ DOMAIN e = Fields /\ e.fileTimer \in BOOLEAN
      /\ e.flush.met = {} /\ \A x \in Items : e.flush.todo[x] = "no"
  BY DEF Sound, FieldsOK, FlushOK, FlushEnds, FlushFree
<1>2. /\ DOMAIN e' = Fields /\ e'.flush = IdleFlush
      /\ e'.marked = e.marked /\ e'.disposed = e.disposed
      /\ e'.pendingRefresh = e.pendingRefresh /\ e'.refreshTimer = e.refreshTimer
      /\ e'.pendingFiles = e.pendingFiles /\ e'.fileTimer = (e.fileTimer \/ Waiting)
      /\ e'.complete = e.complete /\ e'.scans = e.scans
  BY <1>1 DEF FlushEnds, Fields
<1>3. FlushOK(e')
  BY <1>2 DEF FlushOK, IdleFlush, FlushFields, Marks
<1>4. \A f \in Folders : ~FlushOwes(e, f)
  BY <1>1 DEF FlushOwes
<1>5. e.disposed => ~e.fileTimer /\ ~Waiting
  BY DEF Sound, Silenced, Waiting
<1>6. e'.fileTimer \in BOOLEAN /\ (e'.disposed => ~e'.fileTimer)
      /\ ((\E x \in Items : e'.pendingFiles[x] # "no") => e'.fileTimer)
  BY <1>1, <1>2, <1>5 DEF Waiting
<1>7. Keeps(e, e', {})
  BY <1>2, <1>3, <1>4, <1>6, FlushMoves
<1> QED BY <1>7, HandlerKept

-----------------------------------------------------------------------------
(* A request.                                                              *)

\* A request waits, is submitted and runs.
LEMMA LaneKept ==
  ASSUME Sound(e), NEW s \in e.scans, Wait(s) \/ Submit(s) \/ Run(s)
  PROVE  Kept
<1>1. RequestOK(s) /\ ~e.disposed /\ s.live = TRUE
  <2>1. RequestOK(s) /\ s.phase # "report"
    BY DEF Sound, FieldsOK, Wait, Submit, Run
  <2> QED BY <2>1 DEF RequestOK, Sound, Silenced
<1>2. ASSUME NEW t, RequestOK(t), t.folder = s.folder, t.kind = s.kind, t.live,
             NEW X, X \subseteq e.scans,
             \A u \in e.scans : u \in X \/ u = s \/ (u.folder = s.folder /\ u.kind = s.kind),
             e' = [e EXCEPT !.scans = X \cup {t}]
      PROVE  Kept
  BY <1>1, <1>2, ScanMoves, HandlerKept
<1>3. CASE e' = Without(s) /\ (s.kind # "full" \/ s.folder \notin e.marked)
  <2>1. Keeps(e, e', IF s.kind = "full" /\ s.live THEN {s.folder} ELSE {})
    BY <1>3, WithoutKeeps DEF Without
  <2>2. s.kind = "full" => Covered(e', s.folder)
    BY <1>3, <2>1 DEF Keeps, Covered
  <2> QED BY <2>1, <2>2 DEF Keeps, Kept, Coverage
<1>4. CASE Wait(s)
  <2>1. CASE e' = Becomes(s, [s EXCEPT !.phase = "submitted"])
    <3> DEFINE t == [s EXCEPT !.phase = "submitted"]
    <3>1. RequestOK(t) /\ t.folder = s.folder /\ t.kind = s.kind /\ t.live = s.live
      BY <1>1 DEF RequestOK, RequestFields
    <3>2. e' = [e EXCEPT !.scans = (e.scans \ {s}) \cup {t}]
      BY <2>1 DEF Becomes
    <3> HIDE DEF t
    <3> QED BY <1>1, <1>2, <3>1, <3>2
  <2> QED BY <1>3, <1>4, <2>1 DEF Wait
<1>5. CASE Submit(s)
  <2> DEFINE t == [s EXCEPT !.phase = "queued",
                     !.told = IF s.kind = "document" THEN {} ELSE @]
             X == {u \in e.scans \ {s} : ~(u.phase = "queued" /\ u.kind = s.kind
                                     /\ u.folder = s.folder /\ s.kind # "document")}
  <2>1. CASE e' = [e EXCEPT !.scans = X \cup {t}]
    <3>1. RequestOK(t) /\ t.folder = s.folder /\ t.kind = s.kind /\ t.live = s.live
      BY <1>1 DEF RequestOK, RequestFields
    <3>2. /\ X \subseteq e.scans
          /\ \A u \in e.scans : u \in X \/ u = s \/ (u.folder = s.folder /\ u.kind = s.kind)
      OBVIOUS
    <3> HIDE DEF t, X
    <3> QED BY <1>1, <1>2, <2>1, <3>1, <3>2
  <2> QED BY <1>3, <1>5, <2>1 DEF Submit
<1>6. CASE Run(s)
  <2> DEFINE t == [s EXCEPT !.phase = "report",
                 !.read = [w \in Watched |-> IF w \in Reads(s) THEN disk[w] ELSE Nil]]
  <2>1. CASE e' = Becomes(s, t)
    <3>1. t.folder = s.folder /\ t.kind = s.kind /\ t.live = s.live
      BY <1>1 DEF RequestOK, RequestFields
    <3>2. ASSUME s.kind = "full", NEW x \in Files, t.read[x] > 0 PROVE FolderOf[x] = s.folder
      <4>1. t.read = [w \in Watched |-> IF w \in Reads(s) THEN disk[w] ELSE Nil]
        BY <1>1 DEF RequestOK, RequestFields
      <4>2. x \notin Reads(s) => t.read[x] = -1
        BY <4>1 DEF Watched, Nil
      <4>3. Reads(s) = In(s.folder, Watched)
        BY <3>2 DEF Reads
      <4> QED BY <3>2, <4>2, <4>3 DEF In
    <3>3. RequestOK(t)
      <4>1. /\ DOMAIN t = RequestFields /\ t.items = s.items
            /\ t.live \in BOOLEAN /\ t.live
        BY <1>1 DEF RequestOK, RequestFields
      <4> HIDE DEF t
      <4> QED BY <1>1, <3>1, <3>2, <4>1 DEF RequestOK
    <3>4. e' = [e EXCEPT !.scans = (e.scans \ {s}) \cup {t}]
      BY <2>1 DEF Becomes
    <3> HIDE DEF t
    <3> QED BY <1>1, <1>2, <3>1, <3>3, <3>4
  <2> QED BY <1>3, <1>6, <2>1 DEF Run
<1> QED BY <1>4, <1>5, <1>6

\* A report is rendered: a live full scan goes on, or a file of its folder is queued.
LEMMA RenderKept ==
  ASSUME Sound(e), NEW s \in e.scans, Render(s)
  PROVE  Kept
<1> DEFINE reported == {x \in Files : s.read[x] > 0}
           gone == {x \in reported : disk[x] = 0}
           moved == {x \in reported \ gone :
                       disk[x] # s.read[x] \/ (s.kind = "files" /\ disk[x] # s.want[x])}
           less == Without(s)
           forced == ForceFiles(less, moved)
           queued == ConfirmMissing(forced, gone)
           own == CASE s.kind = "full" -> In(s.folder, Documents)
                    [] s.kind = "files" -> {}
                    [] s.kind = "document" -> s.items
           t == [s EXCEPT !.phase = "observe",
                          !.accepted = (reported \ (gone \cup moved)) \cup own]
           F == IF s.kind = "full" /\ s.live THEN {s.folder} ELSE {}
<1>1. /\ moved \in SUBSET Items /\ gone \in SUBSET Items /\ RequestOK(s)
      /\ (NothingGone => gone = {})
      /\ (s.kind = "full" => \A x \in moved : FolderOf[x] = s.folder)
  <2>1. RequestOK(s)
    BY DEF Sound, FieldsOK
  <2> QED BY <2>1 DEF Items, NothingGone, Watched, RequestOK
<1>2. e' = IF s.live /\ (s.kind = "full" => gone \cup moved = {})
           THEN [queued EXCEPT !.scans = @ \cup {t}] ELSE queued
  BY DEF Render
<1> HIDE DEF reported, gone, moved, own
<1>3. Keeps(e, less, F)
  BY WithoutKeeps DEF Without
<1>4. /\ Keeps(less, forced, {})
      /\ \A x \in moved : FolderOf[x] \in less.marked => QueuedIn(forced, FolderOf[x])
  <2>1. Sound(less)
    BY <1>3 DEF Keeps
  <2> HIDE DEF less
  <2> QED BY <1>1, <2>1, QueueKeeps DEF ForceFiles
<1>5. /\ Keeps(forced, queued, Folders)
      /\ gone = {} => SameView(forced, queued) /\ Keeps(forced, queued, {})
  <2>1. Sound(forced)
    BY <1>4 DEF Keeps
  <2> HIDE DEF forced
  <2>2. SameView(forced, forced)
    BY <2>1 DEF SameView, Sound, FieldsOK, FlushOK
  <2> QED BY <1>1, <2>1, <2>2, ConfirmKeeps, ViewKeeps
<1> HIDE DEF less, forced, queued
<1>6. gone = {} => Keeps(e, queued, F)
  BY <1>3, <1>4, <1>5 DEF Keeps
<1>7. CASE s.live /\ (s.kind = "full" => gone \cup moved = {})
  <2>1. RequestOK(t) /\ t.folder = s.folder /\ t.kind = s.kind /\ t.live = s.live
    BY <1>1, <1>7 DEF RequestOK, RequestFields
  <2>2. e' = [queued EXCEPT !.scans = queued.scans \cup {t}]
    BY <1>2, <1>7
  <2>3. Sound(queued) /\ ~queued.disposed
    BY <1>3, <1>4, <1>5, <1>7 DEF Keeps, Sound, Silenced
  <2> HIDE DEF t
  <2>4. Keeps(queued, e', {})
    <3> DEFINE R == {t}
    <3>1. \A u \in R : RequestOK(u)
      BY <2>1
    <3>2. e' = [queued EXCEPT !.scans = queued.scans \cup R]
      BY <2>2
    <3> HIDE DEF R
    <3> QED BY <2>3, <3>1, <3>2, RequestAdded
  <2>5. e'.scans = queued.scans \cup {t}
    BY <2>2, <2>3 DEF Sound, FieldsOK, Fields
  <2>6. s.kind = "full" => ScannedIn(e', s.folder)
    BY <1>7, <2>1, <2>5 DEF ScannedIn
  <2>7. NothingGone /\ Coverage(e) => Coverage(e')
    BY <1>1, <1>6, <2>4, <2>6 DEF Keeps, Coverage, Covered
  <2> QED BY <2>4, <2>7 DEF Keeps, Kept
<1>8. CASE ~(s.live /\ (s.kind = "full" => gone \cup moved = {}))
  <2>1. e' = queued
    BY <1>2, <1>8
  <2>2. ASSUME NothingGone, s.kind = "full", s.live, Coverage(e)
        PROVE  Covered(queued, s.folder)
    <3>1. PICK x \in moved : FolderOf[x] = s.folder
      BY <1>1, <1>8, <2>2
    <3>2. s.folder \in less.marked => QueuedIn(queued, s.folder)
      BY <1>1, <1>4, <1>5, <2>2, <3>1 DEF SameView, QueuedIn
    <3> QED BY <1>4, <1>5, <3>2 DEF Keeps, Covered
  <2>3. NothingGone /\ Coverage(e) => Coverage(queued)
    BY <1>1, <1>6, <2>2 DEF Keeps, Coverage
  <2> QED BY <1>5, <2>1, <2>3 DEF Keeps, Kept
<1> QED BY <1>7, <1>8

\* A report is observed.
LEMMA ObserveKept ==
  ASSUME Sound(e), NEW s \in e.scans, Observe(s)
  PROVE  Kept
<1> DEFINE changed == {w \in Observed(s) : disk[w] # s.read[w]}
           less == Without(s)
           told == ContextEvents(less, changed)
           t == [s EXCEPT !.phase = "settle", !.ahead = Len(told.contexts),
                      !.turn = Max({0} \cup {u.turn : u \in Settling}) + 1,
                      !.changed = changed # {}]
           F == IF s.kind = "full" /\ s.live THEN {s.folder} ELSE {}
<1>1. RequestOK(s) /\ s.live /\ ~e.disposed
  <2>1. RequestOK(s) /\ s.phase = "observe"
    BY DEF Sound, FieldsOK, Observe
  <2> QED BY <2>1 DEF RequestOK, Sound, Silenced
<1>2. RequestOK(t) /\ t.folder = s.folder /\ t.kind = s.kind /\ t.live = s.live
  <2> HIDE DEF changed, told
  <2> QED BY <1>1 DEF RequestOK, RequestFields
<1>3. e' = [told EXCEPT !.scans = told.scans \cup {t}]
  BY DEF Observe
<1>4. Keeps(e, less, F)
  BY WithoutKeeps DEF Without
<1>5. Keeps(less, told, {})
  <2>1. Sound(less)
    BY <1>4 DEF Keeps
  <2> HIDE DEF less, changed
  <2> QED BY <2>1, EventsKeep
<1>6. Sound(told) /\ ~told.disposed
  BY <1>1, <1>4, <1>5 DEF Keeps
<1> HIDE DEF less, told, t, changed
<1>7. Keeps(told, e', {})
  <2> DEFINE R == {t}
  <2>1. \A u \in R : RequestOK(u)
    BY <1>2
  <2>2. e' = [told EXCEPT !.scans = told.scans \cup R]
    BY <1>3
  <2> HIDE DEF R
  <2> QED BY <1>6, <2>1, <2>2, RequestAdded
<1>8. e'.scans = told.scans \cup {t}
  BY <1>3, <1>6 DEF Sound, FieldsOK, Fields
<1>9. s.kind = "full" => ScannedIn(e', s.folder)
  BY <1>1, <1>2, <1>8 DEF ScannedIn
<1> QED BY <1>4, <1>5, <1>7, <1>9 DEF Keeps, Kept, Coverage, Covered

\* A report is accepted, which covers the folder of a full scan, or starts over.
LEMMA SettleKept ==
  ASSUME Sound(e), NEW s \in e.scans, Settle(s)
  PROVE  Kept
<1> DEFINE less == Without(s)
           F == IF s.kind = "full" /\ s.live THEN {s.folder} ELSE {}
<1>1. RequestOK(s) /\ s.live /\ ~e.disposed
  <2>1. RequestOK(s) /\ s.phase = "settle"
    BY DEF Sound, FieldsOK, Settle
  <2> QED BY <2>1 DEF RequestOK, Sound, Silenced
<1>2. Keeps(e, less, F)
  BY WithoutKeeps DEF Without
<1>3. Sound(less) /\ ~less.disposed
  BY <1>1, <1>2 DEF Keeps
<1>4. CASE e' = Retry(s) /\ s.kind = "full"
  <2>1. e' = QueueCoverage(less, s.folder)
    BY <1>4 DEF Retry
  <2> HIDE DEF less
  <2>2. Keeps(less, e', {}) /\ Covered(e', s.folder)
    BY <1>3, <2>1, QueueCoverageKeeps
  <2> QED BY <1>2, <2>2 DEF Keeps, Kept, Coverage
<1>5. CASE e' = Retry(s) /\ s.kind # "full"
  <2>1. e' = QueueFiles(less, s.items, TRUE) /\ s.items \in SUBSET Items
    BY <1>1, <1>5 DEF Retry, ForceFiles, RequestOK
  <2> HIDE DEF less
  <2>2. Keeps(less, e', {})
    BY <1>3, <2>1, QueueKeeps
  <2> QED BY <1>2, <1>5, <2>2 DEF Keeps, Kept, Coverage
<1>6. CASE e' = Accepted(s)
  <2>1. /\ DOMAIN less = Fields /\ DOMAIN less.flush = FlushFields
    BY <1>3 DEF Sound, FieldsOK, FlushOK
  <2>2. /\ DOMAIN e' = Fields /\ e'.flush = less.flush /\ e'.scans = less.scans
        /\ e'.marked = less.marked /\ e'.disposed = less.disposed
        /\ e'.pendingRefresh = less.pendingRefresh /\ e'.refreshTimer = less.refreshTimer
        /\ e'.pendingFiles = less.pendingFiles /\ e'.fileTimer = less.fileTimer
    <3> HIDE DEF less
    <3> QED BY <1>6, <2>1 DEF Accepted, Fields, less
  <2>3. e'.complete = IF s.kind = "full" THEN less.complete \cup {s.folder} ELSE less.complete
    <3> HIDE DEF less
    <3> QED BY <1>6, <2>1 DEF Accepted, Fields, less
  <2> HIDE DEF less
  <2>4. Sound(e')
    <3>1. FieldsOK(e')
      BY <1>3, <2>2 DEF Sound, FieldsOK
    <3>2. FlushOK(e')
      BY <1>3, <2>2 DEF Sound, FlushOK
    <3>3. Armed(e')
      BY <1>3, <2>2 DEF Sound, Armed
    <3>4. Silenced(e')
      BY <1>3, <2>2 DEF Sound, Silenced
    <3> QED BY <3>1, <3>2, <3>3, <3>4 DEF Sound
  <2>5. \A f \in Folders : Covered(less, f) => Covered(e', f)
    BY <2>2, <2>3 DEF Covered, ScannedIn, QueuedIn, FlushOwes
  <2>6. s.kind = "full" => Covered(e', s.folder)
    BY <2>3 DEF Covered
  <2> QED BY <1>2, <2>4, <2>5, <2>6 DEF Keeps, Kept, Coverage
<1> QED BY <1>4, <1>5, <1>6 DEF Settle

-----------------------------------------------------------------------------
(* The invariants.                                                         *)

\* Every step keeps what the fields hold, and the coverage where nothing is gone.
LEMMA StepKept ==
  ASSUME RefreshAssumption, Sound(e), [Next]_vars
  PROVE  Kept
<1>1. CASE UNCHANGED e
  BY <1>1 DEF Kept, Coverage, Sound, FieldsOK, FlushOK, Armed, Silenced,
       Covered, ScannedIn, QueuedIn, FlushOwes
<1>2. CASE World
  <2>1. ASSUME NEW w, Edit(w) \/ Vanish(w) PROVE UNCHANGED e
    BY <2>1 DEF Edit, Vanish
  <2> QED BY <1>1, <1>2, <2>1, MoveRootKept, AskKept, DisposeKept DEF World
<1>3. ASSUME NEW w, Deliver(w) PROVE Kept
  BY <1>3, EventsKeep, HandlerKept DEF Deliver
<1>4. CASE Flush
  BY <1>4, FlushDocumentKept, FlushEndsKept, FlushReadKept, FlushBatchKept,
     FlushCoverageKept DEF Flush
<1>5. ASSUME NEW s \in e.scans, Step(s) PROVE Kept
  BY <1>5, LaneKept, RenderKept, ObserveKept DEF Step
<1>6. CASE Continue
  BY <1>6, FlushTakeKept, SettleKept DEF Continue
<1>7. CASE Editor
  BY <1>3, <1>4, <1>5, <1>7, AskKept, ContextKept, RefreshFiresKept, FileTimerKept DEF Editor
<1> QED BY <1>1, <1>2, <1>6, <1>7 DEF Next, vars

\* The editor starts that way.
LEMMA InitKept ==
  ASSUME Init
  PROVE  Sound(e) /\ Coverage(e)
<1>1. PICK found \in SUBSET Folders :
       e = [marked |-> found, disposed |-> FALSE, pendingRefresh |-> found,
          refreshTimer |-> IF found = {} THEN "none" ELSE "folders",
          pendingFiles |-> [x \in Items |-> "no"], fileTimer |-> FALSE,
          missing |-> {}, fingerprint |-> [x \in Files |-> Nil],
          complete |-> {}, shown |-> [x \in Files |-> Nil],
          document |-> [d \in Documents |-> "none"], opening |-> Documents,
          folderSeen |-> Blank, known |-> {}, sourceSeen |-> [x \in Items |-> Blank],
          contexts |-> <<>>, scans |-> {}, flush |-> IdleFlush]
  BY DEF Init
<1>2. /\ DOMAIN e = Fields /\ e.marked = found /\ e.disposed = FALSE
      /\ e.pendingRefresh = found /\ e.scans = {} /\ e.flush = IdleFlush
      /\ e.refreshTimer = (IF found = {} THEN "none" ELSE "folders")
      /\ e.pendingFiles = [x \in Items |-> "no"] /\ e.fileTimer = FALSE
  BY <1>1 DEF Fields
<1>3. FieldsOK(e) /\ Armed(e) /\ Silenced(e)
  BY <1>2 DEF FieldsOK, Armed, Silenced, Marks
<1>4. FlushOK(e)
  BY <1>2 DEF FlushOK, IdleFlush, FlushFields, Marks
<1> QED BY <1>2, <1>3, <1>4 DEF Sound, Coverage, Covered

\* Without a file that vanishes the disk keeps all its files.
LEMMA NothingGoes ==
  ASSUME Vanishing = {}
  PROVE  /\ Init => NothingGone /\ happened \in Nat
         /\ (NothingGone /\ happened \in Nat) /\ [Next]_vars
              => (NothingGone /\ happened \in Nat)'
<1>1. Init => NothingGone /\ happened \in Nat
  BY DEF Init, NothingGone
<1>2. ASSUME NothingGone, happened \in Nat, [Next]_vars
      PROVE  NothingGone' /\ happened' \in Nat
  <2>1. ASSUME NEW w \in Watched, Edit(w) PROVE NothingGone' /\ happened' \in Nat
    BY <1>2, <2>1 DEF Edit, Happens, NothingGone
  <2>2. ASSUME NEW w, Vanish(w) PROVE FALSE
    BY <2>2 DEF Vanish
  <2>3. CASE UNCHANGED disk /\ happened' \in {happened, happened + 1}
    BY <1>2, <2>3 DEF NothingGone
  <2>4. CASE World
    BY <2>1, <2>2, <2>3, <2>4 DEF World, MoveRoot, CheckWorkspace, CheckByUser, Dispose, Happens
  <2>5. CASE Editor
    BY <2>3, <2>5 DEF Editor, Deliver, Activate, Context, RefreshFires, FileTimerFires, Flush,
       FlushDocument, FlushEnds, FlushRead, FlushBatch, FlushCoverage, Step, Wait, Submit, Run,
       Render, Observe
  <2>6. CASE Continue
    BY <2>3, <2>6 DEF Continue, FlushTake, Settle
  <2>7. CASE UNCHANGED vars
    BY <2>3, <2>7 DEF vars
  <2> QED BY <1>2, <2>4, <2>5, <2>6, <2>7 DEF Next
<1> QED BY <1>1, <1>2

\* The two halves of the run's property follow.
LEMMA SoundIsArmed == Sound(e) => PendingIsArmed
BY DEF Sound, FieldsOK, Armed, Silenced, PendingIsArmed, Waiting, Flushing

\* Covered is stronger than what the property says.
LEMMA CoveredIsOwed == Sound(e) /\ Coverage(e) => CoverageIsOwed
BY DEF Sound, FieldsOK, Coverage, Covered, ScannedIn, QueuedIn, FlushOwes, CoverageIsOwed,
   Owed, In

\* What is pending has a timer or a flush that will take it, and a disposed editor has
\* no timer and runs nothing.
THEOREM PendingStaysArmed ==
  ASSUME RefreshAssumption
  PROVE  Spec => []PendingIsArmed
<1>1. Init => Sound(e)
  BY InitKept
<1>2. Sound(e) /\ [Next]_vars => Sound(e)'
  BY StepKept DEF Kept
<1> QED BY <1>1, <1>2, SoundIsArmed, PTL DEF Spec

\* While no file vanishes, no marked root without complete coverage is abandoned.
THEOREM CoverageStaysOwed ==
  ASSUME RefreshAssumption, Vanishing = {}
  PROVE  Spec => []CoverageIsOwed
<1> DEFINE Inv == Sound(e) /\ Coverage(e) /\ NothingGone /\ happened \in Nat
<1>1. Init => Inv
  BY InitKept, NothingGoes
<1>2. Inv /\ [Next]_vars => Inv'
  BY StepKept, NothingGoes DEF Kept
<1>3. Inv => CoverageIsOwed
  BY CoveredIsOwed
<1> QED BY <1>1, <1>2, <1>3, PTL DEF Spec

-----------------------------------------------------------------------------
(***************************************************************************)
(* Closed files: a covered folder shows what is on the disk, or the change *)
(* of the file is being dealt with.                                        *)
(***************************************************************************)

\* The flush still serves what it took of a folder.
Held(state, f) ==
  f \notin state.flush.met \/ (f \in state.flush.rooted /\ f \in state.flush.admitted)

\* The selected batch that will show this file, or queue it again.
InBatch(state, x) ==
  \E s \in state.scans :
    /\ s.kind = "files" /\ s.live /\ x \in s.items
    /\ s.phase \in {"submitted", "queued", "report"} \/ x \in s.accepted

\* The file is being checked: it is queued, the flush has it, or a batch.
Working(state, x) ==
  \/ state.pendingFiles[x] # "no"
  \/ state.flush.todo[x] # "no" /\ Held(state, FolderOf[x])
  \/ /\ state.flush.selected[x] # Nil /\ FolderOf[x] \in state.flush.met
     /\ FolderOf[x] \in state.flush.rooted /\ FolderOf[x] \in state.flush.admitted
  \/ InBatch(state, x)

\* The change of a file is on its way to the editor, which will not take it for an echo.
Announced(state, x) ==
  x \in undelivered \/ \E i \in DOMAIN state.contexts : state.contexts[i].file = x
Noticed(state, x) == Announced(state, x) /\ state.folderSeen[x] # disk[x]

Current(state, x) ==
  FolderOf[x] \in state.marked /\ FolderOf[x] \in state.complete =>
    /\ state.fingerprint[x] = disk[x] => state.shown[x] = disk[x]
    /\ state.shown[x] = disk[x] \/ Working(state, x) \/ Noticed(state, x)

\* A request reads the files it is about, and accepts only those it has read.
ReadsOK(state, s) ==
  /\ s.kind \in {"full", "files", "document"}
  /\ s.kind = "document" => s.items \cap Files = {}
  /\ s.read \in [Watched -> Int] /\ s.want \in [Watched -> Int]
  /\ \A x \in Files : s.read[x] <= disk[x]
  /\ s.kind # "document" /\ s.live => s.folder \in state.marked
  /\ s.kind = "files" => s.owner = "flush" /\ s.items \subseteq In(s.folder, Files)
  /\ s.phase \in {"report", "observe", "settle"} =>
       \A x \in Files : s.read[x] > 0 <=> \/ s.kind = "full" /\ FolderOf[x] = s.folder
                                          \/ s.kind = "files" /\ x \in s.items
  /\ s.phase \in {"observe", "settle"} =>
       \A x \in Files : /\ x \in s.accepted => s.read[x] > 0
                        /\ x \in s.accepted /\ s.kind = "files" => s.want[x] = s.read[x]
                        /\ s.kind = "full" /\ s.read[x] > 0 => x \in s.accepted

TurnsOK(state, s) ==
  s.ahead \in 0..Len(state.contexts) /\ s.turn \in Nat /\ s.changed \in BOOLEAN

\* A report that waits for its turn shows what is on the disk, or its change is noticed.
Waits(state, s, x) ==
  s.phase = "settle" /\ ~s.changed /\ x \in s.accepted /\ s.read[x] # disk[x] =>
    /\ state.fingerprint[x] # disk[x]
    /\ (\E v \in Versions : <<x, v>> \in s.told /\ v # s.read[x]) \/ Noticed(state, x)

\* Reports are accepted in the order in which they were observed.
Ordered(s, t) ==
  s.phase = "settle" /\ t.phase = "settle" =>
    /\ s.turn = t.turn => s = t
    /\ s.turn < t.turn =>
         /\ s.ahead <= t.ahead
         /\ ~t.changed => \A x \in Files :
              x \in s.accepted /\ x \in t.accepted => s.read[x] <= t.read[x]

ScansFresh(state) ==
  /\ \A s \in state.scans : ReadsOK(state, s) /\ TurnsOK(state, s)
  /\ \A s \in state.scans, x \in Files : Waits(state, s, x)
  /\ \A s, t \in state.scans : Ordered(s, t)
  /\ \A s, t \in state.scans : s.kind = "files" /\ t.kind = "files" => s = t
  /\ \E n \in Nat : \A s \in state.scans : s.turn <= n

Typed(state) ==
  /\ state.contexts \in Seq([file : Watched, own : BOOLEAN])
  /\ state.shown \in [Files -> Int] /\ state.fingerprint \in [Files -> Int]
  /\ state.folderSeen \in [Watched -> Int] /\ state.flush.selected \in [Watched -> Int]
  /\ \A x \in Files : state.fingerprint[x] < happened + 2 /\ state.folderSeen[x] < happened + 2

DiskOK ==
  /\ happened \in Nat /\ happened <= MaxEvents
  /\ disk \in [Watched -> Int] /\ \A w \in Watched : 0 < disk[w] /\ disk[w] < happened + 2

\* One record of the editor led to another that shows and has seen the same, and whose
\* flush has done no step: the files in X may no longer be dealt with.
SameFlush(state, r) ==
  /\ r.flush.todo = state.flush.todo /\ r.flush.met = state.flush.met
  /\ r.flush.rooted = state.flush.rooted /\ r.flush.admitted = state.flush.admitted
  /\ r.flush.selected = state.flush.selected
Beside(state, r) ==
  /\ r.marked = state.marked /\ r.contexts = state.contexts
  /\ r.shown = state.shown /\ r.fingerprint = state.fingerprint
  /\ r.folderSeen = state.folderSeen
Fresh(state) == Sound(state) /\ Typed(state) /\ ScansFresh(state)
Tends(state, r, X) ==
  /\ Fresh(r) /\ Beside(state, r) /\ r.disposed = state.disposed
  /\ \A x \in Files \ X : Current(state, x) => Current(r, x)

\* One thing after another: what is left out adds up.
LEMMA TendsChain ==
  ASSUME NEW a, NEW b, NEW c, NEW X, NEW Y, Tends(a, b, X), Tends(b, c, Y)
  PROVE  Tends(a, c, X \cup Y)
BY DEF Tends, Beside

\* One thing after another that leaves no file out.
LEMMA TendsOn ==
  ASSUME NEW a, NEW b, NEW c, Tends(a, b, {}), Tends(b, c, {})
  PROVE  Tends(a, c, {})
BY DEF Tends, Beside

\* A request that a handler leaves, revokes while it renders, or adds.
Added(state, s) ==
  /\ s.phase \in {"waiting", "submitted"} /\ s.kind \in {"full", "document"}
  /\ s.items \cap Files = {}
  /\ s.folder \in state.marked
  /\ s.read = Blank /\ s.want = Blank
  /\ s.ahead = 0 /\ s.turn = 0 /\ s.changed = FALSE
LeftOrAdded(state, s) ==
  \/ s \in state.scans
  \/ \E t \in state.scans : t.phase = "report" /\ s = [t EXCEPT !.live = FALSE]
  \/ Added(state, s)

\* A request that is revoked while it renders is otherwise the same.
LEMMA RevokedRequest ==
  ASSUME NEW t, RequestOK(t)
  PROVE  LET s == [t EXCEPT !.live = FALSE]
         IN  /\ s.folder = t.folder /\ s.kind = t.kind /\ s.owner = t.owner
             /\ s.items = t.items /\ s.want = t.want /\ s.phase = t.phase /\ ~s.live
             /\ s.read = t.read /\ s.accepted = t.accepted /\ s.told = t.told
             /\ s.ahead = t.ahead /\ s.turn = t.turn /\ s.changed = t.changed
BY DEF RequestOK, RequestFields

\* Handlers that only leave, revoke or add requests keep what is known of the requests.
LEMMA ScansStayFresh ==
  ASSUME DiskOK, NEW state, Fresh(state), NEW r, r.marked = state.marked,
         r.contexts = state.contexts, r.fingerprint = state.fingerprint,
         r.folderSeen = state.folderSeen,
         \A s \in r.scans : LeftOrAdded(state, s),
         \A s, t \in r.scans : s.kind = "files" /\ t.kind = "files" => s = t
  PROVE  ScansFresh(r)
<1>1. \A s \in state.scans : RequestOK(s)
  BY DEF Fresh, Sound, FieldsOK
<1>2. \A w \in Watched : Blank[w] = -1
  BY DEF Blank, Nil
<1>3. Blank \in [Watched -> Int]
  BY DEF Blank, Nil
<1>4. Len(state.contexts) \in Nat
  BY LenProperties DEF Fresh, Typed
<1>5. ASSUME NEW s \in r.scans
      PROVE  /\ ReadsOK(r, s) /\ TurnsOK(r, s)
             /\ s.phase = "settle" => s \in state.scans
  <2>1. CASE s \in state.scans
    <3>1. ReadsOK(state, s) /\ TurnsOK(state, s)
      BY <2>1 DEF Fresh, ScansFresh
    <3> QED BY <2>1, <3>1 DEF ReadsOK, TurnsOK
  <2>2. ASSUME NEW t \in state.scans, t.phase = "report", s = [t EXCEPT !.live = FALSE]
        PROVE  ReadsOK(r, s) /\ TurnsOK(r, s) /\ s.phase = "report"
    <3>1. ReadsOK(state, t) /\ TurnsOK(state, t)
      BY <2>2 DEF Fresh, ScansFresh
    <3>2. /\ s.folder = t.folder /\ s.kind = t.kind /\ s.owner = t.owner
          /\ s.items = t.items /\ s.want = t.want /\ s.phase = t.phase /\ ~s.live
          /\ s.read = t.read /\ s.accepted = t.accepted /\ s.told = t.told
          /\ s.ahead = t.ahead /\ s.turn = t.turn /\ s.changed = t.changed
      BY <1>1, <2>2, RevokedRequest
    <3>3. ReadsOK(r, s)
      BY <2>2, <3>1, <3>2 DEF ReadsOK
    <3>4. TurnsOK(r, s)
      BY <3>1, <3>2 DEF TurnsOK
    <3> QED BY <2>2, <3>2, <3>3, <3>4
  <2>3. CASE Added(state, s)
    <3>1. \A x \in Files : s.read[x] <= disk[x]
      BY <1>2, <2>3 DEF Added, DiskOK, Watched
    <3>2. ReadsOK(r, s)
      BY <1>3, <2>3, <3>1 DEF Added, ReadsOK
    <3>3. TurnsOK(r, s)
      <4>1. s.ahead \in 0..Len(r.contexts) /\ s.turn \in Nat
        BY <1>4, <2>3 DEF Added
      <4>2. s.changed \in BOOLEAN
        BY <2>3 DEF Added
      <4> QED BY <4>1, <4>2 DEF TurnsOK
    <3> QED BY <2>3, <3>2, <3>3 DEF Added
  <2> QED BY <2>1, <2>2, <2>3 DEF LeftOrAdded
<1>6. \A s \in r.scans, x \in Files : Waits(r, s, x)
  <2> SUFFICES ASSUME NEW s \in r.scans, NEW x \in Files, s \in state.scans
               PROVE  Waits(r, s, x)
    BY <1>5 DEF Waits
  <2>1. Waits(state, s, x)
    BY DEF Fresh, ScansFresh
  <2> QED BY <2>1 DEF Waits, Noticed, Announced
<1>7. \A s, t \in r.scans : Ordered(s, t)
  <2> SUFFICES ASSUME NEW s \in r.scans, NEW t \in r.scans, s \in state.scans, t \in state.scans
               PROVE  Ordered(s, t)
    BY <1>5 DEF Ordered
  <2> QED BY DEF Fresh, ScansFresh
<1>8. \E n \in Nat : \A s \in r.scans : s.turn <= n
  <2>1. PICK n \in Nat : \A s \in state.scans : s.turn <= n
    BY DEF Fresh, ScansFresh
  <2>2. ASSUME NEW s \in r.scans PROVE s.turn <= n
    <3>1. ASSUME NEW t \in state.scans, s = [t EXCEPT !.live = FALSE] PROVE s.turn = t.turn
      BY <1>1, <3>1, RevokedRequest
    <3> QED BY <2>1, <3>1 DEF LeftOrAdded, Added
  <2> QED BY <2>2
<1> QED BY <1>5, <1>6, <1>7, <1>8 DEF ScansFresh

\* They keep a file current that they queue, or whose queue, flush and batch they leave.
LEMMA StaysCurrent ==
  ASSUME NEW state, NEW r, Beside(state, r), SameFlush(state, r), NEW x \in Files,
         FolderOf[x] \in r.complete => FolderOf[x] \in state.complete,
         FolderOf[x] \in r.complete /\ state.pendingFiles[x] # "no" => r.pendingFiles[x] # "no",
         FolderOf[x] \in r.complete /\ InBatch(state, x) =>
           InBatch(r, x) \/ r.pendingFiles[x] # "no",
         Current(state, x)
  PROVE  Current(r, x)
BY DEF Beside, SameFlush, Current, Working, Noticed, Announced, Held

\* Untouched fields hold what they held.
LEMMA StaysTyped ==
  ASSUME NEW state, Typed(state), NEW r, Beside(state, r), SameFlush(state, r)
  PROVE  Typed(r)
BY DEF Typed, Beside, SameFlush

-----------------------------------------------------------------------------
(* The handlers' operators again.                                          *)

\* Revoking requests concerns the files of the requests that go.
LEMMA RevokeTends ==
  ASSUME DiskOK, NEW state, Fresh(state), NEW old, old \subseteq state.scans,
         NEW X, \A s \in old : s.kind = "files" => s.items \subseteq X
  PROVE  /\ Tends(state, Revoke(state, old), X)
         /\ Revoke(state, old).complete = state.complete
         /\ Revoke(state, old).flush = state.flush
         /\ Revoke(state, old).pendingFiles = state.pendingFiles
<1> DEFINE N == {[s EXCEPT !.live = FALSE] : s \in {t \in old : t.phase = "report"}}
           r == Revoke(state, old)
<1>1. /\ DOMAIN r = Fields /\ r.scans = (state.scans \ old) \cup N
      /\ r.flush = state.flush /\ r.pendingFiles = state.pendingFiles
      /\ r.complete = state.complete /\ r.disposed = state.disposed
      /\ Beside(state, r)
  BY DEF Revoke, Fresh, Sound, FieldsOK, Fields, Beside
<1>2. Sound(r)
  <2> DEFINE F == {s.folder : s \in state.scans}
  <2>1. \A s \in old : s.kind = "full" => s.folder \in F
    OBVIOUS
  <2> HIDE DEF F
  <2> QED BY <2>1, RevokeKeeps DEF Keeps, Fresh
<1>3. \A s \in N : \E t \in old : t.phase = "report" /\ s = [t EXCEPT !.live = FALSE]
  OBVIOUS
<1> HIDE DEF r, N
<1>4. \A s \in r.scans : LeftOrAdded(state, s)
  BY <1>1, <1>3 DEF LeftOrAdded
<1>5. ASSUME NEW s \in r.scans, NEW t \in r.scans, s.kind = "files", t.kind = "files"
      PROVE  s = t
  <2>1. \A u \in state.scans : RequestOK(u)
    BY DEF Fresh, Sound, FieldsOK
  <2>2. \A a, b \in state.scans : a.kind = "files" /\ b.kind = "files" => a = b
    BY DEF Fresh, ScansFresh
  <2>3. ASSUME NEW u \in N PROVE \E a \in old : u = [a EXCEPT !.live = FALSE] /\ u.kind = a.kind
    <3>1. PICK a \in old : a.phase = "report" /\ u = [a EXCEPT !.live = FALSE]
      BY <1>3
    <3>2. RequestOK(a)
      BY <2>1
    <3>3. u.kind = a.kind
      BY <3>1, <3>2, RevokedRequest
    <3> QED BY <3>1, <3>3
  <2>4. ASSUME NEW u \in r.scans, u.kind = "files"
        PROVE  \/ u \in state.scans \ old
               \/ \E a \in old : u = [a EXCEPT !.live = FALSE] /\ a.kind = "files"
    BY <1>1, <2>3, <2>4
  <2>5. old \subseteq state.scans
    OBVIOUS
  <2>6. CASE s \in state.scans \ old
    <3>1. ASSUME NEW a \in old, a.kind = "files" PROVE FALSE
      BY <1>5, <2>2, <2>5, <2>6, <3>1
    <3>2. t \in state.scans \ old
      BY <1>5, <2>4, <3>1
    <3> QED BY <1>5, <2>2, <2>6, <3>2
  <2>7. ASSUME NEW a \in old, s = [a EXCEPT !.live = FALSE], a.kind = "files" PROVE s = t
    <3>1. t \notin state.scans \ old
      BY <1>5, <2>2, <2>5, <2>7
    <3>2. PICK b \in old : t = [b EXCEPT !.live = FALSE] /\ b.kind = "files"
      BY <1>5, <2>4, <3>1
    <3>3. a = b
      BY <2>2, <2>5, <2>7, <3>2
    <3> QED BY <2>7, <3>2, <3>3
  <2> QED BY <1>5, <2>4, <2>6, <2>7
<1>6. ScansFresh(r)
  BY <1>1, <1>4, <1>5, ScansStayFresh DEF Beside
<1>7. Typed(r)
  BY <1>1, StaysTyped DEF Fresh, SameFlush
<1>8. ASSUME NEW x \in Files \ X, Current(state, x) PROVE Current(r, x)
  <2>1. InBatch(state, x) => InBatch(r, x)
    BY <1>1 DEF InBatch
  <2> QED BY <1>1, <1>8, <2>1, StaysCurrent DEF SameFlush
<1> QED BY <1>1, <1>2, <1>6, <1>7, <1>8 DEF Tends, Fresh, r

\* Scans of whole folders hold no file back when they are revoked.
LEMMA BumpTends ==
  ASSUME DiskOK, NEW state, Fresh(state), NEW F
  PROVE  /\ Tends(state, Bump(state, F), {})
         /\ Bump(state, F).complete = state.complete
         /\ Bump(state, F).flush = state.flush
         /\ Bump(state, F).pendingFiles = state.pendingFiles
<1> DEFINE old == {s \in state.scans : s.folder \in F /\ s.kind = "full"}
<1>1. old \subseteq state.scans /\ \A s \in old : s.kind = "files" => s.items \subseteq {}
  OBVIOUS
<1> HIDE DEF old
<1> QED BY <1>1, RevokeTends DEF Bump, old

\* A queued file is dealt with.
LEMMA QueueTends ==
  ASSUME DiskOK, NEW state, Fresh(state), NEW S, NEW force
  PROVE  /\ Tends(state, QueueFiles(state, S, force), {})
         /\ QueueFiles(state, S, force).complete = state.complete
         /\ QueueFiles(state, S, force).flush = state.flush
         /\ \A x \in S \cap Items : FolderOf[x] \in state.marked =>
              QueueFiles(state, S, force).pendingFiles[x] # "no"
<1> DEFINE Q == Queueable(state, S)
           B == Bump(state, FoldersOf(Q))
           r == QueueFiles(state, S, force)
<1>1. /\ Tends(state, B, {}) /\ B.complete = state.complete /\ B.flush = state.flush
      /\ B.pendingFiles = state.pendingFiles
  BY BumpTends
<1>2. r = [B EXCEPT !.pendingFiles = [x \in Items |-> IF x \notin Q THEN B.pendingFiles[x]
              ELSE IF force \/ B.pendingFiles[x] = "forced" THEN "forced" ELSE "plain"],
            !.fileTimer = B.fileTimer \/ Q # {}]
  BY DEF QueueFiles
<1>3. Sound(r)
  BY QueueAnyKeeps DEF Keeps, Fresh
<1>4. \A x \in S : FolderOf[x] \in state.marked => x \in Q
  BY DEF Queueable, Fresh, Sound, Silenced
<1> HIDE DEF B, r, Q
<1>5. DOMAIN B = Fields
  BY <1>1 DEF Tends, Fresh, Sound, FieldsOK
<1>6. /\ r.scans = B.scans /\ r.flush = B.flush /\ r.complete = B.complete
      /\ r.disposed = B.disposed /\ Beside(B, r)
      /\ r.pendingFiles = [x \in Items |-> IF x \notin Q THEN B.pendingFiles[x]
              ELSE IF force \/ B.pendingFiles[x] = "forced" THEN "forced" ELSE "plain"]
  BY <1>2, <1>5 DEF Fields, Beside
<1>7. \A x \in Items : (x \in Q => r.pendingFiles[x] # "no")
                       /\ (B.pendingFiles[x] # "no" => r.pendingFiles[x] # "no")
  BY <1>6
<1>8. ScansFresh(r)
  <2>1. Fresh(B) /\ \A s, t \in B.scans : s.kind = "files" /\ t.kind = "files" => s = t
    BY <1>1 DEF Tends, Fresh, ScansFresh
  <2> QED BY <1>6, <2>1, ScansStayFresh DEF LeftOrAdded, Beside
<1>9. Typed(r)
  BY <1>1, <1>6, StaysTyped DEF Tends, Fresh, SameFlush
<1>10. ASSUME NEW x \in Files, Current(B, x) PROVE Current(r, x)
  <2>1. InBatch(B, x) => InBatch(r, x)
    BY <1>6 DEF InBatch
  <2>2. B.pendingFiles[x] # "no" => r.pendingFiles[x] # "no"
    BY <1>7 DEF Items
  <2> QED BY <1>6, <1>10, <2>1, <2>2, StaysCurrent DEF SameFlush
<1>11. Tends(B, r, {})
  BY <1>3, <1>6, <1>8, <1>9, <1>10 DEF Tends, Fresh
<1>12. Tends(state, r, {})
  BY <1>1, <1>11, TendsChain
<1> QED BY <1>1, <1>4, <1>6, <1>7, <1>12 DEF r

\* Files of a folder that owes a refresh are not shown as complete.
LEMMA QueueCoverageTends ==
  ASSUME DiskOK, NEW state, Fresh(state), NEW f, ~state.disposed
  PROVE  /\ Tends(state, QueueCoverage(state, f), {x \in Files : FolderOf[x] = f})
         /\ Tends(state, QueueCoverage(state, f), {})
         /\ \A x \in Files : FolderOf[x] = f => Current(QueueCoverage(state, f), x)
<1> DEFINE r == QueueCoverage(state, f)
<1>1. /\ r.flush = state.flush /\ r.scans = state.scans
      /\ r.disposed = state.disposed /\ r.pendingFiles = state.pendingFiles
      /\ r.complete = state.complete \ {f} /\ Beside(state, r)
  BY DEF QueueCoverage, Fresh, Sound, FieldsOK, Fields, Beside
<1>2. Sound(r)
  BY QueueCoverageKeeps DEF Keeps, Fresh
<1> HIDE DEF r
<1>3. ScansFresh(r)
  <2>1. \A s, t \in state.scans : s.kind = "files" /\ t.kind = "files" => s = t
    BY DEF Fresh, ScansFresh
  <2> QED BY <1>1, <2>1, ScansStayFresh DEF LeftOrAdded, Beside
<1>4. Typed(r)
  BY <1>1, StaysTyped DEF Fresh, SameFlush
<1>5. ASSUME NEW x \in Files, Current(state, x) PROVE Current(r, x)
  <2>1. InBatch(state, x) => InBatch(r, x)
    BY <1>1 DEF InBatch
  <2> QED BY <1>1, <1>5, <2>1, StaysCurrent DEF SameFlush
<1>6. \A x \in Files : FolderOf[x] = f => Current(r, x)
  BY <1>1 DEF Current
<1> QED BY <1>1, <1>2, <1>3, <1>4, <1>5, <1>6 DEF Tends, Fresh, r

\* New requests for documents and folders leave the files alone.
LEMMA RequestsTend ==
  ASSUME DiskOK, NEW state, Fresh(state), ~state.disposed,
         NEW R, \A s \in R : RequestOK(s) /\ Added(state, s)
  PROVE  /\ Tends(state, [state EXCEPT !.scans = state.scans \cup R], {})
<1> DEFINE r == [state EXCEPT !.scans = state.scans \cup R]
<1>1. /\ r.flush = state.flush /\ r.scans = state.scans \cup R
      /\ r.disposed = state.disposed /\ r.pendingFiles = state.pendingFiles
      /\ r.complete = state.complete /\ Beside(state, r)
  BY DEF Fresh, Sound, FieldsOK, Fields, Beside
<1>2. Sound(r)
  BY RequestAdded DEF Keeps, Fresh
<1> HIDE DEF r
<1>3. ScansFresh(r)
  <2>1. \A s, t \in r.scans : s.kind = "files" /\ t.kind = "files" => s = t
    BY <1>1 DEF Fresh, ScansFresh, Added
  <2> QED BY <1>1, <2>1, ScansStayFresh DEF LeftOrAdded, Beside
<1>4. Typed(r)
  BY <1>1, StaysTyped DEF Fresh, SameFlush
<1>5. ASSUME NEW x \in Files, Current(state, x) PROVE Current(r, x)
  <2>1. InBatch(state, x) => InBatch(r, x)
    BY <1>1 DEF InBatch
  <2> QED BY <1>1, <1>5, <2>1, StaysCurrent DEF SameFlush
<1> QED BY <1>1, <1>2, <1>3, <1>4, <1>5 DEF Tends, Fresh, r

\* A request for no closed file is one that a handler may add.
LEMMA RequestIsAdded ==
  ASSUME NEW state, NEW f \in state.marked, NEW kind \in {"full", "document"}, NEW owner,
         NEW items, items \cap Files = {}
  PROVE  Added(state, Request(f, kind, owner, items, Blank))
BY DEF Added, Request

\* Checking documents leaves the files alone.
LEMMA CheckDocumentsTends ==
  ASSUME RefreshAssumption, DiskOK, NEW state, Fresh(state), ~state.disposed,
         NEW docs \in SUBSET Documents, NEW owner, \A d \in docs : FolderOf[d] \in state.marked
  PROVE  Tends(state, CheckDocuments(state, docs, owner), {})
<1> DEFINE R == {Request(FolderOf[d], "document", owner, {d}, Blank) : d \in docs}
<1>1. \A d \in docs : /\ FolderOf[d] \in Folders /\ {d} \in SUBSET Items
                      /\ {d} \cap Files = {}
  BY DEF RefreshAssumption, Items
<1>2. ASSUME NEW s \in R PROVE RequestOK(s) /\ Added(state, s)
  <2>1. PICK d \in docs : s = Request(FolderOf[d], "document", owner, {d}, Blank)
    OBVIOUS
  <2> QED BY <1>1, <2>1, RequestFresh, RequestIsAdded
<1> HIDE DEF R
<1>3. Tends(state, [state EXCEPT !.scans = state.scans \cup R], {})
  BY <1>2, RequestsTend
<1> QED BY <1>3 DEF CheckDocuments, R

\* Checking the saved files of a folder leaves what is known of them.
LEMMA CheckSavedTends ==
  ASSUME DiskOK, NEW state, Fresh(state), ~state.disposed,
         NEW F, F \subseteq state.marked, NEW owner
  PROVE  Tends(state, CheckSaved(state, F, owner), {})
<1> DEFINE R == {Request(f, "full", owner, {}, Blank) : f \in F}
<1>1. state.marked \subseteq Folders
  BY DEF Fresh, Sound, FieldsOK
<1>2. ASSUME NEW s \in R PROVE RequestOK(s) /\ Added(state, s)
  <2>1. PICK f \in F : s = Request(f, "full", owner, {}, Blank)
    OBVIOUS
  <2> QED BY <1>1, <2>1, RequestFresh, RequestIsAdded
<1> HIDE DEF R
<1>3. Tends(state, [state EXCEPT !.scans = state.scans \cup R], {})
  BY <1>2, RequestsTend
<1> QED BY <1>3 DEF CheckSaved, R

\* A batch that is withdrawn no longer deals with its files.
LEMMA WithoutTends ==
  ASSUME DiskOK, NEW state, Fresh(state), NEW s \in state.scans
  PROVE  Tends(state, [state EXCEPT !.scans = @ \ {s}], IF s.kind = "files" THEN s.items ELSE {})
<1> DEFINE r == [state EXCEPT !.scans = @ \ {s}]
           X == IF s.kind = "files" THEN s.items ELSE {}
<1>1. /\ r.flush = state.flush /\ r.scans = state.scans \ {s}
      /\ r.disposed = state.disposed /\ r.pendingFiles = state.pendingFiles
      /\ r.complete = state.complete /\ Beside(state, r)
  BY DEF Fresh, Sound, FieldsOK, Fields, Beside
<1>2. Sound(r)
  BY WithoutKeeps DEF Keeps, Fresh
<1> HIDE DEF r
<1>3. ScansFresh(r)
  <2>1. \A a, b \in r.scans : a.kind = "files" /\ b.kind = "files" => a = b
    BY <1>1 DEF Fresh, ScansFresh
  <2> QED BY <1>1, <2>1, ScansStayFresh DEF LeftOrAdded, Beside
<1>4. Typed(r)
  BY <1>1, StaysTyped DEF Fresh, SameFlush
<1>5. ASSUME NEW x \in Files \ X, Current(state, x) PROVE Current(r, x)
  <2>1. InBatch(state, x) => InBatch(r, x)
    BY <1>1 DEF InBatch
  <2> QED BY <1>1, <1>5, <2>1, StaysCurrent DEF SameFlush
<1> QED BY <1>1, <1>2, <1>3, <1>4, <1>5 DEF Tends, Fresh, r

\* Nothing happens where no file is missing.
LEMMA ConfirmTends ==
  ASSUME NEW state
  PROVE  ConfirmMissing(state, {}) = state
BY DEF ConfirmMissing

-----------------------------------------------------------------------------
(* Requests that stay, requests that go on, and requests that are told.    *)

\* Requests that stay keep what is known of them, and those in N come with it.
LEMMA ScansMove ==
  ASSUME NEW state, Fresh(state), NEW r, NEW N, r.scans \subseteq state.scans \cup N,
         Len(state.contexts) \in Nat, Len(r.contexts) \in Nat,
         Len(state.contexts) <= Len(r.contexts),
         \A s \in r.scans \cap state.scans :
           s.kind # "document" /\ s.live => s.folder \in r.marked,
         \A s \in r.scans \cap state.scans, x \in Files : Waits(state, s, x) => Waits(r, s, x),
         \A s \in N : ReadsOK(r, s) /\ TurnsOK(r, s),
         \A s \in N, x \in Files : Waits(r, s, x),
         \A s \in N, t \in r.scans : Ordered(s, t) /\ Ordered(t, s),
         \A s, t \in r.scans : s.kind = "files" /\ t.kind = "files" => s = t,
         \E n \in Nat : \A s \in N : s.turn <= n
  PROVE  ScansFresh(r)
<1>1. ASSUME NEW s \in r.scans, s \notin N
      PROVE  s \in r.scans \cap state.scans
  BY <1>1
<1>2. ASSUME NEW s \in r.scans PROVE ReadsOK(r, s)
  <2>1. CASE s \notin N
    <3>1. ReadsOK(state, s) /\ (s.kind # "document" /\ s.live => s.folder \in r.marked)
      BY <1>1, <2>1 DEF Fresh, ScansFresh
    <3> QED BY <3>1 DEF ReadsOK
  <2> QED BY <2>1
<1>3. ASSUME NEW s \in r.scans PROVE TurnsOK(r, s)
  <2>1. CASE s \notin N
    <3>1. TurnsOK(state, s)
      BY <1>1, <2>1 DEF Fresh, ScansFresh
    <3> QED BY <3>1 DEF TurnsOK
  <2> QED BY <2>1
<1>4. ASSUME NEW s \in r.scans, NEW x \in Files PROVE Waits(r, s, x)
  <2>1. CASE s \notin N
    <3>1. Waits(state, s, x)
      BY <1>1, <2>1 DEF Fresh, ScansFresh
    <3> QED BY <1>1, <2>1, <3>1
  <2> QED BY <2>1
<1>5. ASSUME NEW s \in r.scans, NEW t \in r.scans PROVE Ordered(s, t)
  <2>1. CASE s \notin N /\ t \notin N
    BY <1>1, <2>1 DEF Fresh, ScansFresh
  <2> QED BY <2>1
<1>6. \E n \in Nat : \A s \in r.scans : s.turn <= n
  <2>1. PICK m \in Nat : \A s \in state.scans : s.turn <= m
    BY DEF Fresh, ScansFresh
  <2>2. PICK n \in Nat : \A s \in N : s.turn <= n
    OBVIOUS
  <2>3. ASSUME NEW s \in r.scans PROVE s.turn <= m + n
    <3>1. s.turn \in Nat
      BY <1>3 DEF TurnsOK
    <3>2. s.turn <= m \/ s.turn <= n
      BY <2>1, <2>2
    <3> QED BY <3>1, <3>2
  <2> QED BY <2>3
<1> QED BY <1>2, <1>3, <1>4, <1>5, <1>6 DEF ScansFresh

\* All requests go on at once, in the order they have.
LEMMA ScansMapped ==
  ASSUME NEW state, Fresh(state), NEW r, NEW nx, r.scans = {nx[s] : s \in state.scans},
         \A s \in state.scans : /\ ReadsOK(r, nx[s]) /\ TurnsOK(r, nx[s])
                                /\ nx[s].kind = s.kind /\ nx[s].turn = s.turn,
         \A s \in state.scans, x \in Files : Waits(r, nx[s], x),
         \A s, t \in state.scans : Ordered(nx[s], nx[t])
  PROVE  ScansFresh(r)
<1>1. \A u \in r.scans : \E s \in state.scans : u = nx[s]
  OBVIOUS
<1>2. \A s \in r.scans : ReadsOK(r, s) /\ TurnsOK(r, s)
  BY <1>1
<1>3. \A s \in r.scans, x \in Files : Waits(r, s, x)
  BY <1>1
<1>4. ASSUME NEW u \in r.scans, NEW v \in r.scans PROVE Ordered(u, v)
  <2>1. PICK s \in state.scans : u = nx[s]
    BY <1>1
  <2>2. PICK t \in state.scans : v = nx[t]
    BY <1>1
  <2> QED BY <2>1, <2>2
<1>5. ASSUME NEW u \in r.scans, NEW v \in r.scans, u.kind = "files", v.kind = "files"
      PROVE  u = v
  <2>1. PICK s \in state.scans : u = nx[s]
    BY <1>1
  <2>2. PICK t \in state.scans : v = nx[t]
    BY <1>1
  <2>3. s = t
    BY <1>5, <2>1, <2>2 DEF Fresh, ScansFresh
  <2> QED BY <2>1, <2>2, <2>3
<1>6. \E n \in Nat : \A s \in r.scans : s.turn <= n
  <2>1. PICK n \in Nat : \A s \in state.scans : s.turn <= n
    BY DEF Fresh, ScansFresh
  <2>2. ASSUME NEW u \in r.scans PROVE u.turn <= n
    BY <1>1, <2>1
  <2> QED BY <2>2
<1> QED BY <1>2, <1>3, <1>4, <1>5, <1>6 DEF ScansFresh

\* What a report accepts of closed files lies in a marked folder.
LEMMA AcceptedIsMarked ==
  ASSUME NEW state, Fresh(state), NEW s \in state.scans, s.phase \in {"observe", "settle"},
         NEW x \in Files, x \in s.accepted
  PROVE  /\ s.read[x] > 0 /\ FolderOf[x] = s.folder /\ s.folder \in state.marked
         /\ s.kind # "document" /\ s.live
<1>1. ReadsOK(state, s) /\ RequestOK(s)
  BY DEF Fresh, ScansFresh, Sound, FieldsOK
<1>2. s.read[x] > 0
  BY <1>1 DEF ReadsOK
<1>3. \/ s.kind = "full" /\ FolderOf[x] = s.folder
      \/ s.kind = "files" /\ x \in s.items
  BY <1>1, <1>2 DEF ReadsOK
<1>4. FolderOf[x] = s.folder /\ s.kind # "document"
  BY <1>1, <1>3 DEF ReadsOK, In
<1>5. s.live
  BY <1>1 DEF RequestOK
<1> QED BY <1>1, <1>2, <1>4, <1>5 DEF ReadsOK

\* The number of events is a number.
LEMMA EventsCounted ==
  ASSUME NEW state, Typed(state)
  PROVE  /\ Len(state.contexts) \in Nat /\ DOMAIN state.contexts = 1..Len(state.contexts)
         /\ \A i \in DOMAIN state.contexts :
              state.contexts[i] \in [file : Watched, own : BOOLEAN]
<1>1. state.contexts \in Seq([file : Watched, own : BOOLEAN])
  BY DEF Typed
<1> QED BY <1>1, LenProperties, ElementOfSeq

\* The event at the head is served: its file is no longer outdated in a marked folder.
LEMMA DequeueFresh ==
  ASSUME DiskOK, NEW state, Fresh(state), state.contexts # <<>>,
         NEW w, w = Head(state.contexts).file,
         w \in Files /\ FolderOf[w] \in state.marked => state.folderSeen[w] = disk[w]
  PROVE  /\ Fresh(Dequeue(state))
         /\ \A x \in Files : Current(state, x) => Current(Dequeue(state), x)
<1> DEFINE next(s) == [s EXCEPT !.ahead = IF @ > 0 THEN @ - 1 ELSE 0]
           nx == [s \in state.scans |-> next(s)]
           r == Dequeue(state)
           n == Len(state.contexts)
<1>1. /\ DOMAIN r = Fields /\ r.contexts = Tail(state.contexts)
      /\ r.scans = {next(s) : s \in state.scans}
      /\ r.marked = state.marked /\ r.complete = state.complete
      /\ r.shown = state.shown /\ r.fingerprint = state.fingerprint
      /\ r.folderSeen = state.folderSeen /\ r.pendingFiles = state.pendingFiles
      /\ r.flush = [state.flush EXCEPT !.ahead = IF @ > 0 THEN @ - 1 ELSE 0]
  BY DEF Dequeue, Fresh, Sound, FieldsOK, Fields
<1>2. SameFlush(state, r)
  BY <1>1 DEF SameFlush, Fresh, Sound, FlushOK, FlushFields
<1>3. \A s \in state.scans : RequestOK(s)
  BY DEF Fresh, Sound, FieldsOK
<1>4. ASSUME NEW s \in state.scans
      PROVE  /\ next(s).folder = s.folder /\ next(s).kind = s.kind /\ next(s).owner = s.owner
             /\ next(s).items = s.items /\ next(s).want = s.want /\ next(s).phase = s.phase
             /\ next(s).live = s.live /\ next(s).read = s.read /\ next(s).accepted = s.accepted
             /\ next(s).told = s.told /\ next(s).turn = s.turn /\ next(s).changed = s.changed
             /\ next(s).ahead = IF s.ahead > 0 THEN s.ahead - 1 ELSE 0
  BY <1>3 DEF RequestOK, RequestFields
<1>5. \A s \in state.scans : nx[s] = next(s)
  OBVIOUS
<1>6. Sound(r)
  BY DequeueKeeps DEF Keeps, Fresh
<1> HIDE DEF r, next, nx
<1>12. r.scans = {nx[s] : s \in state.scans}
  BY <1>1, <1>5
<1>13. ASSUME NEW s \in state.scans
       PROVE  /\ nx[s].folder = s.folder /\ nx[s].kind = s.kind /\ nx[s].owner = s.owner
              /\ nx[s].items = s.items /\ nx[s].want = s.want /\ nx[s].phase = s.phase
              /\ nx[s].live = s.live /\ nx[s].read = s.read /\ nx[s].accepted = s.accepted
              /\ nx[s].told = s.told /\ nx[s].turn = s.turn /\ nx[s].changed = s.changed
              /\ nx[s].ahead = IF s.ahead > 0 THEN s.ahead - 1 ELSE 0
  BY <1>4, <1>5
<1>7. /\ n \in Nat /\ n > 0 /\ DOMAIN state.contexts = 1..n
      /\ r.contexts \in Seq([file : Watched, own : BOOLEAN])
      /\ Len(r.contexts) = n - 1 /\ DOMAIN r.contexts = 1..(n - 1)
      /\ \A i \in 1..(n - 1) : r.contexts[i] = state.contexts[i + 1]
      /\ state.contexts[1].file = w
  <2>1. state.contexts \in Seq([file : Watched, own : BOOLEAN])
    BY DEF Fresh, Typed
  <2> QED BY <1>1, <2>1, HeadTailProperties, EmptySeq, LenProperties
<1> HIDE DEF n
<1>8. ASSUME NEW x \in Files, FolderOf[x] \in state.marked, Noticed(state, x)
      PROVE  Noticed(r, x)
  <2>1. x # w
    BY <1>8 DEF Noticed
  <2>2. ASSUME NEW i \in DOMAIN state.contexts, state.contexts[i].file = x
        PROVE  \E j \in DOMAIN r.contexts : r.contexts[j].file = x
    <3>1. i # 1 /\ i \in 1..n
      BY <1>7, <2>1, <2>2
    <3>2. i - 1 \in 1..(n - 1) /\ (i - 1) + 1 = i
      BY <1>7, <3>1
    <3> QED BY <1>7, <2>2, <3>2
  <2>3. Announced(r, x)
    BY <1>8, <2>2 DEF Noticed, Announced
  <2> QED BY <1>1, <1>8, <2>3 DEF Noticed
<1>9. ScansFresh(r)
  <2>1. ASSUME NEW s \in state.scans
        PROVE  /\ ReadsOK(r, nx[s]) /\ TurnsOK(r, nx[s])
               /\ nx[s].kind = s.kind /\ nx[s].turn = s.turn
    <3>1. ReadsOK(state, s) /\ TurnsOK(state, s)
      BY DEF Fresh, ScansFresh
    <3>2. ReadsOK(r, nx[s])
      <4>1. r.marked = state.marked
        BY <1>1
      <4>2. PICK t : t = nx[s]
        OBVIOUS
      <4>3. /\ t.folder = s.folder /\ t.kind = s.kind /\ t.owner = s.owner
            /\ t.items = s.items /\ t.want = s.want /\ t.phase = s.phase
            /\ t.live = s.live /\ t.read = s.read /\ t.accepted = s.accepted
        BY <1>13, <4>2
      <4>4. ReadsOK(r, t)
        BY <3>1, <4>1, <4>3 DEF ReadsOK
      <4> QED BY <4>2, <4>4
    <3>3. TurnsOK(r, nx[s])
      <4>1. s.ahead \in 0..n /\ s.turn \in Nat /\ s.changed \in BOOLEAN
        BY <3>1 DEF TurnsOK, n
      <4>2. (IF s.ahead > 0 THEN s.ahead - 1 ELSE 0) \in 0..(n - 1)
        BY <1>7, <4>1
      <4>3. nx[s].turn \in Nat /\ nx[s].changed \in BOOLEAN
        BY <1>13, <4>1
      <4> QED BY <1>13, <1>7, <4>2, <4>3 DEF TurnsOK
    <3> QED BY <1>13, <3>2, <3>3
  <2>2. ASSUME NEW s \in state.scans, NEW x \in Files PROVE Waits(r, nx[s], x)
    <3>1. Waits(state, s, x)
      BY DEF Fresh, ScansFresh
    <3>2. s.phase = "settle" /\ x \in s.accepted => FolderOf[x] \in state.marked
      BY AcceptedIsMarked
    <3>3. r.fingerprint = state.fingerprint
      BY <1>1
    <3>4. /\ nx[s].phase = s.phase /\ nx[s].changed = s.changed /\ nx[s].accepted = s.accepted
          /\ nx[s].read = s.read /\ nx[s].told = s.told
      BY <1>13
    <3> QED BY <1>8, <3>1, <3>2, <3>3, <3>4 DEF Waits
  <2>3. ASSUME NEW s \in state.scans, NEW t \in state.scans PROVE Ordered(nx[s], nx[t])
    <3>1. Ordered(s, t) /\ TurnsOK(state, s) /\ TurnsOK(state, t)
      BY DEF Fresh, ScansFresh
    <3>2. s.ahead \in Nat /\ t.ahead \in Nat
      BY <1>7, <3>1 DEF TurnsOK, n
    <3>3. s.ahead <= t.ahead => (IF s.ahead > 0 THEN s.ahead - 1 ELSE 0)
                             <= (IF t.ahead > 0 THEN t.ahead - 1 ELSE 0)
      BY <3>2
    <3> QED BY <1>13, <3>1, <3>3 DEF Ordered
  <2> QED BY <1>12, <2>1, <2>2, <2>3, ScansMapped
<1>10. Typed(r)
  BY <1>1, <1>2, <1>7 DEF Typed, Fresh, SameFlush
<1>11. ASSUME NEW x \in Files, Current(state, x) PROVE Current(r, x)
  <2>1. InBatch(state, x) => InBatch(r, x)
    <3> SUFFICES ASSUME NEW s \in state.scans, s.kind = "files", s.live, x \in s.items,
                        s.phase \in {"submitted", "queued", "report"} \/ x \in s.accepted
                 PROVE  InBatch(r, x)
      BY DEF InBatch
    <3>1. nx[s] \in r.scans
      BY <1>12
    <3> QED BY <1>13, <3>1 DEF InBatch
  <2>2. Working(state, x) => Working(r, x)
    BY <1>1, <1>2, <2>1 DEF Working, SameFlush, Held
  <2> QED BY <1>1, <1>8, <1>11, <2>2 DEF Current
<1> QED BY <1>6, <1>9, <1>10, <1>11 DEF Fresh, r

\* A confirmed event is told to the requests of its folder: only the event's own file
\* may no longer be dealt with.
LEMMA ConfirmFresh ==
  ASSUME RefreshAssumption, DiskOK, NEW state, Fresh(state), NEW w \in Watched
  PROVE  /\ Fresh(Confirm(state, w))
         /\ Confirm(state, w).marked = state.marked
         /\ Confirm(state, w).disposed = state.disposed
         /\ Confirm(state, w).contexts = state.contexts
         /\ Confirm(state, w).complete = state.complete
         /\ Confirm(state, w).shown = state.shown
         /\ Confirm(state, w).fingerprint = state.fingerprint
         /\ Confirm(state, w).folderSeen[w] = disk[w]
         /\ \A x \in Files \ {w} : Current(state, x) => Current(Confirm(state, w), x)
<1> DEFINE next(s) == IF s.folder = FolderOf[w]
                      THEN [s EXCEPT !.told = @ \cup {<<w, disk[w]>>}] ELSE s
           nx == [s \in state.scans |-> next(s)]
           r == Confirm(state, w)
<1>1. /\ DOMAIN r = Fields /\ r.contexts = state.contexts
      /\ r.scans = {next(s) : s \in state.scans}
      /\ r.marked = state.marked /\ r.complete = state.complete
      /\ r.shown = state.shown /\ r.fingerprint = state.fingerprint
      /\ r.pendingFiles = state.pendingFiles
      /\ r.flush = state.flush /\ r.disposed = state.disposed
  BY DEF Confirm, Fresh, Sound, FieldsOK, Fields
<1>2. r.folderSeen = [state.folderSeen EXCEPT ![w] = disk[w]]
  BY DEF Confirm, Fresh, Sound, FieldsOK, Fields
<1>3. \A s \in state.scans : RequestOK(s)
  BY DEF Fresh, Sound, FieldsOK
<1>4. ASSUME NEW s \in state.scans
      PROVE  /\ next(s).folder = s.folder /\ next(s).kind = s.kind /\ next(s).owner = s.owner
             /\ next(s).items = s.items /\ next(s).want = s.want /\ next(s).phase = s.phase
             /\ next(s).live = s.live /\ next(s).read = s.read /\ next(s).accepted = s.accepted
             /\ next(s).ahead = s.ahead /\ next(s).turn = s.turn /\ next(s).changed = s.changed
             /\ s.told \subseteq next(s).told
             /\ s.folder = FolderOf[w] => <<w, disk[w]>> \in next(s).told
  BY <1>3 DEF RequestOK, RequestFields
<1>5. \A s \in state.scans : nx[s] = next(s)
  OBVIOUS
<1>6. Sound(r)
  BY ConfirmedKeeps DEF Keeps, Fresh
<1> HIDE DEF r, next, nx
<1>7. r.scans = {nx[s] : s \in state.scans}
  BY <1>1, <1>5
<1>8. disk[w] \in Int /\ disk[w] < happened + 2 /\ disk[w] \in Versions
  <2>1. disk[w] \in Int /\ 0 < disk[w] /\ disk[w] < happened + 2
    BY DEF DiskOK
  <2>2. happened \in Nat /\ happened <= MaxEvents /\ MaxEvents \in Nat
    BY DEF DiskOK, RefreshAssumption
  <2> QED BY <2>1, <2>2 DEF Versions
<1>9. /\ r.folderSeen \in [Watched -> Int] /\ r.folderSeen[w] = disk[w]
      /\ \A x \in Files \ {w} : r.folderSeen[x] = state.folderSeen[x]
  <2>1. state.folderSeen \in [Watched -> Int]
    BY DEF Fresh, Typed
  <2> QED BY <1>2, <1>8, <2>1 DEF Watched
<1>10. ASSUME NEW x \in Files \ {w}, Noticed(state, x) PROVE Noticed(r, x)
  BY <1>1, <1>9, <1>10 DEF Noticed, Announced
<1>11. ScansFresh(r)
  <2>1. ASSUME NEW s \in state.scans
        PROVE  /\ ReadsOK(r, nx[s]) /\ TurnsOK(r, nx[s])
               /\ nx[s].kind = s.kind /\ nx[s].turn = s.turn
    <3>1. ReadsOK(state, s) /\ TurnsOK(state, s)
      BY DEF Fresh, ScansFresh
    <3>2. PICK t : t = nx[s]
      OBVIOUS
    <3>3. /\ t.folder = s.folder /\ t.kind = s.kind /\ t.owner = s.owner
          /\ t.items = s.items /\ t.want = s.want /\ t.phase = s.phase
          /\ t.live = s.live /\ t.read = s.read /\ t.accepted = s.accepted
          /\ t.ahead = s.ahead /\ t.turn = s.turn /\ t.changed = s.changed
      BY <1>4, <1>5, <3>2
    <3>4. r.marked = state.marked /\ r.contexts = state.contexts
      BY <1>1
    <3>5. ReadsOK(r, t)
      BY <3>1, <3>3, <3>4 DEF ReadsOK
    <3>6. TurnsOK(r, t)
      BY <3>1, <3>3, <3>4 DEF TurnsOK
    <3> QED BY <3>2, <3>3, <3>5, <3>6
  <2>2. ASSUME NEW s \in state.scans, NEW x \in Files PROVE Waits(r, nx[s], x)
    <3>1. Waits(state, s, x)
      BY DEF Fresh, ScansFresh
    <3>2. s.phase = "settle" /\ x \in s.accepted => FolderOf[x] = s.folder
      BY AcceptedIsMarked
    <3>3. r.fingerprint = state.fingerprint
      BY <1>1
    <3>4. /\ nx[s].phase = s.phase /\ nx[s].changed = s.changed /\ nx[s].accepted = s.accepted
          /\ nx[s].read = s.read /\ s.told \subseteq nx[s].told
          /\ s.folder = FolderOf[w] => <<w, disk[w]>> \in nx[s].told
      BY <1>4, <1>5
    <3> SUFFICES ASSUME s.phase = "settle", ~s.changed, x \in s.accepted, s.read[x] # disk[x]
                 PROVE  (\E v \in Versions : <<x, v>> \in nx[s].told /\ v # s.read[x])
                        \/ Noticed(r, x)
      BY <3>1, <3>3, <3>4 DEF Waits
    <3>5. CASE x = w
      <4>1. <<x, disk[x]>> \in nx[s].told
        BY <3>2, <3>4, <3>5
      <4> QED BY <1>8, <3>5, <4>1
    <3>6. CASE x # w
      BY <1>10, <3>1, <3>4, <3>6 DEF Waits
    <3> QED BY <3>5, <3>6
  <2>3. ASSUME NEW s \in state.scans, NEW t \in state.scans PROVE Ordered(nx[s], nx[t])
    <3>1. Ordered(s, t)
      BY DEF Fresh, ScansFresh
    <3> QED BY <1>4, <1>5, <3>1 DEF Ordered
  <2> QED BY <1>7, <2>1, <2>2, <2>3, ScansMapped
<1>12. Typed(r)
  <2>1. \A x \in Files : r.folderSeen[x] < happened + 2
    BY <1>8, <1>9 DEF Typed, Fresh
  <2> QED BY <1>1, <1>9, <2>1 DEF Typed, Fresh
<1>13. ASSUME NEW x \in Files \ {w}, Current(state, x) PROVE Current(r, x)
  <2>1. InBatch(state, x) => InBatch(r, x)
    <3> SUFFICES ASSUME NEW s \in state.scans, s.kind = "files", s.live, x \in s.items,
                        s.phase \in {"submitted", "queued", "report"} \/ x \in s.accepted
                 PROVE  InBatch(r, x)
      BY DEF InBatch
    <3>1. nx[s] \in r.scans
      BY <1>7
    <3> QED BY <1>4, <1>5, <3>1 DEF InBatch
  <2>2. Working(state, x) => Working(r, x)
    BY <1>1, <2>1 DEF Working, Held
  <2> QED BY <1>1, <1>10, <1>13, <2>2 DEF Current
<1> QED BY <1>1, <1>6, <1>9, <1>11, <1>12, <1>13 DEF Fresh, r

\* The changed file is queued, with what it affects.
LEMMA ApplyFileFresh ==
  ASSUME DiskOK, NEW state, Fresh(state), ~state.disposed,
         NEW w \in Files, FolderOf[w] \in state.marked,
         FolderOf[w] \in state.complete /\ state.fingerprint[w] = disk[w]
           => state.shown[w] = disk[w],
         NEW affected
  PROVE  /\ Fresh(ApplyFile(state, w, affected)) /\ Beside(state, ApplyFile(state, w, affected))
         /\ \A x \in Files \ {w} :
              Current(state, x) => Current(ApplyFile(state, w, affected), x)
         /\ Current(ApplyFile(state, w, affected), w)
<1> DEFINE f == FolderOf[w]
           forced == ForceFiles(state, affected)
           queued == QueueFiles(forced, {w}, FALSE)
           bumped == Bump(queued, {f})
           r == ApplyFile(state, w, affected)
<1>1. Tends(state, forced, {}) /\ forced.complete = state.complete
  BY QueueTends DEF ForceFiles
<1>2. /\ Tends(forced, queued, {}) /\ queued.complete = forced.complete
      /\ f \in forced.marked => queued.pendingFiles[w] # "no"
  <2>1. Fresh(forced) /\ w \in {w} \cap Items
    BY <1>1 DEF Tends, Items
  <2>2. queued = QueueFiles(forced, {w}, FALSE)
    OBVIOUS
  <2> HIDE DEF forced, queued
  <2>3. ASSUME NEW S, NEW force, NEW q, q = QueueFiles(forced, S, force)
        PROVE  /\ Tends(forced, q, {}) /\ q.complete = forced.complete
               /\ \A x \in S \cap Items : FolderOf[x] \in forced.marked => q.pendingFiles[x] # "no"
    BY <2>1, <2>3, QueueTends
  <2> QED BY <2>1, <2>2, <2>3
<1>3. f \in forced.marked /\ f \in queued.marked
  BY <1>1, <1>2 DEF Tends, Beside
<1>4. Tends(state, queued, {})
  BY <1>1, <1>2, TendsOn
<1>5. Tends(queued, bumped, {}) /\ bumped.complete = queued.complete
  <2>1. Fresh(queued)
    BY <1>4 DEF Tends
  <2> HIDE DEF queued
  <2> QED BY <2>1, BumpTends
<1>6. Current(queued, w)
  <2>1. Working(queued, w)
    BY <1>2, <1>3 DEF Working
  <2>2. /\ queued.shown = state.shown /\ queued.fingerprint = state.fingerprint
        /\ queued.complete = state.complete
    BY <1>1, <1>2, <1>4 DEF Tends, Beside
  <2> HIDE DEF queued
  <2> QED BY <2>1, <2>2 DEF Current
<1>7. CASE f \in state.complete
  <2>1. r = queued
    BY <1>7 DEF ApplyFile
  <2> HIDE DEF queued, r
  <2> QED BY <1>4, <1>6, <2>1 DEF Tends, r
<1>8. CASE f \notin state.complete
  <2>1. r = QueueCoverage(bumped, f)
    BY <1>8 DEF ApplyFile
  <2>2. Fresh(bumped) /\ ~bumped.disposed
    BY <1>4, <1>5 DEF Tends
  <2> HIDE DEF queued, bumped, r
  <2>3. Tends(bumped, r, {}) /\ Current(r, w)
    BY <2>1, <2>2, QueueCoverageTends
  <2>4. Tends(state, r, {})
    BY <1>4, <1>5, <2>3, TendsOn
  <2> QED BY <2>3, <2>4 DEF Tends, r
<1> QED BY <1>7, <1>8

-----------------------------------------------------------------------------
(* An ignore control, and the event at the head of the queue.              *)

\* An ignore control moves: the closed files of its folder are left to the scan that
\* the folder then owes, and its coverage is gone.
LEMMA ApplyControlFresh ==
  ASSUME RefreshAssumption, DiskOK, NEW state, Fresh(state), ~state.disposed, NEW c, NEW affected,
         NEW a, a = ApplyControl(state, c, affected)
  PROVE  /\ Fresh(a) /\ Beside(state, a)
         /\ \A x \in Files : Current(state, x) => Current(a, x)
<1> DEFINE f == FolderOf[c]
           X == {x \in Files : FolderOf[x] = f}
           docs == affected \cap Documents
           old == {s \in state.scans : s.folder = f /\ Admitted(s)}
           revoked == Revoke(state, old)
           stale == [revoked EXCEPT
             !.document = [d \in Documents |->
                IF d \in docs /\ @[d] = "current" THEN "stale" ELSE @[d]],
             !.flush.admitted = @ \ {f}]
           queued == ForceFiles(stale, docs)
           cleared == [queued EXCEPT !.pendingFiles =
             [x \in Items |-> IF x \in In(f, Files) THEN "no" ELSE @[x]]]
           r == ApplyControl(state, c, affected)
<1>1. /\ Tends(state, revoked, X) /\ revoked.complete = state.complete
      /\ revoked.flush = state.flush
  <2>1. \A s \in old : s.kind = "files" => s.items \subseteq X
    BY DEF Fresh, ScansFresh, ReadsOK, In
  <2>2. old \subseteq state.scans
    OBVIOUS
  <2> HIDE DEF old, X
  <2> QED BY <2>1, <2>2, RevokeTends
<1>2. Sound(revoked) /\ Fresh(revoked)
  BY <1>1 DEF Tends, Fresh
<1> HIDE DEF revoked, X, docs, f
<1>3. /\ SameView(revoked, stale) /\ Beside(revoked, stale)
      /\ stale.flush.selected = revoked.flush.selected
      /\ stale.flush.admitted = revoked.flush.admitted \ {f}
  BY <1>2 DEF SameView, Sound, FieldsOK, FlushOK, Fields, FlushFields, Beside
<1> HIDE DEF stale
<1>4. Fresh(stale)
  <2>1. Sound(stale)
    BY <1>2, <1>3, ViewKeeps DEF Keeps
  <2>2. Typed(stale)
    BY <1>2, <1>3 DEF Fresh, Typed, Beside
  <2>3. \A s \in stale.scans : LeftOrAdded(revoked, s)
    BY <1>3 DEF SameView, LeftOrAdded
  <2>4. \A s, t \in stale.scans : s.kind = "files" /\ t.kind = "files" => s = t
    BY <1>2, <1>3 DEF Fresh, ScansFresh, SameView
  <2>5. ScansFresh(stale)
    BY <1>2, <1>3, <2>3, <2>4, ScansStayFresh DEF Beside
  <2> QED BY <2>1, <2>2, <2>5 DEF Fresh
<1>5. \A x \in Files : FolderOf[x] # f /\ Current(revoked, x) => Current(stale, x)
  <2> SUFFICES ASSUME NEW x \in Files, FolderOf[x] # f, Current(revoked, x) PROVE Current(stale, x)
    OBVIOUS
  <2>1. InBatch(revoked, x) => InBatch(stale, x)
    BY <1>3 DEF SameView, InBatch
  <2>2. Held(revoked, FolderOf[x]) => Held(stale, FolderOf[x])
    BY <1>3 DEF SameView, Held
  <2>3. Working(revoked, x) => Working(stale, x)
    BY <1>3, <2>1, <2>2 DEF SameView, Working
  <2> QED BY <1>3, <2>3 DEF SameView, Beside, Current, Noticed, Announced
<1>6. Tends(stale, queued, {}) /\ queued.complete = stale.complete
  BY <1>4, QueueTends DEF ForceFiles
<1>7. Sound(queued) /\ Fresh(queued)
  BY <1>6 DEF Tends, Fresh
<1> HIDE DEF queued
<1>8. /\ Sound(cleared) /\ cleared.flush = queued.flush /\ cleared.scans = queued.scans
      /\ cleared.complete = queued.complete
      /\ \A x \in Items : FolderOf[x] # f => cleared.pendingFiles[x] = queued.pendingFiles[x]
  BY <1>7, ClearKeeps DEF Keeps
<1>9. Beside(queued, cleared) /\ cleared.disposed = queued.disposed
  BY <1>7 DEF Beside, Sound, FieldsOK, Fields
<1> HIDE DEF cleared
<1>10. Fresh(cleared)
  <2>1. Typed(cleared)
    BY <1>7, <1>8, <1>9 DEF Fresh, Typed, Beside
  <2>2. \A s \in cleared.scans : LeftOrAdded(queued, s)
    BY <1>8 DEF LeftOrAdded
  <2>3. \A s, t \in cleared.scans : s.kind = "files" /\ t.kind = "files" => s = t
    BY <1>7, <1>8 DEF Fresh, ScansFresh
  <2>4. ScansFresh(cleared)
    BY <1>7, <1>8, <1>9, <2>2, <2>3, ScansStayFresh DEF Beside
  <2> QED BY <1>8, <2>1, <2>4 DEF Fresh
<1>11. \A x \in Files : FolderOf[x] # f /\ Current(queued, x) => Current(cleared, x)
  <2> SUFFICES ASSUME NEW x \in Files, FolderOf[x] # f, Current(queued, x)
               PROVE  Current(cleared, x)
    OBVIOUS
  <2>1. cleared.pendingFiles[x] = queued.pendingFiles[x]
    BY <1>8 DEF Items
  <2> QED BY <1>8, <1>9, <2>1 DEF Beside, Current, Working, InBatch, Held, Noticed, Announced
<1>12. ~cleared.disposed
  BY <1>1, <1>3, <1>6, <1>9 DEF Tends, SameView
<1>13. r = QueueCoverage(cleared, f)
  BY DEF ApplyControl, cleared, queued, stale, revoked, docs, f
<1> HIDE DEF r
<1>14. /\ Tends(cleared, r, {})
       /\ \A x \in Files : FolderOf[x] = f => Current(r, x)
  BY <1>10, <1>12, <1>13, QueueCoverageTends
<1>15. Beside(state, r)
  BY <1>1, <1>3, <1>6, <1>9, <1>14 DEF Beside, Tends
<1>16. ASSUME NEW x \in Files, Current(state, x), FolderOf[x] # f PROVE Current(r, x)
  <2>1. Current(revoked, x)
    BY <1>1, <1>16 DEF Tends, X
  <2>2. Current(queued, x)
    BY <1>5, <1>6, <1>16, <2>1 DEF Tends
  <2>3. Current(cleared, x)
    BY <1>11, <1>16, <2>2
  <2> QED BY <1>14, <2>3 DEF Tends
<1> QED BY <1>14, <1>15, <1>16 DEF Tends, r

-----------------------------------------------------------------------------
(* The inductive invariant of the closed files, and the steps of the       *)
(* editor that keep the disk.                                              *)

FilesInv == DiskOK /\ Fresh(e) /\ \A x \in Files : Current(e, x)

\* A step of the editor is a step from one record to the next.
LEMMA EditorKept ==
  ASSUME RefreshAssumption, UNCHANGED <<disk, undelivered>>,
         UNCHANGED happened \/ Happens, DiskOK,
         Fresh(e'), \A x \in Files : Current(e', x)
  PROVE  FilesInv'
<1>1. /\ happened \in Nat /\ happened' \in Nat /\ happened <= happened'
      /\ happened' <= MaxEvents
  BY DEF DiskOK, Happens, RefreshAssumption
<1>2. disk \in [Watched -> Int] /\ \A w \in Watched : 0 < disk[w] /\ disk[w] < happened + 2
  BY DEF DiskOK
<1>3. DiskOK'
  <2>1. ASSUME NEW w \in Watched PROVE disk[w] < happened' + 2
    <3>1. disk[w] \in Int /\ disk[w] < happened + 2
      BY <1>2
    <3> QED BY <1>1, <3>1
  <2> QED BY <1>1, <1>2, <2>1 DEF DiskOK
<1>4. Sound(e)'
  BY DEF Fresh, Sound, FieldsOK, FlushOK, Armed, Silenced, RequestOK
<1>5. Typed(e)'
  <2>1. ASSUME NEW x \in Files
        PROVE  e'.fingerprint[x] < happened' + 2 /\ e'.folderSeen[x] < happened' + 2
    <3>1. e'.fingerprint[x] < happened + 2 /\ e'.folderSeen[x] < happened + 2
      BY DEF Fresh, Typed
    <3>2. e'.fingerprint[x] \in Int /\ e'.folderSeen[x] \in Int
      BY DEF Fresh, Typed, Watched
    <3> QED BY <1>1, <3>1, <3>2
  <2> QED BY <2>1 DEF Fresh, Typed
<1>6. ScansFresh(e)'
  <2>1. \A s \in e'.scans : ReadsOK(e, s)' /\ TurnsOK(e, s)'
    BY DEF Fresh, ScansFresh, ReadsOK, TurnsOK
  <2>2. \A s \in e'.scans, x \in Files : Waits(e, s, x)'
    BY DEF Fresh, ScansFresh, Waits, Noticed, Announced
  <2>3. \A s, t \in e'.scans : Ordered(s, t)
    BY DEF Fresh, ScansFresh
  <2>4. \A s, t \in e'.scans : s.kind = "files" /\ t.kind = "files" => s = t
    BY DEF Fresh, ScansFresh
  <2>5. \E n \in Nat : \A s \in e'.scans : s.turn <= n
    BY DEF Fresh, ScansFresh
  <2> QED BY <2>1, <2>2, <2>3, <2>4, <2>5 DEF ScansFresh, Ordered
<1>7. (\A x \in Files : Current(e, x))'
  BY DEF Current, Working, InBatch, Held, Noticed, Announced
<1> QED BY <1>3, <1>4, <1>5, <1>6, <1>7 DEF FilesInv, Fresh

\* What tends the files keeps the invariant.
LEMMA TendsKept ==
  ASSUME RefreshAssumption, FilesInv, UNCHANGED <<disk, undelivered>>,
         UNCHANGED happened \/ Happens, Tends(e, e', {})
  PROVE  FilesInv'
BY EditorKept DEF FilesInv, Tends

\* An event that is taken from the queue is an echo of what the scan of the folder
\* saw, or the file it names is queued.
LEMMA ContextKeptFresh ==
  ASSUME RefreshAssumption, FilesInv, Context
  PROVE  FilesInv'
<1> DEFINE w == Head(e.contexts).file
           affected == Affected(e, w)
           confirmed == Confirm(e, w)
           echo == e.folderSeen[w] = disk[w] /\ affected = {}
<1>1. DiskOK /\ Fresh(e) /\ \A x \in Files : Current(e, x)
  BY DEF FilesInv
<1>2. UNCHANGED <<disk, undelivered, happened>> /\ e.contexts # <<>>
  BY DEF Context
<1>3. w \in Watched /\ Head(e.contexts) \in [file : Watched, own : BOOLEAN]
  <2>1. Head(e.contexts) \in [file : Watched, own : BOOLEAN]
    BY <1>1, <1>2, HeadTailProperties DEF Fresh, Typed
  <2> QED BY <2>1
<1>4. e' = IF FolderOf[w] \notin e.marked \/ echo
           THEN Dequeue(e)
           ELSE Dequeue(IF w \in Controls THEN ApplyControl(confirmed, w, affected)
                        ELSE ApplyFile(confirmed, w, affected))
  BY DEF Context
<1> HIDE DEF w, affected
<1>5. CASE FolderOf[w] \notin e.marked \/ echo
  <2>1. e' = Dequeue(e)
    BY <1>4, <1>5
  <2>2. w = Head(e.contexts).file
    BY DEF w
  <2>3. w \in Files /\ FolderOf[w] \in e.marked => e.folderSeen[w] = disk[w]
    BY <1>5
  <2>4. Fresh(e') /\ \A x \in Files : Current(e, x) => Current(e', x)
    BY <1>1, <1>2, <2>1, <2>2, <2>3, DequeueFresh
  <2> QED BY <1>1, <1>2, <2>4, EditorKept
<1>6. CASE ~(FolderOf[w] \notin e.marked \/ echo)
  <2> DEFINE applied == IF w \in Controls THEN ApplyControl(confirmed, w, affected)
                        ELSE ApplyFile(confirmed, w, affected)
  <2>1. e' = Dequeue(applied)
    BY <1>4, <1>6
  <2>2. /\ Fresh(confirmed) /\ confirmed.marked = e.marked
        /\ confirmed.disposed = e.disposed /\ confirmed.contexts = e.contexts
        /\ confirmed.complete = e.complete /\ confirmed.shown = e.shown
        /\ confirmed.fingerprint = e.fingerprint /\ confirmed.folderSeen[w] = disk[w]
        /\ \A x \in Files \ {w} : Current(e, x) => Current(confirmed, x)
    BY <1>1, <1>3, ConfirmFresh
  <2>3. ~confirmed.disposed
    BY <1>1, <1>6, <2>2 DEF Fresh, Sound, Silenced
  <2> HIDE DEF confirmed
  <2>4. ASSUME w \in Controls
        PROVE  /\ Fresh(applied) /\ Beside(confirmed, applied)
               /\ \A x \in Files : Current(applied, x)
    <3>3. applied = ApplyControl(confirmed, w, affected)
      BY <2>4
    <3> HIDE DEF applied
    <3>1. /\ Fresh(applied) /\ Beside(confirmed, applied)
          /\ \A x \in Files : Current(confirmed, x) => Current(applied, x)
      BY <1>1, <2>2, <2>3, <3>3, ApplyControlFresh
    <3>2. w \notin Files
      BY <2>4 DEF RefreshAssumption
    <3> QED BY <1>1, <2>2, <3>1, <3>2
  <2>5. ASSUME w \notin Controls
        PROVE  /\ Fresh(applied) /\ Beside(confirmed, applied)
               /\ \A x \in Files : Current(applied, x)
    <3>1. w \in Files
      BY <1>3, <2>5 DEF Watched
    <3>2. FolderOf[w] \in confirmed.complete /\ confirmed.fingerprint[w] = disk[w]
            => confirmed.shown[w] = disk[w]
      BY <1>1, <1>6, <2>2, <3>1 DEF Current
    <3>3. /\ Fresh(applied) /\ Beside(confirmed, applied)
          /\ \A x \in Files \ {w} : Current(confirmed, x) => Current(applied, x)
          /\ Current(applied, w)
      BY <1>1, <1>6, <2>2, <2>3, <2>5, <3>1, <3>2, ApplyFileFresh
    <3> QED BY <1>1, <2>2, <3>1, <3>3
  <2>6. /\ Fresh(applied) /\ Beside(confirmed, applied)
        /\ \A x \in Files : Current(applied, x)
    BY <2>4, <2>5
  <2> HIDE DEF applied
  <2>7. applied.contexts = e.contexts /\ applied.folderSeen[w] = disk[w]
    BY <2>2, <2>6 DEF Beside
  <2>8. w = Head(applied.contexts).file
    BY <2>7 DEF w
  <2>9. Fresh(e') /\ \A x \in Files : Current(applied, x) => Current(e', x)
    BY <1>1, <1>2, <2>1, <2>6, <2>7, <2>8, DequeueFresh
  <2> QED BY <1>1, <1>2, <2>6, <2>9, EditorKept
<1> QED BY <1>5, <1>6

-----------------------------------------------------------------------------
(* The disk, the watchers and the roots.                                   *)

\* A finite set, as a sequence, is a function onto the set.
LEMMA SetToSeqOnto ==
  ASSUME NEW S, IsFiniteSet(S)
  PROVE  /\ Cardinality(S) \in Nat
         /\ SetToSeq(S) \in [1..Cardinality(S) -> S]
         /\ \A x \in S : \E i \in 1..Cardinality(S) : SetToSeq(S)[i] = x
<1> DEFINE n == Cardinality(S)
<1>1. n \in Nat /\ ExistsBijection(1..n, S)
  BY FS_CardinalityType
<1>2. PICK b : b \in Bijection(1..n, S)
  BY <1>1 DEF ExistsBijection
<1>3. b \in [1..n -> S] /\ IsInjective(b)
  BY <1>2 DEF Bijection, Injection
<1>4. SetToSeq(S) \in [1..n -> S] /\ IsInjective(SetToSeq(S))
  BY <1>3 DEF SetToSeq
<1>5. SetToSeq(S) \in Injection(1..n, S)
  BY <1>4 DEF Injection
<1>6. IsFiniteSet(1..n) /\ Cardinality(1..n) = n
  BY <1>1, FS_Interval
<1>7. SetToSeq(S) \in Surjection(1..n, S)
  BY <1>5, <1>6, FS_Injection
<1> QED BY <1>1, <1>4, <1>7 DEF Surjection

\* Events are appended, one for each file of a marked root.
LEMMA EventsGrow ==
  ASSUME RefreshAssumption, NEW state, DOMAIN state = Fields, Typed(state),
         NEW W \in SUBSET Watched, NEW r, r = ContextEvents(state, W)
  PROVE  /\ DOMAIN r = Fields /\ r.flush = state.flush /\ r.scans = state.scans
         /\ r.marked = state.marked /\ r.complete = state.complete
         /\ r.disposed = state.disposed /\ r.pendingFiles = state.pendingFiles
         /\ r.shown = state.shown /\ r.fingerprint = state.fingerprint
         /\ r.folderSeen = state.folderSeen
         /\ r.contexts \in Seq([file : Watched, own : BOOLEAN])
         /\ Len(state.contexts) \in Nat /\ Len(r.contexts) \in Nat
         /\ Len(state.contexts) <= Len(r.contexts)
         /\ DOMAIN r.contexts = 1..Len(r.contexts)
         /\ \A i \in DOMAIN state.contexts : i \in DOMAIN r.contexts
                                             /\ r.contexts[i] = state.contexts[i]
         /\ ~state.disposed => \A w \in W : FolderOf[w] \in state.marked =>
              \E i \in DOMAIN r.contexts : r.contexts[i].file = w
<1> DEFINE Q == Queueable(state, W)
           E == {[file |-> w, own |-> TRUE] : w \in Q}
           T == [file : Watched, own : BOOLEAN]
           q == SetToSeq(E)
<1>1. /\ state.contexts \in Seq(T) /\ Len(state.contexts) \in Nat
      /\ DOMAIN state.contexts = 1..Len(state.contexts)
  BY EventsCounted DEF Typed
<1>2. CASE W = {}
  <2>1. r = state
    BY <1>2 DEF ContextEvents
  <2> QED BY <1>1, <1>2, <2>1
<1>3. CASE W # {}
  <2>1. Q \subseteq Watched /\ IsFiniteSet(Q)
    <3>1. Q \subseteq W
      BY DEF Queueable
    <3>2. IsFiniteSet(Watched)
      BY DEF RefreshAssumption
    <3> QED BY <3>1, <3>2, FS_Subset
  <2>2. IsFiniteSet(E) /\ E \subseteq T
    <3>1. DEFINE g == [w \in Q |-> [file |-> w, own |-> TRUE]]
    <3>2. g \in Surjection(Q, E)
      BY DEF Surjection
    <3>3. IsFiniteSet(E)
      BY <2>1, <3>2, FS_Surjection
    <3>4. ASSUME NEW z \in E PROVE z \in T
      <4>1. PICK w \in Q : z = [file |-> w, own |-> TRUE]
        OBVIOUS
      <4>2. w \in Watched /\ TRUE \in BOOLEAN
        BY <2>1
      <4> QED BY <4>1, <4>2
    <3> QED BY <3>3, <3>4
  <2> HIDE DEF E, T, Q
  <2>3. /\ Cardinality(E) \in Nat /\ q \in [1..Cardinality(E) -> E]
        /\ \A z \in E : \E i \in 1..Cardinality(E) : q[i] = z
    BY <2>2, SetToSeqOnto
  <2> HIDE DEF q
  <2>4. q \in Seq(T) /\ Len(q) = Cardinality(E) /\ DOMAIN q = 1..Len(q)
    <3>1. q \in [1..Cardinality(E) -> T]
      BY <2>2, <2>3
    <3>2. q \in Seq(T)
      BY <2>3, <3>1
    <3>3. Len(q) \in Nat /\ DOMAIN q = 1..Len(q)
      BY <3>2, LenProperties
    <3>4. Len(q) = Cardinality(E)
      BY <2>3, <3>1, <3>3
    <3> QED BY <3>2, <3>3, <3>4
  <2>5. r = [state EXCEPT !.contexts = state.contexts \o q]
    BY <1>3 DEF ContextEvents, q, E, Q
  <2>6. DOMAIN r = Fields /\ r.contexts = state.contexts \o q
    BY <2>5 DEF Fields
  <2>7. /\ r.contexts \in Seq(T) /\ Len(r.contexts) = Len(state.contexts) + Len(q)
        /\ \A i \in 1..Len(r.contexts) : r.contexts[i] =
             IF i <= Len(state.contexts) THEN state.contexts[i] ELSE q[i - Len(state.contexts)]
    <3>1. PICK c : c = state.contexts
      OBVIOUS
    <3>2. c \in Seq(T) /\ r.contexts = c \o q
      BY <1>1, <2>6, <3>1
    <3>3. /\ c \o q \in Seq(T) /\ Len(c \o q) = Len(c) + Len(q)
          /\ \A i \in 1..Len(c) + Len(q) : (c \o q)[i] = IF i <= Len(c) THEN c[i] ELSE q[i - Len(c)]
      BY <2>4, <3>2, ConcatProperties
    <3> QED BY <3>1, <3>2, <3>3
  <2>8. DOMAIN r.contexts = 1..Len(r.contexts) /\ Len(q) \in Nat
    BY <2>3, <2>4, <2>7, LenProperties
  <2>9. \A i \in DOMAIN state.contexts : i \in DOMAIN r.contexts
                                        /\ r.contexts[i] = state.contexts[i]
    BY <1>1, <2>7, <2>8
  <2>10. ASSUME ~state.disposed, NEW w \in W, FolderOf[w] \in state.marked
         PROVE  \E i \in DOMAIN r.contexts : r.contexts[i].file = w
    <3>1. w \in Q
      BY <2>10 DEF Q, Queueable
    <3>2. [file |-> w, own |-> TRUE] \in E
      BY <3>1 DEF E
    <3>3. PICK i \in 1..Cardinality(E) : q[i] = [file |-> w, own |-> TRUE]
      BY <2>3, <3>2
    <3>4. /\ Len(state.contexts) + i \in 1..Len(r.contexts)
          /\ ~(Len(state.contexts) + i <= Len(state.contexts))
          /\ Len(state.contexts) + i - Len(state.contexts) = i
      BY <1>1, <2>4, <2>7, <2>8
    <3>5. r.contexts[Len(state.contexts) + i] = q[i]
      <4>1. \A j \in 1..Len(r.contexts) : ~(j <= Len(state.contexts)) =>
              r.contexts[j] = q[j - Len(state.contexts)]
        BY <2>7
      <4> QED BY <3>4, <4>1
    <3> QED BY <2>8, <3>3, <3>4, <3>5
  <2>11. Len(r.contexts) \in Nat /\ Len(state.contexts) <= Len(r.contexts)
    BY <1>1, <2>7, <2>8
  <2>12. /\ r.flush = state.flush /\ r.scans = state.scans
         /\ r.marked = state.marked /\ r.complete = state.complete
         /\ r.disposed = state.disposed /\ r.pendingFiles = state.pendingFiles
         /\ r.shown = state.shown /\ r.fingerprint = state.fingerprint
         /\ r.folderSeen = state.folderSeen
    BY <2>5 DEF Fields
  <2> QED BY <1>1, <2>6, <2>7, <2>8, <2>9, <2>10, <2>11, <2>12 DEF T
<1> QED BY <1>2, <1>3

\* A file changes, or an event is delivered: a file whose version moved has an event to
\* come, and no event of a marked root is lost.
LEMMA WorldFresh ==
  ASSUME FilesInv, Sound(e'), DiskOK', happened' \in {happened, happened + 1},
         e'.scans = e.scans, e'.marked = e.marked, e'.complete = e.complete,
         e'.pendingFiles = e.pendingFiles, e'.shown = e.shown,
         e'.fingerprint = e.fingerprint, e'.folderSeen = e.folderSeen, e'.flush = e.flush,
         e'.contexts \in Seq([file : Watched, own : BOOLEAN]),
         Len(e.contexts) \in Nat, Len(e'.contexts) \in Nat, Len(e.contexts) <= Len(e'.contexts),
         \A x \in Files : \/ disk'[x] = disk[x]
                          \/ disk'[x] = happened + 2 /\ x \in undelivered',
         \A x \in Files : FolderOf[x] \in e.marked /\ Announced(e, x) =>
           x \in undelivered' \/ \E i \in DOMAIN e'.contexts : e'.contexts[i].file = x
  PROVE  FilesInv'
<1>1. DiskOK /\ Fresh(e) /\ \A x \in Files : Current(e, x)
  BY DEF FilesInv
<1>2. Files \subseteq Watched
  BY DEF Watched
<1>3. \A x \in Files : disk[x] \in Int /\ disk'[x] \in Int /\ disk[x] < happened + 2
  BY <1>1, <1>2 DEF DiskOK
<1>4. ASSUME NEW x \in Files, disk'[x] # disk[x]
      PROVE  Noticed(e, x)' /\ e'.fingerprint[x] # disk'[x] /\ disk[x] <= disk'[x]
  <2>1. disk'[x] = happened + 2 /\ x \in undelivered'
    BY <1>4
  <2>2. e.fingerprint[x] < happened + 2 /\ e.folderSeen[x] < happened + 2
    BY <1>1 DEF Fresh, Typed
  <2>3. e.fingerprint[x] \in Int /\ e.folderSeen[x] \in Int /\ happened \in Nat
    BY <1>1, <1>2 DEF Fresh, Typed, DiskOK
  <2>4. e'.fingerprint[x] # disk'[x] /\ e'.folderSeen[x] # disk'[x]
    BY <2>1, <2>2, <2>3
  <2>5. disk[x] <= disk'[x]
    BY <1>3, <2>1, <2>3
  <2> QED BY <2>1, <2>4, <2>5 DEF Noticed, Announced
<1>5. ASSUME NEW x \in Files, FolderOf[x] \in e.marked, Noticed(e, x)
      PROVE  Noticed(e, x)'
  BY <1>4, <1>5 DEF Noticed, Announced
<1>6. Sound(e)'
  BY DEF Sound, FieldsOK, FlushOK, Armed, Silenced, RequestOK
<1>7. Typed(e)'
  <2>1. /\ e.shown \in [Files -> Int] /\ e.fingerprint \in [Files -> Int]
        /\ e.folderSeen \in [Watched -> Int] /\ e.flush.selected \in [Watched -> Int]
    BY <1>1 DEF Fresh, Typed
  <2>2. ASSUME NEW x \in Files
        PROVE  e'.fingerprint[x] < happened' + 2 /\ e'.folderSeen[x] < happened' + 2
    <3>1. e.fingerprint[x] < happened + 2 /\ e.folderSeen[x] < happened + 2
      BY <1>1 DEF Fresh, Typed
    <3>2. e.fingerprint[x] \in Int /\ e.folderSeen[x] \in Int /\ happened \in Nat
      BY <1>1, <1>2, <2>1 DEF DiskOK
    <3> QED BY <3>1, <3>2
  <2> QED BY <2>1, <2>2 DEF Typed
<1>8. ScansFresh(e)'
  <2>1. ASSUME NEW s \in e.scans PROVE ReadsOK(e, s)'
    <3>1. ReadsOK(e, s)
      BY <1>1 DEF Fresh, ScansFresh
    <3>2. \A x \in Files : s.read[x] <= disk'[x]
      <4> SUFFICES ASSUME NEW x \in Files PROVE s.read[x] <= disk'[x]
        OBVIOUS
      <4>1. s.read[x] <= disk[x] /\ s.read[x] \in Int
        BY <1>2, <3>1 DEF ReadsOK
      <4>2. disk[x] <= disk'[x]
        BY <1>3, <1>4
      <4> QED BY <1>3, <4>1, <4>2
    <3> QED BY <3>1, <3>2 DEF ReadsOK
  <2>2. ASSUME NEW s \in e.scans PROVE TurnsOK(e, s)'
    <3>1. TurnsOK(e, s)
      BY <1>1 DEF Fresh, ScansFresh
    <3> QED BY <3>1 DEF TurnsOK
  <2>3. ASSUME NEW s \in e.scans, NEW x \in Files PROVE Waits(e, s, x)'
    <3> SUFFICES ASSUME s.phase = "settle", ~s.changed, x \in s.accepted, s.read[x] # disk'[x]
                 PROVE  /\ e'.fingerprint[x] # disk'[x]
                        /\ \/ \E v \in Versions : <<x, v>> \in s.told /\ v # s.read[x]
                           \/ Noticed(e, x)'
      BY DEF Waits
    <3>1. CASE disk'[x] # disk[x]
      BY <1>4, <3>1
    <3>2. CASE disk'[x] = disk[x]
      <4>1. Waits(e, s, x)
        BY <1>1 DEF Fresh, ScansFresh
      <4>2. FolderOf[x] \in e.marked
        BY <1>1, AcceptedIsMarked
      <4> QED BY <1>5, <3>2, <4>1, <4>2 DEF Waits
    <3> QED BY <3>1, <3>2
  <2>4. /\ \A s, t \in e.scans : Ordered(s, t)
        /\ \A s, t \in e.scans : s.kind = "files" /\ t.kind = "files" => s = t
        /\ \E n \in Nat : \A s \in e.scans : s.turn <= n
    BY <1>1 DEF Fresh, ScansFresh
  <2> QED BY <2>1, <2>2, <2>3, <2>4 DEF ScansFresh, Ordered
<1>9. ASSUME NEW x \in Files PROVE Current(e, x)'
  <2>1. CASE disk'[x] # disk[x]
    BY <1>4, <2>1 DEF Current
  <2>2. CASE disk'[x] = disk[x]
    <3>1. Current(e, x)
      BY <1>1
    <3>2. Working(e, x) => Working(e, x)'
      BY DEF Working, InBatch, Held
    <3> QED BY <1>5, <2>2, <3>1, <3>2 DEF Current
  <2> QED BY <2>1, <2>2
<1> QED BY <1>6, <1>7, <1>8, <1>9 DEF FilesInv, Fresh

\* An edit is announced by an event that is still to be delivered.
LEMMA EditFresh ==
  ASSUME RefreshAssumption, FilesInv, NEW w \in Watched, Edit(w)
  PROVE  FilesInv'
<1>1. DiskOK /\ Fresh(e)
  BY DEF FilesInv
<1>2. /\ disk' = [disk EXCEPT ![w] = happened + 2] /\ undelivered' = undelivered \cup {w}
      /\ e' = e /\ happened' = happened + 1 /\ happened < MaxEvents
  BY DEF Edit, Happens
<1>3. happened \in Nat /\ disk \in [Watched -> Int] /\ Files \subseteq Watched
  BY <1>1 DEF DiskOK, Watched
<1>4. DiskOK'
  <2>1. disk' \in [Watched -> Int] /\ happened' \in Nat
    BY <1>2, <1>3
  <2>2. happened' <= MaxEvents
    BY <1>2, <1>3 DEF RefreshAssumption
  <2>3. ASSUME NEW v \in Watched PROVE 0 < disk'[v] /\ disk'[v] < happened' + 2
    <3>1. 0 < disk[v] /\ disk[v] < happened + 2
      BY <1>1 DEF DiskOK
    <3> QED BY <1>2, <1>3, <3>1
  <2> QED BY <2>1, <2>2, <2>3 DEF DiskOK
<1>5. \A x \in Files : disk'[x] = disk[x] \/ (disk'[x] = happened + 2 /\ x \in undelivered')
  <2> SUFFICES ASSUME NEW x \in Files
               PROVE  disk'[x] = disk[x] \/ (disk'[x] = happened + 2 /\ x \in undelivered')
    OBVIOUS
  <2>1. CASE x = w
    BY <1>2, <1>3, <2>1
  <2>2. CASE x # w
    <3>1. x \in Watched
      BY <1>3
    <3>2. disk'[x] = disk[x]
      BY <1>2, <1>3, <2>2, <3>1
    <3> QED BY <3>2
  <2> QED BY <2>1, <2>2
<1>6. /\ e.contexts \in Seq([file : Watched, own : BOOLEAN]) /\ Len(e.contexts) \in Nat
      /\ Len(e.contexts) <= Len(e.contexts)
  BY <1>1, EventsCounted DEF Fresh, Typed
<1>7. \A x \in Files : Announced(e, x) =>
        x \in undelivered' \/ \E i \in DOMAIN e'.contexts : e'.contexts[i].file = x
  BY <1>2 DEF Announced
<1>8. Sound(e')
  BY <1>1, <1>2 DEF Fresh
<1> QED BY <1>2, <1>4, <1>5, <1>6, <1>7, <1>8, WorldFresh

\* A delivered event waits in the queue of the contexts.
LEMMA DeliverFresh ==
  ASSUME RefreshAssumption, FilesInv, NEW w \in Watched, Deliver(w)
  PROVE  FilesInv'
<1>1. DiskOK /\ Fresh(e)
  BY DEF FilesInv
<1>2. /\ undelivered' = undelivered \ {w} /\ e' = ContextEvents(e, {w})
      /\ disk' = disk /\ happened' = happened
  BY DEF Deliver
<1>3. /\ e'.flush = e.flush /\ e'.scans = e.scans
      /\ e'.marked = e.marked /\ e'.complete = e.complete
      /\ e'.disposed = e.disposed /\ e'.pendingFiles = e.pendingFiles
      /\ e'.shown = e.shown /\ e'.fingerprint = e.fingerprint
      /\ e'.folderSeen = e.folderSeen
      /\ e'.contexts \in Seq([file : Watched, own : BOOLEAN])
      /\ Len(e.contexts) \in Nat /\ Len(e'.contexts) \in Nat
      /\ Len(e.contexts) <= Len(e'.contexts)
      /\ \A i \in DOMAIN e.contexts : i \in DOMAIN e'.contexts
                                      /\ e'.contexts[i] = e.contexts[i]
      /\ ~e.disposed => (FolderOf[w] \in e.marked =>
           \E i \in DOMAIN e'.contexts : e'.contexts[i].file = w)
  <2>1. DOMAIN e = Fields /\ Typed(e) /\ {w} \in SUBSET Watched
    BY <1>1 DEF Fresh, Sound, FieldsOK
  <2>2. PICK W \in SUBSET Watched : W = {w}
    BY <2>1
  <2>3. e' = ContextEvents(e, W) /\ w \in W
    BY <1>2, <2>2
  <2>4. /\ e'.flush = e.flush /\ e'.scans = e.scans
        /\ e'.marked = e.marked /\ e'.complete = e.complete
        /\ e'.disposed = e.disposed /\ e'.pendingFiles = e.pendingFiles
        /\ e'.shown = e.shown /\ e'.fingerprint = e.fingerprint
        /\ e'.folderSeen = e.folderSeen
    BY <2>1, <2>3, EventsGrow
  <2>5. /\ e'.contexts \in Seq([file : Watched, own : BOOLEAN])
        /\ Len(e.contexts) \in Nat /\ Len(e'.contexts) \in Nat
        /\ Len(e.contexts) <= Len(e'.contexts)
    BY <2>1, <2>3, EventsGrow
  <2>7. \A i \in DOMAIN e.contexts : i \in DOMAIN e'.contexts
                                   /\ e'.contexts[i] = e.contexts[i]
    BY <2>1, <2>3, EventsGrow
  <2>6. ~e.disposed => (FolderOf[w] \in e.marked =>
           \E i \in DOMAIN e'.contexts : e'.contexts[i].file = w)
    BY <2>1, <2>3, EventsGrow
  <2> QED BY <2>4, <2>5, <2>6, <2>7
<1>4. Sound(e')
  BY <1>1, <1>2, EventsKeep DEF Keeps, Fresh
<1>5. DiskOK'
  BY <1>1, <1>2 DEF DiskOK
<1>6. ASSUME NEW x \in Files, FolderOf[x] \in e.marked, Announced(e, x)
      PROVE  x \in undelivered' \/ \E i \in DOMAIN e'.contexts : e'.contexts[i].file = x
  <2>1. ~e.disposed
    BY <1>1, <1>6 DEF Fresh, Sound, Silenced
  <2>2. CASE x = w
    BY <1>3, <1>6, <2>1, <2>2
  <2>3. CASE x # w
    BY <1>2, <1>3, <1>6, <2>3 DEF Announced
  <2> QED BY <2>2, <2>3
<1>7. \A x \in Files : disk'[x] = disk[x] /\ happened' \in {happened, happened + 1}
  BY <1>2
<1> QED BY <1>2, <1>3, <1>4, <1>5, <1>6, <1>7, WorldFresh

\* Requests of some folders are revoked, and with them what those folders show: the other
\* requests keep what is known of them.
LEMMA RevokedFresh ==
  ASSUME NEW state, Fresh(state), NEW old \in SUBSET state.scans, NEW r,
         \A s \in r.scans : s \in state.scans \ old \/
           \E t \in old : t.phase = "report" /\ s = [t EXCEPT !.live = FALSE],
         Len(state.contexts) \in Nat, Len(r.contexts) = Len(state.contexts),
         \A s \in state.scans \ old : s.kind # "document" /\ s.live => s.folder \in r.marked,
         \A s \in state.scans \ old, x \in Files : Waits(state, s, x) => Waits(r, s, x)
  PROVE  ScansFresh(r)
<1> DEFINE N == {s \in r.scans : \E t \in old : t.phase = "report" /\ s = [t EXCEPT !.live = FALSE]}
<1>1. \A s \in state.scans : RequestOK(s) /\ ReadsOK(state, s) /\ TurnsOK(state, s)
  BY DEF Fresh, Sound, FieldsOK, ScansFresh
<1>2. ASSUME NEW s \in N
      PROVE  \E t \in old : /\ t.phase = "report" /\ s.folder = t.folder /\ s.kind = t.kind
               /\ s.owner = t.owner /\ s.items = t.items /\ s.want = t.want
               /\ s.phase = t.phase /\ ~s.live /\ s.read = t.read /\ s.accepted = t.accepted
               /\ s.told = t.told /\ s.ahead = t.ahead /\ s.turn = t.turn
               /\ s.changed = t.changed
  <2>1. PICK t \in old : t.phase = "report" /\ s = [t EXCEPT !.live = FALSE]
    OBVIOUS
  <2> QED BY <1>1, <2>1, RevokedRequest
<1>3. r.scans \subseteq (state.scans \ old) \cup N
  OBVIOUS
<1> HIDE DEF N
<1>4. \A s \in N : s.phase = "report" /\ ~s.live
  BY <1>2
<1>5. \A s \in N : ReadsOK(r, s) /\ TurnsOK(r, s)
  <2> SUFFICES ASSUME NEW s \in N PROVE ReadsOK(r, s) /\ TurnsOK(r, s)
    OBVIOUS
  <2>1. PICK t \in old : /\ t.phase = "report" /\ s.folder = t.folder /\ s.kind = t.kind
               /\ s.owner = t.owner /\ s.items = t.items /\ s.want = t.want
               /\ s.phase = t.phase /\ ~s.live /\ s.read = t.read /\ s.accepted = t.accepted
               /\ s.told = t.told /\ s.ahead = t.ahead /\ s.turn = t.turn
               /\ s.changed = t.changed
    BY <1>2
  <2>2. ReadsOK(state, t) /\ TurnsOK(state, t)
    BY <1>1, <2>1
  <2>3. ReadsOK(r, s)
    BY <2>1, <2>2 DEF ReadsOK
  <2>4. TurnsOK(r, s)
    BY <2>1, <2>2 DEF TurnsOK
  <2> QED BY <2>3, <2>4
<1>6. \A s \in N, x \in Files : Waits(r, s, x)
  BY <1>4 DEF Waits
<1>7. \A s \in N, t \in r.scans : Ordered(s, t) /\ Ordered(t, s)
  BY <1>4 DEF Ordered
<1>8. \E n \in Nat : \A s \in N : s.turn <= n
  <2>1. PICK n \in Nat : \A s \in state.scans : s.turn <= n
    BY DEF Fresh, ScansFresh
  <2> QED BY <1>2, <2>1
<1>9. \A s, t \in r.scans : s.kind = "files" /\ t.kind = "files" => s = t
  <2> SUFFICES ASSUME NEW s \in r.scans, NEW t \in r.scans, s.kind = "files", t.kind = "files"
               PROVE  s = t
    OBVIOUS
  <2>1. \A a, b \in state.scans : a.kind = "files" /\ b.kind = "files" => a = b
    BY DEF Fresh, ScansFresh
  <2>2. CASE s \notin N /\ t \notin N
    BY <1>3, <2>1, <2>2
  <2>3. CASE s \in N /\ t \in N
    <3>1. PICK a \in old : a.phase = "report" /\ s = [a EXCEPT !.live = FALSE]
      BY <2>3 DEF N
    <3>2. PICK b \in old : b.phase = "report" /\ t = [b EXCEPT !.live = FALSE]
      BY <2>3 DEF N
    <3>3. a.kind = "files" /\ b.kind = "files"
      BY <1>1, <3>1, <3>2, RevokedRequest
    <3> QED BY <2>1, <3>1, <3>2, <3>3
  <2>4. ASSUME NEW u \in N, u.kind = "files", NEW v \in state.scans \ old, v.kind = "files"
        PROVE  FALSE
    <3>1. PICK a \in old : a.kind = u.kind
      BY <1>2, <2>4
    <3> QED BY <2>1, <2>4, <3>1
  <2> QED BY <1>3, <2>2, <2>3, <2>4
<1>10. \A s \in r.scans \cap state.scans :
         s.kind # "document" /\ s.live => s.folder \in r.marked
  BY <1>3, <1>4
<1>11. \A s \in r.scans \cap state.scans, x \in Files : Waits(state, s, x) => Waits(r, s, x)
  BY <1>3, <1>6
<1>12. /\ Len(r.contexts) \in Nat /\ Len(state.contexts) <= Len(r.contexts)
       /\ r.scans \subseteq state.scans \cup N
  BY <1>3
<1> QED BY <1>5, <1>6, <1>7, <1>8, <1>9, <1>10, <1>11, <1>12, ScansMove

\* Setting the owner of some events changes neither their number nor their files.
LEMMA EventsOwned ==
  ASSUME NEW state, Typed(state), NEW c, DOMAIN c = DOMAIN state.contexts,
         c = [i \in DOMAIN c |-> c[i]],
         \A i \in DOMAIN state.contexts : /\ c[i] \in [file : Watched, own : BOOLEAN]
                                           /\ c[i].file = state.contexts[i].file
  PROVE  /\ c \in Seq([file : Watched, own : BOOLEAN])
         /\ Len(c) = Len(state.contexts) /\ Len(state.contexts) \in Nat
         /\ \A i \in DOMAIN c : c[i].file = state.contexts[i].file
<1> DEFINE T == [file : Watched, own : BOOLEAN]
           n == Len(state.contexts)
<1>1. /\ n \in Nat /\ DOMAIN state.contexts = 1..n
      /\ \A i \in 1..n : state.contexts[i] \in T
  BY EventsCounted
<1>2. \A i \in 1..n : c[i] \in T /\ c[i].file = state.contexts[i].file
  BY <1>1
<1>3. c \in [1..n -> T]
  BY <1>1, <1>2
<1> HIDE DEF T, n
<1>4. c \in Seq(T) /\ Len(c) = n
  BY <1>1, <1>3, LenProperties
<1> QED BY <1>1, <1>2, <1>4 DEF T, n

\* A root is marked or unmarked: what its folder shows and has seen is gone, and so are
\* its requests; the other folders notice nothing.
LEMMA MoveRootFresh ==
  ASSUME RefreshAssumption, FilesInv, Sound(e'), NEW f \in Folders, MoveRoot(f)
  PROVE  FilesInv'
<1> DEFINE moved == [e EXCEPT !.marked = (@ \ {f}) \cup ({f} \ @)]
           old == {s \in e.scans : s.folder = f /\ ~(s.kind = "document" /\ s.phase = "waiting")}
           dropped == Revoke(moved, old)
           own == [i \in DOMAIN e.contexts |->
             IF FolderOf[e.contexts[i].file] = f THEN [e.contexts[i] EXCEPT !.own = FALSE]
             ELSE e.contexts[i]]
<1>1. DiskOK /\ Fresh(e) /\ \A x \in Files : Current(e, x)
  BY DEF FilesInv
<1>2. DOMAIN e = Fields /\ DOMAIN e.flush = FlushFields
  BY <1>1 DEF Fresh, Sound, FieldsOK, FlushOK
<1>3. /\ DOMAIN moved = Fields /\ moved.marked = (e.marked \ {f}) \cup ({f} \ e.marked)
      /\ moved.scans = e.scans /\ moved.flush = e.flush /\ moved.complete = e.complete
      /\ moved.pendingFiles = e.pendingFiles /\ moved.shown = e.shown
      /\ moved.fingerprint = e.fingerprint /\ moved.folderSeen = e.folderSeen
      /\ moved.contexts = e.contexts
  BY <1>2 DEF Fields
<1> HIDE DEF moved
<1>4. /\ DOMAIN dropped = Fields /\ dropped.marked = moved.marked
      /\ dropped.scans = (e.scans \ old)
           \cup {[s EXCEPT !.live = FALSE] : s \in {t \in old : t.phase = "report"}}
      /\ dropped.flush = e.flush /\ dropped.complete = e.complete
      /\ dropped.pendingFiles = e.pendingFiles /\ dropped.shown = e.shown
      /\ dropped.fingerprint = e.fingerprint /\ dropped.folderSeen = e.folderSeen
      /\ dropped.contexts = e.contexts
  <2> HIDE DEF old
  <2> QED BY <1>3 DEF Revoke, Fields
<1>5. dropped = Revoke(moved, {s \in moved.scans : s.folder = f /\
                   ~(s.kind = "document" /\ s.phase = "waiting")})
  BY <1>3
<1> HIDE DEF dropped
<1>6. e' = [dropped EXCEPT
         !.folderSeen = [w \in Watched |-> IF FolderOf[w] = f THEN Nil ELSE @[w]],
         !.known = @ \ In(f, Items),
         !.sourceSeen = [x \in Items |-> IF FolderOf[x] = f THEN Blank ELSE @[x]],
         !.contexts = [i \in DOMAIN @ |->
            IF FolderOf[@[i].file] = f THEN [@[i] EXCEPT !.own = FALSE] ELSE @[i]],
         !.flush.rooted = @ \ {f},
         !.complete = @ \ {f},
         !.shown = [x \in Files |-> IF FolderOf[x] = f THEN Nil ELSE @[x]],
         !.document = [d \in Documents |-> IF FolderOf[d] = f THEN "none" ELSE @[d]],
         !.pendingRefresh = @ \cup {f},
         !.refreshTimer = "folders"]
  <2>1. e' = RefreshFolders(moved, f)
    BY DEF MoveRoot, moved
  <2> QED BY <1>5, <2>1 DEF RefreshFolders
<1>7. /\ e'.marked = moved.marked /\ e'.scans = dropped.scans
      /\ e'.complete = e.complete \ {f} /\ e'.pendingFiles = e.pendingFiles
      /\ e'.fingerprint = e.fingerprint
      /\ e'.shown = [x \in Files |-> IF FolderOf[x] = f THEN Nil ELSE e.shown[x]]
      /\ e'.folderSeen = [w \in Watched |-> IF FolderOf[w] = f THEN Nil ELSE e.folderSeen[w]]
  BY <1>4, <1>6 DEF Fields
<1>8. e'.flush = [e.flush EXCEPT !.rooted = @ \ {f}]
  BY <1>4, <1>6 DEF Fields
<1>9. /\ e'.flush.todo = e.flush.todo /\ e'.flush.met = e.flush.met
      /\ e'.flush.rooted = e.flush.rooted \ {f} /\ e'.flush.admitted = e.flush.admitted
      /\ e'.flush.selected = e.flush.selected
  BY <1>2, <1>8 DEF FlushFields
<1>10. e'.contexts = own
  BY <1>4, <1>6 DEF Fields
<1>11. UNCHANGED <<disk, undelivered>> /\ Happens
  BY DEF MoveRoot
<1>12. /\ e'.contexts \in Seq([file : Watched, own : BOOLEAN])
       /\ Len(e'.contexts) = Len(e.contexts) /\ Len(e.contexts) \in Nat
       /\ DOMAIN e'.contexts = DOMAIN e.contexts
       /\ \A i \in DOMAIN e'.contexts : e'.contexts[i].file = e.contexts[i].file
  <2>1. DOMAIN own = DOMAIN e.contexts /\ own = [i \in DOMAIN own |-> own[i]]
    OBVIOUS
  <2>2. ASSUME NEW i \in DOMAIN e.contexts
        PROVE  own[i] \in [file : Watched, own : BOOLEAN] /\ own[i].file = e.contexts[i].file
    <3>1. e.contexts[i] \in [file : Watched, own : BOOLEAN]
      BY <1>1, EventsCounted DEF Fresh
    <3> QED BY <3>1
  <2> HIDE DEF own
  <2>3. /\ own \in Seq([file : Watched, own : BOOLEAN])
        /\ Len(own) = Len(e.contexts) /\ Len(e.contexts) \in Nat
        /\ \A i \in DOMAIN own : own[i].file = e.contexts[i].file
    <3>1. Typed(e)
      BY <1>1 DEF Fresh
    <3> QED BY <2>1, <2>2, <3>1, EventsOwned
  <2> QED BY <1>10, <2>1, <2>3
<1>13. Typed(e')
  <2>1. /\ e.shown \in [Files -> Int] /\ e.fingerprint \in [Files -> Int]
        /\ e.folderSeen \in [Watched -> Int] /\ e.flush.selected \in [Watched -> Int]
        /\ \A x \in Files : e.fingerprint[x] < happened + 2 /\ e.folderSeen[x] < happened + 2
    BY <1>1 DEF Fresh, Typed
  <2>2. e'.shown \in [Files -> Int] /\ e'.folderSeen \in [Watched -> Int]
    BY <1>7, <2>1 DEF Nil
  <2>3. \A x \in Files : e'.folderSeen[x] < happened + 2
    <3>1. happened \in Nat /\ Files \subseteq Watched
      BY <1>1 DEF DiskOK, Watched
    <3> QED BY <1>7, <2>1, <3>1 DEF Nil
  <2> QED BY <1>7, <1>9, <1>12, <2>1, <2>2, <2>3 DEF Typed
<1>14. ASSUME NEW x \in Files, FolderOf[x] # f, Noticed(e, x) PROVE Noticed(e', x)
  <2>1. e'.folderSeen[x] = e.folderSeen[x]
    BY <1>7, <1>14 DEF Watched
  <2> QED BY <1>12, <1>14, <2>1 DEF Noticed, Announced
<1>15. ScansFresh(e')
  <2>1. \A s \in e.scans \ old : s.kind # "document" /\ s.live => s.folder \in e'.marked
    <3> SUFFICES ASSUME NEW s \in e.scans \ old, s.kind # "document", s.live
                 PROVE  s.folder \in e'.marked
      OBVIOUS
    <3>1. s.folder \in e.marked
      BY <1>1 DEF Fresh, ScansFresh, ReadsOK
    <3> QED BY <1>3, <1>7, <3>1
  <2>2. \A s \in e.scans \ old, x \in Files : Waits(e, s, x) => Waits(e', s, x)
    <3> SUFFICES ASSUME NEW s \in e.scans \ old, NEW x \in Files, Waits(e, s, x),
                        s.phase = "settle", x \in s.accepted
                 PROVE  Waits(e', s, x)
      BY DEF Waits
    <3>1. FolderOf[x] = s.folder /\ s.kind # "document"
      BY <1>1, AcceptedIsMarked
    <3> QED BY <1>7, <1>14, <3>1 DEF Waits
  <2>3. old \in SUBSET e.scans
    OBVIOUS
  <2>4. \A s \in e'.scans : s \in e.scans \ old \/
          \E t \in old : t.phase = "report" /\ s = [t EXCEPT !.live = FALSE]
    <3> HIDE DEF old
    <3> QED BY <1>4, <1>7
  <2> HIDE DEF old
  <2> QED BY <1>1, <1>12, <2>1, <2>2, <2>3, <2>4, RevokedFresh
<1>16. ASSUME NEW x \in Files PROVE Current(e', x)
  <2>1. CASE FolderOf[x] = f
    BY <1>7, <2>1 DEF Current
  <2>2. CASE FolderOf[x] # f
    <3>1. InBatch(e, x) => InBatch(e', x)
      <4>1. \A s \in e.scans : s.kind = "files" /\ x \in s.items => s.folder # f
        BY <1>1, <2>2 DEF Fresh, ScansFresh, ReadsOK, In
      <4> QED BY <1>4, <1>7, <4>1 DEF InBatch
    <3>2. Held(e, FolderOf[x]) => Held(e', FolderOf[x])
      BY <1>9, <2>2 DEF Held
    <3>3. Working(e, x) => Working(e', x)
      BY <1>7, <1>9, <2>2, <3>1, <3>2 DEF Working
    <3>4. Current(e, x)
      BY <1>1
    <3> QED BY <1>3, <1>7, <1>14, <2>2, <3>3, <3>4 DEF Current
  <2> QED BY <2>1, <2>2
<1> QED BY <1>1, <1>11, <1>13, <1>15, <1>16, EditorKept DEF Fresh

\* After a disposal no folder is marked.
LEMMA DisposeFresh ==
  ASSUME RefreshAssumption, FilesInv, Sound(e'), Dispose
  PROVE  FilesInv'
<1> DEFINE quiet == Revoke(e, e.scans)
           own == [i \in DOMAIN e.contexts |-> [e.contexts[i] EXCEPT !.own = FALSE]]
<1>1. DiskOK /\ Fresh(e) /\ DOMAIN e = Fields
  BY DEF FilesInv, Fresh, Sound, FieldsOK
<1>2. /\ DOMAIN quiet = Fields /\ quiet.flush = e.flush /\ quiet.contexts = e.contexts
      /\ quiet.fingerprint = e.fingerprint
      /\ quiet.scans = (e.scans \ e.scans)
           \cup {[s EXCEPT !.live = FALSE] : s \in {t \in e.scans : t.phase = "report"}}
  BY <1>1 DEF Revoke, Fields
<1>3. e' = [quiet EXCEPT
       !.disposed = TRUE, !.marked = {}, !.refreshTimer = "none", !.fileTimer = FALSE,
       !.pendingFiles = [x \in Items |-> "no"], !.complete = {},
       !.shown = [x \in Files |-> Nil], !.document = [d \in Documents |-> "none"],
       !.folderSeen = Blank, !.known = {}, !.sourceSeen = [x \in Items |-> Blank],
       !.contexts = [i \in DOMAIN @ |-> [@[i] EXCEPT !.own = FALSE]]]
  BY DEF Dispose
<1> HIDE DEF quiet
<1>4. /\ e'.marked = {} /\ e'.scans = quiet.scans /\ e'.flush = e.flush
      /\ e'.fingerprint = e.fingerprint /\ e'.shown = [x \in Files |-> Nil]
      /\ e'.folderSeen = Blank /\ e'.contexts = own
  BY <1>2, <1>3 DEF Fields
<1>5. /\ e'.contexts \in Seq([file : Watched, own : BOOLEAN])
      /\ Len(e'.contexts) = Len(e.contexts) /\ Len(e.contexts) \in Nat
  <2>1. DOMAIN own = DOMAIN e.contexts /\ own = [i \in DOMAIN own |-> own[i]]
    OBVIOUS
  <2>2. ASSUME NEW i \in DOMAIN e.contexts
        PROVE  own[i] \in [file : Watched, own : BOOLEAN] /\ own[i].file = e.contexts[i].file
    <3>1. e.contexts[i] \in [file : Watched, own : BOOLEAN]
      BY <1>1, EventsCounted DEF Fresh
    <3> QED BY <3>1
  <2> HIDE DEF own
  <2>3. Typed(e)
    BY <1>1 DEF Fresh
  <2>4. /\ own \in Seq([file : Watched, own : BOOLEAN])
        /\ Len(own) = Len(e.contexts) /\ Len(e.contexts) \in Nat
    BY <2>1, <2>2, <2>3, EventsOwned
  <2> QED BY <1>4, <2>4
<1>6. Typed(e')
  <2>1. /\ e.fingerprint \in [Files -> Int] /\ e.flush.selected \in [Watched -> Int]
        /\ \A x \in Files : e.fingerprint[x] < happened + 2
    BY <1>1 DEF Fresh, Typed
  <2>2. e'.shown \in [Files -> Int] /\ e'.folderSeen \in [Watched -> Int]
    BY <1>4 DEF Nil, Blank
  <2>3. \A x \in Files : e'.folderSeen[x] < happened + 2
    BY <1>1, <1>4 DEF Nil, Blank, Watched, DiskOK
  <2> QED BY <1>4, <1>5, <2>1, <2>2, <2>3 DEF Typed
<1>7. ScansFresh(e')
  <2>1. \A s \in e'.scans : s \in e.scans \ e.scans \/
          \E t \in e.scans : t.phase = "report" /\ s = [t EXCEPT !.live = FALSE]
    BY <1>2, <1>4
  <2>2. PICK old \in SUBSET e.scans : old = e.scans
    OBVIOUS
  <2> QED BY <1>1, <1>5, <2>1, <2>2, RevokedFresh
<1>8. \A x \in Files : Current(e', x)
  BY <1>4 DEF Current
<1>9. UNCHANGED <<disk, undelivered, happened>>
  BY DEF Dispose
<1> QED BY <1>1, <1>6, <1>7, <1>8, <1>9, EditorKept DEF Fresh

-----------------------------------------------------------------------------
(* The timers, the user's checks and the flush.                            *)

\* The requests and what is shown are as before: only the flush did a step.
LEMMA StaysFresh ==
  ASSUME DiskOK, NEW state, Fresh(state), NEW r, Sound(r), Beside(state, r),
         r.scans = state.scans, r.flush.selected \in [Watched -> Int]
  PROVE  Fresh(r)
<1>1. Typed(r)
  BY DEF Fresh, Typed, Beside
<1>2. \A s \in r.scans : LeftOrAdded(state, s)
  BY DEF LeftOrAdded
<1>3. \A s, t \in r.scans : s.kind = "files" /\ t.kind = "files" => s = t
  BY DEF Fresh, ScansFresh
<1>4. ScansFresh(r)
  BY <1>2, <1>3, ScansStayFresh DEF Beside
<1> QED BY <1>1, <1>4 DEF Fresh

\* Neither the requests, the queue nor the files of the flush change.
LEMMA AsideTends ==
  ASSUME DiskOK, NEW state, Fresh(state), NEW r, Sound(r), Beside(state, r),
         SameFlush(state, r), r.scans = state.scans, r.pendingFiles = state.pendingFiles,
         r.complete = state.complete, r.disposed = state.disposed
  PROVE  Tends(state, r, {})
<1>1. Fresh(r)
  BY StaysFresh DEF Fresh, Typed, SameFlush
<1>2. ASSUME NEW x \in Files, Current(state, x) PROVE Current(r, x)
  <2>1. InBatch(state, x) => InBatch(r, x)
    BY DEF InBatch
  <2> QED BY <1>2, <2>1, StaysCurrent
<1> QED BY <1>1, <1>2 DEF Tends

\* What the user asks for adds requests for documents and folders.
LEMMA AskFresh ==
  ASSUME RefreshAssumption, FilesInv, Sound(e')
  PROVE  /\ \A d \in Documents : Activate(d) \/ CheckByUser(d) => FilesInv'
         /\ \A f \in Folders : CheckWorkspace(f) => FilesInv'
<1>1. DiskOK /\ Fresh(e)
  BY DEF FilesInv
<1>2. ASSUME NEW d \in Documents, Activate(d) PROVE FilesInv'
  <2> DEFINE opened == [e EXCEPT !.opening = @ \ {d}]
  <2>1. /\ Beside(e, opened) /\ opened.flush = e.flush /\ opened.scans = e.scans
        /\ opened.pendingFiles = e.pendingFiles /\ opened.complete = e.complete
        /\ opened.disposed = e.disposed
    BY <1>1 DEF Fresh, Sound, FieldsOK, Fields, Beside
  <2>2. SameView(e, opened)
    BY <1>1 DEF SameView, Fresh, Sound, FieldsOK, FlushOK, Fields
  <2>3. Sound(opened)
    BY <1>1, <2>2, ViewKeeps DEF Keeps, Fresh
  <2>4. e' = IF FolderOf[d] \in e.marked THEN CheckDocuments(opened, {d}, "other") ELSE opened
    BY <1>2 DEF Activate
  <2>5. UNCHANGED <<disk, undelivered, happened>>
    BY <1>2 DEF Activate
  <2> HIDE DEF opened
  <2>6. Tends(e, opened, {})
    BY <1>1, <2>1, <2>3, AsideTends DEF SameFlush
  <2>7. CASE FolderOf[d] \notin e.marked
    BY <2>4, <2>5, <2>6, <2>7, TendsKept
  <2>8. CASE FolderOf[d] \in e.marked
    <3>1. Fresh(opened) /\ ~opened.disposed /\ FolderOf[d] \in opened.marked
      BY <1>1, <2>1, <2>6, <2>8 DEF Tends, Beside, Fresh, Sound, Silenced
    <3>2. Tends(opened, e', {})
      BY <1>1, <2>4, <2>8, <3>1, CheckDocumentsTends
    <3> QED BY <2>5, <2>6, <3>2, TendsOn, TendsKept
  <2> QED BY <2>7, <2>8
<1>3. ASSUME NEW d \in Documents, CheckByUser(d) PROVE FilesInv'
  <2>1. /\ e' = CheckDocuments(e, {d}, "other") /\ FolderOf[d] \in e.marked
        /\ UNCHANGED <<disk, undelivered>> /\ Happens
    BY <1>3 DEF CheckByUser
  <2>2. ~e.disposed
    BY <1>1, <2>1 DEF Fresh, Sound, Silenced
  <2>3. Tends(e, e', {})
    BY <1>1, <2>1, <2>2, CheckDocumentsTends
  <2> QED BY <2>1, <2>3, TendsKept
<1>4. ASSUME NEW f \in Folders, CheckWorkspace(f) PROVE FilesInv'
  <2>1. /\ e' = CheckSaved(e, {f}, "other") /\ f \in e.marked
        /\ UNCHANGED <<disk, undelivered>> /\ Happens
    BY <1>4 DEF CheckWorkspace
  <2>2. ~e.disposed
    BY <1>1, <2>1 DEF Fresh, Sound, Silenced
  <2>3. Tends(e, e', {})
    BY <1>1, <2>1, <2>2, CheckSavedTends
  <2> QED BY <2>1, <2>3, TendsKept
<1> QED BY <1>2, <1>3, <1>4

\* The refresh timer adds requests for folders and for their documents.
LEMMA RefreshFiresFresh ==
  ASSUME RefreshAssumption, FilesInv, Sound(e'), RefreshFires
  PROVE  FilesInv'
<1> DEFINE due == e.pendingRefresh \cap e.marked
           fired == [e EXCEPT !.refreshTimer = "none", !.pendingRefresh = {}]
           scanned == CheckSaved(fired, due, "other")
           docs == {d \in Documents : FolderOf[d] \in due /\ e.document[d] # "current"}
<1>1. DiskOK /\ Fresh(e)
  BY DEF FilesInv
<1>2. ~e.disposed /\ docs \in SUBSET Documents
  BY <1>1 DEF RefreshFires, Fresh, Sound, Silenced
<1>3. /\ DOMAIN fired = Fields /\ fired.marked = e.marked /\ fired.disposed = e.disposed
      /\ fired.pendingRefresh = {} /\ fired.refreshTimer = "none"
      /\ fired.pendingFiles = e.pendingFiles /\ fired.fileTimer = e.fileTimer
      /\ fired.complete = e.complete /\ fired.scans = e.scans /\ fired.flush = e.flush
      /\ Beside(e, fired)
  BY <1>1 DEF Fresh, Sound, FieldsOK, Fields, Beside
<1>4. e' = scanned \/ e' = CheckDocuments(scanned, docs, "other")
  BY DEF RefreshFires
<1>5. UNCHANGED <<disk, undelivered, happened>>
  BY DEF RefreshFires
<1> HIDE DEF fired
<1>6. Sound(fired)
  <2>1. FieldsOK(fired) /\ FlushOK(fired) /\ Armed(fired)
    BY <1>1, <1>3 DEF Fresh, Sound, FieldsOK, FlushOK, Armed
  <2>2. Silenced(fired)
    BY <1>2, <1>3 DEF Silenced
  <2> QED BY <2>1, <2>2 DEF Sound
<1>7. Tends(e, fired, {})
  BY <1>1, <1>3, <1>6, AsideTends DEF SameFlush
<1>8. Tends(fired, scanned, {})
  <2>1. Fresh(fired) /\ ~fired.disposed /\ due \subseteq fired.marked
    BY <1>2, <1>3, <1>7 DEF Tends
  <2> HIDE DEF due
  <2> QED BY <1>1, <2>1, CheckSavedTends
<1>9. /\ Fresh(scanned) /\ ~scanned.disposed /\ scanned.marked = e.marked
  BY <1>2, <1>3, <1>7, <1>8 DEF Tends, Beside
<1>10. \A d \in docs : FolderOf[d] \in scanned.marked
  <2> HIDE DEF scanned
  <2> QED BY <1>9
<1> HIDE DEF scanned, docs
<1>11. Tends(scanned, CheckDocuments(scanned, docs, "other"), {})
  BY <1>1, <1>2, <1>9, <1>10, CheckDocumentsTends
<1>12. Tends(e, e', {})
  BY <1>4, <1>7, <1>8, <1>11, TendsOn
<1> QED BY <1>5, <1>12, TendsKept

\* The timer of the files starts a flush; the flush of a document is over at once.
LEMMA TimerFresh ==
  ASSUME RefreshAssumption, FilesInv, Sound(e'), FileTimerFires \/ FlushDocument
  PROVE  FilesInv'
<1>1. DiskOK /\ Fresh(e) /\ DOMAIN e = Fields /\ DOMAIN e.flush = FlushFields
  BY DEF FilesInv, Fresh, Sound, FieldsOK, FlushOK
<1>2. /\ UNCHANGED <<disk, undelivered, happened>> /\ Beside(e, e') /\ SameFlush(e, e')
      /\ e'.scans = e.scans /\ e'.pendingFiles = e.pendingFiles
      /\ e'.complete = e.complete /\ e'.disposed = e.disposed
  <2>1. CASE FileTimerFires
    <3>1. CASE e.flush.phase # "idle"
      <4>1. e' = [e EXCEPT !.fileTimer = FALSE] /\ UNCHANGED <<disk, undelivered, happened>>
        BY <2>1, <3>1 DEF FileTimerFires
      <4> QED BY <1>1, <4>1 DEF Beside, SameFlush, Fields
    <3>2. CASE e.flush.phase = "idle"
      <4>1. /\ e' = [e EXCEPT !.fileTimer = FALSE, !.flush.phase = "context",
                              !.flush.ahead = Len(e.contexts)]
            /\ UNCHANGED <<disk, undelivered, happened>>
        BY <2>1, <3>2 DEF FileTimerFires
      <4> QED BY <1>1, <4>1 DEF Beside, SameFlush, Fields, FlushFields
    <3> QED BY <3>1, <3>2
  <2>2. CASE FlushDocument
    BY <1>1, <2>2 DEF FlushDocument, Beside, SameFlush, Fields, FlushFields
  <2> QED BY <2>1, <2>2
<1>3. Tends(e, e', {})
  BY <1>1, <1>2, AsideTends
<1> QED BY <1>2, <1>3, TendsKept

\* The flush takes what is queued: it has met no folder yet.
LEMMA FlushTakeFresh ==
  ASSUME RefreshAssumption, FilesInv, Sound(e'), FlushTake
  PROVE  FilesInv'
<1>1. /\ DiskOK /\ Fresh(e) /\ DOMAIN e = Fields /\ DOMAIN e.flush = FlushFields
      /\ \A x \in Files : Current(e, x)
  BY DEF FilesInv, Fresh, Sound, FieldsOK, FlushOK
<1>2. UNCHANGED <<disk, undelivered, happened>> /\ e.flush.phase = "context"
  BY DEF FlushTake
<1>3. e.flush.met = {} /\ \A x \in Items : e.flush.todo[x] = "no"
  BY <1>1, <1>2 DEF Fresh, Sound, FlushOK
<1>4. CASE e.disposed
  <2>1. e' = [e EXCEPT !.flush = IdleFlush]
    BY <1>4 DEF FlushTake
  <2>2. Beside(e, e') /\ e'.scans = e.scans /\ e'.flush = IdleFlush
    BY <1>1, <2>1 DEF Beside, Fields
  <2>3. e'.flush.selected \in [Watched -> Int]
    BY <2>2 DEF IdleFlush, Blank, Nil
  <2>4. \A x \in Files : Current(e', x)
    BY <1>1, <1>4, <2>2 DEF Current, Beside, Fresh, Sound, Silenced
  <2> QED BY <1>1, <1>2, <2>2, <2>3, <2>4, StaysFresh, EditorKept
<1>5. CASE ~e.disposed
  <2>1. e' = [e EXCEPT !.flush.phase = "files", !.flush.todo = e.pendingFiles,
                       !.pendingFiles = [x \in Items |-> "no"]]
    BY <1>5 DEF FlushTake
  <2>2. /\ Beside(e, e') /\ e'.scans = e.scans /\ e'.complete = e.complete
        /\ e'.flush = [e.flush EXCEPT !.phase = "files", !.todo = e.pendingFiles]
    BY <1>1, <2>1 DEF Beside, Fields
  <2>3. /\ e'.flush.todo = e.pendingFiles /\ e'.flush.met = {}
        /\ e'.flush.selected = e.flush.selected
    BY <1>1, <1>3, <2>2 DEF FlushFields
  <2>4. e'.flush.selected \in [Watched -> Int]
    BY <1>1, <2>3 DEF Fresh, Typed
  <2>5. ASSUME NEW x \in Files PROVE Current(e', x)
    <3>1. Current(e, x) /\ e.flush.todo[x] = "no"
      BY <1>1, <1>3 DEF Items
    <3>2. InBatch(e, x) => InBatch(e', x)
      BY <2>2 DEF InBatch
    <3>3. Held(e', FolderOf[x])
      BY <2>3 DEF Held
    <3>4. Working(e, x) => Working(e', x)
      BY <1>3, <2>3, <3>1, <3>2, <3>3 DEF Working
    <3> QED BY <2>2, <3>1, <3>4 DEF Current, Beside, Noticed, Announced
  <2> QED BY <1>1, <1>2, <2>2, <2>4, <2>5, StaysFresh, EditorKept
<1> QED BY <1>4, <1>5

\* The flush ends when it has nothing left.
LEMMA FlushEndsFresh ==
  ASSUME RefreshAssumption, FilesInv, Sound(e'), FlushEnds
  PROVE  FilesInv'
<1>1. /\ DiskOK /\ Fresh(e) /\ DOMAIN e = Fields /\ \A x \in Files : Current(e, x)
  BY DEF FilesInv, Fresh, Sound, FieldsOK
<1>2. /\ UNCHANGED <<disk, undelivered, happened>> /\ e.flush.met = {}
      /\ \A x \in Items : e.flush.todo[x] = "no"
      /\ e' = [e EXCEPT !.flush = IdleFlush, !.fileTimer = @ \/ Waiting]
  BY DEF FlushEnds, FlushFree
<1>3. /\ Beside(e, e') /\ e'.scans = e.scans /\ e'.flush = IdleFlush
      /\ e'.complete = e.complete /\ e'.pendingFiles = e.pendingFiles
  BY <1>1, <1>2 DEF Beside, Fields
<1>4. e'.flush.selected \in [Watched -> Int]
  BY <1>3 DEF IdleFlush, Blank, Nil
<1>5. ASSUME NEW x \in Files PROVE Current(e', x)
  <2>1. Current(e, x) /\ e.flush.todo[x] = "no"
    BY <1>1, <1>2 DEF Items
  <2>2. InBatch(e, x) => InBatch(e', x)
    BY <1>3 DEF InBatch
  <2>3. Working(e, x) => Working(e', x)
    BY <1>2, <1>3, <2>1, <2>2 DEF Working
  <2> QED BY <1>3, <2>1, <2>3 DEF Current, Beside, Noticed, Announced
<1> QED BY <1>1, <1>2, <1>3, <1>4, <1>5, StaysFresh, EditorKept

\* The scan that a folder is owed is asked for when no file is selected any more.
LEMMA FlushCoverageFresh ==
  ASSUME RefreshAssumption, FilesInv, Sound(e'), NEW f \in Folders, FlushCoverage(f)
  PROVE  FilesInv'
<1> DEFINE done == [e EXCEPT !.flush.met = @ \ {f}]
           asked == f \in e.flush.rooted /\ f \in e.marked
                    /\ f \notin e.complete /\ f \notin e.pendingRefresh
<1>1. /\ DiskOK /\ Fresh(e) /\ DOMAIN e = Fields /\ DOMAIN e.flush = FlushFields
      /\ \A x \in Files : Current(e, x)
  BY DEF FilesInv, Fresh, Sound, FieldsOK, FlushOK
<1>2. /\ UNCHANGED <<disk, undelivered, happened>>
      /\ e' = IF asked THEN CheckSaved(done, {f}, "flush") ELSE done
      /\ \A x \in Items : e.flush.todo[x] = "no"
      /\ \A g \in Folders : Selected(g) = {} /\ e.flush.phase = "files"
  BY DEF FlushCoverage, FlushFree
<1>3. ASSUME NEW x \in Files PROVE e.flush.selected[x] = Nil
  <2>1. FolderOf[x] \in Folders
    BY DEF RefreshAssumption, Items
  <2>2. Selected(FolderOf[x]) = {}
    BY <1>2, <2>1
  <2>3. x \in In(FolderOf[x], Files)
    BY DEF In
  <2> QED BY <2>2, <2>3 DEF Selected
<1>4. /\ Beside(e, done) /\ done.scans = e.scans /\ done.complete = e.complete
      /\ done.pendingFiles = e.pendingFiles /\ done.disposed = e.disposed
      /\ done.flush = [e.flush EXCEPT !.met = @ \ {f}] /\ DOMAIN done = Fields
      /\ done.pendingRefresh = e.pendingRefresh /\ done.refreshTimer = e.refreshTimer
      /\ done.fileTimer = e.fileTimer
  BY <1>1 DEF Beside, Fields
<1>5. /\ done.flush.todo = e.flush.todo /\ done.flush.selected = e.flush.selected
      /\ done.flush.phase = e.flush.phase /\ DOMAIN done.flush = FlushFields
  BY <1>1, <1>4 DEF FlushFields
<1> HIDE DEF done
<1>6. Sound(done)
  <2>1. FieldsOK(done)
    BY <1>1, <1>4 DEF Fresh, Sound, FieldsOK, Beside
  <2>2. FlushOK(done)
    <3>1. e.flush.phase = "files"
      BY DEF FlushCoverage, FlushFree
    <3> QED BY <1>1, <1>5, <3>1 DEF Fresh, Sound, FlushOK
  <2>3. Armed(done)
    BY <1>1, <1>4, <1>5 DEF Fresh, Sound, Armed
  <2>4. Silenced(done)
    BY <1>1, <1>4 DEF Fresh, Sound, Silenced, Beside
  <2> QED BY <2>1, <2>2, <2>3, <2>4 DEF Sound
<1>7. Fresh(done)
  BY <1>1, <1>4, <1>5, <1>6, StaysFresh DEF Fresh, Typed
<1>8. ASSUME NEW x \in Files PROVE Current(done, x)
  <2>1. Current(e, x) /\ e.flush.todo[x] = "no" /\ e.flush.selected[x] = Nil
    BY <1>1, <1>2, <1>3 DEF Items
  <2>2. InBatch(e, x) => InBatch(done, x)
    BY <1>4 DEF InBatch
  <2>3. Working(e, x) => Working(done, x)
    BY <1>4, <2>1, <2>2 DEF Working
  <2> QED BY <1>4, <2>1, <2>3 DEF Current, Beside, Noticed, Announced
<1>9. CASE asked
  <2>1. /\ f \in done.marked /\ ~done.disposed /\ e' = CheckSaved(done, {f}, "flush")
    BY <1>1, <1>2, <1>4, <1>9 DEF Beside, Fresh, Sound, Silenced
  <2>2. Tends(done, e', {})
    BY <1>1, <1>7, <2>1, CheckSavedTends
  <2> QED BY <1>1, <1>2, <1>8, <2>2, EditorKept DEF Tends
<1>10. CASE ~asked
  BY <1>1, <1>2, <1>7, <1>8, <1>10, EditorKept
<1> QED BY <1>9, <1>10

\* The selected files of a folder become a batch, unless the folder's authority is gone.
LEMMA FlushBatchFresh ==
  ASSUME RefreshAssumption, FilesInv, Sound(e'), NEW f \in Folders, FlushBatch(f)
  PROVE  FilesInv'
<1> DEFINE want == [w \in Watched |-> IF w \in Selected(f) THEN e.flush.selected[w] ELSE Nil]
           batch == Request(f, "files", "flush", Selected(f), want)
           sent == f \in e.marked /\ f \in e.flush.rooted /\ f \in e.flush.admitted
           left == [w \in Watched |-> IF FolderOf[w] = f THEN Nil ELSE e.flush.selected[w]]
<1>1. /\ DiskOK /\ Fresh(e) /\ DOMAIN e = Fields /\ DOMAIN e.flush = FlushFields
      /\ \A x \in Files : Current(e, x)
  BY DEF FilesInv, Fresh, Sound, FieldsOK, FlushOK
<1>2. /\ UNCHANGED <<disk, undelivered, happened>>
      /\ \A s \in e.scans : s.owner = "flush" => s.kind = "document"
  BY DEF FlushBatch, FlushFree
<1>3. /\ Beside(e, e') /\ e'.complete = e.complete /\ e'.pendingFiles = e.pendingFiles
      /\ e'.flush = [e.flush EXCEPT !.selected = left]
      /\ e'.scans = IF sent THEN e.scans \cup {batch} ELSE e.scans
  <2> DEFINE taken == [e EXCEPT !.flush.selected = left]
  <2>1. e' = IF sent THEN [taken EXCEPT !.scans = @ \cup {batch}] ELSE taken
    BY DEF FlushBatch
  <2>2. /\ Beside(e, taken) /\ taken.complete = e.complete
        /\ taken.pendingFiles = e.pendingFiles /\ taken.scans = e.scans
        /\ taken.flush = [e.flush EXCEPT !.selected = left] /\ DOMAIN taken = Fields
    <3> HIDE DEF left
    <3> QED BY <1>1 DEF Beside, Fields
  <2> HIDE DEF taken, left, batch, sent
  <2> QED BY <2>1, <2>2 DEF Beside, Fields
<1>4. /\ e'.flush.selected = left /\ e'.flush.todo = e.flush.todo
      /\ e'.flush.met = e.flush.met /\ e'.flush.rooted = e.flush.rooted
      /\ e'.flush.admitted = e.flush.admitted
  <2> HIDE DEF left
  <2> QED BY <1>1, <1>3 DEF FlushFields
<1>5. e.flush.selected \in [Watched -> Int]
  BY <1>1 DEF Fresh, Typed
<1>6. Typed(e')
  <2>1. left \in [Watched -> Int]
    BY <1>5 DEF Nil
  <2> QED BY <1>1, <1>3, <1>4, <2>1 DEF Fresh, Typed, Beside
<1>7. /\ batch.folder = f /\ batch.kind = "files" /\ batch.owner = "flush" /\ batch.live
      /\ batch.items = Selected(f) /\ batch.want = want /\ batch.phase = "submitted"
      /\ batch.read = Blank /\ batch.accepted = {}
      /\ batch.ahead = 0 /\ batch.turn = 0 /\ batch.changed = FALSE
  BY DEF Request
<1>8. want \in [Watched -> Int] /\ Blank \in [Watched -> Int] /\ \A w \in Watched : Blank[w] = -1
  BY <1>5 DEF Nil, Blank
<1>9. Len(e.contexts) \in Nat /\ e'.contexts = e.contexts
  BY <1>1, <1>3, EventsCounted DEF Beside, Fresh
<1> HIDE DEF batch, want, left
<1>10. sent => ReadsOK(e', batch) /\ TurnsOK(e', batch)
  <2> SUFFICES ASSUME sent PROVE ReadsOK(e', batch) /\ TurnsOK(e', batch)
    OBVIOUS
  <2>1. \A x \in Files : batch.read[x] <= disk[x]
    BY <1>1, <1>7, <1>8 DEF DiskOK, Watched
  <2>2. Selected(f) \subseteq In(f, Files) /\ f \in e'.marked
    BY <1>3 DEF Selected, Beside
  <2>3. ReadsOK(e', batch)
    BY <1>7, <1>8, <2>1, <2>2 DEF ReadsOK
  <2>4. TurnsOK(e', batch)
    <3>1. batch.ahead \in 0..Len(e'.contexts) /\ batch.turn \in Nat
      BY <1>7, <1>9
    <3>2. batch.changed \in BOOLEAN
      BY <1>7
    <3> QED BY <3>1, <3>2 DEF TurnsOK
  <2> QED BY <2>3, <2>4
<1>11. ScansFresh(e')
  <2>1. CASE ~sent
    <3>1. \A s \in e'.scans : LeftOrAdded(e, s)
      BY <1>3, <2>1 DEF LeftOrAdded
    <3>2. \A s, t \in e'.scans : s.kind = "files" /\ t.kind = "files" => s = t
      BY <1>1, <1>3, <2>1 DEF Fresh, ScansFresh
    <3> QED BY <1>1, <1>3, <3>1, <3>2, ScansStayFresh DEF Beside
  <2>2. CASE sent
    <3>1. \A s \in e.scans : s.kind # "files"
      BY <1>1, <1>2 DEF Fresh, ScansFresh, ReadsOK
    <3>2. \A s, t \in e'.scans : s.kind = "files" /\ t.kind = "files" => s = t
      BY <1>3, <2>2, <3>1
    <3>3. \A s \in e'.scans \cap e.scans : s.kind # "document" /\ s.live => s.folder \in e'.marked
      BY <1>1, <1>3 DEF Fresh, ScansFresh, ReadsOK, Beside
    <3>4. \A s \in e'.scans \cap e.scans, x \in Files : Waits(e, s, x) => Waits(e', s, x)
      BY <1>3 DEF Waits, Noticed, Announced, Beside
    <3>5. PICK N : N = {batch}
      OBVIOUS
    <3>6. /\ e'.scans \subseteq e.scans \cup N
          /\ \A s \in N : ReadsOK(e', s) /\ TurnsOK(e', s)
      BY <1>3, <1>10, <2>2, <3>5
    <3>7. /\ \A s \in N, x \in Files : Waits(e', s, x)
          /\ \A s \in N, t \in e'.scans : Ordered(s, t) /\ Ordered(t, s)
      BY <1>7, <3>5 DEF Waits, Ordered
    <3>8. \E n \in Nat : \A s \in N : s.turn <= n
      <4>1. \A s \in N : s.turn <= 0
        BY <1>7, <3>5
      <4> QED BY <4>1
    <3>9. Len(e.contexts) <= Len(e'.contexts) /\ Len(e'.contexts) \in Nat
      BY <1>9
    <3> QED BY <1>1, <1>9, <3>2, <3>3, <3>4, <3>6, <3>7, <3>8, <3>9, ScansMove
  <2> QED BY <2>1, <2>2
<1>12. ASSUME NEW x \in Files PROVE Current(e', x)
  <2>1. Current(e, x) /\ x \in Watched
    BY <1>1 DEF Watched
  <2>2. InBatch(e, x) => InBatch(e', x)
    BY <1>3 DEF InBatch
  <2>3. CASE FolderOf[x] # f
    <3>1. e'.flush.selected[x] = e.flush.selected[x]
      BY <1>4, <2>1, <2>3 DEF left
    <3>2. Working(e, x) => Working(e', x)
      BY <1>3, <1>4, <2>2, <3>1 DEF Working, Held
    <3> QED BY <1>3, <2>1, <3>2 DEF Current, Beside, Noticed, Announced
  <2>4. CASE FolderOf[x] = f
    <3>1. ASSUME e.flush.selected[x] # Nil, sent PROVE InBatch(e', x)
      <4>1. x \in Selected(f)
        BY <2>4, <3>1 DEF Selected, In
      <4>2. batch \in e'.scans
        BY <1>3, <3>1
      <4> QED BY <1>7, <4>1, <4>2 DEF InBatch
    <3>2. f \in e.marked /\ Working(e, x) => Working(e', x)
      BY <1>3, <1>4, <2>2, <2>4, <3>1 DEF Working, Held
    <3> QED BY <1>3, <2>1, <2>4, <3>2 DEF Current, Beside, Noticed, Announced
  <2> QED BY <2>3, <2>4
<1> QED BY <1>1, <1>2, <1>6, <1>11, <1>12, EditorKept DEF Fresh

\* The flush takes one queued file: it is an echo of what is shown, or it is selected
\* under an authority that the folder still has.
LEMMA FlushReadFresh ==
  ASSUME RefreshAssumption, FilesInv, Sound(e'), NEW x \in Items, FlushRead(x)
  PROVE  FilesInv'
<1> DEFINE f == FolderOf[x]
           took == [e EXCEPT !.flush.todo[x] = "no"]
           met == Meet(took, f)
           found == [met EXCEPT !.missing = @ \ {x}]
           echo == e.flush.todo[x] = "plain" /\ e.fingerprint[x] = disk[x]
<1>1. /\ DiskOK /\ Fresh(e) /\ DOMAIN e = Fields /\ DOMAIN e.flush = FlushFields
      /\ \A y \in Files : Current(e, y)
  BY DEF FilesInv, Fresh, Sound, FieldsOK, FlushOK
<1>2. /\ UNCHANGED <<disk, undelivered, happened>> /\ e.flush.todo[x] # "no"
  BY DEF FlushRead
<1>3. e' = IF f \notin e.marked \/ f \notin met.flush.rooted THEN met
              ELSE IF x \in Documents
              THEN [CheckDocuments(met, {x}, "flush") EXCEPT
                      !.flush.phase = "document", !.flush.item = x]
              ELSE IF disk[x] = 0 THEN ConfirmMissing(met, {x})
              ELSE IF echo THEN found
              ELSE [found EXCEPT !.flush.selected[x] = disk[x]]
  BY DEF FlushRead
<1> HIDE DEF f, echo
<1>4. /\ Beside(e, took) /\ took.scans = e.scans /\ took.complete = e.complete
      /\ took.pendingFiles = e.pendingFiles /\ DOMAIN took = Fields
      /\ took.flush = [e.flush EXCEPT !.todo[x] = "no"]
  BY <1>1 DEF Beside, Fields
<1>5. /\ took.flush.todo = [e.flush.todo EXCEPT ![x] = "no"] /\ took.flush.met = e.flush.met
      /\ took.flush.rooted = e.flush.rooted /\ took.flush.admitted = e.flush.admitted
      /\ took.flush.selected = e.flush.selected /\ DOMAIN took.flush = FlushFields
  BY <1>1, <1>4 DEF FlushFields
<1> HIDE DEF took
<1>6. /\ Beside(e, met) /\ met.scans = e.scans /\ met.complete = e.complete
      /\ met.pendingFiles = e.pendingFiles /\ DOMAIN met = Fields
      /\ met.flush.todo = took.flush.todo /\ met.flush.selected = e.flush.selected
      /\ DOMAIN met.flush = FlushFields
      /\ met.flush.met = e.flush.met \cup {f}
      /\ f \in e.flush.met => /\ met.flush.rooted = e.flush.rooted
                              /\ met.flush.admitted = e.flush.admitted
      /\ f \notin e.flush.met => /\ met.flush.rooted = e.flush.rooted \cup {f}
                                 /\ met.flush.admitted = e.flush.admitted \cup {f}
  <2>1. CASE f \in e.flush.met
    <3>1. met = took
      BY <1>5, <2>1 DEF Meet
    <3> HIDE DEF met
    <3> QED BY <1>4, <1>5, <2>1, <3>1
  <2>2. CASE f \notin e.flush.met
    <3>1. met = [took EXCEPT !.flush.met = @ \cup {f}, !.flush.rooted = @ \cup {f},
                             !.flush.admitted = @ \cup {f}]
      BY <1>5, <2>2 DEF Meet
    <3> HIDE DEF met
    <3>2. /\ Beside(took, met) /\ met.scans = took.scans /\ met.complete = took.complete
          /\ met.pendingFiles = took.pendingFiles /\ DOMAIN met = Fields
          /\ met.flush = [took.flush EXCEPT !.met = @ \cup {f}, !.rooted = @ \cup {f},
                             !.admitted = @ \cup {f}]
      BY <1>4, <3>1 DEF Beside, Fields
    <3>3. /\ met.flush.todo = took.flush.todo /\ met.flush.selected = took.flush.selected
          /\ met.flush.met = took.flush.met \cup {f} /\ DOMAIN met.flush = FlushFields
          /\ met.flush.rooted = took.flush.rooted \cup {f}
          /\ met.flush.admitted = took.flush.admitted \cup {f}
      BY <1>5, <3>2 DEF FlushFields
    <3> QED BY <1>4, <1>5, <2>2, <3>2, <3>3 DEF Beside
  <2> QED BY <2>1, <2>2
<1> HIDE DEF met
<1>7. \A y \in Files : y # x => met.flush.todo[y] = e.flush.todo[y]
  <2>1. e.flush.todo \in Marks
    BY <1>1 DEF Fresh, Sound, FlushOK
  <2> QED BY <1>5, <1>6, <2>1 DEF Marks, Items
<1>8. ASSUME NEW r, Beside(e, r), r.complete = e.complete, r.pendingFiles = e.pendingFiles,
             r.flush.todo = met.flush.todo, r.flush.met = met.flush.met,
             r.flush.rooted = met.flush.rooted, r.flush.admitted = met.flush.admitted,
             e.scans \subseteq r.scans,
             NEW y \in Files, r.flush.selected[y] = e.flush.selected[y],
             y # x \/ ~Held(e, f)
      PROVE  Current(r, y)
  <2>1. Current(e, y)
    BY <1>1
  <2>2. InBatch(e, y) => InBatch(r, y)
    BY <1>8 DEF InBatch
  <2>3. Held(e, FolderOf[y]) => Held(r, FolderOf[y])
    BY <1>6, <1>8 DEF Held
  <2>4. y = x => f = FolderOf[y]
    BY DEF f
  <2>5. Working(e, y) => Working(r, y)
    BY <1>6, <1>7, <1>8, <2>2, <2>3, <2>4 DEF Working
  <2> QED BY <1>8, <2>1, <2>5 DEF Current, Beside, Noticed, Announced
<1>9. e.flush.selected \in [Watched -> Int]
  BY <1>1 DEF Fresh, Typed
<1>10. CASE f \notin e.marked \/ f \notin met.flush.rooted
  <2>1. e' = met
    BY <1>3, <1>10
  <2>2. ASSUME NEW y \in Files PROVE Current(e', y)
    <3>1. CASE y = x /\ f \notin e.marked
      BY <1>6, <2>1, <3>1 DEF Current, Beside, f
    <3>2. CASE y # x \/ f \in e.marked
      <4>1. f \in e.marked => ~Held(e, f)
        BY <1>6, <1>10 DEF Held
      <4> QED BY <1>6, <1>8, <2>1, <3>2, <4>1
    <3> QED BY <3>1, <3>2
  <2> QED BY <1>1, <1>2, <1>6, <1>9, <2>1, <2>2, StaysFresh, EditorKept
<1>11. CASE f \in e.marked /\ f \in met.flush.rooted /\ x \in Documents
  <2> DEFINE R == {Request(FolderOf[d], "document", "flush", {d}, Blank) : d \in {x}}
             asked == [met EXCEPT !.scans = met.scans \cup R]
  <2>1. x \notin Files
    BY <1>11 DEF RefreshAssumption
  <2>2. e' = [asked EXCEPT !.flush.phase = "document", !.flush.item = x]
    BY <1>3, <1>11 DEF CheckDocuments
  <2>3. /\ Beside(e, asked) /\ asked.scans = e.scans \cup R /\ asked.complete = e.complete
        /\ asked.pendingFiles = e.pendingFiles /\ DOMAIN asked = Fields
        /\ asked.flush = met.flush
    <3> HIDE DEF R
    <3> QED BY <1>6 DEF Beside, Fields
  <2> HIDE DEF asked, R
  <2>4. /\ Beside(e, e') /\ e'.scans = e.scans \cup R /\ e'.complete = e.complete
        /\ e'.pendingFiles = e.pendingFiles
        /\ e'.flush = [met.flush EXCEPT !.phase = "document", !.item = x]
    BY <2>2, <2>3 DEF Beside, Fields
  <2>5. /\ e'.flush.todo = met.flush.todo /\ e'.flush.met = met.flush.met
        /\ e'.flush.rooted = met.flush.rooted /\ e'.flush.admitted = met.flush.admitted
        /\ e'.flush.selected = e.flush.selected
    BY <1>6, <2>4 DEF FlushFields
  <2>6. \A s \in R : Added(e, s)
    <3>1. R = {Request(f, "document", "flush", {x}, Blank)}
      BY DEF R, f
    <3>2. {x} \cap Files = {} /\ f \in e.marked
      BY <1>11, <2>1
    <3>3. Added(e, Request(f, "document", "flush", {x}, Blank))
      BY <3>2, RequestIsAdded
    <3> QED BY <3>1, <3>3
  <2>7. Typed(e')
    BY <1>1, <2>4, <2>5 DEF Fresh, Typed, Beside
  <2>8. ScansFresh(e')
    <3>1. \A s \in e'.scans : LeftOrAdded(e, s)
      BY <2>4, <2>6 DEF LeftOrAdded
    <3>2. \A s \in R : s.kind # "files"
      BY <2>6 DEF Added
    <3>3. \A s, t \in e'.scans : s.kind = "files" /\ t.kind = "files" => s = t
      BY <1>1, <2>4, <3>2 DEF Fresh, ScansFresh
    <3> QED BY <1>1, <2>4, <3>1, <3>3, ScansStayFresh DEF Beside
  <2>9. \A y \in Files : Current(e', y)
    BY <1>8, <2>1, <2>4, <2>5
  <2> QED BY <1>1, <1>2, <2>7, <2>8, <2>9, EditorKept DEF Fresh
<1>12. CASE f \in e.marked /\ f \in met.flush.rooted /\ x \notin Documents
  <2>1. x \in Files /\ disk[x] # 0 /\ x \in Watched
    BY <1>1, <1>12 DEF Items, DiskOK, Watched
  <2>2. /\ Beside(e, found) /\ found.scans = e.scans /\ found.complete = e.complete
        /\ found.pendingFiles = e.pendingFiles /\ DOMAIN found = Fields
        /\ found.flush = met.flush
    BY <1>6 DEF Beside, Fields
  <2> HIDE DEF found
  <2>3. CASE echo
    <3>1. e' = found
      BY <1>3, <1>12, <2>1, <2>3
    <3>2. Current(e, x) /\ e.fingerprint[x] = disk[x]
      BY <1>1, <2>1, <2>3 DEF echo
    <3>3. Current(e', x)
      BY <2>2, <3>1, <3>2 DEF Current, Beside
    <3>4. \A y \in Files : y # x => Current(e', y)
      BY <1>6, <1>8, <2>2, <3>1
    <3> QED BY <1>1, <1>2, <1>6, <1>9, <2>2, <3>1, <3>3, <3>4, StaysFresh, EditorKept
  <2>4. CASE ~echo
    <3>1. e' = [found EXCEPT !.flush.selected[x] = disk[x]]
      BY <1>3, <1>12, <2>1, <2>4
    <3>2. /\ Beside(e, e') /\ e'.scans = e.scans /\ e'.complete = e.complete
          /\ e'.pendingFiles = e.pendingFiles
          /\ e'.flush = [met.flush EXCEPT !.selected[x] = disk[x]]
      BY <2>2, <3>1 DEF Beside, Fields
    <3>3. /\ e'.flush.todo = met.flush.todo /\ e'.flush.met = met.flush.met
          /\ e'.flush.rooted = met.flush.rooted /\ e'.flush.admitted = met.flush.admitted
          /\ e'.flush.selected = [e.flush.selected EXCEPT ![x] = disk[x]]
      BY <1>6, <3>2 DEF FlushFields
    <3>4. /\ e'.flush.selected \in [Watched -> Int] /\ e'.flush.selected[x] # Nil
          /\ \A y \in Files : y # x => e'.flush.selected[y] = e.flush.selected[y]
      BY <1>1, <1>9, <2>1, <3>3 DEF DiskOK, Nil, Watched
    <3>5. \A y \in Files : y # x => Current(e', y)
      BY <1>8, <3>2, <3>3, <3>4
    <3>6. Current(e', x)
      <4>1. Current(e, x)
        BY <1>1, <2>1
      <4>2. InBatch(e, x) => InBatch(e', x)
        BY <3>2 DEF InBatch
      <4>3. Held(e, f) => f \in e'.flush.met /\ f \in e'.flush.rooted /\ f \in e'.flush.admitted
        BY <1>6, <3>3 DEF Held
      <4>4. Working(e, x) => Working(e', x)
        <5>1. ASSUME Held(e, f) PROVE Working(e', x)
          BY <3>4, <4>3, <5>1 DEF Working, f
        <5>2. ASSUME ~Held(e, f), Working(e, x) PROVE Working(e', x)
          BY <3>2, <4>2, <5>2 DEF Working, Held, f
        <5> QED BY <5>1, <5>2
      <4> QED BY <3>2, <4>1, <4>4 DEF Current, Beside, Noticed, Announced
    <3> QED BY <1>1, <1>2, <3>2, <3>4, <3>5, <3>6, StaysFresh, EditorKept
  <2> QED BY <2>3, <2>4
<1> QED BY <1>10, <1>11, <1>12

-----------------------------------------------------------------------------
(* A request waits, is submitted and runs.                                 *)

\* A request goes on, perhaps in the place of others of its kind.
LEMMA GoesOnFresh ==
  ASSUME RefreshAssumption, FilesInv, Sound(e'), UNCHANGED <<disk, undelivered, happened>>,
         NEW s \in e.scans, NEW t, NEW X, X \subseteq e.scans \ {s},
         e' = [e EXCEPT !.scans = X \cup {t}],
         \A u \in e.scans : u \in X \/ u = s \/ u.kind = s.kind,
         ReadsOK(e, t), TurnsOK(e, t), t.kind = s.kind, t.items = s.items, t.live,
         t.phase \in {"submitted", "queued", "report"}
  PROVE  FilesInv'
<1>1. DiskOK /\ Fresh(e) /\ DOMAIN e = Fields /\ \A x \in Files : Current(e, x)
  BY DEF FilesInv, Fresh, Sound, FieldsOK
<1>2. /\ Beside(e, e') /\ e'.complete = e.complete /\ e'.pendingFiles = e.pendingFiles
      /\ e'.flush = e.flush /\ e'.scans = X \cup {t}
  BY <1>1 DEF Beside, Fields
<1>3. Typed(e')
  BY <1>1, <1>2, StaysTyped DEF Fresh, SameFlush
<1>4. \A u, v \in e.scans : u.kind = "files" /\ v.kind = "files" => u = v
  BY <1>1 DEF Fresh, ScansFresh
<1>5. ScansFresh(e')
  <2>1. \A u, v \in e'.scans : u.kind = "files" /\ v.kind = "files" => u = v
    BY <1>2, <1>4
  <2>2. \A u \in e'.scans \cap e.scans : u.kind # "document" /\ u.live => u.folder \in e'.marked
    BY <1>1, <1>2 DEF Fresh, ScansFresh, ReadsOK, Beside
  <2>3. \A u \in e'.scans \cap e.scans, x \in Files : Waits(e, u, x) => Waits(e', u, x)
    BY <1>2 DEF Waits, Noticed, Announced, Beside
  <2>4. PICK N : N = {t}
    OBVIOUS
  <2>5. ReadsOK(e', t) /\ TurnsOK(e', t)
    BY <1>2 DEF ReadsOK, TurnsOK, Beside
  <2>6. /\ e'.scans \subseteq e.scans \cup N
        /\ \A u \in N : ReadsOK(e', u) /\ TurnsOK(e', u)
    BY <1>2, <2>4, <2>5
  <2>7. /\ \A u \in N, x \in Files : Waits(e', u, x)
        /\ \A u \in N, v \in e'.scans : Ordered(u, v) /\ Ordered(v, u)
    BY <2>4 DEF Waits, Ordered
  <2>8. \E n \in Nat : \A u \in N : u.turn <= n
    <3>1. t.turn \in Nat
      BY DEF TurnsOK
    <3>2. \A u \in N : u.turn <= t.turn
      BY <2>4, <3>1
    <3> QED BY <3>1, <3>2
  <2>9. Len(e.contexts) \in Nat /\ e'.contexts = e.contexts
    BY <1>1, <1>2, EventsCounted DEF Beside, Fresh
  <2>10. Len(e'.contexts) \in Nat /\ Len(e.contexts) <= Len(e'.contexts)
    BY <2>9
  <2> QED BY <1>1, <2>1, <2>2, <2>3, <2>6, <2>7, <2>8, <2>9, <2>10, ScansMove
<1>6. ASSUME NEW x \in Files PROVE Current(e', x)
  <2>1. InBatch(e, x) => InBatch(e', x)
    <3> SUFFICES ASSUME NEW u \in e.scans, u.kind = "files", u.live, x \in u.items,
                        u.phase \in {"submitted", "queued", "report"} \/ x \in u.accepted
                 PROVE  InBatch(e', x)
      BY DEF InBatch
    <3>1. CASE u \in X
      BY <1>2, <3>1 DEF InBatch
    <3>2. CASE u = s
      <4>1. t \in e'.scans
        BY <1>2
      <4> QED BY <3>2, <4>1 DEF InBatch
    <3> QED BY <1>4, <3>1, <3>2
  <2> QED BY <1>1, <1>2, <2>1, StaysCurrent DEF SameFlush
<1> QED BY <1>1, <1>3, <1>5, <1>6, EditorKept DEF Fresh

\* Only a document's check is given up in the lane: the files of a batch exist, and its
\* folder is marked.
LEMMA LaneFresh ==
  ASSUME RefreshAssumption, FilesInv, Sound(e'),
         NEW s \in e.scans, Wait(s) \/ Submit(s) \/ Run(s)
  PROVE  FilesInv'
<1>1. DiskOK /\ Fresh(e) /\ RequestOK(s) /\ ReadsOK(e, s) /\ TurnsOK(e, s)
  BY DEF FilesInv, Fresh, ScansFresh, Sound, FieldsOK
<1>2. s.live /\ UNCHANGED <<disk, undelivered, happened>>
  BY <1>1 DEF RequestOK, Wait, Submit, Run
<1>3. CASE e' = Without(s) /\ s.kind # "files"
  <2>1. Tends(e, e', IF s.kind = "files" THEN s.items ELSE {})
    BY <1>1, <1>3, WithoutTends DEF Without
  <2>2. Tends(e, e', {})
    BY <1>3, <2>1
  <2> QED BY <1>2, <2>2, TendsKept
<1>4. CASE Wait(s)
  <2> DEFINE t == [s EXCEPT !.phase = "submitted"]
  <2>1. CASE s.folder \notin e.marked
    BY <1>1, <1>2, <1>3, <1>4, <2>1 DEF Wait, ReadsOK
  <2>2. CASE s.folder \in e.marked
    <3>1. /\ t.folder = s.folder /\ t.kind = s.kind /\ t.owner = s.owner
          /\ t.items = s.items /\ t.want = s.want /\ t.phase = "submitted"
          /\ t.live = s.live /\ t.read = s.read /\ t.accepted = s.accepted
          /\ t.ahead = s.ahead /\ t.turn = s.turn /\ t.changed = s.changed
      BY <1>1 DEF RequestOK, RequestFields
    <3>2. PICK X : X = e.scans \ {s}
      OBVIOUS
    <3>3. e' = [e EXCEPT !.scans = X \cup {t}]
      BY <1>4, <2>2, <3>2 DEF Wait, Becomes
    <3> HIDE DEF t
    <3>4. ReadsOK(e, t)
      BY <1>1, <3>1 DEF ReadsOK
    <3>5. TurnsOK(e, t)
      BY <1>1, <3>1 DEF TurnsOK
    <3>6. /\ X \subseteq e.scans \ {s}
          /\ \A u \in e.scans : u \in X \/ u = s \/ u.kind = s.kind
      BY <3>2
    <3> QED BY <1>2, <3>1, <3>3, <3>4, <3>5, <3>6, GoesOnFresh
  <2> QED BY <2>1, <2>2
<1>5. CASE Submit(s)
  <2> DEFINE t == [s EXCEPT !.phase = "queued",
                     !.told = IF s.kind = "document" THEN {} ELSE @]
  <2>1. CASE s.kind = "document" /\ Shared(s)
    BY <1>3, <1>5, <2>1 DEF Submit
  <2>2. CASE ~(s.kind = "document" /\ Shared(s))
    <3>1. /\ t.folder = s.folder /\ t.kind = s.kind /\ t.owner = s.owner
          /\ t.items = s.items /\ t.want = s.want /\ t.phase = "queued"
          /\ t.live = s.live /\ t.read = s.read /\ t.accepted = s.accepted
          /\ t.ahead = s.ahead /\ t.turn = s.turn /\ t.changed = s.changed
      BY <1>1 DEF RequestOK, RequestFields
    <3>2. PICK X : X = {u \in e.scans \ {s} : ~(u.phase = "queued" /\ u.kind = s.kind
                                     /\ u.folder = s.folder /\ s.kind # "document")}
      OBVIOUS
    <3>3. e' = [e EXCEPT !.scans = X \cup {t}]
      BY <1>5, <2>2, <3>2 DEF Submit
    <3> HIDE DEF t
    <3>4. ReadsOK(e, t)
      BY <1>1, <3>1 DEF ReadsOK
    <3>5. TurnsOK(e, t)
      BY <1>1, <3>1 DEF TurnsOK
    <3>6. /\ X \subseteq e.scans \ {s}
          /\ \A u \in e.scans : u \in X \/ u = s \/ u.kind = s.kind
      BY <3>2
    <3> QED BY <1>2, <3>1, <3>3, <3>4, <3>5, <3>6, GoesOnFresh
  <2> QED BY <2>1, <2>2
<1>6. CASE Run(s)
  <2> DEFINE read == [w \in Watched |-> IF w \in Reads(s) THEN disk[w] ELSE Nil]
             t == [s EXCEPT !.phase = "report", !.read = read]
  <2>1. ~(s.kind = "files" /\ \E x \in s.items : disk[x] = 0)
    BY <1>1 DEF ReadsOK, In, DiskOK, Watched
  <2>2. PICK X : X = e.scans \ {s}
    OBVIOUS
  <2>3. e' = [e EXCEPT !.scans = X \cup {t}]
    BY <1>6, <2>1, <2>2 DEF Run, Becomes
  <2>4. /\ read \in [Watched -> Int]
        /\ \A x \in Files : read[x] <= disk[x] /\ (read[x] > 0 <=> x \in Reads(s))
    <3>1. \A w \in Watched : disk[w] \in Int /\ 0 < disk[w]
      BY <1>1 DEF DiskOK
    <3> QED BY <3>1 DEF Nil, Watched
  <2>5. \A x \in Files : x \in Reads(s) <=> \/ s.kind = "full" /\ FolderOf[x] = s.folder
                                            \/ s.kind = "files" /\ x \in s.items
    <3> SUFFICES ASSUME NEW x \in Files
                 PROVE  x \in Reads(s) <=> \/ s.kind = "full" /\ FolderOf[x] = s.folder
                                           \/ s.kind = "files" /\ x \in s.items
      OBVIOUS
    <3>1. x \notin Controls /\ x \in Watched
      BY DEF RefreshAssumption, Watched
    <3>2. CASE s.kind = "full"
      BY <3>1, <3>2 DEF Reads, In
    <3>3. CASE s.kind = "files"
      BY <3>1, <3>3 DEF Reads, In
    <3>4. CASE s.kind = "document"
      BY <3>1, <3>4 DEF Reads, In
    <3> QED BY <1>1, <3>2, <3>3, <3>4 DEF ReadsOK
  <2> HIDE DEF read
  <2>6. /\ t.folder = s.folder /\ t.kind = s.kind /\ t.owner = s.owner
        /\ t.items = s.items /\ t.want = s.want /\ t.phase = "report"
        /\ t.live = s.live /\ t.read = read
        /\ t.ahead = s.ahead /\ t.turn = s.turn /\ t.changed = s.changed
    BY <1>1 DEF RequestOK, RequestFields
  <2> HIDE DEF t
  <2>7. ReadsOK(e, t)
    BY <1>1, <2>4, <2>5, <2>6 DEF ReadsOK
  <2>8. TurnsOK(e, t)
    BY <1>1, <2>6 DEF TurnsOK
  <2> QED BY <1>2, <2>2, <2>3, <2>6, <2>7, <2>8, GoesOnFresh
<1> QED BY <1>4, <1>5, <1>6

-----------------------------------------------------------------------------
(* A report is rendered.                                                   *)

\* Queueing revokes full scans only.
LEMMA QueueLeavesBatches ==
  ASSUME NEW state, Fresh(state), NEW S, NEW force
  PROVE  \A u \in QueueFiles(state, S, force).scans :
           u.kind = "files" => u \in state.scans
<1> DEFINE Q == Queueable(state, S)
           old == {t \in state.scans : t.folder \in FoldersOf(Q) /\ t.kind = "full"}
           R == {[t EXCEPT !.live = FALSE] : t \in {u \in old : u.phase = "report"}}
           B == Bump(state, FoldersOf(Q))
           r == QueueFiles(state, S, force)
<1>1. DOMAIN state = Fields /\ \A t \in state.scans : RequestOK(t)
  BY DEF Fresh, Sound, FieldsOK
<1>2. B = [state EXCEPT !.scans = (state.scans \ old) \cup R]
  BY DEF Bump, Revoke
<1>3. \A u \in R : \E t \in state.scans : t.kind = "full" /\ u = [t EXCEPT !.live = FALSE]
  OBVIOUS
<1>4. r = [B EXCEPT !.pendingFiles = [x \in Items |-> IF x \notin Q THEN B.pendingFiles[x]
              ELSE IF force \/ B.pendingFiles[x] = "forced" THEN "forced" ELSE "plain"],
            !.fileTimer = B.fileTimer \/ Q # {}]
  BY DEF QueueFiles
<1> HIDE DEF B, R, r, Q
<1>5. B.scans = (state.scans \ old) \cup R /\ DOMAIN B = Fields
  <2> HIDE DEF old
  <2> QED BY <1>1, <1>2 DEF Fields
<1>6. r.scans = B.scans
  BY <1>4, <1>5 DEF Fields
<1>7. ASSUME NEW u \in R PROVE u.kind = "full"
  <2>1. PICK t \in state.scans : t.kind = "full" /\ u = [t EXCEPT !.live = FALSE]
    BY <1>3
  <2>2. RequestOK(t)
    BY <1>1
  <2> QED BY <2>1, <2>2, RevokedRequest
<1> QED BY <1>5, <1>6, <1>7 DEF r

\* What a batch has read is accepted, or queued again.
LEMMA RenderFresh ==
  ASSUME RefreshAssumption, FilesInv, Sound(e'), NEW s \in e.scans, Render(s)
  PROVE  FilesInv'
<1> DEFINE reported == {x \in Files : s.read[x] > 0}
           gone == {x \in reported : disk[x] = 0}
           moved == {x \in reported \ gone :
                       disk[x] # s.read[x] \/ (s.kind = "files" /\ disk[x] # s.want[x])}
           less == Without(s)
           forced == ForceFiles(less, moved)
           queued == ConfirmMissing(forced, gone)
           own == CASE s.kind = "full" -> In(s.folder, Documents)
                    [] s.kind = "files" -> {}
                    [] s.kind = "document" -> s.items
           acc == (reported \ (gone \cup moved)) \cup own
           t == [s EXCEPT !.phase = "observe", !.accepted = acc]
           X == IF s.kind = "files" THEN s.items ELSE {}
           goes == s.live /\ (s.kind = "full" => gone \cup moved = {})
<1>1. /\ DiskOK /\ Fresh(e) /\ RequestOK(s) /\ ReadsOK(e, s) /\ TurnsOK(e, s)
      /\ DOMAIN e = Fields /\ \A x \in Files : Current(e, x)
  BY DEF FilesInv, Fresh, ScansFresh, Sound, FieldsOK
<1>2. UNCHANGED <<disk, undelivered, happened>> /\ s.phase = "report"
  BY DEF Render
<1>3. gone = {}
  BY <1>1 DEF DiskOK, Watched
<1>4. queued = forced
  <2>1. PICK g : g = gone
    OBVIOUS
  <2>2. ConfirmMissing(forced, g) = forced
    BY <1>3, <2>1, ConfirmTends
  <2> QED BY <2>1, <2>2
<1>5. e' = IF goes THEN [forced EXCEPT !.scans = @ \cup {t}] ELSE forced
  BY <1>4 DEF Render
<1>6. /\ \A x \in Files : x \in reported <=> \/ s.kind = "full" /\ FolderOf[x] = s.folder
                                             \/ s.kind = "files" /\ x \in s.items
      /\ \A x \in reported : s.read[x] > 0 /\ x \in Files
  <2>1. \A x \in Files : s.read[x] > 0 <=> \/ s.kind = "full" /\ FolderOf[x] = s.folder
                                           \/ s.kind = "files" /\ x \in s.items
    BY <1>1, <1>2 DEF ReadsOK
  <2>2. \A x : x \in reported <=> x \in Files /\ s.read[x] > 0
    OBVIOUS
  <2> HIDE DEF reported
  <2>3. \A x \in Files : x \in reported <=> \/ s.kind = "full" /\ FolderOf[x] = s.folder
                                            \/ s.kind = "files" /\ x \in s.items
    <3> SUFFICES ASSUME NEW x \in Files
                 PROVE  x \in reported <=> \/ s.kind = "full" /\ FolderOf[x] = s.folder
                                           \/ s.kind = "files" /\ x \in s.items
      OBVIOUS
    <3>1. x \in reported <=> s.read[x] > 0
      BY <2>2
    <3> QED BY <2>1, <3>1
  <2>4. \A x \in reported : s.read[x] > 0 /\ x \in Files
    BY <2>2
  <2> QED BY <2>3, <2>4
<1>7. own \cap Files = {}
  BY <1>1 DEF ReadsOK, In, RefreshAssumption
<1>8. \A x \in moved : x \in reported
  OBVIOUS
<1>9. \A x \in reported \ moved : disk[x] = s.read[x] /\ (s.kind = "files" => disk[x] = s.want[x])
  BY <1>3
<1> HIDE DEF reported, gone, moved, own
<1>10. Tends(e, less, X) /\ less.complete = e.complete /\ less.flush = e.flush
       /\ less.scans = e.scans \ {s}
  <2>1. Tends(e, less, X)
    BY <1>1, WithoutTends DEF Without
  <2>2. less.complete = e.complete /\ less.flush = e.flush /\ less.scans = e.scans \ {s}
    BY <1>1 DEF Without, Fields
  <2> QED BY <2>1, <2>2
<1>11. Fresh(less)
  BY <1>10 DEF Tends
<1> HIDE DEF less
<1>12. /\ Tends(less, forced, {}) /\ forced.complete = less.complete
       /\ forced.flush = less.flush
       /\ \A x \in moved : FolderOf[x] \in less.marked => forced.pendingFiles[x] # "no"
  <2>1. /\ Tends(less, forced, {}) /\ forced.complete = less.complete
        /\ forced.flush = less.flush
        /\ \A x \in moved \cap Items : FolderOf[x] \in less.marked => forced.pendingFiles[x] # "no"
    <3>1. PICK force : force = TRUE
      OBVIOUS
    <3>2. forced = QueueFiles(less, moved, force)
      BY <3>1 DEF forced, ForceFiles
    <3> HIDE DEF forced
    <3> QED BY <1>1, <1>11, <3>2, QueueTends
  <2>2. moved \subseteq Items
    BY <1>6, <1>8 DEF Items
  <2> QED BY <2>1, <2>2
<1>13. \A u \in forced.scans : u.kind = "files" => u \in less.scans
  BY <1>11, QueueLeavesBatches DEF ForceFiles
<1>14. Fresh(forced) /\ DOMAIN forced = Fields
  BY <1>12 DEF Tends, Fresh, Sound, FieldsOK
<1> HIDE DEF forced
<1>15. Beside(e, forced)
  BY <1>10, <1>12 DEF Tends, Beside
<1>16. \A x \in Files \ X : Current(forced, x)
  BY <1>1, <1>10, <1>12 DEF Tends
<1>17. CASE ~goes
  <2>1. e' = forced
    BY <1>5, <1>17
  <2>2. ASSUME NEW x \in Files, x \in X PROVE Current(less, x)
    <3>1. s.kind = "files" /\ ~s.live
      BY <1>17, <2>2
    <3>2. InBatch(e, x) => InBatch(less, x)
      BY <1>10, <3>1 DEF InBatch
    <3>3. SameFlush(e, less) /\ Beside(e, less) /\ less.pendingFiles = e.pendingFiles
      <4>1. less.pendingFiles = e.pendingFiles
        BY <1>1 DEF less, Without, Fields
      <4> QED BY <1>10, <4>1 DEF Tends, SameFlush
    <3> QED BY <1>1, <1>10, <3>2, <3>3, StaysCurrent
  <2>3. \A x \in Files : Current(forced, x)
    BY <1>12, <1>16, <2>2 DEF Tends
  <2> QED BY <1>1, <1>2, <1>14, <2>1, <2>3, EditorKept
<1>18. CASE goes
  <2>1. e' = [forced EXCEPT !.scans = forced.scans \cup {t}]
    BY <1>5, <1>18
  <2>2. /\ t.folder = s.folder /\ t.kind = s.kind /\ t.owner = s.owner
        /\ t.items = s.items /\ t.want = s.want /\ t.phase = "observe"
        /\ t.live = s.live /\ t.read = s.read /\ t.accepted = acc
        /\ t.ahead = s.ahead /\ t.turn = s.turn /\ t.changed = s.changed
    <3> HIDE DEF acc
    <3> QED BY <1>1 DEF RequestOK, RequestFields
  <2>3. \A x \in Files : x \in acc <=> x \in reported /\ x \notin moved
    BY <1>3, <1>7
  <2>4. s.kind = "full" => moved = {}
    BY <1>18
  <2> HIDE DEF t, acc
  <2>5. /\ Beside(forced, e') /\ e'.complete = forced.complete /\ e'.flush = forced.flush
        /\ e'.pendingFiles = forced.pendingFiles /\ e'.scans = forced.scans \cup {t}
    BY <1>14, <2>1 DEF Beside, Fields
  <2>6. Beside(e, e') /\ e'.complete = e.complete /\ e'.flush = e.flush
    BY <1>10, <1>12, <1>15, <2>5 DEF Beside
  <2>7. Typed(e')
    BY <1>14, <2>5, StaysTyped DEF Fresh, SameFlush
  <2>8. ReadsOK(e', t)
    <3>1. \A x \in Files : /\ x \in t.accepted => t.read[x] > 0
                           /\ x \in t.accepted /\ t.kind = "files" => t.want[x] = t.read[x]
                           /\ t.kind = "full" /\ t.read[x] > 0 => x \in t.accepted
      <4> SUFFICES ASSUME NEW x \in Files
                   PROVE  /\ x \in acc => s.read[x] > 0
                          /\ x \in acc /\ s.kind = "files" => s.want[x] = s.read[x]
                          /\ s.kind = "full" /\ s.read[x] > 0 => x \in acc
        BY <2>2
      <4>1. s.read[x] > 0 => x \in reported
        BY DEF reported
      <4> QED BY <1>6, <1>9, <2>3, <2>4, <4>1
    <3>2. \A x \in Files : t.read[x] > 0 <=> \/ t.kind = "full" /\ FolderOf[x] = t.folder
                                             \/ t.kind = "files" /\ x \in t.items
      BY <1>1, <1>2, <2>2 DEF ReadsOK
    <3>3. e'.marked = e.marked
      BY <2>6 DEF Beside
    <3> QED BY <1>1, <2>2, <3>1, <3>2, <3>3 DEF ReadsOK
  <2>9. TurnsOK(e', t)
    BY <1>1, <2>2, <2>6 DEF TurnsOK, Beside
  <2>10. ScansFresh(e')
    <3>1. \A u, v \in e'.scans : u.kind = "files" /\ v.kind = "files" => u = v
      <4>1. \A u, v \in e.scans : u.kind = "files" /\ v.kind = "files" => u = v
        BY <1>1 DEF Fresh, ScansFresh
      <4>2. \A u \in e'.scans : u.kind = "files" => u = t \/ u \in e.scans \ {s}
        BY <1>10, <1>13, <2>5
      <4> QED BY <2>2, <4>1, <4>2
    <3>2. \A u \in e'.scans \cap forced.scans :
            u.kind # "document" /\ u.live => u.folder \in e'.marked
      BY <1>14, <2>5 DEF Fresh, ScansFresh, ReadsOK, Beside
    <3>3. \A u \in e'.scans \cap forced.scans, x \in Files :
            Waits(forced, u, x) => Waits(e', u, x)
      BY <2>5 DEF Waits, Noticed, Announced, Beside
    <3>4. PICK N : N = {t}
      OBVIOUS
    <3>5. /\ e'.scans \subseteq forced.scans \cup N
          /\ \A u \in N : ReadsOK(e', u) /\ TurnsOK(e', u)
      BY <2>5, <2>8, <2>9, <3>4
    <3>6. /\ \A u \in N, x \in Files : Waits(e', u, x)
          /\ \A u \in N, v \in e'.scans : Ordered(u, v) /\ Ordered(v, u)
      BY <2>2, <3>4 DEF Waits, Ordered
    <3>7. \E n \in Nat : \A u \in N : u.turn <= n
      <4>1. t.turn \in Nat
        BY <2>9 DEF TurnsOK
      <4>2. \A u \in N : u.turn <= t.turn
        BY <3>4, <4>1
      <4> QED BY <4>1, <4>2
    <3>8. Len(forced.contexts) \in Nat /\ e'.contexts = forced.contexts
      BY <1>14, <2>5, EventsCounted DEF Beside, Fresh
    <3>9. Len(e'.contexts) \in Nat /\ Len(forced.contexts) <= Len(e'.contexts)
      BY <3>8
    <3> QED BY <1>14, <3>1, <3>2, <3>3, <3>5, <3>6, <3>7, <3>8, <3>9, ScansMove
  <2>11. ASSUME NEW x \in Files PROVE Current(e', x)
    <3>1. CASE x \notin X
      <4>1. Current(forced, x)
        BY <1>16, <3>1
      <4>2. InBatch(forced, x) => InBatch(e', x)
        BY <2>5 DEF InBatch
      <4> QED BY <2>5, <4>1, <4>2, StaysCurrent DEF SameFlush
    <3>2. CASE x \in X
      <4>1. s.kind = "files" /\ x \in s.items /\ s.live
        BY <1>18, <3>2
      <4>2. x \in reported /\ FolderOf[x] \in less.marked
        BY <1>1, <1>6, <1>10, <4>1 DEF ReadsOK, In, Tends, Beside
      <4>3. CASE x \in moved
        <5>1. e'.pendingFiles[x] # "no"
          BY <1>12, <2>5, <4>2, <4>3
        <5> QED BY <1>1, <2>6, <5>1 DEF Current, Working, Beside
      <4>4. CASE x \notin moved
        <5>1. x \in t.accepted /\ t \in e'.scans
          BY <2>2, <2>3, <2>5, <4>2, <4>4
        <5>2. InBatch(e', x)
          BY <2>2, <4>1, <5>1 DEF InBatch
        <5> QED BY <1>1, <2>6, <5>2 DEF Current, Working, Beside
      <4> QED BY <4>3, <4>4
    <3> QED BY <3>1, <3>2
  <2> QED BY <1>1, <1>2, <2>7, <2>10, <2>11, EditorKept DEF Fresh
<1> QED BY <1>17, <1>18

-----------------------------------------------------------------------------
(* A report is observed.                                                   *)

\* A bounded set of numbers has a greatest one.
LEMMA GreatestExists ==
  ASSUME NEW S, S \subseteq Nat, S # {}, NEW n \in Nat, \A x \in S : x <= n
  PROVE  \E m \in S : \A y \in S : m >= y
<1> DEFINE B == {b \in Nat : \A x \in S : x <= b}
           T == {0..b : b \in B}
<1>1. T \subseteq FiniteSubsetsOf(Nat)
  <2> SUFFICES ASSUME NEW b \in Nat PROVE 0..b \in FiniteSubsetsOf(Nat)
    OBVIOUS
  <2>1. IsFiniteSet(0..b)
    BY FS_Interval
  <2> QED BY <2>1 DEF FiniteSubsetsOf
<1>2. T # {}
  OBVIOUS
<1>3. PICK U \in T : \A V \in T : <<V, U>> \notin StrictSubsetOrdering(Nat)
  <2> HIDE DEF T
  <2> QED BY <1>1, <1>2, WFMin, FS_StrictSubsetOrderingWellFounded
<1>4. PICK m \in B : U = 0..m
  BY <1>3
<1>5. m \in Nat /\ \A x \in S : x \in Nat /\ x <= m
  BY <1>4
<1>6. ASSUME m \notin S PROVE FALSE
  <2>1. \A x \in S : x < m
    BY <1>5, <1>6
  <2>2. m - 1 \in Nat /\ \A x \in S : x <= m - 1
    <3>1. PICK x \in S : x \in Nat /\ x < m
      BY <1>5, <2>1
    <3>2. m - 1 \in Nat
      BY <1>5, <3>1
    <3>3. \A y \in S : y \in Nat /\ y < m
      BY <1>5, <2>1
    <3>4. \A y \in S : y <= m - 1
      BY <1>5, <3>3
    <3> QED BY <3>2, <3>4
  <2>3. m - 1 \in B
    BY <2>2
  <2>4. 0..(m - 1) \in T
    BY <2>3
  <2>5. 0..(m - 1) \subseteq 0..m /\ m \in 0..m /\ m \notin 0..(m - 1)
    BY <1>5
  <2>6. <<0..(m - 1), U>> \in StrictSubsetOrdering(Nat)
    BY <1>4, <1>5, <2>2, <2>5 DEF StrictSubsetOrdering
  <2> QED BY <1>3, <2>4, <2>6
<1>7. \A y \in S : m >= y
  BY <1>5
<1> QED BY <1>6, <1>7

\* Max is that one.
LEMMA MaxIsGreatest ==
  ASSUME NEW S, S \subseteq Nat, S # {}, NEW n \in Nat, \A x \in S : x <= n
  PROVE  Max(S) \in Nat /\ \A y \in S : y <= Max(S)
<1>1. \E m \in S : \A y \in S : m >= y
  BY GreatestExists
<1>2. Max(S) \in S /\ \A y \in S : Max(S) >= y
  BY <1>1 DEF Max
<1> QED BY <1>2

\* A report waits for its turn behind the events of what changed since it was read: one
\* without such a file shows what is on the disk.
LEMMA ObserveFresh ==
  ASSUME RefreshAssumption, FilesInv, Sound(e'), NEW s \in e.scans, Observe(s)
  PROVE  FilesInv'
<1> DEFINE changed == {w \in Observed(s) : disk[w] # s.read[w]}
           less == Without(s)
           told == ContextEvents(less, changed)
           m == Max({0} \cup {u.turn : u \in Settling})
           t == [s EXCEPT !.phase = "settle", !.ahead = Len(told.contexts),
                      !.turn = m + 1, !.changed = changed # {}]
           T == [file : Watched, own : BOOLEAN]
<1>1. /\ DiskOK /\ Fresh(e) /\ RequestOK(s) /\ ReadsOK(e, s) /\ TurnsOK(e, s)
      /\ DOMAIN e = Fields /\ \A x \in Files : Current(e, x)
  BY DEF FilesInv, Fresh, ScansFresh, Sound, FieldsOK
<1>2. UNCHANGED <<disk, undelivered, happened>> /\ s.phase = "observe"
  BY DEF Observe
<1>3. e' = [told EXCEPT !.scans = told.scans \cup {t}]
  BY DEF Observe
<1>4. m \in Nat /\ \A u \in Settling : u.turn <= m
  <2> DEFINE M == {0} \cup {u.turn : u \in Settling}
  <2>1. PICK n \in Nat : \A u \in e.scans : u.turn <= n
    BY <1>1 DEF Fresh, ScansFresh
  <2>2. \A u \in Settling : u.turn \in Nat /\ u.turn <= n
    BY <1>1, <2>1 DEF Settling, Fresh, ScansFresh, TurnsOK
  <2>3. /\ M \subseteq Nat /\ M # {} /\ \A y \in M : y <= n
        /\ \A u \in Settling : u.turn \in M
    BY <2>2
  <2> HIDE DEF M
  <2>4. Max(M) \in Nat /\ \A y \in M : y <= Max(M)
    BY <2>3, MaxIsGreatest
  <2> QED BY <2>3, <2>4 DEF M
<1>5. changed \in SUBSET Watched
  BY DEF Observed, Observes, In, Watched
<1>6. \A x \in Files : x \in s.accepted /\ changed = {} => disk[x] = s.read[x]
  BY DEF Observed, Observes
<1>7. /\ Beside(e, less) /\ DOMAIN less = Fields /\ less.complete = e.complete
      /\ less.flush = e.flush /\ less.scans = e.scans \ {s}
      /\ less.pendingFiles = e.pendingFiles
  BY <1>1 DEF Without, Fields, Beside
<1>8. Typed(less)
  BY <1>1, <1>7, StaysTyped DEF Fresh, SameFlush
<1> HIDE DEF less, changed, m
<1>9. /\ DOMAIN told = Fields /\ told.flush = less.flush /\ told.scans = less.scans
      /\ told.marked = less.marked /\ told.complete = less.complete
      /\ told.pendingFiles = less.pendingFiles
      /\ told.shown = less.shown /\ told.fingerprint = less.fingerprint
      /\ told.folderSeen = less.folderSeen
      /\ told.contexts \in Seq(T)
      /\ Len(less.contexts) \in Nat /\ Len(told.contexts) \in Nat
      /\ Len(less.contexts) <= Len(told.contexts)
      /\ \A i \in DOMAIN less.contexts : i \in DOMAIN told.contexts
                                         /\ told.contexts[i] = less.contexts[i]
  <2>1. told = ContextEvents(less, changed)
    OBVIOUS
  <2> HIDE DEF told
  <2>2. /\ DOMAIN told = Fields /\ told.flush = less.flush /\ told.scans = less.scans
        /\ told.marked = less.marked /\ told.complete = less.complete
        /\ told.pendingFiles = less.pendingFiles
        /\ told.shown = less.shown /\ told.fingerprint = less.fingerprint
        /\ told.folderSeen = less.folderSeen
    BY <1>5, <1>7, <1>8, <2>1, EventsGrow
  <2>3. /\ told.contexts \in Seq(T)
        /\ Len(less.contexts) \in Nat /\ Len(told.contexts) \in Nat
        /\ Len(less.contexts) <= Len(told.contexts)
    BY <1>5, <1>7, <1>8, <2>1, EventsGrow
  <2>4. \A i \in DOMAIN less.contexts : i \in DOMAIN told.contexts
                                        /\ told.contexts[i] = less.contexts[i]
    BY <1>5, <1>7, <1>8, <2>1, EventsGrow
  <2> QED BY <2>2, <2>3, <2>4
<1> HIDE DEF told
<1>10. /\ t.folder = s.folder /\ t.kind = s.kind /\ t.owner = s.owner
       /\ t.items = s.items /\ t.want = s.want /\ t.phase = "settle"
       /\ t.live = s.live /\ t.read = s.read /\ t.accepted = s.accepted
       /\ t.ahead = Len(told.contexts) /\ t.turn = m + 1 /\ t.changed = (changed # {})
  BY <1>1 DEF RequestOK, RequestFields
<1> HIDE DEF t
<1>11. /\ e'.flush = e.flush /\ e'.complete = e.complete /\ e'.pendingFiles = e.pendingFiles
       /\ e'.marked = e.marked /\ e'.shown = e.shown /\ e'.fingerprint = e.fingerprint
       /\ e'.folderSeen = e.folderSeen /\ e'.contexts = told.contexts
       /\ e'.scans = (e.scans \ {s}) \cup {t}
  <2>1. /\ e'.flush = told.flush /\ e'.complete = told.complete
        /\ e'.pendingFiles = told.pendingFiles
        /\ e'.marked = told.marked /\ e'.shown = told.shown
        /\ e'.fingerprint = told.fingerprint
        /\ e'.folderSeen = told.folderSeen /\ e'.contexts = told.contexts
        /\ e'.scans = told.scans \cup {t}
    BY <1>3, <1>9 DEF Fields
  <2> QED BY <1>7, <1>9, <2>1 DEF Beside
<1>12. /\ Len(e.contexts) \in Nat /\ Len(e'.contexts) \in Nat
       /\ Len(e.contexts) <= Len(e'.contexts)
       /\ \A i \in DOMAIN e.contexts : i \in DOMAIN e'.contexts
                                       /\ e'.contexts[i] = e.contexts[i]
  BY <1>7, <1>9, <1>11 DEF Beside
<1>13. \A x \in Files : Noticed(e, x) => Noticed(e', x)
  BY <1>11, <1>12 DEF Noticed, Announced
<1>14. Typed(e')
  BY <1>1, <1>9, <1>11 DEF Fresh, Typed
<1>15. ReadsOK(e', t)
  BY <1>1, <1>2, <1>10, <1>11 DEF ReadsOK
<1>16. TurnsOK(e', t)
  <2>1. t.ahead \in 0..Len(e'.contexts)
    BY <1>10, <1>11, <1>12
  <2>2. t.turn \in Nat
    BY <1>4, <1>10
  <2>3. t.changed \in BOOLEAN
    BY <1>10
  <2> QED BY <2>1, <2>2, <2>3 DEF TurnsOK
<1>17. ASSUME NEW v \in e'.scans PROVE Ordered(t, v) /\ Ordered(v, t)
  <2>1. CASE v = t
    BY <1>16, <2>1 DEF Ordered, TurnsOK
  <2>2. CASE v # t /\ v.phase = "settle"
    <3>1. v \in e.scans /\ v \in Settling
      BY <1>11, <2>2 DEF Settling
    <3>2. TurnsOK(e, v) /\ ReadsOK(e, v)
      BY <1>1, <3>1 DEF Fresh, ScansFresh
    <3>3. v.turn \in Nat /\ v.turn <= m /\ t.turn = m + 1
      BY <1>4, <1>10, <3>1, <3>2 DEF TurnsOK
    <3>4. v.turn # t.turn /\ ~(t.turn < v.turn)
      BY <1>4, <3>3
    <3>5. v.ahead <= t.ahead
      <4>1. v.ahead \in 0..Len(e.contexts) /\ t.ahead = Len(e'.contexts)
        BY <1>10, <1>11, <3>2 DEF TurnsOK
      <4> QED BY <1>12, <4>1
    <3>6. ~t.changed => \A x \in Files :
            x \in v.accepted /\ x \in t.accepted => v.read[x] <= t.read[x]
      <4> SUFFICES ASSUME ~t.changed, NEW x \in Files, x \in t.accepted
                   PROVE  v.read[x] <= t.read[x]
        OBVIOUS
      <4>1. t.read[x] = disk[x]
        BY <1>6, <1>10
      <4>2. v.read[x] <= disk[x]
        BY <3>2 DEF ReadsOK
      <4> QED BY <4>1, <4>2
    <3> QED BY <3>4, <3>5, <3>6 DEF Ordered
  <2>3. CASE v.phase # "settle"
    BY <2>3 DEF Ordered
  <2> QED BY <2>1, <2>2, <2>3
<1>18. ScansFresh(e')
  <2>1. \A u, v \in e'.scans : u.kind = "files" /\ v.kind = "files" => u = v
    <3>1. \A u, v \in e.scans : u.kind = "files" /\ v.kind = "files" => u = v
      BY <1>1 DEF Fresh, ScansFresh
    <3> QED BY <1>10, <1>11, <3>1
  <2>2. \A u \in e'.scans \cap e.scans : u.kind # "document" /\ u.live => u.folder \in e'.marked
    BY <1>1, <1>11 DEF Fresh, ScansFresh, ReadsOK
  <2>3. \A u \in e'.scans \cap e.scans, x \in Files : Waits(e, u, x) => Waits(e', u, x)
    BY <1>11, <1>13 DEF Waits
  <2>4. PICK N : N = {t}
    OBVIOUS
  <2>5. /\ e'.scans \subseteq e.scans \cup N
        /\ \A u \in N : ReadsOK(e', u) /\ TurnsOK(e', u)
    BY <1>11, <1>15, <1>16, <2>4
  <2>6. \A x \in Files : Waits(e', t, x)
    BY <1>6, <1>10 DEF Waits
  <2>7. /\ \A u \in N, x \in Files : Waits(e', u, x)
        /\ \A u \in N, v \in e'.scans : Ordered(u, v) /\ Ordered(v, u)
    BY <1>17, <2>4, <2>6
  <2>8. \E n \in Nat : \A u \in N : u.turn <= n
    <3>1. t.turn \in Nat
      BY <1>16 DEF TurnsOK
    <3>2. \A u \in N : u.turn <= t.turn
      BY <2>4, <3>1
    <3> QED BY <3>1, <3>2
  <2> QED BY <1>1, <1>12, <2>1, <2>2, <2>3, <2>5, <2>7, <2>8, ScansMove
<1>19. ASSUME NEW x \in Files PROVE Current(e', x)
  <2>1. Current(e, x)
    BY <1>1
  <2>2. InBatch(e, x) => InBatch(e', x)
    <3> SUFFICES ASSUME NEW u \in e.scans, u.kind = "files", u.live, x \in u.items,
                        u.phase \in {"submitted", "queued", "report"} \/ x \in u.accepted
                 PROVE  InBatch(e', x)
      BY DEF InBatch
    <3>1. CASE u # s
      BY <1>11, <3>1 DEF InBatch
    <3>2. CASE u = s
      <4>1. t \in e'.scans /\ x \in t.accepted
        BY <1>2, <1>10, <1>11, <3>2
      <4> QED BY <1>10, <3>2, <4>1 DEF InBatch
    <3> QED BY <3>1, <3>2
  <2>3. Working(e, x) => Working(e', x)
    BY <1>11, <2>2 DEF Working, Held
  <2> QED BY <1>11, <1>13, <2>1, <2>3 DEF Current
<1> QED BY <1>1, <1>2, <1>14, <1>18, <1>19, EditorKept DEF Fresh

-----------------------------------------------------------------------------
(* A report settles.                                                       *)

\* A report that is not accepted starts over: its files are queued, or its folder is no
\* longer covered.
LEMMA RetryFresh ==
  ASSUME RefreshAssumption, FilesInv, UNCHANGED <<disk, undelivered, happened>>,
         NEW s \in e.scans, s.phase = "settle", e' = Retry(s)
  PROVE  FilesInv'
<1> DEFINE less == Without(s)
           X == IF s.kind = "files" THEN s.items ELSE {}
<1>1. /\ DiskOK /\ Fresh(e) /\ RequestOK(s) /\ ReadsOK(e, s)
      /\ DOMAIN e = Fields /\ \A x \in Files : Current(e, x)
  BY DEF FilesInv, Fresh, ScansFresh, Sound, FieldsOK
<1>2. Tends(e, less, X) /\ less.complete = e.complete
  <2>1. Tends(e, less, X)
    BY <1>1, WithoutTends DEF Without
  <2>2. less.complete = e.complete
    BY <1>1 DEF Without, Fields
  <2> QED BY <2>1, <2>2
<1>3. Fresh(less) /\ less.marked = e.marked /\ ~less.disposed
  <2>1. ~e.disposed
    BY <1>1 DEF Fresh, Sound, Silenced
  <2> QED BY <1>2, <2>1 DEF Tends, Beside
<1>4. e' = IF s.kind = "full" THEN QueueCoverage(less, s.folder) ELSE ForceFiles(less, s.items)
  BY DEF Retry
<1> HIDE DEF less
<1>5. CASE s.kind = "full"
  <2>1. Tends(less, e', {})
    BY <1>1, <1>3, <1>4, <1>5, QueueCoverageTends
  <2>2. Tends(e, less, {})
    BY <1>2, <1>5
  <2> QED BY <2>1, <2>2, TendsOn, TendsKept
<1>6. CASE s.kind # "full"
  <2>1. PICK force : force = TRUE
    OBVIOUS
  <2>2. e' = QueueFiles(less, s.items, force)
    BY <1>4, <1>6, <2>1 DEF ForceFiles
  <2>3. /\ Tends(less, e', {}) /\ e'.complete = less.complete
        /\ \A x \in s.items \cap Items : FolderOf[x] \in less.marked => e'.pendingFiles[x] # "no"
    BY <1>1, <1>3, <2>2, QueueTends
  <2>4. Beside(e, e')
    BY <1>2, <2>3 DEF Tends, Beside
  <2>5. ASSUME NEW x \in Files PROVE Current(e', x)
    <3>1. CASE x \notin X
      BY <1>1, <1>2, <2>3, <3>1 DEF Tends
    <3>2. CASE x \in X
      <4>1. x \in s.items \cap Items
        BY <3>2 DEF Items
      <4>2. FolderOf[x] \in e'.marked => e'.pendingFiles[x] # "no"
        BY <1>3, <2>3, <2>4, <4>1 DEF Beside
      <4>3. Current(e, x)
        BY <1>1
      <4> QED BY <1>2, <2>3, <2>4, <4>2, <4>3 DEF Current, Working, Beside
    <3> QED BY <3>1, <3>2
  <2> QED BY <1>1, <2>3, <2>5, EditorKept DEF Tends
<1> QED BY <1>5, <1>6

\* An accepted report shows what is on the disk, or an event that is no echo of it is on
\* its way; and the reports behind it are not older.
LEMMA AcceptedFresh ==
  ASSUME RefreshAssumption, FilesInv, Sound(e'), UNCHANGED <<disk, undelivered, happened>>,
         NEW s \in e.scans, s.phase = "settle", s.ahead = 0,
         \A t \in Settling : t.ahead = 0 => s.turn <= t.turn,
         ~s.changed, ~Rejected(s), e' = Accepted(s)
  PROVE  FilesInv'
<1> DEFINE A == s.accepted
           f == s.folder
<1>1. /\ DiskOK /\ Fresh(e) /\ RequestOK(s) /\ ReadsOK(e, s) /\ TurnsOK(e, s)
      /\ DOMAIN e = Fields /\ Typed(e)
      /\ \A x \in Files : Current(e, x) /\ Waits(e, s, x)
  BY DEF FilesInv, Fresh, ScansFresh, Sound, FieldsOK
<1>2. /\ e'.marked = e.marked /\ e'.contexts = e.contexts /\ e'.flush = e.flush
      /\ e'.pendingFiles = e.pendingFiles /\ e'.scans = e.scans \ {s}
      /\ e'.complete = (IF s.kind = "full" THEN e.complete \cup {f} ELSE e.complete)
      /\ e'.folderSeen = [w \in Watched |-> IF w \in Observed(s) THEN s.read[w]
                                            ELSE e.folderSeen[w]]
      /\ e'.shown = [x \in Files |-> IF x \in A THEN s.read[x]
           ELSE IF s.kind = "full" /\ FolderOf[x] = f THEN Nil ELSE e.shown[x]]
      /\ e'.fingerprint = [x \in Files |->
           IF s.kind = "files" /\ x \in A THEN s.want[x] ELSE e.fingerprint[x]]
  <2> DEFINE less == Without(s)
  <2>1. /\ less.marked = e.marked /\ less.contexts = e.contexts /\ less.flush = e.flush
        /\ less.pendingFiles = e.pendingFiles /\ less.scans = e.scans \ {s}
        /\ less.complete = e.complete /\ less.folderSeen = e.folderSeen
        /\ less.shown = e.shown /\ less.fingerprint = e.fingerprint /\ DOMAIN less = Fields
    BY <1>1 DEF Without, Fields
  <2>2. e' = [less EXCEPT
     !.folderSeen = [w \in Watched |-> IF w \in Observed(s) THEN s.read[w] ELSE @[w]],
     !.known = (IF s.kind = "full" THEN @ \ In(s.folder, Files) ELSE @) \cup s.accepted,
     !.sourceSeen = [x \in Items |->
        IF x \in s.accepted
        THEN [w \in Watched |-> IF w \notin Observes(x) THEN Nil
                                ELSE IF x \in e.known THEN @[x][w] ELSE s.read[w]]
        ELSE IF s.kind = "full" /\ x \in In(s.folder, Files) THEN Blank ELSE @[x]],
     !.shown = [x \in Files |-> IF x \in s.accepted THEN s.read[x]
        ELSE IF s.kind = "full" /\ FolderOf[x] = s.folder THEN Nil ELSE @[x]],
     !.fingerprint = [x \in Files |->
        IF s.kind = "files" /\ x \in s.accepted THEN s.want[x] ELSE @[x]],
     !.complete = IF s.kind = "full" THEN @ \cup {s.folder} ELSE @,
     !.document = [d \in Documents |->
        IF s.kind = "document" /\ d \in s.items THEN "current" ELSE @[d]]]
    BY DEF Accepted
  <2> HIDE DEF less
  <2>3. /\ e'.marked = less.marked /\ e'.contexts = less.contexts /\ e'.flush = less.flush
        /\ e'.pendingFiles = less.pendingFiles /\ e'.scans = less.scans
    BY <2>1, <2>2 DEF Fields
  <2>4. e'.complete = (IF s.kind = "full" THEN less.complete \cup {f} ELSE less.complete)
    BY <2>1, <2>2 DEF Fields
  <2>5. e'.folderSeen = [w \in Watched |-> IF w \in Observed(s) THEN s.read[w]
                                           ELSE less.folderSeen[w]]
    BY <2>1, <2>2 DEF Fields
  <2>6. e'.shown = [x \in Files |-> IF x \in A THEN s.read[x]
           ELSE IF s.kind = "full" /\ FolderOf[x] = f THEN Nil ELSE less.shown[x]]
    BY <2>1, <2>2 DEF Fields
  <2>7. e'.fingerprint = [x \in Files |->
           IF s.kind = "files" /\ x \in A THEN s.want[x] ELSE less.fingerprint[x]]
    BY <2>1, <2>2 DEF Fields
  <2> QED BY <2>1, <2>3, <2>4, <2>5, <2>6, <2>7
<1>3. \A x \in Files : x \in Observed(s) <=> x \in A
  BY DEF Observed, Observes, In, RefreshAssumption
<1>4. ASSUME NEW x \in Files
      PROVE  /\ x \in Watched /\ s.read[x] \in Int /\ disk[x] \in Int /\ s.read[x] <= disk[x]
             /\ disk[x] < happened + 2
             /\ x \in A /\ s.kind = "files" => s.want[x] = s.read[x]
             /\ s.kind = "full" /\ FolderOf[x] = f => x \in A
  <2>1. x \in Watched
    BY DEF Watched
  <2>2. s.read[x] \in Int /\ disk[x] \in Int /\ s.read[x] <= disk[x] /\ disk[x] < happened + 2
    BY <1>1, <2>1 DEF ReadsOK, DiskOK
  <2>3. x \in A /\ s.kind = "files" => s.want[x] = s.read[x]
    BY <1>1 DEF ReadsOK
  <2>4. s.kind = "full" /\ FolderOf[x] = f => x \in A
    <3>1. s.kind = "full" /\ FolderOf[x] = f => s.read[x] > 0
      BY <1>1 DEF ReadsOK
    <3>2. s.kind = "full" /\ s.read[x] > 0 => x \in A
      BY <1>1 DEF ReadsOK
    <3> QED BY <3>1, <3>2
  <2> QED BY <2>1, <2>2, <2>3, <2>4
<1>5. ASSUME NEW x \in Files
      PROVE  /\ x \in A => /\ e'.folderSeen[x] = s.read[x] /\ e'.shown[x] = s.read[x]
                           /\ e'.fingerprint[x] = s.read[x]
                                \/ e'.fingerprint[x] = e.fingerprint[x]
             /\ x \notin A => /\ e'.folderSeen[x] = e.folderSeen[x]
                              /\ e'.shown[x] = e.shown[x]
                              /\ e'.fingerprint[x] = e.fingerprint[x]
                              /\ FolderOf[x] \in e'.complete => FolderOf[x] \in e.complete
  BY <1>2, <1>3, <1>4
<1>6. ASSUME NEW x \in Files, x \in A, s.read[x] # disk[x]
      PROVE  e'.fingerprint[x] # disk[x] /\ Noticed(e, x) /\ Noticed(e', x)
  <2>1. x \in Observed(s)
    BY <1>3, <1>6
  <2>2. ~\E v \in Versions : <<x, v>> \in s.told /\ v # s.read[x]
    BY <2>1 DEF Rejected
  <2>3. e.fingerprint[x] # disk[x] /\ Noticed(e, x)
    BY <1>1, <1>6, <2>2 DEF Waits
  <2>4. Noticed(e', x)
    BY <1>2, <1>5, <1>6, <2>3 DEF Noticed, Announced
  <2> QED BY <1>5, <1>6, <2>3, <2>4
<1>7. Typed(e')
  <2>1. /\ s.read \in [Watched -> Int] /\ s.want \in [Watched -> Int] /\ Files \subseteq Watched
    BY <1>1 DEF ReadsOK, Watched
  <2>2. /\ e.shown \in [Files -> Int] /\ e.fingerprint \in [Files -> Int]
        /\ e.folderSeen \in [Watched -> Int]
    BY <1>1 DEF Typed
  <2>3. e'.shown \in [Files -> Int]
    BY <1>2, <2>1, <2>2 DEF Nil
  <2>4. e'.fingerprint \in [Files -> Int]
    BY <1>2, <2>1, <2>2
  <2>5. e'.folderSeen \in [Watched -> Int]
    BY <1>2, <2>1, <2>2
  <2>6. ASSUME NEW x \in Files
        PROVE  e'.fingerprint[x] < happened + 2 /\ e'.folderSeen[x] < happened + 2
    <3>1. s.read[x] < happened + 2
      BY <1>1, <1>4 DEF DiskOK
    <3>2. e.fingerprint[x] < happened + 2 /\ e.folderSeen[x] < happened + 2
      BY <1>1 DEF Typed
    <3> QED BY <1>5, <3>1, <3>2
  <2> QED BY <1>1, <1>2, <2>3, <2>4, <2>5, <2>6 DEF Typed
<1>8. ASSUME NEW t \in e.scans, t # s, NEW x \in Files PROVE Waits(e', t, x)
  <2> SUFFICES ASSUME t.phase = "settle", ~t.changed, x \in t.accepted, t.read[x] # disk[x]
               PROVE  /\ e'.fingerprint[x] # disk[x]
                      /\ \/ \E v \in Versions : <<x, v>> \in t.told /\ v # t.read[x]
                         \/ Noticed(e', x)
    BY DEF Waits
  <2>1. /\ e.fingerprint[x] # disk[x]
        /\ \/ \E v \in Versions : <<x, v>> \in t.told /\ v # t.read[x]
           \/ Noticed(e, x)
    BY <1>1 DEF Fresh, ScansFresh, Waits
  <2>2. CASE x \notin A
    <3>1. Noticed(e, x) => Noticed(e', x)
      BY <1>2, <1>5, <2>2 DEF Noticed, Announced
    <3> QED BY <1>5, <2>1, <2>2, <3>1
  <2>3. CASE x \in A
    <3>1. Ordered(s, t) /\ Ordered(t, s) /\ TurnsOK(e, t) /\ ReadsOK(e, t)
      BY <1>1 DEF Fresh, ScansFresh
    <3>2. s.turn < t.turn
      <4>1. s.turn \in Nat /\ t.turn \in Nat /\ s.turn # t.turn
        BY <1>1, <1>8, <3>1 DEF TurnsOK, Ordered
      <4>2. t.ahead \in Nat
        <5>1. Len(e.contexts) \in Nat /\ t.ahead \in 0..Len(e.contexts)
          BY <1>1, <3>1, EventsCounted DEF TurnsOK
        <5> QED BY <5>1
      <4>3. t.ahead = 0 => s.turn <= t.turn
        BY DEF Settling
      <4>4. t.turn < s.turn => t.ahead <= s.ahead
        BY <3>1 DEF Ordered
      <4> QED BY <4>1, <4>2, <4>3, <4>4
    <3>3. s.read[x] <= t.read[x]
      BY <2>3, <3>1, <3>2 DEF Ordered
    <3>4. t.read[x] <= disk[x] /\ t.read[x] \in Int
      BY <1>4, <3>1 DEF ReadsOK
    <3>5. s.read[x] # disk[x]
      BY <1>4, <3>3, <3>4
    <3> QED BY <1>6, <2>3, <3>5
  <2> QED BY <2>2, <2>3
<1>9. ScansFresh(e')
  <2>1. \A u \in e'.scans : ReadsOK(e', u)
    BY <1>1, <1>2 DEF Fresh, ScansFresh, ReadsOK
  <2>2. \A u \in e'.scans : TurnsOK(e', u)
    BY <1>1, <1>2 DEF Fresh, ScansFresh, TurnsOK
  <2>3. \A u \in e'.scans, x \in Files : Waits(e', u, x)
    BY <1>2, <1>8
  <2>4. /\ \A u, v \in e'.scans : Ordered(u, v)
        /\ \A u, v \in e'.scans : u.kind = "files" /\ v.kind = "files" => u = v
        /\ \E n \in Nat : \A u \in e'.scans : u.turn <= n
    BY <1>1, <1>2 DEF Fresh, ScansFresh
  <2> QED BY <2>1, <2>2, <2>3, <2>4 DEF ScansFresh
<1>10. ASSUME NEW x \in Files PROVE Current(e', x)
  <2>1. CASE x \in A
    <3>1. CASE s.read[x] = disk[x]
      BY <1>5, <2>1, <3>1 DEF Current
    <3>2. CASE s.read[x] # disk[x]
      BY <1>6, <2>1, <3>2 DEF Current
    <3> QED BY <3>1, <3>2
  <2>2. CASE x \notin A
    <3>1. Current(e, x)
      BY <1>1
    <3>2. InBatch(e, x) => InBatch(e', x)
      <4>1. ASSUME NEW u \in e.scans, u.phase \in {"submitted", "queued", "report"}
                                      \/ x \in u.accepted
            PROVE  u \in e'.scans
        BY <1>2, <2>2, <4>1
      <4> QED BY <4>1 DEF InBatch
    <3>3. Working(e, x) => Working(e', x)
      BY <1>2, <3>2 DEF Working, Held
    <3>4. Noticed(e, x) => Noticed(e', x)
      BY <1>2, <1>5, <2>2 DEF Noticed, Announced
    <3> QED BY <1>2, <1>5, <2>2, <3>1, <3>3, <3>4 DEF Current
  <2> QED BY <2>1, <2>2
<1> QED BY <1>1, <1>7, <1>9, <1>10, EditorKept DEF Fresh

\* A settled request retries what changed under it, or is accepted.
LEMMA SettleFresh ==
  ASSUME RefreshAssumption, FilesInv, Sound(e'), NEW s \in e.scans, Settle(s)
  PROVE  FilesInv'
<1>1. /\ s.phase = "settle" /\ s.ahead = 0 /\ UNCHANGED <<disk, undelivered, happened>>
      /\ \A t \in Settling : t.ahead = 0 => s.turn <= t.turn
  BY DEF Settle
<1>2. CASE s.changed \/ Rejected(s)
  BY <1>1, <1>2, RetryFresh DEF Settle
<1>3. CASE ~(s.changed \/ Rejected(s))
  BY <1>1, <1>3, AcceptedFresh DEF Settle
<1> QED BY <1>2, <1>3

-----------------------------------------------------------------------------
(* Closed files stay current.                                              *)

\* Nothing is covered in the beginning.
LEMMA InitFresh ==
  ASSUME RefreshAssumption, Init
  PROVE  FilesInv
<1>1. disk = [w \in Watched |-> 1] /\ happened = 0
  BY DEF Init
<1>2. DiskOK
  BY <1>1 DEF DiskOK, RefreshAssumption
<1>3. PICK found \in SUBSET Folders :
       e = [marked |-> found, disposed |-> FALSE, pendingRefresh |-> found,
          refreshTimer |-> IF found = {} THEN "none" ELSE "folders",
          pendingFiles |-> [x \in Items |-> "no"], fileTimer |-> FALSE,
          missing |-> {}, fingerprint |-> [x \in Files |-> Nil],
          complete |-> {}, shown |-> [x \in Files |-> Nil],
          document |-> [d \in Documents |-> "none"], opening |-> Documents,
          folderSeen |-> Blank, known |-> {}, sourceSeen |-> [x \in Items |-> Blank],
          contexts |-> <<>>, scans |-> {}, flush |-> IdleFlush]
  BY DEF Init
<1>4. /\ e.complete = {} /\ e.scans = {} /\ e.contexts = <<>> /\ e.folderSeen = Blank
      /\ e.shown = [x \in Files |-> Nil] /\ e.fingerprint = [x \in Files |-> Nil]
      /\ e.flush = IdleFlush
  BY <1>3
<1>5. Sound(e)
  BY InitKept
<1>6. Typed(e)
  <2>1. e.contexts \in Seq([file : Watched, own : BOOLEAN])
    BY <1>4
  <2>2. e.shown \in [Files -> Int] /\ e.fingerprint \in [Files -> Int]
    BY <1>4 DEF Nil
  <2>3. e.folderSeen \in [Watched -> Int] /\ e.flush.selected \in [Watched -> Int]
    BY <1>4 DEF Nil, Blank, IdleFlush
  <2>4. \A x \in Files : e.fingerprint[x] < happened + 2 /\ e.folderSeen[x] < happened + 2
    BY <1>1, <1>4 DEF Nil, Blank, Watched
  <2> QED BY <2>1, <2>2, <2>3, <2>4 DEF Typed
<1>7. ScansFresh(e)
  <2>1. \E n \in Nat : \A s \in e.scans : s.turn <= n
    BY <1>4
  <2> QED BY <1>4, <2>1 DEF ScansFresh
<1>8. \A x \in Files : Current(e, x)
  BY <1>4 DEF Current
<1> QED BY <1>2, <1>5, <1>6, <1>7, <1>8 DEF FilesInv, Fresh

\* Every step keeps the invariant, as long as no file can vanish.
LEMMA StepFresh ==
  ASSUME RefreshAssumption, Vanishing = {}, FilesInv, [Next]_vars
  PROVE  FilesInv'
<1>1. Sound(e')
  <2>1. Sound(e)
    BY DEF FilesInv, Fresh
  <2> QED BY <2>1, StepKept DEF Kept
<1>2. CASE UNCHANGED vars
  <2>1. DiskOK /\ Fresh(e) /\ \A x \in Files : Current(e, x)
    BY DEF FilesInv
  <2>2. e' = e /\ UNCHANGED <<disk, undelivered, happened>>
    BY <1>2 DEF vars
  <2>3. Fresh(e') /\ \A x \in Files : Current(e', x)
    BY <2>1, <2>2
  <2> QED BY <2>1, <2>2, <2>3, EditorKept
<1>3. CASE World
  <2>1. ASSUME NEW x \in Files, Vanish(x) PROVE FALSE
    BY <2>1 DEF Vanish
  <2>2. CASE \E w \in Watched : Edit(w)
    BY <2>2, EditFresh
  <2>3. CASE \E f \in Folders : MoveRoot(f) \/ CheckWorkspace(f)
    BY <1>1, <2>3, MoveRootFresh, AskFresh
  <2>4. CASE \E d \in Documents : CheckByUser(d)
    BY <1>1, <2>4, AskFresh
  <2>5. CASE Dispose
    BY <1>1, <2>5, DisposeFresh
  <2> QED BY <1>3, <2>1, <2>2, <2>3, <2>4, <2>5 DEF World
<1>4. CASE Flush
  <2>1. CASE FlushDocument \/ FlushEnds
    BY <1>1, <2>1, TimerFresh, FlushEndsFresh
  <2>2. CASE \E x \in Items : FlushRead(x)
    BY <1>1, <2>2, FlushReadFresh
  <2>3. CASE \E f \in Folders : FlushBatch(f) \/ FlushCoverage(f)
    BY <1>1, <2>3, FlushBatchFresh, FlushCoverageFresh
  <2> QED BY <1>4, <2>1, <2>2, <2>3 DEF Flush
<1>5. ASSUME NEW s \in e.scans, Step(s) PROVE FilesInv'
  <2>1. CASE Wait(s) \/ Submit(s) \/ Run(s)
    BY <1>1, <2>1, LaneFresh
  <2>2. CASE Render(s)
    BY <1>1, <2>2, RenderFresh
  <2>3. CASE Observe(s)
    BY <1>1, <2>3, ObserveFresh
  <2> QED BY <1>5, <2>1, <2>2, <2>3 DEF Step
<1>6. CASE Editor
  <2>1. CASE \E w \in Watched : Deliver(w)
    BY <2>1, DeliverFresh
  <2>2. CASE \E d \in Documents : Activate(d)
    BY <1>1, <2>2, AskFresh
  <2>3. CASE Context
    BY <2>3, ContextKeptFresh
  <2>4. CASE RefreshFires \/ FileTimerFires
    BY <1>1, <2>4, RefreshFiresFresh, TimerFresh
  <2> QED BY <1>4, <1>5, <1>6, <2>1, <2>2, <2>3, <2>4 DEF Editor
<1>7. CASE Continue
  <2>1. CASE FlushTake
    BY <1>1, <2>1, FlushTakeFresh
  <2>2. CASE \E s \in e.scans : Settle(s)
    BY <1>1, <2>2, SettleFresh
  <2> QED BY <1>7, <2>1, <2>2 DEF Continue
<1> QED BY <1>2, <1>3, <1>6, <1>7 DEF Next

\* In a quiet editor nothing works on a file and no event is on its way.
LEMMA FreshIsCurrent == FilesInv => ClosedFilesAreCurrent
<1> SUFFICES ASSUME FilesInv, Quiet, NEW x \in Files, FolderOf[x] \in e.marked,
                    FolderOf[x] \in e.complete
             PROVE  e.shown[x] = disk[x]
  BY DEF ClosedFilesAreCurrent
<1>1. Sound(e) /\ Current(e, x) /\ x \in Items
  BY DEF FilesInv, Fresh, Items
<1>2. /\ undelivered = {} /\ e.contexts = <<>> /\ e.scans = {}
      /\ ~e.fileTimer /\ e.flush.phase = "idle"
  BY DEF Quiet, Flushing
<1>3. e.pendingFiles[x] = "no"
  BY <1>1, <1>2 DEF Sound, Armed
<1>4. e.flush.todo[x] = "no" /\ e.flush.met = {}
  BY <1>1, <1>2 DEF Sound, FlushOK
<1>5. ~Working(e, x)
  BY <1>2, <1>3, <1>4 DEF Working, InBatch
<1>6. ~Noticed(e, x)
  BY <1>2 DEF Noticed, Announced
<1> QED BY <1>1, <1>5, <1>6 DEF Current

\* While no file vanishes, a quiet editor shows of every closed file of a covered root
\* what is on the disk, however edits, echoes, retries, reports and flushes interleaved.
THEOREM ClosedFilesStayCurrent ==
  ASSUME RefreshAssumption, Vanishing = {}
  PROVE  Spec => []ClosedFilesAreCurrent
<1>1. Init => FilesInv
  BY InitFresh
<1>2. FilesInv /\ [Next]_vars => FilesInv'
  BY StepFresh
<1> QED BY <1>1, <1>2, FreshIsCurrent, PTL DEF Spec

=============================================================================
