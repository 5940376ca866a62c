----------------------------- MODULE Discovery -----------------------------
(***************************************************************************)
(* Loading a project (lint/discovery.go): the configuration, Git's listing,*)
(* the identity of an editor's buffer, the named targets, and the context  *)
(* of whatever they selected, read by several readers at once while other  *)
(* programs rewrite, replace, remove and redirect what is being read.      *)
(***************************************************************************)
EXTENDS Worktree

CONSTANTS
  Worlds,       \* the worktrees a load may start from
  Requests,     \* what a load may be asked for
  Contents,     \* what others write
  LinkTargets,  \* where others let a link lead
  IgnoreRules,  \* what others put into .gitignore
  MaxMoves,     \* bound: moves of others
  Readers       \* readers of one batch

(***************************************************************************)
(* Files and links to files are the leaves of a finite tree, Missing is no *)
(* name in use, and nothing of Git's own directory is a source.            *)
(***************************************************************************)
IsPath(p) == Len(p) \in Nat /\ p = [i \in 1..Len(p) |-> p[i]]

ASSUME PathsAssumption ==
  /\ IsFiniteSet(Paths) /\ \A p \in Paths : IsPath(p) /\ p # <<>>
  /\ \A p, q \in Paths : ~Under(p, q)
  /\ \A p \in Paths : ~IsPrefix(Missing, p)
                      /\ \A i \in 1..(Len(p) - 1) : p[i] # ".git"

ASSUME ContentsAssumption ==
  /\ Contents \subseteq DOMAIN Declares /\ DOMAIN Declares \subseteq DOMAIN Reads
  /\ \A c \in DOMAIN Declares :
       IsFiniteSet(Declares[c]) /\ IsFiniteSet(Reads[c])

\* Every file has an inode of its own, and the inodes have been numbered in turn.
FilesWellFormed(v) ==
  /\ v.file \in [Paths -> Nat]
  /\ IsFiniteSet(DOMAIN v.bytes)
  /\ v.bytes \in [1..Cardinality(DOMAIN v.bytes) ->
                    [data : DOMAIN Declares, version : Nat, home : Paths]]
  /\ \A p \in Paths : v.file[p] # 0 =>
       v.file[p] \in DOMAIN v.bytes /\ v.bytes[v.file[p]].home = p

\* Nothing lies below a link's own name, and one that is not among the paths leads
\* to a directory or nowhere.
LinksWellFormed(v) ==
  /\ \A l \in DOMAIN v.link :
       /\ IsPath(l) /\ l # <<>> /\ IsPath(v.link[l]) /\ ~IsPrefix(Missing, l)
       /\ \A q \in Paths \cup DOMAIN v.link : ~Under(l, q) /\ ~Under(q, l)
       /\ l \in Paths \/ ~IsFile(v, Resolve(v, l))

WellFormed(v) ==
  /\ {"file", "link", "bytes", "ignored", "narrow"} \subseteq DOMAIN v
  /\ FilesWellFormed(v) /\ LinksWellFormed(v)
  /\ \A x \in ExcludePaths(v) : IsPath(x)

ASSUME WorldsAssumption == \A v \in Worlds : WellFormed(v)

\* What is typed leads through at most the two links that Resolve follows.
ASSUME RequestsAssumption ==
  \A r \in Requests :
    /\ IsPath(r.paths) /\ \A t \in ToSet(r.paths) : IsPath(t)
    /\ IsPath(r.stdin) /\ IsPath(r.source)
    /\ r.content \in DOMAIN Declares
    /\ \A t \in ToSet(r.paths) : \A v \in Worlds : \A l \in DOMAIN v.link :
         ~Under(l, AbsoluteTarget(v, t))

VARIABLES
  w,         \* the worktree
  fresh,     \* the next inode
  moves,     \* moves of others so far
  pc,        \* the phase of the load
  req,       \* what it was asked for
  prefixes,  \* exclude_paths, as read
  listing,   \* Git's listing, as read
  answers,   \* what Git said about ignored names so far
  buffer,    \* the editor's buffer: path, owner, whether it is a template
  spelled,   \* <<absolute, spelling>> of the template spellings
  jobs,      \* targets, files and directories of the phase still to do
  job,       \* the one being done
  slots,     \* the result slots of its readers
  project,   \* the project built so far
  calm       \* observed: nobody else moved since the load began

world == <<w, fresh, moves>>
policy == <<prefixes, listing, answers>>
naming == <<buffer, spelled>>
work == <<jobs, job, slots>>
vars == <<world, pc, req, policy, naming, work, project, calm>>

NoJob == [op |-> "none", path |-> <<>>, selected |-> FALSE, owner |-> <<>>,
          absolute |-> <<>>, directory |-> FALSE]
NoSlots == [p \in {} |-> 0]
NoBuffer == [path |-> Missing, owner |-> Missing, template |-> FALSE, source |-> <<>>]
EmptyProject ==
  [sources |-> [p \in {} |-> 0], selected |-> {}, discoverable |-> {},
   directories |-> [d \in {} |-> ""], spellings |-> {}, excludedAny |-> FALSE]

\* A request: the paths as typed, the buffer's name and its original spelling
\* (<<>> for none), its content, and whether references are asked for.
Refused(r) ==
  \/ r.paths = <<>> /\ r.stdin = <<>>
  \/ r.source # <<>> /\ r.stdin = <<>>

Init ==
  /\ w \in Worlds
  /\ fresh = 1 + Cardinality(DOMAIN w.bytes) /\ moves = 0
  /\ pc = "idle" /\ req \in Requests
  /\ prefixes = {} /\ listing = {} /\ answers = [n \in {} |-> FALSE]
  /\ buffer = NoBuffer /\ spelled = {}
  /\ jobs = <<>> /\ job = NoJob /\ slots = NoSlots
  /\ project = EmptyProject /\ calm = TRUE

-----------------------------------------------------------------------------
(***************************************************************************)
(* What others do meanwhile.                                               *)
(***************************************************************************)

Ended == pc \in {"done", "failed"}

Moved(next) ==
  /\ moves < MaxMoves /\ ~Ended /\ pc # "idle"
  /\ w' = next /\ moves' = moves + 1 /\ calm' = FALSE
  /\ UNCHANGED <<pc, req, policy, naming, work, project>>

\* In place: whoever has the file open sees its time of modification change.
OthersRewrite(p) == \E c \in Contents :
  /\ w.file[p] # 0 /\ UNCHANGED fresh
  /\ Moved([w EXCEPT !.bytes[w.file[p]] =
                        [data |-> c, version |-> @.version + 1, home |-> @.home]])

\* By renaming a new file over the old one.
OthersReplace(p) == \E c \in Contents :
  /\ fresh' = fresh + 1
  /\ Moved([w EXCEPT !.file[p] = fresh,
                     !.bytes = [i \in DOMAIN @ \cup {fresh} |->
                        IF i = fresh THEN [data |-> c, version |-> 0, home |-> p]
                        ELSE @[i]]])

OthersRemove(p) ==
  /\ w.file[p] # 0 /\ UNCHANGED fresh /\ Moved([w EXCEPT !.file[p] = 0])

OthersRedirect(l) == \E target \in LinkTargets \ {w.link[l]} :
  /\ UNCHANGED fresh /\ Moved([w EXCEPT !.link[l] = target])

\* A file becomes a link: whoever resolved it before holds its plain name.
OthersLink(p) == \E target \in LinkTargets \ {p} :
  /\ w.file[p] # 0 /\ UNCHANGED fresh
  /\ Moved([w EXCEPT !.file[p] = 0,
                     !.link = [q \in DOMAIN @ \cup {p} |->
                                 IF q = p THEN target ELSE @[q]]])

OthersIgnore == \E rules \in IgnoreRules :
  /\ w.git /\ UNCHANGED fresh /\ Moved([w EXCEPT !.ignored = rules])

Others ==
  \/ \E p \in Paths \ DOMAIN w.link :
       OthersRewrite(p) \/ OthersReplace(p) \/ OthersRemove(p) \/ OthersLink(p)
  \/ \E l \in DOMAIN w.link : OthersRedirect(l)
  \/ OthersIgnore

-----------------------------------------------------------------------------
(***************************************************************************)
(* Before anything is selected.                                            *)
(***************************************************************************)

Fail ==
  /\ pc' = "failed" /\ project' = EmptyProject
  /\ jobs' = <<>> /\ job' = NoJob /\ slots' = NoSlots
  /\ UNCHANGED <<world, req, policy, naming, calm>>

Configure ==
  /\ pc = "idle"
  /\ \/ (Refused(req) \/ IdentityFails(w) \/ ~ConfigurationValid(w)) /\ Fail
     \/ /\ ~Refused(req) /\ ~IdentityFails(w) /\ ConfigurationValid(w)
        /\ pc' = "list" /\ prefixes' = ExcludePaths(w)
        /\ UNCHANGED <<world, req, listing, answers, naming, work, project, calm>>

\* An escaped control refuses the load before Git could read it.
ListSources ==
  /\ pc = "list"
  /\ \/ ~ControlsAdmitted(w) /\ Fail
     \/ /\ ControlsAdmitted(w)
        /\ pc' = "identify" /\ listing' = IF w.git THEN GitListing(w) ELSE {}
        /\ UNCHANGED <<world, req, prefixes, answers, naming, work, project, calm>>

\* stdinIdentity: a new buffer has a logical name, a dangling link has none.
BufferOwner(p) ==
  IF Owned(w, p) # Missing THEN Owned(w, p)
  ELSE IF Inside(p) /\ p \notin DOMAIN w.link THEN p ELSE Escaped

\* Only a spelling below the root says where a template lies.  Paths are relative
\* to the root, so a name outside it that leads back to it by an alias of the root
\* is not among them, nor the search of its ancestors for that alias.
Spelling(typed) == IF Inside(typed) THEN typed ELSE <<>>

\* The name of the buffer, and its original spelling, which has to lead to the
\* same owner.
IdentifyBuffer ==
  LET path == AbsoluteTarget(w, req.stdin)
      owner == BufferOwner(path)
      template == IsTemplateFile(w, req.stdin) \/ IsTemplateFile(w, path)
      either == template \/ (req.source # <<>> /\ IsTemplateFile(w, req.source))
  IN /\ pc = "identify"
     /\ \/ /\ req.stdin = <<>> /\ pc' = "spell" /\ UNCHANGED naming
           /\ UNCHANGED <<world, req, policy, work, project, calm>>
        \/ /\ req.stdin # <<>>
           /\ \/ path = Missing \/ owner \in Refusals
              \/ req.source # <<>> /\ Owned(w, req.source) # owner
           /\ Fail
        \/ /\ req.stdin # <<>> /\ path # Missing /\ owner \notin Refusals
           /\ req.source # <<>> => Owned(w, req.source) = owner
           /\ buffer' = [path |-> path, owner |-> owner, template |-> either,
                         source |-> req.source]
           /\ spelled' = (IF template THEN {<<path, Spelling(req.stdin)>>} ELSE {})
                \cup (IF either /\ req.source # <<>>
                      THEN {<<path, Spelling(req.source)>>} ELSE {})
           /\ pc' = "spell"
           /\ UNCHANGED <<world, req, policy, work, project, calm>>

\* Template spellings are taken down, target by target, before a directory can
\* admit the same file as YAML; the targets follow, the buffer last.
Target(typed) == [NoJob EXCEPT !.op = "target", !.selected = TRUE, !.path = typed]
SpelledAsTemplate(t) == IsFile(w, Resolve(w, t)) /\ IsTemplateFile(w, t)

RememberSpelling ==
  LET typed == req.paths[Len(jobs) + 1]
      absolute == AbsoluteTarget(w, typed)
      escapes == SpelledAsTemplate(typed) /\ Owned(w, absolute) \in Refusals
  IN /\ pc = "spell" /\ Len(jobs) < Len(req.paths)
     /\ \/ (absolute = Missing \/ escapes) /\ Fail
        \/ /\ absolute # Missing /\ ~escapes
           /\ spelled' = IF SpelledAsTemplate(typed)
                         THEN spelled \cup {<<absolute, Spelling(typed)>>} ELSE spelled
           /\ jobs' = Append(jobs, Target(typed))
           /\ UNCHANGED <<world, pc, req, policy, buffer, job, slots, project, calm>>

EndSpellings ==
  /\ pc = "spell" /\ Len(jobs) = Len(req.paths) /\ pc' = "targets"
  /\ jobs' = IF req.stdin = <<>> THEN jobs ELSE Append(jobs, Target(req.stdin))
  /\ UNCHANGED <<world, req, policy, naming, job, slots, project, calm>>

-----------------------------------------------------------------------------
(***************************************************************************)
(* One job at a time.                                                      *)
(***************************************************************************)

Working == pc \in {"targets", "files", "directories", "references", "scopes"}
Idle == Working /\ job = NoJob

Skip ==
  /\ job' = NoJob /\ slots' = NoSlots
  /\ UNCHANGED <<world, pc, req, prefixes, listing, naming, jobs, calm>>

TakeJob ==
  /\ Idle /\ jobs # <<>>
  /\ job' = Head(jobs) /\ jobs' = Tail(jobs)
  /\ UNCHANGED <<world, pc, req, policy, naming, slots, project, calm>>

Doing(op) == Working /\ job.op = op

\* A template spelling of a directory that leads to YAML selects nothing: its
\* files would be writable without the spelling's read-only status.
TemplateDirectory(d) == IsTemplate(Append(d, "source"))
DisguisedDirectory(typed, absolute) ==
  TemplateDirectory(typed) /\ ~w.narrow /\ ~TemplateDirectory(absolute)

\* The target as typed, and its owner.
AdmitSpelling ==
  LET absolute == AbsoluteTarget(w, job.path) IN
  /\ Doing("target")
  /\ \/ /\ absolute = buffer.path /\ absolute # Missing
        /\ job' = [job EXCEPT !.op = "file", !.path = absolute]
        /\ UNCHANGED <<world, pc, req, policy, naming, jobs, slots, project, calm>>
     \/ /\ absolute # buffer.path \/ absolute = Missing
        /\ absolute = Missing \/ ~Exists(w, absolute) \/ Owned(w, job.path) \in Refusals
        /\ Fail
     \/ /\ absolute # Missing /\ absolute # buffer.path /\ Exists(w, absolute)
        /\ Owned(w, job.path) \notin Refusals
        /\ job' = [job EXCEPT !.op = "admit", !.owner = Owned(w, job.path),
                     !.absolute = absolute, !.directory = IsDirectory(w, absolute)]
        /\ UNCHANGED <<world, pc, req, policy, naming, jobs, slots, project, calm>>

\* The target again without its aliases: another owner by now refuses the load.
\* Its absolute name, and what that was, are of the first look.
AdmitTarget ==
  /\ Doing("admit")
  /\ \/ Owned(w, job.absolute) # job.owner /\ Fail
     \/ /\ Owned(w, job.absolute) = job.owner
        /\ IF job.directory /\ DisguisedDirectory(job.path, job.absolute)
           THEN Skip /\ UNCHANGED <<answers, project>>
           ELSE /\ project' = [project EXCEPT !.spellings =
                                 @ \cup {<<job.path, job.owner>>}]
                /\ job' = [job EXCEPT !.path = job.absolute,
                             !.op = IF job.directory THEN "directory" ELSE "file"]
                /\ UNCHANGED <<world, pc, req, policy, naming, jobs, slots, calm>>

\* exclusionReasons keeps what Git answered for the rest of the load.
Asked(paths) ==
  LET asked == UNION {NamesForGit(w, p) : p \in
                 {p \in paths : /\ ~ExcludedBy(prefixes, p)
                                /\ Owned(w, p) \notin Refusals =>
                                     ~ExcludedBy(prefixes, Owned(w, p))}}
  IN answers' = [n \in DOMAIN answers \cup (IF w.git THEN asked ELSE {}) |->
                   IF n \in DOMAIN answers THEN answers[n] ELSE IgnoredByGit(w, n)]

IsExcluded(p) == Excluded(w, prefixes, answers, p)
Spellings(p) == {s[2] : s \in {s \in spelled : s[1] = p}}
HasSpelling(p) == \E s \in spelled : s[1] = p

NewSlot(excluded) ==
  [stage |-> "resolve", owner |-> Missing, inode |-> 0, version |-> 0,
   data |-> "", excluded |-> excluded, template |-> FALSE, overlaid |-> FALSE]

\* add, up to the reading: an explicit file is kept even when it is excluded,
\* as a snapshot nobody parses.
OpenFile ==
  LET p == job.path IN
  /\ Doing("file")
  /\ \/ ~Inside(p) /\ Fail
     \/ Inside(p) /\ ~Supported(p) /\ ~IsTemplateFile(w, p) /\ ~HasSpelling(p) /\ Fail
     \/ /\ Inside(p) /\ (Supported(p) \/ IsTemplateFile(w, p) \/ HasSpelling(p))
        /\ Asked({p})
        /\ IF IsExcluded(p) /\ ~job.selected THEN Skip /\ UNCHANGED project
           ELSE /\ job' = [job EXCEPT !.op = "read"]
                /\ slots' = IF p \in DOMAIN project.sources THEN NoSlots
                            ELSE [q \in {p} |-> NewSlot(IsExcluded(p))]
                /\ UNCHANGED <<world, pc, req, prefixes, listing, naming, jobs,
                               project, calm>>

\* A context file is read when it exists, is listed and is not excluded.
OpenContextFile ==
  LET p == job.path IN
  /\ Doing("context")
  /\ \/ ~IsExcluded(p) /\ Owned(w, p) = Escaped /\ Fail
     \/ /\ IsExcluded(p) \/ Owned(w, p) # Escaped
        /\ Asked({p})
        /\ IF \/ IsExcluded(p) \/ Owned(w, p) = Missing
              \/ w.git /\ pc = "files" /\ p \notin listing
           THEN Skip /\ UNCHANGED project
           ELSE /\ job' = [job EXCEPT !.op = "file"]
                /\ UNCHANGED <<world, pc, req, prefixes, listing, naming, jobs,
                               slots, project, calm>>

\* The directories the selected sources' references are looked for in.
Selected == {project.sources[p] : p \in project.selected}
ReferenceScope(d) ==
  /\ pc = "scopes" /\ \E s \in Selected : d \in ReferenceDirectories(s)

Observe(d, state) ==
  project' = [project EXCEPT !.directories =
                [e \in DOMAIN @ \cup {d} |-> IF e = d THEN state ELSE @[e]]]

\* contextDirectories, for one directory.
OpenContextDirectory ==
  LET d == job.path
      variables == d \in VariableDirectories
      again == d \in DOMAIN project.directories /\ (~variables \/ ~ReferenceScope(d))
  IN /\ Doing("scope")
     /\ \/ ~IsExcluded(d) /\ ~again /\ Owned(w, d) = Escaped /\ Fail
        \/ /\ IsExcluded(d) \/ again \/ Owned(w, d) # Escaped
           /\ Asked({d})
           /\ IF IsExcluded(d) \/ again THEN Skip /\ UNCHANGED project
              ELSE IF Owned(w, d) = Missing THEN Skip /\ Observe(d, "missing")
              ELSE /\ Observe(d, IF IsFile(w, Resolve(w, d)) THEN "non-directory"
                                 ELSE "directory")
                   /\ job' = [job EXCEPT !.op = IF variables /\ ~ReferenceScope(d)
                                                THEN "variables" ELSE "directory"]
                   /\ UNCHANGED <<world, pc, req, prefixes, listing, naming, jobs,
                                  slots, calm>>

\* directory and variableDirectory, with directorySources up to the reading.
ScanDirectory ==
  LET d == job.path
      offered == {p \in Candidates(w, listing, prefixes, d, job.selected) :
                    job.op = "variables" => VariableDeclarationPath(p)}
      kept == {p \in offered : ~IsExcluded(p)}
      skipped == ~w.git /\ \E p \in Paths : \E i \in (Len(d) + 1)..(Len(p) - 1) :
                   /\ w.file[p] # 0 /\ Under(d, p)
                   /\ ExcludedBy(prefixes, SubSeq(p, 1, i))
  IN /\ Working /\ job.op \in {"directory", "variables"}
     /\ Asked(offered)
     /\ spelled' = spelled \cup
          {<<p, p>> : p \in {p \in kept : /\ job.selected /\ ~HasSpelling(p)
                                          /\ w.narrow \/ IsTemplate(p)}}
     /\ project' = [project EXCEPT !.excludedAny =
                      @ \/ (job.selected /\ (skipped \/ kept # offered))]
     /\ slots' = [p \in kept |-> NewSlot(FALSE)]
     /\ job' = [job EXCEPT !.op = "batch"]
     /\ UNCHANGED <<world, pc, req, prefixes, listing, buffer, jobs, calm>>

-----------------------------------------------------------------------------
(***************************************************************************)
(* The readers.  Each owns the slot of one path; a read resolves the owner,*)
(* opens it under the opened root, reads, looks again, and then at names.  *)
(***************************************************************************)

Reading == job.op \in {"read", "batch"}
Settled == {"ready", "absent", "failed"}
InFlight == {p \in DOMAIN slots : slots[p].stage \in {"open", "data", "check", "name"}}

SetSlot(p, slot) ==
  /\ slots' = [slots EXCEPT ![p] = slot]
  /\ UNCHANGED <<world, pc, req, policy, naming, jobs, job, project, calm>>

\* A source of an earlier phase stays, except that a selected scan reads
\* generic YAML again to see its structure.
Kept(p) ==
  /\ job.op = "batch" /\ p \in DOMAIN project.sources
  /\ ~job.selected \/ Classified(p) # "generic"

\* The buffer itself is not read from disk, but its name must still be its own.
ReadBuffer(p) ==
  SetSlot(p, IF BufferOwner(p) = buffer.owner
             THEN [slots[p] EXCEPT !.stage = "name", !.owner = buffer.owner,
                                   !.data = req.content]
             ELSE [slots[p] EXCEPT !.stage = "failed"])

ReadResolve(p) ==
  /\ Reading /\ slots[p].stage = "resolve"
  /\ Cardinality(InFlight) < Readers
  /\ \/ /\ job.op = "batch" /\ w.git /\ Owned(w, p) = Missing
        /\ SetSlot(p, [slots[p] EXCEPT !.stage = "absent"])
     \/ /\ Kept(p) /\ (w.git => Owned(w, p) \notin Refusals)
        /\ SetSlot(p, [slots[p] EXCEPT !.stage = "kept"])
     \/ /\ ~Kept(p) /\ p = buffer.path
        /\ job.op = "batch" /\ w.git => Owned(w, p) \notin Refusals
        /\ ReadBuffer(p)
     \/ /\ ~Kept(p) /\ p # buffer.path /\ Owned(w, p) \notin Refusals
        /\ SetSlot(p, [slots[p] EXCEPT !.stage = "open", !.owner = Owned(w, p)])
     \/ /\ Owned(w, p) \in Refusals
        /\ ~(job.op = "batch" /\ w.git /\ Owned(w, p) = Missing)
        /\ ~(~w.git /\ Kept(p))
        /\ ~(p = buffer.path /\ ~(job.op = "batch" /\ w.git))
        /\ SetSlot(p, [slots[p] EXCEPT !.stage = "failed"])

\* Opened below the root by the owner's name, which has to be a regular file of
\* its own, not a link put there meanwhile.
ReadOpen(p) ==
  LET owner == slots[p].owner IN
  /\ Reading /\ slots[p].stage = "open"
  /\ IF owner \notin DOMAIN w.link /\ IsFile(w, owner)
     THEN SetSlot(p, [slots[p] EXCEPT !.stage = "data", !.inode = w.file[owner],
                                      !.version = w.bytes[w.file[owner]].version])
     ELSE SetSlot(p, [slots[p] EXCEPT !.stage = "failed"])

\* A file whose time of modification moved while it was open is refused.
ReadBytes(p) ==
  LET bytes == w.bytes[slots[p].inode] IN
  /\ Reading /\ slots[p].stage = "data"
  /\ SetSlot(p, [slots[p] EXCEPT
       !.stage = IF bytes.version = slots[p].version THEN "check" ELSE "failed",
       !.data = bytes.data])

\* The name still leads to the owner, and the owner is still the opened file.
ReadCheck(p) ==
  /\ Reading /\ slots[p].stage = "check"
  /\ SetSlot(p, [slots[p] EXCEPT !.stage =
       IF Owned(w, slots[p].owner) = slots[p].owner
          /\ IsFile(w, slots[p].owner) /\ w.file[slots[p].owner] = slots[p].inode
       THEN "name" ELSE "failed"])

\* One template buffer stands in for every admitted spelling of its owner.
FromBuffer(p) ==
  LET slot == slots[p] IN
  /\ p # buffer.path /\ buffer.template /\ slot.owner = buffer.owner
  /\ buffer.source # <<>> \/ IsTemplate(p) \/ IsTemplate(slot.owner)
     \/ IsTemplateFile(w, p)

BufferSpellings(p) ==
  IF slots[p].owner = buffer.owner /\ buffer.template /\ buffer.source # <<>>
  THEN Spellings(p) \cup Spellings(buffer.path) ELSE Spellings(p)

\* Whatever spelling led to it, a template is read as a template.
ReadAsTemplate(p) ==
  \/ BufferSpellings(p) # {}
  \/ buffer.source # <<>> /\ slots[p].owner = buffer.owner /\ buffer.template
  \/ IsTemplate(slots[p].owner) \/ IsTemplate(p)
  \/ IsTemplateFile(w, p)

\* The buffer's original spelling is looked at once more.
SpellingMoved(p) ==
  /\ buffer.source # <<>> /\ slots[p].owner = buffer.owner
  /\ Owned(w, buffer.source) # buffer.owner

\* readSource, once the bytes are there: which names lead to them now.
ReadName(p) ==
  /\ Reading /\ slots[p].stage = "name"
  /\ SetSlot(p, IF SpellingMoved(p) THEN [slots[p] EXCEPT !.stage = "failed"]
                ELSE [slots[p] EXCEPT !.stage = "ready", !.overlaid = FromBuffer(p),
                                      !.template = ReadAsTemplate(p)])

Read == \E p \in DOMAIN slots :
          \/ ReadResolve(p) \/ ReadOpen(p) \/ ReadBytes(p) \/ ReadCheck(p)
          \/ ReadName(p)

\* What its reader made of a name.
SourceOf(p) ==
  LET slot == slots[p]
      data == IF slot.overlaid THEN req.content ELSE slot.data
      named == IF slot.template THEN slot.owner ELSE p
  IN [path |-> p, owner |-> slot.owner, data |-> data,
      inode |-> IF slot.overlaid THEN 0 ELSE slot.inode,
      kind |-> IF slot.template THEN "template"
               ELSE IF slot.excluded THEN Classified(p) ELSE ParsedKind(p, data),
      role |-> Role(named), rolePath |-> RolePath(named),
      excluded |-> slot.excluded,
      spellings |-> IF slot.template THEN BufferSpellings(p) ELSE {}]

\* What a selected target or scan adds to the selection.
Chosen(admitted, kept) ==
  IF ~job.selected THEN {}
  ELSE IF job.op = "read" THEN {job.path} ELSE admitted \cup kept

\* Results are taken after every reader has joined, and the first failure ends
\* the load.
Publish ==
  LET ready == {p \in DOMAIN slots : slots[p].stage = "ready"}
      kept == {p \in DOMAIN slots : slots[p].stage = "kept"}
      sources == [p \in ready |-> SourceOf(p)]
      admitted == {p \in ready : job.op = "batch" =>
                     DirectoryAdmits(p, sources[p].kind, job.selected)}
      all == [p \in DOMAIN project.sources \cup admitted |->
                IF p \in admitted THEN sources[p] ELSE project.sources[p]]
  IN /\ Reading
     /\ \A p \in DOMAIN slots : slots[p].stage \in Settled \cup {"kept"}
     /\ \/ (\E p \in DOMAIN slots : slots[p].stage = "failed") /\ Fail
        \/ /\ \A p \in DOMAIN slots : slots[p].stage # "failed"
           /\ project' = [project EXCEPT
                !.sources = all, !.selected = @ \cup Chosen(admitted, kept),
                !.discoverable = IF job.op # "read" \/ ~job.selected THEN @
                  ELSE IF WouldSelect(w, listing, all[job.path])
                       THEN @ \cup {job.path} ELSE @ \ {job.path}]
           /\ Skip /\ UNCHANGED answers

-----------------------------------------------------------------------------
(***************************************************************************)
(* From one phase to the next.                                             *)
(***************************************************************************)

Jobs(op, paths) ==
  FoldSet(LAMBDA p, more : Append(more, [NoJob EXCEPT !.op = op, !.path = p]),
          <<>>, paths)

Phase(next, more) ==
  /\ pc' = next /\ jobs' = more
  /\ UNCHANGED <<world, req, policy, naming, job, slots, project, calm>>

NothingSelected == project.selected = {} /\ ~w.git /\ ~project.excludedAny

\* Mutant: a role some loaded source lies in is not scanned again.
MutScopesOnce ==
  {d \in UNION {ContextDirectories(s) : s \in Selected} :
     \A p \in DOMAIN project.sources : ~Under(Dir(d), p)}
ContextScopes == UNION {ContextDirectories(s) : s \in Selected}

EndTargets ==
  /\ pc = "targets" /\ Idle /\ jobs = <<>>
  /\ \/ NothingSelected /\ Fail
     \/ ~NothingSelected
        /\ Phase("files", Jobs("context", UNION {ContextFiles(s) : s \in Selected}))

EndFiles ==
  /\ pc = "files" /\ Idle /\ jobs = <<>>
  /\ Phase("directories", Jobs("scope", ContextScopes))

EndDirectories ==
  /\ pc = "directories" /\ Idle /\ jobs = <<>>
  /\ IF req.references /\ \E s \in Selected : ~s.excluded
     THEN Phase("references", Jobs("context", InventoryFiles \cup VariableFiles))
     ELSE Phase("done", <<>>)

EndReferences ==
  /\ pc = "references" /\ Idle /\ jobs = <<>>
  /\ Phase("scopes", Jobs("scope", ContextScopes
                     \cup UNION {ReferenceDirectories(s) : s \in Selected}))

EndScopes == pc = "scopes" /\ Idle /\ jobs = <<>> /\ Phase("done", <<>>)

\* The context may be canceled between any two steps.
Cancel == ~Ended /\ Fail

Load ==
  \/ Configure \/ ListSources \/ IdentifyBuffer
  \/ RememberSpelling \/ EndSpellings
  \/ TakeJob \/ AdmitSpelling \/ AdmitTarget
  \/ OpenFile \/ OpenContextFile \/ OpenContextDirectory \/ ScanDirectory
  \/ Read \/ Publish
  \/ EndTargets \/ EndFiles \/ EndDirectories \/ EndReferences \/ EndScopes
  \/ Cancel

Next == Load \/ Others
Spec == Init /\ [][Next]_vars

-----------------------------------------------------------------------------
(***************************************************************************)
(* Properties.                                                             *)
(***************************************************************************)

SourceKinds == {"generic", "defaults", "tasks", "handlers", "vars", "inventory",
                "playbook", "template"}

TypeOK ==
  /\ moves \in 0..MaxMoves
  /\ pc \in {"idle", "list", "identify", "spell", "targets", "files", "directories",
             "references", "scopes", "done", "failed"}
  /\ DOMAIN project.sources \cup DOMAIN slots \subseteq Paths \cup DOMAIN w.link
  /\ project.discoverable \subseteq project.selected
  /\ project.selected \subseteq DOMAIN project.sources
  /\ \A p \in DOMAIN project.sources : /\ project.sources[p].path = p
                                       /\ project.sources[p].kind \in SourceKinds

Loaded == {project.sources[p] : p \in DOMAIN project.sources}

\* However links are redirected while the readers work, the bytes of a source
\* come from the file that its recorded owner named, and the owner lies below
\* the root (readFileSnapshot, sourceDiskIdentity.validate).
BytesBelongToTheOwner ==
  \A s \in Loaded : s.inode # 0 =>
    Inside(s.owner) /\ w.bytes[s.inode].home = s.owner

\* No spelling, link or race makes YAML, which --fix may rewrite, of a file that
\* is a template by its name, by its owner or by the name it was asked for.
TemplatesStayReadOnly ==
  \A s \in Loaded :
    IsTemplate(s.path) \/ IsTemplate(s.owner) \/ HasSpelling(s.path)
      => s.kind = "template"

\* An excluded name is never parsed, whichever target, alias, scan or context
\* leads to it; nor is a name with an excluded owner while nobody redirects it.
ExcludedIsNeverParsed ==
  \A s \in Loaded : ~s.excluded =>
    /\ ~ExcludedBy(prefixes, s.path)
    /\ calm /\ s.path # buffer.path => ~IsExcluded(s.path)

\* What a scan of the root selects, told from the worktree alone.
ScannedKind(p) ==
  IF w.narrow \/ IsTemplate(p) \/ IsTemplate(Owned(w, p)) THEN "template"
  ELSE ParsedKind(p, Data(w, Owned(w, p)))

RootScan ==
  {p \in Candidates(w, listing, prefixes, <<>>, TRUE) :
     /\ ~Excluded(w, prefixes, [n \in {} |-> FALSE], p)
     /\ Owned(w, p) \notin Refusals /\ IsFile(w, Owned(w, p))
     /\ DirectoryAdmits(p, ScannedKind(p), TRUE)}

\* explain's directory_would_select agrees with what a scan of the root would
\* do, for a file asked for by a name of its own.  Two spellings admit what no scan
\* offers, and are the exceptions: a template spelling through a directory alias,
\* and a link to a template where a scan looks at nothing (see the README).
DiscoverableIsScanned ==
  pc = "done" /\ calm /\ req.stdin = <<>> =>
    \A t \in ToSet(req.paths) :
      LET p == AbsoluteTarget(w, t) IN
      p \in project.selected /\ IsFile(w, Resolve(w, p))
        /\ (\A s \in Spellings(p) : s = p) /\ (DirectorySource(p, TRUE) \/ w.narrow)
        => (p \in project.discoverable <=> p \in RootScan)

\* A finished load holds the whole context of what it selected: every eligible
\* name below every directory the rules of a selected source read.
ContextIsComplete ==
  pc = "done" /\ calm =>
    \A s \in Selected : \A d \in ContextDirectories(s) :
      \A p \in Candidates(w, listing, prefixes, d, FALSE) :
        /\ ~IsExcluded(p) /\ ~IsExcluded(d)
        /\ Owned(w, p) \notin Refusals /\ IsFile(w, Owned(w, p))
        /\ d \in VariableDirectories => VariableDeclarationPath(p)
        => p \in DOMAIN project.sources
=============================================================================
