---------------------------- MODULE MCLoadProofs ----------------------------
(***************************************************************************)
(* Proofs about the loads of MCLoad, for any worktrees, requests, paths,   *)
(* contents and numbers of readers and of moves of others.                 *)
(***************************************************************************)
EXTENDS MCLoad, FiniteSetTheorems, SequenceTheorems, WellFoundedInduction, TLAPS

-----------------------------------------------------------------------------
(***************************************************************************)
(* Whose bytes a source holds, and what it is read as.                     *)
(***************************************************************************)

Bytes == [data : DOMAIN Declares, version : Nat, home : Paths]

\* Inodes are never used again, and a name leads to an inode of its own.
WorldInv ==
  /\ {"file", "link", "bytes", "ignored", "narrow"} \subseteq DOMAIN w
  /\ fresh \in Nat \ {0}
  /\ w.file \in [Paths -> Nat]
  /\ w.bytes \in [1..(fresh - 1) -> Bytes]
  /\ \A p \in Paths : w.file[p] # 0 =>
       w.file[p] \in 1..(fresh - 1) /\ w.bytes[w.file[p]].home = p

\* Nothing is loaded, and nobody reads, before the targets are taken.
PhaseInv ==
  /\ DOMAIN project = DOMAIN EmptyProject
  /\ ~Working => job = NoJob
  /\ pc \in {"idle", "list", "identify", "spell"} =>
       project = EmptyProject /\ slots = NoSlots
  /\ pc \in {"idle", "list", "identify"} => jobs = <<>>

\* Bytes of inode i belong to owner.
Belongs(i, owner) ==
  i # 0 => Inside(owner) /\ i \in DOMAIN w.bytes /\ w.bytes[i].home = owner

\* What may be parsed is not excluded, as far as anybody can tell.
Parsable(p) == ~ExcludedBy(prefixes, p) /\ (calm => ~IsExcluded(p))

SlotFields == {"stage", "owner", "inode", "version", "data", "excluded", "template",
               "overlaid"}

\* A name, the owner, what it was asked for as or a narrowed root make a template.
NamesTemplate(p, owner) ==
  IsTemplate(p) \/ IsTemplate(owner) \/ HasSpelling(p) \/ w.narrow

SlotOK(p) ==
  /\ DOMAIN slots[p] = SlotFields
  /\ slots[p].stage \in {"resolve", "open"} => slots[p].inode = 0
  /\ slots[p].stage = "open" => Inside(slots[p].owner)
  /\ Belongs(slots[p].inode, slots[p].owner)
  /\ ~slots[p].excluded => Parsable(p)
  /\ slots[p].stage = "ready" /\ NamesTemplate(p, slots[p].owner) => slots[p].template

SlotsInv == \A p \in DOMAIN slots : SlotOK(p)

SourceOK(p) ==
  LET s == project.sources[p] IN
  /\ s.path = p
  /\ Belongs(s.inode, s.owner)
  /\ NamesTemplate(p, s.owner) => s.kind = "template"
  /\ ~s.excluded => Parsable(p)

SourcesInv == \A p \in DOMAIN project.sources : SourceOK(p)

ClaimInv == WorldInv /\ PhaseInv /\ SlotsInv /\ SourcesInv

-----------------------------------------------------------------------------
\* Git's answers are only added to, and with what Git says now.
AnswersGrow ==
  \E A : answers' = [n \in DOMAIN answers \cup A |->
                      IF n \in DOMAIN answers THEN answers[n] ELSE IgnoredByGit(w, n)]

LEMMA AskedGrows ==
  ASSUME NEW S, Asked(S) PROVE AnswersGrow
BY DEF Asked, AnswersGrow

\* Asking changes no answer that was given or would have been given.
LEMMA ExclusionStays ==
  ASSUME NEW p, w' = w, prefixes' = prefixes, answers' = answers \/ AnswersGrow
  PROVE  IsExcluded(p)' = IsExcluded(p)
<1>1. CASE answers' = answers
  BY <1>1 DEF IsExcluded
<1>2. CASE AnswersGrow
  <2>1. PICK A : answers' = [n \in DOMAIN answers \cup A |->
                      IF n \in DOMAIN answers THEN answers[n] ELSE IgnoredByGit(w, n)]
    BY <1>2 DEF AnswersGrow
  <2>2. \A n : (IF n \in DOMAIN answers' THEN answers'[n] ELSE IgnoredByGit(w, n))
             = (IF n \in DOMAIN answers THEN answers[n] ELSE IgnoredByGit(w, n))
    BY <2>1
  <2> QED BY <2>2 DEF IsExcluded, Excluded
<1> QED BY <1>1, <1>2

\* The steps of the load itself: the world, the policy read and the calm stay.
Still ==
  /\ w' = w /\ fresh' = fresh /\ calm' = calm /\ prefixes' = prefixes
  /\ answers' = answers \/ AnswersGrow

LEMMA StillParsable ==
  ASSUME Still, NEW p PROVE Parsable(p)' = Parsable(p)
BY ExclusionStays DEF Still, Parsable

LEMMA StillBelongs ==
  ASSUME Still, NEW i, NEW o PROVE Belongs(i, o)' = Belongs(i, o)
BY DEF Still, Belongs

LEMMA StillNames ==
  ASSUME w'.narrow = w.narrow, spelled' = spelled, NEW p, NEW o
  PROVE  NamesTemplate(p, o)' = NamesTemplate(p, o)
BY DEF NamesTemplate, HasSpelling

LEMMA StillSlots ==
  ASSUME Still, SlotsInv, slots' = slots, spelled' = spelled \/ slots = NoSlots
  PROVE  SlotsInv'
<1> SUFFICES ASSUME NEW p \in DOMAIN slots PROVE SlotOK(p)'
  BY DEF SlotsInv
<1>1. SlotOK(p) BY DEF SlotsInv
<1>2. Parsable(p)' = Parsable(p) BY StillParsable
<1>3. PICK i, o : i = slots[p].inode /\ o = slots[p].owner OBVIOUS
<1>4. Belongs(i, o)' = Belongs(i, o) BY StillBelongs
<1>5. NamesTemplate(p, o)' = NamesTemplate(p, o) BY StillNames DEF Still, NoSlots
<1> QED BY <1>1, <1>2, <1>3, <1>4, <1>5 DEF SlotOK

\* Spellings are added for templates only.
SpelledGrows ==
  \A p \in DOMAIN project.sources :
    HasSpelling(p)' => HasSpelling(p) \/ IsTemplate(p) \/ w.narrow

LEMMA StillSources ==
  ASSUME Still, SourcesInv, project'.sources = project.sources, SpelledGrows
  PROVE  SourcesInv'
<1> SUFFICES ASSUME NEW p \in DOMAIN project.sources PROVE SourceOK(p)'
  BY DEF SourcesInv
<1>1. SourceOK(p) BY DEF SourcesInv
<1>2. Parsable(p)' = Parsable(p) BY StillParsable
<1>3. PICK i, o : i = project.sources[p].inode /\ o = project.sources[p].owner OBVIOUS
<1>4. Belongs(i, o)' = Belongs(i, o) BY StillBelongs
<1>5. HasSpelling(p)' => HasSpelling(p) \/ IsTemplate(p) \/ w.narrow BY DEF SpelledGrows
<1>6. NamesTemplate(p, o)' => NamesTemplate(p, o) BY <1>5 DEF NamesTemplate, Still
<1> QED BY <1>1, <1>2, <1>3, <1>4, <1>6 DEF SourceOK

-----------------------------------------------------------------------------
LEMMA InitClaims == Init => ClaimInv
<1> SUFFICES ASSUME Init PROVE ClaimInv OBVIOUS
<1> USE DEF Init
<1>1. WorldInv
  <2>1. WellFormed(w) BY WorldsAssumption
  <2>2. Cardinality(DOMAIN w.bytes) \in Nat
    BY <2>1, FS_CardinalityType DEF WellFormed, FilesWellFormed
  <2> QED BY <2>1, <2>2 DEF WorldInv, WellFormed, FilesWellFormed, Bytes
<1>2. PhaseInv BY DEF PhaseInv, Working
<1>3. SlotsInv BY DEF SlotsInv, NoSlots
<1>4. SourcesInv BY DEF SourcesInv, EmptyProject
<1> QED BY <1>1, <1>2, <1>3, <1>4 DEF ClaimInv

\* A load that fails lets go of everything.
LEMMA FailClaims == ClaimInv /\ Fail => ClaimInv'
<1> SUFFICES ASSUME ClaimInv, Fail PROVE ClaimInv' OBVIOUS
<1> USE DEF Fail, world
<1>1. WorldInv' BY DEF ClaimInv, WorldInv
<1>2. PhaseInv' BY DEF PhaseInv, Working, EmptyProject
<1>3. SlotsInv' BY DEF SlotsInv, NoSlots
<1>4. SourcesInv' BY DEF SourcesInv, EmptyProject
<1> QED BY <1>1, <1>2, <1>3, <1>4 DEF ClaimInv

-----------------------------------------------------------------------------
(***************************************************************************)
(* The moves of others: whatever they do, an inode keeps its home.         *)
(***************************************************************************)

HomesKept ==
  /\ \A i \in DOMAIN w.bytes : i \in DOMAIN w'.bytes /\ w'.bytes[i].home = w.bytes[i].home
  /\ w'.narrow = w.narrow

LEMMA MovedClaims ==
  ASSUME ClaimInv, NEW next, Moved(next), WorldInv', HomesKept
  PROVE  ClaimInv'
<1> USE DEF Moved, policy, naming, work
<1>0. ~calm' /\ prefixes' = prefixes BY DEF Moved, policy
<1>1. PhaseInv' BY DEF ClaimInv, PhaseInv, Working
<1>2. ASSUME NEW i, NEW o, Belongs(i, o) PROVE Belongs(i, o)'
  BY <1>2 DEF Belongs, HomesKept
<1>3. ASSUME NEW p, Parsable(p) PROVE Parsable(p)'
  BY <1>0, <1>3 DEF Parsable
<1>4. SlotsInv'
  <2> SUFFICES ASSUME NEW p \in DOMAIN slots PROVE SlotOK(p)'
    BY DEF SlotsInv
  <2>1. SlotOK(p) BY DEF ClaimInv, SlotsInv
  <2>2. PICK i, o : i = slots[p].inode /\ o = slots[p].owner OBVIOUS
  <2>3. Belongs(i, o)' BY <1>2, <2>1, <2>2 DEF SlotOK
  <2>4. ~slots[p].excluded => Parsable(p)' BY <1>3, <2>1 DEF SlotOK
  <2>5. NamesTemplate(p, o)' = NamesTemplate(p, o) BY StillNames DEF HomesKept
  <2> QED BY <2>1, <2>2, <2>3, <2>4, <2>5 DEF SlotOK
<1>5. SourcesInv'
  <2> SUFFICES ASSUME NEW p \in DOMAIN project.sources PROVE SourceOK(p)'
    BY DEF SourcesInv
  <2>1. SourceOK(p) BY DEF ClaimInv, SourcesInv
  <2>2. PICK i, o : i = project.sources[p].inode /\ o = project.sources[p].owner OBVIOUS
  <2>3. Belongs(i, o)' BY <1>2, <2>1, <2>2 DEF SourceOK
  <2>4. ~project.sources[p].excluded => Parsable(p)' BY <1>3, <2>1 DEF SourceOK
  <2>5. NamesTemplate(p, o)' = NamesTemplate(p, o) BY StillNames DEF HomesKept
  <2> QED BY <2>1, <2>2, <2>3, <2>4, <2>5 DEF SourceOK
<1> QED BY <1>1, <1>4, <1>5 DEF ClaimInv

\* What rewriting in place makes of a file's bytes.
Rewritten(b, c) == [data |-> c, version |-> b.version + 1, home |-> b.home]

LEMMA OthersClaim == ClaimInv /\ Others => ClaimInv'
<1> SUFFICES ASSUME ClaimInv, Others PROVE ClaimInv' OBVIOUS
<1>0. WorldInv BY DEF ClaimInv
<1>1. ASSUME NEW p \in Paths \ DOMAIN w.link, OthersRewrite(p) PROVE ClaimInv'
  <2>1. PICK c \in Contents :
          /\ w.file[p] # 0 /\ UNCHANGED fresh
          /\ Moved([w EXCEPT !.bytes[w.file[p]] = Rewritten(@, c)])
    BY <1>1 DEF OthersRewrite, Rewritten
  <2>2. w' = [w EXCEPT !.bytes[w.file[p]] = Rewritten(@, c)]
    BY <2>1 DEF Moved
  <2>3. PICK i, b : i = w.file[p] /\ b = w.bytes[i] OBVIOUS
  <2>4. /\ w'.file = w.file /\ w'.narrow = w.narrow /\ DOMAIN w' = DOMAIN w
        /\ w'.bytes = [w.bytes EXCEPT ![i] = Rewritten(b, c)]
    BY <1>0, <2>2, <2>3 DEF WorldInv
  <2>5. i \in 1..(fresh - 1) /\ b \in Bytes BY <1>0, <2>1, <2>3 DEF WorldInv
  <2>6. Rewritten(b, c) \in Bytes /\ Rewritten(b, c).home = b.home
    <3>1. c \in DOMAIN Declares BY ContentsAssumption
    <3> QED BY <2>5, <3>1 DEF Rewritten, Bytes
  <2>7. /\ w'.bytes \in [1..(fresh - 1) -> Bytes]
        /\ \A k \in 1..(fresh - 1) : w'.bytes[k].home = w.bytes[k].home
    BY <1>0, <2>3, <2>4, <2>5, <2>6 DEF WorldInv
  <2>8. WorldInv' BY <1>0, <2>1, <2>4, <2>7 DEF WorldInv
  <2>9. HomesKept BY <1>0, <2>4, <2>7 DEF WorldInv, HomesKept
  <2> QED BY <2>1, <2>8, <2>9, MovedClaims
<1>2. ASSUME NEW p \in Paths \ DOMAIN w.link, OthersReplace(p) PROVE ClaimInv'
  <2> DEFINE new(c) == [w EXCEPT !.file[p] = fresh,
                     !.bytes = [i \in DOMAIN @ \cup {fresh} |->
                        IF i = fresh THEN [data |-> c, version |-> 0, home |-> p]
                        ELSE @[i]]]
  <2>1. PICK c \in Contents : fresh' = fresh + 1 /\ Moved(new(c))
    BY <1>2 DEF OthersReplace
  <2>2. w' = new(c) BY <2>1 DEF Moved
  <2>3. /\ w'.file = [w.file EXCEPT ![p] = fresh]
        /\ w'.narrow = w.narrow /\ DOMAIN w' = DOMAIN w
        /\ w'.bytes = [i \in DOMAIN w.bytes \cup {fresh} |->
                        IF i = fresh THEN [data |-> c, version |-> 0, home |-> p]
                        ELSE w.bytes[i]]
    BY <1>0, <2>2 DEF WorldInv
  <2>4. c \in DOMAIN Declares BY ContentsAssumption
  <2>5. DOMAIN w.bytes = 1..(fresh - 1) /\ fresh \in Nat \ {0} BY <1>0 DEF WorldInv
  <2>6. w'.bytes \in [1..(fresh' - 1) -> Bytes]
    <3>1. DOMAIN w'.bytes = 1..(fresh' - 1) BY <2>1, <2>3, <2>5
    <3>2. \A i \in DOMAIN w'.bytes : w'.bytes[i] \in Bytes
      BY <1>0, <2>3, <2>4, <2>5 DEF WorldInv, Bytes
    <3> QED BY <2>3, <3>1, <3>2
  <2>7. HomesKept BY <2>3, <2>5 DEF HomesKept
  <2>8. WorldInv'
    <3>1. w'.file \in [Paths -> Nat] BY <1>0, <2>3, <2>5 DEF WorldInv
    <3>2. ASSUME NEW q \in Paths, w'.file[q] # 0
          PROVE  w'.file[q] \in 1..(fresh' - 1) /\ w'.bytes[w'.file[q]].home = q
      <4>1. CASE q = p
        BY <1>0, <2>1, <2>3, <2>5, <4>1 DEF WorldInv
      <4>2. CASE q # p
        <5>1. w'.file[q] = w.file[q] BY <1>0, <2>3, <4>2 DEF WorldInv
        <5>2. w.file[q] \in 1..(fresh - 1) /\ w.bytes[w.file[q]].home = q
          BY <1>0, <3>2, <5>1 DEF WorldInv
        <5> QED BY <2>1, <2>3, <2>5, <5>1, <5>2
      <4> QED BY <4>1, <4>2
    <3> QED BY <1>0, <2>1, <2>3, <2>5, <2>6, <3>1, <3>2 DEF WorldInv
  <2> QED BY <2>1, <2>7, <2>8, MovedClaims
<1>3. ASSUME NEW p \in Paths \ DOMAIN w.link, OthersRemove(p) PROVE ClaimInv'
  <2>1. UNCHANGED fresh /\ Moved([w EXCEPT !.file[p] = 0]) BY <1>3 DEF OthersRemove
  <2>2. /\ w'.file = [w.file EXCEPT ![p] = 0] /\ w'.bytes = w.bytes
        /\ w'.narrow = w.narrow /\ DOMAIN w' = DOMAIN w
    BY <1>0, <2>1 DEF WorldInv, Moved
  <2>3. WorldInv' BY <1>0, <2>1, <2>2 DEF WorldInv
  <2>4. HomesKept BY <2>2 DEF HomesKept
  <2> QED BY <2>1, <2>3, <2>4, MovedClaims
<1>4. ASSUME NEW p \in Paths \ DOMAIN w.link, OthersLink(p) PROVE ClaimInv'
  <2>1. PICK target : /\ UNCHANGED fresh
                      /\ Moved([w EXCEPT !.file[p] = 0,
                           !.link = [q \in DOMAIN @ \cup {p} |->
                                      IF q = p THEN target ELSE @[q]]])
    BY <1>4 DEF OthersLink
  <2>2. /\ w'.file = [w.file EXCEPT ![p] = 0] /\ w'.bytes = w.bytes
        /\ w'.narrow = w.narrow /\ DOMAIN w' = DOMAIN w
    BY <1>0, <2>1 DEF WorldInv, Moved
  <2>3. WorldInv' BY <1>0, <2>1, <2>2 DEF WorldInv
  <2>4. HomesKept BY <2>2 DEF HomesKept
  <2> QED BY <2>1, <2>3, <2>4, MovedClaims
<1>5. ASSUME NEW l \in DOMAIN w.link, OthersRedirect(l) PROVE ClaimInv'
  <2>1. PICK target : UNCHANGED fresh /\ Moved([w EXCEPT !.link[l] = target])
    BY <1>5 DEF OthersRedirect
  <2>2. /\ w'.file = w.file /\ w'.bytes = w.bytes
        /\ w'.narrow = w.narrow /\ DOMAIN w' = DOMAIN w
    BY <1>0, <2>1 DEF WorldInv, Moved
  <2>3. WorldInv' BY <1>0, <2>1, <2>2 DEF WorldInv
  <2>4. HomesKept BY <2>2 DEF HomesKept
  <2> QED BY <2>1, <2>3, <2>4, MovedClaims
<1>6. ASSUME OthersIgnore PROVE ClaimInv'
  <2>1. PICK rules : UNCHANGED fresh /\ Moved([w EXCEPT !.ignored = rules])
    BY <1>6 DEF OthersIgnore
  <2>2. /\ w'.file = w.file /\ w'.bytes = w.bytes
        /\ w'.narrow = w.narrow /\ DOMAIN w' = DOMAIN w
    BY <1>0, <2>1 DEF WorldInv, Moved
  <2>3. WorldInv' BY <1>0, <2>1, <2>2 DEF WorldInv
  <2>4. HomesKept BY <2>2 DEF HomesKept
  <2> QED BY <2>1, <2>3, <2>4, MovedClaims
<1> QED BY <1>1, <1>2, <1>3, <1>4, <1>5, <1>6 DEF Others

-----------------------------------------------------------------------------
(***************************************************************************)
(* The steps of the load.                                                  *)
(***************************************************************************)

\* A step that only decides what to do next.
LEMMA StillClaims ==
  ASSUME ClaimInv, Still, PhaseInv', SlotsInv', project'.sources = project.sources,
         SpelledGrows
  PROVE  ClaimInv'
<1>1. WorldInv' BY DEF ClaimInv, WorldInv, Still
<1>2. SourcesInv' BY StillSources DEF ClaimInv
<1> QED BY <1>1, <1>2 DEF ClaimInv

LEMMA QuietClaims ==
  ASSUME ClaimInv, Still, PhaseInv', slots' = slots, project'.sources = project.sources,
         spelled' = spelled
  PROVE  ClaimInv'
<1>1. SlotsInv' BY StillSlots DEF ClaimInv
<1>2. SpelledGrows BY DEF SpelledGrows, HasSpelling
<1> QED BY <1>1, <1>2, StillClaims

LEMMA ConfigureClaims == ClaimInv /\ Configure => ClaimInv'
<1> SUFFICES ASSUME ClaimInv, Configure PROVE ClaimInv' OBVIOUS
<1>1. CASE Fail BY <1>1, FailClaims
<1>2. CASE ~Fail
  <2>1. /\ pc = "idle" /\ pc' = "list" /\ project' = project /\ slots' = slots /\ job' = job
        /\ w' = w /\ fresh' = fresh /\ jobs' = jobs
    BY <1>2 DEF Configure, world, naming, work
  <2>2. project = EmptyProject /\ slots = NoSlots /\ job = NoJob /\ jobs = <<>>
    BY <2>1 DEF ClaimInv, PhaseInv, Working
  <2>3. WorldInv' BY <2>1 DEF ClaimInv, WorldInv
  <2>4. PhaseInv' BY <2>1, <2>2 DEF ClaimInv, PhaseInv, Working
  <2>5. SlotsInv' BY <2>1, <2>2 DEF SlotsInv, NoSlots
  <2>6. SourcesInv' BY <2>1, <2>2 DEF SourcesInv, EmptyProject
  <2> QED BY <2>3, <2>4, <2>5, <2>6 DEF ClaimInv
<1> QED BY <1>1, <1>2

LEMMA ListSourcesClaims == ClaimInv /\ ListSources => ClaimInv'
<1> SUFFICES ASSUME ClaimInv, ListSources PROVE ClaimInv' OBVIOUS
<1>1. CASE Fail BY <1>1, FailClaims
<1>2. CASE ~Fail
  <2>1. /\ pc = "list" /\ pc' = "identify"
        /\ UNCHANGED <<world, prefixes, answers, naming, work, project, calm>>
    BY <1>2 DEF ListSources
  <2>2. PhaseInv' BY <2>1 DEF ClaimInv, PhaseInv, Working, work
  <2> QED BY <2>1, <2>2, QuietClaims DEF Still, world, naming, work
<1> QED BY <1>1, <1>2

\* Spellings are written down before anything is loaded.
LEMMA SpellingClaims ==
  ASSUME ClaimInv, Still, PhaseInv', slots' = slots, project' = project,
         pc \in {"identify", "spell"}
  PROVE  ClaimInv'
<1>1. project = EmptyProject /\ slots = NoSlots BY DEF ClaimInv, PhaseInv
<1>2. SpelledGrows BY <1>1 DEF SpelledGrows, EmptyProject
<1>3. SlotsInv' BY <1>1, StillSlots DEF ClaimInv
<1> QED BY <1>2, <1>3, StillClaims

LEMMA IdentifyBufferClaims == ClaimInv /\ IdentifyBuffer => ClaimInv'
<1> SUFFICES ASSUME ClaimInv, IdentifyBuffer PROVE ClaimInv' OBVIOUS
<1>1. CASE Fail BY <1>1, FailClaims
<1>2. CASE ~Fail
  <2>1. /\ pc = "identify" /\ pc' = "spell"
        /\ UNCHANGED <<world, policy, work, project, calm>>
    BY <1>2 DEF IdentifyBuffer
  <2>2. PhaseInv' BY <2>1 DEF ClaimInv, PhaseInv, Working, work
  <2> QED BY <2>1, <2>2, SpellingClaims DEF Still, world, policy, work
<1> QED BY <1>1, <1>2

LEMMA RememberSpellingClaims == ClaimInv /\ RememberSpelling => ClaimInv'
<1> SUFFICES ASSUME ClaimInv, RememberSpelling PROVE ClaimInv' OBVIOUS
<1>1. CASE Fail BY <1>1, FailClaims
<1>2. CASE ~Fail
  <2>1. /\ pc = "spell"
        /\ UNCHANGED <<world, pc, policy, job, slots, project, calm>>
    BY <1>2 DEF RememberSpelling
  <2>2. PhaseInv' BY <2>1 DEF ClaimInv, PhaseInv, Working
  <2> QED BY <2>1, <2>2, SpellingClaims DEF Still, world, policy
<1> QED BY <1>1, <1>2

LEMMA EndSpellingsClaims == ClaimInv /\ EndSpellings => ClaimInv'
<1> SUFFICES ASSUME ClaimInv, EndSpellings PROVE ClaimInv' OBVIOUS
<1>1. /\ pc = "spell" /\ pc' = "targets"
      /\ UNCHANGED <<world, policy, job, slots, project, calm>>
  BY DEF EndSpellings
<1>2. PhaseInv' BY <1>1 DEF ClaimInv, PhaseInv, Working
<1> QED BY <1>1, <1>2, SpellingClaims DEF Still, world, policy

LEMMA TakeJobClaims == ClaimInv /\ TakeJob => ClaimInv'
<1> SUFFICES ASSUME ClaimInv, TakeJob PROVE ClaimInv' OBVIOUS
<1>1. /\ Working /\ UNCHANGED <<world, pc, policy, naming, slots, project, calm>>
  BY DEF TakeJob, Idle
<1>2. PhaseInv' BY <1>1 DEF ClaimInv, PhaseInv, Working
<1> QED BY <1>1, <1>2, QuietClaims DEF Still, world, policy, naming

LEMMA AdmitSpellingClaims == ClaimInv /\ AdmitSpelling => ClaimInv'
<1> SUFFICES ASSUME ClaimInv, AdmitSpelling PROVE ClaimInv' OBVIOUS
<1>1. CASE Fail BY <1>1, FailClaims
<1>2. CASE ~Fail
  <2>1. Working /\ UNCHANGED <<world, pc, policy, naming, slots, project, calm>>
    BY <1>2 DEF AdmitSpelling, Doing
  <2>2. PhaseInv' BY <2>1 DEF ClaimInv, PhaseInv, Working
  <2> QED BY <2>1, <2>2, QuietClaims DEF Still, world, policy, naming
<1> QED BY <1>1, <1>2

\* A job that is dropped, or done, leaves the readers idle.
LEMMA SkipClaims ==
  ASSUME ClaimInv, Skip, Working, answers' = answers \/ AnswersGrow,
         project'.sources = project.sources, DOMAIN project' = DOMAIN project
  PROVE  ClaimInv'
<1> USE DEF Skip, world, naming
<1>1. Still BY DEF Still
<1>2. PhaseInv' BY DEF ClaimInv, PhaseInv, Working
<1>3. SlotsInv' BY DEF SlotsInv, NoSlots
<1>4. SpelledGrows BY DEF SpelledGrows, HasSpelling
<1> QED BY <1>1, <1>2, <1>3, <1>4, StillClaims

LEMMA AdmitTargetClaims == ClaimInv /\ AdmitTarget => ClaimInv'
<1> SUFFICES ASSUME ClaimInv, AdmitTarget PROVE ClaimInv' OBVIOUS
<1>1. CASE Fail BY <1>1, FailClaims
<1>2. CASE Skip /\ UNCHANGED <<answers, project>>
  <2>1. Working BY DEF AdmitTarget, Doing
  <2> QED BY <1>2, <2>1, SkipClaims
<1>3. CASE ~Fail /\ ~(Skip /\ UNCHANGED <<answers, project>>)
  <2>1. /\ Working /\ UNCHANGED <<world, pc, policy, naming, slots, calm>>
        /\ project' = [project EXCEPT !.spellings = @ \cup {<<job.path, job.owner>>}]
    BY <1>3 DEF AdmitTarget, Doing
  <2>2. project'.sources = project.sources /\ DOMAIN project' = DOMAIN project
    BY <2>1 DEF ClaimInv, PhaseInv, EmptyProject
  <2>3. PhaseInv' BY <2>1, <2>2 DEF ClaimInv, PhaseInv, Working
  <2> QED BY <2>1, <2>2, <2>3, QuietClaims DEF Still, world, policy, naming
<1> QED BY <1>1, <1>2, <1>3

LEMMA NewSlotOK ==
  ASSUME NEW q, NEW e, slots'[q] = NewSlot(e), ~e => Parsable(q)'
  PROVE  SlotOK(q)'
<1>1. PICK s : s = slots'[q] OBVIOUS
<1>0. s = [stage |-> "resolve", owner |-> Missing, inode |-> 0, version |-> 0,
           data |-> "", excluded |-> e, template |-> FALSE, overlaid |-> FALSE]
  BY <1>1 DEF NewSlot
<1>2. s.stage = "resolve" /\ s.inode = 0 /\ s.excluded = e
  BY <1>0
<1>3. DOMAIN s = SlotFields
  BY <1>0 DEF SlotFields
<1> QED BY <1>1, <1>2, <1>3 DEF SlotOK, Belongs

LEMMA OpenFileClaims == ClaimInv /\ OpenFile => ClaimInv'
<1> SUFFICES ASSUME ClaimInv, OpenFile PROVE ClaimInv' OBVIOUS
<1>1. CASE Fail BY <1>1, FailClaims
<1>2. CASE ~Fail
  <2>1. Working /\ AnswersGrow BY <1>2, AskedGrows DEF OpenFile, Doing
  <2>2. CASE Skip /\ UNCHANGED project
    BY <2>1, <2>2, SkipClaims
  <2>3. CASE ~(Skip /\ UNCHANGED project)
    <3>1. /\ UNCHANGED <<world, pc, prefixes, naming, project, calm>>
          /\ slots' = IF job.path \in DOMAIN project.sources THEN NoSlots
                      ELSE [q \in {job.path} |-> NewSlot(IsExcluded(job.path))]
      BY <1>2, <2>3 DEF OpenFile
    <3>2. Still BY <2>1, <3>1 DEF Still, world
    <3>3. SlotsInv'
      <4> SUFFICES ASSUME NEW q \in DOMAIN slots' PROVE SlotOK(q)'
        BY DEF SlotsInv
      <4>1. PICK e : e = IsExcluded(q) OBVIOUS
      <4>2. q = job.path /\ slots'[q] = NewSlot(e)
        BY <3>1, <4>1 DEF NoSlots
      <4>3. ~e => Parsable(q)' BY <3>2, <4>1, StillParsable DEF Parsable, IsExcluded, Excluded
      <4> QED BY <4>2, <4>3, NewSlotOK
    <3>4. PhaseInv' BY <2>1, <3>1 DEF ClaimInv, PhaseInv, Working
    <3>5. SpelledGrows BY <3>1 DEF SpelledGrows, HasSpelling, naming
    <3> QED BY <3>1, <3>2, <3>3, <3>4, <3>5, StillClaims
  <2> QED BY <2>2, <2>3
<1> QED BY <1>1, <1>2

LEMMA OpenContextFileClaims == ClaimInv /\ OpenContextFile => ClaimInv'
<1> SUFFICES ASSUME ClaimInv, OpenContextFile PROVE ClaimInv' OBVIOUS
<1>1. CASE Fail BY <1>1, FailClaims
<1>2. CASE ~Fail
  <2>1. Working /\ AnswersGrow BY <1>2, AskedGrows DEF OpenContextFile, Doing
  <2>2. CASE Skip /\ UNCHANGED project
    BY <2>1, <2>2, SkipClaims
  <2>3. CASE ~(Skip /\ UNCHANGED project)
    <3>1. UNCHANGED <<world, pc, prefixes, naming, slots, project, calm>>
      BY <1>2, <2>3 DEF OpenContextFile
    <3>2. PhaseInv' BY <2>1, <3>1 DEF ClaimInv, PhaseInv, Working
    <3> QED BY <2>1, <3>1, <3>2, QuietClaims DEF Still, world, naming
  <2> QED BY <2>2, <2>3
<1> QED BY <1>1, <1>2

LEMMA OpenContextDirectoryClaims == ClaimInv /\ OpenContextDirectory => ClaimInv'
<1> SUFFICES ASSUME ClaimInv, OpenContextDirectory PROVE ClaimInv' OBVIOUS
<1>1. CASE Fail BY <1>1, FailClaims
<1>2. CASE ~Fail
  <2>1. Working /\ AnswersGrow BY <1>2, AskedGrows DEF OpenContextDirectory, Doing
  <2>2. project'.sources = project.sources /\ DOMAIN project' = DOMAIN project
    <3>1. project' = project \/ \E state : Observe(job.path, state)
      BY <1>2 DEF OpenContextDirectory
    <3> QED BY <3>1 DEF Observe, ClaimInv, PhaseInv, EmptyProject
  <2>3. CASE Skip
    BY <2>1, <2>2, <2>3, SkipClaims
  <2>4. CASE ~Skip
    <3>1. UNCHANGED <<world, pc, prefixes, naming, slots, calm>>
      BY <1>2, <2>4 DEF OpenContextDirectory
    <3>2. PhaseInv' BY <2>1, <2>2, <3>1 DEF ClaimInv, PhaseInv, Working
    <3> QED BY <2>1, <2>2, <3>1, <3>2, QuietClaims DEF Still, world, naming
  <2> QED BY <2>3, <2>4
<1> QED BY <1>1, <1>2

LEMMA ScanDirectoryClaims == ClaimInv /\ ScanDirectory => ClaimInv'
<1> SUFFICES ASSUME ClaimInv, ScanDirectory PROVE ClaimInv' OBVIOUS
<1>1. /\ Working /\ AnswersGrow
      /\ UNCHANGED <<world, pc, prefixes, calm>>
  BY AskedGrows DEF ScanDirectory
<1>2. project'.sources = project.sources /\ DOMAIN project' = DOMAIN project
  <2>1. \E b : project' = [project EXCEPT !.excludedAny = b] BY DEF ScanDirectory
  <2> QED BY <2>1 DEF ClaimInv, PhaseInv, EmptyProject
<1> DEFINE offered == {p \in Candidates(w, listing, prefixes, job.path, job.selected) :
                      job.op = "variables" => VariableDeclarationPath(p)}
           kept == {p \in offered : ~IsExcluded(p)}
           new == {p \in kept : /\ job.selected /\ ~HasSpelling(p)
                                /\ w.narrow \/ IsTemplate(p)}
<1>a. /\ slots' = [p \in kept |-> NewSlot(FALSE)]
      /\ spelled' = spelled \cup {<<p, p>> : p \in new}
  BY DEF ScanDirectory
<1>3. \E K : /\ slots' = [p \in K |-> NewSlot(FALSE)]
             /\ \A p \in K : ~IsExcluded(p)
  BY <1>a
<1>4. SpelledGrows
  <2>1. \E N : /\ spelled' = spelled \cup {<<p, p>> : p \in N}
               /\ \A p \in N : w.narrow \/ IsTemplate(p)
    <3>1. \A p \in new : w.narrow \/ IsTemplate(p) OBVIOUS
    <3>2. PICK N : N = new OBVIOUS
    <3> QED BY <1>a, <3>1, <3>2, Zenon
  <2> QED BY <2>1 DEF SpelledGrows, HasSpelling
<1>5. Still BY <1>1 DEF Still, world
<1>6. SlotsInv'
  <2> SUFFICES ASSUME NEW q \in DOMAIN slots' PROVE SlotOK(q)'
    BY DEF SlotsInv
  <2>1. slots'[q] = NewSlot(FALSE) /\ ~IsExcluded(q) BY <1>3
  <2>2. Parsable(q)' BY <1>5, <2>1, StillParsable DEF Parsable, IsExcluded, Excluded
  <2>3. PICK e : e = FALSE OBVIOUS
  <2> QED BY <2>1, <2>2, <2>3, NewSlotOK
<1>7. PhaseInv' BY <1>1, <1>2 DEF ClaimInv, PhaseInv, Working
<1> QED BY <1>2, <1>4, <1>5, <1>6, <1>7, StillClaims

-----------------------------------------------------------------------------
(***************************************************************************)
(* The readers.                                                            *)
(***************************************************************************)

\* One slot changes.
LEMMA SetSlotClaims ==
  ASSUME ClaimInv, NEW p \in DOMAIN slots, NEW slot, SetSlot(p, slot), Reading,
         DOMAIN slot = SlotFields, slot.excluded = slots[p].excluded,
         slot.stage \in {"resolve", "open"} => slot.inode = 0,
         slot.stage = "open" => Inside(slot.owner),
         Belongs(slot.inode, slot.owner),
         slot.stage = "ready" /\ NamesTemplate(p, slot.owner) => slot.template
  PROVE  ClaimInv'
<1> USE DEF SetSlot
<1>1. Still BY DEF Still, world, policy
<1>2. SlotsInv'
  <2> SUFFICES ASSUME NEW q \in DOMAIN slots PROVE SlotOK(q)'
    BY DEF SlotsInv
  <2>1. SlotOK(q) BY DEF ClaimInv, SlotsInv
  <2>2. Parsable(q)' = Parsable(q) BY <1>1, StillParsable
  <2>3. CASE q = p
    <3>1. slots'[q] = slot BY <2>3
    <3>2. PICK i, o : i = slot.inode /\ o = slot.owner OBVIOUS
    <3>3. Belongs(i, o)' BY <1>1, <3>2, StillBelongs
    <3>4. NamesTemplate(p, o)' = NamesTemplate(p, o) BY <1>1, StillNames DEF Still, naming
    <3> QED BY <2>1, <2>2, <2>3, <3>1, <3>2, <3>3, <3>4 DEF SlotOK
  <2>4. CASE q # p
    <3>1. slots'[q] = slots[q] BY <2>4
    <3>2. PICK i, o : i = slots[q].inode /\ o = slots[q].owner OBVIOUS
    <3>3. Belongs(i, o)' BY <1>1, <2>1, <3>2, StillBelongs DEF SlotOK
    <3>4. NamesTemplate(q, o)' = NamesTemplate(q, o) BY <1>1, StillNames DEF Still, naming
    <3> QED BY <2>1, <2>2, <3>1, <3>2, <3>3, <3>4 DEF SlotOK
  <2> QED BY <2>3, <2>4
<1>3. Working BY DEF ClaimInv, PhaseInv, Reading, NoJob
<1>4. PhaseInv' BY <1>3 DEF ClaimInv, PhaseInv, Working
<1>5. SpelledGrows BY DEF SpelledGrows, HasSpelling, naming
<1> QED BY <1>1, <1>2, <1>4, <1>5, StillClaims

\* An owner that is not refused lies below the root.
LEMMA OwnedInside ==
  ASSUME NEW p, Owned(w, p) \notin Refusals PROVE Inside(Owned(w, p))
BY DEF Owned, OwnerAt, Refusals

LEMMA ReadResolveClaims ==
  ASSUME ClaimInv, NEW p \in DOMAIN slots, ReadResolve(p) PROVE ClaimInv'
<1>1. PICK s : s = slots[p] OBVIOUS
<1>2. /\ DOMAIN s = SlotFields /\ s.inode = 0
  BY <1>1 DEF ClaimInv, SlotsInv, SlotOK, ReadResolve
<1>3. Reading BY DEF ReadResolve
<1>4. ASSUME NEW stage, stage \notin {"open", "ready"},
             SetSlot(p, [slots[p] EXCEPT !.stage = stage])
      PROVE  ClaimInv'
  <2>1. PICK r : r = [s EXCEPT !.stage = stage] OBVIOUS
  <2>2. /\ DOMAIN r = SlotFields /\ r.excluded = s.excluded /\ r.inode = 0
        /\ r.stage = stage
    BY <1>2, <2>1 DEF SlotFields
  <2>3. SetSlot(p, r) BY <1>1, <1>4, <2>1
  <2> QED BY <1>1, <1>3, <1>4, <2>2, <2>3, SetSlotClaims DEF Belongs
<1>5. ASSUME SetSlot(p, [slots[p] EXCEPT !.stage = "open", !.owner = Owned(w, p)]),
             Owned(w, p) \notin Refusals
      PROVE  ClaimInv'
  <2>1. PICK o : o = Owned(w, p) OBVIOUS
  <2>2. PICK r : r = [s EXCEPT !.stage = "open", !.owner = o] OBVIOUS
  <2>3. /\ DOMAIN r = SlotFields /\ r.excluded = s.excluded /\ r.inode = 0
        /\ r.stage = "open" /\ r.owner = o
    BY <1>2, <2>2 DEF SlotFields
  <2>4. Inside(o) BY <1>5, <2>1, OwnedInside
  <2>5. SetSlot(p, r) BY <1>1, <1>5, <2>1, <2>2
  <2> QED BY <1>1, <1>3, <2>3, <2>4, <2>5, SetSlotClaims DEF Belongs
<1>6. ASSUME SetSlot(p, [slots[p] EXCEPT !.stage = "name", !.owner = buffer.owner,
                                         !.data = req.content])
      PROVE  ClaimInv'
  <2>1. PICK o, d : o = buffer.owner /\ d = req.content OBVIOUS
  <2>2. PICK r : r = [s EXCEPT !.stage = "name", !.owner = o, !.data = d] OBVIOUS
  <2>3. /\ DOMAIN r = SlotFields /\ r.excluded = s.excluded /\ r.inode = 0
        /\ r.stage = "name" /\ r.owner = o
    BY <1>2, <2>2 DEF SlotFields
  <2>4. SetSlot(p, r) BY <1>1, <1>6, <2>1, <2>2
  <2> QED BY <1>1, <1>3, <2>3, <2>4, SetSlotClaims DEF Belongs
<1>7. ASSUME ReadBuffer(p) PROVE ClaimInv'
  <2>1. CASE BufferOwner(p) = buffer.owner BY <1>6, <1>7, <2>1 DEF ReadBuffer
  <2>2. CASE BufferOwner(p) # buffer.owner BY <1>4, <1>7, <2>2 DEF ReadBuffer
  <2> QED BY <2>1, <2>2
<1> QED BY <1>4, <1>5, <1>7 DEF ReadResolve

LEMMA ReadOpenClaims ==
  ASSUME ClaimInv, NEW p \in DOMAIN slots, ReadOpen(p) PROVE ClaimInv'
<1>1. PICK s : s = slots[p] OBVIOUS
<1>2. /\ DOMAIN s = SlotFields /\ s.inode = 0 /\ Inside(s.owner)
  BY <1>1 DEF ClaimInv, SlotsInv, SlotOK, ReadOpen
<1>3. Reading BY DEF ReadOpen
<1>4. CASE s.owner \notin DOMAIN w.link /\ IsFile(w, s.owner)
  <2>1. PICK i, v : i = w.file[s.owner] /\ v = w.bytes[w.file[s.owner]].version OBVIOUS
  <2>2. PICK r : r = [s EXCEPT !.stage = "data", !.inode = i, !.version = v] OBVIOUS
  <2>3. /\ DOMAIN r = SlotFields /\ r.excluded = s.excluded /\ r.inode = i
        /\ r.stage = "data" /\ r.owner = s.owner
    BY <1>2, <2>2 DEF SlotFields
  <2>4. Belongs(i, s.owner)
    BY <1>2, <1>4, <2>1 DEF ClaimInv, WorldInv, IsFile, Belongs
  <2>5. SetSlot(p, [slots[p] EXCEPT !.stage = "data", !.inode = w.file[slots[p].owner],
                             !.version = w.bytes[w.file[slots[p].owner]].version])
    BY <1>1, <1>4 DEF ReadOpen
  <2>6. SetSlot(p, r) BY <1>1, <2>1, <2>2, <2>5
  <2> QED BY <1>1, <1>3, <2>3, <2>4, <2>6, SetSlotClaims
<1>5. CASE ~(s.owner \notin DOMAIN w.link /\ IsFile(w, s.owner))
  <2>1. PICK r : r = [s EXCEPT !.stage = "failed"] OBVIOUS
  <2>2. /\ DOMAIN r = SlotFields /\ r.excluded = s.excluded /\ r.inode = 0
        /\ r.stage = "failed"
    BY <1>2, <2>1 DEF SlotFields
  <2>3. SetSlot(p, r) BY <1>1, <1>5, <2>1 DEF ReadOpen
  <2> QED BY <1>1, <1>3, <2>2, <2>3, SetSlotClaims DEF Belongs
<1> QED BY <1>4, <1>5

LEMMA ReadBytesClaims ==
  ASSUME ClaimInv, NEW p \in DOMAIN slots, ReadBytes(p) PROVE ClaimInv'
<1>1. PICK s : s = slots[p] OBVIOUS
<1>2. DOMAIN s = SlotFields /\ Belongs(s.inode, s.owner)
  BY <1>1 DEF ClaimInv, SlotsInv, SlotOK
<1>3. Reading BY DEF ReadBytes
<1>4. PICK b : b = w.bytes[s.inode] OBVIOUS
<1>5. PICK g : g = IF b.version = s.version THEN "check" ELSE "failed" OBVIOUS
<1>6. PICK r : r = [s EXCEPT !.stage = g, !.data = b.data] OBVIOUS
<1>7. /\ DOMAIN r = SlotFields /\ r.excluded = s.excluded /\ r.inode = s.inode
      /\ r.stage = g /\ r.owner = s.owner
  BY <1>2, <1>6 DEF SlotFields
<1>8. SetSlot(p, [slots[p] EXCEPT
        !.stage = IF w.bytes[slots[p].inode].version = slots[p].version
                  THEN "check" ELSE "failed",
        !.data = w.bytes[slots[p].inode].data])
  BY DEF ReadBytes
<1>9. SetSlot(p, r) BY <1>1, <1>4, <1>5, <1>6, <1>8
<1> QED BY <1>1, <1>2, <1>3, <1>5, <1>7, <1>9, SetSlotClaims

LEMMA ReadCheckClaims ==
  ASSUME ClaimInv, NEW p \in DOMAIN slots, ReadCheck(p) PROVE ClaimInv'
<1>1. PICK s : s = slots[p] OBVIOUS
<1>2. DOMAIN s = SlotFields /\ Belongs(s.inode, s.owner)
  BY <1>1 DEF ClaimInv, SlotsInv, SlotOK
<1>3. Reading BY DEF ReadCheck
<1>4. PICK g : /\ g = "name" \/ g = "failed"
               /\ SetSlot(p, [slots[p] EXCEPT !.stage = g])
  BY DEF ReadCheck
<1>5. PICK r : r = [s EXCEPT !.stage = g] OBVIOUS
<1>6. /\ DOMAIN r = SlotFields /\ r.excluded = s.excluded /\ r.inode = s.inode
      /\ r.stage = g /\ r.owner = s.owner
  BY <1>2, <1>5 DEF SlotFields
<1>7. SetSlot(p, r) BY <1>1, <1>4, <1>5
<1> QED BY <1>1, <1>2, <1>3, <1>4, <1>6, <1>7, SetSlotClaims

\* A template is read as one, whichever of its names says so.
LEMMA NamesAreRead ==
  ASSUME NEW p, NamesTemplate(p, slots[p].owner) PROVE ReadAsTemplate(p)
<1>1. HasSpelling(p) => BufferSpellings(p) # {}
  BY DEF HasSpelling, BufferSpellings, Spellings
<1> QED BY <1>1 DEF NamesTemplate, ReadAsTemplate, IsTemplateFile

LEMMA ReadNameClaims ==
  ASSUME ClaimInv, NEW p \in DOMAIN slots, ReadName(p) PROVE ClaimInv'
<1>1. PICK s : s = slots[p] OBVIOUS
<1>2. DOMAIN s = SlotFields /\ Belongs(s.inode, s.owner)
  BY <1>1 DEF ClaimInv, SlotsInv, SlotOK
<1>3. Reading BY DEF ReadName
<1>4. CASE SpellingMoved(p)
  <2>1. PICK r : r = [s EXCEPT !.stage = "failed"] OBVIOUS
  <2>2. /\ DOMAIN r = SlotFields /\ r.excluded = s.excluded /\ r.inode = s.inode
        /\ r.stage = "failed" /\ r.owner = s.owner
    BY <1>2, <2>1 DEF SlotFields
  <2>3. SetSlot(p, r) BY <1>1, <1>4, <2>1 DEF ReadName
  <2> QED BY <1>1, <1>2, <1>3, <2>2, <2>3, SetSlotClaims
<1>5. CASE ~SpellingMoved(p)
  <2>1. PICK v, t : v = FromBuffer(p) /\ t = ReadAsTemplate(p) OBVIOUS
  <2>2. PICK r : r = [s EXCEPT !.stage = "ready", !.overlaid = v, !.template = t] OBVIOUS
  <2>3. /\ DOMAIN r = SlotFields /\ r.excluded = s.excluded /\ r.inode = s.inode
        /\ r.stage = "ready" /\ r.owner = s.owner /\ r.template = t
    BY <1>2, <2>2 DEF SlotFields
  <2>4. SetSlot(p, r) BY <1>1, <1>5, <2>1, <2>2 DEF ReadName
  <2>5. NamesTemplate(p, r.owner) => r.template
    BY <1>1, <2>1, <2>3, NamesAreRead
  <2> QED BY <1>1, <1>2, <1>3, <2>3, <2>4, <2>5, SetSlotClaims
<1> QED BY <1>4, <1>5

LEMMA PublishClaims == ClaimInv /\ Publish => ClaimInv'
<1> SUFFICES ASSUME ClaimInv, Publish PROVE ClaimInv' OBVIOUS
<1>1. CASE Fail BY <1>1, FailClaims
<1>2. CASE ~Fail
  <2> DEFINE ready == {p \in DOMAIN slots : slots[p].stage = "ready"}
             sources == [p \in ready |-> SourceOf(p)]
             admitted == {p \in ready : job.op = "batch" =>
                            DirectoryAdmits(p, sources[p].kind, job.selected)}
             all == [p \in DOMAIN project.sources \cup admitted |->
                       IF p \in admitted THEN sources[p] ELSE project.sources[p]]
  <2>1. /\ Reading /\ Skip /\ UNCHANGED answers
        /\ \E sel, dis : project' = [project EXCEPT !.sources = all, !.selected = sel,
                                                    !.discoverable = dis]
    <3>1. /\ Reading /\ Skip /\ UNCHANGED answers
          /\ project' = [project EXCEPT
                !.sources = all,
                !.selected = @ \cup Chosen(admitted, {p \in DOMAIN slots : slots[p].stage = "kept"}),
                !.discoverable = IF job.op # "read" \/ ~job.selected THEN @
                  ELSE IF WouldSelect(w, listing, all[job.path])
                       THEN @ \cup {job.path} ELSE @ \ {job.path}]
      BY <1>2 DEF Publish
    <3> HIDE DEF all, admitted
    <3> QED BY <3>1
  <2>2. project'.sources = all /\ DOMAIN project' = DOMAIN project
    <3> HIDE DEF all
    <3> QED BY <2>1 DEF ClaimInv, PhaseInv, EmptyProject
  <2>3. Still BY <2>1 DEF Skip, Still, world
  <2>4. WorldInv' BY <2>3 DEF ClaimInv, WorldInv, Still
  <2>5. Working BY <2>1 DEF ClaimInv, PhaseInv, Reading, NoJob
  <2>6. PhaseInv' BY <2>1, <2>2, <2>5 DEF Skip, ClaimInv, PhaseInv, Working
  <2>7. SlotsInv' BY <2>1 DEF SlotsInv, Skip, NoSlots
  <2>8. ASSUME NEW p \in admitted PROVE SourceOK(p)'
    <3>1. PICK s : s = SourceOf(p) OBVIOUS
    <3>2. project'.sources[p] = s BY <2>2, <2>8, <3>1
    <3>3. SlotOK(p) BY <2>8 DEF ClaimInv, SlotsInv
    <3>4. /\ s.path = p /\ s.owner = slots[p].owner
          /\ s.inode = 0 \/ s.inode = slots[p].inode
          /\ s.excluded = slots[p].excluded
          /\ slots[p].template => s.kind = "template"
      BY <3>1 DEF SourceOf
    <3>5. Belongs(s.inode, s.owner) BY <3>3, <3>4 DEF SlotOK, Belongs
    <3>6. Belongs(s.inode, s.owner)' BY <2>3, <3>5, StillBelongs
    <3>7. ~s.excluded => Parsable(p)' BY <2>3, <3>3, <3>4, StillParsable DEF SlotOK
    <3>8. NamesTemplate(p, s.owner) => slots[p].template
      BY <2>8, <3>3, <3>4 DEF SlotOK
    <3>10. PICK o : o = s.owner OBVIOUS
    <3>9. NamesTemplate(p, o)' = NamesTemplate(p, o)
      BY <2>1, <2>3, StillNames DEF Skip, naming, Still
    <3> QED BY <3>2, <3>4, <3>6, <3>7, <3>8, <3>9, <3>10 DEF SourceOK
  <2>9. ASSUME NEW p \in DOMAIN project.sources, p \notin admitted PROVE SourceOK(p)'
    <3>1. project'.sources[p] = project.sources[p] BY <2>2, <2>9
    <3>2. SourceOK(p) BY DEF ClaimInv, SourcesInv
    <3>3. PICK i, o : i = project.sources[p].inode /\ o = project.sources[p].owner OBVIOUS
    <3>4. Belongs(i, o)' BY <2>3, <3>2, <3>3, StillBelongs DEF SourceOK
    <3>5. ~project.sources[p].excluded => Parsable(p)'
      BY <2>3, <3>2, StillParsable DEF SourceOK
    <3>6. NamesTemplate(p, o)' = NamesTemplate(p, o)
      BY <2>1, <2>3, StillNames DEF Skip, naming, Still
    <3> QED BY <3>1, <3>2, <3>3, <3>4, <3>5, <3>6 DEF SourceOK
  <2>10. SourcesInv'
    <3>1. DOMAIN project'.sources = DOMAIN project.sources \cup admitted BY <2>2
    <3> HIDE DEF admitted
    <3> QED BY <2>8, <2>9, <3>1 DEF SourcesInv
  <2> QED BY <2>4, <2>6, <2>7, <2>10 DEF ClaimInv
<1> QED BY <1>1, <1>2

\* From one phase to the next.
LEMMA PhaseClaims ==
  ASSUME ClaimInv, NEW next, NEW more, Phase(next, more), Idle,
         next \in {"files", "directories", "references", "scopes", "done"}
  PROVE  ClaimInv'
<1>1. /\ pc' = next /\ UNCHANGED <<world, policy, naming, job, slots, project, calm>>
  BY DEF Phase
<1>2. PhaseInv'
  BY <1>1 DEF ClaimInv, PhaseInv, Working, Idle
<1> QED BY <1>1, <1>2, QuietClaims DEF Still, world, policy, naming

LEMMA StepClaims == ClaimInv /\ [Next]_vars => ClaimInv'
<1> SUFFICES ASSUME ClaimInv, [Next]_vars PROVE ClaimInv' OBVIOUS
<1>1. CASE Others BY <1>1, OthersClaim
<1>2. CASE Configure BY <1>2, ConfigureClaims
<1>3. CASE ListSources BY <1>3, ListSourcesClaims
<1>4. CASE IdentifyBuffer BY <1>4, IdentifyBufferClaims
<1>5. CASE RememberSpelling \/ EndSpellings
  BY <1>5, RememberSpellingClaims, EndSpellingsClaims
<1>6. CASE TakeJob BY <1>6, TakeJobClaims
<1>7. CASE AdmitSpelling BY <1>7, AdmitSpellingClaims
<1>8. CASE AdmitTarget BY <1>8, AdmitTargetClaims
<1>9. CASE OpenFile BY <1>9, OpenFileClaims
<1>10. CASE OpenContextFile BY <1>10, OpenContextFileClaims
<1>11. CASE OpenContextDirectory BY <1>11, OpenContextDirectoryClaims
<1>12. CASE ScanDirectory BY <1>12, ScanDirectoryClaims
<1>13. CASE Read
  BY <1>13, ReadResolveClaims, ReadOpenClaims, ReadBytesClaims, ReadCheckClaims,
     ReadNameClaims DEF Read
<1>14. CASE Publish BY <1>14, PublishClaims
<1>15. CASE EndTargets
  BY <1>15, PhaseClaims, FailClaims DEF EndTargets
<1>16. CASE EndFiles BY <1>16, PhaseClaims DEF EndFiles
<1>17. CASE EndDirectories BY <1>17, PhaseClaims DEF EndDirectories
<1>18. CASE EndReferences BY <1>18, PhaseClaims DEF EndReferences
<1>19. CASE EndScopes BY <1>19, PhaseClaims DEF EndScopes
<1>20. CASE Cancel BY <1>20, FailClaims DEF Cancel
<1>21. CASE UNCHANGED vars
  <2>1. UNCHANGED <<world, pc, policy, naming, work, project, calm>> BY <1>21 DEF vars
  <2>2. PhaseInv' BY <2>1 DEF ClaimInv, PhaseInv, Working, work
  <2> QED BY <2>1, <2>2, QuietClaims DEF Still, world, policy, naming, work
<1> QED
  BY <1>1, <1>2, <1>3, <1>4, <1>5, <1>6, <1>7, <1>8, <1>9, <1>10, <1>11, <1>12, <1>13,
     <1>14, <1>15, <1>16, <1>17, <1>18, <1>19, <1>20, <1>21 DEF Next, Load

-----------------------------------------------------------------------------
(***************************************************************************)
(* The theorem.                                                            *)
(***************************************************************************)

LEMMA ClaimsMean ==
  ClaimInv => BytesBelongToTheOwner /\ TemplatesStayReadOnly /\ ExcludedIsNeverParsed
<1> SUFFICES ASSUME ClaimInv
             PROVE  BytesBelongToTheOwner /\ TemplatesStayReadOnly /\ ExcludedIsNeverParsed
  OBVIOUS
<1>1. ASSUME NEW p \in DOMAIN project.sources PROVE SourceOK(p)
  BY DEF ClaimInv, SourcesInv
<1>2. BytesBelongToTheOwner
  BY <1>1 DEF BytesBelongToTheOwner, Loaded, SourceOK, Belongs
<1>3. TemplatesStayReadOnly
  BY <1>1 DEF TemplatesStayReadOnly, Loaded, SourceOK, NamesTemplate
<1>4. ExcludedIsNeverParsed
  BY <1>1 DEF ExcludedIsNeverParsed, Loaded, SourceOK, Parsable
<1> QED BY <1>2, <1>3, <1>4

\* Whatever links, aliases, buffers and moves meet during a load, and however many
\* readers there are: the bytes of a source are those of its recorded owner below
\* the root, a template is never read as YAML that --fix may rewrite, and an
\* excluded name is never parsed (readFileSnapshot, readSource, exclusionReasons).
THEOREM SourcesStayTrue == MCSpec => []SourcesAreWhatTheyClaim
<1> DEFINE Inv == part = "load" => ClaimInv
<1>1. MCInit => Inv
  BY InitClaims DEF MCInit
<1>2. Inv /\ [MCNext]_mcVars => Inv'
  <2> SUFFICES ASSUME Inv, [MCNext]_mcVars, part' = "load" PROVE ClaimInv'
    OBVIOUS
  <2>1. part = "load" /\ [Next]_vars
    BY DEF MCNext, mcVars, loadVars, vars, world, policy, naming, work
  <2> QED BY <2>1, StepClaims
<1>3. Inv => SourcesAreWhatTheyClaim
  BY ClaimsMean DEF SourcesAreWhatTheyClaim
<1> QED BY <1>1, <1>2, <1>3, PTL DEF MCSpec

-----------------------------------------------------------------------------
(***************************************************************************)
(* Natural induction over a set, and the jobs of a finite set of names.    *)
(***************************************************************************)

LEMMA Induction ==
  ASSUME NEW S, 0 \in S, \A n \in Nat : n \in S => n + 1 \in S
  PROVE  Nat \subseteq S
<1> SUFFICES ASSUME NEW k \in Nat, k \notin S PROVE FALSE
  OBVIOUS
<1> DEFINE T == {0..n : n \in {m \in Nat : m \notin S}}
<1>1. T \subseteq FiniteSubsetsOf(Nat)
  <2> SUFFICES ASSUME NEW n \in Nat PROVE 0..n \in FiniteSubsetsOf(Nat)
    OBVIOUS
  <2>1. IsFiniteSet(0..n)
    BY FS_Interval
  <2> QED BY <2>1 DEF FiniteSubsetsOf
<1>2. T # {}
  OBVIOUS
<1>3. PICK U \in T : \A V \in T : <<V, U>> \notin StrictSubsetOrdering(Nat)
  <2> HIDE DEF T
  <2> QED BY <1>1, <1>2, WFMin, FS_StrictSubsetOrderingWellFounded
<1>4. PICK n \in Nat : n \notin S /\ U = 0..n
  BY <1>3
<1>5. n # 0 /\ n - 1 \in Nat /\ n - 1 \notin S
  BY <1>4
<1>6. 0..(n - 1) \in T
  BY <1>5
<1>7. 0..(n - 1) \subseteq 0..n /\ n \in 0..n /\ n \notin 0..(n - 1)
  BY <1>4
<1>8. <<0..(n - 1), U>> \in StrictSubsetOrdering(Nat)
  BY <1>4, <1>5, <1>7 DEF StrictSubsetOrdering
<1> QED BY <1>3, <1>6, <1>8

\* The job of one directory or file, and the equation that the fold of Jobs solves.
JobOf(op, p) == [NoJob EXCEPT !.op = op, !.path = p]
Folded(op, it, s) ==
  IF s = {} THEN <<>>
  ELSE Append(it[s \ {CHOOSE x \in s : TRUE}], JobOf(op, CHOOSE x \in s : TRUE))
Folds(op, S, it) == it = [s \in SUBSET S |-> Folded(op, it, s)]

LEMMA JobsDef ==
  ASSUME NEW op, NEW S
  PROVE  Jobs(op, S) = (CHOOSE it : Folds(op, S, it))[S]
BY DEF Jobs, FoldSet, MapThenFoldSet, Folds, Folded, JobOf

\* Leaving one element out.
LEMMA OneLess ==
  ASSUME NEW s, IsFiniteSet(s), s # {}
  PROVE  /\ (CHOOSE x \in s : TRUE) \in s
         /\ IsFiniteSet(s \ {CHOOSE x \in s : TRUE})
         /\ Cardinality(s) \in Nat /\ Cardinality(s) # 0
         /\ Cardinality(s \ {CHOOSE x \in s : TRUE}) = Cardinality(s) - 1
<1>1. PICK x : x = (CHOOSE y \in s : TRUE) OBVIOUS
<1>2. x \in s BY <1>1
<1>3. IsFiniteSet(s \ {x}) /\ Cardinality(s \ {x}) = Cardinality(s) - 1
  BY <1>2, FS_RemoveElement
<1>4. Cardinality(s) \in Nat /\ Cardinality(s) # 0
  BY FS_CardinalityType, FS_EmptySet
<1> QED BY <1>1, <1>2, <1>3, <1>4

\* The equation has a solution: up to sets of n elements, for every n.
LEMMA FoldsExists ==
  ASSUME NEW op, NEW S, IsFiniteSet(S) PROVE \E it : Folds(op, S, it)
<1> DEFINE Upto(n, f) ==
             f = [s \in SUBSET S |-> IF Cardinality(s) <= n THEN Folded(op, f, s) ELSE f[s]]
           N == {n \in Nat : \E f : Upto(n, f)}
<1>0. \A s \in SUBSET S : IsFiniteSet(s) /\ Cardinality(s) \in Nat
  BY FS_Subset, FS_CardinalityType
<1>1. 0 \in N
  <2>1. PICK f : f = [s \in SUBSET S |-> <<>>] OBVIOUS
  <2>2. \A s \in SUBSET S : Cardinality(s) <= 0 => s = {}
    BY <1>0, FS_EmptySet
  <2>3. Upto(0, f) BY <2>1, <2>2 DEF Folded
  <2> QED BY <2>3
<1>2. ASSUME NEW n \in Nat, n \in N PROVE n + 1 \in N
  <2>1. PICK f : Upto(n, f) BY <1>2
  <2>2. PICK g : g = [s \in SUBSET S |->
                       IF Cardinality(s) = n + 1 THEN Folded(op, f, s) ELSE f[s]]
    OBVIOUS
  <2>3. ASSUME NEW s \in SUBSET S, Cardinality(s) <= n + 1
        PROVE  Folded(op, g, s) = Folded(op, f, s)
    <3>1. CASE s = {} BY <3>1 DEF Folded
    <3>2. CASE s # {}
      <4>1. PICK t : t = s \ {CHOOSE x \in s : TRUE} OBVIOUS
      <4>2. t \in SUBSET S /\ Cardinality(t) # n + 1
        BY <1>0, <2>3, <3>2, <4>1, OneLess
      <4>3. g[t] = f[t] BY <2>2, <4>2
      <4> QED BY <4>1, <4>3 DEF Folded
    <3> QED BY <3>1, <3>2
  <2>4. ASSUME NEW s \in SUBSET S
        PROVE  g[s] = IF Cardinality(s) <= n + 1 THEN Folded(op, g, s) ELSE g[s]
    <3>1. CASE Cardinality(s) = n + 1 BY <1>0, <2>2, <2>3, <3>1
    <3>2. CASE Cardinality(s) <= n
      <4>1. g[s] = f[s] BY <1>0, <2>2, <3>2
      <4>2. f[s] = Folded(op, f, s) BY <2>1, <3>2
      <4> QED BY <1>0, <2>3, <3>2, <4>1, <4>2
    <3>3. CASE ~(Cardinality(s) <= n + 1) BY <3>3
    <3> QED BY <1>0, <3>1, <3>2, <3>3
  <2>5. DOMAIN g = SUBSET S BY <2>2
  <2>6. g = [s \in SUBSET S |-> g[s]] BY <2>2
  <2>7. Upto(n + 1, g) BY <2>4, <2>6
  <2> QED BY <2>7
<1>3. Cardinality(S) \in N
  <2> HIDE DEF N
  <2> QED BY <1>1, <1>2, Induction, FS_CardinalityType
<1>4. PICK f : Upto(Cardinality(S), f) BY <1>3
<1>5. \A s \in SUBSET S : Cardinality(s) <= Cardinality(S) BY FS_Subset
<1>6. Folds(op, S, f) BY <1>4, <1>5 DEF Folds
<1> QED BY <1>6

\* The jobs of a finite set are one for each of its elements.
LEMMA JobsAreAll ==
  ASSUME NEW op, NEW S, IsFiniteSet(S)
  PROVE  /\ Jobs(op, S) \in Seq({JobOf(op, p) : p \in S})
         /\ \A p \in S : \E i \in 1..Len(Jobs(op, S)) : Jobs(op, S)[i] = JobOf(op, p)
<1>1. PICK it : Folds(op, S, it) /\ Jobs(op, S) = it[S]
  BY JobsDef, FoldsExists
<1>2. \A s \in SUBSET S : it[s] = Folded(op, it, s) BY <1>1 DEF Folds
<1> DEFINE All(s) == /\ it[s] \in Seq({JobOf(op, p) : p \in s})
                     /\ \A p \in s : \E i \in 1..Len(it[s]) : it[s][i] = JobOf(op, p)
           N == {n \in Nat : \A s \in SUBSET S : Cardinality(s) = n => All(s)}
<1>3. \A s \in SUBSET S : IsFiniteSet(s) /\ Cardinality(s) \in Nat
  BY FS_Subset, FS_CardinalityType
<1>4. 0 \in N
  <2> SUFFICES ASSUME NEW s \in SUBSET S, Cardinality(s) = 0 PROVE All(s) OBVIOUS
  <2>1. s = {} BY <1>3, FS_EmptySet
  <2>2. it[s] = <<>> BY <1>2, <2>1 DEF Folded
  <2> QED BY <2>1, <2>2
<1>5. ASSUME NEW n \in Nat, n \in N PROVE n + 1 \in N
  <2> HIDE DEF All
  <2> SUFFICES ASSUME NEW s \in SUBSET S, Cardinality(s) = n + 1 PROVE All(s) OBVIOUS
  <2> USE DEF All
  <2>0. s # {} BY <1>3, FS_EmptySet
  <2>1. PICK x, t : x = (CHOOSE y \in s : TRUE) /\ t = s \ {x} OBVIOUS
  <2>2. x \in s /\ t \in SUBSET S /\ Cardinality(t) = n
    BY <1>3, <2>0, <2>1, OneLess
  <2>3. All(t) BY <1>5, <2>2
  <2>4. it[s] = Append(it[t], JobOf(op, x)) BY <1>2, <2>0, <2>1 DEF Folded
  <2> DEFINE E == {JobOf(op, p) : p \in s}
  <2>5. it[t] \in Seq(E) /\ JobOf(op, x) \in E
    <3>1. {JobOf(op, p) : p \in t} \subseteq E BY <2>1
    <3>2. it[t] \in Seq({JobOf(op, p) : p \in t}) BY <2>3
    <3> HIDE DEF E
    <3>3. it[t] \in Seq(E) BY <3>1, <3>2, SeqMonotonic
    <3> QED BY <2>2, <3>3 DEF E
  <2>6. PICK u, e : u = it[t] /\ e = JobOf(op, x) OBVIOUS
  <2>7. /\ Append(u, e) \in Seq(E)
        /\ Len(Append(u, e)) = Len(u) + 1 /\ Len(u) \in Nat
        /\ Append(u, e)[Len(u) + 1] = e
        /\ \A i \in 1..Len(u) : Append(u, e)[i] = u[i]
    <3> HIDE DEF E
    <3> QED BY <2>5, <2>6, AppendProperties, LenProperties
  <2>8. ASSUME NEW p \in s PROVE \E i \in 1..Len(it[s]) : it[s][i] = JobOf(op, p)
    <3>1. CASE p = x BY <2>4, <2>6, <2>7, <3>1
    <3>2. CASE p # x
      <4>1. PICK i \in 1..Len(u) : u[i] = JobOf(op, p) BY <2>1, <2>3, <2>6, <3>2
      <4> QED BY <2>4, <2>6, <2>7, <4>1
    <3> QED BY <3>1, <3>2
  <2> QED BY <2>4, <2>6, <2>7, <2>8
<1>6. Cardinality(S) \in N
  <2> HIDE DEF N
  <2> QED BY <1>4, <1>5, Induction, FS_CardinalityType
<1> QED BY <1>1, <1>6

-----------------------------------------------------------------------------
(***************************************************************************)
(* Paths: sequences, whatever their segments are.                          *)
(***************************************************************************)

LEMMA PathIs ==
  ASSUME NEW p, IsPath(p)
  PROVE  /\ Len(p) \in Nat /\ DOMAIN p = 1..Len(p)
         /\ p \in Seq({p[i] : i \in 1..Len(p)})
<1>1. p \in [1..Len(p) -> {p[i] : i \in 1..Len(p)}] BY DEF IsPath
<1>2. [1..Len(p) -> {p[i] : i \in 1..Len(p)}] \subseteq Seq({p[i] : i \in 1..Len(p)})
  BY SeqDef DEF IsPath
<1> QED BY <1>1, <1>2 DEF IsPath

LEMMA SeqIsPath == ASSUME NEW S, NEW p \in Seq(S) PROVE IsPath(p)
BY LenProperties DEF IsPath

\* Two paths are sequences of the same things.
LEMMA TwoPaths ==
  ASSUME NEW p, NEW q, IsPath(p), IsPath(q) PROVE \E S : p \in Seq(S) /\ q \in Seq(S)
<1> DEFINE P == {p[i] : i \in 1..Len(p)}
           Q == {q[i] : i \in 1..Len(q)}
<1>1. p \in Seq(P) /\ q \in Seq(Q) BY PathIs
<1>2. P \subseteq P \cup Q /\ Q \subseteq P \cup Q OBVIOUS
<1> HIDE DEF P, Q
<1>3. p \in Seq(P \cup Q) /\ q \in Seq(P \cup Q) BY <1>1, <1>2, SeqMonotonic
<1> QED BY <1>3

LEMMA PathsEqual ==
  ASSUME NEW p, NEW q, IsPath(p), IsPath(q), Len(p) = Len(q), \A i \in 1..Len(p) : p[i] = q[i]
  PROVE  p = q
BY DEF IsPath

LEMMA ConcatPath ==
  ASSUME NEW p, NEW q, IsPath(p), IsPath(q)
  PROVE  /\ IsPath(p \o q) /\ Len(p \o q) = Len(p) + Len(q)
         /\ \A i \in 1..(Len(p) + Len(q)) :
              (p \o q)[i] = IF i <= Len(p) THEN p[i] ELSE q[i - Len(p)]
<1>1. PICK S : p \in Seq(S) /\ q \in Seq(S) BY TwoPaths
<1> QED BY <1>1, ConcatProperties, SeqIsPath

LEMMA AppendPath ==
  ASSUME NEW p, IsPath(p), NEW x PROVE IsPath(Append(p, x))
<1> DEFINE S == {p[i] : i \in 1..Len(p)}
<1>1. p \in Seq(S) /\ S \subseteq S \cup {x} BY PathIs
<1> HIDE DEF S
<1>2. p \in Seq(S \cup {x}) /\ x \in S \cup {x} BY <1>1, SeqMonotonic
<1> QED BY <1>2, AppendProperties, SeqIsPath

LEMMA PartPath ==
  ASSUME NEW p, IsPath(p), NEW m \in Nat, NEW n \in Nat, 0 < m, n <= Len(p)
  PROVE  /\ IsPath(SubSeq(p, m, n))
         /\ Len(SubSeq(p, m, n)) = IF m <= n THEN n - m + 1 ELSE 0
         /\ \A i \in 1..(n - m + 1) : SubSeq(p, m, n)[i] = p[m + i - 1]
<1> DEFINE S == {p[i] : i \in 1..Len(p)}
<1>0. Len(p) \in Nat BY PathIs
<1>1. \A i \in m..n : p[i] \in S BY <1>0
<1> HIDE DEF S
<1>2. m \in Int /\ n \in Int OBVIOUS
<1>3. PICK q : q = SubSeq(p, m, n) OBVIOUS
<1>4. /\ q \in Seq(S) /\ Len(q) = IF m <= n THEN n - m + 1 ELSE 0
      /\ \A i \in 1..(n - m + 1) : q[i] = p[m + i - 1]
  BY <1>1, <1>2, <1>3, SubSeqProperties
<1> QED BY <1>3, <1>4, SeqIsPath

LEMMA OnePath == ASSUME NEW x PROVE IsPath(<<x>>)
<1>1. <<x>> \in Seq({x}) OBVIOUS
<1> QED BY <1>1, SeqIsPath

LEMMA EmptyPath == IsPath(<<>>) /\ Len(<<>>) = 0 /\ \A p : IsPath(p) /\ p # <<>> => Len(p) \in Nat \ {0}
<1>1. <<>> \in Seq({}) /\ Len(<<>>) = 0 BY EmptySeq
<1>2. IsPath(<<>>) BY <1>1, SeqIsPath
<1>3. ASSUME NEW p, IsPath(p), p # <<>> PROVE Len(p) \in Nat \ {0}
  BY <1>3, PathIs, EmptySeq
<1> QED BY <1>1, <1>2, <1>3

LEMMA PrefixPoint ==
  ASSUME NEW s, NEW t, IsPath(s), IsPath(t)
  PROVE  IsPrefix(s, t) <=> Len(s) <= Len(t) /\ \A i \in 1..Len(s) : s[i] = t[i]
<1>1. PICK S : s \in Seq(S) /\ t \in Seq(S) BY TwoPaths
<1>2. Len(s) \in Nat /\ Len(t) \in Nat BY PathIs
<1>3. ASSUME Len(s) <= Len(t)
      PROVE  SubSeq(s, 1, Len(s)) = SubSeq(t, 1, Len(s)) <=> \A i \in 1..Len(s) : s[i] = t[i]
  <2>1. PICK a, b : a = SubSeq(s, 1, Len(s)) /\ b = SubSeq(t, 1, Len(s)) OBVIOUS
  <2>2. IsPath(a) /\ Len(a) = Len(s) /\ \A i \in 1..Len(s) : a[i] = s[i]
    BY <1>2, <2>1, PartPath
  <2>3. IsPath(b) /\ Len(b) = Len(s) /\ \A i \in 1..Len(s) : b[i] = t[i]
    BY <1>2, <1>3, <2>1, PartPath
  <2> QED BY <2>1, <2>2, <2>3, PathsEqual
<1> QED BY <1>2, <1>3 DEF IsPrefix

LEMMA UnderPoint ==
  ASSUME NEW s, NEW t, IsPath(s), IsPath(t)
  PROVE  Under(s, t) <=> Len(s) < Len(t) /\ \A i \in 1..Len(s) : s[i] = t[i]
<1>1. Len(s) = Len(t) /\ (\A i \in 1..Len(s) : s[i] = t[i]) => s = t
  BY PathsEqual
<1>2. Len(s) \in Nat /\ Len(t) \in Nat BY PathIs
<1> QED BY <1>1, <1>2, PrefixPoint DEF Under, IsStrictPrefix

\* The links of a world: names of their own, none below another.
LEMMA LinkFacts ==
  ASSUME NEW v \in Worlds, NEW l \in DOMAIN v.link
  PROVE  /\ IsPath(l) /\ l # <<>> /\ IsPath(v.link[l]) /\ ~IsPrefix(Missing, l)
         /\ \A q \in Paths \cup DOMAIN v.link : ~Under(l, q) /\ ~Under(q, l)
         /\ l \in Paths \/ ~IsFile(v, Resolve(v, l))
<1>1. LinksWellFormed(v) BY WorldsAssumption DEF WellFormed
<1> HIDE DEF Resolve, IsFile, IsPrefix, Under
<1> QED BY <1>1 DEF LinksWellFormed

\* At most one link lies on the way to a path.
LEMMA OneLink ==
  ASSUME NEW v \in Worlds, NEW p, IsPath(p),
         NEW l \in DOMAIN v.link, NEW k \in DOMAIN v.link, IsPrefix(l, p), IsPrefix(k, p)
  PROVE  l = k
<1>1. IsPath(l) /\ IsPath(k) /\ ~Under(l, k) /\ ~Under(k, l) BY LinkFacts
<1>2. Len(l) \in Nat /\ Len(k) \in Nat /\ Len(p) \in Nat BY <1>1, PathIs
<1>3. CASE Len(l) < Len(k) BY <1>1, <1>2, <1>3, UnderPoint, PrefixPoint
<1>4. CASE Len(k) < Len(l) BY <1>1, <1>2, <1>4, UnderPoint, PrefixPoint
<1>5. CASE Len(k) = Len(l)
  <2>1. \A i \in 1..Len(l) : l[i] = k[i] BY <1>1, <1>2, <1>5, PrefixPoint
  <2> QED BY <1>1, <1>5, <2>1, PathsEqual
<1> QED BY <1>2, <1>3, <1>4, <1>5

LEMMA FollowIs ==
  ASSUME NEW v \in Worlds, NEW p, IsPath(p)
  PROVE  \/ Follow(v, p) = p /\ \A l \in DOMAIN v.link : ~IsPrefix(l, p)
         \/ \E l \in DOMAIN v.link : IsPrefix(l, p) /\ Follow(v, p) = Through(v, p, l)
<1> DEFINE L == {l \in DOMAIN v.link : IsPrefix(l, p)}
<1>1. Follow(v, p) = FollowFirst(v, p, L) BY DEF Follow
<1>2. CASE L = {} BY <1>1, <1>2 DEF FollowFirst
<1>3. CASE L # {}
  <2>1. PICK l : l \in L BY <1>3
  <2>2. \A k \in L : k = l BY <2>1, OneLink
  <2>3. Len(l) \in Nat BY <2>1, LinkFacts, PathIs
  <2>4. \A k \in L : Len(l) <= Len(k) BY <2>2, <2>3
  <2>5. (CHOOSE m \in L : \A k \in L : Len(m) <= Len(k)) = l
    <3> HIDE DEF L
    <3> QED BY <2>1, <2>2, <2>4
  <2> QED BY <1>1, <1>3, <2>1, <2>5 DEF FollowFirst
<1> QED BY <1>2, <1>3

LEMMA ThroughIs ==
  ASSUME NEW v \in Worlds, NEW p, IsPath(p), NEW l \in DOMAIN v.link, IsPrefix(l, p)
  PROVE  /\ IsPath(Through(v, p, l))
         /\ Len(Through(v, p, l)) = Len(v.link[l]) + (Len(p) - Len(l))
         /\ \A i \in 1..Len(Through(v, p, l)) : Through(v, p, l)[i] =
              IF i <= Len(v.link[l]) THEN v.link[l][i] ELSE p[i - Len(v.link[l]) + Len(l)]
<1>1. IsPath(l) /\ IsPath(v.link[l]) BY LinkFacts
<1>2. PICK t : t = v.link[l] OBVIOUS
<1>3. Len(l) \in Nat /\ Len(t) \in Nat /\ Len(p) \in Nat /\ Len(l) <= Len(p)
  BY <1>1, <1>2, PathIs, PrefixPoint
<1>4. PICK r : r = SubSeq(p, Len(l) + 1, Len(p)) OBVIOUS
<1>5. IsPath(r) /\ Len(r) = Len(p) - Len(l)
      /\ \A i \in 1..Len(r) : r[i] = p[i + Len(l)]
  <2>1. PICK m, n : m = Len(l) + 1 /\ n = Len(p) OBVIOUS
  <2>2. m \in Nat /\ n \in Nat /\ 0 < m /\ r = SubSeq(p, m, n) BY <1>3, <1>4, <2>1
  <2>3. IsPath(r) /\ Len(r) = (IF m <= n THEN n - m + 1 ELSE 0)
        /\ \A i \in 1..(n - m + 1) : r[i] = p[m + i - 1]
    BY <2>1, <2>2, PartPath
  <2> QED BY <1>3, <2>1, <2>3
<1>6. Through(v, p, l) = t \o r BY <1>2, <1>4 DEF Through
<1>7. /\ IsPath(t \o r) /\ Len(t \o r) = Len(t) + Len(r)
      /\ \A i \in 1..(Len(t) + Len(r)) : (t \o r)[i] = IF i <= Len(t) THEN t[i] ELSE r[i - Len(t)]
  BY <1>1, <1>2, <1>5, ConcatPath
<1>8. ASSUME NEW i \in 1..(Len(t) + Len(r)), ~(i <= Len(t))
      PROVE  r[i - Len(t)] = p[i - Len(t) + Len(l)]
  <2>1. i - Len(t) \in 1..Len(r) BY <1>3, <1>5, <1>8
  <2> QED BY <1>5, <2>1
<1> QED BY <1>2, <1>3, <1>5, <1>6, <1>7, <1>8

LEMMA FollowType ==
  ASSUME NEW v \in Worlds, NEW p, IsPath(p) PROVE IsPath(Follow(v, p))
BY FollowIs, ThroughIs

LEMMA ResolveType ==
  ASSUME NEW v \in Worlds, NEW p, IsPath(p) PROVE IsPath(Resolve(v, p))
BY FollowType DEF Resolve

LEMMA PlainNames == IsPath(Missing) /\ IsPath(Escaped)
BY OnePath DEF Missing, Escaped

LEMMA OwnedType ==
  ASSUME NEW v \in Worlds, NEW p, IsPath(p) PROVE IsPath(Owned(v, p))
<1>1. IsPath(Resolve(v, p)) BY ResolveType
<1> QED BY <1>1, PlainNames DEF Owned, OwnerAt

\* The deepest of some levels.
LEMMA DeepestIs ==
  ASSUME NEW n \in Nat, NEW K \in SUBSET (0..n), K # {} PROVE Deepest(K) \in K
<1> DEFINE N == {m \in Nat : (\E i \in K : i <= m) => \E j \in K : \A i \in K : i <= m => i <= j}
<1>1. 0 \in N OBVIOUS
<1>2. ASSUME NEW m \in Nat, m \in N PROVE m + 1 \in N
  <2>1. CASE m + 1 \in K BY <2>1
  <2>2. CASE m + 1 \notin K
    <3>1. \A i \in K : i <= m + 1 => i <= m BY <2>2
    <3> QED BY <1>2, <3>1
  <2> QED BY <2>1, <2>2
<1>3. n \in N
  <2> HIDE DEF N
  <2> QED BY <1>1, <1>2, Induction
<1>4. \E j \in K : \A i \in K : i <= j
  <2>1. \A i \in K : i <= n OBVIOUS
  <2> QED BY <1>3, <2>1
<1> QED BY <1>4 DEF Deepest

\* The root is there.
LEMMA RootExists ==
  ASSUME NEW v \in Worlds PROVE Resolve(v, <<>>) = <<>> /\ Exists(v, <<>>)
<1>1. ASSUME NEW l \in DOMAIN v.link PROVE ~IsPrefix(l, <<>>)
  <2>1. IsPath(l) /\ l # <<>> BY LinkFacts
  <2>2. Len(l) \in Nat \ {0} BY <2>1, EmptyPath
  <2>3. IsPrefix(l, <<>>) => Len(l) <= Len(<<>>) BY <2>1, EmptyPath, PrefixPoint
  <2> QED BY <2>2, <2>3, EmptyPath
<1>2. Follow(v, <<>>) = <<>> BY <1>1, EmptyPath, FollowIs
<1>3. Resolve(v, <<>>) = <<>> BY <1>2 DEF Resolve
<1> QED BY <1>3 DEF Exists, IsThere, IsDirectory

LEMMA CanonicalType ==
  ASSUME NEW v \in Worlds, NEW d, IsPath(d) PROVE IsPath(CanonicalDirectory(v, d))
<1> DEFINE K == {i \in 0..Len(d) : Exists(v, SubSeq(d, 1, i))}
<1>0. Len(d) \in Nat BY PathIs
<1>1. 0 \in K
  <2>1. SubSeq(d, 1, 0) = <<>> BY SubSeqEmpty
  <2>2. Exists(v, SubSeq(d, 1, 0)) BY <2>1, RootExists, Zenon
  <2> QED BY <1>0, <2>2
<1>2. PICK i : i = Deepest(K) OBVIOUS
<1>3. i \in 0..Len(d)
  <2>1. K \in SUBSET (0..Len(d)) OBVIOUS
  <2>2. K # {} BY <1>1
  <2> HIDE DEF K
  <2>3. i \in K BY <1>0, <1>2, <2>1, <2>2, DeepestIs
  <2> QED BY <2>1, <2>3
<1>4. CanonicalDirectory(v, d) = DirectoryFrom(v, d, i)
  BY <1>2 DEF CanonicalDirectory
<1>5. IsPath(SubSeq(d, 1, i)) /\ IsPath(SubSeq(d, i + 1, Len(d)))
  <2>1. PICK m, n : m = i + 1 /\ n = Len(d) OBVIOUS
  <2>2. m \in Nat /\ n \in Nat /\ 0 < m BY <1>0, <1>3, <2>1
  <2>3. IsPath(SubSeq(d, m, n)) BY <2>1, <2>2, PartPath
  <2>4. IsPath(SubSeq(d, 1, i)) BY <1>0, <1>3, PartPath
  <2> QED BY <2>1, <2>3, <2>4
<1>6. IsPath(Resolve(v, SubSeq(d, 1, i))) BY <1>5, ResolveType
<1>7. IsPath(Resolve(v, SubSeq(d, 1, i)) \o SubSeq(d, i + 1, Len(d)))
  BY <1>5, <1>6, ConcatPath
<1> QED BY <1>4, <1>7, PlainNames DEF DirectoryFrom

LEMMA DirPath == ASSUME NEW p, IsPath(p), p # <<>> PROVE IsPath(Dir(p))
<1>1. PICK n : n = Len(p) - 1 OBVIOUS
<1>2. n \in Nat /\ n <= Len(p) BY <1>1, EmptyPath
<1>3. IsPath(SubSeq(p, 1, n)) BY <1>2, PartPath
<1> QED BY <1>1, <1>3 DEF Dir

LEMMA AbsoluteType ==
  ASSUME NEW v \in Worlds, NEW p, IsPath(p) PROVE IsPath(AbsoluteTarget(v, p))
<1>1. CASE p = <<>>
  BY <1>1, RootExists, EmptyPath DEF AbsoluteTarget, TargetAt, IsDirectory
<1>2. CASE p # <<>>
  <2>1. IsPath(Dir(p)) BY <1>2, DirPath
  <2>2. IsPath(CanonicalDirectory(v, Dir(p))) BY <2>1, CanonicalType
  <2>3. IsPath(Append(CanonicalDirectory(v, Dir(p)), Last(p))) BY <2>2, AppendPath
  <2>4. IsPath(Resolve(v, p)) BY ResolveType
  <2> QED BY <2>3, <2>4, PlainNames DEF AbsoluteTarget, TargetAt, InDirectory
<1> QED BY <1>1, <1>2

\* What lies below d is followed to below where d leads, or a link lies between.
LEMMA FollowBelow ==
  ASSUME NEW v \in Worlds, NEW d, IsPath(d), NEW p, IsPath(p), Under(d, p)
  PROVE  \/ Under(Follow(v, d), Follow(v, p))
         \/ Follow(v, d) = d /\ IsDirectory(v, d)
<1>0. Len(d) \in Nat /\ Len(p) \in Nat /\ Len(d) < Len(p) /\ \A i \in 1..Len(d) : d[i] = p[i]
  BY PathIs, UnderPoint
<1>1. CASE \A l \in DOMAIN v.link : ~IsPrefix(l, p)
  <2>1. ASSUME NEW l \in DOMAIN v.link PROVE ~IsPrefix(l, d)
    <3>1. IsPath(l) BY LinkFacts
    <3>2. Len(l) \in Nat BY <3>1, PathIs
    <3>3. ~IsPrefix(l, p) BY <1>1
    <3> QED BY <1>0, <3>1, <3>2, <3>3, PrefixPoint
  <2>2. Follow(v, p) = p BY <1>1, FollowIs
  <2>3. Follow(v, d) = d BY <2>1, FollowIs
  <2> QED BY <2>2, <2>3
<1>2. ASSUME NEW l \in DOMAIN v.link, IsPrefix(l, p)
      PROVE  \/ Under(Follow(v, d), Follow(v, p))
             \/ Follow(v, d) = d /\ IsDirectory(v, d)
  <2>1. IsPath(l) /\ IsPath(v.link[l]) BY LinkFacts
  <2>2. Len(l) \in Nat /\ Len(l) <= Len(p) /\ \A i \in 1..Len(l) : l[i] = p[i]
    BY <1>2, <2>1, PathIs, PrefixPoint
  <2>3. Follow(v, p) = Through(v, p, l) BY <1>2, FollowIs, OneLink
  <2>4. CASE Len(l) <= Len(d)
    <3>1. IsPrefix(l, d) BY <1>0, <2>1, <2>2, <2>4, PrefixPoint
    <3>2. Follow(v, d) = Through(v, d, l) BY <3>1, FollowIs, OneLink
    <3>3. PICK a, b : a = Through(v, d, l) /\ b = Through(v, p, l) OBVIOUS
    <3>4. PICK m : m = Len(v.link[l]) OBVIOUS
    <3>5. m \in Nat BY <2>1, <3>4, PathIs
    <3>6. IsPath(a) /\ Len(a) = m + (Len(d) - Len(l))
          /\ \A i \in 1..Len(a) : a[i] = IF i <= m THEN v.link[l][i] ELSE d[i - m + Len(l)]
      <4>1. /\ IsPath(Through(v, d, l))
            /\ Len(Through(v, d, l)) = Len(v.link[l]) + (Len(d) - Len(l))
            /\ \A i \in 1..Len(Through(v, d, l)) : Through(v, d, l)[i] =
                 IF i <= Len(v.link[l]) THEN v.link[l][i]
                 ELSE d[i - Len(v.link[l]) + Len(l)]
        BY <3>1, ThroughIs
      <4> QED BY <3>3, <3>4, <4>1, Zenon
    <3>7. IsPath(b) /\ Len(b) = m + (Len(p) - Len(l))
          /\ \A i \in 1..Len(b) : b[i] = IF i <= m THEN v.link[l][i] ELSE p[i - m + Len(l)]
      <4>1. /\ IsPath(Through(v, p, l))
            /\ Len(Through(v, p, l)) = Len(v.link[l]) + (Len(p) - Len(l))
            /\ \A i \in 1..Len(Through(v, p, l)) : Through(v, p, l)[i] =
                 IF i <= Len(v.link[l]) THEN v.link[l][i]
                 ELSE p[i - Len(v.link[l]) + Len(l)]
        BY <1>2, ThroughIs
      <4> QED BY <3>3, <3>4, <4>1, Zenon
    <3>8. ASSUME NEW i \in 1..Len(a) PROVE a[i] = b[i]
      <4>1. i \in 1..Len(b) BY <1>0, <2>2, <3>5, <3>6, <3>7
      <4>2. CASE i <= m BY <3>6, <3>7, <4>1, <4>2
      <4>3. CASE ~(i <= m)
        <5>1. i - m + Len(l) \in 1..Len(d) BY <1>0, <2>2, <3>5, <3>6, <4>3
        <5> QED BY <1>0, <3>6, <3>7, <4>1, <4>3, <5>1
      <4> QED BY <4>2, <4>3
    <3>9. Len(a) < Len(b) BY <1>0, <2>2, <3>5, <3>6, <3>7
    <3> QED BY <2>3, <3>2, <3>3, <3>6, <3>7, <3>8, <3>9, UnderPoint
  <2>5. CASE Len(d) < Len(l)
    <3>1. Under(d, l) BY <1>0, <2>1, <2>2, <2>5, UnderPoint
    <3>2. ASSUME NEW k \in DOMAIN v.link PROVE ~IsPrefix(k, d)
      <4>1. IsPath(k) /\ ~Under(k, l) BY LinkFacts
      <4>2. Len(k) \in Nat BY <4>1, PathIs
      <4> QED BY <1>0, <2>1, <2>2, <2>5, <4>1, <4>2, UnderPoint, PrefixPoint
    <3>3. Follow(v, d) = d BY <3>2, FollowIs
    <3> QED BY <3>1, <3>3 DEF IsDirectory
  <2> QED BY <1>0, <2>2, <2>4, <2>5
<1> QED BY <1>1, <1>2

\* Where nothing is, nothing lies below.
LEMMA NothingBelow ==
  ASSUME NEW v \in Worlds, NEW d, IsPath(d), NEW p, IsPath(p), Under(d, p),
         IsFile(v, Resolve(v, p))
  PROVE  IsThere(v, Resolve(v, d))
<1> DEFINE e == Follow(v, d)
<1>1. CASE e = d /\ IsDirectory(v, d)
  <2>1. Resolve(v, d) = d BY <1>1 DEF Resolve
  <2> QED BY <1>1, <2>1 DEF IsThere
<1>2. CASE Under(e, Follow(v, p))
  <2>1. IsPath(e) /\ IsPath(Follow(v, p)) BY FollowType
  <2>2. CASE Follow(v, e) = e /\ IsDirectory(v, e)
    BY <2>2 DEF Resolve, IsThere
  <2>3. CASE Under(Follow(v, e), Follow(v, Follow(v, p)))
    BY <2>3 DEF Resolve, IsThere, IsDirectory, IsFile
  <2> HIDE DEF e
  <2> QED BY <1>2, <2>1, <2>2, <2>3, FollowBelow
<1> QED BY <1>1, <1>2, FollowBelow

-----------------------------------------------------------------------------
(***************************************************************************)
(* A load that nobody disturbs.  While calm holds the world is one of      *)
(* Worlds, and what the loader finds out stays true.                       *)
(***************************************************************************)

\* Excluded, whatever Git has been asked so far.
Barred(p) == Excluded(w, prefixes, [n \in {} |-> FALSE], p)

WorldQuiet ==
  /\ w \in Worlds /\ req \in Requests /\ listing \subseteq Paths
  /\ \A n \in DOMAIN answers : answers[n] = IgnoredByGit(w, n)

NamesQuiet ==
  /\ IsPath(buffer.path) /\ IsPath(buffer.owner)
  /\ IsFiniteSet(spelled) /\ \A x \in spelled : IsPath(x[2])

\* Only targets select, and they are done before any context is looked for.
JobShape(j) ==
  /\ DOMAIN j = DOMAIN NoJob /\ IsPath(j.path) /\ IsPath(j.absolute)
  /\ j.selected \in BOOLEAN
Queued(j) ==
  /\ JobShape(j)
  /\ pc \in {"spell", "targets"} => j.op = "target" /\ j.selected
  /\ pc \notin {"spell", "targets"} => j.op \in {"context", "scope"} /\ ~j.selected

QueueQuiet == IsPath(jobs) /\ \A i \in 1..Len(jobs) : Queued(jobs[i])

JobQuiet ==
  /\ JobShape(job)
  /\ job.selected => pc = "targets"
  /\ job.op \in {"context", "scope", "variables"} => ~job.selected
  /\ job.op \in {"target", "admit"} => job.selected
  /\ ~Reading => slots = NoSlots
  /\ job.op = "read" => DOMAIN slots = {job.path} \/
                        (slots = NoSlots /\ job.path \in DOMAIN project.sources)

\* The stages of a slot whose owner has been resolved.
Held == {"open", "data", "check", "name", "ready"}

SlotQuiet(p) ==
  LET s == slots[p] IN
  /\ IsPath(p)
  /\ s.stage \in Held \cup {"resolve", "kept", "absent", "failed"}
  /\ s.stage \in {"kept", "absent"} => job.op = "batch"
  /\ s.stage = "kept" => p \in DOMAIN project.sources
  /\ s.stage = "absent" => Owned(w, p) = Missing
  /\ job.op = "read" \/ (s.stage \in Held /\ ~job.selected) => p \notin DOMAIN project.sources
  /\ s.stage \in Held => IsPath(s.owner)
  /\ s.stage = "data" => s.inode # 0
  /\ s.stage \in {"check", "name", "ready"} => s.data \in DOMAIN Declares

SlotsQuiet == IsFiniteSet(DOMAIN slots) /\ \A p \in DOMAIN slots : SlotQuiet(p)

\* What the context of a source is computed from.
Readable(s) ==
  /\ IsPath(s.path) /\ IsPath(s.rolePath) /\ s.data \in DOMAIN Declares
  /\ IsFiniteSet(s.spellings) /\ \A x \in s.spellings : IsPath(x)

SourcesQuiet ==
  /\ project.selected \subseteq DOMAIN project.sources /\ IsFiniteSet(project.selected)
  /\ \A p \in DOMAIN project.sources : Readable(project.sources[p])

\* All that directory d offers is loaded, or its scan is under way.
Eligible(d, p) ==
  /\ p \in Candidates(w, listing, prefixes, d, FALSE)
  /\ ~Barred(p) /\ Owned(w, p) \notin Refusals /\ IsFile(w, Owned(w, p))
  /\ d \in VariableDirectories => VariableDeclarationPath(p)
Scanned(d) == \A p \in Paths : Eligible(d, p) => p \in DOMAIN project.sources
Scanning(d) ==
  /\ job.path = d /\ ~job.selected
  /\ \/ job.op = "directory" \/ (job.op = "variables" /\ d \in VariableDirectories)
     \/ job.op = "batch" /\ \A p \in Paths : Eligible(d, p) => p \in DOMAIN slots

Asking(d) == \E i \in 1..Len(jobs) : jobs[i].op = "scope" /\ jobs[i].path = d
Looked(d) == Barred(d) \/ d \in DOMAIN project.directories

DirectoriesQuiet == \A d \in DOMAIN project.directories : Scanned(d) \/ Scanning(d)
ScopesQuiet ==
  /\ pc = "directories" => \A d \in ContextScopes :
       Looked(d) \/ Asking(d) \/ (job.op = "scope" /\ job.path = d)
  /\ pc \in {"references", "scopes", "done"} => \A d \in ContextScopes : Looked(d)

Quiet ==
  /\ WorldQuiet /\ NamesQuiet /\ QueueQuiet /\ JobQuiet /\ SlotsQuiet /\ SourcesQuiet
  /\ DirectoriesQuiet /\ ScopesQuiet

-----------------------------------------------------------------------------
(***************************************************************************)
(* The context of a source is a finite set of paths.                       *)
(***************************************************************************)

LEMMA SmallPaths ==
  ASSUME NEW x, NEW y, NEW z
  PROVE  IsPath(<<x>>) /\ IsPath(<<x, y>>) /\ IsPath(<<x, y, z>>)
<1>1. <<x>> \in Seq({x}) /\ <<x, y>> \in Seq({x, y}) /\ <<x, y, z>> \in Seq({x, y, z})
  OBVIOUS
<1> QED BY <1>1, SeqIsPath

LEMMA RolePathIs == ASSUME NEW p, IsPath(p) PROVE IsPath(RolePath(p))
<1>1. CASE InRole(p)
  <2>1. PICK n : n = RoleStart(p) + 2 OBVIOUS
  <2>2. RoleStart(p) \in {0, 1} BY DEF RoleStart
  <2>3. n \in Nat /\ n <= Len(p) BY <1>1, <2>1, <2>2, PathIs DEF InRole
  <2>4. IsPath(SubSeq(p, 1, n)) BY <2>3, PartPath
  <2> QED BY <1>1, <2>1, <2>4 DEF RolePath
<1>2. CASE ~InRole(p) BY <1>2, EmptyPath DEF RolePath
<1> QED BY <1>1, <1>2

\* A finite set of paths.
Small(S) == IsFiniteSet(S) /\ \A p \in S : IsPath(p)

LEMMA SmallSets ==
  /\ Small({})
  /\ \A x : IsPath(x) => Small({x})
  /\ \A S, T : Small(S) /\ Small(T) => Small(S \cup T)
  /\ \A S : \A T \in SUBSET S : Small(S) => Small(T)
BY FS_EmptySet, FS_Singleton, FS_Union, FS_Subset DEF Small

LEMMA SmallUnion ==
  ASSUME NEW F, IsFiniteSet(F), \A S \in F : Small(S) PROVE Small(UNION F)
BY FS_UNION DEF Small

LEMMA ImageFinite ==
  ASSUME NEW S, IsFiniteSet(S), NEW f PROVE IsFiniteSet({f[x] : x \in S})
<1> DEFINE T == {f[x] : x \in S}
           g == [x \in S |-> f[x]]
<1>1. g \in Surjection(S, T) BY DEF Surjection
<1> HIDE DEF g, T
<1>2. IsFiniteSet(T) BY <1>1, FS_Surjection
<1> QED BY <1>2 DEF T

\* The directories of some roles.
RoleDirectories(roles, areas) == {Append(r, area) : r \in roles, area \in areas}

LEMMA RoleDirectoriesSmall ==
  ASSUME NEW roles, Small(roles), NEW areas, IsFiniteSet(areas)
  PROVE  Small(RoleDirectories(roles, areas))
<1>1. IsFiniteSet(roles \X areas) BY FS_Product DEF Small
<1>2. PICK f : f = [x \in roles \X areas |-> Append(x[1], x[2])] OBVIOUS
<1>0. ASSUME NEW d
      PROVE  d \in RoleDirectories(roles, areas) <=> \E r \in roles, area \in areas : d = Append(r, area)
  BY DEF RoleDirectories
<1>3. RoleDirectories(roles, areas) = {f[x] : x \in roles \X areas}
  <2>1. ASSUME NEW d \in RoleDirectories(roles, areas) PROVE d \in {f[x] : x \in roles \X areas}
    <3>1. PICK r \in roles, area \in areas : d = Append(r, area) BY <1>0
    <3>2. <<r, area>> \in roles \X areas /\ f[<<r, area>>] = d BY <1>2, <3>1
    <3> QED BY <3>2
  <2>2. ASSUME NEW x \in roles \X areas PROVE f[x] \in RoleDirectories(roles, areas)
    BY <1>0, <1>2
  <2> QED BY <2>1, <2>2
<1>4. IsFiniteSet({f[x] : x \in roles \X areas})
  BY <1>1, ImageFinite
<1>5. \A d \in RoleDirectories(roles, areas) : IsPath(d)
  <2> SUFFICES ASSUME NEW d \in RoleDirectories(roles, areas) PROVE IsPath(d) OBVIOUS
  <2>1. PICK r \in roles, area \in areas : d = Append(r, area) BY <1>0
  <2>2. IsPath(r) BY DEF Small
  <2> QED BY <2>1, <2>2, AppendPath
<1> QED BY <1>3, <1>4, <1>5 DEF Small

LEMMA AreasFinite ==
  /\ IsFiniteSet(RoleKinds) /\ IsFiniteSet(RoleKinds \cup {"templates"})
  /\ Small(VariableDirectories) /\ Small({DockerTasks})
  /\ Small(InventoryFiles) /\ Small(VariableFiles)
<1>1. IsFiniteSet(RoleKinds)
  <2>1. RoleKinds = {"defaults"} \cup {"tasks"} \cup {"handlers"} \cup {"vars"} BY DEF RoleKinds
  <2>2. IsFiniteSet({"defaults"} \cup {"tasks"} \cup {"handlers"} \cup {"vars"})
    BY FS_Singleton, FS_Union
  <2> QED BY <2>1, <2>2
<1>2. IsFiniteSet(RoleKinds \cup {"templates"}) BY <1>1, FS_AddElement
<1>3. Small({<<"roles">>} \cup {<<"resources", "roles">>} \cup {<<"group_vars">>}
            \cup {<<"host_vars">>} \cup {<<"inventory">>} \cup {<<"inventories">>})
  BY SmallPaths, SmallSets
<1>4. Small({<<"inventory.yml">>} \cup {<<"inventory.yaml">>})
      /\ Small({<<"vars.yml">>} \cup {<<"vars.yaml">>})
  BY SmallPaths, SmallSets
<1>5. VariableDirectories = {<<"roles">>} \cup {<<"resources", "roles">>} \cup {<<"group_vars">>}
            \cup {<<"host_vars">>} \cup {<<"inventory">>} \cup {<<"inventories">>}
  BY DEF VariableDirectories
<1>6. InventoryFiles = {<<"inventory.yml">>} \cup {<<"inventory.yaml">>}
      /\ VariableFiles = {<<"vars.yml">>} \cup {<<"vars.yaml">>}
  BY DEF InventoryFiles, VariableFiles
<1>7. Small({DockerTasks}) BY SmallPaths, SmallSets DEF DockerTasks
<1> QED BY <1>1, <1>2, <1>3, <1>4, <1>5, <1>6, <1>7

\* The roles that some names stand for, wherever they may live.
LEMMA RolesSmall ==
  ASSUME NEW s, NEW names, IsFiniteSet(names)
  PROVE  Small(UNION {ReferenceRolePaths(s, role) : role \in names})
<1>1. PICK f : f = [role \in names |-> ReferenceRolePaths(s, role)] OBVIOUS
<1> DEFINE F == {f[role] : role \in names}
<1>2. {ReferenceRolePaths(s, role) : role \in names} = F BY <1>1
<1>3. IsFiniteSet(F) BY ImageFinite
<1>4. ASSUME NEW S \in F PROVE Small(S)
  <2>1. PICK role \in names : S = ReferenceRolePaths(s, role) BY <1>1
  <2>2. S = {<<"roles", role>>} \cup {<<"resources", "roles", role>>}
    BY <2>1 DEF ReferenceRolePaths
  <2>3. IsPath(<<"roles", role>>) /\ IsPath(<<"resources", "roles", role>>) BY SmallPaths
  <2> QED BY <2>2, <2>3, SmallSets
<1> HIDE DEF F
<1>5. Small(UNION F) BY <1>3, <1>4, SmallUnion
<1> QED BY <1>2, <1>5

LEMMA OwningRolesSmall ==
  ASSUME NEW s, Readable(s) PROVE Small(OwningRoles(s))
<1>1. PICK f : f = [x \in s.spellings \ {<<>>} |-> RolePath(x)] OBVIOUS
<1> DEFINE R == {f[x] : x \in s.spellings \ {<<>>}}
<1>2. {RolePath(x) : x \in s.spellings \ {<<>>}} = R BY <1>1
<1>3. IsFiniteSet(s.spellings \ {<<>>}) BY FS_RemoveElement DEF Readable
<1>4. IsFiniteSet(R) BY <1>3, ImageFinite
<1>5. \A r \in R : IsPath(r) BY <1>1, RolePathIs DEF Readable
<1>6. Small(R) BY <1>4, <1>5 DEF Small
<1>7. Small({s.rolePath}) /\ Small({RolePath(s.path)})
  BY RolePathIs, SmallSets DEF Readable
<1> DEFINE more == IF s.kind = "template"
                   THEN {RolePath(s.path)} \cup {RolePath(x) : x \in s.spellings \ {<<>>}}
                   ELSE {}
<1>8. Small(more)
  <2>1. more = IF s.kind = "template" THEN {RolePath(s.path)} \cup R ELSE {} BY <1>2
  <2> HIDE DEF R
  <2> QED BY <1>6, <1>7, <2>1, SmallSets
<1>9. OwningRoles(s) = ({s.rolePath} \cup more) \ {<<>>}
  BY DEF OwningRoles
<1> HIDE DEF more
<1>10. Small({s.rolePath} \cup more) BY <1>7, <1>8, SmallSets
<1>11. OwningRoles(s) \in SUBSET ({s.rolePath} \cup more) BY <1>9
<1> QED BY <1>10, <1>11, SmallSets

LEMMA ContextSmall ==
  ASSUME NEW s, Readable(s)
  PROVE  Small(ContextDirectories(s)) /\ Small(ReferenceDirectories(s)) /\ Small(ContextFiles(s))
<1>1. Small(OwningRoles(s)) BY OwningRolesSmall
<1>2. IsFiniteSet(Declares[s.data]) /\ IsFiniteSet(Reads[s.data])
  BY ContentsAssumption DEF Readable
<1>3. IsFiniteSet(Declares[s.data] \ {s.role}) BY <1>2, FS_RemoveElement
<1> DEFINE own == RoleDirectories(OwningRoles(s), RoleKinds \cup {"templates"})
           named == RoleDirectories(UNION {ReferenceRolePaths(s, role) :
                                      role \in Declares[s.data] \ {s.role}}, RoleKinds)
           roles == ({s.rolePath} \ {<<>>})
                      \cup UNION {ReferenceRolePaths(s, role) : role \in Reads[s.data]}
           read == RoleDirectories(roles, RoleKinds \cup {"templates"})
           plain == {<<d>> : d \in {"group_vars", "host_vars", "inventory", "inventories"}}
<1>4. Small(own) BY <1>1, AreasFinite, RoleDirectoriesSmall
<1>5. Small(named) BY <1>3, AreasFinite, RolesSmall, RoleDirectoriesSmall
<1>6. Small(read)
  <2>1. Small({s.rolePath} \ {<<>>})
    <3>1. Small({s.rolePath}) BY SmallSets DEF Readable
    <3> QED BY <3>1, SmallSets
  <2>2. Small(UNION {ReferenceRolePaths(s, role) : role \in Reads[s.data]})
    BY <1>2, RolesSmall
  <2>3. PICK a, b : a = {s.rolePath} \ {<<>>} /\
                    b = UNION {ReferenceRolePaths(s, role) : role \in Reads[s.data]}
    OBVIOUS
  <2>4. Small(a \cup b) BY <2>1, <2>2, <2>3, SmallSets
  <2>5. Small(roles) BY <2>3, <2>4
  <2> HIDE DEF roles
  <2> QED BY <2>5, AreasFinite, RoleDirectoriesSmall
<1>7. Small(plain)
  <2>1. plain = {<<"group_vars">>} \cup {<<"host_vars">>} \cup {<<"inventory">>}
                \cup {<<"inventories">>}
    OBVIOUS
  <2>2. Small({<<"group_vars">>} \cup {<<"host_vars">>} \cup {<<"inventory">>}
                \cup {<<"inventories">>})
    BY SmallPaths, SmallSets
  <2> QED BY <2>1, <2>2
<1>8. ContextDirectories(s) \in SUBSET (own \cup {DockerTasks} \cup named \cup VariableDirectories)
  BY DEF ContextDirectories, NamespaceDirectories, RoleDirectories
<1>9. ReferenceDirectories(s) \in SUBSET (plain \cup read)
  BY DEF ReferenceDirectories, RoleDirectories
<1>10. ContextFiles(s) \in SUBSET (InventoryFiles \cup VariableFiles)
  BY DEF ContextFiles
<1> HIDE DEF own, named, read, plain
<1>11. Small(own \cup {DockerTasks} \cup named \cup VariableDirectories)
  BY <1>4, <1>5, AreasFinite, SmallSets
<1>12. Small(plain \cup read) /\ Small(InventoryFiles \cup VariableFiles)
  BY <1>6, <1>7, AreasFinite, SmallSets
<1> QED BY <1>8, <1>9, <1>10, <1>11, <1>12, SmallSets

-----------------------------------------------------------------------------
(***************************************************************************)
(* Steps that nobody else disturbs.                                        *)
(***************************************************************************)

\* The load goes on in the same world, under the same policy.
Going == Still /\ req' = req /\ listing' = listing

LEMMA BarredIs == ASSUME WorldQuiet, NEW p PROVE IsExcluded(p) <=> Barred(p)
<1>1. ASSUME NEW n
      PROVE  (IF n \in DOMAIN answers THEN answers[n] ELSE IgnoredByGit(w, n)) = IgnoredByGit(w, n)
  BY DEF WorldQuiet
<1>2. ASSUME NEW n
      PROVE  (IF n \in DOMAIN [k \in {} |-> FALSE] THEN [k \in {} |-> FALSE][n]
              ELSE IgnoredByGit(w, n)) = IgnoredByGit(w, n)
  OBVIOUS
<1> QED BY <1>1, <1>2 DEF IsExcluded, Barred, Excluded

LEMMA GoingBarred == ASSUME Going, NEW p PROVE Barred(p)' = Barred(p)
BY DEF Going, Still, Barred

LEMMA GoingWorld == ASSUME WorldQuiet, Going PROVE WorldQuiet'
<1>1. CASE answers' = answers BY <1>1 DEF WorldQuiet, Going, Still
<1>2. CASE AnswersGrow
  <2>1. PICK A : answers' = [n \in DOMAIN answers \cup A |->
                      IF n \in DOMAIN answers THEN answers[n] ELSE IgnoredByGit(w, n)]
    BY <1>2 DEF AnswersGrow
  <2>2. \A n \in DOMAIN answers' : answers'[n] = IgnoredByGit(w, n)
    BY <2>1 DEF WorldQuiet
  <2>3. w' = w /\ req' = req /\ listing' = listing BY DEF Going, Still
  <2> QED BY <2>2, <2>3 DEF WorldQuiet
<1> QED BY <1>1, <1>2 DEF Going, Still

LEMMA GoingScanned ==
  ASSUME Going, DOMAIN project.sources \subseteq DOMAIN project'.sources, NEW d
  PROVE  /\ \A p : Eligible(d, p)' = Eligible(d, p)
         /\ Scanned(d) => Scanned(d)'
<1>1. ASSUME NEW p PROVE Eligible(d, p)' = Eligible(d, p)
  BY GoingBarred DEF Eligible, Going, Still
<1> QED BY <1>1 DEF Scanned

\* What is selected, and hence whose context is looked for, stays.
SelectionStays ==
  /\ project'.selected = project.selected
  /\ \A p \in project.selected : project'.sources[p] = project.sources[p]

LEMMA ScopesStay == ASSUME SelectionStays PROVE ContextScopes' = ContextScopes
<1>1. Selected' = Selected BY DEF SelectionStays, Selected
<1> QED BY <1>1 DEF ContextScopes

\* A step within a phase.
LEMMA GoingScopes ==
  ASSUME ScopesQuiet, Going, SelectionStays, pc' = pc,
         DOMAIN project.directories \subseteq DOMAIN project'.directories,
         \A d : Asking(d) => Asking(d)' \/ (job'.op = "scope" /\ job'.path = d),
         \A d : job.op = "scope" /\ job.path = d
                  => Looked(d)' \/ (job'.op = "scope" /\ job'.path = d)
  PROVE  ScopesQuiet'
<1>1. ContextScopes' = ContextScopes BY ScopesStay
<1>2. \A d : Looked(d) => Looked(d)' BY GoingBarred DEF Looked
<1> QED BY <1>1, <1>2 DEF ScopesQuiet

\* A step that leaves the queue alone and loads nothing.
LEMMA QuietMove ==
  ASSUME Quiet, Going, NamesQuiet', UNCHANGED <<pc, jobs>>,
         project'.sources = project.sources, project'.selected = project.selected,
         DOMAIN project.directories \subseteq DOMAIN project'.directories,
         JobQuiet', SlotsQuiet', DirectoriesQuiet',
         \A d : job.op = "scope" /\ job.path = d
                  => Looked(d)' \/ (job'.op = "scope" /\ job'.path = d)
  PROVE  Quiet'
<1>1. WorldQuiet' BY GoingWorld DEF Quiet
<1>2. QueueQuiet' BY DEF Quiet, QueueQuiet, Queued
<1>3. SourcesQuiet' BY DEF Quiet, SourcesQuiet
<1>4. ScopesQuiet'
  <2>1. SelectionStays BY DEF SelectionStays
  <2>2. \A d : Asking(d) => Asking(d)' BY DEF Asking
  <2> QED BY <2>1, <2>2, GoingScopes DEF Quiet
<1> QED BY <1>1, <1>2, <1>3, <1>4 DEF Quiet

LEMMA QuietStep ==
  ASSUME Quiet, Going, UNCHANGED <<pc, naming, jobs>>,
         project'.sources = project.sources, project'.selected = project.selected,
         DOMAIN project.directories \subseteq DOMAIN project'.directories,
         JobQuiet', SlotsQuiet', DirectoriesQuiet',
         \A d : job.op = "scope" /\ job.path = d
                  => Looked(d)' \/ (job'.op = "scope" /\ job'.path = d)
  PROVE  Quiet'
<1>1. NamesQuiet' BY DEF Quiet, NamesQuiet, naming
<1>2. UNCHANGED <<pc, jobs>> OBVIOUS
<1> QED BY <1>1, <1>2, QuietMove

LEMMA NoSlotsQuiet == ASSUME slots' = NoSlots PROVE SlotsQuiet'
BY FS_EmptySet DEF SlotsQuiet, NoSlots

LEMMA NoJobQuiet == ASSUME job' = NoJob, slots' = NoSlots PROVE JobQuiet'
BY EmptyPath DEF JobQuiet, JobShape, NoJob, Reading

\* Every scan that was under way is done, or goes on.
LEMMA GoingDirectories ==
  ASSUME DirectoriesQuiet, Going, DOMAIN project.sources \subseteq DOMAIN project'.sources,
         DOMAIN project'.directories = DOMAIN project.directories,
         \A d : Scanning(d) => Scanned(d)' \/ Scanning(d)'
  PROVE  DirectoriesQuiet'
BY GoingScanned DEF DirectoriesQuiet

\* A job that is dropped.
LEMMA SkipQuiet ==
  ASSUME Quiet, Skip, answers' = answers \/ AnswersGrow,
         project'.sources = project.sources, project'.selected = project.selected,
         project'.directories = project.directories,
         \A d : ~Scanning(d), \A d : job.op = "scope" /\ job.path = d => Looked(d)
  PROVE  Quiet'
<1>1. Going BY DEF Skip, Going, Still, world
<1>2. SlotsQuiet' /\ JobQuiet' BY NoSlotsQuiet, NoJobQuiet DEF Skip
<1>3. DirectoriesQuiet' BY <1>1, GoingDirectories DEF Quiet
<1>4. \A d : Looked(d) => Looked(d)' BY <1>1, GoingBarred DEF Looked
<1>5. UNCHANGED <<pc, naming, jobs>> BY DEF Skip
<1> QED BY <1>1, <1>2, <1>3, <1>4, <1>5, QuietStep

\* A load that fails keeps nothing.
LEMMA FailQuiet == ASSUME Quiet, Fail PROVE Quiet'
<1> USE DEF Fail
<1>1. Going BY DEF Going, Still, world, policy
<1>2. WorldQuiet' BY <1>1, GoingWorld DEF Quiet
<1>3. NamesQuiet' BY DEF Quiet, NamesQuiet, naming
<1>4. QueueQuiet' BY EmptyPath DEF QueueQuiet
<1>5. JobQuiet' /\ SlotsQuiet' BY NoSlotsQuiet, NoJobQuiet
<1>6. SourcesQuiet' BY FS_EmptySet DEF SourcesQuiet, EmptyProject
<1>7. DirectoriesQuiet' /\ ScopesQuiet' BY DEF DirectoriesQuiet, ScopesQuiet, EmptyProject
<1> QED BY <1>2, <1>3, <1>4, <1>5, <1>6, <1>7 DEF Quiet

-----------------------------------------------------------------------------
\* Before the targets nothing is loaded.
LEMMA EarlyQuiet ==
  ASSUME ClaimInv, Quiet, pc \in {"idle", "list", "identify"},
         pc' \in {"list", "identify", "spell"}, UNCHANGED <<work, project>>,
         WorldQuiet', NamesQuiet'
  PROVE  Quiet'
<1>1. project = EmptyProject /\ slots = NoSlots /\ job = NoJob /\ jobs = <<>>
  BY DEF ClaimInv, PhaseInv, Working
<1>2. project' = EmptyProject /\ slots' = NoSlots /\ job' = NoJob /\ jobs' = <<>>
  BY <1>1 DEF work
<1>3. QueueQuiet' BY <1>2, EmptyPath DEF QueueQuiet
<1>4. JobQuiet' /\ SlotsQuiet' BY <1>2, NoSlotsQuiet, NoJobQuiet
<1>5. SourcesQuiet' BY <1>2, FS_EmptySet DEF SourcesQuiet, EmptyProject
<1>6. DirectoriesQuiet' /\ ScopesQuiet'
  BY <1>2 DEF DirectoriesQuiet, ScopesQuiet, EmptyProject
<1> QED BY <1>3, <1>4, <1>5, <1>6 DEF Quiet

LEMMA ConfigureQuiet == ASSUME ClaimInv, Quiet, Configure PROVE Quiet'
<1>1. CASE Fail BY <1>1, FailQuiet
<1>2. CASE ~Fail
  <2>1. /\ pc = "idle" /\ pc' = "list"
        /\ UNCHANGED <<world, req, listing, answers, naming, work, project>>
    BY <1>2 DEF Configure
  <2>2. WorldQuiet' BY <2>1 DEF Quiet, WorldQuiet, world
  <2>3. NamesQuiet' BY <2>1 DEF Quiet, NamesQuiet, naming
  <2> QED BY <2>1, <2>2, <2>3, EarlyQuiet
<1> QED BY <1>1, <1>2

LEMMA ListSourcesQuiet == ASSUME ClaimInv, Quiet, ListSources PROVE Quiet'
<1>1. CASE Fail BY <1>1, FailQuiet
<1>2. CASE ~Fail
  <2>1. /\ pc = "list" /\ pc' = "identify"
        /\ listing' = IF w.git THEN GitListing(w) ELSE {}
        /\ UNCHANGED <<world, req, answers, naming, work, project>>
    BY <1>2 DEF ListSources
  <2>2. listing' \subseteq Paths BY <2>1 DEF GitListing
  <2>3. WorldQuiet' BY <2>1, <2>2 DEF Quiet, WorldQuiet, world
  <2>4. NamesQuiet' BY <2>1 DEF Quiet, NamesQuiet, naming
  <2> QED BY <2>1, <2>3, <2>4, EarlyQuiet
<1> QED BY <1>1, <1>2

LEMMA RequestPaths ==
  ASSUME WorldQuiet
  PROVE  /\ IsPath(req.paths) /\ \A t \in ToSet(req.paths) : IsPath(t)
         /\ IsPath(req.stdin) /\ IsPath(req.source) /\ req.content \in DOMAIN Declares
BY RequestsAssumption DEF WorldQuiet

LEMMA SpellingPath == ASSUME NEW t, IsPath(t) PROVE IsPath(Spelling(t))
BY EmptyPath DEF Spelling

LEMMA IdentifyBufferQuiet == ASSUME ClaimInv, Quiet, IdentifyBuffer PROVE Quiet'
<1>1. CASE Fail BY <1>1, FailQuiet
<1>2. CASE ~Fail
  <2>1. /\ pc = "identify" /\ pc' = "spell"
        /\ UNCHANGED <<world, req, policy, work, project, calm>>
    BY <1>2 DEF IdentifyBuffer
  <2>2. WorldQuiet' BY <2>1 DEF Quiet, WorldQuiet, world, policy
  <2>3. NamesQuiet'
    <3>1. CASE UNCHANGED naming BY <3>1 DEF Quiet, NamesQuiet, naming
    <3>2. CASE ~UNCHANGED naming
      <4> DEFINE path == AbsoluteTarget(w, req.stdin)
                 owner == BufferOwner(path)
      <4>1. PICK a, b : /\ a = {} \/ a = {<<path, Spelling(req.stdin)>>}
                        /\ b = {} \/ b = {<<path, Spelling(req.source)>>}
                        /\ spelled' = a \cup b
                        /\ buffer'.path = path /\ buffer'.owner = owner
        <5>1. /\ buffer'.path = path /\ buffer'.owner = owner
          BY <1>2, <3>2 DEF IdentifyBuffer, naming
        <5>2. \E T1, T2 \in BOOLEAN :
                spelled' = (IF T1 THEN {<<path, Spelling(req.stdin)>>} ELSE {})
                  \cup (IF T2 THEN {<<path, Spelling(req.source)>>} ELSE {})
          <6> DEFINE t1 == IsTemplateFile(w, req.stdin) \/ IsTemplateFile(w, path)
                     t2 == (t1 \/ (req.source # <<>> /\ IsTemplateFile(w, req.source)))
                           /\ req.source # <<>>
          <6>1. spelled' = (IF t1 THEN {<<path, Spelling(req.stdin)>>} ELSE {})
                  \cup (IF t2 THEN {<<path, Spelling(req.source)>>} ELSE {})
            BY <1>2, <3>2, Zenon DEF IdentifyBuffer, naming
          <6> HIDE DEF t1, t2, path
          <6>2. CASE t1 /\ t2 BY <6>1, <6>2
          <6>3. CASE t1 /\ ~t2 BY <6>1, <6>3
          <6>4. CASE ~t1 /\ t2 BY <6>1, <6>4
          <6>5. CASE ~t1 /\ ~t2 BY <6>1, <6>5
          <6> QED BY <6>2, <6>3, <6>4, <6>5
        <5> HIDE DEF path, owner
        <5>3. PICK T1, T2 \in BOOLEAN :
                spelled' = (IF T1 THEN {<<path, Spelling(req.stdin)>>} ELSE {})
                  \cup (IF T2 THEN {<<path, Spelling(req.source)>>} ELSE {})
          BY <5>2
        <5>4. PICK a, b : /\ a = (IF T1 THEN {<<path, Spelling(req.stdin)>>} ELSE {})
                          /\ b = (IF T2 THEN {<<path, Spelling(req.source)>>} ELSE {})
          OBVIOUS
        <5>5. a = {} \/ a = {<<path, Spelling(req.stdin)>>} BY <5>4
        <5>6. b = {} \/ b = {<<path, Spelling(req.source)>>} BY <5>4
        <5>7. spelled' = a \cup b BY <5>3, <5>4
        <5> QED BY <5>1, <5>5, <5>6, <5>7
      <4>2. IsPath(req.stdin) /\ IsPath(req.source) BY RequestPaths DEF Quiet
      <4>3. IsPath(path) BY <4>2, AbsoluteType DEF Quiet, WorldQuiet
      <4>4. IsPath(owner)
        <5>1. IsPath(Owned(w, path)) BY <4>3, OwnedType DEF Quiet, WorldQuiet
        <5> QED BY <4>3, <5>1, PlainNames DEF BufferOwner
      <4>5. IsPath(Spelling(req.stdin)) /\ IsPath(Spelling(req.source))
        BY <4>2, SpellingPath
      <4>6. IsFiniteSet(a \cup b) BY <4>1, FS_EmptySet, FS_Singleton, FS_Union
      <4> HIDE DEF path, owner
      <4>7. \A x \in a \cup b : IsPath(x[2]) BY <4>1, <4>5
      <4> QED BY <4>1, <4>3, <4>4, <4>6, <4>7 DEF NamesQuiet
    <3> QED BY <3>1, <3>2
  <2> QED BY <2>1, <2>2, <2>3, EarlyQuiet
<1> QED BY <1>1, <1>2

\* A queue and one more.
LEMMA QueueGrows ==
  ASSUME NEW q, IsPath(q), NEW x
  PROVE  /\ IsPath(Append(q, x)) /\ Len(q) \in Nat /\ Len(Append(q, x)) = Len(q) + 1
         /\ \A i \in 1..Len(q) : Append(q, x)[i] = q[i]
         /\ Append(q, x)[Len(q) + 1] = x
<1>1. PICK S : q \in Seq(S) BY PathIs
<1>2. PICK T : T = S \cup {x} OBVIOUS
<1>3. q \in Seq(T) /\ x \in T BY <1>1, <1>2
<1>4. /\ Append(q, x) \in Seq(T) /\ Len(q) \in Nat /\ Len(Append(q, x)) = Len(q) + 1
      /\ \A i \in 1..Len(q) : Append(q, x)[i] = q[i]
      /\ Append(q, x)[Len(q) + 1] = x
  BY <1>3
<1> QED BY <1>4, AppendPath

LEMMA TargetShape ==
  ASSUME NEW t, IsPath(t)
  PROVE  LET j == Target(t) IN
         JobShape(j) /\ j.op = "target" /\ j.selected = TRUE /\ j.path = t
BY EmptyPath DEF Target, JobShape, NoJob

\* The targets queue up one by one.
LEMMA TargetQueued ==
  ASSUME Quiet, pc = "spell", NEW t, IsPath(t), jobs' = Append(jobs, Target(t)),
         pc' \in {"spell", "targets"}
  PROVE  QueueQuiet'
<1>1. PICK j : j = Target(t) OBVIOUS
<1>2. JobShape(j) /\ j.op = "target" /\ j.selected BY <1>1, TargetShape
<1>3. IsPath(jobs) /\ \A i \in 1..Len(jobs) : Queued(jobs[i]) BY DEF Quiet, QueueQuiet
<1>4. /\ IsPath(jobs') /\ Len(jobs) \in Nat /\ Len(jobs') = Len(jobs) + 1
      /\ \A i \in 1..Len(jobs) : jobs'[i] = jobs[i]
      /\ jobs'[Len(jobs) + 1] = j
  BY <1>1, <1>3, QueueGrows
<1>5. ASSUME NEW i \in 1..Len(jobs') PROVE Queued(jobs[i])'
  <2>1. i \in 1..Len(jobs) \/ i = Len(jobs) + 1 BY <1>4
  <2>2. JobShape(jobs'[i]) /\ jobs'[i].op = "target" /\ jobs'[i].selected
    BY <1>2, <1>3, <1>4, <2>1 DEF Queued
  <2> QED BY <2>2 DEF Queued, JobShape
<1> QED BY <1>4, <1>5 DEF QueueQuiet

\* Until the targets are taken nothing is loaded.
LEMMA SpellQuiet ==
  ASSUME ClaimInv, Quiet, pc = "spell", pc' \in {"spell", "targets"},
         UNCHANGED <<world, req, policy, buffer, job, slots, project>>,
         NamesQuiet', QueueQuiet'
  PROVE  Quiet'
<1>1. WorldQuiet' BY DEF Quiet, WorldQuiet, world, policy
<1>2. project' = EmptyProject /\ slots' = NoSlots /\ job' = NoJob
  BY DEF ClaimInv, PhaseInv, Working
<1>3. JobQuiet' /\ SlotsQuiet' BY <1>2, NoSlotsQuiet, NoJobQuiet
<1>4. SourcesQuiet' BY <1>2, FS_EmptySet DEF SourcesQuiet, EmptyProject
<1>5. DirectoriesQuiet' /\ ScopesQuiet'
  BY <1>2 DEF DirectoriesQuiet, EmptyProject, ScopesQuiet
<1> QED BY <1>1, <1>3, <1>4, <1>5 DEF Quiet

LEMMA RememberSpellingQuiet == ASSUME ClaimInv, Quiet, RememberSpelling PROVE Quiet'
<1>1. CASE Fail BY <1>1, FailQuiet
<1>2. CASE ~Fail
  <2>1. PICK t : t = req.paths[Len(jobs) + 1] OBVIOUS
  <2>2. /\ pc = "spell" /\ Len(jobs) < Len(req.paths) /\ pc' = pc
        /\ spelled' = spelled \/ spelled' = spelled \cup {<<AbsoluteTarget(w, t), Spelling(t)>>}
        /\ jobs' = Append(jobs, Target(t))
        /\ UNCHANGED <<world, req, policy, buffer, job, slots, project, calm>>
    BY <1>2, <2>1 DEF RememberSpelling
  <2>3. IsPath(t)
    <3>1. IsPath(req.paths) /\ Len(req.paths) \in Nat
          /\ \A x \in ToSet(req.paths) : IsPath(x)
      BY RequestPaths, PathIs DEF Quiet
    <3>2. IsPath(jobs) BY DEF Quiet, QueueQuiet
    <3>3. Len(jobs) \in Nat BY <3>2, PathIs
    <3>4. Len(jobs) + 1 \in DOMAIN req.paths BY <2>2, <3>1, <3>3, PathIs
    <3>5. t \in ToSet(req.paths) BY <2>1, <3>4 DEF ToSet
    <3> QED BY <3>1, <3>5
  <2>4. NamesQuiet'
    <3>1. PICK x : x = <<AbsoluteTarget(w, t), Spelling(t)>> OBVIOUS
    <3>2. IsPath(x[2]) BY <2>3, <3>1, SpellingPath
    <3>3. IsFiniteSet({x}) BY FS_Singleton
    <3>4. IsFiniteSet(spelled \cup {x}) BY <3>3, FS_Union DEF Quiet, NamesQuiet
    <3>5. spelled' = spelled \/ spelled' = spelled \cup {x} BY <2>2, <3>1
    <3> QED BY <2>2, <3>2, <3>4, <3>5 DEF Quiet, NamesQuiet
  <2>5. QueueQuiet' BY <2>2, <2>3, TargetQueued
  <2> QED BY <2>2, <2>4, <2>5, SpellQuiet
<1> QED BY <1>1, <1>2

LEMMA EndSpellingsQuiet == ASSUME ClaimInv, Quiet, EndSpellings PROVE Quiet'
<1>1. /\ pc = "spell" /\ pc' = "targets"
      /\ jobs' = jobs \/ jobs' = Append(jobs, Target(req.stdin))
      /\ UNCHANGED <<world, req, policy, naming, job, slots, project>>
  BY DEF EndSpellings
<1>2. IsPath(req.stdin) BY RequestPaths DEF Quiet
<1>3. QueueQuiet'
  <2>1. CASE jobs' = jobs
    <3>1. \A i \in 1..Len(jobs) : Queued(jobs[i])'
      BY <1>1, <2>1 DEF Quiet, QueueQuiet, Queued, JobShape
    <3> QED BY <2>1, <3>1 DEF Quiet, QueueQuiet
  <2>2. CASE jobs' # jobs BY <1>1, <1>2, <2>2, TargetQueued
  <2> QED BY <2>1, <2>2
<1>4. NamesQuiet' BY <1>1 DEF Quiet, NamesQuiet, naming
<1> QED BY <1>1, <1>3, <1>4, SpellQuiet DEF naming

-----------------------------------------------------------------------------
\* The head and the rest of a queue.
LEMMA QueuePath ==
  ASSUME NEW q, IsPath(q), q # <<>>
  PROVE  /\ Len(q) \in Nat \ {0} /\ Head(q) = q[1]
         /\ IsPath(Tail(q)) /\ Len(Tail(q)) = Len(q) - 1
         /\ \A i \in 1..(Len(q) - 1) : Tail(q)[i] = q[i + 1]
<1>1. PICK S : q \in Seq(S) BY PathIs
<1>2. Len(q) \in Nat \ {0} /\ Head(q) = q[1] BY <1>1
<1>3. Tail(q) \in Seq(S) /\ Len(Tail(q)) = Len(q) - 1
      /\ \A i \in 1..(Len(q) - 1) : Tail(q)[i] = q[i + 1]
  BY <1>1
<1> QED BY <1>2, <1>3, SeqIsPath

\* Nothing is scanned, and no scope is asked for, by a job of these kinds.
Plainly(j) == j.op \in {"none", "target", "admit", "file", "context", "read"}

LEMMA PlainlyScans == ASSUME Plainly(job) PROVE \A d : ~Scanning(d) /\ job.op # "scope"
BY DEF Plainly, Scanning

LEMMA TakeJobQuiet == ASSUME ClaimInv, Quiet, TakeJob PROVE Quiet'
<1>1. /\ Working /\ job = NoJob /\ jobs # <<>>
      /\ job' = Head(jobs) /\ jobs' = Tail(jobs)
      /\ UNCHANGED <<world, pc, req, policy, naming, slots, project, calm>>
  BY DEF TakeJob, Idle
<1>2. Going BY <1>1 DEF Going, Still, world, policy
<1>3. WorldQuiet' BY <1>2, GoingWorld DEF Quiet
<1>4. NamesQuiet' BY <1>1 DEF Quiet, NamesQuiet, naming
<1>5. /\ Len(jobs) \in Nat \ {0} /\ job' = jobs[1]
      /\ IsPath(jobs') /\ Len(jobs') = Len(jobs) - 1
      /\ \A i \in 1..(Len(jobs) - 1) : jobs'[i] = jobs[i + 1]
  BY <1>1, QueuePath DEF Quiet, QueueQuiet
<1>6. QueueQuiet'
  <2>1. \A i \in 1..Len(jobs') : \E k \in 1..Len(jobs) : jobs'[i] = jobs[k] BY <1>5
  <2>2. pc' = pc BY <1>1
  <2>3. \A i \in 1..Len(jobs') : Queued(jobs[i])'
    BY <2>1, <2>2 DEF Quiet, QueueQuiet, Queued, JobShape
  <2> QED BY <1>5, <2>3 DEF QueueQuiet
<1>7. slots' = NoSlots BY <1>1 DEF Quiet, JobQuiet, Reading, NoJob
<1>8. Queued(job') BY <1>5 DEF Quiet, QueueQuiet
<1>9. JobQuiet' /\ SlotsQuiet'
  <2>1. pc' = pc BY <1>1
  <2>2. JobShape(job') BY <1>8 DEF Queued
  <2>3. JobShape(job)' BY <2>2 DEF JobShape
  <2>4. job'.selected => pc' = "targets" BY <1>1, <1>8, <2>1 DEF Queued, Working
  <2>5. job'.op \in {"context", "scope", "variables"} => ~job'.selected
    BY <1>8, <2>1 DEF Queued
  <2>6. job'.op \in {"target", "admit"} => job'.selected BY <1>8, <2>1 DEF Queued
  <2>7. job'.op # "read" BY <1>8, <2>1 DEF Queued
  <2> QED BY <1>7, <2>3, <2>4, <2>5, <2>6, <2>7, NoSlotsQuiet DEF JobQuiet
<1>10. SourcesQuiet' BY <1>1 DEF Quiet, SourcesQuiet
<1>11. DirectoriesQuiet'
  <2>1. Plainly(job) BY <1>1 DEF Plainly, NoJob
  <2> QED BY <1>1, <1>2, <2>1, PlainlyScans, GoingDirectories DEF Quiet
<1>12. ScopesQuiet'
  <2>1. SelectionStays BY <1>1 DEF SelectionStays
  <2>2. ASSUME NEW d, Asking(d) PROVE Asking(d)' \/ (job'.op = "scope" /\ job'.path = d)
    <3>1. PICK i \in 1..Len(jobs) : jobs[i].op = "scope" /\ jobs[i].path = d
      BY <2>2 DEF Asking
    <3>2. CASE i = 1 BY <1>5, <3>1, <3>2
    <3>3. CASE i # 1
      <4>1. i - 1 \in 1..(Len(jobs) - 1) /\ (i - 1) + 1 = i BY <1>5, <3>3
      <4>2. jobs'[i - 1] = jobs[i] BY <1>5, <4>1
      <4>3. Asking(d)' BY <1>5, <3>1, <4>1, <4>2 DEF Asking
      <4> QED BY <4>3
    <3> QED BY <3>2, <3>3
  <2>3. job.op # "scope" BY <1>1 DEF NoJob
  <2> QED BY <1>1, <1>2, <2>1, <2>2, <2>3, GoingScopes DEF Quiet
<1> QED BY <1>3, <1>4, <1>6, <1>9, <1>10, <1>11, <1>12 DEF Quiet

\* A target's job that becomes another one.
LEMMA TargetQuiet ==
  ASSUME Quiet, Going, job.op \in {"target", "admit"},
         UNCHANGED <<pc, naming, jobs, slots>>, JobShape(job)',
         job'.op \in {"admit", "file", "directory"}, job'.selected = job.selected,
         project'.sources = project.sources, project'.selected = project.selected,
         project'.directories = project.directories
  PROVE  Quiet'
<1>1. job.selected /\ pc = "targets" /\ slots = NoSlots
  BY DEF Quiet, JobQuiet, Reading
<1>2. JobQuiet' BY <1>1 DEF JobQuiet, Reading
<1>3. SlotsQuiet' BY <1>1, NoSlotsQuiet
<1>4. Plainly(job) BY DEF Plainly
<1>5. DirectoriesQuiet' BY <1>4, PlainlyScans, GoingDirectories DEF Quiet
<1>6. UNCHANGED <<pc, naming, jobs>> OBVIOUS
<1> QED BY <1>2, <1>3, <1>4, <1>5, <1>6, PlainlyScans, QuietStep

LEMMA AdmitSpellingQuiet == ASSUME ClaimInv, Quiet, AdmitSpelling PROVE Quiet'
<1>1. CASE Fail BY <1>1, FailQuiet
<1>2. CASE ~Fail
  <2> DEFINE absolute == AbsoluteTarget(w, job.path)
  <2>1. /\ Doing("target")
        /\ \/ job' = [job EXCEPT !.op = "file", !.path = absolute]
           \/ \E d : job' = [job EXCEPT !.op = "admit", !.owner = Owned(w, job.path),
                                       !.absolute = absolute, !.directory = d]
        /\ UNCHANGED <<world, pc, req, policy, naming, jobs, slots, project, calm>>
    BY <1>2 DEF AdmitSpelling
  <2>2. Going BY <2>1 DEF Going, Still, world, policy
  <2>3. JobShape(job) /\ IsPath(job.path) BY DEF Quiet, JobQuiet, JobShape
  <2>4. IsPath(absolute) BY <2>3, AbsoluteType DEF Quiet, WorldQuiet
  <2> HIDE DEF absolute
  <2>5. JobShape(job') /\ job'.op \in {"file", "admit"} /\ job'.selected = job.selected
    <3>1. CASE job' = [job EXCEPT !.op = "file", !.path = absolute]
      BY <2>3, <2>4, <3>1 DEF JobShape, NoJob
    <3>2. CASE \E d : job' = [job EXCEPT !.op = "admit", !.owner = Owned(w, job.path),
                                        !.absolute = absolute, !.directory = d]
      BY <2>3, <2>4, <3>2 DEF JobShape, NoJob
    <3> QED BY <2>1, <3>1, <3>2
  <2>6. JobShape(job)' BY <2>5 DEF JobShape
  <2> QED BY <2>1, <2>2, <2>5, <2>6, TargetQuiet DEF Doing
<1> QED BY <1>1, <1>2

LEMMA AdmitTargetQuiet == ASSUME ClaimInv, Quiet, AdmitTarget PROVE Quiet'
<1>1. CASE Fail BY <1>1, FailQuiet
<1>2. CASE ~Fail
  <2> DEFINE absolute == job.absolute
             op == IF job.directory THEN "directory" ELSE "file"
  <2>1. Doing("admit") BY DEF AdmitTarget
  <2>2. JobShape(job) /\ IsPath(job.path) BY DEF Quiet, JobQuiet, JobShape
  <2>3. IsPath(absolute) BY <2>2 DEF JobShape
  <2>4. CASE Skip /\ UNCHANGED <<answers, project>>
    <3>1. Plainly(job) BY <2>1 DEF Doing, Plainly
    <3> QED BY <2>4, <3>1, PlainlyScans, SkipQuiet
  <2>5. CASE ~(Skip /\ UNCHANGED <<answers, project>>)
    <3>1. /\ project' = [project EXCEPT !.spellings = @ \cup {<<job.path, job.owner>>}]
          /\ job' = [job EXCEPT !.path = absolute, !.op = op]
          /\ UNCHANGED <<world, pc, req, policy, naming, jobs, slots, calm>>
      BY <1>2, <2>5 DEF AdmitTarget
    <3>2. Going BY <3>1 DEF Going, Still, world, policy
    <3>3. /\ project'.sources = project.sources /\ project'.selected = project.selected
          /\ project'.directories = project.directories
      BY <3>1 DEF ClaimInv, PhaseInv, EmptyProject
    <3>4. op \in {"directory", "file"} OBVIOUS
    <3> HIDE DEF absolute, op
    <3>5. JobShape(job') /\ job'.op = op /\ job'.selected = job.selected
      BY <2>2, <2>3, <3>1 DEF JobShape, NoJob
    <3>6. JobShape(job)' BY <3>5 DEF JobShape
    <3> QED BY <2>1, <3>1, <3>2, <3>3, <3>4, <3>5, <3>6, TargetQuiet DEF Doing
  <2> QED BY <2>4, <2>5
<1> QED BY <1>1, <1>2

-----------------------------------------------------------------------------
LEMMA OpenFileQuiet == ASSUME ClaimInv, Quiet, OpenFile PROVE Quiet'
<1> DEFINE p == job.path
<1>1. CASE Fail BY <1>1, FailQuiet
<1>2. CASE ~Fail
  <2>1. Doing("file") /\ Asked({p}) /\ AnswersGrow BY <1>2, AskedGrows DEF OpenFile
  <2>2. Plainly(job) BY <2>1 DEF Doing, Plainly
  <2>3. CASE Skip /\ UNCHANGED project BY <2>1, <2>2, <2>3, PlainlyScans, SkipQuiet
  <2>4. CASE ~(Skip /\ UNCHANGED project)
    <3>1. /\ job' = [job EXCEPT !.op = "read"]
          /\ slots' = IF p \in DOMAIN project.sources THEN NoSlots
                      ELSE [q \in {p} |-> NewSlot(IsExcluded(p))]
          /\ UNCHANGED <<world, pc, req, prefixes, listing, naming, jobs, project, calm>>
      BY <1>2, <2>4 DEF OpenFile
    <3>2. Going BY <2>1, <3>1 DEF Going, Still, world
    <3>3. JobShape(job) /\ IsPath(p) BY DEF Quiet, JobQuiet, JobShape
    <3>4. /\ JobShape(job') /\ job'.op = "read" /\ job'.selected = job.selected
          /\ job'.path = p
      BY <3>1, <3>3 DEF JobShape, NoJob
    <3>5. JobQuiet'
      <4>1. JobShape(job)' BY <3>4 DEF JobShape
      <4>2. DOMAIN slots' = {p} \/ (slots' = NoSlots /\ p \in DOMAIN project'.sources)
        BY <3>1
      <4>3. job.selected => pc' = "targets" BY <3>1 DEF Quiet, JobQuiet
      <4> QED BY <3>4, <4>1, <4>2, <4>3 DEF JobQuiet, Reading
    <3>6. SlotsQuiet'
      <4>1. CASE p \in DOMAIN project.sources BY <3>1, <4>1, NoSlotsQuiet
      <4>2. CASE p \notin DOMAIN project.sources
        <5>1. PICK x : x = NewSlot(IsExcluded(p)) OBVIOUS
        <5>2. x.stage = "resolve" BY <5>1 DEF NewSlot
        <5>3. DOMAIN slots' = {p} /\ slots'[p] = x BY <3>1, <4>2, <5>1
        <5>4. project'.sources = project.sources BY <3>1
        <5>5. PICK q : q = p OBVIOUS
        <5>6. SlotQuiet(q)'
          BY <3>3, <4>2, <5>2, <5>3, <5>4, <5>5 DEF SlotQuiet, Held
        <5>7. IsFiniteSet({q}) BY FS_Singleton
        <5> QED BY <5>3, <5>5, <5>6, <5>7 DEF SlotsQuiet
      <4> QED BY <4>1, <4>2
    <3>7. DirectoriesQuiet' BY <2>2, <3>1, <3>2, PlainlyScans, GoingDirectories DEF Quiet
    <3>8. UNCHANGED <<pc, naming, jobs, project>> BY <3>1
    <3> QED BY <2>2, <3>2, <3>5, <3>6, <3>7, <3>8, PlainlyScans, QuietStep
  <2> QED BY <2>3, <2>4
<1> QED BY <1>1, <1>2

\* Only the targets of a load are taken for what they are.
LEMMA ContextJob ==
  ASSUME Quiet, job.op \in {"context", "scope", "variables"}
  PROVE  ~job.selected /\ slots = NoSlots /\ JobShape(job)
BY DEF Quiet, JobQuiet, Reading

LEMMA OpenContextFileQuiet == ASSUME ClaimInv, Quiet, OpenContextFile PROVE Quiet'
<1> DEFINE p == job.path
<1>1. CASE Fail BY <1>1, FailQuiet
<1>2. CASE ~Fail
  <2>1. Doing("context") /\ AnswersGrow BY <1>2, AskedGrows DEF OpenContextFile
  <2>2. Plainly(job) BY <2>1 DEF Doing, Plainly
  <2>3. CASE Skip /\ UNCHANGED project BY <2>1, <2>2, <2>3, PlainlyScans, SkipQuiet
  <2>4. CASE ~(Skip /\ UNCHANGED project)
    <3>1. /\ job' = [job EXCEPT !.op = "file"]
          /\ UNCHANGED <<world, pc, req, prefixes, listing, naming, jobs, slots,
                         project, calm>>
      BY <1>2, <2>4 DEF OpenContextFile
    <3>2. Going BY <2>1, <3>1 DEF Going, Still, world
    <3>3. ~job.selected /\ slots = NoSlots /\ JobShape(job)
      BY <2>1, ContextJob DEF Doing
    <3>4. JobShape(job') /\ job'.op = "file" /\ job'.selected = job.selected
      BY <3>1, <3>3 DEF JobShape, NoJob
    <3>5. JobQuiet'
      <4>1. JobShape(job)' BY <3>4 DEF JobShape
      <4>2. slots' = NoSlots BY <3>1, <3>3
      <4> QED BY <3>3, <3>4, <4>1, <4>2 DEF JobQuiet, Reading
    <3>6. SlotsQuiet' BY <3>1, <3>3, NoSlotsQuiet
    <3>7. DirectoriesQuiet' BY <2>2, <3>1, <3>2, PlainlyScans, GoingDirectories DEF Quiet
    <3>8. UNCHANGED <<pc, naming, jobs, project>> BY <3>1
    <3> QED BY <2>2, <3>2, <3>5, <3>6, <3>7, <3>8, PlainlyScans, QuietStep
  <2> QED BY <2>3, <2>4
<1> QED BY <1>1, <1>2

\* The name for what is missing is no name in use.
LEMMA MissingIsNothing == ASSUME NEW v \in Worlds PROVE ~IsThere(v, Missing)
<1>1. \A q \in Paths \cup DOMAIN v.link : ~IsPrefix(Missing, q)
  BY PathsAssumption, LinkFacts
<1>2. \A q : Under(Missing, q) => IsPrefix(Missing, q) BY DEF Under, IsStrictPrefix
<1>3. IsPath(Missing) BY PlainNames
<1>4. IsPrefix(Missing, Missing)
  BY <1>3, PrefixPoint, PathIs
<1>5. Missing # <<>> BY DEF Missing
<1> QED BY <1>1, <1>2, <1>4, <1>5 DEF IsThere, IsFile, IsDirectory

\* What a scan of d offers lies below d.
LEMMA CandidatesBelow ==
  ASSUME WorldQuiet, NEW d, NEW selected,
         NEW p \in Candidates(w, listing, prefixes, d, selected)
  PROVE  p \in Paths /\ IsPath(p) /\ (p = d \/ Under(d, p))
         /\ (DirectorySource(p, selected) \/ (selected /\ w.narrow))
<1>1. p \in Paths /\ (IsPrefix(d, p) \/ Under(d, p))
      /\ (DirectorySource(p, selected) \/ (selected /\ w.narrow))
  BY DEF Candidates, WorldQuiet
<1>2. IsPath(p) BY <1>1, PathsAssumption
<1> QED BY <1>1, <1>2 DEF Under, IsStrictPrefix

\* The owner of a name that leads to a file is that file.
LEMMA OwnedFile ==
  ASSUME NEW v \in Worlds, NEW p, Owned(v, p) \notin Refusals
  PROVE  Owned(v, p) = Resolve(v, p) /\ IsThere(v, Resolve(v, p)) /\ Inside(Resolve(v, p))
BY DEF Owned, OwnerAt, Refusals

\* A directory that is not there offers nothing.
LEMMA MissingScanned ==
  ASSUME ClaimInv, WorldQuiet, NEW d, IsPath(d), Owned(w, d) = Missing
  PROVE  Scanned(d)
<1>1. w \in Worlds BY DEF WorldQuiet
<1>2. ~IsThere(w, Resolve(w, d))
  <2>1. ~IsThere(w, Missing) BY <1>1, MissingIsNothing
  <2>2. Missing # Escaped BY DEF Missing, Escaped
  <2> QED BY <2>1, <2>2 DEF Owned, OwnerAt
<1>3. ASSUME NEW p \in Paths, Eligible(d, p) PROVE FALSE
  <2>1. IsPath(p) /\ (p = d \/ Under(d, p)) BY <1>3, CandidatesBelow DEF Eligible
  <2>2. IsFile(w, Resolve(w, p)) BY <1>1, <1>3, OwnedFile DEF Eligible
  <2>3. CASE p = d BY <1>2, <2>2, <2>3 DEF IsThere
  <2>4. CASE Under(d, p) BY <1>1, <1>2, <2>1, <2>2, <2>4, NothingBelow
  <2> QED BY <2>1, <2>3, <2>4
<1> QED BY <1>3 DEF Scanned

\* What a step observed of d.
Observed(d, state) ==
  /\ project'.sources = project.sources /\ project'.selected = project.selected
  /\ DOMAIN project'.directories = DOMAIN project.directories \cup {d}

LEMMA ObserveIs ==
  ASSUME ClaimInv, NEW d, NEW state, Observe(d, state) PROVE Observed(d, state)
<1>1. PICK f : f = [e \in DOMAIN project.directories \cup {d} |->
                      IF e = d THEN state ELSE project.directories[e]]
  OBVIOUS
<1>2. project' = [project EXCEPT !.directories = f] BY <1>1 DEF Observe
<1>3. DOMAIN project = DOMAIN EmptyProject BY DEF ClaimInv, PhaseInv
<1>4. /\ project'.sources = project.sources /\ project'.selected = project.selected
      /\ project'.directories = f
  BY <1>2, <1>3 DEF EmptyProject
<1> QED BY <1>1, <1>4 DEF Observed

LEMMA OpenContextDirectoryQuiet ==
  ASSUME ClaimInv, Quiet, OpenContextDirectory PROVE Quiet'
<1>0. PICK d : d = job.path OBVIOUS
<1> DEFINE variables == d \in VariableDirectories
           again == d \in DOMAIN project.directories /\ (~variables \/ ~ReferenceScope(d))
           op == IF variables /\ ~ReferenceScope(d) THEN "variables" ELSE "directory"
<1>1. CASE Fail BY <1>1, FailQuiet
<1>2. CASE ~Fail
  <2>1. Doing("scope") /\ AnswersGrow BY <1>2, AskedGrows DEF OpenContextDirectory
  <2>2. ~job.selected /\ slots = NoSlots /\ JobShape(job) /\ IsPath(d) /\ job.op = "scope"
    BY <1>0, <2>1, ContextJob DEF Doing, JobShape
  <2>3. \A e : ~Scanning(e) BY <2>2 DEF Scanning
  <2>4. CASE IsExcluded(d) \/ again
    <3>1. Skip /\ UNCHANGED project BY <1>0, <1>2, <2>4 DEF OpenContextDirectory
    <3>2. Looked(d) BY <2>4, BarredIs DEF Quiet, Looked
    <3> QED BY <1>0, <2>1, <2>3, <3>1, <3>2, SkipQuiet
  <2>5. CASE ~(IsExcluded(d) \/ again) /\ Owned(w, d) = Missing
    <3>1. Skip /\ Observe(d, "missing") BY <1>0, <1>2, <2>5 DEF OpenContextDirectory
    <3>2. Observed(d, "missing") BY <3>1, ObserveIs
    <3>3. Going BY <2>1, <3>1 DEF Skip, Going, Still, world
    <3>4. JobQuiet' /\ SlotsQuiet' BY <3>1, NoSlotsQuiet, NoJobQuiet DEF Skip
    <3>5. DirectoriesQuiet'
      <4>1. Scanned(d) BY <2>2, <2>5, MissingScanned DEF Quiet
      <4>2. \A e \in DOMAIN project'.directories : Scanned(e)
        BY <2>3, <3>2, <4>1 DEF Quiet, DirectoriesQuiet, Observed
      <4>3. DOMAIN project.sources \subseteq DOMAIN project'.sources
        BY <3>2 DEF Observed
      <4> QED BY <3>3, <4>2, <4>3, GoingScanned DEF DirectoriesQuiet
    <3>6. Looked(d)' BY <3>2 DEF Looked, Observed
    <3>7. UNCHANGED <<pc, naming, jobs>> BY <3>1 DEF Skip
    <3> QED BY <1>0, <3>2, <3>3, <3>4, <3>5, <3>6, <3>7, QuietStep DEF Observed
  <2>6. CASE ~(IsExcluded(d) \/ again) /\ Owned(w, d) # Missing
    <3>1. PICK state : Observe(d, state) BY <1>0, <1>2, <2>6 DEF OpenContextDirectory
    <3>2. /\ job' = [job EXCEPT !.op = op]
          /\ UNCHANGED <<world, pc, req, prefixes, listing, naming, jobs, slots, calm>>
      BY <1>0, <1>2, <2>6 DEF OpenContextDirectory
    <3>3. Observed(d, state) BY <3>1, ObserveIs
    <3>4. Going BY <2>1, <3>2 DEF Going, Still, world
    <3>5. op \in {"variables", "directory"} /\ (op = "variables" => variables) OBVIOUS
    <3> HIDE DEF op
    <3>6. /\ JobShape(job') /\ job'.op = op /\ job'.selected = job.selected
          /\ job'.path = d
      BY <1>0, <2>2, <3>2 DEF JobShape, NoJob
    <3>7. JobQuiet'
      <4>1. JobShape(job)' BY <3>6 DEF JobShape
      <4>2. slots' = NoSlots BY <2>2, <3>2
      <4> QED BY <2>2, <3>5, <3>6, <4>1, <4>2 DEF JobQuiet, Reading
    <3>8. SlotsQuiet' BY <2>2, <3>2, NoSlotsQuiet
    <3>9. DirectoriesQuiet'
      <4>1. Scanning(d)' BY <2>2, <3>5, <3>6 DEF Scanning
      <4>2. \A e \in DOMAIN project'.directories : e = d \/ Scanned(e)
        BY <2>3, <3>3 DEF Quiet, DirectoriesQuiet, Observed
      <4>3. DOMAIN project.sources \subseteq DOMAIN project'.sources
        BY <3>3 DEF Observed
      <4>4. \A e : Scanned(e) => Scanned(e)' BY <3>4, <4>3, GoingScanned
      <4> QED BY <4>1, <4>2, <4>4 DEF DirectoriesQuiet
    <3>10. Looked(d)' BY <3>3 DEF Looked, Observed
    <3>11. UNCHANGED <<pc, naming, jobs>> BY <3>2
    <3> QED BY <1>0, <3>3, <3>4, <3>7, <3>8, <3>9, <3>10, <3>11, QuietStep DEF Observed
  <2> QED BY <2>4, <2>5, <2>6
<1> QED BY <1>1, <1>2

-----------------------------------------------------------------------------
LEMMA ScanDirectoryQuiet == ASSUME ClaimInv, Quiet, ScanDirectory PROVE Quiet'
<1>0. PICK d : d = job.path OBVIOUS
<1> DEFINE offered == {p \in Candidates(w, listing, prefixes, d, job.selected) :
                         job.op = "variables" => VariableDeclarationPath(p)}
           kept == {p \in offered : ~IsExcluded(p)}
           plain == {p \in kept : /\ job.selected /\ ~HasSpelling(p)
                                  /\ w.narrow \/ IsTemplate(p)}
<1>1. /\ Working /\ job.op \in {"directory", "variables"} /\ Asked(offered)
      /\ spelled' = spelled \cup {<<p, p>> : p \in plain}
      /\ slots' = [p \in kept |-> NewSlot(FALSE)]
      /\ job' = [job EXCEPT !.op = "batch"]
      /\ UNCHANGED <<world, pc, req, prefixes, listing, buffer, jobs, calm>>
  BY <1>0 DEF ScanDirectory
<1>2. /\ project'.sources = project.sources /\ project'.selected = project.selected
      /\ project'.directories = project.directories
  BY DEF ScanDirectory, ClaimInv, PhaseInv, EmptyProject
<1>3. Going BY <1>1, AskedGrows DEF Going, Still, world
<1>4. kept \subseteq Paths /\ \A p \in kept : IsPath(p)
  BY CandidatesBelow DEF Quiet
<1>5. IsFiniteSet(kept) /\ plain \subseteq kept
  BY <1>4, PathsAssumption, FS_Subset
<1>6. \A p \in Paths : \A e : Scanning(e) /\ Eligible(e, p) => p \in kept
  <2> SUFFICES ASSUME NEW p \in Paths, NEW e, Scanning(e), Eligible(e, p) PROVE p \in kept
    OBVIOUS
  <2>1. e = d /\ ~job.selected BY <1>0, <1>1 DEF Scanning
  <2>2. job.selected = FALSE BY <2>1 DEF Quiet, JobQuiet, JobShape
  <2>3. p \in Candidates(w, listing, prefixes, d, job.selected)
    BY <2>1, <2>2 DEF Eligible
  <2>4. job.op = "variables" => VariableDeclarationPath(p)
    BY <1>1, <2>1 DEF Scanning, Eligible
  <2>5. ~IsExcluded(p) BY BarredIs DEF Quiet, Eligible
  <2> QED BY <2>3, <2>4, <2>5
<1>7. PICK n : n = NewSlot(FALSE) OBVIOUS
<1>8. n.stage = "resolve" BY <1>7 DEF NewSlot
<1>9. PICK K, P : K = kept /\ P = plain OBVIOUS
<1>10. /\ DOMAIN slots' = K /\ \A p \in K : slots'[p] = n
       /\ spelled' = spelled \cup {<<p, p>> : p \in P}
  BY <1>1, <1>7, <1>9
<1>11. /\ IsFiniteSet(K) /\ P \subseteq K /\ \A p \in K : IsPath(p)
       /\ \A p \in Paths : \A e : Scanning(e) /\ Eligible(e, p) => p \in K
  BY <1>4, <1>5, <1>6, <1>9
<1> HIDE DEF offered, kept, plain
<1>12. NamesQuiet'
  <2>1. PICK f : f = [p \in P |-> <<p, p>>] OBVIOUS
  <2>2. {<<p, p>> : p \in P} = {f[p] : p \in P} BY <2>1
  <2>3. IsFiniteSet(P) BY <1>11, FS_Subset
  <2>4. IsFiniteSet({<<p, p>> : p \in P}) BY <2>2, <2>3, ImageFinite
  <2>5. IsFiniteSet(spelled')
    BY <1>10, <2>4, FS_Union DEF Quiet, NamesQuiet
  <2>6. \A x \in spelled' : IsPath(x[2]) BY <1>10, <1>11 DEF Quiet, NamesQuiet
  <2>7. buffer' = buffer BY <1>1
  <2> QED BY <2>5, <2>6, <2>7 DEF Quiet, NamesQuiet
<1>13. /\ JobShape(job') /\ job'.op = "batch" /\ job'.selected = job.selected
       /\ job'.path = d
  BY <1>0, <1>1 DEF Quiet, JobQuiet, JobShape, NoJob
<1>14. JobQuiet'
  <2>1. JobShape(job)' BY <1>13 DEF JobShape
  <2>2. job.selected => pc' = "targets" BY <1>1 DEF Quiet, JobQuiet
  <2> QED BY <1>13, <2>1, <2>2 DEF JobQuiet, Reading
<1>15. SlotsQuiet'
  <2>1. ASSUME NEW p \in K PROVE SlotQuiet(p)'
    <3>1. slots'[p].stage = "resolve" /\ IsPath(p) BY <1>8, <1>10, <1>11, <2>1
    <3> QED BY <1>13, <3>1 DEF SlotQuiet, Held
  <2> QED BY <1>10, <1>11, <2>1 DEF SlotsQuiet
<1>16. DirectoriesQuiet'
  <2>1. ASSUME NEW e, Scanning(e) PROVE Scanning(e)'
    <3>1. \A p : Eligible(e, p)' = Eligible(e, p) BY <1>2, <1>3, GoingScanned
    <3>2. \A p \in Paths : Eligible(e, p)' => p \in DOMAIN slots'
      BY <1>10, <1>11, <2>1, <3>1
    <3> QED BY <1>0, <1>13, <2>1, <3>2 DEF Scanning
  <2>2. DOMAIN project.sources \subseteq DOMAIN project'.sources BY <1>2
  <2> QED BY <1>2, <1>3, <2>1, <2>2, GoingDirectories DEF Quiet
<1>17. job.op # "scope" BY <1>1
<1>18. UNCHANGED <<pc, jobs>> BY <1>1
<1>19. DOMAIN project.directories \subseteq DOMAIN project'.directories BY <1>2
<1> QED BY <1>2, <1>3, <1>12, <1>14, <1>15, <1>16, <1>17, <1>18, <1>19, QuietMove

-----------------------------------------------------------------------------
\* A reader that writes slot into the slot of p.
LEMMA SetSlotQuiet ==
  ASSUME ClaimInv, Quiet, NEW p \in DOMAIN slots, NEW slot, SetSlot(p, slot),
         slot.stage \in Held \cup {"resolve", "kept", "absent", "failed"},
         slot.stage \in {"kept", "absent"} => job.op = "batch",
         slot.stage = "kept" => p \in DOMAIN project.sources,
         slot.stage = "absent" => Owned(w, p) = Missing,
         slot.stage \in Held =>
           /\ IsPath(slot.owner)
           /\ ~job.selected => p \notin DOMAIN project.sources,
         slot.stage = "data" => slot.inode # 0,
         slot.stage \in {"check", "name", "ready"} => slot.data \in DOMAIN Declares
  PROVE  Quiet'
<1>1. /\ slots' = [slots EXCEPT ![p] = slot]
      /\ UNCHANGED <<world, pc, req, policy, naming, jobs, job, project, calm>>
  BY DEF SetSlot
<1>2. Going BY <1>1 DEF Going, Still, world, policy
<1>3. DOMAIN slots' = DOMAIN slots /\ slots'[p] = slot
      /\ \A q \in DOMAIN slots \ {p} : slots'[q] = slots[q]
  BY <1>1
<1>4. w' = w BY <1>1 DEF world
<1>5. SlotsQuiet'
  <2>1. ASSUME NEW q \in DOMAIN slots PROVE SlotQuiet(q)'
    <3>1. SlotQuiet(q) BY DEF Quiet, SlotsQuiet
    <3>2. CASE q = p
      BY <1>1, <1>3, <1>4, <3>1, <3>2 DEF SlotQuiet
    <3>3. CASE q # p BY <1>1, <1>3, <1>4, <3>1, <3>3 DEF SlotQuiet
    <3> QED BY <3>2, <3>3
  <2> QED BY <1>3, <2>1 DEF Quiet, SlotsQuiet
<1>6. JobQuiet'
  <2>1. Reading \/ slots' = slots
    BY <1>1 DEF Quiet, JobQuiet, NoSlots
  <2> QED BY <1>1, <1>3, <2>1 DEF Quiet, JobQuiet, JobShape, Reading, NoSlots
<1>7. DirectoriesQuiet'
  <2>1. ASSUME NEW e, Scanning(e) PROVE Scanning(e)'
    <3>1. \A q : Eligible(e, q)' = Eligible(e, q) BY <1>1, <1>2, GoingScanned
    <3> QED BY <1>1, <1>3, <2>1, <3>1 DEF Scanning
  <2> QED BY <1>1, <1>2, <2>1, GoingDirectories DEF Quiet
<1>8. UNCHANGED <<pc, naming, jobs, job, project>> BY <1>1
<1>9. \A d : job.op = "scope" /\ job.path = d => Looked(d)' \/ (job'.op = "scope" /\ job'.path = d)
  BY <1>8
<1> QED BY <1>2, <1>5, <1>6, <1>7, <1>8, <1>9, QuietStep

LEMMA ReadResolveQuiet ==
  ASSUME ClaimInv, Quiet, NEW p \in DOMAIN slots, ReadResolve(p) PROVE Quiet'
<1>1. SlotQuiet(p) /\ IsPath(p) BY DEF Quiet, SlotsQuiet, SlotQuiet
<1>2. DOMAIN slots[p] = SlotFields BY DEF ClaimInv, SlotsInv, SlotOK
<1>3. IsPath(Owned(w, p)) BY <1>1, OwnedType DEF Quiet, WorldQuiet
<1>4. ~Kept(p) /\ ~job.selected => p \notin DOMAIN project.sources
  BY <1>1 DEF Kept, SlotQuiet, ReadResolve, Reading
<1>5. CASE /\ job.op = "batch" /\ w.git /\ Owned(w, p) = Missing
           /\ SetSlot(p, [slots[p] EXCEPT !.stage = "absent"])
  <2>1. PICK slot : slot = [slots[p] EXCEPT !.stage = "absent"] OBVIOUS
  <2>2. slot.stage = "absent" BY <1>2, <2>1 DEF SlotFields
  <2>3. SetSlot(p, slot) BY <1>5, <2>1
  <2> QED BY <1>5, <2>2, <2>3, SetSlotQuiet DEF Held
<1>6. CASE Kept(p) /\ SetSlot(p, [slots[p] EXCEPT !.stage = "kept"])
  <2>1. PICK slot : slot = [slots[p] EXCEPT !.stage = "kept"] OBVIOUS
  <2>2. slot.stage = "kept" BY <1>2, <2>1 DEF SlotFields
  <2>3. SetSlot(p, slot) BY <1>6, <2>1
  <2>4. job.op = "batch" /\ p \in DOMAIN project.sources BY <1>6 DEF Kept
  <2> QED BY <2>2, <2>3, <2>4, SetSlotQuiet DEF Held
<1>7. CASE ~Kept(p) /\ ReadBuffer(p)
  <2>1. PICK ready : ready = [slots[p] EXCEPT !.stage = "name", !.owner = buffer.owner,
                                              !.data = req.content]
    OBVIOUS
  <2>2. PICK failed : failed = [slots[p] EXCEPT !.stage = "failed"] OBVIOUS
  <2>3. ready.stage = "name" /\ ready.owner = buffer.owner /\ ready.data = req.content
    BY <1>2, <2>1 DEF SlotFields
  <2>4. failed.stage = "failed" BY <1>2, <2>2 DEF SlotFields
  <2>5. IsPath(buffer.owner) /\ req.content \in DOMAIN Declares
    BY RequestPaths DEF Quiet, NamesQuiet
  <2>6. CASE SetSlot(p, ready)
    BY <1>4, <1>7, <2>3, <2>5, <2>6, SetSlotQuiet DEF Held
  <2>7. CASE SetSlot(p, failed) BY <2>4, <2>7, SetSlotQuiet DEF Held
  <2> QED BY <1>7, <2>1, <2>2, <2>6, <2>7 DEF ReadBuffer
<1>8. CASE ~Kept(p) /\ SetSlot(p, [slots[p] EXCEPT !.stage = "open", !.owner = Owned(w, p)])
  <2>1. PICK slot : slot = [slots[p] EXCEPT !.stage = "open", !.owner = Owned(w, p)]
    OBVIOUS
  <2>2. slot.stage = "open" /\ slot.owner = Owned(w, p) BY <1>2, <2>1 DEF SlotFields
  <2>3. SetSlot(p, slot) BY <1>8, <2>1
  <2> QED BY <1>3, <1>4, <1>8, <2>2, <2>3, SetSlotQuiet DEF Held
<1>9. CASE SetSlot(p, [slots[p] EXCEPT !.stage = "failed"])
  <2>1. PICK slot : slot = [slots[p] EXCEPT !.stage = "failed"] OBVIOUS
  <2>2. slot.stage = "failed" BY <1>2, <2>1 DEF SlotFields
  <2>3. SetSlot(p, slot) BY <1>9, <2>1
  <2> QED BY <2>2, <2>3, SetSlotQuiet DEF Held
<1> QED BY <1>5, <1>6, <1>7, <1>8, <1>9 DEF ReadResolve

LEMMA ReadOpenQuiet ==
  ASSUME ClaimInv, Quiet, NEW p \in DOMAIN slots, ReadOpen(p) PROVE Quiet'
<1>1. SlotQuiet(p) /\ slots[p].stage = "open" BY DEF Quiet, SlotsQuiet, ReadOpen
<1>2. DOMAIN slots[p] = SlotFields BY DEF ClaimInv, SlotsInv, SlotOK
<1>3. PICK owner : owner = slots[p].owner OBVIOUS
<1>4. CASE /\ IsFile(w, owner)
           /\ SetSlot(p, [slots[p] EXCEPT !.stage = "data", !.inode = w.file[owner],
                                      !.version = w.bytes[w.file[owner]].version])
  <2>1. PICK slot : slot = [slots[p] EXCEPT !.stage = "data", !.inode = w.file[owner],
                                      !.version = w.bytes[w.file[owner]].version]
    OBVIOUS
  <2>2. slot.stage = "data" /\ slot.owner = owner /\ slot.inode = w.file[owner]
    BY <1>2, <1>3, <2>1 DEF SlotFields
  <2>3. SetSlot(p, slot) /\ slot.inode # 0 BY <1>4, <2>1, <2>2 DEF IsFile
  <2> QED BY <1>1, <1>3, <2>2, <2>3, SetSlotQuiet DEF Held, SlotQuiet
<1>5. CASE SetSlot(p, [slots[p] EXCEPT !.stage = "failed"])
  <2>1. PICK slot : slot = [slots[p] EXCEPT !.stage = "failed"] OBVIOUS
  <2>2. slot.stage = "failed" BY <1>2, <2>1 DEF SlotFields
  <2>3. SetSlot(p, slot) BY <1>5, <2>1
  <2> QED BY <2>2, <2>3, SetSlotQuiet DEF Held
<1> QED BY <1>3, <1>4, <1>5 DEF ReadOpen

LEMMA ReadBytesQuiet ==
  ASSUME ClaimInv, Quiet, NEW p \in DOMAIN slots, ReadBytes(p) PROVE Quiet'
<1>1. SlotQuiet(p) /\ slots[p].stage = "data" BY DEF Quiet, SlotsQuiet, ReadBytes
<1>2. DOMAIN slots[p] = SlotFields /\ Belongs(slots[p].inode, slots[p].owner)
  BY DEF ClaimInv, SlotsInv, SlotOK
<1>3. PICK bytes : bytes = w.bytes[slots[p].inode] OBVIOUS
<1>4. bytes.data \in DOMAIN Declares
  <2>1. slots[p].inode \in DOMAIN w.bytes BY <1>1, <1>2 DEF SlotQuiet, Belongs
  <2>2. w.bytes[slots[p].inode] \in Bytes BY <2>1 DEF ClaimInv, WorldInv
  <2> QED BY <1>3, <2>2 DEF Bytes
<1>5. PICK stage : /\ stage \in {"check", "failed"}
                   /\ SetSlot(p, [slots[p] EXCEPT !.stage = stage, !.data = bytes.data])
  BY <1>3 DEF ReadBytes
<1>6. PICK slot : slot = [slots[p] EXCEPT !.stage = stage, !.data = bytes.data] OBVIOUS
<1>7. slot.stage = stage /\ slot.owner = slots[p].owner /\ slot.data = bytes.data
  BY <1>2, <1>6 DEF SlotFields
<1>8. SetSlot(p, slot) BY <1>5, <1>6
<1> QED BY <1>1, <1>4, <1>5, <1>7, <1>8, SetSlotQuiet DEF Held, SlotQuiet

LEMMA ReadCheckQuiet ==
  ASSUME ClaimInv, Quiet, NEW p \in DOMAIN slots, ReadCheck(p) PROVE Quiet'
<1>1. SlotQuiet(p) /\ slots[p].stage = "check" BY DEF Quiet, SlotsQuiet, ReadCheck
<1>2. DOMAIN slots[p] = SlotFields BY DEF ClaimInv, SlotsInv, SlotOK
<1>3. PICK stage : /\ stage \in {"name", "failed"}
                   /\ SetSlot(p, [slots[p] EXCEPT !.stage = stage])
  BY DEF ReadCheck
<1>4. PICK slot : slot = [slots[p] EXCEPT !.stage = stage] OBVIOUS
<1>5. slot.stage = stage /\ slot.owner = slots[p].owner /\ slot.data = slots[p].data
  BY <1>2, <1>4 DEF SlotFields
<1>6. SetSlot(p, slot) BY <1>3, <1>4
<1> QED BY <1>1, <1>3, <1>5, <1>6, SetSlotQuiet DEF Held, SlotQuiet

LEMMA ReadNameQuiet ==
  ASSUME ClaimInv, Quiet, NEW p \in DOMAIN slots, ReadName(p) PROVE Quiet'
<1>1. SlotQuiet(p) /\ slots[p].stage = "name" BY DEF Quiet, SlotsQuiet, ReadName
<1>2. DOMAIN slots[p] = SlotFields BY DEF ClaimInv, SlotsInv, SlotOK
<1>3. PICK failed : failed = [slots[p] EXCEPT !.stage = "failed"] OBVIOUS
<1>4. PICK v, t : v = FromBuffer(p) /\ t = ReadAsTemplate(p) OBVIOUS
<1>5. PICK ready : ready = [slots[p] EXCEPT !.stage = "ready", !.overlaid = v, !.template = t]
  OBVIOUS
<1>6. failed.stage = "failed" BY <1>2, <1>3 DEF SlotFields
<1>7. ready.stage = "ready" /\ ready.owner = slots[p].owner /\ ready.data = slots[p].data
  BY <1>2, <1>5 DEF SlotFields
<1>8. CASE SetSlot(p, failed) BY <1>6, <1>8, SetSlotQuiet DEF Held
<1>9. CASE SetSlot(p, ready) BY <1>1, <1>7, <1>9, SetSlotQuiet DEF Held, SlotQuiet
<1> QED BY <1>3, <1>4, <1>5, <1>8, <1>9 DEF ReadName

-----------------------------------------------------------------------------
LEMMA SpellingsSmall == ASSUME NamesQuiet, NEW p PROVE Small(Spellings(p))
<1>1. PICK T : T = {s \in spelled : s[1] = p} OBVIOUS
<1>2. IsFiniteSet(T) /\ T \subseteq spelled BY <1>1, FS_Subset DEF NamesQuiet
<1>3. PICK f : f = [s \in T |-> s[2]] OBVIOUS
<1>4. Spellings(p) = {f[s] : s \in T} BY <1>1, <1>3 DEF Spellings
<1>5. IsFiniteSet(Spellings(p)) BY <1>2, <1>4, ImageFinite
<1>6. \A x \in Spellings(p) : IsPath(x) BY <1>2, <1>3, <1>4 DEF NamesQuiet
<1> QED BY <1>5, <1>6 DEF Small

\* A source that was read has a context.
LEMMA SourceReadable ==
  ASSUME Quiet, NEW p \in DOMAIN slots, slots[p].stage = "ready"
  PROVE  Readable(SourceOf(p))
<1>1. /\ IsPath(p) /\ IsPath(slots[p].owner) /\ slots[p].data \in DOMAIN Declares
  BY DEF Quiet, SlotsQuiet, SlotQuiet, Held
<1>2. req.content \in DOMAIN Declares BY RequestPaths DEF Quiet
<1>3. Small(BufferSpellings(p)) /\ Small({})
  BY SpellingsSmall, SmallSets DEF BufferSpellings, Quiet
<1>4. PICK s : s = SourceOf(p) OBVIOUS
<1>5. /\ s.path = p
      /\ s.data = IF slots[p].overlaid THEN req.content ELSE slots[p].data
      /\ s.rolePath = RolePath(IF slots[p].template THEN slots[p].owner ELSE p)
      /\ s.spellings = IF slots[p].template THEN BufferSpellings(p) ELSE {}
  BY <1>4 DEF SourceOf
<1>6. IsPath(s.rolePath)
  <2>1. IsPath(RolePath(slots[p].owner)) /\ IsPath(RolePath(p)) BY <1>1, RolePathIs
  <2> QED BY <1>5, <2>1
<1>7. Small(s.spellings) BY <1>3, <1>5
<1> QED BY <1>1, <1>2, <1>4, <1>5, <1>6, <1>7 DEF Readable, Small

LEMMA PublishQuiet == ASSUME ClaimInv, Quiet, Publish PROVE Quiet'
<1> DEFINE ready == {p \in DOMAIN slots : slots[p].stage = "ready"}
           kept == {p \in DOMAIN slots : slots[p].stage = "kept"}
           sources == [p \in ready |-> SourceOf(p)]
           admitted == {p \in ready : job.op = "batch" =>
                          DirectoryAdmits(p, sources[p].kind, job.selected)}
           all == [p \in DOMAIN project.sources \cup admitted |->
                     IF p \in admitted THEN sources[p] ELSE project.sources[p]]
<1>1. CASE Fail BY <1>1, FailQuiet
<1>2. CASE ~Fail
  <2>1. /\ Reading /\ Skip /\ UNCHANGED answers
        /\ \A p \in DOMAIN slots : slots[p].stage \in Settled \cup {"kept"}
        /\ \A p \in DOMAIN slots : slots[p].stage # "failed"
    BY <1>2 DEF Publish
  <2>2. /\ project'.sources = all
        /\ project'.selected = project.selected \cup Chosen(admitted, kept)
        /\ project'.directories = project.directories
    <3>1. \E D : project' = [project EXCEPT !.sources = all,
                     !.selected = @ \cup Chosen(admitted, kept), !.discoverable = D]
      BY <1>2 DEF Publish
    <3> HIDE DEF all, admitted, kept
    <3> QED BY <3>1 DEF ClaimInv, PhaseInv, EmptyProject
  <2>3. PICK A, K : A = admitted /\ K = kept OBVIOUS
  <2>4. /\ A \subseteq DOMAIN slots /\ K \subseteq DOMAIN slots
        /\ \A p \in A : slots[p].stage = "ready"
        /\ \A p \in K : slots[p].stage = "kept"
    BY <2>3
  <2>5. /\ DOMAIN project'.sources = DOMAIN project.sources \cup A
        /\ \A p \in A : project'.sources[p] = SourceOf(p)
        /\ \A p \in DOMAIN project.sources \ A : project'.sources[p] = project.sources[p]
    BY <2>2, <2>3
  <2>6. \A p \in DOMAIN slots : slots[p].stage = "ready" /\ job.op = "read" => p \in A
    BY <2>3
  <2>7. ASSUME NEW p \in DOMAIN slots, NEW e, Eligible(e, p), job.op = "batch",
               ~job.selected
        PROVE  p \in DOMAIN project'.sources
    <3>1. DirectorySource(p, FALSE) BY <2>7, CandidatesBelow DEF Quiet, Eligible
    <3>2. job.selected = FALSE BY <2>7 DEF Quiet, JobQuiet, JobShape
    <3>3. slots[p].stage = "ready" => p \in A
      BY <2>3, <3>1, <3>2 DEF DirectoryAdmits
    <3>4. SlotQuiet(p) BY DEF Quiet, SlotsQuiet
    <3>5. slots[p].stage \in {"ready", "kept", "absent"} BY <2>1 DEF Settled
    <3>6. slots[p].stage # "absent" BY <2>7, <3>4 DEF SlotQuiet, Eligible, Refusals
    <3>7. slots[p].stage = "kept" => p \in DOMAIN project.sources BY <3>4 DEF SlotQuiet
    <3> QED BY <2>5, <3>3, <3>5, <3>6, <3>7
  <2> HIDE DEF ready, kept, sources, admitted, all
  <2>8. project'.selected = project.selected \cup Chosen(A, K) BY <2>2, <2>3
  <2>9. Going BY <2>1 DEF Skip, Going, Still, world
  <2>10. WorldQuiet' BY <2>9, GoingWorld DEF Quiet
  <2>11. NamesQuiet' BY <2>1 DEF Skip, Quiet, NamesQuiet, naming
  <2>12. QueueQuiet' BY <2>1 DEF Skip, Quiet, QueueQuiet, Queued
  <2>13. JobQuiet' /\ SlotsQuiet' BY <2>1, NoJobQuiet, NoSlotsQuiet DEF Skip
  <2>14. SourcesQuiet'
    <3>1. ASSUME NEW p \in DOMAIN project'.sources PROVE Readable(project'.sources[p])
      <4>1. CASE p \in A BY <2>4, <2>5, <4>1, SourceReadable
      <4>2. CASE p \notin A BY <2>5, <4>2 DEF Quiet, SourcesQuiet
      <4> QED BY <4>1, <4>2
    <3>2. \A p \in DOMAIN project'.sources : Readable(project.sources[p])'
      BY <3>1 DEF Readable
    <3>3. Chosen(A, K) \subseteq DOMAIN project'.sources /\ IsFiniteSet(Chosen(A, K))
      <4>1. CASE ~job.selected BY <4>1, FS_EmptySet DEF Chosen
      <4>2. CASE job.selected /\ job.op = "read"
        <5>1. Chosen(A, K) = {job.path} BY <4>2 DEF Chosen
        <5>2. CASE DOMAIN slots = {job.path}
          <6>1. SlotQuiet(job.path) BY <5>2 DEF Quiet, SlotsQuiet
          <6>2. slots[job.path].stage = "ready"
            BY <2>1, <4>2, <5>2, <6>1 DEF SlotQuiet, Settled
          <6> QED BY <2>5, <2>6, <4>2, <5>1, <5>2, <6>2, FS_Singleton
        <5>3. CASE DOMAIN slots # {job.path}
          <6>1. job.path \in DOMAIN project.sources BY <4>2, <5>3 DEF Quiet, JobQuiet
          <6> QED BY <2>5, <5>1, <6>1, FS_Singleton
        <5> QED BY <5>2, <5>3
      <4>3. CASE job.selected /\ job.op # "read"
        <5>1. Chosen(A, K) = A \cup K BY <4>3 DEF Chosen
        <5>2. \A p \in K : p \in DOMAIN project.sources
          BY <2>4 DEF Quiet, SlotsQuiet, SlotQuiet
        <5>3. A \cup K \subseteq DOMAIN slots BY <2>4
        <5>4. IsFiniteSet(A \cup K) BY <5>3, FS_Subset DEF Quiet, SlotsQuiet
        <5> QED BY <2>5, <5>1, <5>2, <5>4
      <4> QED BY <4>1, <4>2, <4>3
    <3>4. IsFiniteSet(project'.selected)
      BY <2>8, <3>3, FS_Union DEF Quiet, SourcesQuiet
    <3>5. project'.selected \subseteq DOMAIN project'.sources
      BY <2>5, <2>8, <3>3 DEF Quiet, SourcesQuiet
    <3> QED BY <3>2, <3>4, <3>5 DEF SourcesQuiet
  <2>15. DirectoriesQuiet'
    <3>1. DOMAIN project.sources \subseteq DOMAIN project'.sources BY <2>5
    <3>2. ASSUME NEW e, Scanning(e) PROVE Scanned(e)'
      <4>1. /\ job.op = "batch" /\ ~job.selected
            /\ \A p \in Paths : Eligible(e, p) => p \in DOMAIN slots
        BY <2>1, <3>2 DEF Scanning, Reading
      <4>2. \A p : Eligible(e, p)' = Eligible(e, p) BY <2>9, <3>1, GoingScanned
      <4> QED BY <2>7, <4>1, <4>2 DEF Scanned
    <3> QED BY <2>2, <2>9, <3>1, <3>2, GoingDirectories DEF Quiet
  <2>16. ScopesQuiet'
    <3>1. pc' = pc /\ jobs' = jobs BY <2>1 DEF Skip
    <3>2. CASE pc = "targets" BY <3>1, <3>2 DEF ScopesQuiet
    <3>3. CASE pc # "targets"
      <4>1. ~job.selected BY <3>3 DEF Quiet, JobQuiet
      <4>2. project'.selected = project.selected BY <2>8, <4>1 DEF Chosen
      <4>3. \A p \in A : p \notin DOMAIN project.sources
        BY <2>4, <4>1 DEF Quiet, SlotsQuiet, SlotQuiet, Held
      <4>4. SelectionStays
        BY <2>5, <4>2, <4>3 DEF SelectionStays, Quiet, SourcesQuiet
      <4>5. \A d : Asking(d) => Asking(d)' BY <3>1 DEF Asking
      <4>6. job.op # "scope" BY <2>1 DEF Reading
      <4>7. DOMAIN project.directories \subseteq DOMAIN project'.directories BY <2>2
      <4> QED BY <2>9, <3>1, <4>4, <4>5, <4>6, <4>7, GoingScopes DEF Quiet
    <3> QED BY <3>2, <3>3
  <2> QED BY <2>10, <2>11, <2>12, <2>13, <2>14, <2>15, <2>16 DEF Quiet
<1> QED BY <1>1, <1>2

-----------------------------------------------------------------------------
\* What is selected has a finite context.
LEMMA ScopesSmall ==
  ASSUME SourcesQuiet
  PROVE  /\ Small(UNION {ContextFiles(s) : s \in Selected}) /\ Small(ContextScopes)
         /\ Small(UNION {ReferenceDirectories(s) : s \in Selected})
<1>1. IsFiniteSet(Selected)
  <2>1. IsFiniteSet(project.selected) BY DEF SourcesQuiet
  <2>2. PICK f : f = project.sources OBVIOUS
  <2>3. IsFiniteSet({f[p] : p \in project.selected}) BY <2>1, ImageFinite
  <2> QED BY <2>2, <2>3 DEF Selected
<1>2. \A s \in Selected : Readable(s) BY DEF SourcesQuiet, Selected
<1>3. Small(UNION {ContextFiles(s) : s \in Selected})
  <2>1. PICK f : f = [s \in Selected |-> ContextFiles(s)] OBVIOUS
  <2>2. {ContextFiles(s) : s \in Selected} = {f[s] : s \in Selected} BY <2>1
  <2>3. IsFiniteSet({ContextFiles(s) : s \in Selected}) BY <1>1, <2>2, ImageFinite
  <2>4. \A s \in Selected : Small(ContextFiles(s)) BY <1>2, ContextSmall
  <2> QED BY <2>3, <2>4, SmallUnion
<1>4. Small(ContextScopes)
  <2>1. PICK f : f = [s \in Selected |-> ContextDirectories(s)] OBVIOUS
  <2>2. {ContextDirectories(s) : s \in Selected} = {f[s] : s \in Selected} BY <2>1
  <2>3. IsFiniteSet({ContextDirectories(s) : s \in Selected}) BY <1>1, <2>2, ImageFinite
  <2>4. \A s \in Selected : Small(ContextDirectories(s)) BY <1>2, ContextSmall
  <2> QED BY <2>3, <2>4, SmallUnion DEF ContextScopes
<1>5. Small(UNION {ReferenceDirectories(s) : s \in Selected})
  <2>1. PICK f : f = [s \in Selected |-> ReferenceDirectories(s)] OBVIOUS
  <2>2. {ReferenceDirectories(s) : s \in Selected} = {f[s] : s \in Selected} BY <2>1
  <2>3. IsFiniteSet({ReferenceDirectories(s) : s \in Selected}) BY <1>1, <2>2, ImageFinite
  <2>4. \A s \in Selected : Small(ReferenceDirectories(s)) BY <1>2, ContextSmall
  <2> QED BY <2>3, <2>4, SmallUnion
<1> QED BY <1>3, <1>4, <1>5

\* A queue of jobs for a small set.
LEMMA JobsQueue ==
  ASSUME NEW op \in {"context", "scope"}, NEW S, Small(S), jobs' = Jobs(op, S),
         pc' \notin {"spell", "targets"}
  PROVE  QueueQuiet' /\ \A p \in S : \E i \in 1..Len(jobs') : jobs'[i] = JobOf(op, p)
<1>1. /\ jobs' \in Seq({JobOf(op, p) : p \in S})
      /\ \A p \in S : \E i \in 1..Len(jobs') : jobs'[i] = JobOf(op, p)
  BY JobsAreAll DEF Small
<1>2. IsPath(jobs') BY <1>1, SeqIsPath
<1>3. ASSUME NEW i \in 1..Len(jobs') PROVE Queued(jobs[i])'
  <2>1. jobs'[i] \in {JobOf(op, p) : p \in S} BY <1>1
  <2>2. PICK p \in S : jobs'[i] = JobOf(op, p) BY <2>1
  <2>3. JobShape(jobs'[i]) /\ jobs'[i].op = op /\ ~jobs'[i].selected
    BY <2>2, EmptyPath DEF JobShape, JobOf, NoJob, Small
  <2> QED BY <2>3 DEF Queued, JobShape
<1> QED BY <1>1, <1>2, <1>3 DEF QueueQuiet

LEMMA PhaseQuiet ==
  ASSUME Quiet, Idle, NEW next, NEW more, Phase(next, more), QueueQuiet', ScopesQuiet'
  PROVE  Quiet'
<1>1. /\ UNCHANGED <<world, req, policy, naming, job, slots, project, calm>>
      /\ job = NoJob
  BY DEF Phase, Idle
<1>2. Going BY <1>1 DEF Going, Still, world, policy
<1>3. WorldQuiet' BY <1>2, GoingWorld DEF Quiet
<1>4. NamesQuiet' BY <1>1 DEF Quiet, NamesQuiet, naming
<1>5. slots = NoSlots BY <1>1 DEF Quiet, JobQuiet, Reading, NoJob
<1>6. JobQuiet' /\ SlotsQuiet' BY <1>1, <1>5, NoJobQuiet, NoSlotsQuiet
<1>7. SourcesQuiet' BY <1>1 DEF Quiet, SourcesQuiet
<1>8. Plainly(job) BY <1>1 DEF Plainly, NoJob
<1>9. DirectoriesQuiet' BY <1>1, <1>2, <1>8, PlainlyScans, GoingDirectories DEF Quiet
<1> QED BY <1>3, <1>4, <1>6, <1>7, <1>9 DEF Quiet

\* Between the phases.
LEMMA PhaseKeeps ==
  ASSUME NEW next, NEW more, Phase(next, more)
  PROVE  ContextScopes' = ContextScopes /\ (\A d : Looked(d)' = Looked(d))
         /\ pc' = next /\ jobs' = more
<1>1. Going /\ SelectionStays /\ project' = project /\ pc' = next /\ jobs' = more
  BY DEF Phase, Going, Still, SelectionStays, world, policy
<1> QED BY <1>1, GoingBarred, ScopesStay DEF Looked

LEMMA NothingQueued ==
  ASSUME pc' = "done", jobs' = <<>> PROVE QueueQuiet'
BY EmptyPath DEF QueueQuiet

LEMMA EndTargetsQuiet == ASSUME ClaimInv, Quiet, EndTargets PROVE Quiet'
<1>1. CASE Fail BY <1>1, FailQuiet
<1>2. CASE ~Fail
  <2>1. PICK S : S = UNION {ContextFiles(s) : s \in Selected} OBVIOUS
  <2>2. Idle /\ Phase("files", Jobs("context", S)) BY <1>2, <2>1 DEF EndTargets
  <2>3. Small(S) BY <2>1, ScopesSmall DEF Quiet
  <2>4. pc' = "files" /\ jobs' = Jobs("context", S) BY <2>2, PhaseKeeps
  <2>5. QueueQuiet' BY <2>3, <2>4, JobsQueue
  <2>6. ScopesQuiet' BY <2>4 DEF ScopesQuiet
  <2> QED BY <2>2, <2>5, <2>6, PhaseQuiet
<1> QED BY <1>1, <1>2

LEMMA EndFilesQuiet == ASSUME ClaimInv, Quiet, EndFiles PROVE Quiet'
<1>1. PICK S : S = ContextScopes OBVIOUS
<1>2. Idle /\ Phase("directories", Jobs("scope", S)) BY <1>1 DEF EndFiles
<1>3. Small(S) BY <1>1, ScopesSmall DEF Quiet
<1>4. /\ ContextScopes' = S /\ pc' = "directories" /\ jobs' = Jobs("scope", S)
  BY <1>1, <1>2, PhaseKeeps
<1>5. QueueQuiet' /\ \A d \in S : \E i \in 1..Len(jobs') : jobs'[i] = JobOf("scope", d)
  BY <1>3, <1>4, JobsQueue
<1>6. ScopesQuiet'
  <2>1. \A d : JobOf("scope", d).op = "scope" /\ JobOf("scope", d).path = d
    BY DEF JobOf, NoJob
  <2>2. \A d \in S : Asking(d)' BY <1>5, <2>1 DEF Asking
  <2> QED BY <1>4, <2>2 DEF ScopesQuiet
<1> QED BY <1>2, <1>5, <1>6, PhaseQuiet

LEMMA EndDirectoriesQuiet == ASSUME ClaimInv, Quiet, EndDirectories PROVE Quiet'
<1>1. pc = "directories" /\ Idle /\ jobs = <<>> BY DEF EndDirectories
<1>2. \A d \in ContextScopes : Looked(d)
  <2>1. \A d : ~Asking(d) BY <1>1, EmptyPath DEF Asking
  <2>2. job.op # "scope" BY <1>1 DEF Idle, NoJob
  <2> QED BY <1>1, <2>1, <2>2 DEF Quiet, ScopesQuiet
<1>3. CASE Phase("done", <<>>)
  <2>1. QueueQuiet' BY <1>3, PhaseKeeps, NothingQueued
  <2>2. ScopesQuiet' BY <1>2, <1>3, PhaseKeeps DEF ScopesQuiet
  <2> QED BY <1>1, <1>3, <2>1, <2>2, PhaseQuiet
<1>4. CASE Phase("references", Jobs("context", InventoryFiles \cup VariableFiles))
  <2>1. PICK S : S = InventoryFiles \cup VariableFiles OBVIOUS
  <2>2. Small(S) BY <2>1, AreasFinite, SmallSets
  <2>3. Phase("references", Jobs("context", S)) BY <1>4, <2>1
  <2>4. pc' = "references" /\ jobs' = Jobs("context", S) BY <2>3, PhaseKeeps
  <2>5. QueueQuiet' BY <2>2, <2>4, JobsQueue
  <2>6. ScopesQuiet' BY <1>2, <2>3, PhaseKeeps DEF ScopesQuiet
  <2> QED BY <1>1, <2>3, <2>5, <2>6, PhaseQuiet
<1> QED BY <1>3, <1>4 DEF EndDirectories

LEMMA EndReferencesQuiet == ASSUME ClaimInv, Quiet, EndReferences PROVE Quiet'
<1>1. PICK S : S = ContextScopes \cup UNION {ReferenceDirectories(s) : s \in Selected}
  OBVIOUS
<1>2. pc = "references" /\ Idle /\ Phase("scopes", Jobs("scope", S))
  BY <1>1 DEF EndReferences
<1>3. Small(S)
  <2>1. PICK a, b : a = ContextScopes /\ b = UNION {ReferenceDirectories(s) : s \in Selected}
    OBVIOUS
  <2>2. Small(a \cup b) BY <2>1, ScopesSmall, SmallSets DEF Quiet
  <2> QED BY <1>1, <2>1, <2>2
<1>4. pc' = "scopes" /\ jobs' = Jobs("scope", S) BY <1>2, PhaseKeeps
<1>5. QueueQuiet' BY <1>3, <1>4, JobsQueue
<1>6. ScopesQuiet' BY <1>2, PhaseKeeps DEF Quiet, ScopesQuiet
<1> QED BY <1>2, <1>5, <1>6, PhaseQuiet

LEMMA EndScopesQuiet == ASSUME ClaimInv, Quiet, EndScopes PROVE Quiet'
<1>1. pc = "scopes" /\ Idle /\ Phase("done", <<>>) BY DEF EndScopes
<1>2. QueueQuiet' BY <1>1, PhaseKeeps, NothingQueued
<1>3. ScopesQuiet' BY <1>1, PhaseKeeps DEF Quiet, ScopesQuiet
<1> QED BY <1>1, <1>2, <1>3, PhaseQuiet

-----------------------------------------------------------------------------
LEMMA InitQuiet == Init => Quiet
<1> SUFFICES ASSUME Init PROVE Quiet OBVIOUS
<1>1. WorldQuiet BY DEF Init, WorldQuiet
<1>2. NamesQuiet
  BY PlainNames, FS_EmptySet DEF Init, NamesQuiet, NoBuffer
<1>3. QueueQuiet BY EmptyPath DEF Init, QueueQuiet
<1>4. JobQuiet BY EmptyPath DEF Init, JobQuiet, JobShape, NoJob, Reading
<1>5. SlotsQuiet BY FS_EmptySet DEF Init, SlotsQuiet, NoSlots
<1>6. SourcesQuiet BY FS_EmptySet DEF Init, SourcesQuiet, EmptyProject
<1>7. DirectoriesQuiet /\ ScopesQuiet
  BY DEF Init, DirectoriesQuiet, ScopesQuiet, EmptyProject
<1> QED BY <1>1, <1>2, <1>3, <1>4, <1>5, <1>6, <1>7 DEF Quiet

LEMMA StutterQuiet == ASSUME Quiet, UNCHANGED vars PROVE Quiet'
<1>1. UNCHANGED <<w, fresh, pc, req, prefixes, listing, answers, buffer, spelled, jobs,
                  job, slots, project, calm>>
  BY DEF vars, world, policy, naming, work
<1>2. Going BY <1>1 DEF Going, Still
<1>3. JobQuiet' BY <1>1 DEF Quiet, JobQuiet, JobShape, Reading
<1>4. SlotsQuiet' BY <1>1 DEF Quiet, SlotsQuiet, SlotQuiet
<1>5. \A d : Scanning(d)' = Scanning(d)
  BY <1>1, <1>2, GoingScanned DEF Scanning
<1>6. DirectoriesQuiet' BY <1>1, <1>2, <1>5, GoingDirectories DEF Quiet
<1>7. UNCHANGED <<pc, naming, jobs>> BY <1>1 DEF naming
<1>8. \A d : job.op = "scope" /\ job.path = d
               => Looked(d)' \/ (job'.op = "scope" /\ job'.path = d)
  BY <1>1
<1> QED BY <1>1, <1>2, <1>3, <1>4, <1>6, <1>7, <1>8, QuietStep

LEMMA LoadQuiet == ClaimInv /\ Quiet /\ (Load \/ UNCHANGED vars) => Quiet'
<1> SUFFICES ASSUME ClaimInv, Quiet, Load \/ UNCHANGED vars PROVE Quiet' OBVIOUS
<1>1. CASE Configure BY <1>1, ConfigureQuiet
<1>2. CASE ListSources BY <1>2, ListSourcesQuiet
<1>3. CASE IdentifyBuffer BY <1>3, IdentifyBufferQuiet
<1>4. CASE RememberSpelling \/ EndSpellings
  BY <1>4, RememberSpellingQuiet, EndSpellingsQuiet
<1>5. CASE TakeJob BY <1>5, TakeJobQuiet
<1>6. CASE AdmitSpelling BY <1>6, AdmitSpellingQuiet
<1>7. CASE AdmitTarget BY <1>7, AdmitTargetQuiet
<1>8. CASE OpenFile BY <1>8, OpenFileQuiet
<1>9. CASE OpenContextFile BY <1>9, OpenContextFileQuiet
<1>10. CASE OpenContextDirectory BY <1>10, OpenContextDirectoryQuiet
<1>11. CASE ScanDirectory BY <1>11, ScanDirectoryQuiet
<1>12. CASE Read
  BY <1>12, ReadResolveQuiet, ReadOpenQuiet, ReadBytesQuiet, ReadCheckQuiet, ReadNameQuiet
  DEF Read
<1>13. CASE Publish BY <1>13, PublishQuiet
<1>14. CASE EndTargets BY <1>14, EndTargetsQuiet
<1>15. CASE EndFiles BY <1>15, EndFilesQuiet
<1>16. CASE EndDirectories BY <1>16, EndDirectoriesQuiet
<1>17. CASE EndReferences BY <1>17, EndReferencesQuiet
<1>18. CASE EndScopes BY <1>18, EndScopesQuiet
<1>19. CASE Cancel BY <1>19, FailQuiet DEF Cancel
<1>20. CASE UNCHANGED vars BY <1>20, StutterQuiet
<1> QED
  BY <1>1, <1>2, <1>3, <1>4, <1>5, <1>6, <1>7, <1>8, <1>9, <1>10, <1>11, <1>12, <1>13,
     <1>14, <1>15, <1>16, <1>17, <1>18, <1>19, <1>20 DEF Load

\* Who moves ends the calm.
LEMMA OthersDisturb == Others => ~calm'
BY DEF Others, OthersRewrite, OthersReplace, OthersRemove, OthersLink, OthersRedirect,
       OthersIgnore, Moved

LEMMA CalmStays == Load \/ UNCHANGED vars => calm' = calm
BY DEF vars, Load, Configure, ListSources, IdentifyBuffer, RememberSpelling,
       EndSpellings, TakeJob, AdmitSpelling, AdmitTarget, OpenFile, OpenContextFile, OpenContextDirectory,
       ScanDirectory, Read, ReadResolve, ReadOpen, ReadBytes, ReadCheck, ReadName, ReadBuffer,
       SetSlot, Publish, Skip, Fail, Phase, EndTargets, EndFiles, EndDirectories,
       EndReferences, EndScopes, Cancel

LEMMA QuietMeans == ClaimInv /\ (calm => Quiet) => ContextIsComplete
<1> SUFFICES ASSUME ClaimInv, Quiet, pc = "done",
                    NEW s \in Selected, NEW d \in ContextDirectories(s),
                    NEW p \in Candidates(w, listing, prefixes, d, FALSE),
                    ~IsExcluded(p), ~IsExcluded(d),
                    Owned(w, p) \notin Refusals, IsFile(w, Owned(w, p)),
                    d \in VariableDirectories => VariableDeclarationPath(p)
             PROVE  p \in DOMAIN project.sources
  BY DEF ContextIsComplete
<1>1. job = NoJob BY DEF ClaimInv, PhaseInv, Working
<1>2. ~Scanning(d) BY <1>1 DEF Scanning, NoJob
<1>3. d \in ContextScopes BY DEF ContextScopes
<1>4. d \in DOMAIN project.directories
  BY <1>3, BarredIs DEF Quiet, ScopesQuiet, Looked
<1>5. Scanned(d) BY <1>2, <1>4 DEF Quiet, DirectoriesQuiet
<1>6. p \in Paths BY CandidatesBelow DEF Quiet
<1>7. Eligible(d, p) BY BarredIs DEF Quiet, Eligible
<1> QED BY <1>5, <1>6, <1>7 DEF Scanned

LoadInv == ClaimInv /\ (calm => Quiet)

LEMMA StepQuiet == LoadInv /\ [Next]_vars => LoadInv'
<1> SUFFICES ASSUME LoadInv, [Next]_vars PROVE LoadInv' OBVIOUS
<1>1. ClaimInv' BY StepClaims DEF LoadInv
<1>2. CASE Others BY <1>1, <1>2, OthersDisturb DEF LoadInv
<1>3. CASE Load \/ UNCHANGED vars
  <2>1. calm' = calm BY <1>3, CalmStays
  <2>2. calm => Quiet' BY <1>3, LoadQuiet DEF LoadInv
  <2> QED BY <1>1, <2>1, <2>2 DEF LoadInv
<1> QED BY <1>2, <1>3 DEF Next

-----------------------------------------------------------------------------
(***************************************************************************)
(* What explain says of a target, in a load that nobody disturbs and that  *)
(* has no buffer: the kind of a source is told by the worktree alone, as   *)
(* long as it was asked for by no name but its own.                        *)
(***************************************************************************)

Plain(p) == \A s \in Spellings(p) : s = p
ScannedTemplate(p) == w.narrow \/ IsTemplate(p) \/ IsTemplate(Owned(w, p))
PlainKind(p) ==
  IF ScannedTemplate(p) THEN "template"
  ELSE IF Barred(p) THEN Classified(p) ELSE ParsedKind(p, Data(w, Owned(w, p)))

\* A spelling that is the name itself is that of a template.
NamesTold ==
  /\ buffer = NoBuffer
  /\ \A p \in listing : Inside(p)
  /\ \A x \in prefixes : IsPath(x)
  /\ \A x \in spelled : x[1] = x[2] /\ x[1] # <<>> => IsTemplateFile(w, x[1])

JobTold ==
  /\ job.op \in {"file", "read"} => job.path # Missing
  /\ job.op = "admit" =>
       /\ job.absolute = AbsoluteTarget(w, job.path) /\ job.absolute # Missing
       /\ job.directory <=> IsDirectory(w, job.absolute)

SlotTold(p) ==
  LET s == slots[p] IN
  /\ p # Missing /\ Inside(p) /\ (s.excluded <=> Barred(p))
  /\ s.stage \in Held => s.owner = Owned(w, p) /\ s.owner \notin Refusals
  /\ s.stage \in Held \ {"open"} => IsFile(w, s.owner) /\ s.inode = w.file[s.owner]
  /\ s.stage \in {"check", "name", "ready"} => s.data = Data(w, s.owner)
  /\ s.stage = "ready" => ~s.overlaid /\ (Plain(p) => (s.template <=> ScannedTemplate(p)))

SlotsTold == \A p \in DOMAIN slots : SlotTold(p)

SourceTold(p) ==
  LET s == project.sources[p] IN
  /\ Inside(p) /\ (s.excluded <=> Barred(p))
  /\ Owned(w, p) \notin Refusals /\ IsFile(w, Owned(w, p))
  /\ Plain(p) => s.kind = PlainKind(p)

SourcesTold == \A p \in DOMAIN project.sources : SourceTold(p)

\* What is said of a target that is no directory, and who is about to say it.
WouldBe(p) ==
  /\ ~Barred(p) /\ DirectoryAdmits(p, PlainKind(p), TRUE)
  /\ w.git => p \in listing
  /\ IsFile(w, Resolve(w, p))
Answered(t) ==
  LET p == AbsoluteTarget(w, t) IN
  IsDirectory(w, p) \/ (Plain(p) => (p \in project.discoverable <=> WouldBe(p)))
Answering(t) ==
  \/ \E i \in 1..Len(jobs) : jobs[i].path = t
  \/ job.op \in {"target", "admit"} /\ job.path = t
  \/ job.op \in {"file", "read"} /\ job.selected /\ job.path = AbsoluteTarget(w, t)

TargetsTold ==
  /\ pc = "spell" => \A i \in 1..Len(jobs) : jobs[i].path = req.paths[i]
  /\ pc = "targets" => \A t \in ToSet(req.paths) : Answered(t) \/ Answering(t)
  /\ pc \in {"files", "directories", "references", "scopes", "done"} =>
       \A t \in ToSet(req.paths) : Answered(t)

\* All of it, where no buffer has a name of its own.
Told == req.stdin = <<>> /\ NamesTold /\ JobTold /\ SlotsTold /\ SourcesTold /\ TargetsTold

-----------------------------------------------------------------------------
LEMMA PlainIs == ASSUME NEW p PROVE Plain(p) <=> \A x \in spelled : x[1] = p => x[2] = p
BY DEF Plain, Spellings

\* Only names that stand for themselves are added while a directory is scanned.
SpelledPlainly ==
  \E P : spelled' = spelled \cup {<<p, p>> : p \in P} /\
         \A p \in P : w.narrow \/ IsTemplate(p)

LEMMA PlainStays ==
  ASSUME spelled' = spelled \/ SpelledPlainly, NEW p PROVE Plain(p)' = Plain(p)
<1>1. CASE spelled' = spelled BY <1>1 DEF Plain, Spellings
<1>2. CASE SpelledPlainly
  <2>1. PICK P : spelled' = spelled \cup {<<q, q>> : q \in P} BY <1>2 DEF SpelledPlainly
  <2>2. (\A x \in spelled' : x[1] = p => x[2] = p) <=> (\A x \in spelled : x[1] = p => x[2] = p)
    BY <2>1
  <2>3. Plain(p)' <=> \A x \in spelled' : x[1] = p => x[2] = p BY DEF Plain, Spellings
  <2>4. Plain(p) <=> \A x \in spelled : x[1] = p => x[2] = p BY PlainIs
  <2>5. Plain(p)' <=> Plain(p) BY <2>2, <2>3, <2>4
  <2> QED BY <2>5 DEF Plain
<1> QED BY <1>1, <1>2

\* What the worktree alone tells stays.
LEMMA GoingTold ==
  ASSUME Going, NEW p
  PROVE  PlainKind(p)' = PlainKind(p) /\ WouldBe(p)' = WouldBe(p)
<1>1. w' = w /\ listing' = listing /\ Barred(p)' = Barred(p)
  BY GoingBarred DEF Going, Still
<1>2. PlainKind(p)' = PlainKind(p) BY <1>1 DEF PlainKind, ScannedTemplate
<1> QED BY <1>1, <1>2 DEF WouldBe

LEMMA GoingNames ==
  ASSUME NamesTold, Going, buffer' = buffer, spelled' = spelled \/ SpelledPlainly
  PROVE  NamesTold'
<1>1. w' = w /\ listing' = listing /\ prefixes' = prefixes BY DEF Going, Still
<1>2. CASE spelled' = spelled BY <1>1, <1>2 DEF NamesTold
<1>3. CASE SpelledPlainly
  <2>1. PICK P : /\ spelled' = spelled \cup {<<p, p>> : p \in P}
                 /\ \A p \in P : w.narrow \/ IsTemplate(p)
    BY <1>3 DEF SpelledPlainly
  <2>2. \A x \in spelled' : x[1] = x[2] /\ x[1] # <<>> => IsTemplateFile(w, x[1])
    <3> SUFFICES ASSUME NEW x \in spelled', x[1] = x[2], x[1] # <<>>
                 PROVE  IsTemplateFile(w, x[1])
      OBVIOUS
    <3>1. CASE x \in spelled BY <3>1 DEF NamesTold
    <3>2. CASE x \notin spelled
      <4>1. PICK p \in P : x = <<p, p>> BY <2>1, <3>2
      <4>2. x[1] = p BY <4>1
      <4> QED BY <2>1, <4>2 DEF IsTemplateFile
    <3> QED BY <3>1, <3>2
  <2> QED BY <1>1, <2>2 DEF NamesTold
<1> QED BY <1>2, <1>3

\* A step within a phase that reads and answers nothing.
LEMMA ToldMove ==
  ASSUME Told, Going, buffer' = buffer, spelled' = spelled \/ SpelledPlainly, pc' = pc,
         project'.sources = project.sources, project'.discoverable = project.discoverable,
         JobTold', SlotsTold', pc # "spell" \/ jobs' = jobs,
         pc = "targets" => \A t \in ToSet(req.paths) : Answering(t) => Answering(t)' \/ Answered(t)
  PROVE  Told'
<1>1. w' = w /\ req' = req /\ listing' = listing BY DEF Going, Still
<1>2. NamesTold' BY GoingNames DEF Told
<1>3. SourcesTold'
  <2> SUFFICES ASSUME NEW p \in DOMAIN project.sources PROVE SourceTold(p)'
    BY DEF SourcesTold
  <2>1. SourceTold(p) BY DEF Told, SourcesTold
  <2>2. /\ Barred(p)' = Barred(p) /\ PlainKind(p)' = PlainKind(p) /\ Plain(p)' = Plain(p)
    BY GoingBarred, GoingTold, PlainStays
  <2> QED BY <1>1, <2>1, <2>2 DEF SourceTold
<1>4. \A t : Answered(t) => Answered(t)'
  BY <1>1, GoingTold, PlainStays DEF Answered
<1>5. TargetsTold' BY <1>1, <1>4 DEF Told, TargetsTold
<1> QED BY <1>1, <1>2, <1>3, <1>5 DEF Told

LEMMA NoSlotsTold == ASSUME slots' = NoSlots PROVE SlotsTold'
BY DEF SlotsTold, NoSlots

LEMMA NoJobTold == ASSUME job' = NoJob PROVE JobTold'
BY DEF JobTold, NoJob

\* Before the targets nothing is answered.
LEMMA EarlyTold ==
  ASSUME ClaimInv, Told, pc \in {"idle", "list", "identify"},
         pc' \in {"list", "identify", "spell"}, UNCHANGED <<req, work, project>>,
         NamesTold'
  PROVE  Told'
<1>1. project = EmptyProject /\ slots = NoSlots /\ job = NoJob /\ jobs = <<>>
  BY DEF ClaimInv, PhaseInv, Working
<1>2. project' = EmptyProject /\ slots' = NoSlots /\ job' = NoJob /\ jobs' = <<>>
  BY <1>1 DEF work
<1>3. SourcesTold' BY <1>2 DEF SourcesTold, EmptyProject
<1>4. TargetsTold' BY <1>2, EmptyPath DEF TargetsTold
<1> QED BY <1>2, <1>3, <1>4, NoSlotsTold, NoJobTold DEF Told

LEMMA FailTold == ASSUME Told, Fail PROVE Told'
<1>1. /\ pc' = "failed" /\ project' = EmptyProject /\ job' = NoJob /\ slots' = NoSlots
      /\ req' = req
  BY DEF Fail
<1>2. Going /\ buffer' = buffer /\ spelled' = spelled
  BY DEF Fail, Going, Still, world, policy, naming
<1>3. NamesTold' BY <1>2, GoingNames DEF Told
<1>4. SourcesTold' BY <1>1 DEF SourcesTold, EmptyProject
<1>5. TargetsTold' BY <1>1 DEF TargetsTold
<1> QED BY <1>1, <1>3, <1>4, <1>5, NoSlotsTold, NoJobTold DEF Told

LEMMA ConfigureTold == ASSUME ClaimInv, Quiet, Told, Configure PROVE Told'
<1>1. CASE Fail BY <1>1, FailTold
<1>2. CASE ~Fail
  <2>1. /\ pc = "idle" /\ pc' = "list" /\ prefixes' = ExcludePaths(w)
        /\ UNCHANGED <<world, req, listing, naming, work, project>>
    BY <1>2 DEF Configure
  <2>2. \A x \in ExcludePaths(w) : IsPath(x)
    BY WorldsAssumption DEF Quiet, WorldQuiet, WellFormed
  <2>3. UNCHANGED <<w, listing, buffer, spelled>> BY <2>1 DEF world, naming
  <2>4. NamesTold' BY <2>1, <2>2, <2>3 DEF Told, NamesTold
  <2> QED BY <2>1, <2>4, EarlyTold
<1> QED BY <1>1, <1>2

LEMMA ListSourcesTold == ASSUME ClaimInv, Quiet, Told, ListSources PROVE Told'
<1>1. CASE Fail BY <1>1, FailTold
<1>2. CASE ~Fail
  <2>1. /\ pc = "list" /\ pc' = "identify"
        /\ listing' = IF w.git THEN GitListing(w) ELSE {}
        /\ UNCHANGED <<world, req, prefixes, naming, work, project>>
    BY <1>2 DEF ListSources
  <2>2. \A p \in listing' : Inside(p) BY <2>1 DEF GitListing
  <2>3. UNCHANGED <<w, prefixes, buffer, spelled>> BY <2>1 DEF world, naming
  <2>4. NamesTold' BY <2>2, <2>3 DEF Told, NamesTold
  <2> QED BY <2>1, <2>4, EarlyTold
<1> QED BY <1>1, <1>2

LEMMA IdentifyBufferTold == ASSUME ClaimInv, Quiet, Told, IdentifyBuffer PROVE Told'
<1>1. CASE Fail BY <1>1, FailTold
<1>2. CASE ~Fail
  <2>1. /\ pc = "identify" /\ pc' = "spell"
        /\ UNCHANGED <<world, req, policy, naming, work, project>>
    BY <1>2 DEF IdentifyBuffer, Told
  <2>2. UNCHANGED <<w, listing, prefixes, buffer, spelled>> BY <2>1 DEF world, policy, naming
  <2>3. NamesTold' BY <2>2 DEF Told, NamesTold
  <2> QED BY <2>1, <2>3, EarlyTold
<1> QED BY <1>1, <1>2

\* Until the targets are taken nothing is answered.
LEMMA SpellTold ==
  ASSUME ClaimInv, Told, pc = "spell", UNCHANGED <<w, req, job, slots, project>>,
         NamesTold', TargetsTold'
  PROVE  Told'
<1>1. project' = EmptyProject /\ slots' = NoSlots /\ job' = NoJob
  BY DEF ClaimInv, PhaseInv, Working
<1>2. SourcesTold' BY <1>1 DEF SourcesTold, EmptyProject
<1> QED BY <1>1, <1>2, NoSlotsTold, NoJobTold DEF Told

LEMMA RememberSpellingTold == ASSUME ClaimInv, Quiet, Told, RememberSpelling PROVE Told'
<1>1. CASE Fail BY <1>1, FailTold
<1>2. CASE ~Fail
  <2>1. PICK t : t = req.paths[Len(jobs) + 1] OBVIOUS
  <2>2. /\ pc = "spell" /\ pc' = pc
        /\ \/ spelled' = spelled
           \/ /\ spelled' = spelled \cup {<<AbsoluteTarget(w, t), Spelling(t)>>}
              /\ IsTemplateFile(w, t)
        /\ jobs' = Append(jobs, Target(t))
        /\ UNCHANGED <<world, req, policy, buffer, job, slots, project>>
    BY <1>2, <2>1 DEF RememberSpelling, SpelledAsTemplate
  <2>3. UNCHANGED <<w, listing, prefixes, buffer>> BY <2>2 DEF world, policy
  <2>4. NamesTold'
    <3> SUFFICES ASSUME NEW x \in spelled', x[1] = x[2], x[1] # <<>>
                 PROVE  IsTemplateFile(w, x[1])
      BY <2>3 DEF Told, NamesTold
    <3>1. CASE x \in spelled BY <3>1 DEF Told, NamesTold
    <3>2. CASE x \notin spelled
      <4>1. x = <<AbsoluteTarget(w, t), Spelling(t)>> /\ IsTemplateFile(w, t)
        BY <2>2, <3>2
      <4>2. x[2] = Spelling(t) /\ x[2] # <<>> BY <4>1
      <4>3. x[1] = t BY <4>2 DEF Spelling
      <4> QED BY <4>1, <4>3
    <3> QED BY <3>1, <3>2
  <2>5. TargetsTold'
    <3>1. PICK j : j = Target(t) OBVIOUS
    <3>2. j.path = t BY <3>1 DEF Target, NoJob
    <3>3. IsPath(jobs) /\ \A i \in 1..Len(jobs) : jobs[i].path = req.paths[i]
      BY <2>2 DEF Quiet, QueueQuiet, Told, TargetsTold
    <3>4. /\ Len(jobs) \in Nat /\ Len(jobs') = Len(jobs) + 1
          /\ \A i \in 1..Len(jobs) : jobs'[i] = jobs[i]
          /\ jobs'[Len(jobs) + 1] = j
      BY <2>2, <3>1, <3>3, QueueGrows
    <3>5. \A i \in 1..Len(jobs') : jobs'[i].path = req.paths[i]
      BY <2>1, <3>2, <3>3, <3>4
    <3>6. req' = req /\ pc' = "spell" BY <2>2
    <3> QED BY <3>5, <3>6 DEF TargetsTold
  <2> QED BY <2>2, <2>3, <2>4, <2>5, SpellTold
<1> QED BY <1>1, <1>2

LEMMA EndSpellingsTold == ASSUME ClaimInv, Quiet, Told, EndSpellings PROVE Told'
<1>1. /\ pc = "spell" /\ pc' = "targets" /\ Len(jobs) = Len(req.paths) /\ jobs' = jobs
      /\ UNCHANGED <<world, req, policy, naming, job, slots, project>>
  BY DEF EndSpellings, Told
<1>2. UNCHANGED <<w, listing, prefixes, buffer, spelled>> BY <1>1 DEF world, policy, naming
<1>3. NamesTold' BY <1>2 DEF Told, NamesTold
<1>4. TargetsTold'
  <2>1. ASSUME NEW t \in ToSet(req.paths) PROVE Answering(t)'
    <3>1. IsPath(req.paths) BY RequestPaths DEF Quiet
    <3>2. PICK i \in 1..Len(req.paths) : req.paths[i] = t BY <3>1, PathIs DEF ToSet
    <3>3. jobs[i].path = t BY <1>1, <3>2 DEF Told, TargetsTold
    <3> QED BY <1>1, <3>2, <3>3 DEF Answering
  <2>2. req' = req BY <1>1
  <2> QED BY <1>1, <2>1, <2>2 DEF TargetsTold
<1> QED BY <1>1, <1>2, <1>3, <1>4, SpellTold

-----------------------------------------------------------------------------
\* A job that is dropped.
LEMMA SkipTold ==
  ASSUME Told, Skip, answers' = answers \/ AnswersGrow,
         project'.sources = project.sources, project'.discoverable = project.discoverable,
         \A t : job.op \in {"target", "admit"} /\ job.path = t => Answered(t),
         job.op \notin {"file", "read"} \/ ~job.selected
  PROVE  Told'
<1>1. Going BY DEF Skip, Going, Still, world
<1>2. /\ buffer' = buffer /\ spelled' = spelled /\ pc' = pc /\ jobs' = jobs
      /\ job' = NoJob /\ slots' = NoSlots
  BY DEF Skip, naming
<1>3. \A t : Answering(t) => Answering(t)' \/ Answered(t) BY <1>2 DEF Answering
<1> QED BY <1>1, <1>2, <1>3, NoJobTold, NoSlotsTold, ToldMove

LEMMA TakeJobTold == ASSUME ClaimInv, Quiet, Told, TakeJob PROVE Told'
<1>1. /\ Working /\ job = NoJob /\ jobs # <<>>
      /\ job' = Head(jobs) /\ jobs' = Tail(jobs)
      /\ UNCHANGED <<world, pc, req, policy, naming, slots, project, calm>>
  BY DEF TakeJob, Idle
<1>2. Going /\ buffer' = buffer /\ spelled' = spelled /\ pc' = pc
  BY <1>1 DEF Going, Still, world, policy, naming
<1>3. /\ Len(jobs) \in Nat \ {0} /\ job' = jobs[1]
      /\ IsPath(jobs') /\ Len(jobs') = Len(jobs) - 1
      /\ \A i \in 1..(Len(jobs) - 1) : jobs'[i] = jobs[i + 1]
  BY <1>1, QueuePath DEF Quiet, QueueQuiet
<1>4. Queued(job') BY <1>3 DEF Quiet, QueueQuiet
<1>5. slots' = NoSlots BY <1>1 DEF Quiet, JobQuiet, Reading, NoJob
<1>6. JobTold' BY <1>4 DEF JobTold, Queued
<1>7. ASSUME NEW t, Answering(t), pc = "targets" PROVE Answering(t)'
  <2>1. PICK i \in 1..Len(jobs) : jobs[i].path = t
    BY <1>1, <1>7 DEF Answering, NoJob
  <2>2. CASE i = 1 BY <1>3, <1>4, <1>7, <2>1, <2>2 DEF Answering, Queued
  <2>3. CASE i # 1
    <3>1. i - 1 \in 1..(Len(jobs) - 1) /\ (i - 1) + 1 = i BY <1>3, <2>3
    <3>2. jobs'[i - 1] = jobs[i] /\ i - 1 \in 1..Len(jobs') BY <1>3, <3>1
    <3> QED BY <2>1, <3>2 DEF Answering
  <2> QED BY <2>2, <2>3
<1>8. project'.sources = project.sources /\ project'.discoverable = project.discoverable
  BY <1>1
<1>9. pc # "spell" BY <1>1 DEF Working
<1> QED BY <1>2, <1>5, <1>6, <1>7, <1>8, <1>9, NoSlotsTold, ToldMove

LEMMA AdmitSpellingTold == ASSUME ClaimInv, Quiet, Told, AdmitSpelling PROVE Told'
<1>1. CASE Fail BY <1>1, FailTold
<1>2. CASE ~Fail
  <2>0. PICK a, d : a = AbsoluteTarget(w, job.path) /\ d = IsDirectory(w, a) OBVIOUS
  <2>1. buffer.path = Missing BY DEF Told, NamesTold, NoBuffer
  <2>2. /\ Doing("target")
        /\ a # Missing
        /\ job' = [job EXCEPT !.op = "admit", !.owner = Owned(w, job.path),
                              !.absolute = a, !.directory = d]
        /\ UNCHANGED <<world, pc, req, policy, naming, jobs, slots, project, calm>>
    BY <1>2, <2>0, <2>1 DEF AdmitSpelling
  <2>3. Going /\ buffer' = buffer /\ spelled' = spelled
    BY <2>2 DEF Going, Still, world, policy, naming
  <2>4. JobShape(job) BY DEF Quiet, JobQuiet
  <2>5. /\ job'.op = "admit" /\ job'.path = job.path /\ job'.absolute = a
        /\ job'.directory = d
    BY <2>2, <2>4 DEF JobShape, NoJob
  <2>6. JobTold'
    <3>1. w' = w BY <2>2 DEF world
    <3> QED BY <2>0, <2>2, <2>5, <3>1 DEF JobTold
  <2>7. slots' = NoSlots BY <2>2 DEF Quiet, JobQuiet, Reading, Doing
  <2>8. \A t : Answering(t) => Answering(t)' BY <2>2, <2>5 DEF Answering, Doing
  <2> QED BY <2>2, <2>3, <2>6, <2>7, <2>8, NoSlotsTold, ToldMove
<1> QED BY <1>1, <1>2

LEMMA AdmitTargetTold == ASSUME ClaimInv, Quiet, Told, AdmitTarget PROVE Told'
<1>1. CASE Fail BY <1>1, FailTold
<1>2. CASE ~Fail
  <2> DEFINE absolute == AbsoluteTarget(w, job.path)
             op == IF IsDirectory(w, absolute) THEN "directory" ELSE "file"
  <2>1. Doing("admit") BY <1>2 DEF AdmitTarget
  <2>a. /\ job.absolute = absolute /\ absolute # Missing
        /\ job.directory <=> IsDirectory(w, absolute)
    BY <2>1 DEF Doing, Told, JobTold
  <2>2. job.selected /\ JobShape(job) BY <2>1 DEF Quiet, JobQuiet, Doing
  <2>3. CASE Skip /\ UNCHANGED <<answers, project>> /\ IsDirectory(w, absolute)
    <3>1. \A t : job.path = t => Answered(t) BY <2>3 DEF Answered
    <3>2. job.op = "admit" BY <2>1 DEF Doing
    <3> QED BY <2>3, <3>1, <3>2, SkipTold
  <2>4. CASE ~(Skip /\ UNCHANGED <<answers, project>> /\ IsDirectory(w, absolute))
    <3>1. /\ project' = [project EXCEPT !.spellings = @ \cup {<<job.path, job.owner>>}]
          /\ job' = [job EXCEPT !.path = absolute, !.op = op]
          /\ UNCHANGED <<world, pc, req, policy, naming, jobs, slots, calm>>
      BY <1>2, <2>4, <2>a DEF AdmitTarget
    <3>2. Going /\ buffer' = buffer /\ spelled' = spelled
      BY <3>1 DEF Going, Still, world, policy, naming
    <3>3. project'.sources = project.sources /\ project'.discoverable = project.discoverable
      BY <3>1 DEF ClaimInv, PhaseInv, EmptyProject
    <3>4. PICK a, o : a = absolute /\ o = op OBVIOUS
    <3>5. o = "file" \/ IsDirectory(w, a) BY <3>4
    <3>6. /\ job'.op = o /\ job'.path = a /\ job'.selected = job.selected
      BY <2>2, <3>1, <3>4 DEF JobShape, NoJob
    <3>7. JobTold' BY <2>a, <3>4, <3>5, <3>6 DEF JobTold
    <3>8. slots' = NoSlots BY <2>1, <3>1 DEF Quiet, JobQuiet, Reading, Doing
    <3>9. ASSUME NEW t, Answering(t) PROVE Answering(t)' \/ Answered(t)
      <4>1. CASE \E i \in 1..Len(jobs) : jobs[i].path = t BY <3>1, <4>1 DEF Answering
      <4>2. CASE job.path = t
        <5>1. a = AbsoluteTarget(w, t) BY <3>4, <4>2
        <5>2. w' = w BY <3>1 DEF world
        <5>3. CASE o = "file" BY <2>2, <3>6, <5>1, <5>2, <5>3 DEF Answering
        <5>4. CASE o # "file" BY <3>5, <5>1, <5>4 DEF Answered
        <5> QED BY <5>3, <5>4
      <4> QED BY <2>1, <3>9, <4>1, <4>2 DEF Answering, Doing
    <3>10. UNCHANGED <<pc, jobs>> BY <3>1
    <3> QED BY <3>2, <3>3, <3>7, <3>8, <3>9, <3>10, NoSlotsTold, ToldMove
  <2> QED BY <2>3, <2>4
<1> QED BY <1>1, <1>2

LEMMA OpenFileTold == ASSUME ClaimInv, Quiet, Told, OpenFile PROVE Told'
<1>0. PICK p : p = job.path OBVIOUS
<1>1. CASE Fail BY <1>1, FailTold
<1>2. CASE ~Fail
  <2>1. Doing("file") /\ Asked({p}) /\ Inside(p) BY <1>0, <1>2 DEF OpenFile
  <2>2. job.op = "file" /\ AnswersGrow BY <2>1, AskedGrows DEF Doing
  <2>3. CASE Skip /\ UNCHANGED project /\ ~job.selected BY <2>2, <2>3, SkipTold
  <2>4. CASE ~(Skip /\ UNCHANGED project /\ ~job.selected)
    <3>1. /\ job' = [job EXCEPT !.op = "read"]
          /\ slots' = IF p \in DOMAIN project.sources THEN NoSlots
                      ELSE [q \in {p} |-> NewSlot(IsExcluded(p))]
          /\ UNCHANGED <<world, pc, req, prefixes, listing, naming, jobs, project, calm>>
      BY <1>0, <1>2, <2>4 DEF OpenFile
    <3>2. Going /\ buffer' = buffer /\ spelled' = spelled
      BY <2>2, <3>1 DEF Going, Still, world, naming
    <3>3. job'.op = "read" /\ job'.path = p /\ job'.selected = job.selected
      BY <1>0, <3>1 DEF Quiet, JobQuiet, JobShape, NoJob
    <3>4. p # Missing BY <1>0, <2>2 DEF Told, JobTold
    <3>5. JobTold' BY <3>3, <3>4 DEF JobTold
    <3>6. SlotsTold'
      <4>1. CASE p \in DOMAIN project.sources BY <3>1, <4>1, NoSlotsTold
      <4>2. CASE p \notin DOMAIN project.sources
        <5>1. PICK x : x = NewSlot(IsExcluded(p)) OBVIOUS
        <5>2. x.stage = "resolve" /\ (x.excluded <=> Barred(p))
          BY <5>1, BarredIs DEF NewSlot, Quiet
        <5>3. DOMAIN slots' = {p} /\ slots'[p] = x BY <3>1, <4>2, <5>1
        <5>4. Barred(p)' = Barred(p) BY <3>2, GoingBarred
        <5>5. SlotTold(p)' BY <2>1, <3>4, <5>2, <5>3, <5>4 DEF SlotTold, Held
        <5> QED BY <5>3, <5>5 DEF SlotsTold
      <4> QED BY <4>1, <4>2
    <3>7. ASSUME NEW t, Answering(t) PROVE Answering(t)'
      <4>1. w' = w /\ jobs' = jobs BY <3>1 DEF world
      <4> QED BY <1>0, <2>2, <3>3, <3>7, <4>1 DEF Answering
    <3>8. UNCHANGED <<pc, jobs, project>> BY <3>1
    <3> QED BY <3>2, <3>5, <3>6, <3>7, <3>8, ToldMove
  <2> QED BY <2>3, <2>4
<1> QED BY <1>1, <1>2

\* No link leads from the name of what is missing.
LEMMA MissingOwned == ASSUME NEW v \in Worlds PROVE Owned(v, Missing) \in Refusals
<1>1. IsPath(Missing) BY PlainNames
<1>2. ASSUME NEW l \in DOMAIN v.link, IsPrefix(l, Missing) PROVE FALSE
  <2>1. IsPath(l) /\ l # <<>> /\ ~IsPrefix(Missing, l) BY LinkFacts
  <2>2. Len(Missing) = 1 /\ Len(l) \in Nat \ {0} BY <2>1, EmptyPath DEF Missing
  <2>3. Len(l) <= Len(Missing) /\ \A i \in 1..Len(l) : l[i] = Missing[i]
    BY <1>1, <1>2, <2>1, PrefixPoint
  <2>4. Len(l) = 1
    <3>1. PICK n : n = Len(l) OBVIOUS
    <3>2. n \in Nat \ {0} /\ n <= 1 BY <2>2, <2>3, <3>1, Zenon
    <3> QED BY <3>1, <3>2
  <2>5. l = Missing BY <1>1, <2>1, <2>2, <2>3, <2>4, PathsEqual
  <2>6. IsPrefix(Missing, Missing) BY <1>1, PrefixPoint, PathIs
  <2> QED BY <2>1, <2>5, <2>6
<1>3. Follow(v, Missing) = Missing BY <1>1, <1>2, FollowIs
<1>4. Resolve(v, Missing) = Missing BY <1>3 DEF Resolve
<1> QED BY <1>4, MissingIsNothing DEF Owned, OwnerAt, Refusals

LEMMA OpenContextFileTold == ASSUME ClaimInv, Quiet, Told, OpenContextFile PROVE Told'
<1>0. PICK p : p = job.path OBVIOUS
<1>1. CASE Fail BY <1>1, FailTold
<1>2. CASE ~Fail
  <2>1. Doing("context") /\ AnswersGrow BY <1>2, AskedGrows DEF OpenContextFile
  <2>2. job.op = "context" /\ ~job.selected /\ slots = NoSlots /\ JobShape(job)
    BY <2>1, ContextJob DEF Doing
  <2>3. CASE Skip /\ UNCHANGED project BY <2>1, <2>2, <2>3, SkipTold
  <2>4. CASE ~(Skip /\ UNCHANGED project)
    <3>1. /\ job' = [job EXCEPT !.op = "file"]
          /\ UNCHANGED <<world, pc, req, prefixes, listing, naming, jobs, slots,
                         project, calm>>
          /\ ~IsExcluded(p) /\ Owned(w, p) # Missing /\ Owned(w, p) # Escaped
      BY <1>0, <1>2, <2>4 DEF OpenContextFile
    <3>2. Going /\ buffer' = buffer /\ spelled' = spelled
      BY <2>1, <3>1 DEF Going, Still, world, naming
    <3>3. job'.op = "file" /\ job'.path = p
      BY <1>0, <2>2, <3>1 DEF JobShape, NoJob
    <3>4. p # Missing BY <3>1, MissingOwned DEF Quiet, WorldQuiet, Refusals
    <3>5. JobTold' BY <3>3, <3>4 DEF JobTold
    <3>6. SlotsTold' BY <2>2, <3>1, NoSlotsTold
    <3>7. ASSUME NEW t, Answering(t) PROVE Answering(t)'
      BY <2>2, <3>1, <3>7 DEF Answering
    <3>8. UNCHANGED <<pc, jobs, project>> BY <3>1
    <3> QED BY <3>2, <3>5, <3>6, <3>7, <3>8, ToldMove
  <2> QED BY <2>3, <2>4
<1> QED BY <1>1, <1>2

LEMMA OpenContextDirectoryTold ==
  ASSUME ClaimInv, Quiet, Told, OpenContextDirectory PROVE Told'
<1>1. CASE Fail BY <1>1, FailTold
<1>2. CASE ~Fail
  <2>1. Doing("scope") /\ AnswersGrow BY <1>2, AskedGrows DEF OpenContextDirectory
  <2>2. job.op = "scope" /\ ~job.selected /\ slots = NoSlots /\ JobShape(job)
    BY <2>1, ContextJob DEF Doing
  <2>3. project'.sources = project.sources /\ project'.discoverable = project.discoverable
    <3>1. project' = project \/ \E f : project' = [project EXCEPT !.directories = f]
      BY <1>2 DEF OpenContextDirectory, Observe
    <3> QED BY <3>1 DEF ClaimInv, PhaseInv, EmptyProject
  <2>4. CASE Skip BY <2>1, <2>2, <2>3, <2>4, SkipTold
  <2>5. CASE ~Skip
    <3>1. PICK op : /\ op \in {"variables", "directory"}
                    /\ job' = [job EXCEPT !.op = op]
                    /\ UNCHANGED <<world, pc, req, prefixes, listing, naming, jobs,
                                   slots, calm>>
      BY <1>2, <2>5 DEF OpenContextDirectory
    <3>2. Going /\ buffer' = buffer /\ spelled' = spelled
      BY <2>1, <3>1 DEF Going, Still, world, naming
    <3>3. job'.op = op BY <2>2, <3>1 DEF JobShape, NoJob
    <3>4. JobTold' BY <3>1, <3>3 DEF JobTold
    <3>5. SlotsTold' BY <2>2, <3>1, NoSlotsTold
    <3>6. ASSUME NEW t, Answering(t) PROVE Answering(t)'
      BY <2>2, <3>1, <3>6 DEF Answering
    <3>7. UNCHANGED <<pc, jobs>> BY <3>1
    <3> QED BY <2>3, <3>2, <3>4, <3>5, <3>6, <3>7, ToldMove
  <2> QED BY <2>4, <2>5
<1> QED BY <1>1, <1>2

LEMMA ScanDirectoryTold == ASSUME ClaimInv, Quiet, Told, ScanDirectory PROVE Told'
<1>0. PICK d : d = job.path OBVIOUS
<1> DEFINE offered == {p \in Candidates(w, listing, prefixes, d, job.selected) :
                         job.op = "variables" => VariableDeclarationPath(p)}
           kept == {p \in offered : ~IsExcluded(p)}
           plain == {p \in kept : /\ job.selected /\ ~HasSpelling(p)
                                  /\ w.narrow \/ IsTemplate(p)}
<1>1. /\ Working /\ job.op \in {"directory", "variables"} /\ Asked(offered)
      /\ spelled' = spelled \cup {<<p, p>> : p \in plain}
      /\ slots' = [p \in kept |-> NewSlot(FALSE)]
      /\ job' = [job EXCEPT !.op = "batch"]
      /\ UNCHANGED <<world, pc, req, prefixes, listing, buffer, jobs, calm>>
  BY <1>0 DEF ScanDirectory
<1>2. project'.sources = project.sources /\ project'.discoverable = project.discoverable
  BY DEF ScanDirectory, ClaimInv, PhaseInv, EmptyProject
<1>3. Going BY <1>1, AskedGrows DEF Going, Still, world
<1>4. ASSUME NEW p \in kept PROVE p # Missing /\ Inside(p) /\ ~Barred(p)
  <2>1. p \in Paths BY <1>4, CandidatesBelow DEF Quiet
  <2>2. IsPrefix(Missing, Missing) BY PlainNames, PrefixPoint, PathIs
  <2>3. p # Missing BY <2>1, <2>2, PathsAssumption
  <2>4. Inside(p) BY <1>4 DEF Candidates, Told, NamesTold
  <2> QED BY <1>4, <2>3, <2>4, BarredIs DEF Quiet
<1>5. PICK n : n = NewSlot(FALSE) OBVIOUS
<1>6. n.stage = "resolve" /\ n.excluded = FALSE BY <1>5 DEF NewSlot
<1>7. PICK K, P : K = kept /\ P = plain OBVIOUS
<1>8. /\ DOMAIN slots' = K /\ \A p \in K : slots'[p] = n
      /\ spelled' = spelled \cup {<<p, p>> : p \in P}
      /\ \A p \in P : w.narrow \/ IsTemplate(p)
      /\ \A p \in K : p # Missing /\ Inside(p) /\ ~Barred(p)
  BY <1>1, <1>4, <1>5, <1>7
<1> HIDE DEF offered, kept, plain
<1>9. SpelledPlainly BY <1>8 DEF SpelledPlainly
<1>10. job'.op = "batch" BY <1>1 DEF Quiet, JobQuiet, JobShape, NoJob
<1>11. JobTold' BY <1>10 DEF JobTold
<1>12. SlotsTold'
  <2> SUFFICES ASSUME NEW p \in K PROVE SlotTold(p)' BY <1>8 DEF SlotsTold
  <2>1. Barred(p)' = Barred(p) BY <1>3, GoingBarred
  <2>2. slots'[p] = n /\ p # Missing /\ Inside(p) /\ ~Barred(p) BY <1>8
  <2> QED BY <1>6, <2>1, <2>2 DEF SlotTold, Held
<1>13. ASSUME NEW t, Answering(t) PROVE Answering(t)'
  BY <1>1, <1>13 DEF Answering
<1>14. UNCHANGED <<pc, buffer, jobs>> BY <1>1
<1> QED BY <1>2, <1>3, <1>9, <1>11, <1>12, <1>13, <1>14, ToldMove

-----------------------------------------------------------------------------
\* A reader that writes slot into the slot of p.
LEMMA SetSlotTold ==
  ASSUME Told, NEW p \in DOMAIN slots, NEW slot, SetSlot(p, slot),
         slot.excluded <=> slots[p].excluded,
         slot.stage \in Held => slot.owner = Owned(w, p) /\ slot.owner \notin Refusals,
         slot.stage \in Held \ {"open"} =>
           IsFile(w, slot.owner) /\ slot.inode = w.file[slot.owner],
         slot.stage \in {"check", "name", "ready"} => slot.data = Data(w, slot.owner),
         slot.stage = "ready" =>
           ~slot.overlaid /\ (Plain(p) => (slot.template <=> ScannedTemplate(p)))
  PROVE  Told'
<1>1. /\ slots' = [slots EXCEPT ![p] = slot]
      /\ UNCHANGED <<world, pc, req, policy, naming, jobs, job, project, calm>>
  BY DEF SetSlot
<1>2. Going /\ buffer' = buffer /\ spelled' = spelled /\ w' = w
  BY <1>1 DEF Going, Still, world, policy, naming
<1>3. DOMAIN slots' = DOMAIN slots /\ slots'[p] = slot
      /\ \A q \in DOMAIN slots \ {p} : slots'[q] = slots[q]
  BY <1>1
<1>4. SlotsTold'
  <2> SUFFICES ASSUME NEW q \in DOMAIN slots PROVE SlotTold(q)' BY <1>3 DEF SlotsTold
  <2>1. SlotTold(q) BY DEF Told, SlotsTold
  <2>2. /\ Barred(q)' = Barred(q) /\ Plain(q)' = Plain(q)
        /\ ScannedTemplate(q)' = ScannedTemplate(q)
    BY <1>2, GoingBarred, PlainStays DEF ScannedTemplate
  <2>3. CASE q = p
    <3>1. slots'[q] = slot /\ q # Missing /\ Inside(q) /\ (slot.excluded <=> Barred(q))
      BY <1>3, <2>1, <2>3 DEF SlotTold
    <3> QED BY <1>2, <2>2, <2>3, <3>1 DEF SlotTold
  <2>4. CASE q # p BY <1>2, <1>3, <2>1, <2>2, <2>4 DEF SlotTold
  <2> QED BY <2>3, <2>4
<1>5. JobTold' BY <1>1, <1>2 DEF Told, JobTold
<1>6. ASSUME NEW t, Answering(t) PROVE Answering(t)'
  BY <1>1, <1>2, <1>6 DEF Answering
<1>7. UNCHANGED <<pc, jobs, project>> BY <1>1
<1> QED BY <1>2, <1>4, <1>5, <1>6, <1>7, ToldMove

LEMMA ReadResolveTold ==
  ASSUME ClaimInv, Quiet, Told, NEW p \in DOMAIN slots, ReadResolve(p) PROVE Told'
<1>1. SlotTold(p) /\ p # Missing BY DEF Told, SlotsTold, SlotTold
<1>2. DOMAIN slots[p] = SlotFields BY DEF ClaimInv, SlotsInv, SlotOK
<1>3. p # buffer.path BY <1>1 DEF Told, NamesTold, NoBuffer
<1>4. CASE \E stage \in {"absent", "kept", "failed"} :
             SetSlot(p, [slots[p] EXCEPT !.stage = stage])
  <2>1. PICK stage \in {"absent", "kept", "failed"} :
             SetSlot(p, [slots[p] EXCEPT !.stage = stage])
    BY <1>4
  <2>2. PICK slot : slot = [slots[p] EXCEPT !.stage = stage] OBVIOUS
  <2>3. slot.stage = stage /\ slot.excluded = slots[p].excluded
    BY <1>2, <2>2 DEF SlotFields
  <2>4. SetSlot(p, slot) BY <2>1, <2>2
  <2> QED BY <2>3, <2>4, SetSlotTold DEF Held
<1>5. CASE /\ Owned(w, p) \notin Refusals
           /\ SetSlot(p, [slots[p] EXCEPT !.stage = "open", !.owner = Owned(w, p)])
  <2>1. PICK slot : slot = [slots[p] EXCEPT !.stage = "open", !.owner = Owned(w, p)]
    OBVIOUS
  <2>2. /\ slot.stage = "open" /\ slot.owner = Owned(w, p)
        /\ slot.excluded = slots[p].excluded
    BY <1>2, <2>1 DEF SlotFields
  <2>3. SetSlot(p, slot) BY <1>5, <2>1
  <2> QED BY <1>5, <2>2, <2>3, SetSlotTold DEF Held
<1> QED BY <1>3, <1>4, <1>5 DEF ReadResolve

LEMMA ReadOpenTold ==
  ASSUME ClaimInv, Quiet, Told, NEW p \in DOMAIN slots, ReadOpen(p) PROVE Told'
<1>1. SlotTold(p) /\ slots[p].stage = "open" BY DEF Told, SlotsTold, ReadOpen
<1>2. DOMAIN slots[p] = SlotFields BY DEF ClaimInv, SlotsInv, SlotOK
<1>3. PICK owner : owner = slots[p].owner OBVIOUS
<1>4. owner = Owned(w, p) /\ owner \notin Refusals BY <1>1, <1>3 DEF SlotTold, Held
<1>5. CASE /\ IsFile(w, owner)
           /\ SetSlot(p, [slots[p] EXCEPT !.stage = "data", !.inode = w.file[owner],
                                      !.version = w.bytes[w.file[owner]].version])
  <2>1. PICK slot : slot = [slots[p] EXCEPT !.stage = "data", !.inode = w.file[owner],
                                      !.version = w.bytes[w.file[owner]].version]
    OBVIOUS
  <2>2. /\ slot.stage = "data" /\ slot.owner = owner /\ slot.inode = w.file[owner]
        /\ slot.excluded = slots[p].excluded
    BY <1>2, <1>3, <2>1 DEF SlotFields
  <2>3. SetSlot(p, slot) BY <1>5, <2>1
  <2> QED BY <1>4, <1>5, <2>2, <2>3, SetSlotTold
<1>6. CASE SetSlot(p, [slots[p] EXCEPT !.stage = "failed"])
  <2>1. PICK slot : slot = [slots[p] EXCEPT !.stage = "failed"] OBVIOUS
  <2>2. slot.stage = "failed" /\ slot.excluded = slots[p].excluded
    BY <1>2, <2>1 DEF SlotFields
  <2>3. SetSlot(p, slot) BY <1>6, <2>1
  <2> QED BY <2>2, <2>3, SetSlotTold DEF Held
<1> QED BY <1>3, <1>5, <1>6 DEF ReadOpen

LEMMA ReadBytesTold ==
  ASSUME ClaimInv, Quiet, Told, NEW p \in DOMAIN slots, ReadBytes(p) PROVE Told'
<1>1. SlotTold(p) /\ slots[p].stage = "data" BY DEF Told, SlotsTold, ReadBytes
<1>2. DOMAIN slots[p] = SlotFields BY DEF ClaimInv, SlotsInv, SlotOK
<1>3. PICK bytes : bytes = w.bytes[slots[p].inode] OBVIOUS
<1>4. /\ slots[p].owner = Owned(w, p) /\ slots[p].owner \notin Refusals
      /\ IsFile(w, slots[p].owner) /\ slots[p].inode = w.file[slots[p].owner]
  BY <1>1 DEF SlotTold, Held
<1>5. bytes.data = Data(w, slots[p].owner) BY <1>3, <1>4 DEF Data
<1>6. PICK stage : /\ stage \in {"check", "failed"}
                   /\ SetSlot(p, [slots[p] EXCEPT !.stage = stage, !.data = bytes.data])
  BY <1>3 DEF ReadBytes
<1>7. PICK slot : slot = [slots[p] EXCEPT !.stage = stage, !.data = bytes.data] OBVIOUS
<1>8. /\ slot.stage = stage /\ slot.owner = slots[p].owner /\ slot.data = bytes.data
      /\ slot.inode = slots[p].inode /\ slot.excluded = slots[p].excluded
  BY <1>2, <1>7 DEF SlotFields
<1>9. SetSlot(p, slot) BY <1>6, <1>7
<1> QED BY <1>4, <1>5, <1>6, <1>8, <1>9, SetSlotTold DEF Held

LEMMA ReadCheckTold ==
  ASSUME ClaimInv, Quiet, Told, NEW p \in DOMAIN slots, ReadCheck(p) PROVE Told'
<1>1. SlotTold(p) /\ slots[p].stage = "check" BY DEF Told, SlotsTold, ReadCheck
<1>2. DOMAIN slots[p] = SlotFields BY DEF ClaimInv, SlotsInv, SlotOK
<1>3. PICK stage : /\ stage \in {"name", "failed"}
                   /\ SetSlot(p, [slots[p] EXCEPT !.stage = stage])
  BY DEF ReadCheck
<1>4. PICK slot : slot = [slots[p] EXCEPT !.stage = stage] OBVIOUS
<1>5. /\ slot.stage = stage /\ slot.owner = slots[p].owner /\ slot.data = slots[p].data
      /\ slot.inode = slots[p].inode /\ slot.excluded = slots[p].excluded
  BY <1>2, <1>4 DEF SlotFields
<1>6. /\ slots[p].owner = Owned(w, p) /\ slots[p].owner \notin Refusals
      /\ IsFile(w, slots[p].owner) /\ slots[p].inode = w.file[slots[p].owner]
      /\ slots[p].data = Data(w, slots[p].owner)
  BY <1>1 DEF SlotTold, Held
<1>7. SetSlot(p, slot) BY <1>3, <1>4
<1> QED BY <1>3, <1>5, <1>6, <1>7, SetSlotTold DEF Held

-----------------------------------------------------------------------------
\* The root is no file.
LEMMA RootIsNoFile ==
  ASSUME NEW v \in Worlds PROVE Resolve(v, <<>>) = <<>> /\ ~IsFile(v, <<>>)
<1>1. ASSUME NEW l \in DOMAIN v.link, IsPrefix(l, <<>>) PROVE FALSE
  <2>1. IsPath(l) /\ l # <<>> BY LinkFacts
  <2>2. Len(l) \in Nat \ {0} /\ Len(l) <= 0 BY <1>1, <2>1, EmptyPath, PrefixPoint
  <2> QED BY <2>2
<1>2. Follow(v, <<>>) = <<>> BY <1>1, EmptyPath, FollowIs
<1>3. Resolve(v, <<>>) = <<>> BY <1>2 DEF Resolve
<1>4. <<>> \notin Paths BY PathsAssumption
<1> QED BY <1>3, <1>4 DEF IsFile

\* What was asked for by no other name is a template when the worktree tells so.
LEMMA NamedPlainly ==
  ASSUME Quiet, Told, NEW p \in DOMAIN slots, slots[p].stage \in {"name", "ready"}, Plain(p)
  PROVE  ReadAsTemplate(p) <=> ScannedTemplate(p)
<1>1. /\ Inside(p) /\ slots[p].owner = Owned(w, p) /\ Owned(w, p) \notin Refusals
      /\ IsFile(w, Owned(w, p))
  BY DEF Told, SlotsTold, SlotTold, Held
<1>2. w \in Worlds BY DEF Quiet, WorldQuiet
<1>3. Owned(w, p) = Resolve(w, p) /\ IsThere(w, Resolve(w, p)) BY <1>1, <1>2, OwnedFile
<1>4. ~buffer.template /\ buffer.source = <<>> BY DEF Told, NamesTold, NoBuffer
<1>5. BufferSpellings(p) = Spellings(p) BY <1>4 DEF BufferSpellings
<1>6. p # <<>> /\ Resolve(w, p) # <<>> BY <1>1, <1>2, <1>3, RootIsNoFile
<1>7. IsTemplateFile(w, p) <=> ScannedTemplate(p)
  BY <1>3, <1>6 DEF IsTemplateFile, ScannedTemplate, Exists
<1>8. Spellings(p) # {} => IsTemplateFile(w, p)
  <2> SUFFICES ASSUME NEW x \in spelled, x[1] = p PROVE IsTemplateFile(w, p)
    BY DEF Spellings
  <2>1. x[2] = p BY PlainIs
  <2> QED BY <1>6, <2>1 DEF Told, NamesTold
<1> QED BY <1>1, <1>4, <1>5, <1>7, <1>8 DEF ReadAsTemplate, ScannedTemplate

LEMMA ReadNameTold ==
  ASSUME ClaimInv, Quiet, Told, NEW p \in DOMAIN slots, ReadName(p) PROVE Told'
<1>1. SlotTold(p) /\ slots[p].stage = "name" BY DEF Told, SlotsTold, ReadName
<1>2. DOMAIN slots[p] = SlotFields BY DEF ClaimInv, SlotsInv, SlotOK
<1>3. PICK failed : failed = [slots[p] EXCEPT !.stage = "failed"] OBVIOUS
<1>4. PICK v, t : v = FromBuffer(p) /\ t = ReadAsTemplate(p) OBVIOUS
<1>5. PICK ready : ready = [slots[p] EXCEPT !.stage = "ready", !.overlaid = v, !.template = t]
  OBVIOUS
<1>6. CASE SetSlot(p, failed)
  <2>1. failed.stage = "failed" /\ failed.excluded = slots[p].excluded
    BY <1>2, <1>3 DEF SlotFields
  <2> QED BY <1>6, <2>1, SetSlotTold DEF Held
<1>7. CASE SetSlot(p, ready)
  <2>1. /\ ready.stage = "ready" /\ ready.owner = slots[p].owner
        /\ ready.data = slots[p].data /\ ready.inode = slots[p].inode
        /\ ready.excluded = slots[p].excluded /\ ready.overlaid = v /\ ready.template = t
    BY <1>2, <1>5 DEF SlotFields
  <2>2. ~v BY <1>4 DEF FromBuffer, Told, NamesTold, NoBuffer
  <2>3. Plain(p) => (t <=> ScannedTemplate(p)) BY <1>1, <1>4, NamedPlainly
  <2>4. /\ slots[p].owner = Owned(w, p) /\ slots[p].owner \notin Refusals
        /\ IsFile(w, slots[p].owner) /\ slots[p].inode = w.file[slots[p].owner]
        /\ slots[p].data = Data(w, slots[p].owner)
    BY <1>1 DEF SlotTold, Held
  <2> QED BY <1>7, <2>1, <2>2, <2>3, <2>4, SetSlotTold
<1> QED BY <1>3, <1>4, <1>5, <1>6, <1>7 DEF ReadName

\* A source that was asked for by no other name is what the worktree tells.
LEMMA SourceIsPlain ==
  ASSUME Quiet, Told, NEW p \in DOMAIN slots, slots[p].stage = "ready"
  PROVE  LET s == SourceOf(p) IN
         /\ Inside(p) /\ (s.excluded <=> Barred(p))
         /\ Owned(w, p) \notin Refusals /\ IsFile(w, Owned(w, p))
         /\ Plain(p) => s.kind = PlainKind(p)
<1>1. /\ Inside(p) /\ (slots[p].excluded <=> Barred(p))
      /\ slots[p].owner = Owned(w, p) /\ Owned(w, p) \notin Refusals
      /\ IsFile(w, Owned(w, p)) /\ slots[p].data = Data(w, Owned(w, p))
      /\ ~slots[p].overlaid /\ (Plain(p) => (slots[p].template <=> ScannedTemplate(p)))
  BY DEF Told, SlotsTold, SlotTold, Held
<1>2. PICK s : s = SourceOf(p) OBVIOUS
<1>3. /\ s.excluded = slots[p].excluded
      /\ s.kind = IF slots[p].template THEN "template"
                  ELSE IF slots[p].excluded THEN Classified(p)
                  ELSE ParsedKind(p, slots[p].data)
  BY <1>1, <1>2 DEF SourceOf
<1>4. Plain(p) => s.kind = PlainKind(p)
  BY <1>1, <1>3 DEF PlainKind
<1> QED BY <1>1, <1>2, <1>3, <1>4

LEMMA PublishTold == ASSUME ClaimInv, Quiet, Told, Publish PROVE Told'
<1> DEFINE ready == {p \in DOMAIN slots : slots[p].stage = "ready"}
           kept == {p \in DOMAIN slots : slots[p].stage = "kept"}
           sources == [p \in ready |-> SourceOf(p)]
           admitted == {p \in ready : job.op = "batch" =>
                          DirectoryAdmits(p, sources[p].kind, job.selected)}
           all == [p \in DOMAIN project.sources \cup admitted |->
                     IF p \in admitted THEN sources[p] ELSE project.sources[p]]
           told == IF job.op # "read" \/ ~job.selected THEN project.discoverable
                   ELSE IF WouldSelect(w, listing, all[job.path])
                        THEN project.discoverable \cup {job.path}
                        ELSE project.discoverable \ {job.path}
<1>1. CASE Fail BY <1>1, FailTold
<1>2. CASE ~Fail
  <2>1. Reading /\ Skip /\ UNCHANGED answers BY <1>2 DEF Publish
  <2>2. /\ project'.sources = all /\ project'.discoverable = told
        /\ project'.selected = project.selected \cup Chosen(admitted, kept)
    <3>1. project' = [project EXCEPT !.sources = all,
                        !.selected = @ \cup Chosen(admitted, kept), !.discoverable = told]
      BY <1>2 DEF Publish
    <3> HIDE DEF all, admitted, kept, told
    <3> QED BY <3>1 DEF ClaimInv, PhaseInv, EmptyProject
  <2>3. PICK A, K : A = admitted /\ K = kept OBVIOUS
  <2>4. /\ A \subseteq DOMAIN slots /\ \A p \in A : slots[p].stage = "ready"
        /\ DOMAIN project'.sources = DOMAIN project.sources \cup A
        /\ \A p \in A : project'.sources[p] = SourceOf(p)
        /\ \A p \in DOMAIN project.sources \ A : project'.sources[p] = project.sources[p]
    BY <2>2, <2>3
  <2>5. PICK j, now : j = job.path /\ now = project'.sources[j] OBVIOUS
  <2>6. /\ job.op # "read" \/ ~job.selected => project'.discoverable = project.discoverable
        /\ job.op = "read" /\ job.selected =>
             /\ project'.discoverable = IF WouldSelect(w, listing, now)
                                        THEN project.discoverable \cup {j}
                                        ELSE project.discoverable \ {j}
             /\ j \in project'.selected
    BY <2>2, <2>3, <2>5 DEF Chosen
  <2> HIDE DEF ready, kept, sources, admitted, all, told
  <2>7. Going /\ UNCHANGED <<pc, jobs, buffer, spelled, req, w>> /\ job' = NoJob
        /\ slots' = NoSlots
    BY <2>1 DEF Skip, Going, Still, world, naming
  <2>8. NamesTold' BY <2>7, GoingNames DEF Told
  <2>9. \A p : Barred(p)' = Barred(p) /\ PlainKind(p)' = PlainKind(p) /\ Plain(p)' = Plain(p)
               /\ WouldBe(p)' = WouldBe(p)
    BY <2>7, GoingBarred, GoingTold, PlainStays
  <2>10. SourcesTold'
    <3> SUFFICES ASSUME NEW p \in DOMAIN project'.sources PROVE SourceTold(p)'
      BY DEF SourcesTold
    <3>1. CASE p \in A
      <4>1. PICK s : s = SourceOf(p) OBVIOUS
      <4>2. project'.sources[p] = s BY <2>4, <3>1, <4>1
      <4>3. /\ Inside(p) /\ (s.excluded <=> Barred(p))
            /\ Owned(w, p) \notin Refusals /\ IsFile(w, Owned(w, p))
            /\ Plain(p) => s.kind = PlainKind(p)
        BY <2>4, <3>1, <4>1, SourceIsPlain
      <4> QED BY <2>7, <2>9, <4>2, <4>3 DEF SourceTold
    <3>2. CASE p \notin A
      <4>1. p \in DOMAIN project.sources /\ project'.sources[p] = project.sources[p]
        BY <2>4, <3>2
      <4>2. SourceTold(p) BY <4>1 DEF Told, SourcesTold
      <4> QED BY <2>7, <2>9, <4>1, <4>2 DEF SourceTold
    <3> QED BY <3>1, <3>2
  <2>11. ASSUME NEW t, Answered(t) \/ (pc = "targets" /\ Answering(t))
         PROVE  Answered(t)' \/ (pc = "targets" /\ Answering(t)')
    <3>1. PICK p : p = AbsoluteTarget(w, t) OBVIOUS
    <3>2. Answered(t)' <=> (IsDirectory(w, p) \/ (Plain(p) => (p \in project'.discoverable <=> WouldBe(p))))
      BY <2>7, <2>9, <3>1 DEF Answered
    <3>3. CASE job.op = "read" /\ job.selected /\ j = p
      <4>1. j \in DOMAIN project'.sources
        <5>1. Quiet' BY PublishQuiet
        <5> QED BY <2>6, <3>3, <5>1 DEF Quiet, SourcesQuiet
      <4>2. now.path = p
        <5>1. ClaimInv' BY PublishClaims
        <5> QED BY <2>5, <3>3, <4>1, <5>1 DEF ClaimInv, SourcesInv, SourceOK
      <4>3. (now.excluded <=> Barred(p)) /\ (Plain(p) => now.kind = PlainKind(p))
        BY <2>5, <2>9, <2>10, <3>3, <4>1 DEF SourcesTold, SourceTold
      <4>4. Plain(p) => (WouldSelect(w, listing, now) <=> WouldBe(p))
        BY <4>2, <4>3 DEF WouldSelect, WouldBe
      <4>5. p \in project'.discoverable <=> WouldSelect(w, listing, now) BY <2>6, <3>3
      <4> QED BY <3>2, <4>4, <4>5
    <3>4. CASE ~(job.op = "read" /\ job.selected /\ j = p)
      <4>1. p \in project'.discoverable <=> p \in project.discoverable BY <2>6, <3>4
      <4>2. CASE Answered(t) BY <3>1, <3>2, <4>1, <4>2 DEF Answered
      <4>3. CASE pc = "targets" /\ Answering(t)
        BY <2>1, <2>5, <2>7, <3>1, <3>4, <4>3 DEF Answering, Reading
      <4> QED BY <2>11, <4>2, <4>3
    <3> QED BY <3>3, <3>4
  <2>12. TargetsTold'
    <3>1. CASE pc = "targets" BY <2>7, <2>11, <3>1 DEF Told, TargetsTold
    <3>2. CASE pc # "targets" BY <2>7, <2>11, <3>2 DEF Told, TargetsTold
    <3> QED BY <3>1, <3>2
  <2> QED BY <2>7, <2>8, <2>10, <2>12, NoSlotsTold, NoJobTold DEF Told
<1> QED BY <1>1, <1>2

-----------------------------------------------------------------------------
LEMMA PhaseTold ==
  ASSUME Quiet, Told, Idle, jobs = <<>>, NEW next, NEW more, Phase(next, more),
         pc \in {"targets", "files", "directories", "references", "scopes"},
         next \in {"files", "directories", "references", "scopes", "done"}
  PROVE  Told'
<1>1. /\ pc' = next /\ UNCHANGED <<world, req, policy, naming, job, slots, project, calm>>
      /\ job = NoJob
  BY DEF Phase, Idle
<1>2. Going /\ buffer' = buffer /\ spelled' = spelled /\ w' = w
  BY <1>1 DEF Going, Still, world, policy, naming
<1>3. NamesTold' BY <1>2, GoingNames DEF Told
<1>4. \A p : Barred(p)' = Barred(p) /\ PlainKind(p)' = PlainKind(p) /\ Plain(p)' = Plain(p)
             /\ WouldBe(p)' = WouldBe(p)
  BY <1>2, GoingBarred, GoingTold, PlainStays
<1>5. SourcesTold'
  <2> SUFFICES ASSUME NEW p \in DOMAIN project.sources PROVE SourceTold(p)'
    BY <1>1 DEF SourcesTold
  <2>1. SourceTold(p) BY DEF Told, SourcesTold
  <2> QED BY <1>1, <1>2, <1>4, <2>1 DEF SourceTold
<1>6. slots = NoSlots BY <1>1 DEF Quiet, JobQuiet, Reading, NoJob
<1>7. JobTold' /\ SlotsTold' BY <1>1, <1>6, NoJobTold, NoSlotsTold
<1>8. \A t : ~Answering(t) BY <1>1, EmptyPath DEF Answering, NoJob
<1>9. \A t \in ToSet(req.paths) : Answered(t) BY <1>8 DEF Told, TargetsTold
<1>10. \A t : Answered(t) => Answered(t)' BY <1>1, <1>2, <1>4 DEF Answered
<1>11. TargetsTold' BY <1>1, <1>9, <1>10 DEF TargetsTold
<1> QED BY <1>1, <1>3, <1>5, <1>7, <1>11 DEF Told

LEMMA InitTold == ASSUME Init, req.stdin = <<>> PROVE Told
<1>1. NamesTold BY DEF Init, NamesTold
<1>2. JobTold /\ SlotsTold /\ SourcesTold /\ TargetsTold
  BY DEF Init, JobTold, SlotsTold, SourcesTold, TargetsTold, NoJob, NoSlots, EmptyProject
<1> QED BY <1>1, <1>2 DEF Told

LEMMA StutterTold == ASSUME Told, UNCHANGED vars PROVE Told'
<1>1. UNCHANGED <<w, fresh, pc, req, prefixes, listing, answers, buffer, spelled, jobs,
                  job, slots, project, calm>>
  BY DEF vars, world, policy, naming, work
<1>2. Going BY <1>1 DEF Going, Still
<1>3. JobTold' BY <1>1 DEF Told, JobTold
<1>4. \A p : /\ Barred(p)' = Barred(p) /\ Plain(p)' = Plain(p)
             /\ ScannedTemplate(p)' = ScannedTemplate(p)
  BY <1>1, <1>2, GoingBarred, PlainStays DEF ScannedTemplate
<1>5. SlotsTold' BY <1>1, <1>4 DEF Told, SlotsTold, SlotTold
<1>6. \A t : Answering(t) => Answering(t)' BY <1>1 DEF Answering
<1> QED BY <1>1, <1>2, <1>3, <1>5, <1>6, ToldMove

LEMMA LoadTold == ClaimInv /\ Quiet /\ Told /\ (Load \/ UNCHANGED vars) => Told'
<1> SUFFICES ASSUME ClaimInv, Quiet, Told, Load \/ UNCHANGED vars PROVE Told' OBVIOUS
<1>1. CASE Configure BY <1>1, ConfigureTold
<1>2. CASE ListSources BY <1>2, ListSourcesTold
<1>3. CASE IdentifyBuffer BY <1>3, IdentifyBufferTold
<1>4. CASE RememberSpelling \/ EndSpellings
  BY <1>4, RememberSpellingTold, EndSpellingsTold
<1>5. CASE TakeJob BY <1>5, TakeJobTold
<1>6. CASE AdmitSpelling BY <1>6, AdmitSpellingTold
<1>7. CASE AdmitTarget BY <1>7, AdmitTargetTold
<1>8. CASE OpenFile BY <1>8, OpenFileTold
<1>9. CASE OpenContextFile BY <1>9, OpenContextFileTold
<1>10. CASE OpenContextDirectory BY <1>10, OpenContextDirectoryTold
<1>11. CASE ScanDirectory BY <1>11, ScanDirectoryTold
<1>12. CASE Read
  BY <1>12, ReadResolveTold, ReadOpenTold, ReadBytesTold, ReadCheckTold, ReadNameTold
  DEF Read
<1>13. CASE Publish BY <1>13, PublishTold
<1>14. CASE EndTargets BY <1>14, PhaseTold, FailTold DEF EndTargets
<1>15. CASE EndFiles BY <1>15, PhaseTold DEF EndFiles
<1>16. CASE EndDirectories BY <1>16, PhaseTold DEF EndDirectories
<1>17. CASE EndReferences BY <1>17, PhaseTold DEF EndReferences
<1>18. CASE EndScopes BY <1>18, PhaseTold DEF EndScopes
<1>19. CASE Cancel BY <1>19, FailTold DEF Cancel
<1>20. CASE UNCHANGED vars BY <1>20, StutterTold
<1> QED
  BY <1>1, <1>2, <1>3, <1>4, <1>5, <1>6, <1>7, <1>8, <1>9, <1>10, <1>11, <1>12, <1>13,
     <1>14, <1>15, <1>16, <1>17, <1>18, <1>19, <1>20 DEF Load

-----------------------------------------------------------------------------
\* A file asked for by a name of its own lies among the paths, below no link.
LEMMA AskedPlace ==
  ASSUME ClaimInv, Quiet, NEW t \in ToSet(req.paths), NEW p, p = AbsoluteTarget(w, t),
         IsFile(w, Resolve(w, p))
  PROVE  /\ IsPath(p) /\ p # <<>> /\ p \in Paths /\ ~IsDirectory(w, p)
         /\ IsFile(w, p) \/ p \in DOMAIN w.link
<1>1. w \in Worlds /\ WorldQuiet /\ req \in Requests BY DEF Quiet, WorldQuiet
<1>2. IsPath(t) BY <1>1, RequestPaths
<1>3. IsPath(p) BY <1>1, <1>2, AbsoluteType
<1>4. p # <<>> BY <1>1, RootIsNoFile
<1>5. \A l \in DOMAIN w.link : ~Under(l, p) BY <1>1, RequestsAssumption
<1>6. CASE p \in DOMAIN w.link
  <2>1. p \in Paths BY <1>1, <1>6, LinkFacts
  <2>2. \A q \in Paths \cup DOMAIN w.link : ~Under(p, q) BY <1>1, <1>6, LinkFacts
  <2> QED BY <1>3, <1>4, <1>6, <2>1, <2>2 DEF IsDirectory
<1>7. CASE p \notin DOMAIN w.link
  <2>1. \A l \in DOMAIN w.link : ~IsPrefix(l, p) BY <1>5, <1>7 DEF Under, IsStrictPrefix
  <2>2. Follow(w, p) = p BY <1>1, <1>3, <2>1, FollowIs
  <2>3. IsFile(w, p) BY <2>2 DEF Resolve
  <2>4. p \in Paths BY <2>3 DEF IsFile
  <2>5. \A q \in Paths : ~Under(p, q) BY <2>4, PathsAssumption
  <2>6. \A q \in DOMAIN w.link : ~Under(p, q) BY <1>1, <2>4, LinkFacts
  <2> QED BY <1>3, <1>4, <2>3, <2>4, <2>5, <2>6 DEF IsDirectory
<1> QED BY <1>6, <1>7

\* A walk of the root passes everything on the way to what is not excluded.
LEMMA RootWalked ==
  ASSUME Quiet, Told, NEW p \in Paths, ~Barred(p)
  PROVE  IsPrefix(<<>>, p) /\ Under(<<>>, p) /\ Walked(w, prefixes, <<>>, p)
<1>1. w \in Worlds BY DEF Quiet, WorldQuiet
<1>2. IsPath(p) /\ p # <<>> BY PathsAssumption
<1>3. Len(p) \in Nat \ {0} BY <1>2, EmptyPath
<1>4. IsPrefix(<<>>, p) BY <1>2, <1>3, EmptyPath, PrefixPoint
<1>5. Under(<<>>, p) BY <1>2, <1>4 DEF Under, IsStrictPrefix
<1>6. Len(<<>>) = 0 BY EmptyPath
<1>7. ASSUME NEW i \in 1..(Len(p) - 1)
      PROVE  /\ p[i] # ".git" /\ ~ExcludedBy(prefixes, SubSeq(p, 1, i))
             /\ SubSeq(p, 1, i) \notin DOMAIN w.link
  <2>1. PICK q : q = SubSeq(p, 1, i) OBVIOUS
  <2>2. IsPath(q) /\ Len(q) = i /\ \A k \in 1..i : q[k] = p[k]
    BY <1>2, <1>3, <2>1, PartPath
  <2>3. p[i] # ".git" BY PathsAssumption
  <2>4. q \notin DOMAIN w.link
    <3>1. Under(q, p) BY <1>2, <1>3, <2>2, UnderPoint
    <3> QED BY <1>1, <3>1, LinkFacts
  <2>5. ~ExcludedBy(prefixes, q)
    <3> SUFFICES ASSUME NEW x \in prefixes, IsPrefix(x, q) PROVE FALSE BY DEF ExcludedBy
    <3>1. IsPath(x) BY DEF Told, NamesTold
    <3>2. Len(x) \in Nat /\ Len(x) <= i /\ \A k \in 1..Len(x) : x[k] = q[k]
      BY <2>2, <3>1, PathIs, PrefixPoint
    <3>3. IsPrefix(x, p) BY <1>2, <1>3, <2>2, <3>1, <3>2, PrefixPoint
    <3> QED BY <3>3 DEF Barred, Excluded, ExcludedBy
  <2> QED BY <2>1, <2>3, <2>4, <2>5
<1>8. Walked(w, prefixes, <<>>, p) BY <1>6, <1>7 DEF Walked
<1> QED BY <1>4, <1>5, <1>8

LEMMA ToldMeans == ClaimInv /\ (calm => Quiet) /\ (calm /\ req.stdin = <<>> => Told)
                   => DiscoverableIsScanned
<1> SUFFICES ASSUME ClaimInv, Quiet, Told, pc = "done", NEW t \in ToSet(req.paths),
                    NEW p, p = AbsoluteTarget(w, t), p \in project.selected,
                    IsFile(w, Resolve(w, p)), \A s \in Spellings(p) : s = p,
                    DirectorySource(p, TRUE) \/ w.narrow
             PROVE  p \in project.discoverable <=> p \in RootScan
  BY DEF DiscoverableIsScanned
<1>1. SourceTold(p) BY DEF Quiet, SourcesQuiet, Told, SourcesTold
<1>2. Inside(p) /\ Owned(w, p) \notin Refusals /\ IsFile(w, Owned(w, p))
  BY <1>1 DEF SourceTold
<1>3. /\ p \in Paths /\ ~IsDirectory(w, p)
      /\ IsFile(w, p) \/ p \in DOMAIN w.link
  BY AskedPlace
<1>4. p \in project.discoverable <=> WouldBe(p)
  BY <1>3 DEF Told, TargetsTold, Answered, Plain
<1>5. ~Barred(p) => (DirectoryAdmits(p, PlainKind(p), TRUE)
                     <=> DirectoryAdmits(p, ScannedKind(p), TRUE))
  BY DEF PlainKind, ScannedKind, ScannedTemplate
<1>6. ~Barred(p) =>
        (p \in Candidates(w, listing, prefixes, <<>>, TRUE) <=> (w.git => p \in listing))
  <2> SUFFICES ASSUME ~Barred(p)
               PROVE  p \in Candidates(w, listing, prefixes, <<>>, TRUE)
                      <=> (w.git => p \in listing)
    OBVIOUS
  <2>1. IsPrefix(<<>>, p) /\ Under(<<>>, p) /\ Walked(w, prefixes, <<>>, p)
    BY <1>3, RootWalked
  <2> QED BY <1>2, <1>3, <2>1 DEF Candidates
<1>7. p \in RootScan <=>
        /\ p \in Candidates(w, listing, prefixes, <<>>, TRUE) /\ ~Barred(p)
        /\ DirectoryAdmits(p, ScannedKind(p), TRUE)
  BY <1>2 DEF RootScan, Barred
<1> QED BY <1>4, <1>5, <1>6, <1>7 DEF WouldBe

-----------------------------------------------------------------------------
AnswerInv == LoadInv /\ (calm /\ req.stdin = <<>> => Told)

LEMMA InitAnswers == Init => AnswerInv
BY InitClaims, InitQuiet, InitTold DEF AnswerInv, LoadInv

\* What was asked for stays.
LEMMA RequestStays == Load \/ UNCHANGED vars => req' = req
BY DEF vars, Load, Configure, ListSources, IdentifyBuffer, RememberSpelling,
       EndSpellings, TakeJob, AdmitSpelling, AdmitTarget, OpenFile, OpenContextFile, OpenContextDirectory,
       ScanDirectory, Read, ReadResolve, ReadOpen, ReadBytes, ReadCheck, ReadName, ReadBuffer,
       SetSlot, Publish, Skip, Fail, Phase, EndTargets, EndFiles, EndDirectories,
       EndReferences, EndScopes, Cancel, world, policy, naming, work

LEMMA StepAnswers == AnswerInv /\ [Next]_vars => AnswerInv'
<1> SUFFICES ASSUME AnswerInv, [Next]_vars PROVE AnswerInv' OBVIOUS
<1>1. LoadInv' BY StepQuiet DEF AnswerInv
<1>2. CASE Others BY <1>1, <1>2, OthersDisturb DEF AnswerInv
<1>3. CASE Load \/ UNCHANGED vars
  <2>1. calm' = calm /\ req' = req BY <1>3, CalmStays, RequestStays
  <2>2. calm /\ req.stdin = <<>> => Told' BY <1>3, LoadTold DEF AnswerInv, LoadInv
  <2> QED BY <1>1, <2>1, <2>2 DEF AnswerInv
<1> QED BY <1>2, <1>3 DEF Next

LEMMA AnswersMean == AnswerInv => ContextIsComplete /\ DiscoverableIsScanned
BY QuietMeans, ToldMeans DEF AnswerInv, LoadInv

\* A load nobody disturbed holds, when it is done, every eligible name below every
\* directory that the rules of a selected source read, and says of a named file
\* what a scan of the root would do, whatever the worktree, the request and the
\* number of readers (contextDirectories, directory, add, directoryWouldSelect).
THEOREM LoadStaysComplete == MCSpec => []LoadIsComplete
<1> DEFINE Inv == part = "load" => AnswerInv
<1>1. MCInit => Inv BY InitAnswers DEF MCInit
<1>2. Inv /\ [MCNext]_mcVars => Inv'
  <2> SUFFICES ASSUME Inv, [MCNext]_mcVars, part' = "load" PROVE AnswerInv'
    OBVIOUS
  <2>1. part = "load" /\ [Next]_vars
    BY DEF MCNext, mcVars, loadVars, vars, world, policy, naming, work
  <2> QED BY <2>1, StepAnswers
<1>3. Inv => LoadIsComplete BY AnswersMean DEF LoadIsComplete
<1> QED BY <1>1, <1>2, <1>3, PTL DEF MCSpec

-----------------------------------------------------------------------------
(***************************************************************************)
(* What changed since a commit, in worktrees without links.                *)
(***************************************************************************)

WorldFields == {"file", "link", "bytes", "config", "git", "ignored", "nested",
                "tracked", "unavailable", "narrow"}

\* No name lies below another, and none is a link.  A commit holds what it tracks.  Git
\* ignores no marker of the project, which a load looks at without Git.
Leaves == \A p \in ChangedPaths :
            IsPath(p) /\ p # <<>> /\ \A q \in ChangedPaths : ~Since!Under(p, q)
MayIgnore(rules) == \A x \in rules : IsPath(x) /\ \A m \in Since!Markers : ~IsPrefix(x, m)
MayConfigure(c) == \A x \in Since!ExcludePaths([config |-> c]) : IsPath(x)
PlainTrees ==
  /\ Leaves /\ ChangedTargets = {}
  /\ \A rules \in ChangedRules : MayIgnore(rules)
  /\ \A c \in Configs : MayConfigure(c)
  /\ \A v \in Commits : /\ WorldFields \subseteq DOMAIN v /\ DOMAIN v.link = {}
                        /\ v.tracked = {p \in ChangedPaths : v.file[p] # 0}
                        /\ MayIgnore(v.ignored) /\ MayConfigure(v.config)

\* A worktree without links, seen by Git.
Linkless(v) ==
  /\ DOMAIN v.link = {} /\ v.git /\ MayIgnore(v.ignored)
  /\ \A x \in Since!ExcludePaths(v) : IsPath(x)

\* Paths of the one and of the other part of the module are made in the same way.
LEMMA SamePrefix ==
  ASSUME NEW s, NEW t
  PROVE  (Since!IsPrefix(s, t) <=> IsPrefix(s, t)) /\ (Since!Under(s, t) <=> Under(s, t))
BY DEF Since!IsPrefix, IsPrefix, Since!Under, Under, Since!IsStrictPrefix, IsStrictPrefix

\* Without links every name leads to itself.
LEMMA PlainResolves ==
  ASSUME NEW v, DOMAIN v.link = {}, NEW p PROVE Since!Resolve(v, p) = p
BY DEF Since!Resolve, Since!Follow, Since!FollowFirst

\* So does every directory.
LEMMA PlainDirectories ==
  ASSUME NEW v, DOMAIN v.link = {}, NEW d, IsPath(d)
  PROVE  Since!CanonicalDirectory(v, d) = d
<1> DEFINE K == {i \in 0..Len(d) : Since!Exists(v, SubSeq(d, 1, i))}
<1>0. Len(d) \in Nat
  BY PathIs
<1>1. 0 \in K
  <2>1. SubSeq(d, 1, 0) = <<>>
    BY SubSeqEmpty
  <2>2. Since!Exists(v, SubSeq(d, 1, 0))
    BY <2>1, PlainResolves DEF Since!Exists, Since!IsThere, Since!IsDirectory
  <2> QED BY <1>0, <2>2
<1>2. PICK i : i = Since!Deepest(K)
  OBVIOUS
<1>3. i \in 0..Len(d)
  <2>1. K \in SUBSET (0..Len(d)) /\ K # {}
    BY <1>1
  <2> HIDE DEF K
  <2>2. i = Deepest(K)
    BY <1>2 DEF Since!Deepest, Deepest
  <2>3. i \in K
    BY <1>0, <2>1, <2>2, DeepestIs
  <2> QED BY <2>1, <2>3
<1>4. Since!CanonicalDirectory(v, d) = SubSeq(d, 1, i) \o SubSeq(d, i + 1, Len(d))
  <2>1. Since!CanonicalDirectory(v, d) = Since!DirectoryFrom(v, d, i)
    BY <1>2 DEF Since!CanonicalDirectory
  <2>2. Since!Resolve(v, SubSeq(d, 1, i)) = SubSeq(d, 1, i)
    BY PlainResolves
  <2> QED BY <2>1, <2>2 DEF Since!DirectoryFrom
<1>5. PICK m, n : m = i + 1 /\ n = Len(d)
  OBVIOUS
<1>6. PICK a, b : a = SubSeq(d, 1, i) /\ b = SubSeq(d, m, n)
  OBVIOUS
<1>7. IsPath(a) /\ Len(a) = i /\ \A j \in 1..i : a[j] = d[j]
  BY <1>0, <1>3, <1>6, PartPath
<1>8. IsPath(b) /\ Len(b) = n - i /\ \A j \in 1..(n - i) : b[j] = d[i + j]
  <2>1. m \in Nat /\ n \in Nat /\ 0 < m
    BY <1>0, <1>3, <1>5
  <2>2. /\ IsPath(b) /\ Len(b) = IF m <= n THEN n - m + 1 ELSE 0
        /\ \A j \in 1..(n - m + 1) : b[j] = d[m + j - 1]
    BY <1>5, <1>6, <2>1, PartPath
  <2> QED BY <1>0, <1>3, <1>5, <2>2
<1>9. /\ IsPath(a \o b) /\ Len(a \o b) = Len(a) + Len(b)
      /\ \A j \in 1..(Len(a) + Len(b)) :
           (a \o b)[j] = IF j <= Len(a) THEN a[j] ELSE b[j - Len(a)]
  BY <1>7, <1>8, ConcatPath
<1>10. ASSUME NEW j \in 1..Len(d) PROVE (a \o b)[j] = d[j]
  <2>1. CASE j <= i
    BY <1>0, <1>3, <1>5, <1>7, <1>8, <1>9, <2>1
  <2>2. CASE ~(j <= i)
    <3>1. j - i \in 1..(n - i) /\ i + (j - i) = j
      BY <1>0, <1>3, <1>5, <2>2
    <3>2. b[j - i] = d[j]
      BY <1>8, <3>1
    <3> QED BY <1>0, <1>3, <1>5, <1>7, <1>8, <1>9, <2>2, <3>2
  <2> QED BY <2>1, <2>2
<1>11. Len(a \o b) = Len(d)
  BY <1>0, <1>3, <1>5, <1>7, <1>8, <1>9
<1>12. a \o b = d
  BY <1>9, <1>10, <1>11, PathsEqual
<1> QED BY <1>4, <1>5, <1>6, <1>12

\* What a name leads to, and whether it is excluded.
LEMMA PlainOwner ==
  ASSUME NEW v, DOMAIN v.link = {}, NEW p, IsPath(p), p # <<>>
  PROVE  Since!Owned(v, p) = p \/ Since!Owned(v, p) \in Since!Refusals
BY PlainResolves DEF Since!Owned, Since!OwnerAt, Since!Refusals

\* A file is its own owner, and a name without one has no owner.
LEMMA PlainFile ==
  ASSUME Leaves, NEW v, DOMAIN v.link = {}, NEW p \in ChangedPaths
  PROVE  /\ IsPath(p) /\ p # <<>>
         /\ Since!IsThere(v, p) <=> v.file[p] # 0
         /\ Since!IsFile(v, p) <=> v.file[p] # 0
         /\ v.file[p] # 0 /\ Since!Inside(p) => Since!Owned(v, p) = p
         /\ v.file[p] = 0 => Since!Owned(v, p) \in Since!Refusals
<1>1. IsPath(p) /\ p # <<>> /\ \A q \in ChangedPaths : ~Since!Under(p, q)
  BY DEF Leaves
<1>2. ~Since!IsDirectory(v, p)
  BY <1>1 DEF Since!IsDirectory
<1> QED BY <1>1, <1>2, PlainResolves
          DEF Since!IsThere, Since!IsFile, Since!Owned, Since!OwnerAt, Since!Refusals

\* exclusionReasons asks the configuration and Git about the name alone.
LEMMA PlainExcluded ==
  ASSUME NEW v, DOMAIN v.link = {}, NEW xs, NEW p, IsPath(p), p # <<>>
  PROVE  Since!Excluded(v, xs, Since!Nothing, p) <=>
           Since!ExcludedBy(xs, p) \/ Since!IgnoredByGit(v, p)
<1>1. PICK q : q = Since!Owned(v, p)
  OBVIOUS
<1>2. q = p \/ q \in Since!Refusals
  BY <1>1, PlainOwner
<1>3. Since!Dir(p) = Dir(p)
  BY DEF Since!Dir, Dir
<1>4. Since!CanonicalDirectory(v, Since!Dir(p)) = Since!Dir(p)
  BY <1>3, DirPath, PlainDirectories
<1>5. Since!NamesForGit(v, p) = {p}
  BY <1>1, <1>2, <1>4 DEF Since!NamesForGit, Since!NamesUnder
<1>6. Since!OwnerExcluded(xs, q) => Since!ExcludedBy(xs, p)
  BY <1>2 DEF Since!OwnerExcluded
<1>7. DOMAIN Since!Nothing = {}
  BY DEF Since!Nothing
<1> HIDE DEF Since!Nothing
<1> QED BY <1>1, <1>5, <1>6, <1>7 DEF Since!Excluded

\* What a scan of the root takes from a worktree without links.
ScanTakes(v, p) ==
  /\ p \in ChangedPaths \ Since!Refusals /\ Since!Inside(p) /\ v.file[p] # 0
  /\ ~Since!ExcludedBy(Since!ExcludePaths(v), p) /\ ~Since!IgnoredByGit(v, p)
  /\ Since!DirectorySource(p, TRUE) \/ v.narrow
  /\ Since!DirectoryAdmits(p, Since!ScannedKind(v, p, p), TRUE)

\* The primaries of a load are these.
LEMMA PlainPrimaries ==
  ASSUME Leaves, NEW v, DOMAIN v.link = {}, v.git, NEW p
  PROVE  p \in Since!Primaries(v) <=> ScanTakes(v, p)
<1> DEFINE offered == {q \in Since!GitListing(v) : Since!IsPrefix(<<>>, q)}
<1>1. p \in offered <=> p \in Since!GitListing(v) /\ Since!IsPrefix(<<>>, p)
  OBVIOUS
<1>2. Since!Candidates(v, Since!GitListing(v), Since!ExcludePaths(v), <<>>, TRUE)
        = {q \in offered : Since!DirectorySource(q, TRUE) \/ v.narrow}
  BY DEF Since!Candidates
<1>3. p \in Since!OfferedNames(v) <=>
        /\ p \in offered /\ (Since!DirectorySource(p, TRUE) \/ v.narrow)
        /\ ~Since!Excluded(v, Since!ExcludePaths(v), Since!Nothing, p)
  BY <1>2 DEF Since!OfferedNames, Since!OfferedUnder, Since!NotExcluded
<1>4. p \in Since!Primaries(v) <=>
        p \in Since!OfferedNames(v) /\ Since!OwnerAdmitted(v, p, Since!Owned(v, p))
  BY DEF Since!Primaries
<1> HIDE DEF offered
<1>5. CASE p \notin ChangedPaths
  BY <1>1, <1>3, <1>4, <1>5 DEF ScanTakes, Since!GitListing
<1>6. CASE p \in ChangedPaths
  <2>1. /\ IsPath(p) /\ p # <<>>
        /\ Since!IsFile(v, p) <=> v.file[p] # 0
        /\ v.file[p] # 0 /\ Since!Inside(p) => Since!Owned(v, p) = p
        /\ v.file[p] = 0 => Since!Owned(v, p) \in Since!Refusals
    BY <1>6, PlainFile
  <2>2. Since!IsPrefix(<<>>, p)
    BY <2>1, EmptyPath, PathIs, PrefixPoint, SamePrefix
  <2>3. Since!Excluded(v, Since!ExcludePaths(v), Since!Nothing, p) <=>
          Since!ExcludedBy(Since!ExcludePaths(v), p) \/ Since!IgnoredByGit(v, p)
    BY <2>1, PlainExcluded
  <2>4. p \in Since!GitListing(v) <=>
          Since!Inside(p) /\ (p \in v.tracked \/ (v.file[p] # 0 /\ ~Since!IgnoredByGit(v, p)))
    BY <1>6, <2>1 DEF Since!GitListing
  <2>5. Since!OwnerAdmitted(v, p, Since!Owned(v, p)) /\ Since!Inside(p) <=>
          /\ p \notin Since!Refusals /\ Since!Inside(p) /\ v.file[p] # 0
          /\ Since!DirectoryAdmits(p, Since!ScannedKind(v, p, p), TRUE)
    BY <2>1 DEF Since!OwnerAdmitted
  <2> QED BY <1>1, <1>3, <1>4, <1>6, <2>2, <2>3, <2>4, <2>5 DEF ScanTakes
<1> QED BY <1>5, <1>6

\* A source without links is what its name and its bytes say.
PlainSource(v, p) ==
  [path |-> p, owner |-> p, data |-> Since!Data(v, p), excluded |-> FALSE,
   kind |-> Since!ScannedKind(v, p, p), role |-> Since!Role(p),
   rolePath |-> Since!RolePath(p),
   spellings |-> IF v.narrow \/ Since!IsTemplate(p) THEN {p} ELSE {}]

\* And this is how they are loaded.
LEMMA PlainGraph ==
  ASSUME Leaves, NEW v, DOMAIN v.link = {}, v.git
  PROVE  /\ DOMAIN Since!Graph(v) = Since!Primaries(v)
         /\ \A p \in Since!Primaries(v) : Since!Graph(v)[p] = PlainSource(v, p)
<1>1. DOMAIN Since!Graph(v) = Since!Primaries(v)
  BY DEF Since!Graph
<1>2. ASSUME NEW p \in Since!Primaries(v) PROVE Since!Graph(v)[p] = PlainSource(v, p)
  <2>1. Since!Graph(v)[p] = Since!SourceOwned(v, p, Since!Owned(v, p))
    BY DEF Since!Graph, Since!ScannedSource
  <2>2. ScanTakes(v, p)
    BY PlainPrimaries
  <2>3. Since!Owned(v, p) = p
    BY <2>2, PlainFile DEF ScanTakes
  <2> QED BY <2>1, <2>3 DEF Since!SourceOwned, Since!SourceOf, Since!SourceNamed, PlainSource
<1> QED BY <1>1, <1>2

\* Two worktrees under the same rules.
SameRules ==
  /\ Linkless(w) /\ Linkless(base)
  /\ w.ignored = base.ignored /\ w.config = base.config
  /\ w.narrow = base.narrow /\ w.unavailable = base.unavailable

\* Git's reports, and the flags.
Reported ==
  /\ base.tracked = {p \in ChangedPaths : base.file[p] # 0}
  /\ changed = Since!GitDiff \cup Since!GitOthers /\ uncertain = flagged

\* A name that Git can see and does not report is what it was.
LEMMA SameName ==
  ASSUME SameRules, Reported, NEW q \in ChangedPaths, q \notin changed \cup uncertain,
         Since!Inside(q), ~Since!IgnoredByGit(w, q)
  PROVE  /\ w.file[q] # 0 <=> base.file[q] # 0
         /\ w.file[q] # 0 => Since!Data(w, q) = Since!Data(base, q)
<1>1. /\ Since!Entry(w, q) = IF w.file[q] # 0 THEN <<"file", Since!Data(w, q)>> ELSE <<"none">>
      /\ Since!Entry(base, q) =
           IF base.file[q] # 0 THEN <<"file", Since!Data(base, q)>> ELSE <<"none">>
  BY DEF Since!Entry, SameRules, Linkless
<1>2. q \notin Since!GitDiff /\ q \notin Since!GitOthers /\ q \notin flagged
  BY DEF Reported
<1>3. CASE q \in w.tracked /\ q \in base.tracked
  <2>1. Since!Entry(base, q) = Since!Entry(w, q)
    BY <1>2, <1>3 DEF Since!GitDiff
  <2> QED BY <1>1, <2>1
<1>4. CASE q \in w.tracked /\ q \notin base.tracked
  <2>1. Since!Entry(w, q) = <<"none">>
    BY <1>2, <1>4 DEF Since!GitDiff
  <2>2. base.file[q] = 0
    BY <1>4 DEF Reported
  <2> QED BY <1>1, <2>1, <2>2
<1>5. CASE q \notin w.tracked
  <2>1. Since!Entry(w, q) = <<"none">>
    BY <1>2, <1>5 DEF Since!GitOthers
  <2>2. q \in base.tracked => Since!Entry(base, q) = <<"none">>
    BY <1>2, <1>5 DEF Since!GitDiff
  <2>3. q \notin base.tracked => base.file[q] = 0
    BY DEF Reported
  <2> QED BY <1>1, <2>1, <2>2, <2>3
<1> QED BY <1>3, <1>4, <1>5

\* So is a source of the two loads.
LEMMA SameScanned ==
  ASSUME SameRules, Reported, NEW q, q \notin changed \cup uncertain
  PROVE  /\ ScanTakes(w, q) <=> ScanTakes(base, q)
         /\ ScanTakes(w, q) => PlainSource(w, q) = PlainSource(base, q)
<1>1. Since!ExcludePaths(w) = Since!ExcludePaths(base)
  BY DEF Since!ExcludePaths, SameRules
<1>2. Since!IgnoredByGit(w, q) <=> Since!IgnoredByGit(base, q)
  BY DEF Since!IgnoredByGit, SameRules, Linkless
<1>3. w.narrow = base.narrow
  BY DEF SameRules
<1>4. CASE q \notin ChangedPaths \/ ~Since!Inside(q) \/ Since!IgnoredByGit(w, q)
  BY <1>2, <1>4 DEF ScanTakes
<1>5. CASE q \in ChangedPaths /\ Since!Inside(q) /\ ~Since!IgnoredByGit(w, q)
  <2>1. /\ w.file[q] # 0 <=> base.file[q] # 0
        /\ w.file[q] # 0 => Since!Data(w, q) = Since!Data(base, q)
    BY <1>5, SameName
  <2>2. w.file[q] # 0 => Since!ScannedKind(w, q, q) = Since!ScannedKind(base, q, q)
    BY <1>3, <2>1 DEF Since!ScannedKind
  <2> QED BY <1>1, <1>2, <1>3, <2>1, <2>2 DEF ScanTakes, PlainSource
<1> QED BY <1>4, <1>5

\* And the name of the project.
LEMMA SameMarker ==
  ASSUME SameRules, Reported, NEW m \in Since!Markers, m \notin changed \cup uncertain
  PROVE  Since!MarkerState(w, m) = Since!MarkerState(base, m)
<1>1. ~Since!IgnoredByGit(w, m)
  BY SamePrefix DEF Since!IgnoredByGit, SameRules, Linkless, MayIgnore
<1>2. Since!Inside(m)
  <2>1. m[1] # ".."
    BY DEF Since!Markers
  <2> QED BY <2>1 DEF Since!Inside
<1>3. Since!IsFile(w, m) <=> Since!IsFile(base, m)
  BY <1>1, <1>2, SameName DEF Since!IsFile
<1>4. Since!IsDirectory(w, m) <=> Since!IsDirectory(base, m)
  BY DEF Since!IsDirectory, SameRules, Linkless
<1>5. Since!Resolve(w, m) = m /\ Since!Resolve(base, m) = m
  BY PlainResolves DEF SameRules, Linkless
<1> QED BY <1>3, <1>4, <1>5
          DEF Since!MarkerState, Since!Exists, Since!IsThere, SameRules

\* The first marker that is there names the project.
LEMMA SameProject ==
  ASSUME SameRules, Reported, Since!Markers \cap (changed \cup uncertain) = {}
  PROVE  Since!ProjectName(w) = Since!ProjectName(base)
<1> DEFINE Found(v) == {i \in 1..Len(Since!MarkerOrder) :
             Since!MarkerState(v, Since!MarkerOrder[i]) \in {"regular", "unavailable"}}
<1>1. \A i \in 1..Len(Since!MarkerOrder) : Since!MarkerOrder[i] \in Since!Markers
  BY DEF Since!MarkerOrder, Since!Markers
<1>2. \A m \in Since!Markers : Since!MarkerState(w, m) = Since!MarkerState(base, m)
  BY SameMarker
<1>3. Found(w) = Found(base)
  BY <1>1, <1>2
<1>4. \A v : Since!FirstMarker(v) = IF Found(v) # {} THEN Since!Min(Found(v)) ELSE 0
  BY DEF Since!FirstMarker, Since!SelectInSeq
<1> HIDE DEF Found
<1> QED BY <1>3, <1>4 DEF Since!ProjectName

\* Longer and shorter paths.
LEMMA AppendIs ==
  ASSUME NEW p, IsPath(p), NEW x
  PROVE  /\ IsPath(Append(p, x)) /\ Len(Append(p, x)) = Len(p) + 1
         /\ (\A i \in 1..Len(p) : Append(p, x)[i] = p[i]) /\ Append(p, x)[Len(p) + 1] = x
<1> DEFINE S == {p[i] : i \in 1..Len(p)}
<1>1. p \in Seq(S) /\ S \subseteq S \cup {x}
  BY PathIs
<1> HIDE DEF S
<1>2. p \in Seq(S \cup {x}) /\ x \in S \cup {x}
  BY <1>1, SeqMonotonic
<1>3. PICK a : a = Append(p, x)
  OBVIOUS
<1>4. a \in Seq(S \cup {x}) /\ Len(a) = Len(p) + 1 /\ a[Len(p) + 1] = x
      /\ \A i \in 1..Len(p) : a[i] = p[i]
  BY <1>2, <1>3, AppendProperties
<1> QED BY <1>3, <1>4, SeqIsPath

\* A path begins with its first segment.
LEMMA OneBegins ==
  ASSUME NEW q, IsPath(q), q # <<>> PROVE IsPrefix(<<q[1]>>, q)
<1>1. PICK t : t = <<q[1]>>
  OBVIOUS
<1>2. IsPath(t) /\ Len(t) = 1 /\ t[1] = q[1]
  BY <1>1, OnePath
<1>3. \A i \in 1..1 : t[i] = q[i]
  BY <1>2
<1> QED BY <1>1, <1>2, <1>3, PrefixPoint, EmptyPath

\* What begins the beginning of a path begins the path.
LEMMA PrefixOn ==
  ASSUME NEW x, NEW d, NEW q, IsPath(x), IsPath(d), IsPath(q), IsPrefix(x, d), IsPrefix(d, q)
  PROVE  IsPrefix(x, q)
<1>1. Len(x) \in Nat /\ Len(d) \in Nat /\ Len(q) \in Nat
  BY PathIs
<1> QED BY <1>1, PrefixPoint

\* Where the members of a role lie.
LEMMA RolePlace ==
  ASSUME NEW q, IsPath(q), Since!InRole(q)
  PROVE  \E n \in {2, 3} :
           /\ n = Since!RoleStart(q) + 2 /\ n + 2 <= Len(q)
           /\ Since!RolePath(q) = SubSeq(q, 1, n) /\ IsPath(Since!RolePath(q))
           /\ Len(Since!RolePath(q)) = n
           /\ Since!RolePath(q) \in {<<"roles", Since!Role(q)>>, <<"resources", "roles", Since!Role(q)>>}
           /\ IsPrefix(Append(Since!RolePath(q), q[n + 1]), q)
<1> DEFINE n == Since!RoleStart(q) + 2
<1>1. Len(q) \in Nat /\ n \in {2, 3} /\ n \in Nat /\ n + 2 <= Len(q) /\ q[n - 1] = "roles"
  BY PathIs DEF Since!InRole, Since!RoleStart
<1>2. PICK r, x : r = SubSeq(q, 1, n) /\ x = q[n + 1]
  OBVIOUS
<1>3. Since!RolePath(q) = r /\ Since!Role(q) = q[n]
  BY <1>2 DEF Since!RolePath, Since!Role
<1>4. n = 3 => q[1] = "resources"
  BY DEF Since!RoleStart
<1> HIDE DEF n
<1>5. IsPath(r) /\ Len(r) = n /\ \A i \in 1..n : r[i] = q[i]
  BY <1>1, <1>2, PartPath
<1>6. r \in {<<"roles", q[n]>>, <<"resources", "roles", q[n]>>}
  <2>1. CASE n = 2
    <3>1. PICK t : t = <<"roles", q[n]>>
      OBVIOUS
    <3>2. IsPath(t) /\ Len(t) = 2 /\ t[1] = "roles" /\ t[2] = q[n]
      BY <3>1, SmallPaths
    <3>3. r[1] = "roles" /\ r[2] = q[n]
      BY <1>1, <1>5, <2>1
    <3>4. \A i \in 1..2 : r[i] = t[i]
      BY <3>2, <3>3
    <3> QED BY <1>5, <2>1, <3>1, <3>2, <3>4, PathsEqual
  <2>2. CASE n = 3
    <3>1. PICK t : t = <<"resources", "roles", q[n]>>
      OBVIOUS
    <3>2. IsPath(t) /\ Len(t) = 3 /\ t[1] = "resources" /\ t[2] = "roles" /\ t[3] = q[n]
      BY <3>1, SmallPaths
    <3>3. r[1] = "resources" /\ r[2] = "roles" /\ r[3] = q[n]
      BY <1>1, <1>4, <1>5, <2>2
    <3>4. \A i \in 1..3 : r[i] = t[i]
      BY <3>2, <3>3
    <3> QED BY <1>5, <2>2, <3>1, <3>2, <3>4, PathsEqual
  <2> QED BY <1>1, <2>1, <2>2
<1>7. IsPrefix(Append(r, x), q)
  <2>1. PICK a : a = Append(r, x)
    OBVIOUS
  <2>2. IsPath(a) /\ Len(a) = n + 1 /\ (\A i \in 1..n : a[i] = q[i]) /\ a[n + 1] = x
    BY <1>5, <2>1, AppendIs
  <2>3. \A i \in 1..(n + 1) : a[i] = q[i]
    BY <1>1, <1>2, <2>2
  <2>4. Len(a) <= Len(q)
    BY <1>1, <2>2
  <2>5. \A i \in 1..Len(a) : a[i] = q[i]
    BY <2>2, <2>3
  <2> QED BY <2>1, <2>2, <2>4, <2>5, PrefixPoint
<1>8. n = Since!RoleStart(q) + 2
  BY DEF n
<1> QED BY <1>1, <1>2, <1>3, <1>5, <1>6, <1>7, <1>8

\* What is read in a role, besides its templates, lies in one of its areas.
LEMMA RoleMember ==
  ASSUME NEW v, ~v.narrow, NEW q, IsPath(q), q # <<>>, ScanTakes(v, q),
         PlainSource(v, q).kind # "template", PlainSource(v, q).rolePath # <<>>
  PROVE  LET s == PlainSource(v, q) IN
         /\ s.kind \in Since!RoleKinds /\ IsPath(s.rolePath) /\ Len(s.rolePath) \in {2, 3}
         /\ IsPrefix(Append(s.rolePath, s.kind), q)
         /\ s.rolePath \in {<<"roles", s.role>>, <<"resources", "roles", s.role>>}
<1>1. PICK s : s = PlainSource(v, q)
  OBVIOUS
<1>2. /\ s.kind = Since!ScannedKind(v, q, q) /\ s.rolePath = Since!RolePath(q)
      /\ s.role = Since!Role(q)
  BY <1>1 DEF PlainSource
<1>3. Since!InRole(q)
  BY <1>1, <1>2 DEF Since!RolePath
<1>4. PICK n \in {2, 3} :
           /\ n = Since!RoleStart(q) + 2 /\ n + 2 <= Len(q)
           /\ IsPath(Since!RolePath(q)) /\ Len(Since!RolePath(q)) = n
           /\ Since!RolePath(q) \in {<<"roles", Since!Role(q)>>, <<"resources", "roles", Since!Role(q)>>}
           /\ IsPrefix(Append(Since!RolePath(q), q[n + 1]), q)
  BY <1>3, RolePlace
<1>5. ~Since!IsTemplate(q) /\ s.kind = Since!ParsedKind(q, Since!Data(v, q))
  BY <1>1, <1>2 DEF Since!ScannedKind
<1>6. s.kind = Since!Classified(q) /\ Since!Classified(q) # "generic"
  <2>1. Len(q) # 1
    BY <1>4, PathIs
  <2>2. s.kind = Since!Classified(q)
    BY <1>5, <2>1 DEF Since!ParsedKind
  <2>3. Since!Classified(q) = "generic" => s.kind = "playbook"
    BY <1>1, <1>2 DEF ScanTakes, Since!DirectoryAdmits
  <2> QED BY <2>2, <2>3
<1>7. Since!Classified(q) = q[n + 1] /\ q[n + 1] \in Since!RoleKinds
  <2>1. Since!Last(q) \notin ChangedJinjaNames
    <3> SUFFICES ASSUME Since!Last(q) \in ChangedJinjaNames PROVE FALSE
      OBVIOUS
    <3>1. Since!TemplateLocation(q)
      BY DEF Since!TemplateLocation
    <3>2. q[1] = "roles" \/ (q[1] = "resources" /\ q[2] = "roles")
      BY <1>3 DEF Since!InRole, Since!RoleStart
    <3>3. Len(q) # 1
      BY <1>4, PathIs
    <3>4. q \notin Since!InventoryFiles \cup Since!Markers \cup Since!VariableFiles
      <4>1. \A y \in Since!InventoryFiles \cup Since!Markers \cup Since!VariableFiles : Len(y) = 1
        BY DEF Since!InventoryFiles, Since!Markers, Since!VariableFiles
      <4> QED BY <3>3, <4>1
    <3>5. Since!Classified(q) = "template"
      BY <3>1, <3>2, <3>4 DEF Since!Classified
    <3> QED BY <1>5, <3>5 DEF Since!IsTemplate
  <2>2. PICK area : area = q[n + 1]
    OBVIOUS
  <2>3. Since!Classified(q) = IF area = "templates" THEN "template"
                              ELSE IF area \in Since!RoleKinds THEN area ELSE "generic"
    <3>1. Since!RoleStart(q) + 3 = n + 1
      BY <1>4 DEF Since!RoleStart
    <3> QED BY <1>3, <2>1, <2>2, <3>1 DEF Since!Classified
  <2> QED BY <1>5, <1>6, <2>2, <2>3 DEF Since!IsTemplate
<1> QED BY <1>1, <1>2, <1>4, <1>6, <1>7

\* Where variables are declared.
LEMMA VariableMember ==
  ASSUME NEW v, ~v.narrow, NEW q, IsPath(q), q # <<>>, ScanTakes(v, q),
         Since!DeclaresVariables(q, PlainSource(v, q).kind)
  PROVE  /\ Since!VariableDeclarationPath(q)
         /\ \/ q \in Since!InventoryFiles \cup Since!VariableFiles
            \/ \E d \in Since!VariableDirectories : IsPath(d) /\ d # <<>> /\ IsPrefix(d, q)
<1>1. PICK kind : kind = PlainSource(v, q).kind
  OBVIOUS
<1>2. kind = Since!ScannedKind(v, q, q) /\ kind \in {"defaults", "vars", "inventory"}
  BY <1>1 DEF PlainSource, Since!DeclaresVariables
<1>3. kind = Since!Classified(q)
  BY <1>2 DEF Since!ScannedKind, Since!ParsedKind
<1>4. Since!Supported(q)
  BY <1>2 DEF ScanTakes, Since!DirectoryAdmits, Since!DirectorySource
<1>5. Since!VariableDeclarationPath(q)
  BY <1>1, <1>3, <1>4 DEF Since!VariableDeclarationPath
<1>6. Len(q) \in Nat \ {0}
  BY EmptyPath
<1>7. CASE Since!InRole(q)
  <2>1. q[1] = "roles" \/ (q[1] = "resources" /\ q[2] = "roles" /\ Len(q) >= 2)
    BY <1>6, <1>7 DEF Since!InRole, Since!RoleStart
  <2>2. CASE q[1] = "roles"
    <3>1. IsPrefix(<<"roles">>, q)
      BY <1>6, <2>2, OneBegins
    <3> QED BY <1>5, <3>1, OnePath, EmptyPath DEF Since!VariableDirectories
  <2>3. CASE q[1] = "resources" /\ q[2] = "roles" /\ Len(q) >= 2
    <3>1. PICK t : t = <<"resources", "roles">>
      OBVIOUS
    <3>2. IsPath(t) /\ Len(t) = 2 /\ t[1] = "resources" /\ t[2] = "roles"
      BY <3>1, SmallPaths
    <3>3. \A i \in 1..2 : t[i] = q[i]
      BY <2>3, <3>2
    <3>4. IsPrefix(t, q)
      BY <2>3, <3>2, <3>3, PrefixPoint
    <3>5. t # <<>>
      BY <3>2, EmptyPath
    <3> QED BY <1>5, <3>1, <3>2, <3>4, <3>5 DEF Since!VariableDirectories
  <2> QED BY <2>1, <2>2, <2>3
<1>8. CASE ~Since!InRole(q)
  <2>1. \/ q \in Since!InventoryFiles \cup Since!VariableFiles
        \/ q[1] \in {"group_vars", "host_vars", "inventory", "inventories"}
    BY <1>2, <1>3, <1>8 DEF Since!Classified
  <2>2. ASSUME q[1] \in {"group_vars", "host_vars", "inventory", "inventories"}
        PROVE  <<q[1]>> \in Since!VariableDirectories /\ IsPrefix(<<q[1]>>, q)
    BY <1>6, <2>2, OneBegins DEF Since!VariableDirectories
  <2> QED BY <1>5, <2>1, <2>2, OnePath, EmptyPath
<1> QED BY <1>7, <1>8

\* What a source that is not selected tells of the names that changed.
Ruled(p) ==
  /\ p \in DOMAIN graph /\ p \notin DOMAIN selection
  /\ p \in DOMAIN selection <=>
       Since!ReasonKinds(Since!Observations(w, graph, graph[p])) # {}

\* No changed name is a reason to select it (dependencyReason).
LEMMA NoReason ==
  ASSUME NEW p, Ruled(p), NEW n \in changed \cup uncertain
  PROVE  Since!DependencyReason(Since!Observations(w, graph, graph[p]), n) = ""
<1>1. PICK record : record = Since!Observations(w, graph, graph[p])
  OBVIOUS
<1>2. Since!ReasonKinds(record) = {}
  BY <1>1 DEF Ruled
<1>3. n \in Since!CandidateNames /\ n \in Since!SpellingsOf(n)
  BY DEF Since!CandidateNames, Since!SpellingsOf
<1>4. PICK x : x = <<n, n>>
  OBVIOUS
<1>5. x \in UNION {{m} \X Since!SpellingsOf(m) : m \in Since!CandidateNames}
  BY <1>3, <1>4
<1>6. ASSUME Since!DependencyReason(record, x[2]) # "" PROVE FALSE
  <2> DEFINE X == {y \in UNION {{m} \X Since!SpellingsOf(m) : m \in Since!CandidateNames} :
                    Since!DependencyReason(record, y[2]) # ""}
  <2>1. x \in X
    BY <1>5, <1>6
  <2> DEFINE Kind(y) == IF y[1] \in changed THEN Since!DependencyReason(record, y[2])
                        ELSE "git-index-flag"
  <2>2. {Kind(y) : y \in X} \subseteq Since!ReasonKinds(record)
    BY DEF Since!ReasonKinds
  <2> HIDE DEF X, Kind
  <2> QED BY <1>2, <2>1, <2>2
<1> QED BY <1>1, <1>4, <1>6

\* So nothing changed that it was read from.
LEMMA NothingRead ==
  ASSUME NEW p, Ruled(p), NEW n \in changed \cup uncertain
  PROVE  LET record == Since!Observations(w, graph, graph[p]) IN
         /\ record.path # n /\ ~Since!DiscoveryControl(n)
         /\ n \notin record.files /\ n \notin record.identity
         /\ \A d \in record.directories :
              (Since!VariablesOnly(d) => Since!VariableDeclarationPath(n)) => ~Since!IsPrefix(d, n)
<1>1. PICK record : record = Since!Observations(w, graph, graph[p])
  OBVIOUS
<1>2. Since!DependencyReason(record, n) = ""
  BY <1>1, NoReason
<1> QED BY <1>1, <1>2 DEF Since!DependencyReason

\* What a load reads for a source.
LEMMA RecordIs ==
  ASSUME NEW v, NEW g, NEW s
  PROVE  LET record == Since!Observations(v, g, s) IN
         /\ record.path = s.path
         /\ record.directories = Since!ScopesOf(v, s)
         /\ s.path \in record.files /\ Since!Configuration \in record.files
         /\ Since!TemplateSources(g, s) \subseteq record.files
         /\ \A x \in Since!ContextFiles(s) :
              ~Since!Excluded(v, Since!ExcludePaths(v), Since!Nothing, x) => x \in record.files
         /\ "project-identity" \in Since!Requirements(s.kind) => record.identity = Since!Markers
<1> DEFINE named == {s.path, Since!Configuration}
             \cup {x \in Since!ContextFiles(s) :
                     ~Since!Excluded(v, Since!ExcludePaths(v), Since!Nothing, x)}
             \cup Since!TemplateSources(g, s)
             \cup UNION {Since!Members(g, d) : d \in Since!ScopesOf(v, s)}
           owners == {g[p].owner : p \in {p \in named \cap DOMAIN g : g[p].kind = "template"}}
<1>1. Since!Observations(v, g, s) =
        [path |-> s.path, directories |-> Since!ScopesOf(v, s), files |-> named \cup owners,
         identity |-> IF "project-identity" \in Since!Requirements(s.kind)
                      THEN Since!Markers ELSE {}]
  BY DEF Since!Observations
<1>2. /\ s.path \in named /\ Since!Configuration \in named
      /\ Since!TemplateSources(g, s) \subseteq named
      /\ \A x \in Since!ContextFiles(s) :
           ~Since!Excluded(v, Since!ExcludePaths(v), Since!Nothing, x) => x \in named
  OBVIOUS
<1> HIDE DEF named, owners
<1> QED BY <1>1, <1>2

\* The rules did not change either.
LEMMA RulesStay ==
  ASSUME Reported, NEW p, Ruled(p)
  PROVE  w.ignored = base.ignored /\ w.config = base.config
<1>1. w.ignored = base.ignored
  <2> SUFFICES ASSUME w.ignored # base.ignored PROVE FALSE
    OBVIOUS
  <2>1. Since!ControlName \in changed
    BY DEF Reported, Since!GitDiff
  <2>2. Since!DiscoveryControl(Since!ControlName)
    BY DEF Since!DiscoveryControl, Since!ControlName, Since!Last
  <2> QED BY <2>1, <2>2, NothingRead
<1>2. w.config = base.config
  <2> SUFFICES ASSUME w.config # base.config PROVE FALSE
    OBVIOUS
  <2>1. Since!Configuration \in changed
    BY DEF Reported, Since!GitDiff
  <2> QED BY <2>1, NothingRead, RecordIs
<1> QED BY <1>1, <1>2

\* What is excluded and ignored is the same in both worktrees.
LEMMA SameExcluded ==
  ASSUME SameRules, NEW d, IsPath(d), d # <<>>
  PROVE  LET xs == Since!ExcludePaths(w) IN
         /\ Since!ExcludePaths(base) = xs
         /\ Since!IgnoredByGit(base, d) <=> Since!IgnoredByGit(w, d)
         /\ Since!Excluded(w, xs, Since!Nothing, d) <=>
              Since!ExcludedBy(xs, d) \/ Since!IgnoredByGit(w, d)
<1>1. PICK xs : xs = Since!ExcludePaths(w)
  OBVIOUS
<1>2. Since!ExcludePaths(base) = xs
  BY <1>1 DEF Since!ExcludePaths, SameRules
<1>3. Since!IgnoredByGit(base, d) <=> Since!IgnoredByGit(w, d)
  BY DEF Since!IgnoredByGit, SameRules, Linkless
<1>4. Since!Excluded(w, xs, Since!Nothing, d) <=>
              Since!ExcludedBy(xs, d) \/ Since!IgnoredByGit(w, d)
  BY PlainExcluded DEF SameRules, Linkless
<1> QED BY <1>1, <1>2, <1>3, <1>4

\* A directory that is left out of a context leaves out what lies below it.
LEMMA ScopeStays ==
  ASSUME SameRules, NEW v \in {w, base}, NEW d, IsPath(d), d # <<>>,
         NEW q, IsPath(q), q # <<>>, IsPrefix(d, q), ScanTakes(v, q)
  PROVE  ~Since!Excluded(w, Since!ExcludePaths(w), Since!Nothing, d)
<1>1. PICK xs : xs = Since!ExcludePaths(w)
  OBVIOUS
<1>2. \A x \in xs \cup w.ignored : IsPath(x)
  BY <1>1 DEF SameRules, Linkless, MayIgnore
<1>3. ASSUME NEW x, IsPath(x), Since!IsPrefix(x, d) PROVE Since!IsPrefix(x, q)
  BY <1>3, PrefixOn, SamePrefix
<1>4. ~Since!ExcludedBy(xs, q) /\ ~Since!IgnoredByGit(w, q)
  BY <1>1, SameExcluded DEF ScanTakes
<1>5. ~Since!ExcludedBy(xs, d)
  BY <1>2, <1>3, <1>4 DEF Since!ExcludedBy
<1>6. ~Since!IgnoredByGit(w, d)
  BY <1>2, <1>3, <1>4 DEF Since!IgnoredByGit
<1> QED BY <1>1, <1>5, <1>6, SameExcluded

\* The situation of a source that is left out of the selection.
LeftOut(p) ==
  Leaves /\ SameRules /\ Reported /\ Ruled(p) /\ graph = Since!Graph(w)

\* It is what it was, and so is every source that Git does not report.
LEMMA SourceStays ==
  ASSUME NEW p, LeftOut(p)
  PROVE  /\ \A q : q \notin changed \cup uncertain =>
              /\ q \in DOMAIN graph <=> q \in DOMAIN Since!Graph(base)
              /\ q \in DOMAIN graph => Since!Graph(base)[q] = graph[q]
         /\ p \notin changed \cup uncertain
         /\ graph[p] = PlainSource(w, p)
         /\ p \in DOMAIN Since!Graph(base) /\ Since!Graph(base)[p] = graph[p]
<1>1. \A v \in {w, base} :
        /\ \A q : q \in DOMAIN Since!Graph(v) <=> ScanTakes(v, q)
        /\ \A q \in DOMAIN Since!Graph(v) : Since!Graph(v)[q] = PlainSource(v, q)
  <2> SUFFICES ASSUME NEW v \in {w, base}
               PROVE  /\ \A q : q \in DOMAIN Since!Graph(v) <=> ScanTakes(v, q)
                      /\ \A q \in DOMAIN Since!Graph(v) : Since!Graph(v)[q] = PlainSource(v, q)
    OBVIOUS
  <2>1. DOMAIN v.link = {} /\ v.git /\ Leaves
    BY DEF LeftOut, SameRules, Linkless
  <2> QED BY <2>1, PlainPrimaries, PlainGraph
<1>2. ASSUME NEW q, q \notin changed \cup uncertain
      PROVE  /\ q \in DOMAIN graph <=> q \in DOMAIN Since!Graph(base)
             /\ q \in DOMAIN graph => Since!Graph(base)[q] = graph[q]
  <2>1. /\ ScanTakes(w, q) <=> ScanTakes(base, q)
        /\ ScanTakes(w, q) => PlainSource(w, q) = PlainSource(base, q)
    BY <1>2, SameScanned DEF LeftOut
  <2> QED BY <1>1, <2>1 DEF LeftOut
<1>3. graph[p] = PlainSource(w, p) /\ p \in DOMAIN graph
  BY <1>1 DEF LeftOut, Ruled
<1>4. p \notin changed \cup uncertain
  <2>1. graph[p].path = p
    BY <1>3 DEF PlainSource
  <2> QED BY <2>1, NothingRead, RecordIs DEF LeftOut
<1> QED BY <1>2, <1>3, <1>4

\* What is read below a directory of its context is not reported.
LEMMA ScopeRead ==
  ASSUME NEW p, LeftOut(p), NEW v \in {w, base},
         NEW d \in Since!ContextDirectories(graph[p]), IsPath(d), d # <<>>,
         NEW q, ScanTakes(v, q), IsPrefix(d, q),
         Since!VariablesOnly(d) => Since!VariableDeclarationPath(q)
  PROVE  q \notin changed \cup uncertain
<1>1. IsPath(q) /\ q # <<>>
  BY DEF ScanTakes, LeftOut, Leaves
<1>2. ~Since!Excluded(w, Since!ExcludePaths(w), Since!Nothing, d)
  BY <1>1, ScopeStays DEF LeftOut
<1>3. d \in Since!ScopesOf(w, graph[p])
  BY <1>2 DEF Since!ScopesOf
<1>4. Since!IsPrefix(d, q)
  BY SamePrefix
<1> QED BY <1>3, <1>4, NothingRead, RecordIs DEF LeftOut

\* The areas of its roles, and of other roles its names begin with.
LEMMA RoleAreas ==
  ASSUME NEW s, ~s.excluded
  PROVE  /\ "owning-role" \in Since!Requirements(s.kind) =>
              RoleDirectories(Since!OwningRoles(s), Since!RoleKinds \cup {"templates"})
                \subseteq Since!ContextDirectories(s)
         /\ s.kind = "defaults" /\ s.data \notin ChangedBroken =>
              RoleDirectories(UNION {Since!ReferenceRolePaths(s, role) :
                                       role \in ChangedDeclares[s.data] \ {s.role}},
                              Since!RoleKinds)
                \subseteq Since!ContextDirectories(s)
BY DEF Since!ContextDirectories, Since!NamespaceDirectories, RoleDirectories

\* An area of a role is no directory of variables.
LEMMA ScopeLength ==
  ASSUME NEW d, IsPath(d), Len(d) \in {3, 4} PROVE d # <<>> /\ ~Since!VariablesOnly(d)
<1>1. \A x \in Since!VariableDirectories : Len(x) \in {1, 2}
  <2>1. Len(<<"roles">>) = 1 /\ Len(<<"resources", "roles">>) = 2 /\ Len(<<"group_vars">>) = 1
        /\ Len(<<"host_vars">>) = 1 /\ Len(<<"inventory">>) = 1 /\ Len(<<"inventories">>) = 1
    OBVIOUS
  <2> QED BY <2>1 DEF Since!VariableDirectories
<1>2. d # <<>>
  BY EmptyPath
<1> QED BY <1>1, <1>2 DEF Since!VariablesOnly

\* What a load of either worktree holds.
LEMMA LoadedIs ==
  ASSUME NEW p, LeftOut(p), NEW v \in {w, base}, NEW q \in DOMAIN Since!Graph(v)
  PROVE  /\ ScanTakes(v, q) /\ IsPath(q) /\ q # <<>>
         /\ Since!Graph(v)[q] = PlainSource(v, q)
         /\ v.narrow => PlainSource(v, q).kind = "template"
<1>1. DOMAIN v.link = {} /\ v.git /\ Leaves
  BY DEF LeftOut, SameRules, Linkless
<1>2. ScanTakes(v, q) /\ Since!Graph(v)[q] = PlainSource(v, q)
  BY <1>1, PlainPrimaries, PlainGraph
<1>3. IsPath(q) /\ q # <<>>
  BY <1>1, <1>2 DEF ScanTakes, Leaves
<1>4. v.narrow => PlainSource(v, q).kind = "template"
  BY DEF PlainSource, Since!ScannedKind
<1> QED BY <1>2, <1>3, <1>4

\* Such a source is in the load, and it is a template wherever everything is.
LEMMA LeftOutIs ==
  ASSUME NEW p, LeftOut(p)
  PROVE  /\ p \in DOMAIN graph /\ graph[p].path = p /\ ~graph[p].excluded
         /\ w.narrow => graph[p].kind = "template"
         /\ base.narrow = w.narrow
<1>1. graph[p] = PlainSource(w, p) /\ p \in DOMAIN graph
  BY SourceStays DEF LeftOut, Ruled
<1>2. graph[p].path = p /\ graph[p].excluded = FALSE
  BY <1>1 DEF PlainSource
<1>3. w.narrow => graph[p].kind = "template"
  BY <1>1, LoadedIs DEF LeftOut
<1> QED BY <1>1, <1>2, <1>3 DEF LeftOut, SameRules

\* The members of its roles, in both worktrees, are not reported.
LEMMA PeersRead ==
  ASSUME NEW p, LeftOut(p), NEW v \in {w, base},
         NEW q \in Since!Peers(Since!Graph(v), graph[p])
  PROVE  q \notin changed \cup uncertain
<1>1. PICK s : s = graph[p]
  OBVIOUS
<1>2. PICK t : t = PlainSource(v, q)
  OBVIOUS
<1>3. "owning-role" \in Since!Requirements(s.kind) /\ q \in DOMAIN Since!Graph(v)
  BY <1>1 DEF Since!Peers
<1>4. Since!Graph(v)[q] = t /\ ScanTakes(v, q) /\ IsPath(q) /\ q # <<>>
      /\ (v.narrow => t.kind = "template")
  BY <1>2, <1>3, LoadedIs
<1>5. t.rolePath \in Since!OwningRoles(s) /\ t.kind # "template"
  BY <1>1, <1>3, <1>4 DEF Since!Peers
<1>6. t.rolePath # <<>>
  BY <1>5 DEF Since!OwningRoles
<1>7. /\ t.kind \in Since!RoleKinds /\ IsPath(t.rolePath) /\ Len(t.rolePath) \in {2, 3}
      /\ IsPrefix(Append(t.rolePath, t.kind), q)
  BY <1>2, <1>4, <1>5, <1>6, RoleMember
<1>8. PICK r, d : r = t.rolePath /\ d = Append(r, t.kind)
  OBVIOUS
<1>9. IsPath(d) /\ Len(d) = Len(r) + 1
  BY <1>7, <1>8, AppendIs
<1>10. d # <<>> /\ ~Since!VariablesOnly(d)
  <2>1. Len(d) \in {3, 4}
    <3>1. Len(r) \in {2, 3}
      BY <1>7, <1>8
    <3>2. PICK n \in {2, 3} : n = Len(r)
      BY <3>1
    <3>3. Len(d) = n + 1
      BY <1>9, <3>2
    <3> QED BY <3>3
  <2> QED BY <1>9, <2>1, ScopeLength
<1>11. d \in Since!ContextDirectories(s)
  <2>1. ~s.excluded
    BY <1>1, LeftOutIs
  <2>2. t.kind \in Since!RoleKinds \cup {"templates"}
    BY <1>7
  <2>3. d \in RoleDirectories(Since!OwningRoles(s), Since!RoleKinds \cup {"templates"})
    BY <1>5, <1>8, <2>2 DEF RoleDirectories
  <2> QED BY <1>3, <2>1, <2>3, RoleAreas
<1> QED BY <1>1, <1>4, <1>7, <1>8, <1>9, <1>10, <1>11, ScopeRead

\* The shared Docker tasks of a task file are not reported.
LEMMA DockerRead ==
  ASSUME NEW p, LeftOut(p), NEW v \in {w, base},
         NEW q \in Since!DockerPeers(Since!Graph(v), graph[p])
  PROVE  q \notin changed \cup uncertain
<1>1. PICK s, d : s = graph[p] /\ d = Since!DockerTasks
  OBVIOUS
<1>2. s.kind = "tasks" /\ Since!Under(d, s.path) /\ q \in DOMAIN Since!Graph(v)
      /\ Since!Under(d, q)
  BY <1>1 DEF Since!DockerPeers
<1>3. ScanTakes(v, q)
  BY <1>2, LoadedIs
<1>4. IsPath(d) /\ Len(d) = 3
  <2>1. PICK t : t = <<"resources", "tasks", "docker">>
    OBVIOUS
  <2>2. IsPath(t) /\ Len(t) = 3
    BY <2>1, SmallPaths
  <2> QED BY <1>1, <2>1, <2>2 DEF Since!DockerTasks
<1>5. d # <<>> /\ ~Since!VariablesOnly(d)
  BY <1>4, ScopeLength
<1>6. IsPrefix(d, q)
  BY <1>2, SamePrefix DEF Since!Under, Since!IsStrictPrefix
<1>7. d \in Since!ContextDirectories(s)
  BY <1>1, <1>2, LeftOutIs DEF Since!ContextDirectories
<1> QED BY <1>1, <1>3, <1>4, <1>5, <1>6, <1>7, ScopeRead

\* Nor are the roles that the names of its defaults begin with.
LEMMA ForeignRead ==
  ASSUME NEW p, LeftOut(p), NEW v \in {w, base},
         NEW q \in Since!ForeignPeers(Since!Graph(v), graph[p])
  PROVE  q \notin changed \cup uncertain
<1>1. PICK s : s = graph[p]
  OBVIOUS
<1>2. PICK t : t = PlainSource(v, q)
  OBVIOUS
<1>3. s.kind = "defaults" /\ s.data \notin ChangedBroken /\ q \in DOMAIN Since!Graph(v)
  BY <1>1 DEF Since!ForeignPeers
<1>4. Since!Graph(v)[q] = t /\ ScanTakes(v, q) /\ IsPath(q) /\ q # <<>>
      /\ (v.narrow => t.kind = "template")
  BY <1>2, <1>3, LoadedIs
<1>5. /\ t.rolePath # <<>> /\ t.kind \in Since!RoleKinds
      /\ t.role \in ChangedDeclares[s.data] \ {s.role}
  BY <1>1, <1>3, <1>4 DEF Since!ForeignPeers
<1>6. t.kind # "template"
  BY <1>5 DEF Since!RoleKinds
<1>7. /\ IsPath(t.rolePath) /\ Len(t.rolePath) \in {2, 3}
      /\ IsPrefix(Append(t.rolePath, t.kind), q)
      /\ t.rolePath \in {<<"roles", t.role>>, <<"resources", "roles", t.role>>}
  BY <1>2, <1>4, <1>5, <1>6, RoleMember
<1>8. PICK r, d : r = t.rolePath /\ d = Append(r, t.kind)
  OBVIOUS
<1>9. IsPath(d) /\ Len(d) = Len(r) + 1
  BY <1>7, <1>8, AppendIs
<1>10. d # <<>> /\ ~Since!VariablesOnly(d)
  <2>1. PICK n \in {2, 3} : n = Len(r)
    BY <1>7, <1>8
  <2>2. Len(d) = n + 1
    BY <1>9, <2>1
  <2>3. Len(d) \in {3, 4}
    BY <2>2
  <2> QED BY <1>9, <2>3, ScopeLength
<1>11. d \in Since!ContextDirectories(s)
  <2>1. ~s.excluded
    BY <1>1, LeftOutIs
  <2>2. r \in Since!ReferenceRolePaths(s, t.role)
    BY <1>7, <1>8 DEF Since!ReferenceRolePaths
  <2> DEFINE R == UNION {Since!ReferenceRolePaths(s, role) :
                           role \in ChangedDeclares[s.data] \ {s.role}}
  <2>3. r \in R
    BY <1>5, <2>2
  <2>4. RoleDirectories(R, Since!RoleKinds) \subseteq Since!ContextDirectories(s)
    BY <1>3, <2>1, RoleAreas
  <2> HIDE DEF R
  <2>5. d \in RoleDirectories(R, Since!RoleKinds)
    BY <1>5, <1>8, <2>3 DEF RoleDirectories
  <2> QED BY <2>4, <2>5
<1> QED BY <1>1, <1>4, <1>7, <1>8, <1>9, <1>10, <1>11, ScopeRead

\* Nor are the declarations of variables.
LEMMA VariableRead ==
  ASSUME NEW p, LeftOut(p), NEW v \in {w, base},
         NEW q \in Since!VariablePeers(Since!Graph(v), graph[p])
  PROVE  q \notin changed \cup uncertain
<1>1. PICK s : s = graph[p]
  OBVIOUS
<1>2. PICK t : t = PlainSource(v, q)
  OBVIOUS
<1>3. /\ Since!DeclaresVariables(s.path, s.kind) /\ s.data \notin ChangedBroken
      /\ q \in DOMAIN Since!Graph(v)
  BY <1>1 DEF Since!VariablePeers
<1>4. Since!Graph(v)[q] = t /\ ScanTakes(v, q) /\ IsPath(q) /\ q # <<>>
      /\ (v.narrow => t.kind = "template")
  BY <1>2, <1>3, LoadedIs
<1>5. Since!DeclaresVariables(q, t.kind)
  BY <1>1, <1>3, <1>4 DEF Since!VariablePeers
<1>6. ~v.narrow
  BY <1>4, <1>5 DEF Since!DeclaresVariables
<1>7. /\ Since!VariableDeclarationPath(q)
      /\ \/ q \in Since!InventoryFiles \cup Since!VariableFiles
         \/ \E d \in Since!VariableDirectories : IsPath(d) /\ d # <<>> /\ IsPrefix(d, q)
  BY <1>2, <1>4, <1>5, <1>6, VariableMember
<1>8. ~s.excluded
  BY <1>1, LeftOutIs
<1>9. CASE q \in Since!InventoryFiles \cup Since!VariableFiles
  <2>1. q \in Since!ContextFiles(s)
    BY <1>3, <1>8, <1>9 DEF Since!ContextFiles
  <2>2. ~Since!Excluded(w, Since!ExcludePaths(w), Since!Nothing, q)
    BY <1>4, SameExcluded DEF LeftOut, ScanTakes
  <2>3. q \in Since!Observations(w, graph, s).files
    BY <2>1, <2>2, RecordIs
  <2> QED BY <1>1, <2>3, NothingRead DEF LeftOut
<1>10. CASE \E d \in Since!VariableDirectories : IsPath(d) /\ d # <<>> /\ IsPrefix(d, q)
  <2>1. PICK d \in Since!VariableDirectories : IsPath(d) /\ d # <<>> /\ IsPrefix(d, q)
    BY <1>10
  <2>2. d \in Since!ContextDirectories(s)
    BY <1>3, <1>8, <2>1 DEF Since!ContextDirectories
  <2> QED BY <1>1, <1>4, <1>7, <2>1, <2>2, ScopeRead
<1> QED BY <1>7, <1>9, <1>10

\* So it sees the same sources at the commit.
LEMMA SeenStays ==
  ASSUME NEW p, LeftOut(p), NEW S \in SUBSET DOMAIN graph,
         NEW T \in SUBSET DOMAIN Since!Graph(base),
         \A q \in S \cup T : q \notin changed \cup uncertain,
         \A q : q \notin changed \cup uncertain => (q \in S <=> q \in T)
  PROVE  Since!Seen(graph, S) = Since!Seen(Since!Graph(base), T)
<1>1. S = T
  OBVIOUS
<1>2. \A q \in S : graph[q] = Since!Graph(base)[q]
  BY SourceStays
<1> QED BY <1>1, <1>2 DEF Since!Seen

\* The sources around it, then, are what they were.
LEMMA PeersSeen ==
  ASSUME NEW p, LeftOut(p)
  PROVE  LET s == graph[p]
             at == Since!Graph(base)
         IN /\ Since!Seen(graph, Since!Peers(graph, s)) = Since!Seen(at, Since!Peers(at, s))
            /\ Since!Seen(graph, Since!DockerPeers(graph, s)) = Since!Seen(at, Since!DockerPeers(at, s))
            /\ Since!Seen(graph, Since!ForeignPeers(graph, s)) = Since!Seen(at, Since!ForeignPeers(at, s))
            /\ Since!Seen(graph, Since!VariablePeers(graph, s)) = Since!Seen(at, Since!VariablePeers(at, s))
<1>1. PICK s, at : s = graph[p] /\ at = Since!Graph(base)
  OBVIOUS
<1>2. graph = Since!Graph(w)
  BY DEF LeftOut
<1>3. \A q : q \notin changed \cup uncertain =>
        /\ q \in DOMAIN graph <=> q \in DOMAIN at
        /\ q \in DOMAIN graph => at[q] = graph[q]
  BY <1>1, SourceStays
<1>4. Since!Seen(graph, Since!Peers(graph, s)) = Since!Seen(at, Since!Peers(at, s))
  <2>1. \A q \in Since!Peers(graph, s) \cup Since!Peers(at, s) : q \notin changed \cup uncertain
    BY <1>1, <1>2, PeersRead
  <2>2. \A q : q \notin changed \cup uncertain =>
          (q \in Since!Peers(graph, s) <=> q \in Since!Peers(at, s))
    BY <1>3 DEF Since!Peers
  <2>3. Since!Peers(graph, s) \in SUBSET DOMAIN graph /\ Since!Peers(at, s) \in SUBSET DOMAIN at
    BY DEF Since!Peers
  <2> QED BY <1>1, <2>1, <2>2, <2>3, SeenStays
<1>5. Since!Seen(graph, Since!DockerPeers(graph, s)) = Since!Seen(at, Since!DockerPeers(at, s))
  <2>1. \A q \in Since!DockerPeers(graph, s) \cup Since!DockerPeers(at, s) :
          q \notin changed \cup uncertain
    BY <1>1, <1>2, DockerRead
  <2>2. \A q : q \notin changed \cup uncertain =>
          (q \in Since!DockerPeers(graph, s) <=> q \in Since!DockerPeers(at, s))
    BY <1>3 DEF Since!DockerPeers
  <2>3. /\ Since!DockerPeers(graph, s) \in SUBSET DOMAIN graph
        /\ Since!DockerPeers(at, s) \in SUBSET DOMAIN at
    BY DEF Since!DockerPeers
  <2> QED BY <1>1, <2>1, <2>2, <2>3, SeenStays
<1>6. Since!Seen(graph, Since!ForeignPeers(graph, s)) = Since!Seen(at, Since!ForeignPeers(at, s))
  <2>1. \A q \in Since!ForeignPeers(graph, s) \cup Since!ForeignPeers(at, s) :
          q \notin changed \cup uncertain
    BY <1>1, <1>2, ForeignRead
  <2>2. \A q : q \notin changed \cup uncertain =>
          (q \in Since!ForeignPeers(graph, s) <=> q \in Since!ForeignPeers(at, s))
    BY <1>3 DEF Since!ForeignPeers
  <2>3. /\ Since!ForeignPeers(graph, s) \in SUBSET DOMAIN graph
        /\ Since!ForeignPeers(at, s) \in SUBSET DOMAIN at
    BY DEF Since!ForeignPeers
  <2> QED BY <1>1, <2>1, <2>2, <2>3, SeenStays
<1>7. Since!Seen(graph, Since!VariablePeers(graph, s)) = Since!Seen(at, Since!VariablePeers(at, s))
  <2>1. \A q \in Since!VariablePeers(graph, s) \cup Since!VariablePeers(at, s) :
          q \notin changed \cup uncertain
    BY <1>1, <1>2, VariableRead
  <2>2. \A q : q \notin changed \cup uncertain =>
          (q \in Since!VariablePeers(graph, s) <=> q \in Since!VariablePeers(at, s))
    BY <1>3 DEF Since!VariablePeers
  <2>3. /\ Since!VariablePeers(graph, s) \in SUBSET DOMAIN graph
        /\ Since!VariablePeers(at, s) \in SUBSET DOMAIN at
    BY DEF Since!VariablePeers
  <2> QED BY <1>1, <2>1, <2>2, <2>3, SeenStays
<1> QED BY <1>1, <1>4, <1>5, <1>6, <1>7

\* The same templates are copied by its role.
LEMMA TargetsSeen ==
  ASSUME NEW p, LeftOut(p)
  PROVE  LET s == graph[p]
             at == Since!Graph(base)
         IN Since!Seen(graph, DOMAIN graph \cap Since!TemplateSources(graph, s))
              = Since!Seen(at, DOMAIN at \cap Since!TemplateSources(at, s))
<1>1. PICK s, at : s = graph[p] /\ at = Since!Graph(base)
  OBVIOUS
<1>2. graph = Since!Graph(w)
  BY DEF LeftOut
<1>3. \A q : q \notin changed \cup uncertain =>
        /\ q \in DOMAIN graph <=> q \in DOMAIN at
        /\ q \in DOMAIN graph => at[q] = graph[q]
  BY <1>1, SourceStays
<1> DEFINE Copying(g) == {q \in DOMAIN g : /\ g[q].rolePath = s.rolePath
                                           /\ g[q].kind \in {"tasks", "handlers"}}
           Targets(g) == UNION {{t.rolePath \o <<"templates", c>> : c \in ChangedCopies[t.data]} :
                                  t \in {g[q] : q \in Copying(g)}}
<1>4. \A g : Since!TemplateSources(g, s) =
        IF "owning-role" \notin Since!Requirements(s.kind) \/ s.rolePath = <<>> THEN {}
        ELSE Targets(g)
  BY DEF Since!TemplateSources
<1>5. Since!TemplateSources(graph, s) = Since!TemplateSources(at, s)
  <2> SUFFICES ASSUME "owning-role" \in Since!Requirements(s.kind), s.rolePath # <<>>
               PROVE  Targets(graph) = Targets(at)
    <3> HIDE DEF Targets
    <3> QED BY <1>4
  <2>1. s.rolePath \in Since!OwningRoles(s)
    BY DEF Since!OwningRoles
  <2>2. \A g : Copying(g) \subseteq Since!Peers(g, s)
    BY <2>1 DEF Since!Peers
  <2>3. \A q \in Copying(graph) \cup Copying(at) : q \notin changed \cup uncertain
    <3> HIDE DEF Copying
    <3> QED BY <1>1, <1>2, <2>2, PeersRead
  <2>4. Copying(graph) = Copying(at)
    BY <1>3, <2>3
  <2>5. \A q \in Copying(graph) : graph[q] = at[q]
    <3>1. \A g : Copying(g) \subseteq DOMAIN g
      OBVIOUS
    <3> HIDE DEF Copying
    <3> QED BY <1>3, <2>3, <3>1
  <2>6. {graph[q] : q \in Copying(graph)} = {at[q] : q \in Copying(at)}
    <3> HIDE DEF Copying
    <3> QED BY <2>4, <2>5
  <2> HIDE DEF Copying
  <2> QED BY <2>6
<1>6. \A q \in Since!TemplateSources(graph, s) : q \notin changed \cup uncertain
  <2>1. Since!TemplateSources(graph, s) \subseteq Since!Observations(w, graph, s).files
    BY RecordIs
  <2> QED BY <1>1, <2>1, NothingRead DEF LeftOut
<1> DEFINE S == DOMAIN graph \cap Since!TemplateSources(graph, s)
           T == DOMAIN at \cap Since!TemplateSources(at, s)
<1>7. S \in SUBSET DOMAIN graph /\ T \in SUBSET DOMAIN at
  OBVIOUS
<1>8. \A q \in S \cup T : q \notin changed \cup uncertain
  BY <1>5, <1>6
<1>9. \A q : q \notin changed \cup uncertain => (q \in S <=> q \in T)
  BY <1>3, <1>5
<1> HIDE DEF S, T
<1>10. Since!Seen(graph, S) = Since!Seen(at, T)
  BY <1>1, <1>7, <1>8, <1>9, SeenStays
<1> QED BY <1>1, <1>10 DEF S, T

\* A source that is left out sees what it saw at the commit.
LEMMA ViewStays ==
  ASSUME NEW p, LeftOut(p)
  PROVE  /\ p \in DOMAIN Since!Graph(base)
         /\ Since!View(w, graph, p) = Since!View(base, Since!Graph(base), p)
<1>1. PICK s, at : s = graph[p] /\ at = Since!Graph(base)
  OBVIOUS
<1>2. p \in DOMAIN at /\ at[p] = s
  BY <1>1, SourceStays
<1>3. s.kind = "template" \/ Since!ProjectName(w) = Since!ProjectName(base)
  <2> SUFFICES ASSUME s.kind # "template"
               PROVE  Since!ProjectName(w) = Since!ProjectName(base)
    OBVIOUS
  <2>1. "project-identity" \in Since!Requirements(s.kind)
    BY DEF Since!Requirements
  <2>2. Since!Observations(w, graph, s).identity = Since!Markers
    BY <2>1, RecordIs
  <2>3. \A n \in changed \cup uncertain : n \notin Since!Markers
    BY <1>1, <2>2, NothingRead DEF LeftOut
  <2> QED BY <2>3, SameProject DEF LeftOut
<1>4. w.config = base.config
  BY DEF LeftOut, SameRules
<1>5. /\ Since!Seen(graph, Since!Peers(graph, s)) = Since!Seen(at, Since!Peers(at, s))
      /\ Since!Seen(graph, Since!DockerPeers(graph, s)) = Since!Seen(at, Since!DockerPeers(at, s))
      /\ Since!Seen(graph, Since!ForeignPeers(graph, s)) = Since!Seen(at, Since!ForeignPeers(at, s))
      /\ Since!Seen(graph, Since!VariablePeers(graph, s)) = Since!Seen(at, Since!VariablePeers(at, s))
      /\ Since!Seen(graph, DOMAIN graph \cap Since!TemplateSources(graph, s))
           = Since!Seen(at, DOMAIN at \cap Since!TemplateSources(at, s))
  BY <1>1, PeersSeen, TargetsSeen
<1>6. Since!View(w, graph, p) = Since!View(base, at, p)
  BY <1>1, <1>2, <1>3, <1>4, <1>5 DEF Since!View
<1> QED BY <1>1, <1>2, <1>6

-----------------------------------------------------------------------------
(***************************************************************************)
(* What holds while the command runs over such a worktree.                 *)
(***************************************************************************)

\* Whatever is edited, it stays such a worktree.
PlainFields(v) ==
  /\ WorldFields \subseteq DOMAIN v /\ DOMAIN v.link = {}
  /\ v.git = base.git /\ v.narrow = base.narrow /\ v.unavailable = base.unavailable
  /\ MayIgnore(v.ignored) /\ MayConfigure(v.config)

\* The sources that the changed names may reach.
Reached ==
  {p \in DOMAIN graph : Since!ReasonKinds(Since!Observations(w, graph, graph[p])) # {}}

Later(stages) == pc \in stages \cup {"done"}

SinceInv ==
  /\ base \in Commits /\ PlainFields(w)
  /\ pc \notin {"idle", "failed"} => w.git
  /\ calm =>
       /\ pc = "others" => changed = Since!GitDiff
       /\ Later({"flags", "load", "select"}) => changed = Since!GitDiff \cup Since!GitOthers
       /\ Later({"load", "select"}) => uncertain = flagged
       /\ Later({"select"}) => graph = Since!Graph(w)
       /\ Later({}) => DOMAIN selection = Reached

\* The commit itself is such a worktree.
LEMMA SinceInitial ==
  ASSUME PlainTrees, Since!Init PROVE SinceInv
<1>1. base \in Commits /\ w = base /\ pc = "idle"
  BY DEF Since!Init
<1>2. PlainFields(w)
  BY <1>1 DEF PlainFields, PlainTrees
<1> QED BY <1>1, <1>2 DEF SinceInv, Later

\* An edit disturbs the command, unless it has not begun.
LEMMA EditKeeps ==
  ASSUME SinceInv, NEW next, PlainFields(next), NEW marks, Since!Edited(next, marks)
  PROVE  SinceInv'
<1>1. w' = next /\ base' = base /\ pc' = pc /\ calm' = (pc = "idle")
  BY DEF Since!Edited
<1>2. PlainFields(w)'
  BY <1>1 DEF PlainFields
<1>3. next.git = w.git
  BY DEF SinceInv, PlainFields
<1>4. calm' => pc' = "idle"
  BY <1>1
<1>5. base' \in Commits /\ (pc' \notin {"idle", "failed"} => w'.git)
  BY <1>1, <1>3 DEF SinceInv
<1> QED BY <1>2, <1>4, <1>5 DEF SinceInv, Later

\* Every edit leaves such a worktree behind.
LEMMA EditingKeeps ==
  ASSUME PlainTrees, SinceInv, Since!Editing PROVE SinceInv'
<1>1. PlainFields(w)
  BY DEF SinceInv
<1>2. ASSUME NEW p \in ChangedPaths, NEW c \in Edits, Since!Write(p, c) PROVE SinceInv'
  <2>1. PICK next : next = [w EXCEPT !.file[p] = Since!Free(p), !.bytes[Since!Free(p)].data = c,
                   !.link = [q \in DOMAIN @ \ {p} |-> @[q]]]
    OBVIOUS
  <2>2. PlainFields(next)
    BY <1>1, <2>1 DEF PlainFields, WorldFields
  <2> QED BY <1>2, <2>1, <2>2, EditKeeps DEF Since!Write
<1>3. ASSUME NEW p \in ChangedPaths, Since!Delete(p) PROVE SinceInv'
  <2>1. PICK next : next = [w EXCEPT !.file[p] = 0, !.link = [q \in DOMAIN @ \ {p} |-> @[q]]]
    OBVIOUS
  <2>2. PlainFields(next)
    BY <1>1, <2>1 DEF PlainFields, WorldFields
  <2> QED BY <1>3, <2>1, <2>2, EditKeeps DEF Since!Delete
<1>4. ASSUME NEW p \in ChangedPaths, Since!Track(p) \/ Since!Untrack(p) PROVE SinceInv'
  <2>1. PICK more, less : /\ more = [w EXCEPT !.tracked = @ \cup {p}]
                          /\ less = [w EXCEPT !.tracked = @ \ {p}]
    OBVIOUS
  <2>2. PlainFields(more) /\ PlainFields(less)
    BY <1>1, <2>1 DEF PlainFields, WorldFields
  <2> QED BY <1>4, <2>1, <2>2, EditKeeps DEF Since!Track, Since!Untrack
<1>5. ASSUME NEW p \in ChangedPaths, Since!Flag(p) PROVE SinceInv'
  BY <1>1, <1>5, EditKeeps DEF Since!Flag
<1>6. ASSUME NEW rules \in ChangedRules, Since!Edited([w EXCEPT !.ignored = rules], flagged)
      PROVE  SinceInv'
  <2>1. PICK next : next = [w EXCEPT !.ignored = rules]
    OBVIOUS
  <2>2. PlainFields(next)
    BY <1>1, <2>1 DEF PlainFields, WorldFields, PlainTrees
  <2> QED BY <1>6, <2>1, <2>2, EditKeeps
<1>7. ASSUME NEW config \in Configs, Since!Edited([w EXCEPT !.config = config], flagged)
      PROVE  SinceInv'
  <2>1. PICK next : next = [w EXCEPT !.config = config]
    OBVIOUS
  <2>2. PlainFields(next)
    BY <1>1, <2>1 DEF PlainFields, WorldFields, PlainTrees
  <2> QED BY <1>7, <2>1, <2>2, EditKeeps
<1>8. ChangedTargets = {}
  BY DEF PlainTrees
<1> QED BY <1>2, <1>3, <1>4, <1>5, <1>6, <1>7, <1>8 DEF Since!Editing

\* Git says the same of the same worktree.
LEMMA GitStays ==
  ASSUME UNCHANGED <<base, w, flagged>>
  PROVE  Since!GitDiff' = Since!GitDiff /\ Since!GitOthers' = Since!GitOthers
<1>1. Since!ControlName' = Since!ControlName
  BY DEF Since!ControlName
<1>2. Since!GitDiff' = Since!GitDiff
  BY <1>1 DEF Since!GitDiff, Since!Entry
<1>3. Since!GitOthers' = Since!GitOthers
  BY DEF Since!GitOthers, Since!Entry
<1> QED BY <1>2, <1>3

\* And the same sources are reached.
LEMMA ReachedStays ==
  ASSUME UNCHANGED <<w, changed, uncertain, graph>> PROVE Reached' = Reached
<1>1. Since!CandidateNames' = Since!CandidateNames /\ (Since!Fallback' <=> Since!Fallback)
  BY DEF Since!CandidateNames, Since!Fallback
<1>2. \A r : Since!ReasonKinds(r)' = Since!ReasonKinds(r)
  <2>1. \A n : Since!SpellingsOf(n)' = Since!SpellingsOf(n)
    BY DEF Since!SpellingsOf
  <2> DEFINE pairs == UNION {{n} \X Since!SpellingsOf(n) : n \in Since!CandidateNames}
  <2>2. pairs' = pairs
    BY <1>1, <2>1
  <2>3. \A r : Since!ReasonKinds(r) =
          {IF x[1] \in changed THEN Since!DependencyReason(r, x[2]) ELSE "git-index-flag" :
             x \in {x \in pairs : Since!DependencyReason(r, x[2]) # ""}}
          \cup (IF Since!Fallback THEN {"conservative-fallback"} ELSE {})
    BY DEF Since!ReasonKinds
  <2>4. \A r : Since!ReasonKinds(r)' =
          {IF x[1] \in changed' THEN Since!DependencyReason(r, x[2]) ELSE "git-index-flag" :
             x \in {x \in pairs' : Since!DependencyReason(r, x[2]) # ""}}
          \cup (IF Since!Fallback' THEN {"conservative-fallback"} ELSE {})
    BY DEF Since!ReasonKinds
  <2> HIDE DEF pairs
  <2> QED BY <1>1, <2>2, <2>3, <2>4
<1> QED BY <1>2 DEF Reached

\* Every stage of the command adds what it is there for.
LEMMA CommandKeeps ==
  ASSUME SinceInv, Since!Command PROVE SinceInv'
<1> USE DEF Later
<1>1. ASSUME Since!Resolved PROVE SinceInv'
  BY <1>1 DEF SinceInv, PlainFields, Since!Resolved, Since!At
<1>2. ASSUME Since!ListChanged PROVE SinceInv'
  <2>1. Since!GitDiff' = Since!GitDiff /\ Since!GitOthers' = Since!GitOthers
    BY <1>2, GitStays DEF Since!ListChanged, Since!At
  <2> QED BY <1>2, <2>1 DEF SinceInv, PlainFields, Since!ListChanged, Since!At
<1>3. ASSUME Since!ListOthers PROVE SinceInv'
  <2>1. Since!GitDiff' = Since!GitDiff /\ Since!GitOthers' = Since!GitOthers
    BY <1>3, GitStays DEF Since!ListOthers, Since!At
  <2> QED BY <1>3, <2>1 DEF SinceInv, PlainFields, Since!ListOthers, Since!At
<1>4. ASSUME Since!ListFlags PROVE SinceInv'
  <2>1. Since!GitDiff' = Since!GitDiff /\ Since!GitOthers' = Since!GitOthers
    BY <1>4, GitStays DEF Since!ListFlags, Since!At
  <2> QED BY <1>4, <2>1 DEF SinceInv, PlainFields, Since!ListFlags, Since!At
<1>5. ASSUME Since!LoadGraph PROVE SinceInv'
  <2>1. Since!GitDiff' = Since!GitDiff /\ Since!GitOthers' = Since!GitOthers
    BY <1>5, GitStays DEF Since!LoadGraph, Since!At
  <2> QED BY <1>5, <2>1 DEF SinceInv, PlainFields, Since!LoadGraph, Since!At
<1>6. ASSUME Since!Select PROVE SinceInv'
  <2>1. Since!GitDiff' = Since!GitDiff /\ Since!GitOthers' = Since!GitOthers
    BY <1>6, GitStays DEF Since!Select, Since!At
  <2>2. Reached' = Reached
    BY <1>6, ReachedStays DEF Since!Select, Since!At
  <2>3. DOMAIN selection' = Reached
    BY <1>6 DEF Since!Select, Reached
  <2> QED BY <1>6, <2>1, <2>2, <2>3 DEF SinceInv, PlainFields, Since!Select, Since!At
<1>7. ASSUME Since!Fail PROVE SinceInv'
  BY <1>7 DEF SinceInv, PlainFields, Since!Fail
<1> QED BY <1>1, <1>2, <1>3, <1>4, <1>5, <1>6, <1>7 DEF Since!Command

\* Nothing is lost where nothing moves.
LEMMA SinceSteady ==
  ASSUME SinceInv, UNCHANGED Since!vars PROVE SinceInv'
<1>1. UNCHANGED <<base, w, flagged, pc, changed, uncertain, graph, selection, calm>>
  BY DEF Since!vars
<1>2. Since!GitDiff' = Since!GitDiff /\ Since!GitOthers' = Since!GitOthers /\ Reached' = Reached
  BY <1>1, GitStays, ReachedStays
<1> QED BY <1>1, <1>2 DEF SinceInv, PlainFields, Later

\* Of a command nobody disturbed, the sources that are left out are left out rightly.
LEMMA LeftOutRightly ==
  ASSUME PlainTrees, SinceInv PROVE Since!AffectedAreSelected
<1> SUFFICES ASSUME pc = "done", calm, NEW p \in DOMAIN graph \ DOMAIN selection
             PROVE  /\ p \in DOMAIN Since!Graph(base)
                    /\ Since!View(w, graph, p) = Since!View(base, Since!Graph(base), p)
  BY DEF Since!AffectedAreSelected
<1>1. /\ changed = Since!GitDiff \cup Since!GitOthers /\ uncertain = flagged
      /\ graph = Since!Graph(w) /\ DOMAIN selection = Reached
  BY DEF SinceInv, Later
<1>2. /\ base.tracked = {q \in ChangedPaths : base.file[q] # 0}
      /\ DOMAIN base.link = {} /\ MayIgnore(base.ignored) /\ MayConfigure(base.config)
  BY DEF PlainTrees, SinceInv
<1>3. Reported
  BY <1>1, <1>2 DEF Reported
<1>4. Ruled(p)
  BY <1>1 DEF Ruled, Reached
<1>5. w.ignored = base.ignored /\ w.config = base.config
  BY <1>3, <1>4, RulesStay
<1>6. DOMAIN w.link = {} /\ w.git /\ base.git /\ MayIgnore(w.ignored) /\ MayConfigure(w.config)
      /\ w.narrow = base.narrow /\ w.unavailable = base.unavailable
  BY DEF SinceInv, PlainFields
<1>7. \A v : MayConfigure(v.config) => \A x \in Since!ExcludePaths(v) : IsPath(x)
  <2> SUFFICES ASSUME NEW v, MayConfigure(v.config)
               PROVE  \A x \in Since!ExcludePaths(v) : IsPath(x)
    OBVIOUS
  <2>1. Since!ExcludePaths(v) = Since!ExcludePaths([config |-> v.config])
    BY DEF Since!ExcludePaths
  <2> QED BY <2>1 DEF MayConfigure
<1>8. SameRules
  BY <1>2, <1>5, <1>6, <1>7 DEF SameRules, Linkless
<1>9. LeftOut(p)
  BY <1>1, <1>3, <1>4, <1>8 DEF LeftOut, PlainTrees
<1> QED BY <1>9, ViewStays

\* At the commit itself Git reports nothing, and nothing is selected.
LEMMA BackAtTheCommit ==
  ASSUME PlainTrees, SinceInv PROVE Since!UnchangedSelectsNothing
<1> SUFFICES ASSUME pc = "done", calm, w = base, flagged = {} PROVE DOMAIN selection = {}
  BY DEF Since!UnchangedSelectsNothing
<1>1. /\ changed = Since!GitDiff \cup Since!GitOthers /\ uncertain = {}
      /\ DOMAIN selection = Reached
  BY DEF SinceInv, Later
<1>2. base.tracked = {q \in ChangedPaths : base.file[q] # 0} /\ DOMAIN base.link = {}
  BY DEF PlainTrees, SinceInv
<1>3. Since!GitDiff = {}
  BY DEF Since!GitDiff
<1>4. Since!GitOthers = {}
  BY <1>2 DEF Since!GitOthers, Since!Entry
<1>5. Since!CandidateNames = {}
  BY <1>1, <1>3, <1>4 DEF Since!CandidateNames
<1>6. \A r : Since!ReasonKinds(r) = {}
  BY <1>5 DEF Since!ReasonKinds, Since!Fallback
<1> QED BY <1>1, <1>6 DEF Reached

\* Without links, a check of what changed since a commit leaves out no source that the
\* edits could have changed a finding of, and selects nothing at the commit itself:
\* git ls-files and git diff name what moved (changed.go), and dependencyRecord
\* names what a source was read from, at whichever of the two moments it was there.
THEOREM ChangesStaySelected ==
  ASSUME PlainTrees PROVE MCSpec => []ChangesAreSelected
<1> DEFINE Inv == part = "changed" => SinceInv
<1>1. MCInit => Inv
  BY SinceInitial DEF MCInit
<1>2. Inv /\ [MCNext]_mcVars => Inv'
  <2> SUFFICES ASSUME Inv, [MCNext]_mcVars, part' = "changed" PROVE SinceInv'
    OBVIOUS
  <2>1. part = "changed" /\ SinceInv
    BY DEF MCNext, mcVars
  <2>2. CASE Since!Command
    BY <2>1, <2>2, CommandKeeps
  <2>3. CASE Since!Editing
    BY <2>1, <2>3, EditingKeeps
  <2>4. CASE UNCHANGED mcVars
    <3>1. UNCHANGED Since!vars
      BY <2>4 DEF mcVars, changedVars, Since!vars
    <3> QED BY <2>1, <3>1, SinceSteady
  <2> QED BY <2>1, <2>2, <2>3, <2>4 DEF MCNext, Since!Next
<1>3. Inv => ChangesAreSelected
  BY LeftOutRightly, BackAtTheCommit DEF ChangesAreSelected
<1> HIDE DEF Inv
<1> QED BY <1>1, <1>2, <1>3, PTL DEF MCSpec

=============================================================================
