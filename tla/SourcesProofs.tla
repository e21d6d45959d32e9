--------------------------- MODULE SourcesProofs ---------------------------
(* Proofs about the sources that handlers and scans go back to: the profile *)
(* with its two writers, the therapy page that is edited while it is        *)
(* fetched, the books that are heard, those in the folder, and the films.   *)
EXTENDS Profile, Therapy, BookCatalog, Library, FilmCatalog, WellFoundedInduction, SequenceTheorems, FiniteSetTheorems, TLAPS

-----------------------------------------------------------------------------
(* Profile. No directive and no addition is lost, for any number of them.   *)
(* What makes the two writers as safe as they are, without a lock, is that  *)
(* only a regeneration adds bullets and it has all there are: a correction  *)
(* that writes an old profile back can only take out those that were added  *)
(* since it read.                                                           *)

Correcting == corrector.pc = "write"
Asking == regen.pc \in {"inbox", "skill"}
Answered == regen.pc \in {"snapshot", "write"}

\* What the regeneration under way will write at least.
WritesAtLeast == IF Asking THEN regen.seen.bulleted ELSE regen.answer

\* The correction that is under way, and the regeneration.
WritersOverlap ==
    /\ Correcting => corrector.seen.bulleted \subseteq profile.bulleted
    /\ Asking \/ Answered => profile.bulleted \subseteq WritesAtLeast

\* Where nobody corrects a profile that is being regenerated.
CalmKeeps ==
    calm =>
        /\ corrector = Resting \/ regen = Resting
        /\ Correcting => corrector.seen = profile
        /\ regen.pc = "write" => profile \in past
        /\ \A d \in applied : \E p \in past \cup {profile} : d \in Lines(p)

\* What was read, what came in since, and what a written regeneration has been given.
InboxIsHeeded ==
    /\ filed \subseteq heeded \cup latecomers
    /\ filed \cap mailbox = {}
    /\ regen.pc \in {"skill", "snapshot", "write"} => mailbox \subseteq regen.additions \cup latecomers
    /\ regen.pc = "list" => mailbox \subseteq heeded \cup latecomers
    /\ regen.pc = "archive" => regen.left \subseteq heeded \cup latecomers

ProInv == ProTypeOK /\ WritersOverlap /\ CalmKeeps /\ InboxIsHeeded

LEMMA ProInitially == ProInit => ProInv
BY ProfileAssumption
DEF ProInit, ProInv, ProTypeOK, WritersOverlap, CalmKeeps, InboxIsHeeded, Profiles, Regens, Resting,
    Correcting, Asking, Answered

-----------------------------------------------------------------------------
(* Types.                                                                  *)

LEMMA TypeStep == ProTypeOK /\ [ProNext]_proVars => ProTypeOK'
<1> SUFFICES ASSUME ProTypeOK, [ProNext]_proVars PROVE ProTypeOK'
  OBVIOUS
<1> USE ProfileAssumption DEF ProTypeOK, Profiles, Regens, Resting
<1>1. ASSUME NEW d \in Directive, ReadForCorrection(d) PROVE ProTypeOK'
  BY <1>1 DEF ReadForCorrection
<1>2. CASE WriteCorrection
  BY <1>2 DEF WriteCorrection
<1>3. CASE ServerDies
  BY <1>3 DEF ServerDies, Mishap
<1>4. ASSUME NEW a \in Addition, DropAddition(a) PROVE ProTypeOK'
  BY <1>4 DEF DropAddition
<1>5. CASE ReadProfile
  BY <1>5 DEF ReadProfile
<1>6. CASE ReadMailbox
  BY <1>6 DEF ReadMailbox
<1>7. CASE AskModel
  BY <1>7 DEF AskModel
<1>8. CASE TakeSnapshot
  BY <1>8 DEF TakeSnapshot
<1>9. CASE WriteProfile
  BY <1>9 DEF WriteProfile
<1>10. CASE ListMailbox
  BY <1>10 DEF ListMailbox
<1>11. CASE ArchiveOne
  BY <1>11 DEF ArchiveOne
<1>12. CASE RegenDone
  BY <1>12 DEF RegenDone
<1>13. CASE RegenFails
  BY <1>13 DEF RegenFails, Mishap
<1>14. CASE UNCHANGED proVars
  BY <1>14 DEF proVars
<1> QED BY <1>1, <1>2, <1>3, <1>4, <1>5, <1>6, <1>7, <1>8, <1>9, <1>10, <1>11, <1>12, <1>13, <1>14 DEF ProNext, RegenStep

-----------------------------------------------------------------------------
(* The invariant.                                                          *)

\* Whoever writes has what was there when he read, and the regeneration all of it.
LEMMA OverlapStep == ProTypeOK /\ WritersOverlap /\ [ProNext]_proVars => WritersOverlap'
<1> SUFFICES ASSUME ProTypeOK /\ WritersOverlap, [ProNext]_proVars PROVE WritersOverlap'
  OBVIOUS
<1> USE DEF ProTypeOK, Profiles, Regens, Resting, WritersOverlap, Correcting, Asking, Answered, WritesAtLeast, Lines
<1>1. ASSUME NEW d \in Directive, ReadForCorrection(d) PROVE WritersOverlap'
  BY <1>1 DEF ReadForCorrection
<1>2. CASE WriteCorrection
  BY <1>2 DEF WriteCorrection
<1>3. CASE ServerDies
  BY <1>3 DEF ServerDies, Mishap
<1>4. ASSUME NEW a \in Addition, DropAddition(a) PROVE WritersOverlap'
  BY <1>4 DEF DropAddition
<1>5. CASE ReadProfile
  BY <1>5 DEF ReadProfile
<1>6. CASE ReadMailbox
  BY <1>6 DEF ReadMailbox
<1>7. CASE AskModel
  BY <1>7 DEF AskModel, Accepted
<1>8. CASE TakeSnapshot
  BY <1>8 DEF TakeSnapshot
<1>9. CASE WriteProfile
  BY <1>9 DEF WriteProfile
<1>10. CASE ListMailbox
  BY <1>10 DEF ListMailbox
<1>11. CASE ArchiveOne
  BY <1>11 DEF ArchiveOne
<1>12. CASE RegenDone
  BY <1>12 DEF RegenDone
<1>13. CASE RegenFails
  BY <1>13 DEF RegenFails, Mishap
<1>14. CASE UNCHANGED proVars
  BY <1>14 DEF proVars
<1> QED BY <1>1, <1>2, <1>3, <1>4, <1>5, <1>6, <1>7, <1>8, <1>9, <1>10, <1>11, <1>12, <1>13, <1>14 DEF ProNext, RegenStep

\* What the regeneration drops is in the snapshot it has just taken.
LEMMA KeepStep == ProTypeOK /\ CalmKeeps /\ [ProNext]_proVars => CalmKeeps'
<1> SUFFICES ASSUME ProTypeOK /\ CalmKeeps, [ProNext]_proVars PROVE CalmKeeps'
  OBVIOUS
<1> USE DEF ProTypeOK, Profiles, Regens, Resting, CalmKeeps, Correcting, Lines
<1>1. ASSUME NEW d \in Directive, ReadForCorrection(d) PROVE CalmKeeps'
  BY <1>1 DEF ReadForCorrection
<1>2. CASE WriteCorrection
  BY <1>2 DEF WriteCorrection
<1>3. CASE ServerDies
  BY <1>3 DEF ServerDies, Mishap
<1>4. ASSUME NEW a \in Addition, DropAddition(a) PROVE CalmKeeps'
  BY <1>4 DEF DropAddition
<1>5. CASE ReadProfile
  BY <1>5 DEF ReadProfile
<1>6. CASE ReadMailbox
  BY <1>6 DEF ReadMailbox
<1>7. CASE AskModel
  BY <1>7 DEF AskModel, Accepted
<1>8. CASE TakeSnapshot
  BY <1>8 DEF TakeSnapshot
<1>9. CASE WriteProfile
  BY <1>9 DEF WriteProfile
<1>10. CASE ListMailbox
  BY <1>10 DEF ListMailbox
<1>11. CASE ArchiveOne
  BY <1>11 DEF ArchiveOne
<1>12. CASE RegenDone
  BY <1>12 DEF RegenDone
<1>13. CASE RegenFails
  BY <1>13 DEF RegenFails, Mishap
<1>14. CASE UNCHANGED proVars
  BY <1>14 DEF proVars
<1> QED BY <1>1, <1>2, <1>3, <1>4, <1>5, <1>6, <1>7, <1>8, <1>9, <1>10, <1>11, <1>12, <1>13, <1>14 DEF ProNext, RegenStep

\* The inbox holds what was read and what came in since.
LEMMA HeedStep == ProTypeOK /\ InboxIsHeeded /\ [ProNext]_proVars => InboxIsHeeded'
<1> SUFFICES ASSUME ProTypeOK /\ InboxIsHeeded, [ProNext]_proVars PROVE InboxIsHeeded'
  OBVIOUS
<1> USE DEF ProTypeOK, Regens, Resting, InboxIsHeeded
<1>1. ASSUME NEW d \in Directive, ReadForCorrection(d) PROVE InboxIsHeeded'
  BY <1>1 DEF ReadForCorrection
<1>2. CASE WriteCorrection
  BY <1>2 DEF WriteCorrection
<1>3. CASE ServerDies
  BY <1>3 DEF ServerDies, Mishap
<1>4. ASSUME NEW a \in Addition, DropAddition(a) PROVE InboxIsHeeded'
  BY <1>4 DEF DropAddition
<1>5. CASE ReadProfile
  BY <1>5 DEF ReadProfile
<1>6. CASE ReadMailbox
  BY <1>6 DEF ReadMailbox
<1>7. CASE AskModel
  BY <1>7 DEF AskModel, Accepted
<1>8. CASE TakeSnapshot
  BY <1>8 DEF TakeSnapshot
<1>9. CASE WriteProfile
  BY <1>9 DEF WriteProfile
<1>10. CASE ListMailbox
  BY <1>10 DEF ListMailbox
<1>11. CASE ArchiveOne
  BY <1>11 DEF ArchiveOne
<1>12. CASE RegenDone
  BY <1>12 DEF RegenDone
<1>13. CASE RegenFails
  BY <1>13 DEF RegenFails, Mishap
<1>14. CASE UNCHANGED proVars
  BY <1>14 DEF proVars
<1> QED BY <1>1, <1>2, <1>3, <1>4, <1>5, <1>6, <1>7, <1>8, <1>9, <1>10, <1>11, <1>12, <1>13, <1>14 DEF ProNext, RegenStep

LEMMA ProStep == ProInv /\ [ProNext]_proVars => ProInv'
BY TypeStep, OverlapStep, KeepStep, HeedStep DEF ProInv

\* A settled bullet is in whatever is written.
LEMMA BulletsStay ==
    ASSUME ProTypeOK, WritersOverlap, [ProNext]_proVars, NEW b \in Directive, Settled(b)
    PROVE  Settled(b)'
<1> USE DEF ProTypeOK, Profiles, Regens, Resting, WritersOverlap, Correcting, Asking, Answered, WritesAtLeast, Settled
<1>1. ASSUME NEW d \in Directive, ReadForCorrection(d) PROVE Settled(b)'
  BY <1>1 DEF ReadForCorrection
<1>2. CASE WriteCorrection
  BY <1>2 DEF WriteCorrection
<1>3. CASE ServerDies
  BY <1>3 DEF ServerDies, Mishap
<1>4. ASSUME NEW a \in Addition, DropAddition(a) PROVE Settled(b)'
  BY <1>4 DEF DropAddition
<1>5. CASE ReadProfile
  BY <1>5 DEF ReadProfile
<1>6. CASE ReadMailbox
  BY <1>6 DEF ReadMailbox
<1>7. CASE AskModel
  BY <1>7 DEF AskModel, Accepted
<1>8. CASE TakeSnapshot
  BY <1>8 DEF TakeSnapshot
<1>9. CASE WriteProfile
  BY <1>9 DEF WriteProfile
<1>10. CASE ListMailbox
  BY <1>10 DEF ListMailbox
<1>11. CASE ArchiveOne
  BY <1>11 DEF ArchiveOne
<1>12. CASE RegenDone
  BY <1>12 DEF RegenDone
<1>13. CASE RegenFails
  BY <1>13 DEF RegenFails, Mishap
<1>14. CASE UNCHANGED proVars
  BY <1>14 DEF proVars
<1> QED BY <1>1, <1>2, <1>3, <1>4, <1>5, <1>6, <1>7, <1>8, <1>9, <1>10, <1>11, <1>12, <1>13, <1>14 DEF ProNext, RegenStep

-----------------------------------------------------------------------------
\* Whatever the two writers, the model and the person who drops files do, the files
\* and the variables of both are what the actions expect.
THEOREM ProfileTypeCorrect == ProSpec => []ProTypeOK
<1>1. ProInv => ProTypeOK
  BY DEF ProInv
<1> QED BY ProInitially, ProStep, <1>1, PTL DEF ProSpec

\* A bullet outlasts every step if no correction was under way when it came in, and what
\* `correct` applied is in the profile or a snapshot when nobody corrects during a
\* regeneration, for any set of directives.
THEOREM DirectivesAreKept == ProSpec => DirectiveIsKept
<1>1. ProInv /\ [ProNext]_proVars => [\A d \in Directive : Settled(d) => Settled(d)']_proVars
  BY BulletsStay DEF ProInv
<1>2. ProInv => (calm => \A d \in applied : \E p \in past \cup {profile} : d \in Lines(p))
  BY DEF ProInv, CalmKeeps
<1> QED BY ProInitially, ProStep, <1>1, <1>2, PTL DEF ProSpec, DirectiveIsKept

\* What is archived was given to the model for a profile that was written, or came in
\* between the two looks into the inbox of the run that archived it, for any set of files.
THEOREM ArchivedWasHeeded == ProSpec => [](filed \subseteq heeded \cup latecomers)
<1>1. ProInv => filed \subseteq heeded \cup latecomers
  BY DEF ProInv, InboxIsHeeded
<1> QED BY ProInitially, ProStep, <1>1, PTL DEF ProSpec

-----------------------------------------------------------------------------
(* Therapy.                                                                *)

Text == [blocks : Nat, children : Nat]
SessionJob == [status : {"queued", "running", "lost"}, edited : Nat, text : Text, stored : BOOLEAN]

TherapyTypeOK ==
    /\ version \in Nat \ {None}
    /\ session \in [edited : Nat, text : Text, chunks : Text, status : {"none", "ingesting", "embedded"}]
    /\ jobs \in Seq(SessionJob)
    /\ refusals \in Nat

\* What a job has in its checkpoints it fetched in this order, while the page was edited.
InItsOrder(j) ==
    /\ j.edited <= version
    /\ j.edited = None => j.text.blocks = None
    /\ j.text.blocks # None => j.edited <= j.text.blocks
    /\ j.text.blocks = None => j.text.children = None
    /\ j.text.children # None => j.edited <= j.text.children
    /\ j.stored => j.text.children # None

\* Only the first job was ever claimed, and what it stored nobody has replaced.
FirstAlone ==
    /\ \A n \in DOMAIN jobs : n > 1 => jobs[n] = FreshJob
    /\ jobs # <<>> => InItsOrder(Job) /\ (Job.stored => session.text = Job.text)

TherapyInv == TherapyTypeOK /\ FirstAlone /\ EditIsInText /\ ChunksAreOfText

LEMMA FreshIsInOrder == FreshJob \in SessionJob /\ (version \in Nat => InItsOrder(FreshJob)) /\ ~FreshJob.stored
BY DEF FreshJob, SessionJob, NoText, None, Text, InItsOrder

LEMMA TherapyInitially == TherapyInit => TherapyInv
<1> SUFFICES ASSUME TherapyInit PROVE TherapyInv
  OBVIOUS
<1>1. NoText \in Text
  BY DEF NoText, None, Text
<1> QED BY <1>1, EmptySeq DEF TherapyInit, TherapyInv, TherapyTypeOK, FirstAlone, EditIsInText, ChunksAreOfText, None

SessionRow == [edited : Nat, text : Text, chunks : Text, status : {"none", "ingesting", "embedded"}]
SessionIsSound == session \in SessionRow /\ EditIsInText /\ ChunksAreOfText

\* A job is added behind the others, as the only one perhaps.
LEMMA AppendKeeps ==
    ASSUME TherapyInv, jobs' = Append(jobs, FreshJob), UNCHANGED <<version, session, refusals>>
    PROVE  TherapyInv'
<1>1. /\ jobs \in Seq(SessionJob) /\ FreshJob \in SessionJob /\ FreshJob.stored = FALSE
      /\ InItsOrder(FreshJob)'
  BY FreshIsInOrder DEF TherapyInv, TherapyTypeOK, InItsOrder, FreshJob, NoText, None
<1>2. /\ jobs' \in Seq(SessionJob) /\ Len(jobs) \in Nat
      /\ DOMAIN jobs = 1..Len(jobs) /\ DOMAIN jobs' = 1..(Len(jobs) + 1)
      /\ \A n \in 1..Len(jobs) : jobs'[n] = jobs[n]
      /\ jobs'[Len(jobs) + 1] = FreshJob
      /\ Head(jobs') = IF jobs = <<>> THEN FreshJob ELSE Head(jobs)
  BY <1>1, AppendProperties, LenProperties, HeadTailAppend
<1>3. FirstAlone'
  <2>1. \A n \in DOMAIN jobs' : n > 1 => jobs'[n] = FreshJob
    BY <1>2 DEF TherapyInv, FirstAlone
  <2>2. CASE jobs = <<>>
    BY <1>1, <1>2, <2>1, <2>2 DEF FirstAlone, Job
  <2>3. CASE jobs # <<>>
    <3>1. Job' = Job /\ InItsOrder(Job) /\ (Job.stored => session'.text = Job.text)
      BY <1>2, <2>3 DEF TherapyInv, FirstAlone, Job
    <3> QED BY <2>1, <3>1 DEF FirstAlone, InItsOrder
  <2> QED BY <2>2, <2>3
<1> QED BY <1>2, <1>3 DEF TherapyInv, TherapyTypeOK, EditIsInText, ChunksAreOfText

\* The first job is over: the next one was never claimed.
LEMMA TailKeeps ==
    ASSUME TherapyInv, jobs # <<>>, jobs' = Tail(jobs), version' = version, refusals' \in Nat,
           SessionIsSound'
    PROVE  TherapyInv'
<1>1. jobs \in Seq(SessionJob)
  BY DEF TherapyInv, TherapyTypeOK
<1>2. /\ jobs' \in Seq(SessionJob) /\ Len(jobs) \in Nat \ {0} /\ Len(jobs') = Len(jobs) - 1
      /\ DOMAIN jobs = 1..Len(jobs) /\ DOMAIN jobs' = 1..Len(jobs')
      /\ \A n \in DOMAIN jobs' : jobs'[n] = jobs[n + 1]
  BY <1>1, HeadTailProperties, LenProperties, EmptySeq
<1>3. \A n \in DOMAIN jobs' : jobs'[n] = FreshJob
  BY <1>2 DEF TherapyInv, FirstAlone
<1>4. jobs' # <<>> => Job' = FreshJob
  <2>1. jobs' # <<>> => Len(jobs') \in Nat \ {0}
    BY <1>2, EmptySeq
  <2>2. jobs' # <<>> => Head(jobs') = jobs'[1]
    BY <1>2, <2>1
  <2>3. jobs' # <<>> => jobs'[1] = FreshJob
    BY <1>2, <1>3, <2>1
  <2> QED BY <2>2, <2>3 DEF Job
<1>5. InItsOrder(FreshJob)' /\ ~FreshJob.stored
  BY FreshIsInOrder DEF TherapyInv, TherapyTypeOK, InItsOrder, FreshJob, NoText, None
<1>6. FirstAlone'
  BY <1>3, <1>4, <1>5 DEF FirstAlone, InItsOrder
<1> QED BY <1>2, <1>6 DEF TherapyInv, TherapyTypeOK, SessionIsSound, SessionRow

\* The first job goes on.
LEMMA RecordKeeps ==
    ASSUME TherapyInv, jobs # <<>>, NEW j \in SessionJob, Records(j), version' = version,
           refusals' \in Nat, SessionIsSound', InItsOrder(j), j.stored => session'.text = j.text
    PROVE  TherapyInv'
<1>1. jobs \in Seq(SessionJob) /\ Len(jobs) \in Nat \ {0}
  BY EmptySeq DEF TherapyInv, TherapyTypeOK
<1>2. 1 \in 1..Len(jobs) /\ jobs' = [jobs EXCEPT ![1] = j]
  BY <1>1 DEF Records
<1>3. /\ jobs' \in Seq(SessionJob) /\ Len(jobs') = Len(jobs)
      /\ \A n \in 1..Len(jobs) : jobs'[n] = IF n = 1 THEN j ELSE jobs[n]
  BY <1>1, <1>2, ExceptSeq
<1>4. DOMAIN jobs' = 1..Len(jobs) /\ DOMAIN jobs = 1..Len(jobs) /\ jobs' # <<>>
  BY <1>1, <1>3, LenProperties, EmptySeq
<1>5. Job' = j
  BY <1>2, <1>3, <1>4 DEF Job
<1>6. FirstAlone'
  BY <1>3, <1>4, <1>5 DEF TherapyInv, FirstAlone, InItsOrder
<1> QED BY <1>3, <1>6 DEF TherapyInv, TherapyTypeOK, SessionIsSound, SessionRow

-----------------------------------------------------------------------------
\* The first job, apart from the others.
LEMMA FirstJob ==
    ASSUME TherapyInv, jobs # <<>>
    PROVE  /\ Job \in SessionJob /\ InItsOrder(Job) /\ (Job.stored => session.text = Job.text)
           /\ SessionIsSound /\ version \in Nat \ {None} /\ refusals \in Nat
BY HeadTailProperties DEF TherapyInv, TherapyTypeOK, FirstAlone, Job, SessionIsSound, SessionRow

\* What becomes of the status alone.
LEMMA StatusKeeps ==
    ASSUME TherapyInv, jobs # <<>>, NEW s \in {"queued", "running", "lost"},
           Records([Job EXCEPT !.status = s]), version' = version, refusals' \in Nat,
           session' = session
    PROVE  TherapyInv'
<1>1. PICK j \in SessionJob : j = [Job EXCEPT !.status = s]
  BY FirstJob DEF SessionJob
<1>2. InItsOrder(j) /\ (j.stored => session'.text = j.text)
  BY <1>1, FirstJob DEF InItsOrder, SessionJob
<1>3. SessionIsSound'
  BY FirstJob DEF SessionIsSound, EditIsInText, ChunksAreOfText
<1> QED BY <1>1, <1>2, <1>3, RecordKeeps

LEMMA UpsertIsSound ==
    ASSUME TherapyInv, ToBeStored, session' = Upserted
    PROVE  SessionIsSound' /\ session'.text = Job.text
<1>1. /\ jobs # <<>> /\ Job \in SessionJob /\ InItsOrder(Job) /\ Job.text.children # None
      /\ Job.text \in Text /\ Job.edited \in Nat
  BY FirstJob DEF ToBeStored, InHandler, SessionJob
<1>2. Upserted \in SessionRow /\ Upserted.text = Job.text /\ Upserted.edited = Job.edited
      /\ Upserted.chunks = NoText
  BY <1>1 DEF Upserted, SessionRow, NoText, Text, None
<1>3. Job.edited # None => Job.edited <= Job.text.blocks /\ Job.edited <= Job.text.children
  BY <1>1 DEF InItsOrder
<1> QED BY <1>2, <1>3 DEF SessionIsSound, EditIsInText, ChunksAreOfText

LEMMA TherapyStep == TherapyInv /\ [TherapyNext]_therapyVars => TherapyInv'
<1> SUFFICES ASSUME TherapyInv, [TherapyNext]_therapyVars PROVE TherapyInv'
  OBVIOUS
<1>1. CASE EditPage
  <2>1. version \in Nat /\ version' = version + 1 /\ UNCHANGED <<session, jobs, refusals>>
    BY <1>1 DEF EditPage, TherapyInv, TherapyTypeOK
  <2>2. ASSUME jobs # <<>> PROVE InItsOrder(Job)'
    <3>1. Job \in SessionJob /\ InItsOrder(Job) /\ Job' = Job
      BY <2>1, <2>2, FirstJob DEF Job
    <3> QED BY <2>1, <3>1 DEF InItsOrder, SessionJob
  <2> QED BY <2>1, <2>2 DEF TherapyInv, TherapyTypeOK, FirstAlone, Job, EditIsInText, ChunksAreOfText, None
<1>2. CASE UNCHANGED <<version, session, jobs, refusals>>
  BY <1>2 DEF TherapyInv, TherapyTypeOK, FirstAlone, Job, InItsOrder, EditIsInText, ChunksAreOfText
<1>3. CASE SubmitSession \/ SubmitByHand
  BY <1>2, <1>3, AppendKeeps DEF SubmitSession, SubmitByHand
<1>4. CASE ClaimSession
  BY <1>4, FirstJob, StatusKeeps DEF ClaimSession
<1>5. CASE FetchMetadata
  <2>1. jobs # <<>> /\ Job.edited = None /\ session' = session
    BY <1>5 DEF FetchMetadata, InHandler
  <2>2. PICK j \in SessionJob : j = [Job EXCEPT !.edited = version]
    BY <2>1, FirstJob DEF SessionJob
  <2>3. InItsOrder(j) /\ (j.stored => session'.text = j.text)
    BY <2>1, <2>2, FirstJob DEF InItsOrder, SessionJob, None, Text
  <2>4. SessionIsSound'
    BY <2>1, FirstJob DEF SessionIsSound, EditIsInText, ChunksAreOfText
  <2> QED BY <1>5, <2>1, <2>2, <2>3, <2>4, RecordKeeps, FirstJob DEF FetchMetadata
<1>6. CASE FetchBlocks \/ FetchChildren
  <2>1. /\ jobs # <<>> /\ Job.edited # None /\ session' = session
        /\ Job.text.children = None /\ ~Job.stored
    BY <1>6, FirstJob DEF FetchBlocks, FetchChildren, InHandler, InItsOrder
  <2>2. PICK t \in Text :
          /\ Records([Job EXCEPT !.text = t])
          /\ \/ t.blocks = version /\ t.children = None
             \/ Job.text.blocks # None /\ t.blocks = Job.text.blocks /\ t.children = version
    <3>1. Job.text \in Text /\ version \in Nat
      BY <2>1, FirstJob DEF SessionJob
    <3>2. CASE FetchBlocks
      <4> DEFINE t == [Job.text EXCEPT !.blocks = version]
      <4>1. t \in Text /\ t.blocks = version /\ t.children = None
        BY <2>1, <3>1 DEF Text
      <4>2. Records([Job EXCEPT !.text = t])
        BY <3>2 DEF FetchBlocks
      <4> QED BY <4>1, <4>2
    <3>3. CASE FetchChildren
      <4> DEFINE t == [Job.text EXCEPT !.children = version]
      <4>1. t \in Text /\ t.children = version /\ t.blocks = Job.text.blocks
        BY <2>1, <3>1 DEF Text
      <4>2. Records([Job EXCEPT !.text = t]) /\ Job.text.blocks # None
        BY <3>3 DEF FetchChildren
      <4> QED BY <4>1, <4>2
    <3> QED BY <1>6, <3>2, <3>3
  <2>3. PICK j \in SessionJob :
          j = [Job EXCEPT !.text = t] /\ j.text = t /\ j.edited = Job.edited /\ ~j.stored
    <3> DEFINE row == [Job EXCEPT !.text = t]
    <3>1. row \in SessionJob /\ row.text = t /\ row.edited = Job.edited /\ ~row.stored
      BY <2>1, FirstJob DEF SessionJob
    <3> QED BY <3>1
  <2>4. InItsOrder(j)
    BY <2>1, <2>2, <2>3, FirstJob DEF InItsOrder, SessionJob
  <2>5. SessionIsSound'
    BY <2>1, FirstJob DEF SessionIsSound, EditIsInText, ChunksAreOfText
  <2>6. version' = version /\ refusals' \in Nat
    BY <1>6, <2>1, FirstJob DEF FetchBlocks, FetchChildren
  <2> QED BY <2>1, <2>2, <2>3, <2>4, <2>5, <2>6, RecordKeeps
<1>7. CASE UpsertDocument
  <2>1. jobs # <<>> /\ ToBeStored /\ session' = Upserted
    BY <1>7 DEF UpsertDocument, ToBeStored, InHandler
  <2>2. PICK j \in SessionJob :
          j = [Job EXCEPT !.stored = TRUE] /\ j.text = Job.text /\ j.edited = Job.edited
    <3> DEFINE row == [Job EXCEPT !.stored = TRUE]
    <3>1. row \in SessionJob /\ row.text = Job.text /\ row.edited = Job.edited
      BY <2>1, FirstJob DEF SessionJob
    <3> QED BY <3>1
  <2>3. InItsOrder(j)
    BY <2>1, <2>2, FirstJob DEF InItsOrder, ToBeStored
  <2>4. version' = version /\ refusals' \in Nat /\ Records(j)
    BY <1>7, <2>1, <2>2, FirstJob DEF UpsertDocument
  <2> QED BY <2>1, <2>2, <2>3, <2>4, UpsertIsSound, RecordKeeps
<1>8. CASE EmbedSession
  <2>1. jobs # <<>> /\ session.text = Job.text /\ jobs' = Tail(jobs) /\ version' = version
        /\ refusals' \in Nat /\ SessionIsSound /\ Job.text \in Text
    BY <1>8, FirstJob DEF EmbedSession, InHandler, SessionJob
  <2>2. SessionIsSound'
    <3>1. CASE session.chunks # NoText
      BY <1>8, <2>1, <3>1 DEF EmbedSession, SessionIsSound, EditIsInText, ChunksAreOfText
    <3>2. CASE session.chunks = NoText
      <4>1. session' = [session EXCEPT !.chunks = Job.text, !.status = "embedded"]
        BY <1>8, <3>2 DEF EmbedSession
      <4>2. session' \in SessionRow /\ session'.text = session.text /\ session'.edited = session.edited
            /\ session'.chunks = session'.text
        BY <2>1, <4>1 DEF SessionIsSound, SessionRow
      <4> QED BY <2>1, <4>2 DEF SessionIsSound, EditIsInText, ChunksAreOfText
    <3> QED BY <3>1, <3>2
  <2> QED BY <2>1, <2>2, TailKeeps
<1>9. CASE CircuitOpen
  BY <1>9, FirstJob, StatusKeeps DEF CircuitOpen, InHandler, Refused
<1>10. CASE SessionFails \/ FailLostSession
  <2>1. /\ jobs # <<>> /\ jobs' = Tail(jobs) /\ UNCHANGED <<version, session>>
    BY <1>10 DEF SessionFails, FailLostSession, InHandler
  <2>2. refusals' \in Nat /\ SessionIsSound'
    BY <1>10, <2>1, FirstJob
       DEF SessionFails, FailLostSession, Refused, SessionIsSound, EditIsInText, ChunksAreOfText
  <2> QED BY <2>1, <2>2, TailKeeps
<1>11. CASE SessionWorkerDies
  <2>1. jobs # <<>> /\ version' = version /\ refusals' \in Nat /\ Records([Job EXCEPT !.status = "lost"])
    BY <1>11, FirstJob DEF SessionWorkerDies, InHandler, Refused
  <2>2. CASE session' = session
    BY <2>1, <2>2, StatusKeeps
  <2>3. CASE ToBeStored /\ session' = Upserted
    <3>1. PICK j \in SessionJob : j = [Job EXCEPT !.status = "lost"] /\ ~j.stored
      BY <2>1, <2>3, FirstJob DEF SessionJob, ToBeStored
    <3>2. InItsOrder(j)
      BY <2>1, <3>1, FirstJob DEF InItsOrder, SessionJob
    <3> QED BY <2>1, <2>3, <3>1, <3>2, UpsertIsSound, RecordKeeps
  <2>4. session' = session \/ (ToBeStored /\ session' = Upserted)
    BY <1>11 DEF SessionWorkerDies
  <2> QED BY <2>2, <2>3, <2>4
<1>12. CASE GetPage \/ ComparePage \/ UNCHANGED therapyVars
  BY <1>2, <1>12 DEF GetPage, ComparePage, therapyVars
<1> QED BY <1>1, <1>3, <1>4, <1>5, <1>6, <1>7, <1>8, <1>9, <1>10, <1>11, <1>12 DEF TherapyNext, SessionStep

\* Whatever is edited while a session is fetched, stored and embedded, however its jobs
\* fail and whoever submits them, no edit is known that is not in the text, and the
\* chunks are those of the text.
THEOREM KnownEditIsStored == TherapySpec => [](TherapyTypeOK /\ EditIsInText /\ ChunksAreOfText)
<1>1. TherapyInv => TherapyTypeOK /\ EditIsInText /\ ChunksAreOfText
  BY DEF TherapyInv
<1> QED BY <1>1, TherapyInitially, TherapyStep, PTL DEF TherapySpec

-----------------------------------------------------------------------------
(* BookCatalog.                                                            *)

\* The smallest of some numbers is one of them.
LEMMA MinIsThere ==
    ASSUME NEW T \in SUBSET Nat, T # {}
    PROVE  Min(T) \in T /\ \A y \in T : Min(T) <= y
<1>1. \E v \in T : \A w \in T : v <= w
  <2>1. PICK v \in T : \A w \in T : ~ (<<w, v>> \in OpToRel(<, Nat))
    BY NatLessThanWellFounded, WFMin
  <2>2. \A w \in Nat : w < v => <<w, v>> \in OpToRel(<, Nat)
    BY DEF OpToRel
  <2>3. \A w \in Nat : ~(w < v) => v <= w
    OBVIOUS
  <2> QED BY <2>1, <2>2, <2>3
<1> QED BY <1>1 DEF Min

\* The table with more and more rows of the export, as AllAdded computes it.
Tables(table, m) ==
    table = [n \in 0..m |-> IF n = 0 THEN docs ELSE AddRead(table[n - 1], ReadList[n])]

LEMMA TablesAreThere == \A m \in Nat : \E table : Tables(table, m)
<1> DEFINE Bad == {m \in Nat : ~ \E table : Tables(table, m)}
<1> SUFFICES ASSUME Bad # {} PROVE FALSE
  OBVIOUS
<1>1. PICK m \in Bad : \A k \in Bad : m <= k
  BY MinIsThere
<1>2. CASE m = 0
  <2>1. Tables([n \in 0..0 |-> docs], 0)
    BY DEF Tables
  <2> QED BY <1>1, <1>2, <2>1
<1>3. CASE m # 0
  <2>1. m - 1 \in Nat /\ m - 1 \notin Bad
    BY <1>1, <1>3
  <2>2. PICK table : Tables(table, m - 1)
    BY <2>1
  <2> DEFINE more == [n \in 0..m |-> IF n = m THEN AddRead(table[m - 1], ReadList[m]) ELSE table[n]]
  <2>3. \A n \in 0..(m - 1) : more[n] = table[n]
    BY <1>1
  <2>4. \A n \in 0..(m - 1) : table[n] = IF n = 0 THEN docs ELSE AddRead(table[n - 1], ReadList[n])
    BY <2>2 DEF Tables
  <2>5. ASSUME NEW n \in 0..m
        PROVE  more[n] = IF n = 0 THEN docs ELSE AddRead(more[n - 1], ReadList[n])
    <3>1. CASE n = m
      <4>1. more[n] = AddRead(table[m - 1], ReadList[m])
        BY <3>1
      <4>2. more[m - 1] = table[m - 1]
        BY <2>1, <2>3
      <4> QED BY <1>3, <3>1, <4>1, <4>2
    <3>2. CASE n # m
      <4>1. n \in 0..(m - 1) /\ (n # 0 => n - 1 \in 0..(m - 1))
        BY <1>1, <3>2
      <4> HIDE DEF more
      <4> QED BY <2>3, <2>4, <4>1
    <3> QED BY <3>1, <3>2
  <2>6. Tables(more, m)
    <3>1. more = [n \in 0..m |-> more[n]]
      OBVIOUS
    <3> HIDE DEF more
    <3> QED BY <2>5, <3>1 DEF Tables
  <2> QED BY <1>1, <2>6
<1> QED BY <1>2, <1>3

\* What a transaction of import_storygraph.py makes of the table.
LEMMA AddedOneByOne ==
    ASSUME Len(ReadList) \in Nat
    PROVE  \E table :
             /\ AllAdded = table[Len(ReadList)] /\ table[0] = docs
             /\ \A n \in 1..Len(ReadList) : table[n] = AddRead(table[n - 1], ReadList[n])
<1> DEFINE table == CHOOSE f : Tables(f, Len(ReadList))
<1>1. Tables(table, Len(ReadList))
  BY TablesAreThere
<1>2. AllAdded = table[Len(ReadList)]
  BY DEF AllAdded, Tables
<1> HIDE DEF table
<1>3. table[0] = docs /\ \A n \in 1..Len(ReadList) : table[n] = AddRead(table[n - 1], ReadList[n])
  BY <1>1 DEF Tables
<1> QED BY <1>2, <1>3

-----------------------------------------------------------------------------
\* Tables of rows, of which no more is said than that they are some.
IsRow(r) == {"type", "title", "path"} \subseteq DOMAIN r
IsTable(books) == \E S : books \in Seq(S) /\ \A r \in S : IsRow(r)

HasEntry(books, t) ==
    \E e \in DOMAIN books : books[e].type = "storygraph_entry" /\ (books[e].title = t \/ Overlaps(books[e].title, t))

\* The later table: the old rows at their places, with their types and titles, a
\* recording with its path, and behind them entries of the reading list.
Grown(books, more) ==
    /\ IsTable(more) /\ DOMAIN books \subseteq DOMAIN more
    /\ \A n \in DOMAIN books :
        /\ more[n].type = books[n].type /\ more[n].title = books[n].title
        /\ books[n].type = "audiobook" => more[n].path = books[n].path
    /\ \A n \in DOMAIN more \ DOMAIN books : more[n].type = "storygraph_entry"

LEMMA TableDomain ==
    ASSUME NEW books, IsTable(books)
    PROVE  /\ Len(books) \in Nat /\ DOMAIN books = 1..Len(books)
           /\ \A n \in DOMAIN books : IsRow(books[n])
<1>1. PICK S : books \in Seq(S) /\ \A r \in S : IsRow(r)
  BY DEF IsTable
<1> QED BY <1>1, LenProperties, ElementOfSeq

LEMMA RowIsAppended ==
    ASSUME NEW books, IsTable(books), NEW r, IsRow(r)
    PROVE  /\ IsTable(Append(books, r)) /\ DOMAIN Append(books, r) = DOMAIN books \cup {Len(books) + 1}
           /\ Len(books) + 1 \notin DOMAIN books
           /\ \A n \in DOMAIN books : Append(books, r)[n] = books[n]
           /\ Append(books, r)[Len(books) + 1] = r
<1>1. PICK S : books \in Seq(S) /\ \A x \in S : IsRow(x)
  BY DEF IsTable
<1>2. PICK T : T = S \cup {r}
  OBVIOUS
<1>3. books \in Seq(T) /\ r \in T /\ \A x \in T : IsRow(x)
  BY <1>1, <1>2, SeqMonotonic
<1>4. /\ Append(books, r) \in Seq(T) /\ Len(Append(books, r)) = Len(books) + 1
      /\ \A i \in 1..Len(books) : Append(books, r)[i] = books[i]
      /\ Append(books, r)[Len(books) + 1] = r
  BY <1>3, AppendProperties
<1>5. /\ Len(books) \in Nat /\ DOMAIN books = 1..Len(books)
      /\ DOMAIN Append(books, r) = 1..(Len(books) + 1)
  BY <1>3, <1>4, LenProperties
<1> QED BY <1>3, <1>4, <1>5 DEF IsTable

LEMMA GrownAgain ==
    ASSUME NEW a, NEW b, NEW c, Grown(a, b), Grown(b, c)
    PROVE  Grown(a, c)
BY DEF Grown

LEMMA EntryIsAppended ==
    ASSUME NEW books, IsTable(books), NEW r, IsRow(r), r.type = "storygraph_entry"
    PROVE  Grown(books, Append(books, r))
BY RowIsAppended DEF Grown

LEMMA NotAppended == ASSUME NEW books, IsTable(books) PROVE Grown(books, books)
BY DEF Grown

\* A row of the export is another entry, or none.
LEMMA AddReadGrows ==
    ASSUME NEW books, IsTable(books), NEW r
    PROVE  Grown(books, AddRead(books, r))
<1> DEFINE row == [NewRow("storygraph_entry", [title |-> r.title, author |-> r.author,
                          narrator |-> Missing], "") EXCEPT !.id = r.id, !.rating = r.rating]
<1>1. IsRow(row) /\ row.type = "storygraph_entry"
  BY DEF NewRow, IsRow
<1>2. AddRead(books, r) = books \/ AddRead(books, r) = Append(books, row)
  BY DEF AddRead
<1> QED BY <1>1, <1>2, EntryIsAppended, NotAppended

LEMMA ImportGrows == ASSUME IsTable(docs) PROVE Grown(docs, AllAdded)
<1>1. Len(ReadList) \in Nat
  BY CatalogAssumption
<1>2. PICK table :
        /\ AllAdded = table[Len(ReadList)] /\ table[0] = docs
        /\ \A n \in 1..Len(ReadList) : table[n] = AddRead(table[n - 1], ReadList[n])
  BY <1>1, AddedOneByOne
<1> DEFINE Bad == {m \in 0..Len(ReadList) : ~Grown(docs, table[m])}
<1>3. ASSUME Bad # {} PROVE FALSE
  <2>1. PICK m \in Bad : \A k \in Bad : m <= k
    <3>1. Bad \in SUBSET Nat
      BY <1>1
    <3> HIDE DEF Bad
    <3> QED BY <1>3, <3>1, MinIsThere
  <2>2. m # 0
    BY <1>2, <2>1, NotAppended
  <2>3. m - 1 \in 0..Len(ReadList) /\ m - 1 \notin Bad /\ m \in 1..Len(ReadList)
    BY <1>1, <2>1, <2>2
  <2>4. Grown(docs, table[m - 1])
    BY <2>3
  <2>5. Grown(table[m - 1], table[m])
    BY <1>2, <2>3, <2>4, AddReadGrows DEF Grown
  <2> QED BY <2>1, <2>4, <2>5, GrownAgain
<1>4. Len(ReadList) \in 0..Len(ReadList)
  BY <1>1
<1> QED BY <1>2, <1>3, <1>4

-----------------------------------------------------------------------------
(* The invariant.                                                          *)

IsRecording(d) == docs[d].type = "audiobook"

\* A recording has one document, with its title, of which there is an entry.
Catalogued ==
    /\ \A d \in DOMAIN docs : IsRecording(d) =>
        docs[d].title = Metadata(docs[d].path).title /\ HasEntry(docs, docs[d].title)
    /\ \A d, e \in DOMAIN docs : IsRecording(d) /\ IsRecording(e) /\ docs[d].path = docs[e].path => d = e

\* No document is given to classify_book twice.
GivenOnce ==
    /\ classify \in Seq(Nat)
    /\ \A n \in DOMAIN classify : classify[n] \in DOMAIN docs /\ IsRecording(classify[n])
    /\ \A m, n \in DOMAIN classify : classify[m] = classify[n] => m = n

\* What the job under way has done, and has not.
JobKnows ==
    /\ job.pc \in {"entry", "document"} => ~Ingested(job.path)
    /\ job.pc = "entry" /\ job.match # 0 =>
        job.match \in Entries /\ Overlaps(docs[job.match].title, Metadata(job.path).title)
    /\ job.pc = "document" => HasEntry(docs, Metadata(job.path).title)
    /\ job.pc = "classify" =>
        Ingested(job.path) /\ \A n \in DOMAIN classify : classify[n] \notin RecordingsOf(job.path)

CatalogInv == IsTable(docs) /\ Catalogued /\ GivenOnce /\ JobKnows

LEMMA CatalogImplies == CatalogInv => AudiobookIsCatalogued
<1> SUFFICES ASSUME CatalogInv, NEW d \in DOMAIN docs, docs[d].type = "audiobook"
             PROVE  /\ \E e \in Entries : docs[e].title = docs[d].title \/ Overlaps(docs[e].title, docs[d].title)
                    /\ Cardinality({n \in DOMAIN classify : classify[n] = d}) <= 1
  BY DEF AudiobookIsCatalogued
<1>1. \E e \in Entries : docs[e].title = docs[d].title \/ Overlaps(docs[e].title, docs[d].title)
  BY DEF CatalogInv, Catalogued, IsRecording, HasEntry, Entries
<1> DEFINE given == {n \in DOMAIN classify : classify[n] = d}
<1>2. given = {} \/ \E n : given = {n}
  BY DEF CatalogInv, GivenOnce
<1>3. Cardinality(given) <= 1
  <2> HIDE DEF given
  <2>1. CASE given = {}
    BY <2>1, FS_EmptySet
  <2>2. ASSUME NEW n, given = {n} PROVE Cardinality(given) <= 1
    <3>1. Cardinality({n}) = 1
      BY FS_Singleton
    <3> QED BY <2>2, <3>1
  <2> QED BY <1>2, <2>1, <2>2
<1> QED BY <1>1, <1>3

LEMMA CatalogInitially == CatInit => CatalogInv
<1> SUFFICES ASSUME CatInit PROVE CatalogInv
  OBVIOUS
<1>1. docs = <<>> /\ classify = <<>> /\ job = Idle /\ DOMAIN docs = {} /\ DOMAIN classify = {}
  BY DEF CatInit
<1>2. IsTable(docs)
  BY <1>1, EmptySeq DEF IsTable
<1>3. classify \in Seq(Nat)
  BY <1>1, EmptySeq
<1> QED BY <1>1, <1>2, <1>3 DEF CatalogInv, Catalogued, GivenOnce, JobKnows, Idle

\* More entries, and other columns: all that was so is so.
LEMMA GrowthKeeps ==
    ASSUME CatalogInv, Grown(docs, docs'), UNCHANGED classify
    PROVE  /\ IsTable(docs') /\ Catalogued' /\ GivenOnce'
           /\ \A path : RecordingsOf(path)' = RecordingsOf(path)
           /\ \A t : HasEntry(docs, t) => HasEntry(docs', t)
           /\ \A e \in Entries : e \in Entries' /\ docs'[e].title = docs[e].title
<1>1. \A d \in DOMAIN docs' : docs'[d].type = "audiobook" =>
        d \in DOMAIN docs /\ IsRecording(d) /\ docs'[d].path = docs[d].path /\ docs'[d].title = docs[d].title
  BY DEF Grown, IsRecording
<1>2. \A t : HasEntry(docs, t) => HasEntry(docs', t)
  BY DEF HasEntry, Grown
<1>3. Catalogued'
  BY <1>1, <1>2 DEF CatalogInv, Catalogued, IsRecording
<1>4. GivenOnce'
  BY DEF CatalogInv, GivenOnce, Grown, IsRecording
<1>5. \A path : RecordingsOf(path)' = RecordingsOf(path)
  BY <1>1 DEF RecordingsOf, Grown
<1>6. \A e \in Entries : e \in Entries' /\ docs'[e].title = docs[e].title
  BY DEF Entries, Grown
<1> QED BY <1>2, <1>3, <1>4, <1>5, <1>6 DEF Grown

\* The same with a job that has nothing to do with recordings.
LEMMA OtherJobKeeps ==
    ASSUME CatalogInv, Grown(docs, docs'), UNCHANGED classify,
           job'.pc \notin {"entry", "document", "classify"}
    PROVE  CatalogInv'
BY GrowthKeeps DEF CatalogInv, JobKnows

LEMMA UnchangedKeeps ==
    ASSUME CatalogInv, Grown(docs, docs'), UNCHANGED <<classify, job>>
    PROVE  CatalogInv'
<1>1. JobKnows'
  BY GrowthKeeps DEF CatalogInv, JobKnows, Ingested
<1> QED BY <1>1, GrowthKeeps DEF CatalogInv

LEMMA FuzzyMatch ==
    ASSUME IsTable(docs), NEW meta, FuzzyMerge(meta) # 0
    PROVE  FuzzyMerge(meta) \in Entries /\ Overlaps(docs[FuzzyMerge(meta)].title, meta.title)
<1> DEFINE near == {d \in Entries : Overlaps(docs[d].title, meta.title)}
           best == {d \in near : \A e \in near : AtLeast(Score(docs[d], meta), Score(docs[e], meta))}
<1>1. best \subseteq near /\ near \subseteq Nat
  BY TableDomain DEF Entries
<1>2. best # {} /\ FuzzyMerge(meta) = Min(best)
  BY DEF FuzzyMerge
<1> HIDE DEF best
<1>3. Min(best) \in near
  BY <1>1, <1>2, MinIsThere
<1> QED BY <1>2, <1>3

\* The columns of one row are written, its type and its title are not.
LEMMA RewriteGrows ==
    ASSUME IsTable(docs), NEW d, NEW row, docs' = [docs EXCEPT ![d] = row],
           d \in DOMAIN docs =>
             /\ IsRow(row) /\ row.type = docs[d].type /\ row.title = docs[d].title
             /\ docs[d].type = "audiobook" => row.path = docs[d].path
    PROVE  Grown(docs, docs')
<1>1. PICK S : docs \in Seq(S) /\ \A r \in S : IsRow(r)
  BY DEF IsTable
<1>2. DOMAIN docs = 1..Len(docs)
  BY <1>1, LenProperties
<1>3. CASE d \notin DOMAIN docs
  <2>1. docs' = docs
    BY <1>1, <1>2, <1>3
  <2> QED BY <2>1, NotAppended
<1>4. CASE d \in DOMAIN docs
  <2>1. PICK T : T = S \cup {row}
    OBVIOUS
  <2>2. docs \in Seq(T) /\ row \in T /\ \A r \in T : IsRow(r)
    BY <1>1, <1>4, <2>1, SeqMonotonic
  <2>3. /\ docs' \in Seq(T) /\ Len(docs') = Len(docs)
        /\ \A n \in 1..Len(docs) : docs'[n] = IF n = d THEN row ELSE docs[n]
    BY <1>2, <1>4, <2>2, ExceptSeq
  <2>4. DOMAIN docs' = DOMAIN docs /\ IsTable(docs')
    BY <1>2, <2>2, <2>3, LenProperties DEF IsTable
  <2> QED BY <1>2, <1>4, <2>3, <2>4 DEF Grown
<1> QED BY <1>3, <1>4

-----------------------------------------------------------------------------
LEMMA IngestKeeps ==
    ASSUME CatalogInv, NEW path, IngestAudiobook(path)
    PROVE  CatalogInv'
<1>1. /\ job' = [pc |-> "entry", path |-> path, match |-> FuzzyMerge(Metadata(path))]
      /\ UNCHANGED <<docs, classify>> /\ ~Ingested(path)
  BY DEF IngestAudiobook, Begin
<1>2. Grown(docs, docs')
  BY <1>1, NotAppended DEF CatalogInv
<1>3. FuzzyMerge(Metadata(path)) # 0 =>
        /\ FuzzyMerge(Metadata(path)) \in Entries
        /\ Overlaps(docs[FuzzyMerge(Metadata(path))].title, Metadata(path).title)
  BY FuzzyMatch DEF CatalogInv
<1>4. job'.pc = "entry" /\ job'.path = path /\ job'.match = FuzzyMerge(Metadata(path))
  BY <1>1
<1>5. JobKnows'
  BY <1>1, <1>3, <1>4 DEF JobKnows, Ingested, RecordingsOf, Entries
<1> QED BY <1>1, <1>2, <1>5, GrowthKeeps DEF CatalogInv

\* From the entry to the document, of which there is none yet.
LEMMA DocumentNext ==
    ASSUME CatalogInv, Grown(docs, docs'), UNCHANGED classify, job.pc = "entry",
           job' = [pc |-> "document", path |-> job.path],
           HasEntry(docs', Metadata(job.path).title)
    PROVE  CatalogInv'
<1>1. ~Ingested(job.path) /\ RecordingsOf(job.path)' = {}
  BY GrowthKeeps DEF CatalogInv, JobKnows, Ingested
<1>2. JobKnows'
  BY <1>1 DEF JobKnows, Ingested, RecordingsOf
<1> QED BY <1>2, GrowthKeeps DEF CatalogInv

LEMMA UpdateKeeps == ASSUME CatalogInv, UpdateEntry PROVE CatalogInv'
<1>1. /\ job.pc = "entry" /\ job.match # 0 /\ UNCHANGED classify
      /\ job' = [pc |-> "document", path |-> job.path]
  BY DEF UpdateEntry
<1>2. /\ job.match \in Entries /\ Overlaps(docs[job.match].title, Metadata(job.path).title)
      /\ IsTable(docs)
  BY <1>1 DEF CatalogInv, JobKnows
<1> DEFINE d == job.match
           row == [docs[d] EXCEPT !.path = job.path, !.narrator = Metadata(job.path).narrator]
<1>3. docs' = [docs EXCEPT ![d] = row]
  BY DEF UpdateEntry
<1>4. IsRow(row) /\ row.type = docs[d].type /\ row.title = docs[d].title
  BY <1>2, TableDomain DEF IsRow, Entries
<1>5. docs[d].type # "audiobook"
  BY <1>2 DEF Entries
<1>6. Grown(docs, docs')
  <2> HIDE DEF row
  <2> QED BY <1>2, <1>3, <1>4, <1>5, RewriteGrows
<1>7. HasEntry(docs', Metadata(job.path).title)
  BY <1>2, <1>6 DEF HasEntry, Grown, Entries
<1> QED BY <1>1, <1>6, <1>7, DocumentNext

LEMMA InsertEntryKeeps == ASSUME CatalogInv, InsertEntry PROVE CatalogInv'
<1> DEFINE meta == Metadata(job.path)
           row == NewRow("storygraph_entry", meta, job.path)
<1>1. /\ job.pc = "entry" /\ UNCHANGED classify
      /\ job' = [pc |-> "document", path |-> job.path]
      /\ docs' = IF SameBook(docs, meta) THEN docs ELSE Append(docs, row)
  BY DEF InsertEntry
<1>2. IsRow(row) /\ row.type = "storygraph_entry" /\ row.title = meta.title
  BY DEF NewRow, IsRow
<1> HIDE DEF row
<1>3. IsTable(docs)
  BY DEF CatalogInv
<1>4. CASE SameBook(docs, meta)
  <2>1. HasEntry(docs, meta.title)
    BY <1>4 DEF SameBook, HasEntry
  <2> QED BY <1>1, <1>3, <1>4, <2>1, NotAppended, DocumentNext
<1>5. CASE ~SameBook(docs, meta)
  <2>1. docs' = Append(docs, row)
    BY <1>1, <1>5
  <2>2. HasEntry(docs', meta.title)
    BY <1>2, <1>3, <2>1, RowIsAppended DEF HasEntry
  <2> QED BY <1>1, <1>2, <1>3, <2>1, <2>2, EntryIsAppended, DocumentNext
<1> QED BY <1>4, <1>5

LEMMA InsertDocumentKeeps == ASSUME CatalogInv, InsertDocument PROVE CatalogInv'
<1>1. PICK path : path = job.path
  OBVIOUS
<1> DEFINE row == NewRow("audiobook", Metadata(path), path)
           new == Len(docs) + 1
<1>2. /\ job.pc = "document" /\ UNCHANGED classify /\ job' = [pc |-> "classify", path |-> path]
      /\ ~Ingested(path) /\ HasEntry(docs, Metadata(path).title) /\ IsTable(docs)
      /\ docs' = Append(docs, row)
  BY <1>1 DEF InsertDocument, CatalogInv, JobKnows
<1>3. IsRow(row) /\ row.type = "audiobook" /\ row.title = Metadata(path).title /\ row.path = path
  BY DEF NewRow, IsRow
<1> HIDE DEF row
<1>4. /\ IsTable(docs') /\ DOMAIN docs' = DOMAIN docs \cup {new} /\ new \notin DOMAIN docs
      /\ (\A n \in DOMAIN docs : docs'[n] = docs[n]) /\ docs'[new] = row
  BY <1>2, <1>3, RowIsAppended
<1> HIDE DEF new
<1>5. \A t : HasEntry(docs, t) => HasEntry(docs', t)
  BY <1>4 DEF HasEntry
<1>6. \A d \in DOMAIN docs : IsRecording(d) => docs[d].path # path
  BY <1>2 DEF Ingested, RecordingsOf, IsRecording
<1>7. Catalogued'
  <2>1. \A d \in DOMAIN docs' : IsRecording(d)' =>
          docs'[d].title = Metadata(docs'[d].path).title /\ HasEntry(docs', docs'[d].title)
    BY <1>2, <1>3, <1>4, <1>5 DEF CatalogInv, Catalogued, IsRecording
  <2>2. \A d, e \in DOMAIN docs' :
          IsRecording(d)' /\ IsRecording(e)' /\ docs'[d].path = docs'[e].path => d = e
    BY <1>3, <1>4, <1>6 DEF CatalogInv, Catalogued, IsRecording
  <2> QED BY <2>1, <2>2 DEF Catalogued
<1>8. GivenOnce'
  BY <1>2, <1>4 DEF CatalogInv, GivenOnce, IsRecording
<1>9. RecordingsOf(path)' = {new}
  BY <1>3, <1>4, <1>6 DEF RecordingsOf, IsRecording
<1>10. JobKnows'
  BY <1>2, <1>4, <1>9 DEF JobKnows, Ingested, RecordingsOf, CatalogInv, GivenOnce
<1> QED BY <1>4, <1>7, <1>8, <1>10 DEF CatalogInv

LEMMA ClassifyKeeps == ASSUME CatalogInv, EnqueueClassify PROVE CatalogInv'
<1> DEFINE d == Min(RecordingsOf(job.path))
<1>1. /\ UNCHANGED docs /\ classify' = Append(classify, d) /\ job' = Idle
      /\ RecordingsOf(job.path) # {} /\ \A n \in DOMAIN classify : classify[n] \notin RecordingsOf(job.path)
  BY DEF EnqueueClassify, CatalogInv, JobKnows, Ingested
<1>2. RecordingsOf(job.path) \in SUBSET Nat
  BY TableDomain DEF RecordingsOf, CatalogInv
<1>3. d \in RecordingsOf(job.path)
  BY <1>1, <1>2, MinIsThere
<1>4. d \in Nat /\ d \in DOMAIN docs /\ IsRecording(d) /\ \A n \in DOMAIN classify : classify[n] # d
  BY <1>1, <1>2, <1>3 DEF RecordingsOf, IsRecording
<1> HIDE DEF d
<1>5. classify \in Seq(Nat)
  BY DEF CatalogInv, GivenOnce
<1>6. /\ classify' \in Seq(Nat) /\ Len(classify) \in Nat
      /\ DOMAIN classify = 1..Len(classify) /\ DOMAIN classify' = 1..(Len(classify) + 1)
      /\ (\A n \in 1..Len(classify) : classify'[n] = classify[n]) /\ classify'[Len(classify) + 1] = d
  BY <1>1, <1>4, <1>5, AppendProperties, LenProperties
<1>7. \A n \in DOMAIN classify' :
        \/ n \in DOMAIN classify /\ classify'[n] = classify[n]
        \/ n = Len(classify) + 1 /\ classify'[n] = d
  BY <1>6
<1>8. GivenOnce'
  <2>1. \A n \in DOMAIN classify' : 
          classify'[n] \in DOMAIN docs' /\ docs'[classify'[n]].type = "audiobook"
    <3>1. \A n \in DOMAIN classify : classify[n] \in DOMAIN docs /\ IsRecording(classify[n])
      BY DEF CatalogInv, GivenOnce
    <3> QED BY <1>1, <1>4, <1>7, <3>1 DEF IsRecording
  <2>2. \A m, n \in DOMAIN classify' : classify'[m] = classify'[n] => m = n
    BY <1>4, <1>7 DEF CatalogInv, GivenOnce
  <2> QED BY <1>6, <2>1, <2>2 DEF GivenOnce, IsRecording
<1>9. IsTable(docs') /\ Catalogued' /\ JobKnows'
  BY <1>1 DEF CatalogInv, Catalogued, IsRecording, JobKnows, Idle
<1> QED BY <1>8, <1>9 DEF CatalogInv

LEMMA EnrichmentKeeps ==
    ASSUME CatalogInv, \/ \E d \in Rows, force \in BOOLEAN : EnrichBook(d, force)
                       \/ AskOpenLibrary \/ AskGoogleBooks \/ WriteEnrichment \/ EmbedBook
    PROVE  CatalogInv'
<1>1. IsTable(docs)
  BY DEF CatalogInv
<1>2. CASE \E d \in Rows, force \in BOOLEAN : EnrichBook(d, force)
  BY <1>1, <1>2, NotAppended, OtherJobKeeps DEF EnrichBook, Begin
<1>3. CASE AskOpenLibrary
  <2>1. UNCHANGED <<docs, classify>>
    BY <1>3 DEF AskOpenLibrary
  <2>2. PICK data : OpenLibrarySays(data)
    BY <1>3 DEF AskOpenLibrary
  <2>3. job'.pc \in {"write", "google_books"}
    BY <2>2 DEF OpenLibrarySays
  <2> QED BY <1>1, <2>1, <2>3, NotAppended, OtherJobKeeps
<1>4. CASE AskGoogleBooks
  <2>1. UNCHANGED <<docs, classify>>
    BY <1>4 DEF AskGoogleBooks
  <2>2. PICK data : GoogleBooksSays(data)
    BY <1>4 DEF AskGoogleBooks
  <2>3. job'.pc \in {"write", "embed"}
    BY <2>2 DEF GoogleBooksSays
  <2> QED BY <1>1, <2>1, <2>3, NotAppended, OtherJobKeeps
<1>5. CASE WriteEnrichment
  <2> DEFINE row == [docs[job.doc] EXCEPT !.description = job.data.description,
                        !.subjects = job.data.subjects, !.source = job.data.source]
  <2>1. docs' = [docs EXCEPT ![job.doc] = row] /\ job'.pc = "embed" /\ UNCHANGED classify
    BY <1>5 DEF WriteEnrichment
  <2>2. job.doc \in DOMAIN docs =>
          /\ IsRow(row) /\ row.type = docs[job.doc].type /\ row.title = docs[job.doc].title
          /\ row.path = docs[job.doc].path
    BY <1>1, TableDomain DEF IsRow
  <2> HIDE DEF row
  <2> QED BY <1>1, <2>1, <2>2, RewriteGrows, OtherJobKeeps
<1>6. CASE EmbedBook
  <2> DEFINE text == IF docs[job.doc].text # <<>> THEN docs[job.doc].text
                     ELSE IF job.description # "" THEN <<job.description>>
                     ELSE FallbackText(docs[job.doc], job.subjects)
             row == [docs[job.doc] EXCEPT !.text = text]
  <2>1. docs' = [docs EXCEPT ![job.doc] = row] /\ job'.pc = "idle" /\ UNCHANGED classify
    BY <1>6 DEF EmbedBook, Idle
  <2>2. job.doc \in DOMAIN docs =>
          /\ IsRow(row) /\ row.type = docs[job.doc].type /\ row.title = docs[job.doc].title
          /\ row.path = docs[job.doc].path
    BY <1>1, TableDomain DEF IsRow
  <2> HIDE DEF row
  <2> QED BY <1>1, <2>1, <2>2, RewriteGrows, OtherJobKeeps
<1> QED BY <1>2, <1>3, <1>4, <1>5, <1>6

LEMMA CatalogStep == CatalogInv /\ [CatNext]_catVars => CatalogInv'
<1> SUFFICES ASSUME CatalogInv, [CatNext]_catVars PROVE CatalogInv'
  OBVIOUS
<1>1. IsTable(docs)
  BY DEF CatalogInv
<1>2. CASE EmbeddingFails \/ WorkerDies
  BY <1>1, <1>2, NotAppended, OtherJobKeeps DEF EmbeddingFails, WorkerDies, Idle
<1>3. CASE ImportReadList
  BY <1>1, <1>3, ImportGrows, UnchangedKeeps DEF ImportReadList
<1>4. CASE UNCHANGED catVars
  BY <1>1, <1>4, NotAppended, UnchangedKeeps DEF catVars
<1> QED BY <1>2, <1>3, <1>4, IngestKeeps, UpdateKeeps, InsertEntryKeeps, InsertDocumentKeeps,
           ClassifyKeeps, EnrichmentKeeps DEF CatNext, HandlerStep

\* An audiobook that has its document has an entry of about its title, and was given to
\* classify_book once at most, for any shelf, any export and any answers, however often
\* a book is submitted and wherever a worker dies.
THEOREM RecordingsAreCatalogued == CatSpec => []AudiobookIsCatalogued
BY CatalogImplies, CatalogInitially, CatalogStep, PTL DEF CatSpec

-----------------------------------------------------------------------------
(* Library. What the fast path passes over is in the documents: the size   *)
(* and time in a row are of a file that nobody has replaced before it was  *)
(* copied, or of one that is there no more.                                *)

Stats == [size : Nat, mtime : Nat]
BookRows == [path : BookFile, hash : Content, stat : Stats \cup {NoStat},
             status : {"failed", "ingesting", "embedded"}]
Readers ==
    {NotReading} \cup [pc : {"copy"}, path : BookFile, stat : Stats]
    \cup [pc : {"insert"}, path : BookFile, stat : Stats, content : Content]
    \cup [pc : {"embed"}, row : Nat]

\* A file of this content was there at that time, and nothing else since if the time is
\* still that of the file.
WasThere(path, st, content) ==
    /\ st.mtime <= file[path].mtime
    /\ st.mtime = file[path].mtime => content = file[path].content

LibTypeOK ==
    /\ file \in [BookFile -> [content : Content, mtime : Nat]]
    /\ rows \in Seq(BookRows)
    /\ queue \subseteq BookFile
    /\ reader \in Readers
    /\ reader.pc = "embed" => reader.row \in DOMAIN rows
    /\ scan.left \subseteq BookFile
    /\ \A f \in scan.found : f.path \in BookFile

RowsWereThere ==
    \A n \in DOMAIN rows :
        rows[n].stat \in Stats => WasThere(rows[n].path, rows[n].stat, rows[n].hash)

ReaderSaw ==
    /\ reader.pc = "copy" => WasThere(reader.path, reader.stat, file[reader.path].content)
    /\ reader.pc = "insert" => WasThere(reader.path, reader.stat, reader.content)

LibInv == LibTypeOK /\ RowsWereThere /\ ReaderSaw

\* library_scan.py: a file whose path, size and time are those of a row is passed over
\* without a look into it. Then its content is in the documents, although it may have been
\* replaced at any time before, even while the handler copied it.
FastPathIsSound ==
    \A path \in BookFile : FastPath(path, Stat(file[path])) => Known(file[path].content)

LEMMA NullIsNoStat == NoStat \notin Stats
<1> SUFFICES ASSUME NoStat \in Stats PROVE FALSE
  OBVIOUS
<1>1. DOMAIN NoStat = {"size"}
  BY DEF NoStat
<1>2. DOMAIN NoStat = {"size", "mtime"}
  BY DEF Stats
<1> QED BY <1>1, <1>2

LEMMA RowIs ==
    ASSUME LibTypeOK, NEW n \in DOMAIN rows
    PROVE  rows[n] \in BookRows
<1>1. rows \in Seq(BookRows) /\ n \in 1..Len(rows)
  BY DEF LibTypeOK
<1> QED BY <1>1, ElementOfSeq

LEMMA StatIs ==
    ASSUME LibTypeOK, NEW path \in BookFile
    PROVE  /\ Stat(file[path]) \in Stats /\ Stat(file[path]).mtime = file[path].mtime
           /\ file[path].content \in Content /\ file[path].mtime \in Nat
BY LibraryAssumption DEF LibTypeOK, Stat, Stats

LEMMA FastPathImplied == LibInv => FastPathIsSound
<1> SUFFICES ASSUME LibInv, NEW path \in BookFile, FastPath(path, Stat(file[path]))
             PROVE  Known(file[path].content)
  BY DEF FastPathIsSound
<1> DEFINE n == OldestRow(path)
<1>1. RowsOf(path) # {} /\ RowsOf(path) \in SUBSET Nat
  BY DEF FastPath, RowsOf, LibInv, LibTypeOK
<1>2. n \in RowsOf(path)
  BY <1>1, MinIsThere DEF OldestRow, Min
<1>3. rows[n].stat = Stat(file[path])
  BY DEF FastPath
<1>4. n \in DOMAIN rows /\ rows[n].path = path
  BY <1>2 DEF RowsOf
<1> HIDE DEF n
<1>5. rows[n].hash = file[path].content
  BY <1>3, <1>4, StatIs DEF LibInv, RowsWereThere, WasThere
<1> QED BY <1>4, <1>5 DEF Known

LEMMA LibInitially == LibInit => LibInv
<1> SUFFICES ASSUME LibInit PROVE LibInv
  OBVIOUS
<1>1. file \in [BookFile -> [content : Content, mtime : Nat]]
  BY DEF LibInit
<1>2. rows = <<>> /\ rows \in Seq(BookRows) /\ DOMAIN rows = {}
  BY DEF LibInit
<1>3. reader = NotReading /\ reader.pc = "idle" /\ queue = {} /\ scan.left = {} /\ scan.found = {}
  BY DEF LibInit, NotReading, NotScanning
<1> QED BY <1>1, <1>2, <1>3 DEF LibInv, LibTypeOK, RowsWereThere, ReaderSaw, Readers

\* Another row, and the worker goes on or is through.
LEMMA AnotherRow ==
    ASSUME LibInv, UNCHANGED <<file, queue, scan>>, NEW row \in BookRows, rows' = Append(rows, row),
           row.stat \in Stats => WasThere(row.path, row.stat, row.hash),
           reader' \in {NotReading, [pc |-> "embed", row |-> Len(rows) + 1]}
    PROVE  LibInv'
<1>1. /\ rows' \in Seq(BookRows) /\ Len(rows) \in Nat
      /\ DOMAIN rows' = DOMAIN rows \cup {Len(rows) + 1}
      /\ \A n \in DOMAIN rows : rows'[n] = rows[n]
      /\ rows'[Len(rows) + 1] = row
  BY AppendProperties DEF LibInv, LibTypeOK
<1>2. /\ reader' \in Readers /\ reader'.pc \notin {"copy", "insert"}
      /\ reader'.pc = "embed" => reader'.row \in DOMAIN rows'
  BY <1>1 DEF Readers, NotReading
<1>3. RowsWereThere'
  BY <1>1 DEF LibInv, RowsWereThere, WasThere
<1> QED BY <1>1, <1>2, <1>3 DEF LibInv, LibTypeOK, ReaderSaw

LEMMA LibStep == LibInv /\ [LibNext]_libVars => LibInv'
<1> SUFFICES ASSUME LibInv, [LibNext]_libVars PROVE LibInv'
  OBVIOUS
<1>1. ASSUME NEW path \in BookFile, ReplaceFile(path) PROVE LibInv'
  <2>1. PICK c \in Content : file' = [file EXCEPT ![path] = [content |-> c, mtime |-> file[path].mtime + 1]]
    BY <1>1 DEF ReplaceFile
  <2>2. UNCHANGED <<rows, queue, reader, scan>>
    BY <1>1 DEF ReplaceFile
  <2>3. /\ file' \in [BookFile -> [content : Content, mtime : Nat]]
        /\ \A p \in BookFile : \/ file'[p] = file[p]
                               \/ file[p].mtime \in Nat /\ file'[p].mtime = file[p].mtime + 1
    BY <2>1 DEF LibInv, LibTypeOK
  <2>4. ASSUME NEW p \in BookFile, NEW st \in Stats, NEW x, WasThere(p, st, x)
        PROVE  WasThere(p, st, x)'
    BY <2>3, <2>4 DEF WasThere, Stats, LibInv, LibTypeOK
  <2>C. RowsWereThere'
    <3> SUFFICES ASSUME NEW n \in DOMAIN rows, rows[n].stat \in Stats
                 PROVE  WasThere(rows[n].path, rows[n].stat, rows[n].hash)'
      BY <2>2 DEF RowsWereThere
    <3>1. rows[n].path \in BookFile
      BY RowIs DEF LibInv, BookRows
    <3>2. PICK r : r = rows[n]
      OBVIOUS
    <3>3. WasThere(r.path, r.stat, r.hash)'
      BY <2>4, <3>1, <3>2 DEF LibInv, RowsWereThere
    <3> QED BY <2>2, <3>2, <3>3 DEF WasThere
  <2>B. LibTypeOK'
    BY <2>2, <2>3 DEF LibInv, LibTypeOK
  <2>7. ASSUME reader.pc \in {"copy", "insert"} PROVE ReaderSaw'
    <3>1. reader.path \in BookFile /\ reader.stat \in Stats
      BY <2>7 DEF LibInv, LibTypeOK, Readers, NotReading
    <3>2. CASE reader.pc = "copy"
      <4>1. reader.stat.mtime <= file'[reader.path].mtime
        BY <2>4, <3>1, <3>2 DEF LibInv, ReaderSaw, WasThere
      <4> QED BY <2>2, <3>2, <4>1 DEF ReaderSaw, WasThere
    <3>3. CASE reader.pc = "insert"
      BY <2>2, <2>4, <3>1, <3>3 DEF LibInv, ReaderSaw
    <3> QED BY <2>7, <3>2, <3>3
  <2> QED BY <2>2, <2>C, <2>B, <2>7 DEF LibInv, ReaderSaw
<1>2. ASSUME NEW path \in BookFile, TakeBook(path) PROVE LibInv'
  BY <1>2, StatIs DEF TakeBook, LibInv, LibTypeOK, RowsWereThere, ReaderSaw, Readers, WasThere
<1>3. CASE Copy
  <2>1. reader.path \in BookFile /\ reader.stat \in Stats /\ reader.pc = "copy"
    BY <1>3 DEF Copy, LibInv, LibTypeOK, Readers, NotReading
  <2> QED BY <1>3, <2>1, StatIs DEF Copy, LibInv, LibTypeOK, RowsWereThere, ReaderSaw, Readers, WasThere
<1>4. CASE reader' = NotReading /\ UNCHANGED <<file, rows, scan>> /\ queue' \subseteq BookFile
  BY <1>4 DEF LibInv, LibTypeOK, RowsWereThere, ReaderSaw, Readers, WasThere, NotReading
<1>5. CASE AlreadyKnown \/ CopyHangs \/ ReadingEnds
  BY <1>4, <1>5 DEF AlreadyKnown, CopyHangs, ReadingEnds, LibInv, LibTypeOK
<1>6. CASE InsertBook \/ ExtractionFails
  <2>1. /\ reader.path \in BookFile /\ reader.stat \in Stats /\ reader.content \in Content
        /\ WasThere(reader.path, reader.stat, reader.content)
    BY <1>6 DEF InsertBook, ExtractionFails, LibInv, LibTypeOK, Readers, NotReading, ReaderSaw
  <2>2. CASE InsertBook
    <3>1. Row("ingesting", reader.stat) \in BookRows
      BY <2>1 DEF Row, BookRows
    <3> QED BY <2>1, <2>2, <3>1, AnotherRow DEF InsertBook, Row
  <2>3. CASE ExtractionFails
    <3>1. Row("failed", NoStat) \in BookRows
      BY <2>1 DEF Row, BookRows
    <3> QED BY <2>3, <3>1, AnotherRow, NullIsNoStat DEF ExtractionFails, Row
  <2> QED BY <1>6, <2>2, <2>3
<1>7. CASE EmbedBookText
  <2>1. reader.row \in DOMAIN rows /\ reader' = NotReading /\ UNCHANGED <<file, queue, scan>>
    BY <1>7 DEF EmbedBookText, LibInv, LibTypeOK
  <2>2. rows' = [rows EXCEPT ![reader.row] = [rows[reader.row] EXCEPT !.status = "embedded"]]
    BY <1>7 DEF EmbedBookText
  <2>3. rows[reader.row] \in BookRows
    BY <2>1, RowIs DEF LibInv
  <2> DEFINE row == [path |-> rows[reader.row].path, hash |-> rows[reader.row].hash,
                     stat |-> rows[reader.row].stat, status |-> "embedded"]
  <2>4. row \in BookRows /\ row = [rows[reader.row] EXCEPT !.status = "embedded"]
    BY <2>3 DEF BookRows
  <2> HIDE DEF row
  <2>A. row.path = rows[reader.row].path /\ row.stat = rows[reader.row].stat /\ row.hash = rows[reader.row].hash
    BY DEF row
  <2>C. /\ rows' \in Seq(BookRows) /\ DOMAIN rows' = DOMAIN rows
        /\ \A n \in DOMAIN rows : rows'[n] = IF n = reader.row THEN row ELSE rows[n]
    BY <2>1, <2>2, <2>4 DEF LibInv, LibTypeOK
  <2>B. RowsWereThere'
    BY <2>1, <2>C, <2>A DEF LibInv, RowsWereThere, WasThere
  <2> QED BY <2>1, <2>C, <2>B DEF LibInv, LibTypeOK, ReaderSaw, Readers, NotReading
<1>8. ASSUME UNCHANGED <<file, rows, reader>>, queue' \subseteq BookFile,
             scan'.left \subseteq BookFile, \A f \in scan'.found : f.path \in BookFile
      PROVE  LibInv'
  BY <1>8 DEF LibInv, LibTypeOK, RowsWereThere, ReaderSaw, WasThere
<1>9. CASE StartLibraryScan
  BY <1>8, <1>9 DEF StartLibraryScan, LibInv, LibTypeOK
<1>10. ASSUME NEW path \in BookFile, ScanStat(path) PROVE LibInv'
  BY <1>8, <1>10 DEF ScanStat, LibInv, LibTypeOK
<1>11. CASE ScanCheck
  <2>1. PICK f \in scan.found :
          /\ queue' \subseteq queue \cup {f.path}
          /\ scan' = [scan EXCEPT !.found = @ \ {f}]
    BY <1>11 DEF ScanCheck
  <2>2. f.path \in BookFile /\ queue' \subseteq BookFile
    BY <2>1 DEF LibInv, LibTypeOK
  <2>3. scan'.left \subseteq scan.left /\ scan'.found \subseteq scan.found
    BY <2>1
  <2> QED BY <1>8, <1>11, <2>2, <2>3 DEF ScanCheck, LibInv, LibTypeOK
<1>12. CASE UNCHANGED libVars
  BY <1>8, <1>12 DEF libVars, LibInv, LibTypeOK
<1> QED BY <1>1, <1>2, <1>3, <1>5, <1>6, <1>7, <1>9, <1>10, <1>11, <1>12
        DEF LibNext, Scanning, Reading

\* FastPathIsSound: the safety part of NewestIsRecorded, for any files, edits and deaths.
THEOREM FastPathHidesNothing == LibSpec => []FastPathIsSound
<1>1. LibSpec => []LibInv
  BY LibInitially, LibStep, PTL DEF LibSpec
<1> QED BY <1>1, FastPathImplied, PTL
-----------------------------------------------------------------------------
(* FilmCatalog. An outage never costs a plot: nobody but the job at work    *)
(* writes rows, and it has found its row without a plot.                    *)

Details == {"plot", "plain", "none"}
Critics == {Off} \cup [pc : {"store", "embed"}, details : Details]

Ushers ==
    [pc : {"look"}, left : SUBSET Entry] \cup [pc : {"submit"}, entry : Entry, left : SUBSET Entry]

FilmTypeOK ==
    /\ films \in [Entry -> [details : Details \cup {"no row"}, chunks : {"nothing", "plot", "fallback"}]]
    /\ orders \in Seq(Entry)
    /\ usher \in Ushers
    /\ critic \in Critics

\* What the job has in hand, and what it has stored.
ReviewInHand ==
    /\ critic # Off => orders # <<>>
    /\ critic.pc = "store" => ~IsEnriched(Wanted) /\ critic.details \in {Tmdb[Wanted], "none"}
    /\ critic.pc = "embed" => critic.details = films[Wanted].details

\* _handle_video: a row says what TMDB has of its film, or nothing, and no plot was embedded
\* that the row does not have.
FilmsAreTrue ==
    \A e \in Entry :
        /\ films[e].details \in {Tmdb[e], "none", "no row"}
        /\ films[e].chunks = "plot" => films[e].details = "plot"

FilmInv == FilmTypeOK /\ ReviewInHand /\ FilmsAreTrue

\* _handle_video writes over every column with what the client gave, which for an error is
\* nothing. No row loses its plot by that, although the scan may submit an entry again
\* whose job it has just seen finish.
PlotsStay == [][\A e \in Entry : IsEnriched(e) => IsEnriched(e)']_filmVars

LEMMA FilmInitially == FilmInit => FilmInv
<1> SUFFICES ASSUME FilmInit PROVE FilmInv
  OBVIOUS
<1>1. /\ films \in [Entry -> [details : Details \cup {"no row"}, chunks : {"nothing", "plot", "fallback"}]]
      /\ \A e \in Entry : films[e].details = "no row" /\ films[e].chunks = "nothing"
  BY DEF FilmInit, NoRow
<1>2. orders \in Seq(Entry)
  BY DEF FilmInit
<1>3. usher \in Ushers
  BY DEF FilmInit, Ushers, OnItsWay
<1>4. critic = Off /\ critic \in Critics /\ critic.pc = "off"
  BY DEF FilmInit, Critics, Off
<1> QED BY <1>1, <1>2, <1>3, <1>4 DEF FilmInv, FilmTypeOK, ReviewInHand, FilmsAreTrue

\* One more job behind the others.
LEMMA OrderBehind ==
    ASSUME orders \in Seq(Entry), NEW e \in Entry
    PROVE  /\ Append(orders, e) \in Seq(Entry) /\ Append(orders, e) # <<>>
           /\ orders # <<>> => Head(Append(orders, e)) = Head(orders)
<1>1. /\ Append(orders, e) \in Seq(Entry) /\ Len(Append(orders, e)) = Len(orders) + 1
      /\ \A n \in 1 .. Len(orders) : Append(orders, e)[n] = orders[n]
  BY AppendProperties
<1>2. orders # <<>> => Len(orders) \in Nat \ {0}
  BY EmptySeq
<1> QED BY <1>1, <1>2, EmptySeq

LEMMA OrderInHand ==
    ASSUME FilmTypeOK, orders # <<>>
    PROVE  Wanted \in Entry /\ Tail(orders) \in Seq(Entry)
BY HeadTailProperties DEF FilmTypeOK, Wanted

LEMMA FilmStep ==
    FilmInv /\ [FilmNext]_filmVars =>
        FilmInv' /\ \A e \in Entry : IsEnriched(e) => IsEnriched(e)'
<1> SUFFICES ASSUME FilmInv, [FilmNext]_filmVars
             PROVE  FilmInv' /\ \A e \in Entry : IsEnriched(e) => IsEnriched(e)'
  OBVIOUS
<1> USE FilmAssumption DEF FilmInv, Details
<1>1. ASSUME UNCHANGED <<films, orders, critic>>, usher' \in Ushers
      PROVE  FilmInv' /\ \A e \in Entry : IsEnriched(e) => IsEnriched(e)'
  BY <1>1 DEF FilmTypeOK, ReviewInHand, FilmsAreTrue, IsEnriched, Wanted
<1>2. CASE UNCHANGED filmVars \/ StartScan \/ \E e \in Entry : LookAt(e)
  <2>1. UNCHANGED <<films, orders, critic>>
    BY <1>2 DEF filmVars, StartScan, LookAt
  <2>2. usher \in Ushers
    BY DEF FilmTypeOK
  <2>3. ASSUME UNCHANGED filmVars PROVE usher' \in Ushers
    BY <2>2, <2>3 DEF filmVars
  <2>4. ASSUME StartScan PROVE usher' \in Ushers
    BY <2>4 DEF StartScan, OnItsWay, Ushers
  <2>5. ASSUME NEW e \in Entry, LookAt(e) PROVE usher' \in Ushers
    <3>1. usher.left \ {e} \in SUBSET Entry
      BY <2>2 DEF Ushers
    <3> QED BY <2>5, <3>1 DEF LookAt, OnItsWay, Ushers
  <2>6. usher' \in Ushers
    BY <1>2, <2>3, <2>4, <2>5 DEF filmVars
  <2> QED BY <1>1, <2>1, <2>6
<1>3. CASE SubmitEntry
  <2>1. usher.entry \in Entry /\ usher' \in Ushers
    BY <1>3 DEF SubmitEntry, FilmTypeOK, OnItsWay, Ushers
  <2>2. /\ orders' \in Seq(Entry)
        /\ orders # <<>> => orders' # <<>> /\ Head(orders') = Head(orders)
    BY <1>3, <2>1, OrderBehind DEF SubmitEntry, FilmTypeOK
  <2>3. UNCHANGED <<films, critic>>
    BY <1>3 DEF SubmitEntry
  <2>4. ReviewInHand'
    <3>1. CASE critic = Off
      BY <2>3, <3>1 DEF Off, ReviewInHand
    <3>2. CASE critic # Off
      BY <2>2, <2>3, <3>2 DEF ReviewInHand, IsEnriched, Wanted
    <3> QED BY <3>1, <3>2
  <2>5. FilmTypeOK' /\ FilmsAreTrue'
    BY <2>1, <2>2, <2>3 DEF FilmTypeOK, FilmsAreTrue
  <2> QED BY <2>3, <2>4, <2>5 DEF IsEnriched
\* The job is over, and has stored nothing since.
<1>4. ASSUME critic' = Off, orders # <<>>, JobOver, UNCHANGED <<films, usher>>
      PROVE  FilmInv' /\ \A e \in Entry : IsEnriched(e) => IsEnriched(e)'
  BY <1>4, OrderInHand DEF JobOver, Off, Critics, FilmTypeOK, ReviewInHand, FilmsAreTrue, IsEnriched
<1>5. CASE RejectEntry \/ EmbedPlotFails \/ FilmJobFails
  BY <1>4, <1>5 DEF RejectEntry, EmbedPlotFails, FilmJobFails, ReviewInHand, Off
<1>6. CASE AskTmdb
  <2>1. Wanted \in Entry /\ Tmdb[Wanted] \in Details
    <3>1. orders # <<>>
      BY <1>6 DEF AskTmdb
    <3> QED BY <3>1, OrderInHand
  <2>2. PICK d \in {Tmdb[Wanted], "none"} : critic' = [pc |-> "store", details |-> d]
    BY <1>6 DEF AskTmdb
  <2>3. ~IsEnriched(Wanted) /\ orders # <<>> /\ UNCHANGED <<films, orders, usher>>
    BY <1>6 DEF AskTmdb
  <2>4. critic' \in Critics /\ critic'.pc = "store" /\ critic'.details = d
    BY <2>1, <2>2 DEF Critics
  <2>5. ReviewInHand'
    BY <2>2, <2>3, <2>4 DEF ReviewInHand, IsEnriched, Wanted
  <2>6. FilmTypeOK' /\ FilmsAreTrue'
    BY <2>3, <2>4 DEF FilmTypeOK, FilmsAreTrue
  <2> QED BY <2>3, <2>5, <2>6 DEF IsEnriched
<1>7. CASE StoreDetails
  <2>1. critic.pc = "store" /\ UNCHANGED <<orders, usher>>
    BY <1>7 DEF StoreDetails
  <2>8. critic \in [pc : {"store", "embed"}, details : Details] /\ critic # Off
    <3>1. critic # Off
      <4>1. Off.pc = "off"
        BY DEF Off
      <4> QED BY <2>1, <4>1
    <3>2. critic \in {Off} \cup [pc : {"store", "embed"}, details : Details]
      BY DEF FilmTypeOK, Critics
    <3> QED BY <3>1, <3>2
  <2>9. Wanted \in Entry /\ orders # <<>>
    BY <2>8, OrderInHand DEF ReviewInHand
  <2>2. critic' = [pc |-> "embed", details |-> critic.details]
    BY <1>7, <2>8 DEF StoreDetails
  <2>3. ~IsEnriched(Wanted) /\ critic.details \in {Tmdb[Wanted], "none"}
    BY <2>1 DEF ReviewInHand
  <2>4. PICK w \in Entry : w = Wanted
    BY <2>9
  <2>5. films' = [films EXCEPT ![w] = [films[w] EXCEPT !.details = critic.details]]
    BY <1>7, <2>4 DEF StoreDetails
  <2>6. /\ films' \in [Entry -> [details : Details \cup {"no row"}, chunks : {"nothing", "plot", "fallback"}]]
        /\ films'[w].details = critic.details /\ films'[w].chunks = films[w].chunks
        /\ \A e \in Entry \ {w} : films'[e] = films[e]
    BY <2>4, <2>5, <2>8 DEF FilmTypeOK
  <2>7. films[w].details # "plot" /\ films[w].chunks # "plot"
    BY <2>3, <2>4 DEF FilmsAreTrue, IsEnriched
  <2>10. critic' \in Critics /\ critic'.pc = "embed" /\ critic'.details = films'[w].details
    BY <2>2, <2>6, <2>8 DEF Critics
  <2>11. ReviewInHand'
    BY <2>1, <2>4, <2>9, <2>10 DEF ReviewInHand, Wanted
  <2>12. FilmsAreTrue'
    BY <2>3, <2>4, <2>6, <2>7 DEF FilmsAreTrue
  <2>13. \A e \in Entry : IsEnriched(e) => IsEnriched(e)'
    BY <2>6, <2>7 DEF IsEnriched
  <2> QED BY <2>1, <2>6, <2>10, <2>11, <2>12, <2>13 DEF FilmTypeOK
<1>8. CASE EmbedPlot
  <2>1. Wanted \in Entry /\ orders # <<>> /\ critic # Off
    BY <1>8, OrderInHand DEF EmbedPlot, ReviewInHand, Off
  <2>2. PICK w \in Entry, chunks \in {"nothing", "plot", "fallback"} :
            /\ w = Wanted
            /\ films' = [films EXCEPT ![w] = [films[w] EXCEPT !.chunks = chunks]]
            /\ chunks = "plot" => films[w].details = "plot"
    <3> DEFINE chunks == IF films[Wanted].chunks # "nothing" THEN films[Wanted].chunks
                         ELSE IF critic.details = "plot" THEN "plot" ELSE "fallback"
    <3>1. films' = [films EXCEPT ![Wanted] = [films[Wanted] EXCEPT !.chunks = chunks]]
      BY <1>8, <2>1 DEF EmbedPlot
    <3>2. chunks \in {"nothing", "plot", "fallback"}
      BY <2>1 DEF FilmTypeOK
    <3>3. chunks = "plot" => films[Wanted].details = "plot"
      BY <1>8, <2>1 DEF EmbedPlot, ReviewInHand, FilmsAreTrue
    <3> HIDE DEF chunks
    <3> QED BY <2>1, <3>1, <3>2, <3>3
  <2>3. /\ films' \in [Entry -> [details : Details \cup {"no row"}, chunks : {"nothing", "plot", "fallback"}]]
        /\ \A e \in Entry : films'[e].details = films[e].details
        /\ \A e \in Entry : films'[e].chunks = "plot" => films[e].details = "plot"
    BY <2>2 DEF FilmTypeOK, FilmsAreTrue
  <2>4. critic' = Off /\ critic'.pc = "off" /\ UNCHANGED usher
    BY <1>8 DEF EmbedPlot, Off
  <2>5. orders' \in Seq(Entry)
    BY <1>8, <2>1, OrderInHand DEF EmbedPlot, JobOver
  <2>6. FilmsAreTrue' /\ ReviewInHand'
    BY <2>3, <2>4 DEF FilmsAreTrue, ReviewInHand
  <2>7. FilmTypeOK'
    BY <2>3, <2>4, <2>5 DEF FilmTypeOK, Critics
  <2> QED BY <2>3, <2>6, <2>7 DEF IsEnriched
<1> QED BY <1>2, <1>3, <1>5, <1>6, <1>7, <1>8 DEF FilmNext, Ushering, Reviewing

\* FilmsAreTrue and PlotsStay: the safety part of FilmsAreCatalogued, for any drive, outages
\* and deaths.
THEOREM PlotsAreKept == FilmSpec => []FilmsAreTrue /\ PlotsStay
<1>1. FilmSpec => []FilmInv
  BY FilmInitially, FilmStep, PTL DEF FilmSpec
<1>2. FilmSpec => [][FilmNext]_filmVars
  BY PTL DEF FilmSpec
<1>3. FilmInv /\ [FilmNext]_filmVars => [\A e \in Entry : IsEnriched(e) => IsEnriched(e)']_filmVars
  BY FilmStep
<1>4. FilmInv => FilmsAreTrue
  BY DEF FilmInv
<1> QED BY <1>1, <1>2, <1>3, <1>4, PTL DEF PlotsStay
=============================================================================
