------------------------------ MODULE Profile ------------------------------
(***************************************************************************)
(* The profile, current.md: the `correct` tool of the server appends       *)
(* directives to it, and once a month a regenerate_profile job of the      *)
(* worker sends it through a language model and replaces it. Both read     *)
(* the file, work on what they have read, and write the whole of it; no    *)
(* lock is held in between. A profile is the set of its directives: those  *)
(* in the bulleted form the model's answer is validated against, and those *)
(* in the form `correct` writes. An absent file has none.                  *)
(***************************************************************************)
EXTENDS Naturals, FiniteSets

CONSTANTS
    Directive,      \* lines tagged [directive, YYYY-MM-DD]
    Addition,       \* files somebody drops into profile/inbox/
    MaxMishaps      \* bound: answers that are refused, failures, deaths

ASSUME ProfileAssumption == MaxMishaps \in Nat

VARIABLES
    profile,        \* current.md
    past,           \* the snapshots in profile/history/
    mailbox,        \* profile/inbox/
    filed,          \* profile/inbox/processed/
    regen,          \* what the handler does
    corrector,      \* what the server does
    applied,        \* the directives the server called "applied"
    heeded,         \* the additions the model was given for a profile that was written
    latecomers,     \* the additions that came in between the two looks into the inbox
    calm,           \* nobody corrects while the handler is at work
    mishaps         \* how much went wrong so far

proVars == <<profile, past, mailbox, filed, regen, corrector, applied, heeded, latecomers,
             calm, mishaps>>

Resting == [pc |-> "resting"]

\* [bulleted |-> "- text [directive, date]", corrected |-> "[directive, date] text"]
Lines(p) == p.bulleted \cup p.corrected

ProInit ==
    /\ \E D \in SUBSET Directive : profile = [bulleted |-> D, corrected |-> {}]
    /\ past = {} /\ mailbox = {} /\ filed = {}
    /\ regen = Resting /\ corrector = Resting
    /\ applied = {} /\ heeded = {} /\ latecomers = {}
    /\ calm \in BOOLEAN
    /\ mishaps = 0

Mishap == mishaps < MaxMishaps /\ mishaps' = mishaps + 1

-----------------------------------------------------------------------------
(* correct_profile, one call after the other.                              *)

ReadForCorrection(d) ==
    /\ corrector = Resting /\ d \notin applied \cup profile.bulleted
    /\ calm => regen = Resting
    /\ corrector' = [pc |-> "write", line |-> d, seen |-> profile]
    /\ UNCHANGED <<profile, past, mailbox, filed, regen, applied, heeded, latecomers, calm, mishaps>>

\* The line goes to the end of ## Corrections, a section that is added when there is none.
WriteCorrection ==
    /\ corrector.pc = "write"
    /\ profile' = [corrector.seen EXCEPT !.corrected = @ \cup {corrector.line}]
    /\ applied' = applied \cup {corrector.line}
    /\ corrector' = Resting
    /\ UNCHANGED <<past, mailbox, filed, regen, heeded, latecomers, calm, mishaps>>

ServerDies ==
    /\ corrector # Resting /\ Mishap
    /\ corrector' = Resting
    /\ UNCHANGED <<profile, past, mailbox, filed, regen, applied, heeded, latecomers, calm>>

DropAddition(a) ==
    /\ a \notin mailbox \cup filed
    /\ mailbox' = mailbox \cup {a}
    /\ latecomers' = IF regen.pc \in {"skill", "snapshot", "write", "list"}
                     THEN latecomers \cup {a} ELSE latecomers
    /\ UNCHANGED <<profile, past, filed, regen, corrector, applied, heeded, calm, mishaps>>

-----------------------------------------------------------------------------
(* handle_profile_regen.                                                   *)

ReadProfile ==
    /\ regen = Resting /\ (calm => corrector = Resting)
    /\ regen' = [pc |-> "inbox", seen |-> profile]
    /\ UNCHANGED <<profile, past, mailbox, filed, corrector, applied, heeded, latecomers, calm, mishaps>>

ReadMailbox ==
    /\ regen.pc = "inbox"
    /\ regen' = [pc |-> "skill", seen |-> regen.seen, additions |-> mailbox]
    /\ latecomers' = latecomers \ mailbox
    /\ UNCHANGED <<profile, past, mailbox, filed, corrector, applied, heeded, calm, mishaps>>

\* Mutant: the answer is parsed, and not compared with what was asked.
AcceptedUnchecked(answer) == answer \subseteq Directive

\* parse admits bullets in the three sections of a profile and nothing else;
\* verify_directives_preserved looks for the bulleted directives of the profile in the
\* answer, and not the other way round: only the prompt forbids the model new ones.
\* What it makes of the lines `correct` wrote is its own affair.
Accepted(answer) == regen.seen.bulleted \subseteq answer

\* Mutant: the inbox is emptied once the model has answered.
AskModelAndArchive ==
    /\ regen.pc = "skill"
    /\ \E answer \in SUBSET Directive :
        /\ Accepted(answer)
        /\ regen' = [pc |-> "snapshot", additions |-> regen.additions, answer |-> answer]
    /\ mailbox' = mailbox \ regen.additions /\ filed' = filed \cup regen.additions
    /\ UNCHANGED <<profile, past, corrector, applied, heeded, latecomers, calm, mishaps>>

AskModel ==
    /\ regen.pc = "skill"
    /\ \E answer \in SUBSET Directive :
        /\ Accepted(answer)
        /\ regen' = [pc |-> "snapshot", additions |-> regen.additions, answer |-> answer]
    /\ UNCHANGED <<profile, past, mailbox, filed, corrector, applied, heeded, latecomers, calm, mishaps>>

\* shutil.copy2 of what the file is by now.
TakeSnapshot ==
    /\ regen.pc = "snapshot"
    /\ past' = past \cup {profile}
    /\ regen' = [regen EXCEPT !.pc = "write"]
    /\ UNCHANGED <<profile, mailbox, filed, corrector, applied, heeded, latecomers, calm, mishaps>>

WriteProfile ==
    /\ regen.pc = "write"
    /\ profile' = [bulleted |-> regen.answer, corrected |-> {}]
    /\ heeded' = heeded \cup regen.additions
    /\ regen' = [pc |-> "list"]
    /\ UNCHANGED <<past, mailbox, filed, corrector, applied, latecomers, calm, mishaps>>

\* archive_inbox_files looks into the inbox once more.
ListMailbox ==
    /\ regen.pc = "list"
    /\ regen' = [pc |-> "archive", left |-> mailbox]
    /\ UNCHANGED <<profile, past, mailbox, filed, corrector, applied, heeded, latecomers, calm, mishaps>>

ArchiveOne ==
    /\ regen.pc = "archive"
    /\ \E a \in regen.left :
        /\ mailbox' = mailbox \ {a} /\ filed' = filed \cup {a}
        /\ regen' = [regen EXCEPT !.left = @ \ {a}]
    /\ UNCHANGED <<profile, past, corrector, applied, heeded, latecomers, calm, mishaps>>

RegenDone ==
    /\ regen.pc = "archive" /\ regen.left = {}
    /\ regen' = Resting
    /\ UNCHANGED <<profile, past, mailbox, filed, corrector, applied, heeded, latecomers, calm, mishaps>>

\* No perennials, an answer that is refused or late, a file that cannot be written,
\* the death of the worker. Nothing is retried: the next run is next month's.
RegenFails ==
    /\ regen # Resting /\ Mishap
    /\ regen' = Resting
    /\ UNCHANGED <<profile, past, mailbox, filed, corrector, applied, heeded, latecomers, calm>>

-----------------------------------------------------------------------------
RegenStep ==
    \/ ReadMailbox \/ AskModel \/ TakeSnapshot \/ WriteProfile
    \/ ListMailbox \/ ArchiveOne \/ RegenDone

ProNext ==
    \/ \E d \in Directive : ReadForCorrection(d)
    \/ WriteCorrection \/ ServerDies
    \/ \E a \in Addition : DropAddition(a)
    \/ ReadProfile \/ RegenStep \/ RegenFails

\* launchd submits the job every month, also after months of corrections; the worker
\* and the server go on.
ProFairness == WF_proVars(ReadProfile) /\ WF_proVars(RegenStep) /\ WF_proVars(WriteCorrection)

ProSpec == ProInit /\ [][ProNext]_proVars /\ ProFairness

-----------------------------------------------------------------------------
Profiles == [bulleted : SUBSET Directive, corrected : SUBSET Directive]

Regens ==
    {Resting}
    \cup [pc : {"inbox"}, seen : Profiles]
    \cup [pc : {"skill"}, seen : Profiles, additions : SUBSET Addition]
    \cup [pc : {"snapshot", "write"}, additions : SUBSET Addition, answer : SUBSET Directive]
    \cup [pc : {"list"}]
    \cup [pc : {"archive"}, left : SUBSET Addition]

ProTypeOK ==
    /\ profile \in Profiles /\ past \subseteq Profiles
    /\ mailbox \subseteq Addition /\ filed \subseteq Addition /\ heeded \subseteq Addition
    /\ latecomers \subseteq Addition
    /\ regen \in Regens
    /\ corrector \in {Resting} \cup [pc : {"write"}, line : Directive, seen : Profiles]
    /\ applied \subseteq Directive /\ calm \in BOOLEAN /\ mishaps \in Nat

\* The directive is a bullet of the profile, and no correction is under way that read
\* the profile before it was.
Settled(d) ==
    /\ d \in profile.bulleted
    /\ corrector.pc = "write" => d \in corrector.seen.bulleted

\* A directive in the profile's own form outlasts every regeneration, failure and
\* correction that overtakes one, if no correction was under way when it came in; and a
\* directive the server applied is in the profile or in a snapshot of it, if nobody
\* corrects a profile that is being regenerated.
DirectiveIsKept ==
    /\ [][\A d \in Directive : Settled(d) => Settled(d)']_proVars
    /\ [](calm => \A d \in applied : \E p \in past \cup {profile} : d \in Lines(p))

\* Every file dropped into the inbox is archived in the end; and a regeneration that
\* was written has been given it first, if it did not come in after the run that
\* archived it had read the inbox and before it listed it again.
AdditionIsHeeded ==
    /\ [](filed \subseteq heeded \cup latecomers)
    /\ <>[](mailbox = {})

-----------------------------------------------------------------------------
\* Refuted: a directive the server applied is in the profile from then on, if nobody
\* corrects a profile that is being regenerated. docs/profile-regen.md:24 fails the job
\* when any directive line is missing from the answer; the lines `correct` writes are
\* not bullets, and the check passes over them.
DirectivesSurvive == calm => applied \subseteq Lines(profile)

\* Refuted: no step takes a bullet's directive out of the profile. A correction that
\* read the profile before the regeneration wrote a new bullet writes without it.
BulletsSurvive == [][profile.bulleted \subseteq Lines(profile')]_proVars

\* Refuted: an addition that is archived has been read. The inbox is listed again.
ArchivedIsHeeded == filed \subseteq heeded
=============================================================================
