# A TLA+ verification of Archivato

Archivato turns a software idea into a design package. An owner is interviewed,
confirms a summary, and a pipeline of stages writes requirements, a system
design, a database design, an API design, a review and several standalone
artifacts, which the owner edits, refines by chat, versions and restores. The
back end is a NestJS application (`apps/api/src`) on PostgreSQL and Redis; the
code it shares with the web client is in `packages/shared/src`.

All the state is in database rows. No handler opens a transaction, takes a lock
or checks a row version: each one reads what it needs, awaits the database and
the language model (for seconds), and writes whole rows back. What makes the
system hard is therefore what other requests do between a read and a write, what
is left when one of several writes fails, and what a model may answer.

## Inventory

| Component | State | Operations | What makes it correct |
|---|---|---|---|
| interview session (`interview/`) | one row: status, transcript, pending question, coverage, slots, open questions, summary, two owner choices | start, answer, confirm, correct a slot, update, delete | always a question or a gate; the cap; confirmation locks; statements survive inferences |
| interview slots, question plan | none (pure) | merge, bind, reconcile, summarise, next planned question | the snapshot agrees with the transcript |
| requirements, system design, database design, API design | one document each | generate, edit, patch | a document exists only on top of those it derives from |
| review, roadmap, cost estimate, threat model, QA plan | one document each, with the revisions it was made from | generate | it reads as fresh only when its sources are unchanged |
| freshness (`packages/shared/src/freshness.ts`) | none (pure) | stamp, staleness | as above |
| versions | numbered snapshots of five documents | snapshot, restore | dense, immutable, only ever growing; restore is exact |
| chat refinement | the documents and two chat messages | refine | everything downstream is rewritten from the new text |
| jobs, stream | the BullMQ queue; an SSE response | generate a stage, then snapshot it | same bookkeeping on both paths |
| business analysis, product vision | one document each | generate | gate nothing |
| review fixes (`review/review-fix.service.ts`) | the status of each finding in the report, a fix log on the session row | propose, apply, append a question or an exclusion, acknowledge, dismiss | no status without an entry, no entry without the change it names |
| billing and quota (`billing/`) | a subscription row per user, the projects of the month | start, checkout, cancel, webhook, admin grant and revoke | who pays or is on trial is served, and nobody longer than is due; the quota is kept |
| support centre (`support/`) | a ticket, its messages and its timeline | create, reply, close, reopen, manage, annotate | the timeline, the dates and the notifications agree with the status |
| proposals (`proposal/`) | drafts on the session row | generate | a save keeps the rest of the row |
| language model client, agents, builders | none that persists | call, retry, fall back, build content | a call returns |
| authentication | users, refresh tokens, one-time codes | login, rotate, reset | a spent token is spent |
| roles, share, projects, waitlist, notifications, analytics, admin, export, scaffold, diagrams | their own rows, or none | mostly one write per request | planned or left out, see below |

Interactions: the interview's confirmed row is the premise of every stage; a
stage reads the documents upstream of it and writes its own; jobs, the stream
and the synchronous endpoints all call the same `generate()`; refinement calls
four or five of them in turn; versions read and overwrite all five captured
documents; review fixes call the patches of the requirements and the system
design and write the report and the session row; a start asks billing whether a
project may be created; Paddle and the model are the two outside parties. Everything
meets in the database, and only there.

## Modules

| Module | Role |
|---|---|
| `Interview` | the session row and the requests that rewrite it |
| `MCInterview` | its small instances |
| `LockedProject` | what the interview promises an owner; `Interview` implements it |
| `InterviewProofs` | inductive invariants, theorems, the refinement |
| `Pipeline` | the documents of a confirmed project, the operations that rewrite them, and its versions |
| `MCPipeline` | its small instances |
| `VersionLog` | what the history of a project promises; `Pipeline` implements it |
| `PipelineProofs` | inductive invariants, theorems, the refinement |
| `PipelineAlone` | theorems about a project served one operation at a time |
| `ReviewFix` | turning findings into changes, the log, and the other writers of the same rows |
| `MCReviewFix`, `ReviewFixProofs` | its small instances; its theorems |
| `Billing` | the subscription of a user, the provider's events, the quota |
| `MCBilling`, `BillingProofs` | its small instance; its theorems |
| `BillingServed` | theorems about the subscription and Paddle together |
| `Support` | a ticket and every request that writes it |
| `MCSupport`, `SupportProofs` | its small instance; its theorems |
| `SupportTold` | theorems about what the owner and the staff of a ticket are told |

`Pipeline` composes with `VersionLog` by a refinement mapping (`Log`: the snapshots
in the order of their numbers), and `Interview` with `LockedProject` by another
(`Promise`: the row as the owner sees it). The other modules meet in columns no two of them
hold at once: `Interview` owns what the interviewer writes of the session row,
`ReviewFix` its log, `Billing` reads only the date a project was created.

### Interview

`row` is the stored row. `req[h]` is a request in flight: the copy of the row
that `require()` read, changed as the handler changes it, and not yet saved. A
handler is two steps. The first (`Answer`, `Confirm`, `EditSlot`, `Update`) reads
the row, checks the guards of the code and keeps the changed copy; the second
(`SaveAnswer`, `SaveOther`) saves *every* column, as `save()` of the repository
does. `SaveAnswer` carries the reply of the model, since `advance()` runs on the
copy that was read. `Start` is one step because nobody knows the new id before
the row exists. `Delete` removes the row; the save of a request that had read it
then fails.

`Advance`, `DecideNext`, `TryAdaptive` and `PlanDecision` are the private methods
of the same names, `MergeSlots`, `ReconcileOpenQuestions` and `BindAnswerToSlot`
the functions of `slots.ts`. A reply is any value the sanitizers let through:
done or not, a coverage, a question or none, any extraction, any open questions;
`Null` is a reply the code cannot use. Text is abstracted to what the control
flow tells apart: whether a turn is notes, an answer or a correction, which slot
it is about, whether an answer says anything; whether a slot is stated or
inferred, and whether it is "not applicable". In place of its text a slot value
keeps the turn it was taken at, the length of the transcript when the model
reported it or the owner corrected it, so that two values of one slot can be told
apart and a value can be compared with the corrections before it. A summary is the
slot map it was built from. Coverage is in percent, as the code rounds it to two decimals.

The budget-derived default of the extended artifacts depends on parsing an amount
out of a sentence: with a budget stated the model allows both results.

### Pipeline

A document is a revision (`at`, its `generatedAt`), a number standing for its
text, the texts of the documents its agent was given (`from`, which is not
stored by the code and exists only to state properties), and for a derived
document the recorded `sourceStamp`. `req[h]` is an operation in flight: the
stages left to generate, the queries left to make, what was read. Every query is
a step (`Fetch`; the queries of one `Promise.all` return in any order), the call
of the agent is a step (`Consult`, which stamps `generatedAt` *before* the model
is called, as the agents do), every upsert is a step (`Write`, `Apply`), and
cutting a version is three: the five queries of `currentSnapshot()`, the
decision in `snapshot()` (`Number`), and the insert (`Create`), which the unique
index on the number may refuse.

`RunJob`, `RunStream` and `PostGenerate` are the three ways to generate a stage:
the worker always cuts a version, the stream only for a captured stage, the
endpoint never. `Edit` stands for the editors and for the patches and appended
items of an approved fix. `Refine` rewrites the requirements and then every
design, and the review if there is one. `Restore` overwrites or deletes five
documents and records itself as a version. `Fail` is an exception or a dead
process at any point: what is written stays written.

The store is the PostgreSQL one: its unique index refuses a number that is taken,
and its JSONB column hands a snapshot back with its keys ordered by length and then
by bytes (`StoredOrder`). `StableEqual` compares the JSON text of such a snapshot
with that of one in the order of `currentSnapshot()`, and so is never true: every
snapshot of a project cuts a version. The in-memory store of the tests has neither
the index nor the order, and is left out.

Assumption: two documents are never stamped in the same millisecond. With equal
stamps staleness by revision cannot be sound, and nothing in the code prevents
them.

### ReviewFix

The content of a section is the set of changes it holds, each with its number, so
a lost change is visible. Four patchable sections stand for the ten, one of each
way in which a section is written and one in another stage; the open questions are
the list no patch can name. `report` is the stored review with the status of each
finding, `session` the columns that `save()` rewrites with the log, `kept` the last
version, `drafts` the proposals an owner has been shown, which come back from the
browser any time later.

An approved action is up to eight steps: the checks against the report read at the
start (`ApplyPatch`, `AddClientQuestion`, `AddOutOfScope`, `ResolveAdvisory`); for
each stage it touches a read of the document (`FetchStage`) and a write of all of it
(`StoreStage`); then `record()`: the session again (`Reread`), the whole row with one
more entry (`SaveLog`), and the report *as it was read at the start* with new
statuses (`SaveReport`). `Die` stops a request between any two. The other
writers are `RunReview`, the editors (`OpenEditor`, `PutStage`), `Regenerate`,
`Restore`, and two requests that save the whole session row for one column of
theirs (`ReadRow`, `SaveRow`): an update of the project, and a drafted proposal,
which re-reads the row after the model has answered.

### Billing

`sub` is the row of one user, created by the first request that needs it
(`Open`, `CreateRow`; the unique column refuses the second). A checkout saves the
cadence, then activates (mock) or returns what the client opens Paddle with; a
cancellation asks the provider, then flags the row; a start counts the projects of
the month, then, once the model has answered, inserts one. `paddle` and `mail` are
external, modelled as far as the webhook sees them: an event may be delivered any
number of times, in any order, or never, and carries the user's id or not. A
subscription begins with a payment or a trial, which the webhook treats alike. An
event carries its billing period or not; without one the webhook makes up an end
(`Expiry`), a period of the row's cadence from the moment it handles the event, and
another one each time the event is delivered again. Events of any other type or
status change nothing and are left out. Time is counted in quota months, so that a
period and the quota can be related.

### Support

A request decides everything from the ticket it read and then writes, one query
at a time: its message, the entries that precede the update (console), the columns
it changes, the entries that follow it, the notification. `updateTicket()` writes
only the columns it is given, unlike the saves of the other modules. `Can` gives
each member of the staff their permissions.

### Histories

`upset`, in the last three modules, is a history variable: the set of the ways in
which a save, an event or a failure has disturbed the state so far (each is
explained at its definition). It guards nothing but the bound. A property that the
code cannot keep under all of them names, in its hypothesis, exactly those that
defeat it, so that the rest of the interleavings, crashes and orders are covered;
the list is the answer to "when is this true?". `written`, `due`, `seen`, `comped`
and `told` are histories too and are read by properties only.

## Runs

| Run | Instance | Shows |
|---|---|---|
| `InterviewSequential` | one request at a time, one slot, cap 3, minimum 2, plan of 4, replies with coverage 0 or 95 and an inferred or a "not applicable" slot | type invariant, all row invariants, all promises made over several requests, that `Interview` implements `LockedProject`, and that the gate is reached |
| `InterviewConcurrent` | two requests in flight, cap 1, plan of 2 | `RowConsistent`: whole-row saves of stale copies never produce a row that no sequential run could |
| `InterviewEarlyGate` | as the first | expected violation of `NotTooEarly` |
| `InterviewStaleSummary` | as the first | expected violation of `SummaryShowsSlots` |
| `InterviewLostLock` | as the second | expected violation of `ConfirmLocks` |
| `PipelineSequential` | one operation at a time, from the empty project, with the cost estimate as standalone stage | gates, exact restore, consistent refinement, versions that hold the current state |
| `PipelineConcurrent` | two operations, either may die, from a project whose chain was generated | freshness, a dense and immutable history under interleaving, and that `Pipeline` implements `VersionLog` |
| `PipelineDuplicates` | one operation | expected violation of `NoDuplicateVersions` |
| `ReviewFixAudit` | two requests, two findings that point at two stages, replies that leave a section out or not, any request may die | the log explains every status and stands for changes made; a finding that is done is not offered again; approved changes do not erase each other |
| `ReviewFixTruth` | one request, same review | expected violation of `LogTellsTruth` |
| `BillingLifecycle` | two requests, either provider, one Paddle subscription, two events with a billing period or without, two quota months, one project at a time | paid or on trial means served, served means due or an end the code made up, a cancellation shown is known to Paddle, the quota is passed by no more than what is in flight |
| `SupportTicket` | two requests at a time, four in all, one agent, patches of each kind | timeline, notifications, resolution dates and first response agree with the ticket |

Bounds, and why they are enough.

- `MaxTurns` stops corrections, not answers, at a transcript length of 2: notes,
  an answer and a correction fit under a cap of 3 in any order, so the cap is
  reached with and without corrections. The plan is longer than the cap and does
  not reach the threshold by itself, which is the situation in the code (9 of 11
  questions is 82%). Slots do not interact with each other in any definition, so
  one slot, the one read by the extended-artifacts default, meets every case; the
  language is pinned or derived, and one language tells the two apart.
- `MaxClock` is the highest revision at which an operation may still *start*; a
  running one always finishes. Six revisions from the empty project are a
  complete chain, a review or estimate, and a change to its sources, or a chain,
  refined. `PipelineConcurrent` starts after the chain, where one review and one
  or two changes of its sources are in flight together. Its initial state is one
  `Spec` reaches through the synchronous endpoints, which cut no version.
- `MaxVersions` is the number of versions at which an operation that cuts one may
  still start. Two operations in flight both pass it, so numbers collide.
- The cost estimate stands for the standalone stages: it is the one that reads
  fewer sources, the other three read what the review reads. The concurrent run
  has the review only. Refinement is left to the sequential run: its steps are
  the steps of the other operations, one after the other.
- `ReviewFix`: three numbers (`MaxChanges`) are a review, a proposal and one more
  of a review run again, a second proposal, an appended item, an edit or another
  writer of the session row, in flight with the fix. `MaxLog` is the length of the
  log at which no fix is approved any more; two in flight both pass it. With
  `MaxUpset` 0 everything may be in flight when the first disturbance happens and
  runs to its end afterwards, disturbing further; only new requests stop.
- `Billing`: two events are an activation and a renewal, or an activation and an
  end, in both orders and repeated, all with the user's id or all without: the id is
  custom data of the subscription. Each is dated or not on its own. The clock stops at
  the second quota month; a monthly period ends within it and an annual one does not.
  With a quota of one, a project stored and a start let through beside it already pass
  the quota, and are all that two requests can reach, so one project at a time is
  enough; that one start too many would break the bound is what the mutant shows.
  `ProjectsFirst` stops a behaviour in which a second event is sent while a project is
  stored or being started: the quota reads the plan only, which one event, a grant, a
  cancellation and the clock already change in every way.
  `MaxUpset` is 0, as above, and does not count "undated", which an event may be at
  any time. Two subscriptions at once are left to the theorems.
- `Support`: four requests are a ticket, and three of a reply, a close, a reopening
  and a change of the console, two of them overlapping; `MaxUpset` 1 lets another
  request start after a crash or an overlap.
- Handlers are a symmetric set in these three runs, which check invariants only.
- `CHECK_DEADLOCK FALSE`: a deleted project, and one at its bounds, stops; so do a
  ticket, a subscription and a review at theirs, where nobody need ask for more.

Fairness (`InterviewSequential` only). Weak fairness of the two saves: the model
client has a timeout on every attempt and `tryAdaptive()` catches every failure,
so a request returns. Strong fairness of `Answer`: `GateReached` is a promise to
an owner who keeps answering, and other requests may be in flight whenever they
look. Deleting the project also ends the wait. Nothing is assumed of
corrections, updates or the owner's confirmation.

Every property of a passing run has a mutant: a plausible bug in one mapped
definition under which the run fails. The mutants stand beside the definitions
they change and are used by nothing else.

## What the code does otherwise

- **Early gate** (`InterviewEarlyGate`). `planDecision()` runs when the
  reply is unusable or carries no question, for instance a "done" that comes too
  early. It stops as soon as the
  coverage *already on the session*, which the model estimated, is at the
  threshold, and the minimum is not consulted. The comment on the caps says they
  exist "so a real model can't end too early".
- **Stale summary** (`InterviewStaleSummary`). `editSlot()` at the gate leaves
  the summary as it was, and the requirements are generated from it.
- **Lost lock** (`InterviewLostLock`). A correction, an answer or an update that
  read the row before the confirmation saves the old status over it, after the
  pipeline may have begun.
- **Duplicate versions** (`PipelineDuplicates`). On PostgreSQL the comparison
  that should recognise an unchanged project compares two key orders and is never
  true. The unit test passes because the in-memory store keeps the object.
- **The log lies** (`ReviewFixTruth`). `applyPatch()` refuses a section that belongs
  to no named finding, and not a named finding without a section. When the model
  answers a batch of two findings with one section, both are marked resolved and
  logged as patched. A proposal drafted before the review was run again has the same
  effect, since a finding's id is its position in the report.

Met while modelling, and not stated as a property of their own:

- A project consumes its quota slot when it is created (`start()` counts the rows of
  the month); `packages/shared/src/billing.ts:5-6` says "when its interview is
  confirmed".
- A cancellation takes effect at the end of the period with both providers;
  `billing.service.ts:190` and `billing.controller.ts:60` say "immediate in mock".
- The web client opens Paddle's overlay without the user's id
  (`upgrade-dialog.tsx:150-153`), by which the webhook finds the user of a new
  subscription. `PaidIsPro` excepts such events as "unmatched".
- Any `subscription.updated` that is not a cancellation clears `cancelAtPeriodEnd`,
  and a cancellation that Paddle refuses is logged and still shown as done.
- An event that makes the user Pro but carries no billing period sets an end of its own
  (`billing.service.ts:281-283`), so each delivery of it, a repeated or a late one
  included, extends the plan though nobody paid: `ProIsDue` allows it, "undated", up to
  a period from the delivery. A subscription on trial is Pro like a paid one (264).
- `interview.service.ts:291-294` says that transcript and slots never disagree after a
  correction, which no *inference* overwrites. What decides is the source the model
  reports: an extraction it calls explicit replaces the correction at the next answer,
  by its value or by "not applicable" (`slots.ts:387`), and so does an answer filed by
  `bindAnswerToSlot()` when the pending question asked for the corrected slot.
  `CorrectionsKept` says what holds: the slot has the correction, or something stated
  at a later turn, never a guess and never anything older.
- A console change whose assignee is refused has recorded its entries already.

## What is proved

For every value of the constants (any number of requests or operations in flight,
any slots, caps, findings, staff, projects, replies; no bound used), from the named
assumptions of the modules:

| Theorem | Statement |
|---|---|
| `InterviewProofs!TypeCorrect`, `ConsistentRow`, `QuestionCap`, `CorrectionsNeverLost`, `NeverStuckHolds`, `QuestionsReconciled`, `GateSound`, `ConfirmSound` | `Spec => []TypeOK`, `[]RowConsistent`, `[]CapKept`, `[]CorrectionsKept`, `[]NeverStuck`, `[]OpenQuestionsReconciled`, `[]GateComplete`, `[]ConfirmPins` |
| `InterviewProofs!LockHolds`, `TranscriptKeeps`, `StatementsKept`, `ChoicesKept` | with one request at a time (`OneAtATime`), `Spec => ConfirmLocks`, `TranscriptGrows`, `StatementsStay`, `OwnerChoicesStay` |
| `InterviewProofs!KeepsPromise` | with one request at a time, `Spec => ImplementsLockedProject` |
| `PipelineProofs!TypeCorrect`, `FreshnessSound`, `NoGaps`, `HistoryKept` | `Spec => []TypeOK`, `[]FreshMeansCurrent`, `[]VersionsDense`, `VersionsImmutable` |
| `PipelineProofs!VersionsRefineLog` | `Spec => ImplementsVersionLog` |
| `PipelineAlone!RestoreIsExact`, `CutsAreCurrent` | with one operation at a time, any of which may die, `Spec => []RestoreExact`, `CutIsCurrent` |
| `PipelineAlone!RefineIsConsistent` | with one operation at a time, any of which may die, `Spec => []RefineConsistent` |
| `PipelineAlone!PrerequisitesKept` | with one operation at a time and none that dies, `Spec => []PrerequisitesHold` |
| `BillingProofs!TypeCorrect`, `PlanIsDue`, `QuotaKept` | `Spec => []TypeOK`, `[]ProIsDue`, `[]QuotaBounded` |
| `BillingServed!CancelKept`, `PaidServed` | `Spec => []CancelHonoured`, `[]PaidIsPro` |
| `SupportProofs!TypeCorrect`, `DatesTold`, `StatusShown` | `Spec => []TypeOK`, `[]DatesAgree`, `[]StatusIsOnTimeline` |
| `SupportTold!TimelineEndsTrue`, `OwnerHears`, `FirstDated` | `Spec => []TimelineTells`, `[]OwnerIsTold`, `[]FirstResponseKept` |
| `ReviewFixProofs!TypeCorrect`, `AuditTrail`, `LogIsWritten`, `LoggedNotOffered`, `ChangesStay` | `Spec => []TypeOK`, `[]AuditComplete`, `[]LoggedIsWritten`, `[]NotOfferedAgain`, `[]NothingErased` |

**Interview.** `RowConsistent` speaks of the stored row and is not inductive: a
save stores a copy made several steps earlier, from a row that may be gone. The
inductive invariant `IInv` therefore asks the same of *every copy in flight*: the
copy of an answer is a consistent collecting row with one more turn, and any
other copy is already a consistent row. Then a save needs no knowledge of what
the row is at that moment. This is also why lost updates, however bad, never
corrupt the row. The work is in `Advance`: every slot of a copy comes from a turn it
had before the answer (`TakenBefore`), a merge keeps what was stated or takes
something stated in the new turn, so corrections hold (`SinceCorrection`); the question taken from `pending` was already counted, so the
cap holds; a decision that is not done carries a question, one that is done
carries the threshold.

With two requests in flight the row may go back, and `InterviewLostLock` shows it
does. With one, `Follows` is inductive beside `IInv`: the copy in flight was made from
the row that is still stored, so it holds every turn, every statement and every choice
of that row, and of a locked row all that is locked. A save can then only go onward.
For the refinement `Serial` adds where a copy stands: a correction or an update at the
stage of the row, an answer before the gate, a confirmation one stage on and otherwise
equal to it. A save is then a `Talk`, an `Amend` or a `Lock` of the abstract
specification, or nothing the owner sees.

**Pipeline, freshness.** `FreshMeansCurrent` compares texts, the code compares
revisions. The invariant that links them: a revision names one text (two
documents of the same stage with equal `at`, stored, in a version or in flight,
have equal `text`), a stamp agrees with `from`, every revision is at most
`clock`, and an operation that is to write has read the documents its stage
needs. It must range over versions and over copies in flight, because a restore
brings any of them back and an old revision with it. Given that, equal stamps
mean equal revisions, hence equal texts. Recency would not do, and the mutant
`IsStaleByRecency` shows why: a restore makes an upstream document older.

**Pipeline, history.** Numbers are dense and rows immutable because a number in
flight is at most one above the highest row, and the insert of a number that is
taken is refused. That each version holds the requirements is a second invariant
(`Rooted`): once stored they are never removed, because nothing but a restore
removes a document and every version a restore applies holds them; no other
captured document exists without them; and an
operation about to cut a version has read them, or has still to. With both, the step
that inserts is a `Cut` of the abstract log, every other step stutters, and
`VersionsRefineLog` follows.

**Pipeline, one at a time.** What an operation has read is still true when it acts.
`Tracked` says how far it is: of a restore, each captured document is still to be
applied or already is the one of the version; of a snapshot, each is still to be read
or was read as it is stored. Once nothing is left the restore is exact and the version
current. For the prerequisites, `Grounded` also asks them of *every version*, since
any may be restored, of the project unless a restore is half way, and of the operation
in flight that it still has to read, or has found, what its stage stands on. A restore
that dies half way breaks this, hence the assumption that none does.

A refinement is consistent by `Chained`. It comes to its stages in a fixed order
(`RefineRests`). At each of them, the designs before it have been written from the
texts now stored (`Current`), and of what the stage reads every part is still to be
read or was read as it is stored (`Known`); only the review looks for an older review.
Writing a stage makes it current and leaves the earlier ones so, because none of them
reads a later one. Nothing is asked of the documents when the refinement starts: they
may be inconsistent, as a refinement that died leaves them.

**Billing.** The invariant is again about the row and every row in flight: what the
row, a copy, Paddle's record or an event sent says of the end of a period is at most
`due`, or, once an event without a period has been handled, in the row and its copies
at most a period from now (`Limit`; `Account`, `Flight`, `Beyond`). Since the clock
only advances and "undated" stays, what was within the limit remains so. For plans without an end (`Backed`), a save
either finds the row it read, and what holds of the row holds of the copy, or sets
"stale". For the quota, when a start is let through fewer than `Quota` projects are
counted and at most all handlers have been let through; an insert moves one from the
second set to the first; and a new month begins without a project (`Past`).

A cancellation needs `Told`: the row and every copy of it name a subscription that
exists, and are marked only if Paddle's is, and a request about to mark its copy has
told Paddle. Since Paddle never takes a cancellation back (`Onward`), a stale save can
lose the mark but cannot invent one, and so the theorem excepts a failed call and
nothing else. For the service (`Served`), the last event sent describes the one
subscription alive, and the row gives what the latest event *handled* says; with all
of them handled the two meet, as long as every event handled carried its period. Saves that are not of an event keep the three columns it
wrote, and a save over a newer row is a disturbance named by the property.

**Support.** `DatesAgree` holds although two requests overlap because a patch
carries a status *with* its date, and the columns are written together; the
invariant says so of every patch in flight (`Fine`). `StatusIsOnTimeline` needs that
whoever is to write a status has recorded it or still carries the entry (`Kept`).

What is *last* on the timeline takes more (`Voiced`). Changes of status that do not
overlap follow one another, so at most one request in flight has a status to set, and
it has exactly one entry for it: still to be recorded, before its update or after
it, or already the last one of the timeline, with only silent entries recorded since by
it and by the others (`Due`). The other requests carry silent entries and notify nobody
(`Quiet`). The status the owner is told is part of the same statement (`Means`, `Says`).
The first response is `Stamped`, which holds through crashes and overlaps (a patch that
dates the ticket carries the number of its own reply, stored before it), and `Dating`,
which says when nothing overlapped that an undated ticket has no answer but that of the
request about to date it.

**ReviewFix.** `AuditComplete` must survive the report written back late and the
report restored, so every copy of it that may be stored again (the stored one, that
of the last version, that of a request in flight) must be explained by the log
(`Audit`), and a request about to write a status already has its entry. The log
never loses one: a save of the session row finds the row it read, or sets "session".
`LoggedIsWritten` has no exception: what a request has not left to do it has
written (`OnTrack`), and every entry in the log *and in every copy of it* stands
for written changes (`Honest`), so no lost update can create a false one. Drafts
need distinct numbers (`Numbered`).

That a finding is not offered again (`Remembered`) needs that reviews are numbered
upwards and that no entry is about one still to be run, so that a new review starts
with none; between the entry and the status the request is in flight (`Pursued`).
`NothingErased` is inductive beside the invariant above and `Drafted`: a draft is
exactly what was shown and its own change, so applying one to a section that has not
moved, and writing a document over the one that was read, only adds.

Every invariant and action property of the passing runs is proved. Left to the model
checker are `GateReached`, a liveness property, and the counterexamples of the five
violation runs. What a theorem assumes or excepts is where the property fails: one
operation at a time for restores, cuts, prerequisites, refinement and the interview's
promises, and the members of `upset` that a property names.

## Plan

Most important behaviour first; 1 to 7 are done.

1. `Interview`: the row every stage depends on.
2. `Pipeline`: documents, freshness, refinement and versions.
3. `VersionLog`, the append-only log that `Pipeline` implements.
4. `ReviewFix`: patch, log and report as separate writes.
5. `Billing` with the creation quota, and `Support`.
6. Proofs of the properties left to the model checker: consistent refinement, and the
   undisturbed cases of the last three modules.
7. `LockedProject`, what the interview promises, implemented by `Interview` with one
   request in flight, with the refinement proved.
8. Refresh rotation and one-time codes; the model client's retries; slot merge and
   budget parsing against reference definitions.

## Not modelled

Most of the repository's lines have no state and no control a property could be
about: prompts, deterministic content builders, diagrams, export, scaffold and the
example project compute text that no control flow here reads, and the web client,
by far the largest part, renders it; its requests are the inputs of the modelled
handlers. That is why the definitions stand for a small share of the lines and for
most of the writes.

Listings, notifications, analytics, the waitlist, roles and share links make one
write per request. Authentication rotates tokens and spends one-time codes, each a
single record that is read and then written; it is in the plan. The model client's
retries change no state: whatever they end in is a reply or a failure, both of which
the modules allow at any point. The chat messages stored after a refinement, the
job's progress and the stream's narration change nothing a modelled operation reads.
The business analysis and the product vision are read as optional hints and gate
nothing, and the review's look at the cost estimate is one as well. The confirmed
interview is a premise of `Pipeline` rather than part of it. The Pro gate of the
standalone stages reads the plan of `Billing` and is left out of `Pipeline`, which
allows what it would refuse. Of billing, the log of events and the listings of the
console are left out; of support, the category, the notifications that tell no
status, the assistant before a ticket exists and the knowledge base.
