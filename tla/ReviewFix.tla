------------------------------ MODULE ReviewFix ------------------------------
(***************************************************************************)
(* Turning a finding of the review into a change of the package:           *)
(* review-fix.service.ts, the patches and appends of requirements and      *)
(* system-design, review.fix.ts.  A fix is drafted by the model, shown to  *)
(* the owner, applied, and recorded twice, in the session's fix log and as *)
(* the finding's status, with no transaction over any two of the writes.   *)
(*                                                                         *)
(* The other writers of the same rows are here too: the review run again,  *)
(* the structured editors, a stage regenerated, a version restored, and    *)
(* the two requests that save the whole session row for a column of their  *)
(* own, an update of the project and a drafted proposal.                   *)
(*                                                                         *)
(* The content of a section is the set of changes it holds.                *)
(***************************************************************************)
EXTENDS Integers, Sequences, FiniteSets

CONSTANTS
    Handlers,     \* requests that may be in flight together
    Findings,     \* finding ids: positions in the report
    Reviews,      \* bound: what a review may find, [Findings -> Target]
    Replies,      \* bound: the sets of sections the model may rewrite
    MaxChanges,   \* bound: nothing that needs a fresh number starts at it
    MaxLog,       \* bound: no fix is approved at this length of the log
    MaxUpset,     \* bound: nothing starts once more than this has gone wrong
    Null          \* model value

Stages == {"requirements", "systemDesign"}

(* Some of the sections of PATCH_SECTIONS, one of each way they are written, *)
(* and the list of client questions, which no patch can name.               *)
StageOf == [functional    |-> "requirements",
            outOfScope    |-> "requirements",
            assumptions   |-> "requirements",
            openQuestions |-> "requirements",
            techStack     |-> "systemDesign"]

Sections == DOMAIN StageOf

Patchable == Sections \ {"openQuestions"}

(* The sections the structured editors cannot express.                      *)
Narrative == {"outOfScope", "assumptions", "openQuestions"}

Target == Patchable \cup {Null}

ASSUME ConstantsAssumption ==
    /\ Reviews \subseteq [Findings -> Target]
    /\ Replies \subseteq SUBSET Patchable
    /\ MaxChanges \in Nat
    /\ MaxLog \in Nat
    /\ MaxUpset \in Nat

FixActionStatus == [patch_applied       |-> "resolved",
                    added_open_question |-> "converted",
                    added_out_of_scope  |-> "converted",
                    acknowledged        |-> "resolved",
                    dismissed           |-> "dismissed"]

FixAction == DOMAIN FixActionStatus

Status == {"open", "resolved", "converted", "dismissed"}

Contents == [Sections -> SUBSET Nat]

(* "title" stands for the titles of one run's findings.                     *)
Report == [title : Nat, target : [Findings -> Target],
           status : [Findings -> Status]]

(* The entries one record() appends.  The code keeps no "by": it names the  *)
(* draft or conversion, to state properties.                                *)
Entry == [findings : SUBSET Findings, title : Nat, action : FixAction,
          touched : SUBSET Stages, by : Nat]

Session == [name : Nat, proposalDrafts : SUBSET Nat, fixLog : Seq(Entry)]

(* A proposal in the owner's browser.  "title" and "target" are those of the *)
(* report it was drafted for, to state properties.                          *)
Draft == [id : Nat, title : Nat, findings : SUBSET Findings,
          target : [Findings -> Target], wrote : SUBSET Sections,
          content : Contents, shown : Contents]

(* A request in flight, with what it read.  "appends" are the sections a    *)
(* conversion adds to, "draft" is what a patch applies.                     *)
Request == [pc       : {"fetch", "store", "reread", "log", "status", "put", "save"},
            action   : FixAction \cup {"edit", "rename", "propose"},
            id       : Nat,
            findings : SUBSET Findings,
            report   : Report \cup {Null},
            draft    : Draft \cup {Null},
            appends  : SUBSET Sections,
            touched  : SUBSET Stages,
            left     : SUBSET Stages,
            stage    : Stages,
            doc      : Contents,
            row      : Session]

ASSUME NullAssumption ==
    /\ Null \notin Patchable
    /\ Null \notin Report
    /\ Null \notin Draft
    /\ Null \notin Request

VARIABLES
    session,   \* the columns of the session row that matter here
    report,    \* the stored review, or Null
    doc,       \* the contents of the two artifacts
    kept,      \* the last version: a copy of the report and the contents
    drafts,    \* the proposals the owner has been shown
    req,       \* req[h]: Null, or the request in h
    next,      \* the last number given to a review, a draft or a change
    written,   \* history: <<change, section>> ever written
    upset      \* history: what has disturbed the project

vars == <<session, report, doc, kept, drafts, req, next, written, upset>>

(* A save over a row that changed since it was read ("session", "report",   *)
(* "documents"); a draft applied to a section that is not as it was shown   *)
(* ("draft"); a stage regenerated; a version restored; a request that died. *)
Upset == {"session", "report", "documents", "draft", "regenerated",
          "restored", "died"}

Blank == [s \in Sections |-> {}]

NewSession == [name |-> 0, proposalDrafts |-> {}, fixLog |-> <<>>]

Init ==
    /\ session = NewSession
    /\ report = Null
    /\ doc = Blank
    /\ kept = [report |-> Null, doc |-> Blank]
    /\ drafts = {}
    /\ req = [h \in Handlers |-> Null]
    /\ next = 0
    /\ written = {}
    /\ upset = {}

Calm == Cardinality(upset) <= MaxUpset

Fresh == Calm /\ next < MaxChanges

Disturbed(kind, changed) == IF changed THEN upset \cup {kind} ELSE upset

-----------------------------------------------------------------------------
(* The review and the proposals                                             *)

(* A run of the review replaces the report, and every finding is open again. *)
(* The job that runs a stage then cuts a version, which holds the artifacts *)
(* and the report, and not the session.                                     *)
RunReview ==
    /\ Fresh
    /\ \E found \in Reviews :
        report' = [title |-> next + 1, target |-> found,
                   status |-> [f \in Findings |-> "open"]]
    /\ kept' = [report |-> report', doc |-> doc]
    /\ next' = next + 1
    /\ UNCHANGED <<session, doc, drafts, req, written, upset>>

RequirePatchable(rep, fs) == \A f \in fs : rep.target[f] \in Patchable

(* No two of the findings would rewrite the same section.                   *)
NoBatchConflict(rep, fs) ==
    \A f, g \in fs : rep.target[f] = rep.target[g] => f = g

(* propose(): the model answers with a non-empty set of sections, whole;    *)
(* a section is what was read with the change in it.                        *)
Propose ==
    /\ Fresh
    /\ report # Null
    /\ \E fs \in SUBSET Findings \ {{}}, wrote \in Replies \ {{}} :
        /\ RequirePatchable(report, fs)
        /\ NoBatchConflict(report, fs)
        /\ drafts' = drafts \cup
             {[id |-> next + 1, title |-> report.title, findings |-> fs,
               target |-> report.target, wrote |-> wrote,
               content |-> [s \in Sections |-> IF s \in wrote
                                THEN doc[s] \cup {next + 1} ELSE {}],
               shown |-> [s \in Sections |-> IF s \in wrote
                                THEN doc[s] ELSE {}]]}
    /\ next' = next + 1
    /\ UNCHANGED <<session, report, doc, kept, req, written, upset>>

-----------------------------------------------------------------------------
(* An approved action: check it against the report, write the stages it     *)
(* touches, then record it                                                  *)

Touches(ss) == {StageOf[s] : s \in ss}

Accept(h, action, id, fs, draft, appends, pc) ==
    LET touched == Touches(IF draft = Null THEN appends ELSE draft.wrote) IN
    /\ Calm
    /\ req[h] = Null
    /\ Len(session.fixLog) < MaxLog
    /\ req' = [req EXCEPT ![h] =
                [pc |-> pc, action |-> action, id |-> id, findings |-> fs,
                 report |-> report, draft |-> draft, appends |-> appends,
                 touched |-> touched, left |-> touched,
                 stage |-> "requirements", doc |-> Blank, row |-> NewSession]]
    /\ UNCHANGED <<session, report, doc, kept, drafts, written, upset>>

(* every section belongs to a named finding                                 *)
NoStray(rep, d) == d.wrote \subseteq {rep.target[f] : f \in d.findings}

ApplyPatch(h) ==
    /\ report # Null
    /\ \E d \in drafts :
        /\ RequirePatchable(report, d.findings)
        /\ NoStray(report, d)
        /\ Accept(h, "patch_applied", d.id, d.findings, d, {}, "fetch")
    /\ UNCHANGED next

AddClientQuestion(h) ==
    /\ Fresh
    /\ report # Null
    /\ \E f \in Findings : Accept(h, "added_open_question", next + 1, {f}, Null,
                                  {"assumptions", "openQuestions"}, "fetch")
    /\ next' = next + 1

AddOutOfScope(h) ==
    /\ Fresh
    /\ report # Null
    /\ \E f \in Findings : Accept(h, "added_out_of_scope", next + 1, {f}, Null,
                                  {"outOfScope"}, "fetch")
    /\ next' = next + 1

ResolveAdvisory(h) ==
    /\ report # Null
    /\ \E f \in Findings, action \in {"acknowledged", "dismissed"} :
        Accept(h, action, 0, {f}, Null, {}, "reread")
    /\ UNCHANGED next

(* applyPatch(), appendClientQuestion(), appendOutOfScope() of the stage's  *)
(* own service: read its document ...                                       *)
FetchStage(h) ==
    /\ req[h] # Null /\ req[h].pc = "fetch"
    /\ \E st \in req[h].left :
        req' = [req EXCEPT ![h].pc = "store", ![h].stage = st, ![h].doc = doc]
    /\ UNCHANGED <<session, report, doc, kept, drafts, next, written, upset>>

Changes(r) == IF r.draft = Null THEN r.appends ELSE r.draft.wrote

(* mutant: an appended list starts from scratch                             *)
PatchedAnew(r, s) ==
    CASE s \notin Changes(r) -> r.doc[s]
      [] s \in Changes(r) /\ r.draft = Null -> {r.id}
      [] s \in Changes(r) /\ r.draft # Null -> r.draft.content[s]

(* applySections(), or the list with one more item                          *)
Patched(r, s) ==
    CASE s \notin Changes(r) -> r.doc[s]
      [] s \in Changes(r) /\ r.draft = Null -> r.doc[s] \cup {r.id}
      [] s \in Changes(r) /\ r.draft # Null -> r.draft.content[s]

(* mutant: the action is recorded as soon as one stage is written           *)
NothingMore(r) == {}

StagesLeft(r) == r.left \ {r.stage}

(* ... and write it back, whole                                             *)
StoreStage(h) ==
    LET r    == req[h]
        mine == {s \in Sections : StageOf[s] = r.stage}
        left == StagesLeft(r)
    IN
    /\ r # Null /\ r.pc = "store"
    /\ doc' = [s \in Sections |-> IF s \in mine THEN Patched(r, s) ELSE doc[s]]
    /\ written' = written \cup ({r.id} \X (mine \cap Changes(r)))
    /\ upset' = upset
         \cup (IF \E s \in mine : doc[s] # r.doc[s] THEN {"documents"} ELSE {})
         \cup (IF r.draft # Null /\ \E s \in mine \cap Changes(r) :
                       doc[s] # r.draft.shown[s]
               THEN {"draft"} ELSE {})
    /\ req' = [req EXCEPT ![h].left = left, ![h].doc = Blank,
                          ![h].pc = IF left = {} THEN "reread" ELSE "fetch"]
    /\ UNCHANGED <<session, report, kept, drafts, next>>

-----------------------------------------------------------------------------
(* record(): the session again, the log, and then the report as it was read *)
(* when the request came in                                                 *)

Reread(h) ==
    /\ req[h] # Null /\ req[h].pc = "reread"
    /\ req' = [req EXCEPT ![h].pc = "log", ![h].row = session]
    /\ UNCHANGED <<session, report, doc, kept, drafts, next, written, upset>>

LogEntry(r) ==
    [findings |-> r.findings, title |-> r.report.title, action |-> r.action,
     touched |-> r.touched, by |-> r.id]

(* mutant: the log keeps the latest entry only                              *)
LatestEntry(log, entry) == <<entry>>

AppendFixLog(log, entry) == Append(log, entry)

SaveLog(h) ==
    LET r == req[h] IN
    /\ r # Null /\ r.pc = "log"
    /\ session' = [r.row EXCEPT !.fixLog = AppendFixLog(@, LogEntry(r))]
    /\ upset' = Disturbed("session", session # r.row)
    /\ req' = [req EXCEPT ![h].pc = "status", ![h].row = NewSession]
    /\ UNCHANGED <<report, doc, kept, drafts, next, written>>

(* mutant: the action is written where its status belongs                   *)
ActionAsStatus(action) == action

StatusAfter(action) == FixActionStatus[action]

(* mutant: only the first finding of a batch changes its status             *)
WithOneStatus(rep, fs, status) ==
    [rep EXCEPT !.status = [f \in Findings |->
        IF f = CHOOSE g \in fs : TRUE THEN status ELSE @[f]]]

WithFindingStatus(rep, fs, status) ==
    [rep EXCEPT !.status = [f \in Findings |-> IF f \in fs THEN status ELSE @[f]]]

SaveReport(h) ==
    LET r == req[h] IN
    /\ r # Null /\ r.pc = "status"
    /\ report' = WithFindingStatus(r.report, r.findings, StatusAfter(r.action))
    /\ upset' = Disturbed("report", report # r.report)
    /\ req' = [req EXCEPT ![h] = Null]
    /\ UNCHANGED <<session, doc, kept, drafts, next, written>>

-----------------------------------------------------------------------------
(* The other writers                                                        *)

Begin(h, pc, action, stage, copy, row) ==
    /\ Fresh
    /\ req[h] = Null
    /\ next' = next + 1
    /\ req' = [req EXCEPT ![h] =
                [pc |-> pc, action |-> action, id |-> next + 1, findings |-> {},
                 report |-> Null, draft |-> Null, appends |-> {}, touched |-> {},
                 left |-> {}, stage |-> stage, doc |-> copy, row |-> row]]
    /\ UNCHANGED <<session, report, doc, kept, drafts, written, upset>>

(* save() of an editor: the stored document is read, for the sections the   *)
(* editor cannot express; what it can is the owner's text.                  *)
OpenEditor(h) == \E st \in Stages : Begin(h, "put", "edit", st, doc, NewSession)

(* mutant: an edit wipes what the editor cannot express                     *)
EditedOnly(r, s) == IF s \in Narrative THEN {} ELSE r.doc[s] \cup {r.id}

Edited(r, s) == IF s \in Narrative THEN r.doc[s] ELSE r.doc[s] \cup {r.id}

PutStage(h) ==
    LET r    == req[h]
        mine == {s \in Sections : StageOf[s] = r.stage}
    IN
    /\ r # Null /\ r.pc = "put"
    /\ doc' = [s \in Sections |-> IF s \in mine THEN Edited(r, s) ELSE doc[s]]
    /\ upset' = Disturbed("documents", \E s \in mine : doc[s] # r.doc[s])
    /\ req' = [req EXCEPT ![h] = Null]
    /\ UNCHANGED <<session, report, kept, drafts, next, written>>

(* A stage is generated again, and a version cut.                           *)
Regenerate ==
    /\ Calm
    /\ \E st \in Stages :
        doc' = [s \in Sections |-> IF StageOf[s] = st THEN {} ELSE doc[s]]
    /\ kept' = [report |-> report, doc |-> doc']
    /\ upset' = upset \cup {"regenerated"}
    /\ UNCHANGED <<session, report, drafts, req, next, written>>

Restore ==
    /\ Calm
    /\ report' = kept.report
    /\ doc' = kept.doc
    /\ upset' = upset \cup {"restored"}
    /\ UNCHANGED <<session, kept, drafts, req, next, written>>

(* update() of the interview, and the end of generate() of a proposal, which *)
(* reads the session again after the model has answered.                    *)
ReadRow(h) ==
    \E action \in {"rename", "propose"} :
        Begin(h, "save", action, "requirements", Blank, session)

SaveRow(h) ==
    LET r == req[h] IN
    /\ r # Null /\ r.pc = "save"
    /\ session' = IF r.action = "rename"
                  THEN [r.row EXCEPT !.name = r.id]
                  ELSE [r.row EXCEPT !.proposalDrafts = @ \cup {r.id}]
    /\ upset' = Disturbed("session", session # r.row)
    /\ req' = [req EXCEPT ![h] = Null]
    /\ UNCHANGED <<report, doc, kept, drafts, next, written>>

(* The process dies, or a query fails: what is written stays written.       *)
Die(h) ==
    /\ req[h] # Null
    /\ req' = [req EXCEPT ![h] = Null]
    /\ upset' = upset \cup {"died"}
    /\ UNCHANGED <<session, report, doc, kept, drafts, next, written>>

-----------------------------------------------------------------------------
Next ==
    \/ RunReview \/ Propose \/ Regenerate \/ Restore
    \/ \E h \in Handlers :
        \/ ApplyPatch(h) \/ AddClientQuestion(h) \/ AddOutOfScope(h)
        \/ ResolveAdvisory(h) \/ FetchStage(h) \/ StoreStage(h)
        \/ Reread(h) \/ SaveLog(h) \/ SaveReport(h)
        \/ OpenEditor(h) \/ PutStage(h) \/ ReadRow(h) \/ SaveRow(h) \/ Die(h)

Spec == Init /\ [][Next]_vars

-----------------------------------------------------------------------------
(* Properties                                                               *)

Logged(log) == {log[i] : i \in 1 .. Len(log)}

Explains(e, rep, f) ==
    /\ f \in e.findings
    /\ e.title = rep.title
    /\ FixActionStatus[e.action] = rep.status[f]

(* No finding has a status that the log does not explain, whatever crashes,  *)
(* however requests interleave, and whichever report is restored or written  *)
(* back late: only a save over a session row that had changed can lose the   *)
(* entry (the reason the log is written first, review-fix.service.ts).       *)
AuditComplete ==
    "session" \notin upset /\ report # Null =>
        \A f \in Findings : report.status[f] # "open" =>
            \E e \in Logged(session.fixLog) : Explains(e, report, f)

(* "A log entry with no status change is a fix the UI keeps re-offering":    *)
(* in a project where nothing died and no request wrote over what another    *)
(* had saved, a finding in the log is open only while a request is about to  *)
(* record its status (record(), review-fix.service.ts).                      *)
NotOfferedAgain ==
    /\ report # Null
    /\ upset \subseteq {"documents", "draft", "regenerated"}
    => \A e \in Logged(session.fixLog) : e.title = report.title =>
        \A f \in e.findings : report.status[f] = "open" =>
            \E h \in Handlers : req[h] # Null /\ req[h].pc = "status"
                                /\ f \in req[h].findings

(* What the log says was done is done: an entry stands for a change that had *)
(* been written in every section it names, in every stage it touched, even   *)
(* when a stage's write failed or another request was in flight.             *)
LoggedIsWritten ==
    \A e \in Logged(session.fixLog) :
        /\ \A st \in e.touched : \E s \in Sections :
              StageOf[s] = st /\ <<e.by, s>> \in written
        /\ \A d \in drafts : d.id = e.by => {d.id} \X d.wrote \subseteq written

(* Approved changes do not erase each other: unless a request wrote over a   *)
(* document that had changed, or the owner approved a draft of a section     *)
(* that has moved since, or asked for a stage or a version again, every      *)
(* change that was written is still there, edits of the artifact included.   *)
NothingErased ==
    upset \cap {"documents", "draft", "regenerated", "restored"} = {} =>
        \A w \in written : w[1] \in doc[w[2]]

(* "The log is only worth keeping if it can't lie": an entry saying that a   *)
(* patch was applied for a finding stands for a draft made for that finding  *)
(* which rewrote the section it points at (applyPatch).                      *)
LogTellsTruth ==
    \A e \in Logged(session.fixLog) : e.action = "patch_applied" =>
        \E d \in drafts :
            /\ d.id = e.by
            /\ d.title = e.title
            /\ \A f \in e.findings : d.target[f] \in d.wrote

TypeOK ==
    /\ session \in Session
    /\ report \in Report \cup {Null}
    /\ doc \in Contents
    /\ kept \in [report : Report \cup {Null}, doc : Contents]
    /\ drafts \subseteq Draft
    /\ req \in [Handlers -> Request \cup {Null}]
    /\ next \in Nat
    /\ written \subseteq (Nat \X Sections)
    /\ upset \subseteq Upset
=============================================================================
