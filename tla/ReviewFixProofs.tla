--------------------------- MODULE ReviewFixProofs ---------------------------
(* Theorems about ReviewFix, for any set of findings, any reviews and       *)
(* replies of the model, and any number of requests in flight.              *)
EXTENDS ReviewFix, TLAPS

FixPc == {"fetch", "store", "reread", "log", "status"}

(* An approved action has the report it was checked against. *)
Fine(r) ==
    /\ r \in Request
    /\ r.pc \in FixPc => r.action \in FixAction /\ r.report # Null

Flight ==
    /\ req \in [Handlers -> Request \cup {Null}]
    /\ \A h \in Handlers : req[h] # Null => Fine(req[h])

Stored ==
    /\ session \in Session
    /\ report \in Report \cup {Null}
    /\ doc \in Contents
    /\ kept \in [report : Report \cup {Null}, doc : Contents]
    /\ drafts \subseteq Draft
    /\ next \in Nat
    /\ written \subseteq (Nat \X Sections)
    /\ upset \subseteq Upset

(* The inductive invariant of types. *)
IInv == Flight /\ Stored

-----------------------------------------------------------------------------
(* Lemmas                                                                   *)

(* The tables say what they are for. *)
LEMMA Tables ==
    /\ \A s \in Sections : StageOf[s] \in Stages
    /\ Patchable \subseteq Sections
    /\ {"assumptions", "openQuestions"} \subseteq Sections
    /\ {"outOfScope"} \subseteq Sections
    /\ {"patch_applied", "added_open_question", "added_out_of_scope",
        "acknowledged", "dismissed"} \subseteq FixAction
    /\ \A a \in FixAction : FixActionStatus[a] \in Status
<1>1. Sections = {"functional", "outOfScope", "assumptions", "openQuestions",
                  "techStack"}
  BY DEF Sections, StageOf
<1>2. FixAction = {"patch_applied", "added_open_question", "added_out_of_scope",
                   "acknowledged", "dismissed"}
  BY DEF FixAction, FixActionStatus
<1>3. \A s \in Sections : StageOf[s] \in Stages
  BY <1>1 DEF StageOf, Stages
<1>4. \A a \in FixAction : FixActionStatus[a] \in Status
  BY <1>2 DEF FixActionStatus, Status
<1> QED BY <1>1, <1>2, <1>3, <1>4 DEF Patchable

(* A step that moves one request. *)
LEMMA FlightStep ==
    ASSUME IInv, NEW h \in Handlers, NEW r, req' = [req EXCEPT ![h] = r],
           r = Null \/ Fine(r)
    PROVE  Flight'
<1>1. r \in Request \cup {Null}
  BY DEF Fine
<1>2. req' \in [Handlers -> Request \cup {Null}]
  BY <1>1 DEF IInv, Flight
<1>3. ASSUME NEW g \in Handlers, req'[g] # Null PROVE Fine(req'[g])
  BY <1>3 DEF IInv, Flight
<1> QED BY <1>2, <1>3 DEF Flight

LEMMA BlankTypes ==
    /\ Blank \in Contents /\ NewSession \in Session /\ "requirements" \in Stages
BY DEF Blank, Contents, NewSession, Session, Stages

LEMMA InFlight ==
    ASSUME IInv, NEW h \in Handlers, req[h] # Null
    PROVE  req[h] \in Request /\ Fine(req[h])
BY DEF IInv, Flight, Fine

-----------------------------------------------------------------------------
(* The initial state, and one lemma per action                              *)

LEMMA InitIInv == Init => IInv
BY BlankTypes DEF Init, IInv, Flight, Stored, Upset

LEMMA RunReviewIInv ==
    ASSUME IInv, RunReview
    PROVE  IInv'
<1>1. PICK found \in Reviews :
        report' = [title |-> next + 1, target |-> found,
                   status |-> [f \in Findings |-> "open"]]
  BY DEF RunReview
<1>2. report' \in Report
  BY <1>1, ConstantsAssumption DEF Report, Status, IInv, Stored
<1>3. kept' \in [report : Report \cup {Null}, doc : Contents]
  BY <1>2 DEF RunReview, IInv, Stored
<1> QED BY <1>2, <1>3 DEF RunReview, IInv, Stored, Flight

LEMMA ProposeIInv ==
    ASSUME IInv, Propose
    PROVE  IInv'
<1>1. PICK fs \in SUBSET Findings \ {{}}, wrote \in Replies \ {{}} :
        drafts' = drafts \cup
             {[id |-> next + 1, title |-> report.title, findings |-> fs,
               target |-> report.target, wrote |-> wrote,
               content |-> [s \in Sections |-> IF s \in wrote
                                THEN doc[s] \cup {next + 1} ELSE {}],
               shown |-> [s \in Sections |-> IF s \in wrote
                                THEN doc[s] ELSE {}]]}
  BY DEF Propose
<1>2. report \in Report /\ next + 1 \in Nat /\ next \in Nat /\ doc \in Contents
  BY DEF Propose, IInv, Stored
<1> DEFINE content == [s \in Sections |-> IF s \in wrote
                                THEN doc[s] \cup {next + 1} ELSE {}]
           shown == [s \in Sections |-> IF s \in wrote THEN doc[s] ELSE {}]
<1>3. content \in Contents /\ shown \in Contents
  BY <1>2 DEF Contents
<1> HIDE DEF content, shown
<1>4. wrote \in SUBSET Sections
  BY ConstantsAssumption, Tables
<1>5. [id |-> next + 1, title |-> report.title, findings |-> fs,
       target |-> report.target, wrote |-> wrote, content |-> content,
       shown |-> shown] \in Draft
  BY <1>2, <1>3, <1>4 DEF Draft, Report
<1>6. drafts' \subseteq Draft
  BY <1>1, <1>5 DEF content, shown, IInv, Stored
<1> QED BY <1>2, <1>6 DEF Propose, IInv, Stored, Flight

LEMMA TouchesType == \A ss \in SUBSET Sections : Touches(ss) \subseteq Stages
BY Tables DEF Touches

(* A request that is accepted has the report it found. *)
LEMMA AcceptIInv ==
    ASSUME IInv, NEW h \in Handlers, NEW action \in FixAction, NEW id \in Nat,
           NEW fs \in SUBSET Findings, NEW draft \in Draft \cup {Null},
           NEW appends \in SUBSET Sections, NEW pc \in FixPc, report # Null,
           Accept(h, action, id, fs, draft, appends, pc), next' \in Nat
    PROVE  IInv'
<1> DEFINE touched == Touches(IF draft = Null THEN appends ELSE draft.wrote)
           r == [pc |-> pc, action |-> action, id |-> id, findings |-> fs,
                 report |-> report, draft |-> draft, appends |-> appends,
                 touched |-> touched, left |-> touched,
                 stage |-> "requirements", doc |-> Blank, row |-> NewSession]
<1>1. /\ req' = [req EXCEPT ![h] = r]
      /\ UNCHANGED <<session, report, doc, kept, drafts, written, upset>>
  BY DEF Accept
<1>2. touched \in SUBSET Stages
  <2>1. (IF draft = Null THEN appends ELSE draft.wrote) \in SUBSET Sections
    BY DEF Draft
  <2> QED BY <2>1, TouchesType
<1> HIDE DEF touched
<1>3. r \in Request
  BY <1>2, BlankTypes DEF Request, FixPc, IInv, Stored
<1>4. Fine(r)
  BY <1>3 DEF Fine
<1> HIDE DEF r
<1>5. Flight'
  BY <1>1, <1>4, FlightStep
<1> QED BY <1>1, <1>5 DEF IInv, Stored

LEMMA ApprovedIInv ==
    ASSUME IInv, NEW h \in Handlers,
           \/ ApplyPatch(h) \/ AddClientQuestion(h) \/ AddOutOfScope(h)
           \/ ResolveAdvisory(h)
    PROVE  IInv'
<1>0. next \in Nat /\ next + 1 \in Nat /\ 0 \in Nat /\ Null \in Draft \cup {Null}
      /\ {} \in SUBSET Sections
      /\ "fetch" \in FixPc /\ "reread" \in FixPc
  BY DEF IInv, Stored, FixPc
<1>1. CASE ApplyPatch(h)
  <2>1. PICK d \in drafts :
          Accept(h, "patch_applied", d.id, d.findings, d, {}, "fetch")
    BY <1>1 DEF ApplyPatch
  <2>2. d \in Draft /\ d.id \in Nat /\ d.findings \in SUBSET Findings
    BY DEF IInv, Stored, Draft
  <2>3. report # Null /\ next' \in Nat /\ "patch_applied" \in FixAction
    BY <1>0, <1>1, Tables DEF ApplyPatch
  <2> QED BY <1>0, <2>1, <2>2, <2>3, AcceptIInv
<1>2. CASE AddClientQuestion(h)
  <2>1. PICK f \in Findings : Accept(h, "added_open_question", next + 1, {f}, Null,
                                  {"assumptions", "openQuestions"}, "fetch")
    BY <1>2 DEF AddClientQuestion
  <2>2. report # Null /\ next' \in Nat /\ "added_open_question" \in FixAction
        /\ {"assumptions", "openQuestions"} \in SUBSET Sections
    BY <1>0, <1>2, Tables DEF AddClientQuestion
  <2>3. {f} \in SUBSET Findings
    OBVIOUS
  <2> QED BY <1>0, <2>1, <2>2, <2>3, AcceptIInv
<1>3. CASE AddOutOfScope(h)
  <2>1. PICK f \in Findings : Accept(h, "added_out_of_scope", next + 1, {f}, Null,
                                  {"outOfScope"}, "fetch")
    BY <1>3 DEF AddOutOfScope
  <2>2. report # Null /\ next' \in Nat /\ "added_out_of_scope" \in FixAction
        /\ {"outOfScope"} \in SUBSET Sections
    BY <1>0, <1>3, Tables DEF AddOutOfScope
  <2>3. {f} \in SUBSET Findings
    OBVIOUS
  <2> QED BY <1>0, <2>1, <2>2, <2>3, AcceptIInv
<1>4. CASE ResolveAdvisory(h)
  <2>1. PICK f \in Findings, action \in {"acknowledged", "dismissed"} :
          Accept(h, action, 0, {f}, Null, {}, "reread")
    BY <1>4 DEF ResolveAdvisory
  <2>2. report # Null /\ next' \in Nat /\ action \in FixAction
    BY <1>0, <1>4, Tables DEF ResolveAdvisory
  <2>3. {f} \in SUBSET Findings
    OBVIOUS
  <2> QED BY <1>0, <2>1, <2>2, <2>3, AcceptIInv
<1> QED BY <1>1, <1>2, <1>3, <1>4

LEMMA FetchStageIInv ==
    ASSUME IInv, NEW h \in Handlers, FetchStage(h)
    PROVE  IInv'
<1>1. req[h] # Null /\ req[h].pc = "fetch"
  BY DEF FetchStage
<1>2. req[h] \in Request /\ Fine(req[h])
  BY <1>1, InFlight
<1>3. PICK st \in req[h].left :
        req' = [req EXCEPT ![h].pc = "store", ![h].stage = st, ![h].doc = doc]
  BY DEF FetchStage
<1> DEFINE r == [req[h] EXCEPT !.pc = "store", !.stage = st, !.doc = doc]
<1>4. req' = [req EXCEPT ![h] = r]
  BY <1>3, <1>2 DEF IInv, Flight, Request
<1>5. Fine(r)
  BY <1>1, <1>2 DEF Fine, FixPc, Request, IInv, Stored
<1> HIDE DEF r
<1>6. Flight'
  BY <1>4, <1>5, FlightStep
<1> QED BY <1>6 DEF FetchStage, IInv, Stored

(* What a request writes to a section is a set of changes. *)
LEMMA PatchedType ==
    ASSUME NEW r \in Request, NEW s \in Sections
    PROVE  Patched(r, s) \in SUBSET Nat
<1>1. r.doc[s] \in SUBSET Nat /\ r.id \in Nat
  BY DEF Request, Contents
<1>2. r.draft # Null => r.draft.content[s] \in SUBSET Nat
  BY DEF Request, Draft, Contents
<1> QED BY <1>1, <1>2 DEF Patched

LEMMA StoreStageIInv ==
    ASSUME IInv, NEW h \in Handlers, StoreStage(h)
    PROVE  IInv'
<1> DEFINE mine == {s \in Sections : StageOf[s] = req[h].stage}
           left == StagesLeft(req[h])
           pc == IF left = {} THEN "reread" ELSE "fetch"
           r == [req[h] EXCEPT !.left = left, !.doc = Blank, !.pc = pc]
<1>1. req[h] # Null /\ req[h].pc = "store"
  BY DEF StoreStage
<1>2. req[h] \in Request /\ Fine(req[h])
  BY <1>1, InFlight
<1>3. req' = [req EXCEPT ![h] = r]
  BY <1>2 DEF StoreStage, IInv, Flight, Request
<1>4. left \in SUBSET Stages /\ pc \in {"reread", "fetch"}
  BY <1>2 DEF StagesLeft, Request
<1> HIDE DEF left, pc
<1>5. Fine(r)
  BY <1>1, <1>2, <1>4, BlankTypes DEF Fine, FixPc, Request
<1> HIDE DEF r
<1>6. Flight'
  BY <1>3, <1>5, FlightStep
<1>7. doc' \in Contents
  <2>1. doc' = [s \in Sections |-> IF s \in mine THEN Patched(req[h], s) ELSE doc[s]]
    BY DEF StoreStage
  <2>2. \A s \in Sections : Patched(req[h], s) \in SUBSET Nat
    BY <1>2, PatchedType
  <2> QED BY <2>1, <2>2 DEF IInv, Stored, Contents
<1>8. written' \subseteq Nat \X Sections
  <2>1. written' = written \cup ({req[h].id} \X (mine \cap Changes(req[h])))
    BY DEF StoreStage
  <2>2. req[h].id \in Nat /\ written \subseteq Nat \X Sections
    BY <1>2 DEF Request, IInv, Stored
  <2> QED BY <2>1, <2>2
<1>9. upset' \subseteq Upset
  <2>1. "documents" \in Upset /\ "draft" \in Upset /\ upset \subseteq Upset
    BY DEF Upset, IInv, Stored
  <2> QED BY <2>1 DEF StoreStage
<1> QED BY <1>6, <1>7, <1>8, <1>9 DEF StoreStage, IInv, Stored

LEMMA RereadIInv ==
    ASSUME IInv, NEW h \in Handlers, Reread(h)
    PROVE  IInv'
<1> DEFINE r == [req[h] EXCEPT !.pc = "log", !.row = session]
<1>1. req[h] # Null /\ req[h].pc = "reread"
  BY DEF Reread
<1>2. req[h] \in Request /\ Fine(req[h])
  BY <1>1, InFlight
<1>3. req' = [req EXCEPT ![h] = r]
  BY <1>2 DEF Reread, IInv, Flight, Request
<1>4. Fine(r)
  BY <1>1, <1>2 DEF Fine, FixPc, Request, IInv, Stored
<1> HIDE DEF r
<1>5. Flight'
  BY <1>3, <1>4, FlightStep
<1> QED BY <1>5 DEF Reread, IInv, Stored

(* The entry of an approved action. *)
LEMMA EntryType ==
    ASSUME NEW r, Fine(r), r.pc \in FixPc
    PROVE  LogEntry(r) \in Entry
<1>1. r \in Request /\ r.action \in FixAction /\ r.report \in Report
  BY DEF Fine, Request
<1>2. r.report.title \in Nat
  BY <1>1 DEF Report
<1> QED BY <1>1, <1>2 DEF LogEntry, Entry, Request

LEMMA SaveLogIInv ==
    ASSUME IInv, NEW h \in Handlers, SaveLog(h)
    PROVE  IInv'
<1> DEFINE r == [req[h] EXCEPT !.pc = "status", !.row = NewSession]
<1>1. req[h] # Null /\ req[h].pc = "log"
  BY DEF SaveLog
<1>2. req[h] \in Request /\ Fine(req[h]) /\ req[h].row \in Session
  BY <1>1, InFlight DEF Request
<1>3. req' = [req EXCEPT ![h] = r]
  BY <1>2 DEF SaveLog, IInv, Flight, Request
<1>4. Fine(r)
  BY <1>1, <1>2, BlankTypes DEF Fine, FixPc, Request
<1> HIDE DEF r
<1>5. Flight'
  BY <1>3, <1>4, FlightStep
<1>6. LogEntry(req[h]) \in Entry
  BY <1>1, <1>2, EntryType DEF FixPc
<1>7. session' \in Session
  <2> DEFINE log == AppendFixLog(req[h].row.fixLog, LogEntry(req[h]))
  <2>1. session' = [req[h].row EXCEPT !.fixLog = log]
    BY DEF SaveLog
  <2>2. log \in Seq(Entry)
    BY <1>2, <1>6 DEF AppendFixLog, Session
  <2> HIDE DEF log
  <2> QED BY <1>2, <2>1, <2>2 DEF Session
<1>8. upset' \subseteq Upset
  BY DEF SaveLog, Disturbed, Upset, IInv, Stored
<1> QED BY <1>5, <1>7, <1>8 DEF SaveLog, IInv, Stored

(* A review whose findings have another status is a review. *)
LEMMA StatusType ==
    ASSUME NEW rep \in Report, NEW fs \in SUBSET Findings, NEW s \in Status
    PROVE  WithFindingStatus(rep, fs, s) \in Report
<1> DEFINE status == [f \in Findings |-> IF f \in fs THEN s ELSE rep.status[f]]
<1>1. status \in [Findings -> Status]
  BY DEF Report
<1>2. WithFindingStatus(rep, fs, s) = [rep EXCEPT !.status = status]
  BY DEF WithFindingStatus
<1> HIDE DEF status
<1> QED BY <1>1, <1>2 DEF Report

(* A request that ends. *)
LEMMA EndFlight ==
    ASSUME IInv, NEW h \in Handlers, req' = [req EXCEPT ![h] = Null]
    PROVE  Flight'
BY FlightStep

LEMMA SaveReportIInv ==
    ASSUME IInv, NEW h \in Handlers, SaveReport(h)
    PROVE  IInv'
<1>1. req[h] # Null /\ req[h].pc = "status"
  BY DEF SaveReport
<1>2. req[h] \in Request /\ Fine(req[h])
  BY <1>1, InFlight
<1>3. req[h].action \in FixAction /\ req[h].report \in Report
      /\ req[h].findings \in SUBSET Findings
  BY <1>1, <1>2 DEF Fine, FixPc, Request
<1>4. StatusAfter(req[h].action) \in Status
  BY <1>3, Tables DEF StatusAfter
<1>5. report' \in Report
  BY <1>3, <1>4, StatusType DEF SaveReport
<1>6. Flight'
  BY EndFlight DEF SaveReport
<1>7. upset' \subseteq Upset
  BY DEF SaveReport, Disturbed, Upset, IInv, Stored
<1> QED BY <1>5, <1>6, <1>7 DEF SaveReport, IInv, Stored

LEMMA BeginIInv ==
    ASSUME IInv, NEW h \in Handlers, NEW pc \in {"put", "save"},
           NEW action \in {"edit", "rename", "propose"}, NEW stage \in Stages,
           NEW copy \in Contents, NEW row \in Session,
           Begin(h, pc, action, stage, copy, row)
    PROVE  IInv'
<1> DEFINE none == {}
           r == [pc |-> pc, action |-> action, id |-> next + 1, findings |-> none,
                 report |-> Null, draft |-> Null, appends |-> none,
                 touched |-> none, left |-> none, stage |-> stage, doc |-> copy,
                 row |-> row]
<1>1. /\ req' = [req EXCEPT ![h] = r]
      /\ UNCHANGED <<session, report, doc, kept, drafts, written, upset>>
      /\ next' = next + 1 /\ next \in Nat
  BY DEF Begin, IInv, Stored
<1>2. none \in SUBSET Findings /\ none \in SUBSET Sections /\ none \in SUBSET Stages
  OBVIOUS
<1> HIDE DEF none
<1>3. r \in Request
  BY <1>1, <1>2 DEF Request
<1>4. Fine(r)
  BY <1>3 DEF Fine, FixPc
<1> HIDE DEF r
<1>5. Flight'
  BY <1>1, <1>4, FlightStep
<1> QED BY <1>1, <1>5 DEF IInv, Stored

LEMMA OtherReadsIInv ==
    ASSUME IInv, NEW h \in Handlers, OpenEditor(h) \/ ReadRow(h)
    PROVE  IInv'
<1>1. doc \in Contents /\ session \in Session
  BY DEF IInv, Stored
<1>2. CASE OpenEditor(h)
  BY <1>1, <1>2, BlankTypes, BeginIInv DEF OpenEditor
<1>3. CASE ReadRow(h)
  BY <1>1, <1>3, BlankTypes, BeginIInv DEF ReadRow
<1> QED BY <1>2, <1>3

LEMMA PutStageIInv ==
    ASSUME IInv, NEW h \in Handlers, PutStage(h)
    PROVE  IInv'
<1> DEFINE mine == {s \in Sections : StageOf[s] = req[h].stage}
<1>1. req[h] \in Request
  BY InFlight DEF PutStage
<1>2. Flight'
  BY EndFlight DEF PutStage
<1>3. doc' \in Contents
  <2>1. doc' = [s \in Sections |-> IF s \in mine THEN Edited(req[h], s) ELSE doc[s]]
    BY DEF PutStage
  <2>2. \A s \in Sections : Edited(req[h], s) \in SUBSET Nat
    BY <1>1 DEF Edited, Request, Contents
  <2> QED BY <2>1, <2>2 DEF IInv, Stored, Contents
<1>4. upset' \subseteq Upset
  BY DEF PutStage, Disturbed, Upset, IInv, Stored
<1> QED BY <1>2, <1>3, <1>4 DEF PutStage, IInv, Stored

LEMMA SaveRowIInv ==
    ASSUME IInv, NEW h \in Handlers, SaveRow(h)
    PROVE  IInv'
<1>1. req[h] \in Request /\ req[h].row \in Session /\ req[h].id \in Nat
  BY InFlight DEF SaveRow, Request
<1>2. Flight'
  BY EndFlight DEF SaveRow
<1>3. [req[h].row EXCEPT !.name = req[h].id] \in Session
  BY <1>1 DEF Session
<1>4. [req[h].row EXCEPT !.proposalDrafts = @ \cup {req[h].id}] \in Session
  <2> DEFINE d == req[h].row.proposalDrafts \cup {req[h].id}
  <2>1. d \in SUBSET Nat
    BY <1>1 DEF Session
  <2>2. [req[h].row EXCEPT !.proposalDrafts = @ \cup {req[h].id}] =
        [req[h].row EXCEPT !.proposalDrafts = d]
    OBVIOUS
  <2> HIDE DEF d
  <2> QED BY <1>1, <2>1, <2>2 DEF Session
<1>5. session' \in Session
  BY <1>3, <1>4 DEF SaveRow
<1>6. upset' \subseteq Upset
  BY DEF SaveRow, Disturbed, Upset, IInv, Stored
<1> QED BY <1>2, <1>5, <1>6 DEF SaveRow, IInv, Stored

LEMMA DieIInv ==
    ASSUME IInv, NEW h \in Handlers, Die(h)
    PROVE  IInv'
<1>1. Flight'
  BY EndFlight DEF Die
<1> QED BY <1>1 DEF Die, Upset, IInv, Stored

LEMMA RegenerateIInv ==
    ASSUME IInv, Regenerate
    PROVE  IInv'
<1>1. doc' \in Contents
  BY DEF Regenerate, IInv, Stored, Contents
<1> QED BY <1>1 DEF Regenerate, Upset, IInv, Stored, Flight

LEMMA RestoreIInv ==
    ASSUME IInv, Restore
    PROVE  IInv'
BY DEF Restore, Upset, IInv, Stored, Flight

LEMMA NextIInv == IInv /\ [Next]_vars => IInv'
<1> SUFFICES ASSUME IInv, [Next]_vars PROVE IInv'
  OBVIOUS
<1>1. CASE UNCHANGED vars
  BY <1>1 DEF vars, IInv, Stored, Flight
<1>2. CASE RunReview \/ Propose \/ Regenerate \/ Restore
  BY <1>2, RunReviewIInv, ProposeIInv, RegenerateIInv, RestoreIInv
<1>3. ASSUME NEW h \in Handlers,
             \/ ApplyPatch(h) \/ AddClientQuestion(h) \/ AddOutOfScope(h)
             \/ ResolveAdvisory(h) \/ FetchStage(h) \/ StoreStage(h)
             \/ Reread(h) \/ SaveLog(h) \/ SaveReport(h)
             \/ OpenEditor(h) \/ PutStage(h) \/ ReadRow(h) \/ SaveRow(h) \/ Die(h)
      PROVE IInv'
  BY <1>3, ApprovedIInv, FetchStageIInv, StoreStageIInv, RereadIInv, SaveLogIInv,
     SaveReportIInv, OtherReadsIInv, PutStageIInv, SaveRowIInv, DieIInv
<1> QED BY <1>1, <1>2, <1>3 DEF Next

LEMMA Invariance == Spec => []IInv
BY InitIInv, NextIInv, PTL DEF Spec

(* Every row, proposal, version and request keeps its type. *)
THEOREM TypeCorrect == Spec => []TypeOK
<1>1. IInv => TypeOK
  BY DEF IInv, Flight, Stored, TypeOK
<1> QED BY <1>1, Invariance, PTL

-----------------------------------------------------------------------------
(* The audit trail                                                          *)

Explained(rep, log) ==
    rep # Null => \A f \in Findings : rep.status[f] # "open" =>
        \E e \in Logged(log) : Explains(e, rep, f)

Recorded(r, log) ==
    \E e \in Logged(log) : /\ e.findings = r.findings
                           /\ e.title = r.report.title
                           /\ e.action = r.action

InAudit(r, log) ==
    r # Null =>
        /\ r.pc \in FixPc => Explained(r.report, log)
        /\ r.pc = "status" => Recorded(r, log)

(* AuditComplete of every copy of the report that may become the report: the *)
(* stored one, the last version's, and those requests in flight hold; and an *)
(* action about to change a status has its entry.                           *)
Audit ==
    "session" \notin upset =>
        /\ Explained(report, session.fixLog)
        /\ Explained(kept.report, session.fixLog)
        /\ \A h \in Handlers : InAudit(req[h], session.fixLog)

(* A longer log explains what a shorter one did. *)
LEMMA LongerLog ==
    ASSUME NEW log, NEW more, Logged(log) \subseteq Logged(more)
    PROVE  /\ \A rep : Explained(rep, log) => Explained(rep, more)
           /\ \A r : InAudit(r, log) => InAudit(r, more)
BY DEF Explained, InAudit, Recorded

LEMMA Appended ==
    ASSUME NEW log \in Seq(Entry), NEW e \in Entry
    PROVE  Logged(Append(log, e)) = Logged(log) \cup {e}
<1>1. Append(log, e) \in Seq(Entry) /\ Len(Append(log, e)) = Len(log) + 1
      /\ Len(log) \in Nat
  OBVIOUS
<1>2. \A i \in 1 .. Len(log) : Append(log, e)[i] = log[i]
  OBVIOUS
<1>3. Append(log, e)[Len(log) + 1] = e
  OBVIOUS
<1>4. 1 .. Len(log) + 1 = (1 .. Len(log)) \cup {Len(log) + 1}
  BY <1>1
<1> QED BY <1>1, <1>2, <1>3, <1>4 DEF Logged

(* A step that moves one request, loses nothing of the log, and stores a     *)
(* report that is explained.                                                *)
LEMMA AuditStep ==
    ASSUME IInv, Audit, NEW h \in Handlers, NEW r,
           req' = [req EXCEPT ![h] = r], upset \subseteq upset', kept' = kept,
           "session" \notin upset' =>
               /\ Logged(session.fixLog) \subseteq Logged(session'.fixLog)
               /\ InAudit(r, session'.fixLog)
               /\ report' = report \/ Explained(report', session'.fixLog)
    PROVE  Audit'
<1> SUFFICES ASSUME "session" \notin upset'
             PROVE  /\ Explained(report', session'.fixLog)
                    /\ Explained(kept'.report, session'.fixLog)
                    /\ \A g \in Handlers : InAudit(req'[g], session'.fixLog)
  BY DEF Audit
<1>1. /\ Explained(report, session.fixLog)
      /\ Explained(kept.report, session.fixLog)
      /\ \A g \in Handlers : InAudit(req[g], session.fixLog)
  BY DEF Audit
<1>2. Explained(report', session'.fixLog) /\ Explained(kept'.report, session'.fixLog)
  BY <1>1, LongerLog
<1>3. ASSUME NEW g \in Handlers PROVE InAudit(req'[g], session'.fixLog)
  <2>1. InAudit(req[g], session'.fixLog)
    BY <1>1, LongerLog
  <2>2. req'[g] = IF g = h THEN r ELSE req[g]
    BY DEF IInv, Flight
  <2> QED BY <2>1, <2>2
<1> QED BY <1>2, <1>3

LEMMA NothingInAudit == \A log : InAudit(Null, log)
BY DEF InAudit

LEMMA AcceptAudit ==
    ASSUME IInv, Audit, NEW h \in Handlers, NEW action, NEW id, NEW fs, NEW draft,
           NEW appends, NEW pc \in {"fetch", "reread"},
           Accept(h, action, id, fs, draft, appends, pc)
    PROVE  Audit'
<1> DEFINE touched == Touches(IF draft = Null THEN appends ELSE draft.wrote)
           r == [pc |-> pc, action |-> action, id |-> id, findings |-> fs,
                 report |-> report, draft |-> draft, appends |-> appends,
                 touched |-> touched, left |-> touched,
                 stage |-> "requirements", doc |-> Blank, row |-> NewSession]
<1>1. /\ req' = [req EXCEPT ![h] = r]
      /\ UNCHANGED <<session, report, doc, kept, drafts, written, upset>>
  BY DEF Accept
<1>2. r.pc # "status" /\ r.report = report
  OBVIOUS
<1> HIDE DEF r
<1>3. "session" \notin upset => InAudit(r, session.fixLog)
  BY <1>2 DEF InAudit, Audit
<1> QED BY <1>1, <1>3, AuditStep

LEMMA ApprovedAudit ==
    ASSUME IInv, Audit, NEW h \in Handlers,
           \/ ApplyPatch(h) \/ AddClientQuestion(h) \/ AddOutOfScope(h)
           \/ ResolveAdvisory(h)
    PROVE  Audit'
<1>1. CASE ApplyPatch(h)
  BY <1>1, AcceptAudit DEF ApplyPatch
<1>2. CASE AddClientQuestion(h)
  BY <1>2, AcceptAudit DEF AddClientQuestion
<1>3. CASE AddOutOfScope(h)
  BY <1>3, AcceptAudit DEF AddOutOfScope
<1>4. CASE ResolveAdvisory(h)
  BY <1>4, AcceptAudit DEF ResolveAdvisory
<1> QED BY <1>1, <1>2, <1>3, <1>4

(* The steps of a request before its log entry. *)
LEMMA WorkAudit ==
    ASSUME IInv, Audit, NEW h \in Handlers,
           FetchStage(h) \/ StoreStage(h) \/ Reread(h)
    PROVE  Audit'
<1>1. /\ req[h] # Null /\ req[h].pc \in {"fetch", "store", "reread"}
      /\ UNCHANGED <<session, report, kept>> /\ upset \subseteq upset'
  BY DEF FetchStage, StoreStage, Reread
<1>2. req[h] \in Request
  BY <1>1, InFlight
<1>3. PICK r : /\ req' = [req EXCEPT ![h] = r]
               /\ r.report = req[h].report /\ r.pc # "status"
  <2>1. CASE FetchStage(h)
    <3>1. PICK st \in req[h].left :
            req' = [req EXCEPT ![h].pc = "store", ![h].stage = st, ![h].doc = doc]
      BY <2>1 DEF FetchStage
    <3> DEFINE r == [req[h] EXCEPT !.pc = "store", !.stage = st, !.doc = doc]
    <3>2. req' = [req EXCEPT ![h] = r] /\ r.report = req[h].report /\ r.pc # "status"
      BY <3>1, <1>2 DEF IInv, Flight, Request
    <3> HIDE DEF r
    <3> QED BY <3>2
  <2>2. CASE StoreStage(h)
    <3> DEFINE pc == IF StagesLeft(req[h]) = {} THEN "reread" ELSE "fetch"
               left == StagesLeft(req[h])
               r == [req[h] EXCEPT !.left = left, !.doc = Blank, !.pc = pc]
    <3>1. req' = [req EXCEPT ![h] = r]
      BY <2>2, <1>2 DEF StoreStage, IInv, Flight, Request
    <3>2. r.report = req[h].report /\ r.pc # "status"
      BY <1>2 DEF Request
    <3> HIDE DEF r
    <3> QED BY <3>1, <3>2
  <2>3. CASE Reread(h)
    <3> DEFINE r == [req[h] EXCEPT !.pc = "log", !.row = session]
    <3>1. req' = [req EXCEPT ![h] = r] /\ r.report = req[h].report /\ r.pc # "status"
      BY <2>3, <1>2 DEF Reread, IInv, Flight, Request
    <3> HIDE DEF r
    <3> QED BY <3>1
  <2> QED BY <2>1, <2>2, <2>3
<1>4. "session" \notin upset' => InAudit(r, session'.fixLog)
  BY <1>1, <1>3 DEF InAudit, Audit, FixPc
<1> QED BY <1>1, <1>3, <1>4, AuditStep

LEMMA SaveLogAudit ==
    ASSUME IInv, Audit, NEW h \in Handlers, SaveLog(h)
    PROVE  Audit'
<1> DEFINE r == [req[h] EXCEPT !.pc = "status", !.row = NewSession]
           log == Append(session.fixLog, LogEntry(req[h]))
<1>1. /\ req[h] # Null /\ req[h].pc = "log" /\ UNCHANGED <<report, kept>>
      /\ upset \subseteq upset'
  BY DEF SaveLog, Disturbed
<1>2. req[h] \in Request /\ Fine(req[h])
  BY <1>1, InFlight
<1>3. req' = [req EXCEPT ![h] = r]
  BY <1>2 DEF SaveLog, IInv, Flight, Request
<1>4. /\ r.report = req[h].report /\ r.findings = req[h].findings
      /\ r.action = req[h].action
  BY <1>2 DEF Request
<1> HIDE DEF r
<1>5. LogEntry(req[h]) \in Entry
  BY <1>1, <1>2, EntryType DEF FixPc
<1>6. ASSUME "session" \notin upset'
      PROVE  /\ Logged(session.fixLog) \subseteq Logged(session'.fixLog)
             /\ InAudit(r, session'.fixLog)
  <2>1. session = req[h].row /\ "session" \notin upset
    BY <1>6 DEF SaveLog, Disturbed
  <2>2. session \in Session /\ session.fixLog \in Seq(Entry)
    BY DEF IInv, Stored, Session
  <2>3. session'.fixLog = log
    BY <2>1, <2>2 DEF SaveLog, AppendFixLog, Session
  <2>4. Logged(session'.fixLog) = Logged(session.fixLog) \cup {LogEntry(req[h])}
    BY <1>5, <2>2, <2>3, Appended
  <2>5. Recorded(r, session'.fixLog)
    <3>1. /\ LogEntry(req[h]).findings = r.findings
          /\ LogEntry(req[h]).title = r.report.title
          /\ LogEntry(req[h]).action = r.action
      BY <1>4 DEF LogEntry
    <3>2. LogEntry(req[h]) \in Logged(session'.fixLog)
      BY <2>4
    <3> QED BY <3>1, <3>2 DEF Recorded
  <2>6. Explained(r.report, session.fixLog)
    BY <1>1, <1>4, <2>1 DEF Audit, InAudit, FixPc
  <2>7. Explained(r.report, session'.fixLog)
    BY <2>4, <2>6, LongerLog
  <2> QED BY <2>4, <2>5, <2>7 DEF InAudit
<1> QED BY <1>1, <1>3, <1>6, AuditStep

(* The report that is written back: what it said before is explained, and   *)
(* so are the findings of this action.                                      *)
LEMMA SaveReportAudit ==
    ASSUME IInv, Audit, NEW h \in Handlers, SaveReport(h)
    PROVE  Audit'
<1> DEFINE r == req[h]
           s == FixActionStatus[r.action]
<1>1. /\ r # Null /\ r.pc = "status" /\ UNCHANGED <<session, kept>>
      /\ upset \subseteq upset' /\ req' = [req EXCEPT ![h] = Null]
  BY DEF SaveReport, Disturbed
<1>2. r \in Request /\ Fine(r)
  BY <1>1, InFlight
<1>3. r.report \in Report /\ r.report # Null
  BY <1>1, <1>2 DEF Fine, FixPc, Request
<1>4. /\ report'.title = r.report.title
      /\ \A f \in Findings : report'.status[f] =
             IF f \in r.findings THEN s ELSE r.report.status[f]
  BY <1>3 DEF SaveReport, WithFindingStatus, StatusAfter, Report
<1>5. ASSUME "session" \notin upset'
      PROVE  Explained(report', session.fixLog)
  <2>1. Explained(r.report, session.fixLog) /\ Recorded(r, session.fixLog)
    BY <1>1, <1>5 DEF Audit, InAudit, FixPc
  <2>2. SUFFICES ASSUME NEW f \in Findings, report'.status[f] # "open"
                 PROVE  \E e \in Logged(session.fixLog) : Explains(e, report', f)
    BY DEF Explained
  <2>3. CASE f \in r.findings
    <3>1. PICK e \in Logged(session.fixLog) :
            /\ e.findings = r.findings
            /\ e.title = r.report.title
            /\ e.action = r.action
      BY <2>1 DEF Recorded
    <3> QED BY <1>4, <2>3, <3>1 DEF Explains
  <2>4. CASE f \notin r.findings
    <3>1. r.report.status[f] # "open"
      BY <1>4, <2>2, <2>4
    <3>2. PICK e \in Logged(session.fixLog) : Explains(e, r.report, f)
      BY <1>3, <2>1, <3>1 DEF Explained
    <3> QED BY <1>4, <2>4, <3>2 DEF Explains
  <2> QED BY <2>3, <2>4
<1>6. InAudit(Null, session'.fixLog)
  BY NothingInAudit
<1> QED BY <1>1, <1>5, <1>6, AuditStep

(* The other requests hold no report. *)
LEMMA OthersAudit ==
    ASSUME IInv, Audit, NEW h \in Handlers,
           OpenEditor(h) \/ ReadRow(h) \/ PutStage(h) \/ Die(h)
    PROVE  Audit'
<1>1. UNCHANGED <<session, report, kept>> /\ upset \subseteq upset'
  BY DEF OpenEditor, ReadRow, Begin, PutStage, Die, Disturbed
<1>2. PICK r : /\ req' = [req EXCEPT ![h] = r]
               /\ r # Null => r.pc \in {"put", "save"}
  <2>1. ASSUME NEW pc \in {"put", "save"}, NEW action, NEW stage, NEW copy, NEW row,
               Begin(h, pc, action, stage, copy, row)
        PROVE  \E q : /\ req' = [req EXCEPT ![h] = q]
                      /\ q # Null => q.pc \in {"put", "save"}
    <3> DEFINE q == [pc |-> pc, action |-> action, id |-> next + 1,
                 findings |-> {}, report |-> Null, draft |-> Null,
                 appends |-> {}, touched |-> {}, left |-> {}, stage |-> stage,
                 doc |-> copy, row |-> row]
    <3>1. req' = [req EXCEPT ![h] = q]
      BY <2>1 DEF Begin
    <3>2. q.pc \in {"put", "save"}
      OBVIOUS
    <3> HIDE DEF q
    <3> QED BY <3>1, <3>2
  <2>2. CASE PutStage(h) \/ Die(h)
    BY <2>2 DEF PutStage, Die
  <2> QED BY <2>1, <2>2 DEF OpenEditor, ReadRow
<1>3. InAudit(r, session'.fixLog)
  BY <1>2 DEF InAudit, FixPc
<1> QED BY <1>1, <1>2, <1>3, AuditStep

LEMMA SaveRowAudit ==
    ASSUME IInv, Audit, NEW h \in Handlers, SaveRow(h)
    PROVE  Audit'
<1>1. /\ req' = [req EXCEPT ![h] = Null] /\ UNCHANGED <<report, kept>>
      /\ upset \subseteq upset'
  BY DEF SaveRow, Disturbed
<1>2. "session" \notin upset' => session'.fixLog = session.fixLog
  BY DEF SaveRow, Disturbed, IInv, Stored, Session
<1>3. InAudit(Null, session'.fixLog)
  BY NothingInAudit
<1> QED BY <1>1, <1>2, <1>3, AuditStep

(* A new review has nothing to explain; a restored one was explained. *)
LEMMA ReportsAudit ==
    ASSUME IInv, Audit, RunReview \/ Propose \/ Regenerate \/ Restore
    PROVE  Audit'
<1>1. UNCHANGED <<session, req>> /\ upset \subseteq upset'
  BY DEF RunReview, Propose, Regenerate, Restore
<1>2. /\ report' \in {report, kept.report}
         \/ \A f \in Findings : report'.status[f] = "open"
      /\ kept'.report \in {kept.report, report, report'}
  BY DEF RunReview, Propose, Regenerate, Restore, IInv, Stored
<1>3. (\A f \in Findings : report'.status[f] = "open") =>
        Explained(report', session.fixLog)
  BY DEF Explained
<1>4. "session" \notin upset' =>
        /\ Explained(report', session'.fixLog)
        /\ Explained(kept'.report, session'.fixLog)
        /\ \A h \in Handlers : InAudit(req'[h], session'.fixLog)
  BY <1>1, <1>2, <1>3 DEF Audit
<1> QED BY <1>4 DEF Audit

LEMMA NextAudit == IInv /\ Audit /\ [Next]_vars => Audit'
<1> SUFFICES ASSUME IInv, Audit, [Next]_vars PROVE Audit'
  OBVIOUS
<1>1. CASE UNCHANGED vars
  BY <1>1 DEF vars, Audit
<1>2. CASE RunReview \/ Propose \/ Regenerate \/ Restore
  BY <1>2, ReportsAudit
<1>3. ASSUME NEW h \in Handlers,
             \/ ApplyPatch(h) \/ AddClientQuestion(h) \/ AddOutOfScope(h)
             \/ ResolveAdvisory(h) \/ FetchStage(h) \/ StoreStage(h)
             \/ Reread(h) \/ SaveLog(h) \/ SaveReport(h)
             \/ OpenEditor(h) \/ PutStage(h) \/ ReadRow(h) \/ SaveRow(h) \/ Die(h)
      PROVE Audit'
  BY <1>3, ApprovedAudit, WorkAudit, SaveLogAudit, SaveReportAudit, OthersAudit,
     SaveRowAudit
<1> QED BY <1>1, <1>2, <1>3 DEF Next

LEMMA InitAudit == Init => Audit
BY DEF Init, Audit, Explained, InAudit

(* No status without its log entry, whatever dies and however the requests  *)
(* interleave, as long as no stale session row is saved: the log is written *)
(* first, and whoever writes a report back read one the log explains.       *)
THEOREM AuditTrail == Spec => []AuditComplete
<1>1. Audit => AuditComplete
  BY DEF Audit, Explained, AuditComplete
<1>2. Spec => []Audit
  BY InitIInv, NextIInv, InitAudit, NextAudit, PTL DEF Spec
<1> QED BY <1>1, <1>2, PTL

-----------------------------------------------------------------------------
(* What the log says is written is written                                  *)

(* An entry of the log, or of a copy of the row that a request holds.       *)
Honest(e) ==
    /\ e.by \in Nat /\ e.by <= next
    /\ \A st \in e.touched : \E s \in Sections :
          StageOf[s] = st /\ <<e.by, s>> \in written
    /\ \A d \in drafts : d.id = e.by => {d.id} \X d.wrote \subseteq written

HonestRow(row) == \A e \in Logged(row.fixLog) : Honest(e)

(* An approved action knows its draft, and has written what is not left.    *)
OnTrack(r) ==
    /\ r.id \in Nat /\ r.id <= next
    /\ r.draft # Null => r.draft \in drafts /\ r.id = r.draft.id
    /\ r.draft = Null => \A d \in drafts : d.id # r.id
    /\ r.touched = Touches(Changes(r))
    /\ \A s \in Changes(r) : StageOf[s] \notin r.left => <<r.id, s>> \in written
    /\ r.pc \in {"reread", "log", "status"} => r.left = {}

Sound(r) ==
    r # Null => /\ r.pc \in FixPc => OnTrack(r)
                /\ HonestRow(r.row)

Numbered ==
    /\ \A d \in drafts : d.id \in Nat /\ 0 < d.id /\ d.id <= next
    /\ \A c, d \in drafts : c.id = d.id => c = d

Truth ==
    /\ Numbered
    /\ HonestRow(session)
    /\ \A h \in Handlers : Sound(req[h])

(* Numbers go up, what is written stays written, and a new draft has a new  *)
(* number.                                                                  *)
Onward ==
    /\ next' \in Nat /\ next <= next'
    /\ written \subseteq written'
    /\ \/ drafts' = drafts
       \/ \E d : drafts' = drafts \cup {d} /\ d.id = next + 1 /\ next' = next + 1

LEMMA Kept ==
    ASSUME IInv, Numbered, Onward
    PROVE  /\ Numbered'
           /\ \A e : Honest(e) => Honest(e)'
           /\ \A row : HonestRow(row) => HonestRow(row)'
           /\ \A r : OnTrack(r) => OnTrack(r)'
           /\ \A r : Sound(r) => Sound(r)'
<1>0. next \in Nat
  BY DEF IInv, Stored
<1>1. Numbered'
  BY <1>0 DEF Numbered, Onward
<1>2. ASSUME NEW e, Honest(e) PROVE Honest(e)'
  <2>1. e.by \in Nat /\ e.by <= next'
    BY <1>0, <1>2 DEF Honest, Onward
  <2>2. \A st \in e.touched : \E s \in Sections :
          StageOf[s] = st /\ <<e.by, s>> \in written'
    BY <1>2 DEF Honest, Onward
  <2>3. ASSUME NEW d \in drafts', d.id = e.by
        PROVE  {d.id} \X d.wrote \subseteq written'
    <3>1. d \in drafts
      BY <1>0, <1>2, <2>3 DEF Honest, Onward
    <3> QED BY <1>2, <2>3, <3>1 DEF Honest, Onward
  <2> QED BY <2>1, <2>2, <2>3 DEF Honest
<1>3. ASSUME NEW row, HonestRow(row) PROVE HonestRow(row)'
  BY <1>2, <1>3 DEF HonestRow
<1>4. ASSUME NEW r, OnTrack(r) PROVE OnTrack(r)'
  <2>1. r.id \in Nat /\ r.id <= next'
    BY <1>0, <1>4 DEF OnTrack, Onward
  <2>2. r.draft # Null => r.draft \in drafts' /\ r.id = r.draft.id
    BY <1>4 DEF OnTrack, Onward
  <2>3. r.draft = Null => \A d \in drafts' : d.id # r.id
    BY <1>0, <1>4 DEF OnTrack, Onward
  <2>4. \A s \in Changes(r) : StageOf[s] \notin r.left => <<r.id, s>> \in written'
    BY <1>4 DEF OnTrack, Onward
  <2> QED BY <1>4, <2>1, <2>2, <2>3, <2>4 DEF OnTrack
<1>5. ASSUME NEW r, Sound(r) PROVE Sound(r)'
  BY <1>3, <1>4, <1>5 DEF Sound
<1> QED BY <1>1, <1>2, <1>3, <1>4, <1>5

(* A step that moves one request to a sound one. *)
LEMMA TruthStep ==
    ASSUME IInv, Truth, Onward, NEW h \in Handlers, NEW r,
           req' = [req EXCEPT ![h] = r], Sound(r)', HonestRow(session)'
    PROVE  Truth'
<1>1. Numbered' /\ \A q : Sound(q) => Sound(q)'
  BY Kept DEF Truth
<1>2. ASSUME NEW g \in Handlers PROVE Sound(req[g])'
  <2>1. Sound(req[g])
    BY DEF Truth
  <2>2. req'[g] = IF g = h THEN r ELSE req[g]
    BY DEF IInv, Flight
  <2>3. CASE g = h
    BY <2>2, <2>3 DEF Sound, OnTrack, HonestRow, Honest, Changes
  <2>4. CASE g # h
    <3>1. PICK q : q = req[g] /\ q = req'[g]
      BY <2>2, <2>4
    <3>2. Sound(q)
      BY <2>1, <3>1
    <3>3. Sound(q)'
      BY <1>1, <3>2
    <3> QED BY <3>1, <3>3 DEF Sound, OnTrack, HonestRow, Honest, Changes
  <2> QED BY <2>3, <2>4
<1> QED BY <1>1, <1>2 DEF Truth

LEMMA RowStays ==
    ASSUME IInv, Truth, Onward, session'.fixLog = session.fixLog
    PROVE  HonestRow(session)'
<1>1. PICK log : log = session.fixLog /\ log = session'.fixLog
  OBVIOUS
<1>2. \A e \in Logged(log) : Honest(e)
  BY <1>1 DEF Truth, HonestRow
<1>3. \A e \in Logged(log) : Honest(e)'
  BY <1>2, Kept DEF Truth
<1> QED BY <1>1, <1>3 DEF HonestRow

(* A step of no request. *)
LEMMA QuietTruth ==
    ASSUME IInv, Truth, Onward, UNCHANGED <<session, req>>
    PROVE  Truth'
<1>1. HonestRow(session)' /\ Numbered'
  BY RowStays, Kept DEF Truth
<1>2. ASSUME NEW h \in Handlers PROVE Sound(req[h])'
  <2>1. PICK q : q = req[h] /\ q = req'[h]
    OBVIOUS
  <2>2. Sound(q)'
    BY <2>1, Kept DEF Truth
  <2> QED BY <2>1, <2>2 DEF Sound, OnTrack, HonestRow, Honest, Changes
<1> QED BY <1>1, <1>2 DEF Truth

LEMMA ReportsTruth ==
    ASSUME IInv, Truth, RunReview \/ Propose \/ Regenerate \/ Restore
    PROVE  Truth'
<1>0. next \in Nat
  BY DEF IInv, Stored
<1>1. CASE RunReview \/ Regenerate \/ Restore
  <2>1. Onward /\ UNCHANGED <<session, req>>
    BY <1>0, <1>1 DEF RunReview, Regenerate, Restore, Onward
  <2> QED BY <2>1, QuietTruth
<1>2. CASE Propose
  <2>1. /\ UNCHANGED <<session, req, written>> /\ next' = next + 1
        /\ \E d : drafts' = drafts \cup {d} /\ d.id = next + 1
    <3>1. PICK fs \in SUBSET Findings \ {{}}, wrote \in Replies \ {{}} :
        drafts' = drafts \cup
             {[id |-> next + 1, title |-> report.title, findings |-> fs,
               target |-> report.target, wrote |-> wrote,
               content |-> [s \in Sections |-> IF s \in wrote
                                THEN doc[s] \cup {next + 1} ELSE {}],
               shown |-> [s \in Sections |-> IF s \in wrote
                                THEN doc[s] ELSE {}]]}
      BY <1>2 DEF Propose
    <3>2. PICK d : d = [id |-> next + 1, title |-> report.title, findings |-> fs,
               target |-> report.target, wrote |-> wrote,
               content |-> [s \in Sections |-> IF s \in wrote
                                THEN doc[s] \cup {next + 1} ELSE {}],
               shown |-> [s \in Sections |-> IF s \in wrote
                                THEN doc[s] ELSE {}]]
      OBVIOUS
    <3>3. drafts' = drafts \cup {d}
      BY <3>1, <3>2
    <3>4. d.id = next + 1
      BY <3>2
    <3> QED BY <1>2, <3>3, <3>4 DEF Propose
  <2>2. Onward
    BY <1>0, <2>1 DEF Onward
  <2> QED BY <2>1, <2>2, QuietTruth
<1> QED BY <1>1, <1>2

LEMMA EmptyLog == Logged(<<>>) = {}
BY DEF Logged

LEMMA BlankRow == HonestRow(NewSession)'
BY EmptyLog DEF HonestRow, NewSession

LEMMA AcceptTruth ==
    ASSUME IInv, Truth, NEW h \in Handlers, NEW action, NEW id \in Nat, NEW fs,
           NEW draft, NEW appends, NEW pc \in {"fetch", "reread"},
           Accept(h, action, id, fs, draft, appends, pc),
           next' \in Nat, next <= next', id <= next',
           draft # Null => draft \in drafts /\ id = draft.id,
           draft = Null => \A d \in drafts : d.id # id,
           pc = "reread" => Touches(IF draft = Null THEN appends ELSE draft.wrote) = {}
    PROVE  Truth'
<1> DEFINE touched == Touches(IF draft = Null THEN appends ELSE draft.wrote)
<1>1. PICK r : r = [pc |-> pc, action |-> action, id |-> id, findings |-> fs,
                 report |-> report, draft |-> draft, appends |-> appends,
                 touched |-> touched, left |-> touched,
                 stage |-> "requirements", doc |-> Blank, row |-> NewSession]
  OBVIOUS
<1>2. /\ req' = [req EXCEPT ![h] = r]
      /\ UNCHANGED <<session, report, doc, kept, drafts, written, upset>>
  BY <1>1 DEF Accept
<1>3. Onward
  BY <1>2 DEF Onward
<1>4. /\ r.id = id /\ r.draft = draft /\ r.touched = touched /\ r.left = touched
      /\ r.pc = pc /\ r.appends = appends /\ r.row = NewSession
  BY <1>1
<1>5. touched = Touches(Changes(r))
  BY <1>4 DEF Changes
<1>6. \A s \in Changes(r) : StageOf[s] \in touched
  BY <1>5 DEF Touches
<1>7. pc = "reread" => touched = {}
  OBVIOUS
<1> HIDE DEF touched
<1>8. OnTrack(r)'
  BY <1>2, <1>4, <1>5, <1>6, <1>7 DEF OnTrack
<1>9. Sound(r)'
  BY <1>4, <1>8, BlankRow DEF Sound
<1>10. HonestRow(session)'
  BY <1>2, <1>3, RowStays
<1> QED BY <1>2, <1>3, <1>9, <1>10, TruthStep

LEMMA ApprovedTruth ==
    ASSUME IInv, Truth, NEW h \in Handlers,
           \/ ApplyPatch(h) \/ AddClientQuestion(h) \/ AddOutOfScope(h)
           \/ ResolveAdvisory(h)
    PROVE  Truth'
<1>0. /\ next \in Nat /\ next + 1 \in Nat /\ 0 \in Nat
      /\ next <= next /\ next <= next + 1 /\ 0 <= next
  BY DEF IInv, Stored
<1>1. \A d \in drafts : d.id \in Nat /\ d.id <= next /\ d.id # next + 1 /\ d.id # 0
  BY <1>0 DEF Truth, Numbered
<1>2. CASE ApplyPatch(h)
  <2>1. PICK d \in drafts :
          Accept(h, "patch_applied", d.id, d.findings, d, {}, "fetch")
    BY <1>2 DEF ApplyPatch
  <2>2. d # Null /\ next' = next
    BY <1>2, NullAssumption DEF ApplyPatch, IInv, Stored
  <2> QED BY <1>0, <1>1, <2>1, <2>2, AcceptTruth
<1>3. CASE AddClientQuestion(h)
  <2>1. PICK f \in Findings : Accept(h, "added_open_question", next + 1, {f}, Null,
                                  {"assumptions", "openQuestions"}, "fetch")
    BY <1>3 DEF AddClientQuestion
  <2>2. next' = next + 1
    BY <1>3 DEF AddClientQuestion
  <2> QED BY <1>0, <1>1, <2>1, <2>2, AcceptTruth
<1>4. CASE AddOutOfScope(h)
  <2>1. PICK f \in Findings : Accept(h, "added_out_of_scope", next + 1, {f}, Null,
                                  {"outOfScope"}, "fetch")
    BY <1>4 DEF AddOutOfScope
  <2>2. next' = next + 1
    BY <1>4 DEF AddOutOfScope
  <2> QED BY <1>0, <1>1, <2>1, <2>2, AcceptTruth
<1>5. CASE ResolveAdvisory(h)
  <2>1. PICK f \in Findings, action \in {"acknowledged", "dismissed"} :
          Accept(h, action, 0, {f}, Null, {}, "reread")
    BY <1>5 DEF ResolveAdvisory
  <2>2. next' = next
    BY <1>5 DEF ResolveAdvisory
  <2>3. Touches({}) = {}
    BY DEF Touches
  <2> QED BY <1>0, <1>1, <2>1, <2>2, <2>3, AcceptTruth
<1> QED BY <1>2, <1>3, <1>4, <1>5

(* An approved action before its log entry. *)
LEMMA WorkTruth ==
    ASSUME IInv, Truth, NEW h \in Handlers,
           FetchStage(h) \/ StoreStage(h) \/ Reread(h)
    PROVE  Truth'
<1>0. next \in Nat /\ UNCHANGED <<next, drafts, session>> /\ written \subseteq written'
  BY DEF FetchStage, StoreStage, Reread, IInv, Stored
<1>1. Onward
  BY <1>0 DEF Onward
<1>2. req[h] # Null /\ req[h].pc \in {"fetch", "store", "reread"}
  BY DEF FetchStage, StoreStage, Reread
<1>3. req[h] \in Request
  BY <1>2, InFlight
<1>4. OnTrack(req[h]) /\ HonestRow(req[h].row) /\ HonestRow(session)
  BY <1>2 DEF Truth, Sound, FixPc
<1>5. PICK q : q = req[h]
  OBVIOUS
<1>6. PICK r : /\ req' = [req EXCEPT ![h] = r]
               /\ r.id = q.id /\ r.draft = q.draft /\ r.appends = q.appends
               /\ r.touched = q.touched
               /\ r.pc \in {"fetch", "store", "reread", "log"}
               /\ r.row = q.row \/ r.row = session
               /\ \/ StoreStage(h) /\ r.left = StagesLeft(q)
                     /\ (r.pc \in {"reread", "log"} => r.left = {})
                  \/ FetchStage(h) /\ r.left = q.left /\ r.pc = "store"
                  \/ Reread(h) /\ r.left = q.left /\ r.pc = "log"
  <2>1. CASE FetchStage(h)
    <3>1. PICK st \in q.left :
            req' = [req EXCEPT ![h].pc = "store", ![h].stage = st, ![h].doc = doc]
      BY <1>5, <2>1 DEF FetchStage
    <3>2. PICK r : r = [q EXCEPT !.pc = "store", !.stage = st, !.doc = doc]
      OBVIOUS
    <3>3. req' = [req EXCEPT ![h] = r]
      BY <1>3, <1>5, <3>1, <3>2 DEF IInv, Flight, Request
    <3>4. /\ r.id = q.id /\ r.draft = q.draft /\ r.appends = q.appends
          /\ r.touched = q.touched /\ r.row = q.row /\ r.left = q.left
          /\ r.pc = "store"
      BY <1>3, <1>5, <3>2 DEF Request
    <3> QED BY <2>1, <3>3, <3>4
  <2>2. CASE StoreStage(h)
    <3> DEFINE left == StagesLeft(q)
               pc == IF left = {} THEN "reread" ELSE "fetch"
    <3>1. PICK r : r = [q EXCEPT !.left = left, !.doc = Blank, !.pc = pc]
      OBVIOUS
    <3>2. req' = [req EXCEPT ![h] = r]
      BY <1>3, <1>5, <2>2, <3>1 DEF StoreStage, IInv, Flight, Request
    <3>3. pc \in {"reread", "fetch"} /\ (pc = "reread" => left = {})
      OBVIOUS
    <3> HIDE DEF pc, left
    <3>4. /\ r.id = q.id /\ r.draft = q.draft /\ r.appends = q.appends
          /\ r.touched = q.touched /\ r.row = q.row /\ r.left = left
          /\ r.pc = pc
      BY <1>3, <1>5, <3>1 DEF Request
    <3> QED BY <2>2, <3>2, <3>3, <3>4 DEF left
  <2>3. CASE Reread(h)
    <3>1. PICK r : r = [q EXCEPT !.pc = "log", !.row = session]
      OBVIOUS
    <3>2. req' = [req EXCEPT ![h] = r]
      BY <1>3, <1>5, <2>3, <3>1 DEF Reread, IInv, Flight, Request
    <3>3. /\ r.id = q.id /\ r.draft = q.draft /\ r.appends = q.appends
          /\ r.touched = q.touched /\ r.row = session /\ r.left = q.left
          /\ r.pc = "log"
      BY <1>3, <1>5, <3>1 DEF Request
    <3> QED BY <2>3, <3>2, <3>3
  <2> QED BY <2>1, <2>2, <2>3
<1>7. Changes(r) = Changes(q) /\ Changes(q) \subseteq Sections
  BY <1>3, <1>5, <1>6 DEF Changes, Request, Draft
<1>8. OnTrack(q)
  BY <1>4, <1>5
<1>9. \A s \in Changes(r) : StageOf[s] \notin r.left => <<r.id, s>> \in written'
  <2>1. SUFFICES ASSUME NEW s \in Changes(q), StageOf[s] \notin r.left
                 PROVE  <<q.id, s>> \in written'
    BY <1>6, <1>7
  <2>2. CASE StageOf[s] \notin q.left
    BY <1>0, <1>8, <2>2 DEF OnTrack
  <2>3. CASE StageOf[s] \in q.left
    <3>1. StoreStage(h) /\ StageOf[s] = q.stage
      BY <1>6, <2>1, <2>3 DEF StagesLeft
    <3>2. written' = written \cup
            ({q.id} \X ({t \in Sections : StageOf[t] = q.stage} \cap Changes(q)))
      BY <1>5, <3>1 DEF StoreStage
    <3> QED BY <1>7, <3>1, <3>2
  <2> QED BY <2>2, <2>3
<1>10. r.pc \in {"reread", "log", "status"} => r.left = {}
  <2>1. Reread(h) => q.left = {}
    BY <1>5, <1>8 DEF Reread, OnTrack
  <2> QED BY <1>6, <2>1
<1>11. OnTrack(r)'
  BY <1>0, <1>6, <1>7, <1>8, <1>9, <1>10 DEF OnTrack
<1>12. HonestRow(r.row)'
  <2>1. HonestRow(r.row)
    BY <1>4, <1>5, <1>6
  <2> QED BY <1>1, <2>1, Kept DEF Truth
<1>13. Sound(r)'
  BY <1>11, <1>12 DEF Sound
<1>14. HonestRow(session)'
  BY <1>0, <1>1, RowStays
<1> QED BY <1>1, <1>6, <1>13, <1>14, TruthStep

LEMMA SaveLogTruth ==
    ASSUME IInv, Truth, NEW h \in Handlers, SaveLog(h)
    PROVE  Truth'
<1>0. next \in Nat /\ UNCHANGED <<next, drafts, written>>
  BY DEF SaveLog, IInv, Stored
<1>1. Onward
  BY <1>0 DEF Onward
<1>2. req[h] # Null /\ req[h].pc = "log"
  BY DEF SaveLog
<1>3. req[h] \in Request /\ Fine(req[h])
  BY <1>2, InFlight
<1>4. PICK q : q = req[h]
  OBVIOUS
<1>5. OnTrack(q) /\ HonestRow(q.row)
  BY <1>2, <1>4 DEF Truth, Sound, FixPc
<1>6. PICK r : r = [q EXCEPT !.pc = "status", !.row = NewSession]
  OBVIOUS
<1>7. req' = [req EXCEPT ![h] = r]
  BY <1>3, <1>4, <1>6 DEF SaveLog, IInv, Flight, Request
<1>8. /\ r.id = q.id /\ r.draft = q.draft /\ r.appends = q.appends
      /\ r.touched = q.touched /\ r.left = q.left /\ r.pc = "status"
      /\ r.row = NewSession
  BY <1>3, <1>4, <1>6 DEF Request
<1>9. q.left = {}
  BY <1>2, <1>4, <1>5 DEF OnTrack
<1>10. OnTrack(r)'
  BY <1>0, <1>5, <1>8, <1>9 DEF OnTrack, Changes
<1>11. Sound(r)'
  BY <1>8, <1>10, BlankRow DEF Sound
<1>12. PICK e : e = LogEntry(q)
  OBVIOUS
<1>13. Honest(e)
  <2>1. e.by = q.id /\ e.touched = Touches(Changes(q))
    BY <1>5, <1>12 DEF LogEntry, OnTrack
  <2>2. Changes(q) \subseteq Sections
    BY <1>3, <1>4 DEF Changes, Request, Draft
  <2>3. \A s \in Changes(q) : <<q.id, s>> \in written
    BY <1>5, <1>9 DEF OnTrack
  <2>4. \A st \in e.touched : \E s \in Sections :
          StageOf[s] = st /\ <<e.by, s>> \in written
    BY <2>1, <2>2, <2>3 DEF Touches
  <2>5. ASSUME NEW d \in drafts, d.id = e.by
        PROVE  {d.id} \X d.wrote \subseteq written
    <3>1. d = q.draft /\ q.draft # Null
      BY <1>5, <2>1, <2>5 DEF OnTrack, Truth, Numbered
    <3> QED BY <2>1, <2>3, <2>5, <3>1 DEF Changes
  <2> QED BY <1>5, <2>1, <2>4, <2>5 DEF Honest, OnTrack
<1>14. Logged(session'.fixLog) = Logged(q.row.fixLog) \cup {e}
  <2>1. q.row \in Session /\ q.row.fixLog \in Seq(Entry)
    BY <1>3, <1>4 DEF Request, Session
  <2>2. session'.fixLog = Append(q.row.fixLog, e)
    BY <1>4, <1>12, <2>1 DEF SaveLog, AppendFixLog, Session
  <2>3. e \in Entry
    BY <1>2, <1>3, <1>4, <1>12, EntryType DEF FixPc
  <2> QED BY <2>1, <2>2, <2>3, Appended
<1>15. HonestRow(session)'
  <2>1. \A x \in Logged(q.row.fixLog) : Honest(x)'
    BY <1>1, <1>5, Kept DEF Truth, HonestRow
  <2>2. Honest(e)'
    BY <1>1, <1>13, Kept DEF Truth
  <2> QED BY <1>14, <2>1, <2>2 DEF HonestRow
<1> QED BY <1>1, <1>7, <1>11, <1>15, TruthStep

LEMMA NothingSound == Sound(Null)'
BY DEF Sound

(* A request that ends and leaves the log alone. *)
LEMMA EndTruth ==
    ASSUME IInv, Truth, NEW h \in Handlers, SaveReport(h) \/ PutStage(h) \/ Die(h)
    PROVE  Truth'
<1>1. /\ UNCHANGED <<session, drafts, next, written>> /\ next \in Nat
      /\ req' = [req EXCEPT ![h] = Null]
  BY DEF SaveReport, PutStage, Die, IInv, Stored
<1>2. Onward
  BY <1>1 DEF Onward
<1>3. HonestRow(session)'
  BY <1>1, <1>2, RowStays
<1> QED BY <1>1, <1>2, <1>3, NothingSound, TruthStep

LEMMA SaveRowTruth ==
    ASSUME IInv, Truth, NEW h \in Handlers, SaveRow(h)
    PROVE  Truth'
<1>1. /\ UNCHANGED <<drafts, next, written>> /\ next \in Nat
      /\ req' = [req EXCEPT ![h] = Null]
  BY DEF SaveRow, IInv, Stored
<1>2. Onward
  BY <1>1 DEF Onward
<1>3. PICK log : log = req[h].row.fixLog
  OBVIOUS
<1>4. req[h] \in Request /\ req[h].row \in Session
  BY InFlight DEF SaveRow, Request
<1>5. session'.fixLog = log
  BY <1>3, <1>4 DEF SaveRow, Session
<1>6. \A e \in Logged(log) : Honest(e)
  BY <1>3 DEF SaveRow, Truth, Sound, HonestRow
<1>7. \A e \in Logged(log) : Honest(e)'
  BY <1>2, <1>6, Kept DEF Truth
<1>8. HonestRow(session)'
  BY <1>5, <1>7 DEF HonestRow
<1> QED BY <1>1, <1>2, <1>8, NothingSound, TruthStep

(* A request of another writer takes a copy of the row, or none. *)
LEMMA OtherReadsTruth ==
    ASSUME IInv, Truth, NEW h \in Handlers, OpenEditor(h) \/ ReadRow(h)
    PROVE  Truth'
<1>0. next \in Nat
  BY DEF IInv, Stored
<1>1. PICK pc \in {"put", "save"}, action \in {"edit", "rename", "propose"},
           stage \in Stages, copy \in {doc, Blank}, row \in {NewSession, session} :
        Begin(h, pc, action, stage, copy, row)
  BY BlankTypes DEF OpenEditor, ReadRow
<1>2. PICK r : r = [pc |-> pc, action |-> action, id |-> next + 1,
                 findings |-> {}, report |-> Null, draft |-> Null,
                 appends |-> {}, touched |-> {}, left |-> {}, stage |-> stage,
                 doc |-> copy, row |-> row]
  OBVIOUS
<1>3. /\ req' = [req EXCEPT ![h] = r] /\ next' = next + 1
      /\ UNCHANGED <<session, report, doc, kept, drafts, written, upset>>
  BY <1>1, <1>2 DEF Begin
<1>4. Onward
  BY <1>0, <1>3 DEF Onward
<1>5. r.pc = pc /\ r.row = row
  BY <1>2
<1>6. HonestRow(row)'
  <2>1. CASE row = NewSession
    BY <2>1, BlankRow DEF HonestRow, NewSession
  <2>2. CASE row = session
    <3>1. HonestRow(row)
      BY <2>2 DEF Truth
    <3> QED BY <1>4, <3>1, Kept DEF Truth
  <2> QED BY <2>1, <2>2
<1>7. Sound(r)'
  BY <1>5, <1>6 DEF Sound, FixPc
<1>8. HonestRow(session)'
  BY <1>3, <1>4, RowStays
<1> QED BY <1>3, <1>4, <1>7, <1>8, TruthStep

LEMMA NextTruth == IInv /\ Truth /\ [Next]_vars => Truth'
<1> SUFFICES ASSUME IInv, Truth, [Next]_vars PROVE Truth'
  OBVIOUS
<1>1. CASE UNCHANGED vars
  <2>1. Onward /\ UNCHANGED <<session, req>>
    BY <1>1 DEF vars, Onward, IInv, Stored
  <2> QED BY <2>1, QuietTruth
<1>2. CASE RunReview \/ Propose \/ Regenerate \/ Restore
  BY <1>2, ReportsTruth
<1>3. ASSUME NEW h \in Handlers,
             \/ ApplyPatch(h) \/ AddClientQuestion(h) \/ AddOutOfScope(h)
             \/ ResolveAdvisory(h) \/ FetchStage(h) \/ StoreStage(h)
             \/ Reread(h) \/ SaveLog(h) \/ SaveReport(h)
             \/ OpenEditor(h) \/ PutStage(h) \/ ReadRow(h) \/ SaveRow(h) \/ Die(h)
      PROVE Truth'
  BY <1>3, ApprovedTruth, WorkTruth, SaveLogTruth, EndTruth, SaveRowTruth,
     OtherReadsTruth
<1> QED BY <1>1, <1>2, <1>3 DEF Next

LEMMA InitTruth == Init => Truth
BY EmptyLog DEF Init, Truth, Numbered, HonestRow, Sound, NewSession

(* Whatever dies or interleaves, and whichever row is saved over another,   *)
(* an entry of the log names only stages and drafts whose change had been   *)
(* written: every stage is stored before the request reads the row again.   *)
THEOREM LogIsWritten == Spec => []LoggedIsWritten
<1>1. Truth => LoggedIsWritten
  BY DEF Truth, HonestRow, Honest, LoggedIsWritten
<1>2. Spec => []Truth
  BY InitIInv, NextIInv, InitTruth, NextTruth, PTL DEF Spec
<1> QED BY <1>1, <1>2, PTL

-----------------------------------------------------------------------------
(* What is logged is not offered again                                      *)

Undisturbed == upset \subseteq {"documents", "draft", "regenerated"}

(* A request is about to record the status of the finding. *)
Pursued(f) ==
    \E h \in Handlers : req[h] # Null /\ req[h].pc = "status" /\ f \in req[h].findings

(* Reviews are numbered upwards, in the log and wherever a report is held,  *)
(* so that no entry is about a review that is still to be run.              *)
Remembered ==
    Undisturbed =>
        /\ report # Null => report.title <= next
        /\ \A h \in Handlers : req[h] # Null /\ req[h].report # Null =>
                req[h].report.title <= next
        /\ \A e \in Logged(session.fixLog) : e.title <= next
        /\ report # Null => \A e \in Logged(session.fixLog) :
              e.title = report.title => \A f \in e.findings :
                  report.status[f] = "open" => Pursued(f)

(* A step of a request that was not about to record a status. *)
LEMMA RememberedStep ==
    ASSUME IInv, Remembered, NEW h \in Handlers, NEW r,
           req' = [req EXCEPT ![h] = r], upset \subseteq upset',
           next' \in {next, next + 1}, UNCHANGED report,
           Undisturbed' => session'.fixLog = session.fixLog,
           \/ r = Null
           \/ r.report \in {Null, report}
           \/ req[h] # Null /\ r.report = req[h].report,
           req[h] # Null /\ req[h].pc = "status" => ~Undisturbed'
    PROVE  Remembered'
<1> SUFFICES ASSUME Undisturbed'
             PROVE  /\ report' # Null => report'.title <= next'
                    /\ \A g \in Handlers : req'[g] # Null /\ req'[g].report # Null =>
                          req'[g].report.title <= next'
                    /\ \A e \in Logged(session'.fixLog) : e.title <= next'
                    /\ report' # Null => \A e \in Logged(session'.fixLog) :
                          e.title = report'.title => \A f \in e.findings :
                              report'.status[f] = "open" => Pursued(f)'
  BY DEF Remembered
<1>1. Undisturbed
  BY DEF Undisturbed
<1>2. next \in Nat /\ report \in Report \cup {Null}
      /\ \A g \in Handlers : req'[g] = IF g = h THEN r ELSE req[g]
  BY DEF IInv, Stored, Flight
<1>3. \A e \in Logged(session.fixLog) : e.title <= next'
  <2>1. session.fixLog \in Seq(Entry)
    BY DEF IInv, Stored, Session
  <2>2. \A e \in Logged(session.fixLog) : e \in Entry
    BY <2>1 DEF Logged
  <2>3. \A e \in Logged(session.fixLog) : e.title \in Nat
    BY <2>2 DEF Entry
  <2> QED BY <1>1, <1>2, <2>3 DEF Remembered
<1>4. report # Null => report.title <= next'
  BY <1>1, <1>2 DEF Remembered, Report
<1>5. ASSUME NEW g \in Handlers, req[g] # Null, req[g].report # Null
      PROVE  req[g].report.title <= next'
  <2>1. req[g].report \in Report
    BY <1>5, InFlight DEF Request
  <2> QED BY <1>1, <1>2, <1>5, <2>1 DEF Remembered, Report
<1>6. \A g \in Handlers : req'[g] # Null /\ req'[g].report # Null =>
          req'[g].report.title <= next'
  BY <1>2, <1>4, <1>5
<1>7. \A f : Pursued(f) => Pursued(f)'
  <2> SUFFICES ASSUME NEW f, NEW g \in Handlers, req[g] # Null,
                      req[g].pc = "status", f \in req[g].findings
               PROVE  Pursued(f)'
    BY DEF Pursued
  <2>1. req'[g] = req[g]
    BY <1>2
  <2> QED BY <2>1 DEF Pursued
<1> QED BY <1>1, <1>3, <1>4, <1>6, <1>7 DEF Remembered

(* An action is approved with the report that is stored. *)
LEMMA ApprovedRemembered ==
    ASSUME IInv, Remembered, NEW h \in Handlers,
           \/ ApplyPatch(h) \/ AddClientQuestion(h) \/ AddOutOfScope(h)
           \/ ResolveAdvisory(h)
    PROVE  Remembered'
<1>1. next' \in {next, next + 1}
  BY DEF ApplyPatch, AddClientQuestion, AddOutOfScope, ResolveAdvisory
<1>2. \E action, id, fs, draft, appends, pc :
         Accept(h, action, id, fs, draft, appends, pc)
  BY DEF ApplyPatch, AddClientQuestion, AddOutOfScope, ResolveAdvisory
<1>3. PICK action, id, fs, draft, appends, pc :
         Accept(h, action, id, fs, draft, appends, pc)
  BY <1>2
<1> DEFINE touched == Touches(IF draft = Null THEN appends ELSE draft.wrote)
           r == [pc |-> pc, action |-> action, id |-> id, findings |-> fs,
                 report |-> report, draft |-> draft, appends |-> appends,
                 touched |-> touched, left |-> touched,
                 stage |-> "requirements", doc |-> Blank, row |-> NewSession]
<1>4. /\ req' = [req EXCEPT ![h] = r] /\ req[h] = Null
      /\ UNCHANGED <<session, report, upset>>
  BY <1>3 DEF Accept
<1>5. r.report = report
  OBVIOUS
<1> HIDE DEF r
<1> QED BY <1>1, <1>4, <1>5, RememberedStep

(* The stages are written and the row is read without a word on the report. *)
LEMMA WorkRemembered ==
    ASSUME IInv, Remembered, NEW h \in Handlers,
           FetchStage(h) \/ StoreStage(h) \/ Reread(h)
    PROVE  Remembered'
<1> DEFINE q == req[h]
<1>1. /\ q # Null /\ q.pc # "status" /\ UNCHANGED <<session, report, next>>
      /\ upset \subseteq upset'
  BY DEF FetchStage, StoreStage, Reread
<1>2. q \in Request
  BY <1>1, InFlight
<1>3. \E r : req' = [req EXCEPT ![h] = r] /\ r.report = q.report
  <2>1. CASE FetchStage(h)
    <3>1. PICK st \in q.left :
            req' = [req EXCEPT ![h].pc = "store", ![h].stage = st, ![h].doc = doc]
      BY <2>1 DEF FetchStage
    <3> DEFINE r == [q EXCEPT !.pc = "store", !.stage = st, !.doc = doc]
    <3>2. req' = [req EXCEPT ![h] = r]
      BY <1>2, <3>1 DEF IInv, Flight, Request
    <3>3. r.report = q.report
      BY <1>2 DEF Request
    <3> HIDE DEF r
    <3> QED BY <3>2, <3>3
  <2>2. CASE StoreStage(h)
    <3> DEFINE left == StagesLeft(q)
               pc == IF left = {} THEN "reread" ELSE "fetch"
               r == [q EXCEPT !.left = left, !.doc = Blank, !.pc = pc]
    <3>1. req' = [req EXCEPT ![h].left = left, ![h].doc = Blank, ![h].pc = pc]
      BY <2>2 DEF StoreStage
    <3> HIDE DEF left, pc
    <3>2. req' = [req EXCEPT ![h] = r]
      BY <1>2, <3>1 DEF IInv, Flight, Request
    <3>3. r.report = q.report
      BY <1>2 DEF Request
    <3> HIDE DEF r
    <3> QED BY <3>2, <3>3
  <2>3. CASE Reread(h)
    <3> DEFINE r == [q EXCEPT !.pc = "log", !.row = session]
    <3>1. req' = [req EXCEPT ![h] = r]
      BY <1>2, <2>3 DEF Reread, IInv, Flight, Request
    <3>2. r.report = q.report
      BY <1>2 DEF Request
    <3> HIDE DEF r
    <3> QED BY <3>1, <3>2
  <2> QED BY <2>1, <2>2, <2>3
<1> HIDE DEF q
<1> QED BY <1>1, <1>3, RememberedStep DEF q

(* What begins holds no report, and what ends did not hold one back. *)
LEMMA OthersRemembered ==
    ASSUME IInv, Remembered, NEW h \in Handlers,
           OpenEditor(h) \/ ReadRow(h) \/ PutStage(h) \/ SaveRow(h) \/ Die(h)
    PROVE  Remembered'
<1>1. CASE OpenEditor(h) \/ ReadRow(h)
  <2>1. \E pc, action, stage, copy, row : Begin(h, pc, action, stage, copy, row)
    BY <1>1 DEF OpenEditor, ReadRow
  <2>2. PICK pc, action, stage, copy, row : Begin(h, pc, action, stage, copy, row)
    BY <2>1
  <2> DEFINE r == [pc |-> pc, action |-> action, id |-> next + 1,
                 findings |-> {}, report |-> Null, draft |-> Null,
                 appends |-> {}, touched |-> {}, left |-> {}, stage |-> stage,
                 doc |-> copy, row |-> row]
  <2>3. /\ req' = [req EXCEPT ![h] = r] /\ req[h] = Null /\ next' = next + 1
        /\ UNCHANGED <<session, report, upset>>
    BY <2>2 DEF Begin
  <2>4. r.report = Null
    OBVIOUS
  <2> HIDE DEF r
  <2> QED BY <2>3, <2>4, RememberedStep
<1>2. CASE PutStage(h) \/ SaveRow(h) \/ Die(h)
  <2>1. /\ req' = [req EXCEPT ![h] = Null] /\ UNCHANGED <<report, next>>
        /\ upset \subseteq upset'
    BY <1>2 DEF PutStage, SaveRow, Die, Disturbed
  <2>2. req[h] # Null /\ req[h].pc = "status" => ~Undisturbed'
    BY <1>2 DEF PutStage, SaveRow, Die, Undisturbed
  <2>3. Undisturbed' => session'.fixLog = session.fixLog
    <3>1. CASE PutStage(h) \/ Die(h)
      BY <3>1 DEF PutStage, Die
    <3>2. CASE SaveRow(h)
      <4>1. Undisturbed' => session = req[h].row
        BY <3>2 DEF SaveRow, Disturbed, Undisturbed
      <4>2. req[h].row \in Session
        BY <3>2, InFlight DEF SaveRow, Request
      <4>3. session'.fixLog = req[h].row.fixLog
        BY <3>2, <4>2 DEF SaveRow, Session
      <4> QED BY <4>1, <4>3
    <3> QED BY <1>2, <3>1, <3>2
  <2> QED BY <2>1, <2>2, <2>3, RememberedStep
<1> QED BY <1>1, <1>2

(* An entry is added by a request that goes on to record the status. *)
LEMMA SaveLogRemembered ==
    ASSUME IInv, Remembered, NEW h \in Handlers, SaveLog(h)
    PROVE  Remembered'
<1> DEFINE r == req[h]
           e == LogEntry(r)
           n == [r EXCEPT !.pc = "status", !.row = NewSession]
<1>1. /\ r # Null /\ r.pc = "log" /\ UNCHANGED <<report, next>>
      /\ session' = [r.row EXCEPT !.fixLog = AppendFixLog(@, e)]
      /\ upset' = Disturbed("session", session # r.row)
  BY DEF SaveLog
<1>2. Fine(r) /\ r \in Request
  BY <1>1, InFlight
<1>3. req' = [req EXCEPT ![h] = n]
  BY <1>2 DEF SaveLog, IInv, Flight, Request
<1>4. n.pc = "status" /\ n.report = r.report /\ n.findings = r.findings /\ n # Null
  <2>1. n.pc = "status" /\ n.report = r.report /\ n.findings = r.findings
    BY <1>2 DEF Request
  <2>2. n \in Request
    BY <1>2, BlankTypes DEF Request
  <2> HIDE DEF n
  <2> QED BY <2>1, <2>2, NullAssumption
<1>5. \A g \in Handlers : req'[g] = IF g = h THEN n ELSE req[g]
  BY <1>3 DEF IInv, Flight
<1> HIDE DEF n
<1>6. e.title = r.report.title /\ e.findings = r.findings /\ e \in Entry
  BY <1>1, <1>2, EntryType DEF LogEntry, FixPc, Fine
<1> HIDE DEF e
<1>7. Undisturbed' => session = r.row /\ Undisturbed
  BY <1>1 DEF Undisturbed, Disturbed
<1>8. Undisturbed' =>
        \A x \in Logged(session'.fixLog) : x \in Logged(session.fixLog) \/ x = e
  <2> SUFFICES ASSUME Undisturbed'
               PROVE  \A x \in Logged(session'.fixLog) :
                          x \in Logged(session.fixLog) \/ x = e
    OBVIOUS
  <2>1. r.row \in Session
    BY <1>2 DEF Request
  <2>2. session'.fixLog = Append(session.fixLog, e) /\ session.fixLog \in Seq(Entry)
    BY <1>1, <1>7, <2>1 DEF AppendFixLog, Session
  <2> QED BY <1>6, <2>2, Appended
<1>9. \A f : Pursued(f) => Pursued(f)'
  BY <1>1, <1>5 DEF Pursued
<1>10. \A f \in e.findings : Pursued(f)'
  BY <1>4, <1>5, <1>6 DEF Pursued
<1>11. r.report # Null
  BY <1>1, <1>2 DEF Fine, FixPc
<1> HIDE DEF r
<1> QED BY <1>1, <1>4, <1>5, <1>6, <1>7, <1>8, <1>9, <1>10, <1>11 DEF Remembered, r

(* The report that is stored gets the status of the findings, and of no     *)
(* other: unless it changed meanwhile, it is the one the request read.      *)
LEMMA SaveReportRemembered ==
    ASSUME IInv, Remembered, NEW h \in Handlers, SaveReport(h)
    PROVE  Remembered'
<1> DEFINE r == req[h]
<1>1. /\ r # Null /\ r.pc = "status" /\ req' = [req EXCEPT ![h] = Null]
      /\ report' = WithFindingStatus(r.report, r.findings, StatusAfter(r.action))
      /\ upset' = Disturbed("report", report # r.report)
      /\ UNCHANGED <<session, next>>
  BY DEF SaveReport
<1>2. Fine(r) /\ r \in Request
  BY <1>1, InFlight
<1>3. Undisturbed' => report = r.report /\ Undisturbed
  BY <1>1 DEF Undisturbed, Disturbed
<1>4. r.action \in FixAction /\ r.report \in Report
  BY <1>1, <1>2 DEF Fine, FixPc, Request
<1>5. StatusAfter(r.action) # "open"
  BY <1>4 DEF StatusAfter, FixActionStatus, FixAction
<1>6. /\ report'.title = r.report.title
      /\ \A f \in Findings : report'.status[f] =
            IF f \in r.findings THEN StatusAfter(r.action) ELSE r.report.status[f]
  BY <1>1, <1>4 DEF WithFindingStatus, Report
<1>7. \A g \in Handlers : req'[g] = IF g = h THEN Null ELSE req[g]
  BY <1>1 DEF IInv, Flight
<1>8. \A f : Pursued(f) => Pursued(f)' \/ f \in r.findings
  BY <1>7 DEF Pursued
<1>9. \A x \in Logged(session.fixLog) : x.findings \subseteq Findings
  <2>1. session.fixLog \in Seq(Entry)
    BY DEF IInv, Stored, Session
  <2>2. \A x \in Logged(session.fixLog) : x \in Entry
    BY <2>1 DEF Logged
  <2> QED BY <2>2 DEF Entry
<1>10. r.report # Null
  BY <1>4, NullAssumption
<1> HIDE DEF r
<1>11. ASSUME Undisturbed', NEW x \in Logged(session.fixLog),
              x.title = report'.title, NEW f \in x.findings, report'.status[f] = "open"
       PROVE  Pursued(f)'
  <2>1. f \in Findings /\ f \notin r.findings /\ report.status[f] = "open"
    BY <1>3, <1>5, <1>6, <1>9, <1>11
  <2>2. Pursued(f)
    BY <1>3, <1>6, <1>10, <1>11, <2>1 DEF Remembered
  <2> QED BY <1>8, <2>1, <2>2
<1> QED BY <1>1, <1>3, <1>6, <1>7, <1>10, <1>11 DEF Remembered

(* A new review is in no entry; a restored one is not undisturbed. *)
LEMMA ReportsRemembered ==
    ASSUME IInv, Remembered, RunReview \/ Propose \/ Regenerate \/ Restore
    PROVE  Remembered'
<1>1. UNCHANGED <<session, req>> /\ upset \subseteq upset' /\ next' \in {next, next + 1}
  BY DEF RunReview, Propose, Regenerate, Restore
<1>2. next \in Nat /\ session.fixLog \in Seq(Entry) /\ report \in Report \cup {Null}
  BY DEF IInv, Stored, Session
<1>3. \A e \in Logged(session.fixLog) : e.title \in Nat
  <2>1. \A e \in Logged(session.fixLog) : e \in Entry
    BY <1>2 DEF Logged
  <2> QED BY <2>1 DEF Entry
<1>4. \A g \in Handlers : req[g] # Null /\ req[g].report # Null =>
          req[g].report.title \in Nat
  <2>1. \A g \in Handlers : req[g] # Null => req[g].report \in Report \cup {Null}
    BY InFlight DEF Request
  <2> QED BY <2>1 DEF Report
<1>5. Undisturbed' =>
        /\ Undisturbed
        /\ \A e \in Logged(session.fixLog) : e.title <= next'
        /\ \A g \in Handlers : req[g] # Null /\ req[g].report # Null =>
              req[g].report.title <= next'
  BY <1>1, <1>2, <1>3, <1>4 DEF Undisturbed, Remembered
<1>6. \A f : Pursued(f) => Pursued(f)'
  BY <1>1 DEF Pursued
<1>7. CASE RunReview
  <2>1. report'.title = next + 1 /\ next' = next + 1
    BY <1>7 DEF RunReview
  <2>2. Undisturbed' => \A e \in Logged(session.fixLog) : e.title # report'.title
    BY <1>2, <1>3, <1>7, <2>1 DEF RunReview, Remembered, Undisturbed
  <2> QED BY <1>1, <1>2, <1>5, <2>1, <2>2 DEF Remembered
<1>8. CASE Propose \/ Regenerate
  <2>1. UNCHANGED report
    BY <1>8 DEF Propose, Regenerate
  <2>2. report # Null => report.title \in Nat
    BY <1>2 DEF Report
  <2> QED BY <1>1, <1>2, <1>5, <1>6, <2>1, <2>2 DEF Remembered
<1>9. CASE Restore
  BY <1>9 DEF Restore, Remembered, Undisturbed
<1> QED BY <1>7, <1>8, <1>9

(* Every step keeps what is remembered of the log. *)
LEMMA NextRemembered == IInv /\ Remembered /\ [Next]_vars => Remembered'
<1> SUFFICES ASSUME IInv, Remembered, [Next]_vars PROVE Remembered'
  OBVIOUS
<1>1. CASE UNCHANGED vars
  BY <1>1 DEF vars, Remembered, Undisturbed, Pursued
<1>2. CASE RunReview \/ Propose \/ Regenerate \/ Restore
  BY <1>2, ReportsRemembered
<1>3. ASSUME NEW h \in Handlers,
             \/ ApplyPatch(h) \/ AddClientQuestion(h) \/ AddOutOfScope(h)
             \/ ResolveAdvisory(h) \/ FetchStage(h) \/ StoreStage(h)
             \/ Reread(h) \/ SaveLog(h) \/ SaveReport(h)
             \/ OpenEditor(h) \/ PutStage(h) \/ ReadRow(h) \/ SaveRow(h) \/ Die(h)
      PROVE Remembered'
  BY <1>3, ApprovedRemembered, WorkRemembered, SaveLogRemembered,
     SaveReportRemembered, OthersRemembered
<1> QED BY <1>1, <1>2, <1>3 DEF Next

(* Whatever is regenerated or written over in the documents, and whichever  *)
(* reviews are run meanwhile, a finding the log has an action for is open   *)
(* only until its request records the status (record()).                    *)
THEOREM LoggedNotOffered == Spec => []NotOfferedAgain
<1>1. Init => Remembered
  BY EmptyLog DEF Init, Remembered, NewSession
<1>2. Remembered => NotOfferedAgain
  BY DEF Remembered, NotOfferedAgain, Undisturbed, Pursued
<1> QED BY <1>1, <1>2, InitIInv, NextIInv, NextRemembered, PTL DEF Spec

-----------------------------------------------------------------------------
(* What was written is still there                                          *)

(* A draft is what was shown and the change, in every section it rewrites. *)
Drafted == \A d \in drafts : \A s \in d.wrote : d.content[s] = d.shown[s] \cup {d.id}

(* A draft is written once, when it is proposed. *)
LEMMA NextDrafted == IInv /\ Drafted /\ [Next]_vars => Drafted'
<1> SUFFICES ASSUME IInv, Drafted, [Next]_vars PROVE Drafted'
  OBVIOUS
<1>1. CASE UNCHANGED drafts
  BY <1>1 DEF Drafted
<1>2. CASE Propose
  <2>1. PICK fs \in SUBSET Findings \ {{}}, wrote \in Replies \ {{}} :
        drafts' = drafts \cup
             {[id |-> next + 1, title |-> report.title, findings |-> fs,
               target |-> report.target, wrote |-> wrote,
               content |-> [s \in Sections |-> IF s \in wrote
                                THEN doc[s] \cup {next + 1} ELSE {}],
               shown |-> [s \in Sections |-> IF s \in wrote
                                THEN doc[s] ELSE {}]]}
    BY <1>2 DEF Propose
  <2>2. wrote \subseteq Sections
    BY ConstantsAssumption, Tables
  <2> DEFINE d == [id |-> next + 1, title |-> report.title, findings |-> fs,
               target |-> report.target, wrote |-> wrote,
               content |-> [s \in Sections |-> IF s \in wrote
                                THEN doc[s] \cup {next + 1} ELSE {}],
               shown |-> [s \in Sections |-> IF s \in wrote
                                THEN doc[s] ELSE {}]]
  <2>3. \A s \in d.wrote : d.content[s] = d.shown[s] \cup {d.id}
    BY <2>2
  <2>4. drafts' = drafts \cup {d}
    BY <2>1
  <2> HIDE DEF d
  <2> QED BY <2>3, <2>4 DEF Drafted
<1>3. ~Propose => UNCHANGED drafts
  <2>1. ASSUME NEW h \in Handlers,
             \/ ApplyPatch(h) \/ AddClientQuestion(h) \/ AddOutOfScope(h)
             \/ ResolveAdvisory(h)
        PROVE UNCHANGED drafts
    BY <2>1 DEF ApplyPatch, AddClientQuestion, AddOutOfScope, ResolveAdvisory, Accept
  <2>2. ASSUME NEW h \in Handlers,
             \/ FetchStage(h) \/ StoreStage(h) \/ Reread(h) \/ SaveLog(h)
             \/ SaveReport(h) \/ PutStage(h) \/ SaveRow(h) \/ Die(h)
        PROVE UNCHANGED drafts
    BY <2>2 DEF FetchStage, StoreStage, Reread, SaveLog, SaveReport, PutStage,
       SaveRow, Die
  <2>3. ASSUME NEW h \in Handlers, OpenEditor(h) \/ ReadRow(h)
        PROVE UNCHANGED drafts
    BY <2>3 DEF OpenEditor, ReadRow, Begin
  <2>4. RunReview \/ Regenerate \/ Restore \/ UNCHANGED vars => UNCHANGED drafts
    BY DEF RunReview, Regenerate, Restore, vars
  <2> QED BY <2>1, <2>2, <2>3, <2>4 DEF Next
<1> QED BY <1>1, <1>2, <1>3

(* A step that leaves the documents and what was written alone. *)
LEMMA NothingTouched ==
    ASSUME NothingErased, UNCHANGED <<doc, written>>, upset \subseteq upset'
    PROVE  NothingErased'
BY DEF NothingErased

(* A stage is stored over what was read, with one change more. *)
LEMMA StoreErases ==
    ASSUME IInv, Truth, Drafted, NothingErased, NEW h \in Handlers, StoreStage(h)
    PROVE  NothingErased'
<1> DEFINE r == req[h]
           mine == {s \in Sections : StageOf[s] = r.stage}
<1>1. /\ r # Null /\ r.pc = "store" /\ upset \subseteq upset'
      /\ doc' = [s \in Sections |-> IF s \in mine THEN Patched(r, s) ELSE doc[s]]
      /\ written' = written \cup ({r.id} \X (mine \cap Changes(r)))
      /\ "documents" \notin upset' => \A s \in mine : doc[s] = r.doc[s]
      /\ "draft" \notin upset' => r.draft = Null
            \/ \A s \in mine \cap Changes(r) : doc[s] = r.draft.shown[s]
  BY DEF StoreStage
<1>2. r.draft # Null => r.draft \in drafts /\ r.id = r.draft.id
  BY <1>1 DEF Truth, Sound, OnTrack, FixPc
<1>3. SUFFICES ASSUME upset' \cap {"documents", "draft", "regenerated", "restored"} = {},
                      NEW w \in written'
               PROVE  w[1] \in doc'[w[2]]
  BY DEF NothingErased
<1>4. \A s \in mine : doc[s] = r.doc[s]
  BY <1>1, <1>3
<1>5. ASSUME NEW s \in mine
      PROVE  /\ doc[s] \subseteq Patched(r, s)
             /\ s \in Changes(r) => r.id \in Patched(r, s)
  <2>1. CASE s \notin Changes(r)
    BY <1>4, <2>1 DEF Patched
  <2>2. CASE s \in Changes(r) /\ r.draft = Null
    BY <1>4, <2>2 DEF Patched
  <2>3. CASE s \in Changes(r) /\ r.draft # Null
    <3>1. Patched(r, s) = r.draft.content[s] /\ s \in r.draft.wrote
      BY <2>3 DEF Patched, Changes
    <3>2. r.draft.content[s] = r.draft.shown[s] \cup {r.id}
      BY <1>2, <2>3, <3>1 DEF Drafted
    <3>3. doc[s] = r.draft.shown[s]
      BY <1>1, <1>3, <2>3
    <3> QED BY <3>1, <3>2, <3>3
  <2> QED BY <2>1, <2>2, <2>3
<1>6. CASE w \in written
  <2>1. w[2] \in Sections /\ w[1] \in doc[w[2]]
    BY <1>1, <1>3, <1>6 DEF NothingErased, IInv, Stored
  <2> QED BY <1>1, <1>5, <2>1
<1>7. CASE w \in {r.id} \X (mine \cap Changes(r))
  <2>1. w[1] = r.id /\ w[2] \in mine /\ w[2] \in Changes(r) /\ w[2] \in Sections
    BY <1>7
  <2> QED BY <1>1, <1>5, <2>1
<1> QED BY <1>1, <1>6, <1>7

(* An edit keeps what it read, in every section. *)
LEMMA PutErases ==
    ASSUME IInv, NothingErased, NEW h \in Handlers, PutStage(h)
    PROVE  NothingErased'
<1> DEFINE r == req[h]
           mine == {s \in Sections : StageOf[s] = r.stage}
<1>1. /\ UNCHANGED written /\ upset \subseteq upset'
      /\ doc' = [s \in Sections |-> IF s \in mine THEN Edited(r, s) ELSE doc[s]]
      /\ "documents" \notin upset' => \A s \in mine : doc[s] = r.doc[s]
  BY DEF PutStage, Disturbed
<1>2. \A s \in Sections : r.doc[s] \subseteq Edited(r, s)
  BY DEF Edited
<1>3. SUFFICES ASSUME upset' \cap {"documents", "draft", "regenerated", "restored"} = {},
                      NEW w \in written
               PROVE  w[1] \in doc'[w[2]]
  BY <1>1 DEF NothingErased
<1>4. w[2] \in Sections /\ w[1] \in doc[w[2]]
  BY <1>1, <1>3 DEF NothingErased, IInv, Stored
<1> QED BY <1>1, <1>2, <1>3, <1>4

(* Approved changes do not erase each other, however the requests of other  *)
(* findings, the editors and the reviews interleave with them: only a save  *)
(* over a document or a draft that had changed, or what the owner asked to  *)
(* be made again, takes one away (applyPatch(), append*()).                 *)
THEOREM ChangesStay == Spec => []NothingErased
<1>1. Init => Drafted /\ NothingErased
  BY DEF Init, Drafted, NothingErased
<1>2. IInv /\ Truth /\ Drafted /\ NothingErased /\ [Next]_vars => NothingErased'
  <2> SUFFICES ASSUME IInv, Truth, Drafted, NothingErased, [Next]_vars
               PROVE  NothingErased'
    OBVIOUS
  <2>1. CASE RunReview \/ Propose \/ UNCHANGED vars
    BY <2>1, NothingTouched DEF RunReview, Propose, vars
  <2>2. CASE Regenerate \/ Restore
    BY <2>2 DEF Regenerate, Restore, NothingErased
  <2>3. ASSUME NEW h \in Handlers,
               \/ ApplyPatch(h) \/ AddClientQuestion(h) \/ AddOutOfScope(h)
               \/ ResolveAdvisory(h)
        PROVE  NothingErased'
    BY <2>3, NothingTouched DEF ApplyPatch, AddClientQuestion, AddOutOfScope,
       ResolveAdvisory, Accept
  <2>4. ASSUME NEW h \in Handlers, OpenEditor(h) \/ ReadRow(h)
        PROVE  NothingErased'
    BY <2>4, NothingTouched DEF OpenEditor, ReadRow, Begin
  <2>5. ASSUME NEW h \in Handlers,
               \/ FetchStage(h) \/ Reread(h) \/ SaveLog(h) \/ SaveReport(h)
               \/ SaveRow(h) \/ Die(h)
        PROVE  NothingErased'
    BY <2>5, NothingTouched DEF FetchStage, Reread, SaveLog, SaveReport, SaveRow,
       Die, Disturbed
  <2> QED BY <2>1, <2>2, <2>3, <2>4, <2>5, StoreErases, PutErases DEF Next
<1> QED BY <1>1, <1>2, InitIInv, NextIInv, InitTruth, NextTruth, NextDrafted, PTL
    DEF Spec
=============================================================================
