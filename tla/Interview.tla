------------------------------ MODULE Interview ------------------------------
(***************************************************************************)
(* The scoping interview of one project: the InterviewSession row and the  *)
(* HTTP requests that rewrite it (apps/api/src/interview).                 *)
(*                                                                         *)
(* Every handler of InterviewService reads the row, computes a new one and *)
(* saves ALL of its columns.  Between the read and the save a request      *)
(* awaits the database and, for an answer, the language model; any other   *)
(* request may run there.  A request is therefore two steps: one reads the *)
(* row, checks the guards and keeps the changed copy, the other writes     *)
(* that copy back.  With one element in Handlers requests are sequential.  *)
(*                                                                         *)
(* Answers and prompts are abstracted to what the control flow tells apart. *)
(* A slot value is abstracted to its source and to the turn it was taken    *)
(* at, so that a value replaced later is told from the one before it.       *)
(* Coverage is in percent: the code rounds it to two decimals.  A reply of  *)
(* the model is an input, Null when it is unusable.                         *)
(***************************************************************************)
EXTENDS Integers, Sequences, FiniteSets

CONSTANTS
    Handlers,         \* requests that may be in flight together
    SlotKeys,         \* the facts the interview tries to fill
    BudgetSlot,       \* the slot the extended-artifacts default reads
    Languages,        \* languages an owner may choose for the artifacts
    IdeaLanguage,     \* the language detected in the idea
    MaxQuestions,     \* MAX_ADAPTIVE_QUESTIONS
    MinQuestions,     \* MIN_ADAPTIVE_QUESTIONS
    TotalQuestions,   \* length of QUESTION_PLAN
    Threshold,        \* COMPLETENESS_THRESHOLD, in percent
    ModelCoverage,    \* coverage estimates the model may report
    ModelSlots,       \* slot extractions the model may report
    MaxTurns,         \* bound: corrections stop at this transcript length
    Null, Deleted     \* model values

(* What the model reports of a slot: stated or guessed, or not applicable. *)
Extraction == [source : {"explicit", "inferred"}, na : BOOLEAN]

(* A slot value is an extraction, or a value of the owner, and the number   *)
(* of the turn it was taken at: the length of the transcript at that time.  *)
SlotValue == [source : {"explicit", "inferred"}, na : BOOLEAN, turn : Nat]

SlotMap == [SlotKeys -> SlotValue \cup {Null}]

ASSUME ConstantsAssumption ==
    /\ MaxQuestions \in Nat \ {0}
    /\ MinQuestions \in Nat
    /\ TotalQuestions \in Nat \ {0}
    /\ Threshold \in 0 .. 100
    /\ MaxTurns \in Nat
    /\ ModelCoverage \subseteq 0 .. 100
    /\ ModelSlots \subseteq [SlotKeys -> Extraction \cup {Null}]
    /\ BudgetSlot \in SlotKeys
    /\ IdeaLanguage \in Languages

ASSUME NullAssumption ==
    /\ Null \notin SlotKeys \cup Languages
    /\ Null \notin BOOLEAN
    /\ Null \notin SlotValue
    /\ Null \notin [target : SlotKeys \cup {Null}]
    /\ Null \notin SlotMap
    /\ Null # Deleted

VARIABLES
    row,    \* the stored session: Null before creation, Deleted after deletion
    req     \* req[h]: Null, or what the request in h will write

vars == <<row, req>>

(* A transcript entry.  "slot" is the slot a question was asked to fill, or *)
(* the slot a correction changes; "usable" is FALSE for an empty answer and *)
(* for one that says "I don't know".                                        *)
Turn == [kind : {"notes", "asked", "correction"},
         slot : SlotKeys \cup {Null},
         usable : BOOLEAN]

Question == [target : SlotKeys \cup {Null}]

Session == [status   : {"collecting", "awaiting_confirmation", "confirmed"},
            history  : Seq(Turn),
            pending  : Question \cup {Null},
            coverage : Int,
            summary  : SlotMap \cup {Null},
            slots    : SlotMap,
            open     : SUBSET SlotKeys,
            extended : BOOLEAN \cup {Null},
            language : Languages \cup {Null}]

ASSUME SessionAssumption == Null \notin Session /\ Deleted \notin Session

(* A request in flight: the copy of the row it will save; an answer still   *)
(* has the next question to choose.                                         *)
Request == [op : {"answer", "confirm", "edit", "update"}, row : Session]

(* What the interviewer model returns, after sanitizeSlots and the other    *)
(* coercions: question is Null when the reply carries no prompt.            *)
Reply == [done : BOOLEAN, coverage : ModelCoverage,
          question : Question \cup {Null},
          slots : ModelSlots, open : SUBSET SlotKeys]

Exists == row \notin {Null, Deleted}

-----------------------------------------------------------------------------
(* Slots (slots.ts)                                                         *)

NoSlots == [k \in SlotKeys |-> Null]

Explicit(slots, k) == slots[k] # Null /\ slots[k].source = "explicit"

Taken(extraction, n) ==
    [source |-> extraction.source, na |-> extraction.na, turn |-> n]

(* A value in the owner's own words, an answer or a correction, of turn n. *)
Stated(n) == Taken([source |-> "explicit", na |-> FALSE], n)

(* mutant: the latest extraction wins, an inference included *)
MergeLatestWins(existing, incoming) ==
    [k \in SlotKeys |-> IF incoming[k] = Null THEN existing[k] ELSE incoming[k]]

MergeSlots(existing, incoming) ==
    [k \in SlotKeys |->
        IF \/ incoming[k] = Null
           \/ Explicit(existing, k) /\ ~Explicit(incoming, k)
        THEN existing[k]
        ELSE incoming[k]]

(* mutant: only the questions that arrive this turn are checked *)
ReconcileIncomingOnly(existing, incoming, slots) ==
    existing \cup {k \in incoming : ~(Explicit(slots, k) /\ ~slots[k].na)}

ReconcileOpenQuestions(existing, incoming, slots) ==
    {k \in existing \cup incoming : ~(Explicit(slots, k) /\ ~slots[k].na)}

AskedTurns(history) == {i \in DOMAIN history : history[i].kind = "asked"}

(* The answer to the last question asked fills that question's slot when    *)
(* the model's own extraction left it alone.                                *)
BindAnswerToSlot(history, extracted) ==
    LET last == {i \in AskedTurns(history) :
                    \A j \in AskedTurns(history) : j <= i}
        bound(k) == \E i \in last : history[i].slot = k /\ history[i].usable
    IN  [k \in SlotKeys |->
            IF extracted[k] # Null THEN Taken(extracted[k], Len(history))
            ELSE IF bound(k) THEN Stated(Len(history))
            ELSE Null]

-----------------------------------------------------------------------------
(* Choosing the next question (interview.service.ts, internals)             *)

Larger(a, b) == IF a >= b THEN a ELSE b

(* round2(n / TOTAL_QUESTIONS), in percent *)
PlanPercent(n) == (200 * n + TotalQuestions) \div (2 * TotalQuestions)

PlanDecision(s) ==
    LET n == Len(s.history)
        done == \/ n >= TotalQuestions
                \/ s.coverage >= Threshold
                \/ 100 * n >= Threshold * TotalQuestions
    IN  [done |-> done,
         coverage |-> Larger(s.coverage, PlanPercent(n)),
         question |-> IF done THEN Null ELSE [target |-> Null],
         slots |-> NoSlots, open |-> {}]

(* mutant: a finished interview keeps the model's own coverage estimate *)
TryAdaptiveRawCoverage(s, reply) ==
    IF reply.done /\ Len(s.history) >= MinQuestions
      THEN [reply EXCEPT !.question = Null]
    ELSE IF reply.question # Null
      THEN [reply EXCEPT !.done = FALSE]
    ELSE [PlanDecision(s) EXCEPT !.slots = reply.slots, !.open = reply.open]

TryAdaptive(s, reply) ==
    IF reply.done /\ Len(s.history) >= MinQuestions
      THEN [reply EXCEPT !.coverage = Larger(@, Threshold), !.question = Null]
    ELSE IF reply.question # Null
      THEN [reply EXCEPT !.done = FALSE]
    ELSE [PlanDecision(s) EXCEPT !.slots = reply.slots, !.open = reply.open]

(* mutant: the cap is off by one *)
DecideNextOffByOne(s, reply) ==
    IF Len(s.history) > MaxQuestions
      THEN [done |-> TRUE, coverage |-> 100, question |-> Null,
            slots |-> NoSlots, open |-> {}]
    ELSE IF reply = Null
      THEN PlanDecision(s)
    ELSE TryAdaptive(s, reply)

DecideNext(s, reply) ==
    IF Len(s.history) >= MaxQuestions
      THEN [done |-> TRUE, coverage |-> 100, question |-> Null,
            slots |-> NoSlots, open |-> {}]
    ELSE IF reply = Null
      THEN PlanDecision(s)
    ELSE TryAdaptive(s, reply)

(* The summary is represented by the slot map it was built from. *)
BuildSummary(slots) == slots

(* mutant: the pending question is not cleared at the gate *)
AdvanceKeepsQuestion(s, reply) ==
    LET next == DecideNext(s, reply)
        extracted == BindAnswerToSlot(s.history, next.slots)
        slots == MergeSlots(s.slots, extracted)
    IN  [s EXCEPT
            !.coverage = next.coverage,
            !.slots = slots,
            !.open = ReconcileOpenQuestions(@, next.open, slots),
            !.status = IF next.done THEN "awaiting_confirmation" ELSE @,
            !.summary = IF next.done THEN BuildSummary(slots) ELSE @,
            !.pending = IF next.done THEN @ ELSE next.question]

Advance(s, reply) ==
    LET next == DecideNext(s, reply)
        extracted == BindAnswerToSlot(s.history, next.slots)
        folds == extracted # NoSlots \/ next.open # {}
        slots == IF folds THEN MergeSlots(s.slots, extracted) ELSE s.slots
        open == IF folds
                THEN ReconcileOpenQuestions(s.open, next.open, slots)
                ELSE s.open
    IN  [s EXCEPT
            !.coverage = next.coverage,
            !.slots = slots,
            !.open = open,
            !.status = IF next.done THEN "awaiting_confirmation" ELSE @,
            !.summary = IF next.done THEN BuildSummary(slots) ELSE @,
            !.pending = next.question]

NewSession(history) ==
    [status |-> "collecting", history |-> history, pending |-> Null,
     coverage |-> 0, summary |-> Null, slots |-> NoSlots, open |-> {},
     extended |-> Null, language |-> Null]

(* resolveExtendedArtifacts: an unstated budget defaults to TRUE, a stated  *)
(* one may parse below or above the threshold.                              *)
ResolvedExtended(s) ==
    IF s.extended # Null THEN {s.extended}
    ELSE IF s.slots[BudgetSlot] = Null THEN {TRUE}
    ELSE IF s.slots[BudgetSlot].na THEN {TRUE}
    ELSE BOOLEAN

ResolvedLanguage(s) == IF s.language # Null THEN s.language ELSE IdeaLanguage

-----------------------------------------------------------------------------
Init == row = Null /\ req = [h \in Handlers |-> Null]

(* POST /interview: the new id is unknown to every other request until the  *)
(* row is created, so the whole handler is one step.                        *)
Start(reply) ==
    /\ row = Null
    /\ \E notes \in BOOLEAN :
         LET history == IF notes
                        THEN <<[kind |-> "notes", slot |-> Null, usable |-> TRUE]>>
                        ELSE <<>>
         IN  row' = Advance(NewSession(history), reply)
    /\ UNCHANGED req

Receive(h, op, s) == req' = [req EXCEPT ![h] = [op |-> op, row |-> s]]

(* mutant: the answer is not pushed onto the transcript *)
AnswerUnrecorded(h, usable) ==
    /\ req[h] = Null /\ Exists
    /\ row.status = "collecting"
    /\ row.pending # Null
    /\ Receive(h, "answer", row)
    /\ UNCHANGED row

(* answer(), up to the call of the model *)
Answer(h, usable) ==
    /\ req[h] = Null /\ Exists
    /\ row.status = "collecting"
    /\ row.pending # Null
    /\ Receive(h, "answer",
         [row EXCEPT !.history =
            Append(@, [kind |-> "asked", slot |-> row.pending.target,
                       usable |-> usable])])
    /\ UNCHANGED row

(* mutant: confirming leaves the derived choices undecided *)
ConfirmWithoutPins(h) ==
    /\ req[h] = Null /\ Exists
    /\ row.status = "awaiting_confirmation"
    /\ Receive(h, "confirm", [row EXCEPT !.status = "confirmed"])
    /\ UNCHANGED row

(* mutant: confirming stores a status outside InterviewStatus *)
ConfirmUnknownStatus(h) ==
    /\ req[h] = Null /\ Exists
    /\ row.status = "awaiting_confirmation"
    /\ Receive(h, "confirm",
         [row EXCEPT !.status = "locked", !.extended = TRUE,
                     !.language = ResolvedLanguage(row)])
    /\ UNCHANGED row

(* mutant: an interview may be confirmed before its gate *)
ConfirmAnyTime(h) ==
    /\ req[h] = Null /\ Exists
    /\ \E extended \in ResolvedExtended(row) :
         Receive(h, "confirm",
           [row EXCEPT !.status = "confirmed", !.extended = extended,
                       !.language = ResolvedLanguage(row)])
    /\ UNCHANGED row

(* confirm(): locks the status and pins the two choices left undecided *)
Confirm(h) ==
    /\ req[h] = Null /\ Exists
    /\ row.status = "awaiting_confirmation"
    /\ \E extended \in ResolvedExtended(row) :
         Receive(h, "confirm",
           [row EXCEPT !.status = "confirmed", !.extended = extended,
                       !.language = ResolvedLanguage(row)])
    /\ UNCHANGED row

(* mutant: a confirmed interview can still be corrected *)
EditSlotAlways(h, k) ==
    /\ req[h] = Null /\ Exists
    /\ Len(row.history) < MaxTurns
    /\ LET slots == [row.slots EXCEPT ![k] = Stated(Len(row.history) + 1)]
       IN  Receive(h, "edit",
             [row EXCEPT
                !.history = Append(@, [kind |-> "correction", slot |-> k,
                                       usable |-> TRUE]),
                !.slots = slots,
                !.open = ReconcileOpenQuestions(@, {}, slots)])
    /\ UNCHANGED row

(* mutant: the correction replaces the last turn instead of following it *)
EditSlotInPlace(h, k) ==
    /\ req[h] = Null /\ Exists
    /\ row.status # "confirmed"
    /\ row.history # <<>>
    /\ LET slots == [row.slots EXCEPT ![k] = Stated(Len(row.history))]
       IN  Receive(h, "edit",
             [row EXCEPT
                !.history[Len(row.history)] =
                    [kind |-> "correction", slot |-> k, usable |-> TRUE],
                !.slots = slots,
                !.open = ReconcileOpenQuestions(@, {}, slots)])
    /\ UNCHANGED row

EditSlot(h, k) ==
    /\ req[h] = Null /\ Exists
    /\ row.status # "confirmed"
    /\ Len(row.history) < MaxTurns
    /\ LET slots == [row.slots EXCEPT ![k] = Stated(Len(row.history) + 1)]
       IN  Receive(h, "edit",
             [row EXCEPT
                !.history = Append(@, [kind |-> "correction", slot |-> k,
                                       usable |-> TRUE]),
                !.slots = slots,
                !.open = ReconcileOpenQuestions(@, {}, slots)])
    /\ UNCHANGED row

(* mutant: a field the patch leaves out is cleared *)
UpdateClears(h, extended, language) ==
    /\ req[h] = Null /\ Exists
    /\ Receive(h, "update",
         [row EXCEPT !.extended = extended, !.language = language])
    /\ UNCHANGED row

(* update(): the patch of the labels the control flow reads back; a field   *)
(* the patch leaves out keeps its value.                                    *)
Update(h, extended, language) ==
    /\ req[h] = Null /\ Exists
    /\ Receive(h, "update",
         [row EXCEPT !.extended = IF extended = Null THEN @ ELSE extended,
                     !.language = IF language = Null THEN @ ELSE language])
    /\ UNCHANGED row

(* repo.save of a row deleted meanwhile fails and writes nothing. *)
Save(h, s) ==
    /\ row' = IF row = Deleted THEN Deleted ELSE s
    /\ req' = [req EXCEPT ![h] = Null]

SaveAnswer(h, reply) ==
    /\ req[h] # Null /\ req[h].op = "answer"
    /\ Save(h, Advance(req[h].row, reply))

SaveOther(h) ==
    /\ req[h] # Null /\ req[h].op # "answer"
    /\ Save(h, req[h].row)

Delete == Exists /\ row' = Deleted /\ UNCHANGED req

Next ==
    \/ \E reply \in Reply \cup {Null} : Start(reply)
    \/ Delete
    \/ \E h \in Handlers :
         \/ \E usable \in BOOLEAN : Answer(h, usable)
         \/ Confirm(h)
         \/ \E k \in SlotKeys : EditSlot(h, k)
         \/ \E extended \in BOOLEAN \cup {Null}, language \in Languages \cup {Null} :
              Update(h, extended, language)
         \/ \E reply \in Reply \cup {Null} : SaveAnswer(h, reply)
         \/ SaveOther(h)

Spec == Init /\ [][Next]_vars

(* The model call and the database return (the LLM client has timeouts and  *)
(* every failure is caught), and an owner who can answer eventually does.   *)
Fairness ==
    \A h \in Handlers :
        /\ WF_vars(\E reply \in Reply \cup {Null} : SaveAnswer(h, reply))
        /\ WF_vars(SaveOther(h))
        /\ SF_vars(\E usable \in BOOLEAN : Answer(h, usable))

FairSpec == Spec /\ Fairness

-----------------------------------------------------------------------------
(* Properties                                                               *)

(* The stored values have their types. *)
TypeOK ==
    /\ row \in Session \cup {Null, Deleted}
    /\ req \in [Handlers -> Request \cup {Null}]

(* An interview is never stuck: a question is pending exactly while answers *)
(* are being collected, so answer() always has one to record.               *)
QuestionIffCollecting(s) == (s.status = "collecting") <=> (s.pending # Null)

(* The hard cap: the interviewer never asks more than MaxQuestions, however *)
(* many notes and correction turns share the transcript it counts.          *)
AskedWithinCap(s) ==
    LET asked == Cardinality(AskedTurns(s.history))
    IN  asked + (IF s.pending # Null THEN 1 ELSE 0) <= MaxQuestions

(* The value of slot k is the owner's correction in turn i, or was stated   *)
(* after it: by a later correction of k, or in a later answer.              *)
SinceCorrection(s, k, i) ==
    LET v == s.slots[k]
    IN  \/ v = Stated(i)
        \/ /\ Explicit(s.slots, k)
           /\ v.turn \in i + 1 .. Len(s.history)
           /\ \/ s.history[v.turn].kind = "asked"
              \/ s.history[v.turn].kind = "correction" /\ s.history[v.turn].slot = k

(* A correction in the transcript is what the slot holds: no inference, and *)
(* nothing taken from an earlier turn, ever replaces it.  A later answer    *)
(* may, when the model reports a value as stated in it ("a stated value     *)
(* always supersedes"): then slot and correction differ.                    *)
CorrectionsHold(s) ==
    \A i \in DOMAIN s.history :
        s.history[i].kind = "correction" =>
            /\ s.history[i].slot \in SlotKeys
            /\ SinceCorrection(s, s.history[i].slot, i)

(* No question is forwarded to the client about a slot already answered. *)
OpenAreUnanswered(s) ==
    \A k \in s.open : ~(Explicit(s.slots, k) /\ ~s.slots[k].na)

(* The gate opens only past the completeness threshold and with a summary. *)
GateIsComplete(s) ==
    s.status # "collecting" => s.coverage >= Threshold /\ s.summary # Null

(* A confirmed project carries an explicit artifact choice and language. *)
ChoicesPinned(s) ==
    s.status = "confirmed" => s.extended # Null /\ s.language # Null

(* The stored row always lets the owner go on: answer() or confirm(). *)
NeverStuck == Exists => QuestionIffCollecting(row)

(* The stored transcript never holds more questions than the hard cap. *)
CapKept == Exists => AskedWithinCap(row)

(* The stored slots hold every correction, or what was stated after it: in  *)
(* any order of answers, corrections and replies no guess of the model and  *)
(* no older value comes back over one (mergeSlots, editSlot).               *)
CorrectionsKept == Exists => CorrectionsHold(row)

(* The stored open questions are about slots nobody has stated. *)
OpenQuestionsReconciled == Exists => OpenAreUnanswered(row)

(* Past "collecting" the stored row has its coverage and its summary. *)
GateComplete == Exists => GateIsComplete(row)

(* A stored row that is confirmed has both choices pinned. *)
ConfirmPins == Exists => ChoicesPinned(row)

(* All of them under any interleaving of whole-row saves: a stale save may  *)
(* lose an update, but the row it leaves is one the interview could be in.  *)
RowConsistent ==
    /\ NeverStuck /\ CapKept /\ CorrectionsKept
    /\ OpenQuestionsReconciled /\ GateComplete /\ ConfirmPins

(* Confirming locks the interview: from then on no request changes its      *)
(* status, transcript, slots or summary.                                    *)
ConfirmLocks ==
    [][Exists /\ row.status = "confirmed" /\ row' # Deleted =>
         /\ row'.status = "confirmed"
         /\ row'.history = row.history
         /\ row'.slots = row.slots
         /\ row'.summary = row.summary]_vars

(* The transcript is append-only: no save removes or rewrites a turn. *)
TranscriptGrows ==
    [][Exists /\ row' # Deleted =>
         /\ Len(row'.history) >= Len(row.history)
         /\ SubSeq(row'.history, 1, Len(row.history)) = row.history]_vars

(* What somebody stated is never forgotten: only a value stated at a later  *)
(* turn replaces it, never an inference or a value of an earlier turn.      *)
StatementsStay ==
    [][Exists /\ row' # Deleted =>
         \A k \in SlotKeys : Explicit(row.slots, k) =>
            /\ Explicit(row'.slots, k)
            /\ \/ row'.slots[k] = row.slots[k]
               \/ row'.slots[k].turn > row.slots[k].turn]_vars

(* An artifact choice or language the owner made is never taken back to     *)
(* "not decided" by a request that did not set it.                          *)
OwnerChoicesStay ==
    [][Exists /\ row' # Deleted =>
         /\ row.extended # Null => row'.extended # Null
         /\ row.language # Null => row'.language # Null]_vars

(* The stored row as the owner sees it. *)
Phase ==
    IF row = Null THEN "none"
    ELSE IF row = Deleted THEN "gone"
    ELSE [collecting |-> "talking", awaiting_confirmation |-> "shown",
          confirmed |-> "locked"][row.status]

ChoicesMade(s) ==
    {c \in {"extended", "language"} :
        IF c = "extended" THEN s.extended # Null ELSE s.language # Null}

Promise == INSTANCE LockedProject WITH
    Choices <- {"extended", "language"},
    phase   <- Phase,
    turns   <- IF Exists THEN row.history ELSE <<>>,
    stated  <- IF Exists THEN {k \in SlotKeys : Explicit(row.slots, k)} ELSE {},
    brief   <- IF Exists THEN <<row.slots, row.summary>> ELSE <<>>,
    choices <- IF Exists THEN ChoicesMade(row) ELSE {}

(* The interview keeps that promise: through any sequence of answers,       *)
(* corrections and updates it goes from talking to the gate to the lock and *)
(* never back, loses nothing on the way, and locks what the gate showed.    *)
ImplementsLockedProject == Promise!Spec

(* The interview ends: an owner who keeps answering reaches the gate. *)
GateReached == Exists ~> (row = Deleted \/ (Exists /\ row.status # "collecting"))

(* The caps exist "so a real model can't end too early": the gate does not  *)
(* open before the transcript holds MinQuestions turns.                     *)
NotTooEarly ==
    Exists => (row.status # "collecting" => Len(row.history) >= MinQuestions)

(* The summary shown at the gate is the one of the slots shown beside it. *)
SummaryShowsSlots ==
    Exists => (row.status = "awaiting_confirmation" => row.summary = row.slots)

=============================================================================
