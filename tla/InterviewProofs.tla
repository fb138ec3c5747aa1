--------------------------- MODULE InterviewProofs ---------------------------
(***************************************************************************)
(* Proofs about Interview, for every number of concurrent requests, every  *)
(* set of slots and every reply of the model.                              *)
(*                                                                         *)
(* None of the row's facts is inductive by itself: a request saves a copy  *)
(* of the row it read earlier, so the facts must hold of every copy in     *)
(* flight as well.  That is IInv.                                          *)
(***************************************************************************)
EXTENDS Interview, FiniteSetTheorems, TLAPS

(* A slot value was taken at a turn of the transcript. *)
TakenBefore(s, n) == \A k \in SlotKeys : s.slots[k] # Null => s.slots[k].turn <= n

RowOK(s) ==
    /\ TakenBefore(s, Len(s.history))
    /\ QuestionIffCollecting(s)
    /\ AskedWithinCap(s)
    /\ CorrectionsHold(s)
    /\ OpenAreUnanswered(s)
    /\ GateIsComplete(s)
    /\ ChoicesPinned(s)

(* What holds of a transcript that has just received an answer, before the  *)
(* next question is chosen: nothing was taken from that answer yet.         *)
AnswerOK(s) ==
    /\ s.status = "collecting"
    /\ \/ s.history # <<>> /\ s.history[Len(s.history)].kind = "asked"
          /\ TakenBefore(s, Len(s.history) - 1)
       \/ s.slots = NoSlots
    /\ Cardinality(AskedTurns(s.history)) <= MaxQuestions
    /\ CorrectionsHold(s)
    /\ OpenAreUnanswered(s)

RequestOK(r) == IF r.op = "answer" THEN AnswerOK(r.row) ELSE RowOK(r.row)

IInv ==
    /\ TypeOK
    /\ Exists => RowOK(row)
    /\ \A h \in Handlers : req[h] # Null => RequestOK(req[h])

-----------------------------------------------------------------------------
(* Transcripts                                                              *)

(* The questions asked are finitely many and at most the transcript's turns. *)
LEMMA AskedBound ==
    ASSUME NEW s \in Seq(Turn)
    PROVE  /\ IsFiniteSet(AskedTurns(s))
           /\ Cardinality(AskedTurns(s)) \in Nat
           /\ Cardinality(AskedTurns(s)) <= Len(s)
<1>0. Len(s) \in Nat /\ Len(s) \in Int /\ 1 \in Int
  OBVIOUS
<1> DEFINE n == Len(s)
<1>1. IsFiniteSet(1 .. Len(s)) /\ Cardinality(1 .. Len(s)) = Len(s)
  <2> HIDE DEF n
  <2>1. /\ IsFiniteSet(1 .. n)
        /\ Cardinality(1 .. n) = IF 1 > n THEN 0 ELSE n - 1 + 1
    BY <1>0, FS_Interval DEF n
  <2>2. n \in Nat
    BY <1>0 DEF n
  <2> QED BY <2>1, <2>2 DEF n
<1>2. AskedTurns(s) \subseteq 1 .. Len(s)
  BY DEF AskedTurns
<1>3. QED
  BY <1>1, <1>2, FS_Subset, FS_CardinalityType

(* A turn appended counts as one more question only if it was asked. *)
LEMMA AskedAppend ==
    ASSUME NEW s \in Seq(Turn), NEW t \in Turn
    PROVE  Cardinality(AskedTurns(Append(s, t))) =
             Cardinality(AskedTurns(s)) + (IF t.kind = "asked" THEN 1 ELSE 0)
<1>1. IsFiniteSet(AskedTurns(s)) /\ Cardinality(AskedTurns(s)) \in Nat
  BY AskedBound
<1>2. Len(s) + 1 \notin AskedTurns(s)
  BY DEF AskedTurns
<1>3. CASE t.kind = "asked"
  <2>1. AskedTurns(Append(s, t)) = AskedTurns(s) \cup {Len(s) + 1}
    BY <1>3 DEF AskedTurns
  <2>2. QED
    BY <1>1, <1>2, <1>3, <2>1, FS_AddElement
<1>4. CASE t.kind # "asked"
  <2>1. AskedTurns(Append(s, t)) = AskedTurns(s)
    BY <1>4 DEF AskedTurns
  <2>2. QED
    BY <1>1, <1>4, <2>1
<1>5. QED
  BY <1>3, <1>4

-----------------------------------------------------------------------------
(* Slots                                                                    *)

(* What the model may report: an extraction or nothing for each slot. *)
ExtractionMap == [SlotKeys -> Extraction \cup {Null}]

(* Merging keeps the type, and a stated slot stays stated: it keeps its     *)
(* value or gets another that is stated.                                    *)
LEMMA MergeKeepsStated ==
    ASSUME NEW existing \in SlotMap, NEW incoming \in SlotMap
    PROVE  /\ MergeSlots(existing, incoming) \in SlotMap
           /\ \A k \in SlotKeys :
                /\ MergeSlots(existing, incoming)[k] \in {existing[k], incoming[k]}
                /\ MergeSlots(existing, incoming)[k] # existing[k] =>
                     incoming[k] # Null
                /\ Explicit(existing, k) => Explicit(MergeSlots(existing, incoming), k)
BY DEF MergeSlots, SlotMap, Explicit

(* The owner's own words are a value, stated and of their turn. *)
LEMMA StatedType ==
    ASSUME NEW n \in Nat
    PROVE  /\ Stated(n) \in SlotValue /\ Stated(n) # Null
           /\ Stated(n).source = "explicit" /\ Stated(n).turn = n
<1>1. /\ Stated(n) \in SlotValue
      /\ Stated(n).source = "explicit" /\ Stated(n).turn = n
  BY DEF Stated, Taken, SlotValue
<1>2. QED
  BY <1>1, NullAssumption

(* Binding an answer to its slot keeps the type, and whatever is taken is   *)
(* taken at the turn the transcript has reached.                            *)
LEMMA BindType ==
    ASSUME NEW history \in Seq(Turn), NEW extracted \in ExtractionMap
    PROVE  /\ BindAnswerToSlot(history, extracted) \in SlotMap
           /\ \A k \in SlotKeys :
                BindAnswerToSlot(history, extracted)[k] # Null =>
                  BindAnswerToSlot(history, extracted)[k].turn = Len(history)
<1> DEFINE n == Len(history)
           b == BindAnswerToSlot(history, extracted)
<1>1. n \in Nat
  OBVIOUS
<1>2. Stated(n) \in SlotValue /\ Stated(n).turn = n
  BY <1>1, StatedType
<1>3. ASSUME NEW k \in SlotKeys, extracted[k] # Null
      PROVE  Taken(extracted[k], n) \in SlotValue /\ Taken(extracted[k], n).turn = n
  BY <1>1, <1>3 DEF Taken, SlotValue, Extraction, ExtractionMap
<1>4. /\ b = [k \in SlotKeys |-> b[k]]
      /\ \A k \in SlotKeys :
           b[k] = IF extracted[k] # Null THEN Taken(extracted[k], n)
                  ELSE IF b[k] = Null THEN Null ELSE Stated(n)
  BY DEF BindAnswerToSlot
<1> HIDE DEF n, b
<1>5. \A k \in SlotKeys :
        b[k] \in SlotValue \cup {Null} /\ (b[k] # Null => b[k].turn = n)
  BY <1>2, <1>3, <1>4
<1>6. QED
  BY <1>4, <1>5 DEF SlotMap, n, b

(* The empty slot map is a slot map, of either kind. *)
LEMMA NoSlotsType == NoSlots \in SlotMap /\ NoSlots \in ExtractionMap
BY DEF NoSlots, SlotMap, ExtractionMap

-----------------------------------------------------------------------------
(* The decision of one turn                                                 *)

(* If b * q is at most a, the integer quotient of a by b is at least q. *)
LEMMA QuotientBound ==
    ASSUME NEW a \in Int, NEW b \in Nat \ {0}, NEW q \in Int, b * q <= a
    PROVE  a \div b \in Int /\ a \div b >= q
OBVIOUS

(* The larger of two numbers is at least each of them. *)
LEMMA LargerIsBound ==
    ASSUME NEW a \in Int, NEW b \in Int
    PROVE  Larger(a, b) \in Int /\ Larger(a, b) >= a /\ Larger(a, b) >= b
BY DEF Larger

(* The rounded coverage of the plan reaches the threshold when the exact    *)
(* one does.                                                                *)
LEMMA PlanPercentReaches ==
    ASSUME NEW n \in Nat
    PROVE  /\ PlanPercent(n) \in Int
           /\ 100 * n >= Threshold * TotalQuestions => PlanPercent(n) >= Threshold
<1>1. Threshold \in Int /\ TotalQuestions \in Nat \ {0}
  BY ConstantsAssumption
<1>2. /\ 200 * n + TotalQuestions \in Int
      /\ 2 * TotalQuestions \in Nat \ {0}
  BY <1>1
<1>3. PlanPercent(n) \in Int
  BY <1>2, QuotientBound DEF PlanPercent
<1>4. ASSUME 100 * n >= Threshold * TotalQuestions
      PROVE  (2 * TotalQuestions) * Threshold <= 200 * n + TotalQuestions
  BY <1>1, <1>4
<1>5. ASSUME 100 * n >= Threshold * TotalQuestions
      PROVE  PlanPercent(n) >= Threshold
  BY <1>1, <1>2, <1>4, <1>5, QuotientBound DEF PlanPercent
<1>6. QED
  BY <1>3, <1>5

(* What advance() relies on in a decision: it has a next question exactly   *)
(* when the interview goes on, it goes on only below the cap, and it stops  *)
(* only at the threshold.                                                   *)
DecisionOK(d) ==
    /\ d.done \in BOOLEAN
    /\ d.coverage \in Int
    /\ d.question \in Question \cup {Null}
    /\ d.slots \in ExtractionMap
    /\ d.open \subseteq SlotKeys
    /\ d.done <=> d.question = Null
    /\ d.done => d.coverage >= Threshold

(* The plan decides well: it asks a question unless it is done, and is done *)
(* only at the threshold.                                                   *)
LEMMA PlanDecisionOK ==
    ASSUME NEW s \in Session
    PROVE  /\ DecisionOK(PlanDecision(s))
           /\ PlanDecision(s) = [done |-> PlanDecision(s).done,
                                 coverage |-> PlanDecision(s).coverage,
                                 question |-> PlanDecision(s).question,
                                 slots |-> NoSlots, open |-> {}]
<1>1. Len(s.history) \in Nat /\ s.coverage \in Int
  BY DEF Session
<1>2. /\ PlanPercent(Len(s.history)) \in Int
      /\ 100 * Len(s.history) >= Threshold * TotalQuestions =>
           PlanPercent(Len(s.history)) >= Threshold
  BY <1>1, PlanPercentReaches
<1>3. [target |-> Null] \in Question /\ [target |-> Null] # Null
  BY NullAssumption DEF Question
<1>4. Threshold \in 0 .. 100 /\ TotalQuestions \in Nat \ {0}
  BY ConstantsAssumption
<1>5. Len(s.history) >= TotalQuestions =>
        100 * Len(s.history) >= Threshold * TotalQuestions
  BY <1>1, <1>4
<1> DEFINE d == PlanDecision(s)
           n == Len(s.history)
           done == \/ n >= TotalQuestions
                   \/ s.coverage >= Threshold
                   \/ 100 * n >= Threshold * TotalQuestions
<1>6. /\ d.done = done
      /\ d.coverage = Larger(s.coverage, PlanPercent(n))
      /\ d.question = IF done THEN Null ELSE [target |-> Null]
      /\ d.slots = NoSlots /\ d.open = {}
      /\ d = [done |-> d.done, coverage |-> d.coverage,
              question |-> d.question, slots |-> NoSlots, open |-> {}]
  BY DEF PlanDecision
<1>7. /\ d.coverage \in Int
      /\ d.coverage >= s.coverage /\ d.coverage >= PlanPercent(n)
  BY <1>1, <1>2, <1>6, LargerIsBound
<1>8. done => d.coverage >= Threshold
  BY <1>1, <1>2, <1>4, <1>5, <1>7
<1> HIDE DEF d, done
<1>9. done \in BOOLEAN
  BY DEF done
<1>10. DecisionOK(d)
  BY <1>3, <1>6, <1>7, <1>8, <1>9, NoSlotsType DEF DecisionOK
<1>11. QED
  BY <1>6, <1>10 DEF d

(* So does decideNext, with the model or without it. *)
LEMMA DecideNextOK ==
    ASSUME NEW s \in Session, NEW reply \in Reply \cup {Null}
    PROVE  /\ DecisionOK(DecideNext(s, reply))
           /\ ~DecideNext(s, reply).done => Len(s.history) < MaxQuestions
<1>1. /\ Threshold \in Int /\ Threshold <= 100
      /\ MaxQuestions \in Nat /\ Len(s.history) \in Nat
  BY ConstantsAssumption DEF Session
<1>2. CASE Len(s.history) >= MaxQuestions
  <2> DEFINE d == DecideNext(s, reply)
  <2>1. /\ d.done \in BOOLEAN /\ d.done /\ d.coverage = 100 /\ d.question = Null
        /\ d.slots = NoSlots /\ d.open = {}
    BY <1>2 DEF DecideNext
  <2> HIDE DEF d
  <2>2. DecisionOK(d)
    BY <1>1, <2>1, NoSlotsType DEF DecisionOK
  <2>3. QED
    BY <2>1, <2>2 DEF d
<1>3. CASE ~(Len(s.history) >= MaxQuestions) /\ reply = Null
  <2>1. DecideNext(s, reply) = PlanDecision(s)
    BY <1>3 DEF DecideNext
  <2>2. DecisionOK(PlanDecision(s))
    BY PlanDecisionOK
  <2>3. QED
    BY <1>1, <1>3, <2>1, <2>2
<1>4. CASE ~(Len(s.history) >= MaxQuestions) /\ reply # Null
  <2>1. reply \in Reply /\ DecideNext(s, reply) = TryAdaptive(s, reply)
    BY <1>4 DEF DecideNext
  <2>2. /\ reply.done \in BOOLEAN /\ reply.coverage \in Int
        /\ reply.question \in Question \cup {Null}
        /\ reply.slots \in ExtractionMap /\ reply.open \subseteq SlotKeys
    <3>1. /\ reply.done \in BOOLEAN /\ reply.coverage \in ModelCoverage
          /\ reply.question \in Question \cup {Null}
          /\ reply.slots \in ModelSlots /\ reply.open \subseteq SlotKeys
      BY <2>1 DEF Reply
    <3>2. ModelCoverage \subseteq 0 .. 100
      BY ConstantsAssumption
    <3>3. ModelSlots \subseteq ExtractionMap
      BY ConstantsAssumption DEF ExtractionMap
    <3>4. reply.coverage \in Int
      BY <3>1, <3>2
    <3>5. QED
      BY <3>1, <3>3, <3>4
  <2>3. CASE reply.done /\ Len(s.history) >= MinQuestions
    <3>1. TryAdaptive(s, reply) =
            [reply EXCEPT !.coverage = Larger(@, Threshold), !.question = Null]
      BY <2>3 DEF TryAdaptive
    <3>2. Larger(reply.coverage, Threshold) \in Int
          /\ Larger(reply.coverage, Threshold) >= Threshold
      <4>1. reply.coverage \in Int /\ Threshold \in Int
        BY <1>1, <2>2
      <4>2. QED
        BY <4>1, LargerIsBound
    <3>3. DecisionOK(TryAdaptive(s, reply))
      BY <2>1, <2>2, <2>3, <3>1, <3>2 DEF DecisionOK, Reply
    <3>4. QED
      BY <1>1, <1>4, <2>1, <3>3
  <2>4. CASE /\ ~(reply.done /\ Len(s.history) >= MinQuestions)
             /\ reply.question # Null
    <3>1. TryAdaptive(s, reply) = [reply EXCEPT !.done = FALSE]
      BY <2>4 DEF TryAdaptive
    <3>2. DecisionOK(TryAdaptive(s, reply))
      BY <2>1, <2>2, <2>4, <3>1 DEF DecisionOK, Reply
    <3>3. QED
      BY <1>1, <1>4, <2>1, <3>2
  <2>5. CASE /\ ~(reply.done /\ Len(s.history) >= MinQuestions)
             /\ reply.question = Null
    <3> DEFINE p == PlanDecision(s)
               d == TryAdaptive(s, reply)
    <3>1. d = [p EXCEPT !.slots = reply.slots, !.open = reply.open]
      BY <2>5 DEF TryAdaptive
    <3>2. p = [done |-> p.done, coverage |-> p.coverage,
               question |-> p.question, slots |-> NoSlots, open |-> {}]
          /\ DecisionOK(p)
      BY PlanDecisionOK
    <3> HIDE DEF p
    <3>3. /\ d.done = p.done /\ d.coverage = p.coverage
          /\ d.question = p.question
          /\ d.slots = reply.slots /\ d.open = reply.open
      BY <3>1, <3>2
    <3> HIDE DEF d
    <3>4. DecisionOK(d)
      BY <2>2, <3>2, <3>3 DEF DecisionOK
    <3>5. QED
      BY <1>1, <1>4, <2>1, <3>4 DEF d
  <2>6. QED
    BY <2>3, <2>4, <2>5
<1>5. QED
  BY <1>2, <1>3, <1>4

(* Corrections are facts of the transcript and the slots alone. *)
LEMMA SameCorrections ==
    ASSUME NEW s, NEW u, u.history = s.history, u.slots = s.slots, CorrectionsHold(s)
    PROVE  CorrectionsHold(u)
<1>1. ASSUME NEW k, NEW i, SinceCorrection(s, k, i)
      PROVE  SinceCorrection(u, k, i)
  <2>1. Explicit(s.slots, k) <=> Explicit(u.slots, k)
    BY DEF Explicit
  <2>2. u.slots[k] = s.slots[k]
    OBVIOUS
  <2>3. QED
    BY <1>1, <2>1, <2>2 DEF SinceCorrection
<1>2. QED
  BY <1>1 DEF CorrectionsHold

(* A turn more on the transcript leaves a correction as it was. *)
LEMMA SinceAppend ==
    ASSUME NEW s, NEW u, NEW t \in Turn, s.history \in Seq(Turn),
           u.history = Append(s.history, t),
           NEW k \in SlotKeys, u.slots[k] = s.slots[k],
           NEW i \in Nat, SinceCorrection(s, k, i)
    PROVE  SinceCorrection(u, k, i)
<1>1. Explicit(s.slots, k) => Explicit(u.slots, k)
  BY DEF Explicit
<1>2. \A j \in i + 1 .. Len(s.history) :
        j \in i + 1 .. Len(u.history) /\ u.history[j] = s.history[j]
  OBVIOUS
<1>3. QED
  BY <1>1, <1>2 DEF SinceCorrection

(* The slots after a turn: those before it with what the turn brought.      *)
Folded(s, next) ==
    LET extracted == BindAnswerToSlot(s.history, next.slots)
    IN  IF extracted # NoSlots \/ next.open # {}
        THEN MergeSlots(s.slots, extracted)
        ELSE s.slots

(* A turn leaves a slot as it was or gives it a value of that turn, and     *)
(* what was stated stays stated.                                            *)
LEMMA FoldedOK ==
    ASSUME NEW s \in Session, NEW next, DecisionOK(next)
    PROVE  /\ Folded(s, next) \in SlotMap
           /\ \A k \in SlotKeys :
                /\ \/ Folded(s, next)[k] = s.slots[k]
                   \/ /\ Folded(s, next)[k] # Null
                      /\ Folded(s, next)[k].turn = Len(s.history)
                /\ Explicit(s.slots, k) => Explicit(Folded(s, next), k)
<1> DEFINE extracted == BindAnswerToSlot(s.history, next.slots)
           merged == MergeSlots(s.slots, extracted)
<1>1. s.history \in Seq(Turn) /\ s.slots \in SlotMap
  BY DEF Session
<1>2. /\ extracted \in SlotMap
      /\ \A k \in SlotKeys : extracted[k] # Null => extracted[k].turn = Len(s.history)
  BY <1>1, BindType DEF DecisionOK
<1>3. Folded(s, next) \in {s.slots, merged}
  BY DEF Folded
<1> HIDE DEF extracted
<1>4. /\ merged \in SlotMap
      /\ \A k \in SlotKeys :
           /\ merged[k] \in {s.slots[k], extracted[k]}
           /\ merged[k] # s.slots[k] => extracted[k] # Null
           /\ Explicit(s.slots, k) => Explicit(merged, k)
  BY <1>1, <1>2, MergeKeepsStated
<1> HIDE DEF merged
<1>5. QED
  BY <1>1, <1>2, <1>3, <1>4

(* Whatever the model replies, one turn leads from a row that has just      *)
(* received an answer to a row with all its facts.                          *)
LEMMA AdvanceOK ==
    ASSUME NEW s \in Session, NEW reply \in Reply \cup {Null}, AnswerOK(s)
    PROVE  Advance(s, reply) \in Session /\ RowOK(Advance(s, reply))
<1> DEFINE next == DecideNext(s, reply)
           extracted == BindAnswerToSlot(s.history, next.slots)
           folds == extracted # NoSlots \/ next.open # {}
           slots == Folded(s, next)
           open == IF folds
                   THEN ReconcileOpenQuestions(s.open, next.open, slots)
                   ELSE s.open
           t == Advance(s, reply)
<1>1. DecisionOK(next) /\ (~next.done => Len(s.history) < MaxQuestions)
  BY DecideNextOK
<1>2. slots = IF folds THEN MergeSlots(s.slots, extracted) ELSE s.slots
  BY DEF Folded
<1>3. /\ slots \in SlotMap
      /\ \A k \in SlotKeys :
           /\ \/ slots[k] = s.slots[k]
              \/ slots[k] # Null /\ slots[k].turn = Len(s.history)
           /\ Explicit(s.slots, k) => Explicit(slots, k)
  BY <1>1, FoldedOK
<1>4. /\ open \subseteq SlotKeys
      /\ \A k \in open : ~(Explicit(slots, k) /\ ~slots[k].na)
  BY <1>1, <1>2 DEF ReconcileOpenQuestions, AnswerOK, OpenAreUnanswered, DecisionOK,
     Session
<1> HIDE DEF folds, slots, open, extracted
<1>5. t = [s EXCEPT
            !.coverage = next.coverage,
            !.slots = slots,
            !.open = open,
            !.status = IF next.done THEN "awaiting_confirmation" ELSE @,
            !.summary = IF next.done THEN slots ELSE @,
            !.pending = next.question]
  BY <1>2 DEF Advance, BuildSummary, folds, open, extracted
<1> HIDE DEF next, t
<1>6. /\ t.history = s.history /\ t.slots = slots /\ t.open = open
      /\ t.coverage = next.coverage /\ t.pending = next.question
      /\ t.extended = s.extended /\ t.language = s.language
      /\ t.status = IF next.done THEN "awaiting_confirmation" ELSE s.status
      /\ t.summary = IF next.done THEN slots ELSE s.summary
      /\ t \in Session
  BY <1>1, <1>3, <1>4, <1>5 DEF Session, DecisionOK
<1>7. QuestionIffCollecting(t)
  BY <1>1, <1>6 DEF QuestionIffCollecting, DecisionOK, AnswerOK
<1>8. AskedWithinCap(t)
  <2>1. /\ Cardinality(AskedTurns(s.history)) \in Nat
        /\ Cardinality(AskedTurns(s.history)) <= Len(s.history)
        /\ Len(s.history) \in Nat
    BY AskedBound DEF Session
  <2>2. MaxQuestions \in Nat
    BY ConstantsAssumption
  <2>3. QED
    BY <1>1, <1>6, <2>1, <2>2 DEF AskedWithinCap, DecisionOK, AnswerOK
<1>9. CorrectionsHold(t)
  <2>1. SUFFICES ASSUME NEW i \in DOMAIN s.history,
                        s.history[i].kind = "correction"
                 PROVE  /\ s.history[i].slot \in SlotKeys
                        /\ SinceCorrection(t, s.history[i].slot, i)
    BY <1>6 DEF CorrectionsHold
  <2> DEFINE k == s.history[i].slot
             n == Len(s.history)
  <2>2. k \in SlotKeys /\ SinceCorrection(s, k, i)
    BY <2>1 DEF AnswerOK, CorrectionsHold
  <2>3. n \in Nat /\ i \in 1 .. n
    BY DEF Session
  <2>4. Explicit(s.slots, k)
    BY <2>2, <2>3, StatedType DEF SinceCorrection, Explicit
  <2> HIDE DEF k
  <2>5. ASSUME slots[k] = s.slots[k] PROVE SinceCorrection(t, k, i)
    BY <1>6, <2>2, <2>5 DEF SinceCorrection, Explicit
  <2>6. ASSUME slots[k].turn = n PROVE SinceCorrection(t, k, i)
    <3>1. s.slots # NoSlots
      BY <2>2, <2>4 DEF Explicit, NoSlots
    <3>2. s.history[n].kind = "asked"
      BY <3>1 DEF AnswerOK
    <3>3. n \in i + 1 .. n
      BY <2>1, <2>3, <3>2
    <3>4. Explicit(slots, k)
      BY <1>3, <2>2, <2>4
    <3>5. QED
      BY <1>6, <2>2, <2>6, <3>2, <3>3, <3>4 DEF SinceCorrection
  <2>7. QED
    BY <1>3, <2>2, <2>5, <2>6 DEF k
<1>10. OpenAreUnanswered(t)
  BY <1>4, <1>6 DEF OpenAreUnanswered
<1>11. GateIsComplete(t)
  <2>1. slots # Null
    BY <1>3, NullAssumption
  <2>2. QED
    BY <1>1, <1>6, <2>1 DEF GateIsComplete, DecisionOK, AnswerOK
<1>12. ChoicesPinned(t)
  BY <1>6 DEF ChoicesPinned, AnswerOK
<1>13. TakenBefore(t, Len(t.history))
  <2>1. s.history \in Seq(Turn) /\ Len(s.history) \in Nat /\ s.slots \in SlotMap
    BY DEF Session
  <2>2. \A k \in SlotKeys : s.slots[k] # Null => s.slots[k].turn <= Len(s.history)
    <3>1. CASE s.slots = NoSlots
      BY <3>1 DEF NoSlots
    <3>2. CASE TakenBefore(s, Len(s.history) - 1)
      BY <2>1, <3>2 DEF TakenBefore, SlotMap, SlotValue
    <3>3. QED
      BY <3>1, <3>2 DEF AnswerOK
  <2>3. QED
    BY <1>3, <1>6, <2>1, <2>2 DEF TakenBefore
<1>14. QED
  BY <1>6, <1>7, <1>8, <1>9, <1>10, <1>11, <1>12, <1>13 DEF RowOK, t

-----------------------------------------------------------------------------
(* The inductive invariant                                                  *)

(* Before the project exists there is nothing to violate. *)
LEMMA InitIInv == Init => IInv
BY DEF Init, IInv, TypeOK, Exists

(* A request taken in keeps a copy; the row and the other requests stay. *)
LEMMA ReceiveIInv ==
    ASSUME IInv, NEW h \in Handlers,
           NEW op \in {"answer", "confirm", "edit", "update"},
           NEW s \in Session, Receive(h, op, s), UNCHANGED row,
           IF op = "answer" THEN AnswerOK(s) ELSE RowOK(s)
    PROVE  IInv'
<1> DEFINE r == [op |-> op, row |-> s]
<1>1. r \in Request /\ r # Null => RequestOK(r)
  BY DEF Request, RequestOK
<1>2. r \in Request
  BY DEF Request
<1>3. /\ req' = [req EXCEPT ![h] = r]
      /\ req \in [Handlers -> Request \cup {Null}]
  BY DEF Receive, IInv, TypeOK
<1> HIDE DEF r
<1>4. TypeOK'
  BY <1>2, <1>3 DEF TypeOK, IInv
<1>5. (Exists => RowOK(row))'
  BY DEF IInv, Exists
<1>6. ASSUME NEW g \in Handlers, req'[g] # Null
      PROVE  RequestOK(req'[g])
  BY <1>1, <1>2, <1>3, <1>6 DEF IInv
<1>7. QED
  BY <1>4, <1>5, <1>6 DEF IInv

(* A copy saved is a row with its facts    , or the row is gone. *)
LEMMA SaveIInv ==
    ASSUME IInv, NEW h \in Handlers, NEW s \in Session, RowOK(s), Save(h, s)
    PROVE  IInv'
<1>1. /\ row' = IF row = Deleted THEN Deleted ELSE s
      /\ req' = [req EXCEPT ![h] = Null]
      /\ req \in [Handlers -> Request \cup {Null}]
  BY DEF Save, IInv, TypeOK
<1>2. TypeOK'
  BY <1>1 DEF TypeOK
<1>3. (Exists => RowOK(row))'
  BY <1>1 DEF Exists
<1>4. ASSUME NEW g \in Handlers, req'[g] # Null
      PROVE  RequestOK(req'[g])
  BY <1>1, <1>4 DEF IInv
<1>5. QED
  BY <1>2, <1>3, <1>4 DEF IInv

(* An answer: the pending question becomes a turn, within the cap. *)
LEMMA AnswerIInv ==
    ASSUME IInv, NEW h \in Handlers, NEW usable \in BOOLEAN, Answer(h, usable)
    PROVE  IInv'
<1> DEFINE t == [kind |-> "asked", slot |-> row.pending.target, usable |-> usable]
           s == [row EXCEPT !.history = Append(@, t)]
<1>1. row \in Session /\ RowOK(row) /\ row.status = "collecting" /\ row.pending # Null
  BY DEF Answer, IInv, TypeOK, Exists
<1>2. t \in Turn /\ t.kind = "asked"
  BY <1>1 DEF Turn, Session, Question
<1>3. Receive(h, "answer", s) /\ UNCHANGED row
  BY DEF Answer
<1> HIDE DEF t
<1>4. /\ s \in Session /\ s.history = Append(row.history, t)
      /\ s.status = row.status /\ s.slots = row.slots /\ s.open = row.open
      /\ row.history \in Seq(Turn)
  <2>1. row.history \in Seq(Turn)
    BY <1>1 DEF Session
  <2>2. Append(row.history, t) \in Seq(Turn)
    BY <1>2, <2>1
  <2>3. s = [row EXCEPT !.history = Append(row.history, t)]
    OBVIOUS
  <2> HIDE DEF s
  <2> QED
    BY <1>1, <2>1, <2>2, <2>3 DEF Session
<1> HIDE DEF s
<1>5. Cardinality(AskedTurns(s.history)) <= MaxQuestions
  <2>1. Cardinality(AskedTurns(s.history)) = Cardinality(AskedTurns(row.history)) + 1
    BY <1>2, <1>4, AskedAppend
  <2>2. Cardinality(AskedTurns(row.history)) + 1 <= MaxQuestions
    BY <1>1 DEF RowOK, AskedWithinCap
  <2>3. QED
    BY <2>1, <2>2
<1>6. CorrectionsHold(s)
  <2>1. SUFFICES ASSUME NEW i \in DOMAIN s.history,
                        s.history[i].kind = "correction"
                 PROVE  /\ s.history[i].slot \in SlotKeys
                        /\ SinceCorrection(s, s.history[i].slot, i)
    BY DEF CorrectionsHold
  <2>2. i # Len(row.history) + 1
    BY <1>2, <1>4, <2>1
  <2>3. i \in DOMAIN row.history /\ s.history[i] = row.history[i]
    BY <1>4, <2>2
  <2>4. /\ row.history[i].slot \in SlotKeys
        /\ SinceCorrection(row, row.history[i].slot, i)
    BY <1>1, <2>1, <2>3 DEF RowOK, CorrectionsHold
  <2>5. QED
    BY <1>2, <1>4, <2>3, <2>4, SinceAppend
<1>7. OpenAreUnanswered(s)
  BY <1>1, <1>4 DEF RowOK, OpenAreUnanswered
<1>8. AnswerOK(s)
  <2>1. /\ s.history # <<>> /\ s.history[Len(s.history)].kind = "asked"
        /\ Len(s.history) - 1 = Len(row.history)
    BY <1>2, <1>4
  <2>2. TakenBefore(s, Len(s.history) - 1)
    BY <1>1, <1>4, <2>1 DEF RowOK, TakenBefore
  <2>3. QED
    BY <1>1, <1>4, <1>5, <1>6, <1>7, <2>1, <2>2 DEF AnswerOK
<1>9. QED
  BY <1>3, <1>4, <1>8, ReceiveIInv

(* Confirming pins both choices to values that are not Null. *)
LEMMA ConfirmIInv ==
    ASSUME IInv, NEW h \in Handlers, Confirm(h)
    PROVE  IInv'
<1>1. row \in Session /\ RowOK(row) /\ row.status = "awaiting_confirmation"
  BY DEF Confirm, IInv, TypeOK, Exists
<1>2. PICK extended \in ResolvedExtended(row) :
        Receive(h, "confirm",
           [row EXCEPT !.status = "confirmed", !.extended = extended,
                       !.language = ResolvedLanguage(row)])
  BY DEF Confirm
<1>3. extended \in BOOLEAN
  BY <1>1, <1>2 DEF ResolvedExtended, Session
<1>4. ResolvedLanguage(row) \in Languages
  BY <1>1, ConstantsAssumption DEF ResolvedLanguage, Session
<1> DEFINE s == [row EXCEPT !.status = "confirmed", !.extended = extended,
                            !.language = ResolvedLanguage(row)]
<1>5. /\ s \in Session /\ s.status = "confirmed" /\ s.extended = extended
      /\ s.language = ResolvedLanguage(row)
      /\ s.history = row.history /\ s.slots = row.slots /\ s.open = row.open
      /\ s.pending = row.pending /\ s.coverage = row.coverage
      /\ s.summary = row.summary
  BY <1>1, <1>3, <1>4 DEF Session
<1>6. Receive(h, "confirm", s) /\ UNCHANGED row
  BY <1>2 DEF Confirm
<1> HIDE DEF s
<1>7. extended # Null /\ s.language # Null
  BY <1>3, <1>4, <1>5, NullAssumption
<1>8. RowOK(s)
  BY <1>1, <1>5, <1>7, SameCorrections DEF RowOK, QuestionIffCollecting, AskedWithinCap,
     TakenBefore, OpenAreUnanswered, GateIsComplete, ChoicesPinned
<1>9. QED
  BY <1>5, <1>6, <1>8, ReceiveIInv

(* A correction: one more turn, which is not a question, and a stated slot. *)
LEMMA EditSlotIInv ==
    ASSUME IInv, NEW h \in Handlers, NEW k \in SlotKeys, EditSlot(h, k)
    PROVE  IInv'
<1> DEFINE slots == [row.slots EXCEPT ![k] = Stated(Len(row.history) + 1)]
           t == [kind |-> "correction", slot |-> k, usable |-> TRUE]
           open == ReconcileOpenQuestions(row.open, {}, slots)
           s == [row EXCEPT !.history = Append(@, t), !.slots = slots, !.open = open]
<1>1. row \in Session /\ RowOK(row) /\ row.status # "confirmed"
  BY DEF EditSlot, IInv, TypeOK, Exists
<1>2. Receive(h, "edit", s) /\ UNCHANGED row
  BY DEF EditSlot
<1>3. t \in Turn /\ t.kind = "correction" /\ t.slot = k
  BY DEF Turn
<1> DEFINE n == Len(row.history) + 1
           v == Stated(n)
<1>4. /\ v \in SlotValue /\ v # Null /\ v.source = "explicit"
      /\ v.turn = n /\ n \in Nat
  <2>1. Len(row.history) \in Nat
    BY <1>1 DEF Session
  <2>2. QED
    BY <2>1, StatedType
<1> HIDE DEF v
<1>5. /\ slots \in SlotMap
      /\ slots[k] = v
      /\ \A j \in SlotKeys : j # k => slots[j] = row.slots[j]
  BY <1>1, <1>4 DEF SlotMap, Session, v
<1>6. /\ open \subseteq SlotKeys
      /\ \A j \in open : ~(Explicit(slots, j) /\ ~slots[j].na)
  BY <1>1 DEF ReconcileOpenQuestions, Session
<1> HIDE DEF slots, t, open
<1>7. /\ s \in Session /\ s.history = Append(row.history, t)
      /\ s.slots = slots /\ s.open = open /\ s.status = row.status
      /\ s.pending = row.pending /\ s.coverage = row.coverage
      /\ s.summary = row.summary /\ s.extended = row.extended
      /\ s.language = row.language /\ row.history \in Seq(Turn)
  <2>1. row.history \in Seq(Turn)
    BY <1>1 DEF Session
  <2>2. Append(row.history, t) \in Seq(Turn)
    BY <1>3, <2>1
  <2>3. s = [row EXCEPT !.history = Append(row.history, t), !.slots = slots,
                        !.open = open]
    OBVIOUS
  <2> HIDE DEF s
  <2> QED
    BY <1>1, <1>5, <1>6, <2>1, <2>2, <2>3 DEF Session
<1> HIDE DEF s
<1>8. AskedWithinCap(s)
  <2>1. Cardinality(AskedTurns(s.history)) = Cardinality(AskedTurns(row.history))
    BY <1>3, <1>7, AskedAppend, AskedBound
  <2>2. QED
    BY <1>1, <1>7, <2>1 DEF RowOK, AskedWithinCap
<1>9. CorrectionsHold(s)
  <2>1. SUFFICES ASSUME NEW i \in DOMAIN s.history,
                        s.history[i].kind = "correction"
                 PROVE  /\ s.history[i].slot \in SlotKeys
                        /\ SinceCorrection(s, s.history[i].slot, i)
    BY DEF CorrectionsHold
  <2>2. Len(s.history) = n /\ s.history[n] = t /\ s.history \in Seq(Turn)
    BY <1>3, <1>7
  <2>3. CASE i = n
    BY <1>3, <1>5, <1>7, <2>2, <2>3 DEF SinceCorrection, v
  <2>4. CASE i # n
    <3>1. i \in DOMAIN row.history /\ s.history[i] = row.history[i] /\ i \in Nat
      BY <1>7, <2>4
    <3> DEFINE j == row.history[i].slot
    <3>2. j \in SlotKeys /\ SinceCorrection(row, j, i)
      BY <1>1, <2>1, <3>1 DEF RowOK, CorrectionsHold
    <3>3. CASE j = k
      <4>1. n \in i + 1 .. Len(s.history)
        BY <1>7, <2>2, <3>1
      <4>2. QED
        BY <1>3, <1>4, <1>5, <1>7, <2>2, <3>1, <3>3, <4>1
           DEF SinceCorrection, Explicit
    <3>4. CASE j # k
      BY <1>3, <1>5, <1>7, <3>1, <3>2, <3>4, SinceAppend
    <3>5. QED
      BY <3>1, <3>2, <3>3, <3>4
  <2>5. QED
    BY <2>3, <2>4
<1>10. QuestionIffCollecting(s) /\ OpenAreUnanswered(s)
       /\ GateIsComplete(s) /\ ChoicesPinned(s)
  BY <1>1, <1>6, <1>7 DEF RowOK, QuestionIffCollecting, OpenAreUnanswered,
     GateIsComplete, ChoicesPinned
<1>11. TakenBefore(s, Len(s.history))
  <2>1. Len(s.history) = n /\ Len(row.history) \in Nat
    BY <1>3, <1>7
  <2>2. TakenBefore(row, Len(row.history)) /\ row.slots \in SlotMap
    BY <1>1 DEF RowOK, Session
  <2>3. \A j \in SlotKeys : row.slots[j] # Null => row.slots[j].turn <= n
    BY <2>1, <2>2 DEF TakenBefore, SlotMap, SlotValue
  <2>4. QED
    BY <1>4, <1>5, <1>7, <2>1, <2>3 DEF TakenBefore
<1>12. RowOK(s)
  BY <1>8, <1>9, <1>10, <1>11 DEF RowOK
<1>13. QED
  BY <1>2, <1>7, <1>12, ReceiveIInv

(* A label patch leaves the facts alone: it sets a choice or keeps it. *)
LEMMA UpdateIInv ==
    ASSUME IInv, NEW h \in Handlers, NEW extended \in BOOLEAN \cup {Null},
           NEW language \in Languages \cup {Null}, Update(h, extended, language)
    PROVE  IInv'
<1> DEFINE e == IF extended = Null THEN row.extended ELSE extended
           l == IF language = Null THEN row.language ELSE language
           s == [row EXCEPT !.extended = e, !.language = l]
<1>1. row \in Session /\ RowOK(row)
  BY DEF Update, IInv, TypeOK, Exists
<1>2. Receive(h, "update", s) /\ UNCHANGED row
  BY DEF Update
<1>3. /\ e \in BOOLEAN \cup {Null} /\ l \in Languages \cup {Null}
      /\ row.extended # Null => e # Null
      /\ row.language # Null => l # Null
  BY <1>1 DEF Session
<1> HIDE DEF e, l
<1>4. /\ s \in Session /\ s.extended = e /\ s.language = l
      /\ s.status = row.status /\ s.history = row.history
      /\ s.slots = row.slots /\ s.open = row.open
      /\ s.pending = row.pending /\ s.coverage = row.coverage
      /\ s.summary = row.summary
  BY <1>1, <1>3 DEF Session
<1> HIDE DEF s
<1>5. RowOK(s)
  BY <1>1, <1>3, <1>4, SameCorrections DEF RowOK, QuestionIffCollecting, AskedWithinCap,
     TakenBefore, OpenAreUnanswered, GateIsComplete, ChoicesPinned
<1>6. QED
  BY <1>2, <1>4, <1>5, ReceiveIInv

(* The first turn of a new project, with or without call notes. *)
LEMMA StartIInv ==
    ASSUME IInv, NEW reply \in Reply \cup {Null}, Start(reply)
    PROVE  IInv' /\ row' \in Session
<1> DEFINE note == [kind |-> "notes", slot |-> Null, usable |-> TRUE]
<1>1. PICK history \in {<<>>, <<note>>} : row' = Advance(NewSession(history), reply)
  BY DEF Start
<1>2. note \in Turn /\ note.kind = "notes"
  BY DEF Turn
<1> HIDE DEF note
<1>3. history \in Seq(Turn)
  <2>1. <<>> \in Seq(Turn) /\ <<note>> \in Seq(Turn)
    BY <1>2
  <2>2. QED
    BY <1>1, <2>1
<1>4. \A i \in DOMAIN history : history[i].kind = "notes"
  BY <1>1, <1>2
<1> DEFINE s == NewSession(history)
<1>5. s \in Session /\ s.status = "collecting" /\ s.history = history /\ s.open = {}
      /\ s.slots = NoSlots
  BY <1>3, NoSlotsType DEF NewSession, Session
<1> HIDE DEF s
<1>6. AnswerOK(s)
  <2>1. AskedTurns(history) = {}
    BY <1>4 DEF AskedTurns
  <2>2. Cardinality(AskedTurns(s.history)) <= MaxQuestions
    BY <1>5, <2>1, FS_EmptySet, ConstantsAssumption
  <2>3. QED
    BY <1>4, <1>5, <2>2 DEF AnswerOK, CorrectionsHold, OpenAreUnanswered
<1>7. row' \in Session /\ RowOK(row')
  BY <1>1, <1>5, <1>6, AdvanceOK DEF s
<1>8. UNCHANGED req
  BY DEF Start
<1>9. QED
  BY <1>7, <1>8 DEF IInv, TypeOK, Exists

(* Every step keeps the invariant. *)
LEMMA NextIInv == IInv /\ [Next]_vars => IInv'
<1> SUFFICES ASSUME IInv, [Next]_vars PROVE IInv'
  OBVIOUS
<1>1. ASSUME NEW reply \in Reply \cup {Null}, Start(reply) PROVE IInv'
  BY <1>1, StartIInv
<1>2. CASE Delete
  BY <1>2 DEF Delete, IInv, TypeOK, Exists
<1>3. ASSUME NEW h \in Handlers, NEW usable \in BOOLEAN, Answer(h, usable)
      PROVE  IInv'
  BY <1>3, AnswerIInv
<1>4. ASSUME NEW h \in Handlers, Confirm(h) PROVE IInv'
  BY <1>4, ConfirmIInv
<1>5. ASSUME NEW h \in Handlers, NEW k \in SlotKeys, EditSlot(h, k) PROVE IInv'
  BY <1>5, EditSlotIInv
<1>6. ASSUME NEW h \in Handlers, NEW extended \in BOOLEAN \cup {Null},
             NEW language \in Languages \cup {Null}, Update(h, extended, language)
      PROVE  IInv'
  BY <1>6, UpdateIInv
<1>7. ASSUME NEW h \in Handlers, NEW reply \in Reply \cup {Null}, SaveAnswer(h, reply)
      PROVE  IInv'
  <2>1. req[h] \in Request /\ req[h].row \in Session /\ AnswerOK(req[h].row)
    BY <1>7 DEF SaveAnswer, IInv, TypeOK, Request, RequestOK
  <2>2. /\ Advance(req[h].row, reply) \in Session
        /\ RowOK(Advance(req[h].row, reply))
    BY <2>1, AdvanceOK
  <2>3. Save(h, Advance(req[h].row, reply))
    BY <1>7 DEF SaveAnswer
  <2>4. QED
    BY <2>2, <2>3, SaveIInv
<1>8. ASSUME NEW h \in Handlers, SaveOther(h) PROVE IInv'
  <2>1. req[h].row \in Session /\ RowOK(req[h].row)
    BY <1>8 DEF SaveOther, IInv, TypeOK, Request, RequestOK
  <2>2. QED
    BY <1>8, <2>1, SaveIInv DEF SaveOther
<1>9. CASE UNCHANGED vars
  BY <1>9 DEF vars, IInv, TypeOK, Exists
<1>10. QED
  BY <1>1, <1>2, <1>3, <1>4, <1>5, <1>6, <1>7, <1>8, <1>9 DEF Next

(* The invariant holds in every reachable state. *)
LEMMA Invariance == Spec => []IInv
BY InitIInv, NextIInv, PTL DEF Spec

-----------------------------------------------------------------------------
(* Results                                                                  *)

(* The row and the requests in flight always have their types. *)
THEOREM TypeCorrect == Spec => []TypeOK
<1>1. IInv => TypeOK
  BY DEF IInv
<1>2. QED
  BY <1>1, Invariance, PTL

(* Whatever requests interleave, the stored row is one the interview could  *)
(* be in: never stuck, within the cap, with its corrections, its questions  *)
(* reconciled, its gate complete and its choices pinned.                    *)
THEOREM ConsistentRow == Spec => []RowConsistent
<1>1. IInv => RowConsistent
  BY DEF IInv, RowOK, RowConsistent, NeverStuck, CapKept, CorrectionsKept,
         OpenQuestionsReconciled, GateComplete, ConfirmPins
<1>2. QED
  BY <1>1, Invariance, PTL

(* The interviewer never asks more than MaxQuestions questions. *)
THEOREM QuestionCap == Spec => []CapKept
<1>1. RowConsistent => CapKept
  BY DEF RowConsistent
<1>2. QED
  BY <1>1, ConsistentRow, PTL

(* A correction is what its slot holds until something is stated after it,  *)
(* whatever the model extracts and however requests interleave.             *)
THEOREM CorrectionsNeverLost == Spec => []CorrectionsKept
<1>1. RowConsistent => CorrectionsKept
  BY DEF RowConsistent
<1>2. QED
  BY <1>1, ConsistentRow, PTL

(* The owner can always go on: a question is pending exactly while answers  *)
(* are collected.                                                           *)
THEOREM NeverStuckHolds == Spec => []NeverStuck
<1>1. RowConsistent => NeverStuck
  BY DEF RowConsistent
<1>2. QED
  BY <1>1, ConsistentRow, PTL

(* No question forwarded to the client is about a slot somebody stated. *)
THEOREM QuestionsReconciled == Spec => []OpenQuestionsReconciled
<1>1. RowConsistent => OpenQuestionsReconciled
  BY DEF RowConsistent
<1>2. QED
  BY <1>1, ConsistentRow, PTL

(* Past "collecting" the row has the coverage and the summary the gate      *)
(* promises.                                                                *)
THEOREM GateSound == Spec => []GateComplete
<1>1. RowConsistent => GateComplete
  BY DEF RowConsistent
<1>2. QED
  BY <1>1, ConsistentRow, PTL

(* A confirmed interview has both choices it was confirmed with, whatever   *)
(* answers and corrections came between (confirm()).                        *)
THEOREM ConfirmSound == Spec => []ConfirmPins
<1>1. RowConsistent => ConfirmPins
  BY DEF RowConsistent
<1>2. QED
  BY <1>1, ConsistentRow, PTL

-----------------------------------------------------------------------------
(* One request at a time                                                    *)

(* With one handler there is never a request in flight beside another.      *)
OneAtATime == \A g, h \in Handlers : g = h

(* What was stated in "a" is in "b", or was stated at a later turn.         *)
StatementsIn(a, b) ==
    \A k \in SlotKeys : Explicit(a, k) =>
        /\ Explicit(b, k)
        /\ b[k] = a[k] \/ b[k].turn > a[k].turn

(* What "t" keeps of "s": every turn, what was stated, what was chosen.     *)
Keeps(s, t) ==
    /\ Len(t.history) >= Len(s.history)
    /\ SubSeq(t.history, 1, Len(s.history)) = s.history
    /\ StatementsIn(s.slots, t.slots)
    /\ s.extended # Null => t.extended # Null
    /\ s.language # Null => t.language # Null

(* ... and of a locked interview, all that is locked. *)
KeepsLocked(s, t) ==
    s.status = "confirmed" =>
        /\ t.status = "confirmed"
        /\ t.history = s.history
        /\ t.slots = s.slots
        /\ t.summary = s.summary

(* The copy in flight was made from the row that is still stored, and only  *)
(* an interview being answered has an answer in flight.                     *)
Follows ==
    \A h \in Handlers : req[h] # Null =>
        /\ row # Null
        /\ Exists => /\ Keeps(row, req[h].row)
                     /\ KeepsLocked(row, req[h].row)
                     /\ req[h].op = "answer" => row.status # "confirmed"

(* What no step takes from a stored session. *)
Onward == Exists /\ row' # Deleted => Keeps(row, row') /\ KeepsLocked(row, row')

(* A transcript is kept by itself and by one turn more. *)
LEMMA TranscriptKept ==
    ASSUME NEW s \in Seq(Turn), NEW t \in Turn
    PROVE  /\ Len(s) >= Len(s) /\ SubSeq(s, 1, Len(s)) = s
           /\ Len(Append(s, t)) >= Len(s)
           /\ SubSeq(Append(s, t), 1, Len(s)) = s
OBVIOUS

(* A session keeps what it holds. *)
LEMMA KeepsItself ==
    ASSUME NEW s \in Session
    PROVE  Keeps(s, s) /\ KeepsLocked(s, s)
<1>1. s.history \in Seq(Turn)
  BY DEF Session
<1>2. Len(s.history) >= Len(s.history)
      /\ SubSeq(s.history, 1, Len(s.history)) = s.history
  BY <1>1
<1>3. QED
  BY <1>2 DEF Keeps, KeepsLocked, StatementsIn

(* One turn of the interviewer takes nothing away. *)
LEMMA AdvanceKeeps ==
    ASSUME NEW s \in Session, NEW t \in Session, Keeps(s, t), AnswerOK(t),
           NEW reply \in Reply \cup {Null}
    PROVE  Keeps(s, Advance(t, reply))
<1> DEFINE slots == Folded(t, DecideNext(t, reply))
           n == Len(t.history)
           u == Advance(t, reply)
<1>1. /\ slots \in SlotMap
      /\ \A k \in SlotKeys :
           /\ slots[k] = t.slots[k] \/ slots[k].turn = n
           /\ Explicit(t.slots, k) => Explicit(slots, k)
  BY DecideNextOK, FoldedOK
<1>2. /\ u.history = t.history /\ u.slots = slots
      /\ u.extended = t.extended /\ u.language = t.language
  BY DEF Advance, Folded, Session
<1>3. n \in Nat /\ s.slots \in SlotMap /\ t.slots \in SlotMap
  BY DEF Session
<1> HIDE DEF slots, u
<1>4. ASSUME NEW k \in SlotKeys, Explicit(s.slots, k)
      PROVE  Explicit(slots, k) /\ (slots[k] = s.slots[k] \/ slots[k].turn > s.slots[k].turn)
  <2>1. /\ Explicit(t.slots, k)
        /\ t.slots[k] = s.slots[k] \/ t.slots[k].turn > s.slots[k].turn
    BY <1>4 DEF Keeps, StatementsIn
  <2>2. t.slots # NoSlots
    BY <2>1 DEF Explicit, NoSlots
  <2>3. t.slots[k].turn <= n - 1
    BY <2>1, <2>2 DEF AnswerOK, TakenBefore, Explicit
  <2>4. s.slots[k].turn \in Nat /\ t.slots[k].turn \in Nat
    BY <1>3, <1>4, <2>1 DEF Explicit, SlotMap, SlotValue
  <2>5. QED
    BY <1>1, <1>3, <2>1, <2>3, <2>4
<1>5. StatementsIn(s.slots, u.slots)
  BY <1>2, <1>4 DEF StatementsIn
<1>6. QED
  BY <1>2, <1>5 DEF Keeps, u

(* A request taken in follows the row it read. *)
LEMMA ReceiveFollows ==
    ASSUME IInv, Follows, Exists, NEW h \in Handlers,
           NEW op \in {"answer", "confirm", "edit", "update"}, NEW s \in Session,
           Receive(h, op, s), UNCHANGED row, Keeps(row, s), KeepsLocked(row, s),
           op = "answer" => row.status # "confirmed"
    PROVE  Follows' /\ Onward
<1>1. /\ req' = [req EXCEPT ![h] = [op |-> op, row |-> s]]
      /\ req \in [Handlers -> Request \cup {Null}]
      /\ row \in Session /\ row # Null
  BY DEF Receive, IInv, TypeOK, Exists
<1>2. Keeps(row, row) /\ KeepsLocked(row, row)
  BY <1>1, KeepsItself
<1>3. ASSUME NEW g \in Handlers, req'[g] # Null
      PROVE  /\ row # Null
             /\ Exists => /\ Keeps(row, req'[g].row)
                          /\ KeepsLocked(row, req'[g].row)
                          /\ req'[g].op = "answer" => row.status # "confirmed"
  <2>1. CASE g = h
    BY <1>1, <2>1
  <2>2. CASE g # h
    BY <1>1, <1>3, <2>2 DEF Follows
  <2>3. QED
    BY <2>1, <2>2
<1>4. Follows'
  BY <1>3 DEF Follows, Exists
<1>5. QED
  BY <1>2, <1>4 DEF Onward

(* A copy saved ends the only request there is, and keeps what the row held. *)
LEMMA SaveFollows ==
    ASSUME OneAtATime, IInv, NEW h \in Handlers, NEW s,
           Save(h, s), Exists => Keeps(row, s) /\ KeepsLocked(row, s)
    PROVE  Follows' /\ Onward
<1>1. /\ row' = IF row = Deleted THEN Deleted ELSE s
      /\ req' = [req EXCEPT ![h] = Null]
      /\ req \in [Handlers -> Request \cup {Null}]
  BY DEF Save, IInv, TypeOK
<1>2. \A g \in Handlers : req'[g] = Null
  BY <1>1 DEF OneAtATime
<1>3. QED
  BY <1>1, <1>2 DEF Follows, Onward, Exists

(* Every step of a session served one request at a time. *)
LEMMA NextFollows ==
    ASSUME OneAtATime
    PROVE  IInv /\ Follows /\ [Next]_vars => Follows' /\ Onward
<1> SUFFICES ASSUME IInv, Follows, [Next]_vars PROVE Follows' /\ Onward
  OBVIOUS
<1> USE DEF IInv
<1>1. ASSUME NEW reply \in Reply \cup {Null}, Start(reply)
      PROVE  Follows' /\ Onward
  <2>1. row = Null /\ UNCHANGED req
    BY <1>1 DEF Start
  <2>2. \A h \in Handlers : req[h] = Null
    BY <2>1 DEF Follows
  <2>3. QED
    BY <2>1, <2>2 DEF Follows, Onward, Exists
<1>2. CASE Delete
  <2>1. row # Null /\ row' = Deleted /\ UNCHANGED req
    BY <1>2 DEF Delete, Exists
  <2>2. row' # Null
    BY <2>1, NullAssumption
  <2>3. QED
    BY <2>1, <2>2 DEF Follows, Onward, Exists
<1>3. ASSUME NEW h \in Handlers, NEW usable \in BOOLEAN, Answer(h, usable)
      PROVE  Follows' /\ Onward
  <2> DEFINE t == [kind |-> "asked", slot |-> row.pending.target, usable |-> usable]
             s == [row EXCEPT !.history = Append(@, t)]
  <2>1. row \in Session /\ Exists /\ row.status = "collecting" /\ row.pending # Null
    BY <1>3 DEF Answer, TypeOK, Exists
  <2>2. t \in Turn /\ row.history \in Seq(Turn)
    BY <2>1 DEF Turn, Session, Question
  <2>3. Receive(h, "answer", s) /\ UNCHANGED row
    BY <1>3 DEF Answer
  <2> HIDE DEF t
  <2>4. /\ s \in Session /\ s.history = Append(row.history, t)
        /\ s.slots = row.slots /\ s.extended = row.extended
        /\ s.language = row.language
    <3>1. Append(row.history, t) \in Seq(Turn)
      BY <2>2
    <3>2. s = [row EXCEPT !.history = Append(row.history, t)]
      OBVIOUS
    <3> HIDE DEF s
    <3>3. QED
      BY <2>1, <3>1, <3>2 DEF Session
  <2> HIDE DEF s
  <2>5. Keeps(row, s) /\ KeepsLocked(row, s)
    BY <2>1, <2>2, <2>4, TranscriptKept DEF Keeps, KeepsLocked, StatementsIn
  <2>6. QED
    BY <2>1, <2>3, <2>4, <2>5, ReceiveFollows
<1>4. ASSUME NEW h \in Handlers, Confirm(h) PROVE Follows' /\ Onward
  <2>1. row \in Session /\ Exists /\ row.status = "awaiting_confirmation"
    BY <1>4 DEF Confirm, TypeOK, Exists
  <2>2. PICK e \in ResolvedExtended(row) :
          Receive(h, "confirm",
             [row EXCEPT !.status = "confirmed", !.extended = e,
                         !.language = ResolvedLanguage(row)])
    BY <1>4 DEF Confirm
  <2>3. e \in BOOLEAN /\ ResolvedLanguage(row) \in Languages
    BY <2>1, <2>2, ConstantsAssumption DEF ResolvedExtended, ResolvedLanguage, Session
  <2> DEFINE s == [row EXCEPT !.status = "confirmed", !.extended = e,
                              !.language = ResolvedLanguage(row)]
  <2>4. /\ s \in Session /\ s.history = row.history /\ s.slots = row.slots
        /\ s.extended # Null /\ s.language # Null
    BY <2>1, <2>3, NullAssumption DEF Session
  <2>5. Receive(h, "confirm", s) /\ UNCHANGED row
    BY <1>4, <2>2 DEF Confirm
  <2> HIDE DEF s
  <2>6. Keeps(row, s) /\ KeepsLocked(row, s)
    BY <2>1, <2>4, KeepsItself DEF Keeps, KeepsLocked
  <2>7. QED
    BY <2>1, <2>4, <2>5, <2>6, ReceiveFollows
<1>5. ASSUME NEW h \in Handlers, NEW k \in SlotKeys, EditSlot(h, k)
      PROVE  Follows' /\ Onward
  <2> DEFINE slots == [row.slots EXCEPT ![k] = Stated(Len(row.history) + 1)]
             t == [kind |-> "correction", slot |-> k, usable |-> TRUE]
             open == ReconcileOpenQuestions(row.open, {}, slots)
             s == [row EXCEPT !.history = Append(@, t), !.slots = slots, !.open = open]
  <2>1. row \in Session /\ Exists /\ row.status # "confirmed"
    BY <1>5 DEF EditSlot, TypeOK, Exists
  <2>2. Receive(h, "edit", s) /\ UNCHANGED row
    BY <1>5 DEF EditSlot
  <2>3. t \in Turn /\ row.history \in Seq(Turn)
    BY <2>1 DEF Turn, Session
  <2> DEFINE n == Len(row.history) + 1
             v == Stated(n)
  <2>4. /\ v \in SlotValue /\ v # Null /\ v.source = "explicit"
        /\ v.turn = n /\ Len(row.history) \in Nat
    <3>1. Len(row.history) \in Nat
      BY <2>3
    <3>2. QED
      BY <3>1, StatedType
  <2> HIDE DEF v
  <2>5. /\ slots \in SlotMap
        /\ StatementsIn(row.slots, slots)
    <3>1. /\ slots \in SlotMap /\ slots[k] = v
          /\ \A j \in SlotKeys : j # k => slots[j] = row.slots[j]
      BY <2>1, <2>4 DEF SlotMap, Session, v
    <3>2. row.slots[k] # Null => row.slots[k].turn <= Len(row.history)
                                 /\ row.slots[k].turn \in Nat
      BY <2>1 DEF RowOK, TakenBefore, Session, SlotMap, SlotValue
    <3>3. QED
      BY <2>4, <3>1, <3>2 DEF StatementsIn, Explicit
  <2>6. open \subseteq SlotKeys
    BY <2>1 DEF ReconcileOpenQuestions, Session
  <2> HIDE DEF slots, t, open
  <2>7. /\ s \in Session /\ s.history = Append(row.history, t)
        /\ s.slots = slots /\ s.extended = row.extended
        /\ s.language = row.language
    <3>1. Append(row.history, t) \in Seq(Turn)
      BY <2>3
    <3>2. s = [row EXCEPT !.history = Append(row.history, t), !.slots = slots,
                          !.open = open]
      OBVIOUS
    <3> HIDE DEF s
    <3>3. QED
      BY <2>1, <2>5, <2>6, <3>1, <3>2 DEF Session
  <2> HIDE DEF s
  <2>8. Keeps(row, s) /\ KeepsLocked(row, s)
    BY <2>1, <2>3, <2>5, <2>7, TranscriptKept DEF Keeps, KeepsLocked
  <2>9. QED
    BY <2>1, <2>2, <2>7, <2>8, ReceiveFollows
<1>6. ASSUME NEW h \in Handlers, NEW extended \in BOOLEAN \cup {Null},
             NEW language \in Languages \cup {Null}, Update(h, extended, language)
      PROVE  Follows' /\ Onward
  <2> DEFINE e == IF extended = Null THEN row.extended ELSE extended
             l == IF language = Null THEN row.language ELSE language
             s == [row EXCEPT !.extended = e, !.language = l]
  <2>1. row \in Session /\ Exists
    BY <1>6 DEF Update, TypeOK, Exists
  <2>2. Receive(h, "update", s) /\ UNCHANGED row
    BY <1>6 DEF Update
  <2>3. /\ e \in BOOLEAN \cup {Null} /\ l \in Languages \cup {Null}
        /\ row.extended # Null => e # Null
        /\ row.language # Null => l # Null
    BY <2>1 DEF Session
  <2> HIDE DEF e, l
  <2>4. /\ s \in Session /\ s.extended = e /\ s.language = l
        /\ s.status = row.status /\ s.history = row.history
        /\ s.slots = row.slots /\ s.summary = row.summary
    BY <2>1, <2>3 DEF Session
  <2> HIDE DEF s
  <2>5. Keeps(row, s) /\ KeepsLocked(row, s)
    BY <2>1, <2>3, <2>4, KeepsItself DEF Keeps, KeepsLocked
  <2>6. QED
    BY <2>1, <2>2, <2>4, <2>5, ReceiveFollows
<1>7. ASSUME NEW h \in Handlers, NEW reply \in Reply \cup {Null}, SaveAnswer(h, reply)
      PROVE  Follows' /\ Onward
  <2>1. /\ req[h] # Null /\ req[h].op = "answer" /\ req[h].row \in Session
        /\ Save(h, Advance(req[h].row, reply)) /\ AnswerOK(req[h].row)
    BY <1>7 DEF SaveAnswer, TypeOK, Request, RequestOK
  <2>2. ASSUME Exists
        PROVE  /\ Keeps(row, Advance(req[h].row, reply))
               /\ KeepsLocked(row, Advance(req[h].row, reply))
    <3>1. /\ row \in Session /\ Keeps(row, req[h].row)
          /\ row.status # "confirmed"
      BY <2>1, <2>2 DEF Follows, TypeOK, Exists
    <3>2. QED
      BY <2>1, <3>1, AdvanceKeeps DEF KeepsLocked
  <2>3. QED
    BY <2>1, <2>2, SaveFollows
<1>8. ASSUME NEW h \in Handlers, SaveOther(h) PROVE Follows' /\ Onward
  <2>1. /\ Save(h, req[h].row)
        /\ Exists => Keeps(row, req[h].row) /\ KeepsLocked(row, req[h].row)
    BY <1>8 DEF SaveOther, Follows
  <2>2. QED
    BY <2>1, SaveFollows
<1>9. CASE UNCHANGED vars
  <2>1. UNCHANGED row /\ UNCHANGED req
    BY <1>9 DEF vars
  <2>2. Onward
    BY <2>1, KeepsItself DEF Onward, Exists, TypeOK
  <2>3. QED
    BY <2>1, <2>2 DEF Follows, Exists
<1>10. QED
  BY <1>1, <1>2, <1>3, <1>4, <1>5, <1>6, <1>7, <1>8, <1>9 DEF Next

(* Served one request at a time, a session only ever moves onward. *)
LEMMA AlwaysOnward ==
    ASSUME OneAtATime
    PROVE  Spec => [][Onward]_vars
<1>1. Init => Follows
  BY DEF Init, Follows
<1>2. IInv /\ Follows /\ [Next]_vars => Follows' /\ Onward
  BY NextFollows
<1>3. QED
  BY <1>1, <1>2, Invariance, PTL DEF Spec

(* Confirming locks the interview, if its requests do not overlap; with two *)
(* in flight the lock is lost.                                              *)
THEOREM LockHolds ==
    ASSUME OneAtATime
    PROVE  Spec => ConfirmLocks
<1>1. Onward => (Exists /\ row.status = "confirmed" /\ row' # Deleted =>
         /\ row'.status = "confirmed"
         /\ row'.history = row.history
         /\ row'.slots = row.slots
         /\ row'.summary = row.summary)
  BY DEF Onward, KeepsLocked
<1>2. QED
  BY <1>1, AlwaysOnward, PTL DEF ConfirmLocks

(* No turn is removed or rewritten, if requests do not overlap. *)
THEOREM TranscriptKeeps ==
    ASSUME OneAtATime
    PROVE  Spec => TranscriptGrows
<1>1. Onward => (Exists /\ row' # Deleted =>
         /\ Len(row'.history) >= Len(row.history)
         /\ SubSeq(row'.history, 1, Len(row.history)) = row.history)
  BY DEF Onward, Keeps
<1>2. QED
  BY <1>1, AlwaysOnward, PTL DEF TranscriptGrows

(* What somebody stated is only ever replaced by what was stated at a later *)
(* turn, if requests do not overlap (mergeSlots).                           *)
THEOREM StatementsKept ==
    ASSUME OneAtATime
    PROVE  Spec => StatementsStay
<1>1. Onward => (Exists /\ row' # Deleted =>
         \A k \in SlotKeys : Explicit(row.slots, k) =>
            /\ Explicit(row'.slots, k)
            /\ \/ row'.slots[k] = row.slots[k]
               \/ row'.slots[k].turn > row.slots[k].turn)
  BY DEF Onward, Keeps, StatementsIn
<1>2. QED
  BY <1>1, AlwaysOnward, PTL DEF StatementsStay

(* No request takes back a choice of the owner, if requests do not overlap. *)
THEOREM ChoicesKept ==
    ASSUME OneAtATime
    PROVE  Spec => OwnerChoicesStay
<1>1. Onward => (Exists /\ row' # Deleted =>
         /\ row.extended # Null => row'.extended # Null
         /\ row.language # Null => row'.language # Null)
  BY DEF Onward, Keeps
<1>2. QED
  BY <1>1, AlwaysOnward, PTL DEF OwnerChoicesStay

-----------------------------------------------------------------------------
(* The promise kept                                                         *)

(* A copy in flight was made at the stage the row is still at; only an      *)
(* answer is still to move it, and a confirmation has.                      *)
Ahead(s, r) ==
    /\ r.op = "answer" => s.status = "collecting" /\ r.row.status = "collecting"
    /\ r.op = "confirm" =>
         /\ s.status = "awaiting_confirmation" /\ r.row.status = "confirmed"
         /\ r.row.history = s.history /\ r.row.slots = s.slots
         /\ r.row.summary = s.summary
    /\ r.op \in {"edit", "update"} => r.row.status = s.status

Serial == \A h \in Handlers : req[h] # Null /\ Exists => Ahead(row, req[h])

(* From one stage to the next, confirming what is shown. *)
Moves(s, t) ==
    \/ s.status = "collecting" /\ t.status # "confirmed"
    \/ s.status # "collecting" /\ t.status = s.status
    \/ /\ s.status = "awaiting_confirmation" /\ t.status = "confirmed"
       /\ t.history = s.history /\ t.slots = s.slots /\ t.summary = s.summary

Begun(s) == s.status # "confirmed" /\ s.extended = Null /\ s.language = Null

Forward ==
    /\ row = Null => row' = Null \/ (row' \in Session /\ Begun(row'))
    /\ row = Deleted => row' = Deleted
    /\ Exists /\ row' # Deleted => row' \in Session /\ Moves(row, row')

(* A turn of the interviewer opens the gate at most, and chooses nothing. *)
LEMMA AdvanceMoves ==
    ASSUME NEW s \in Session, s.status = "collecting", NEW reply \in Reply \cup {Null}
    PROVE  /\ Advance(s, reply).status # "confirmed"
           /\ Advance(s, reply).extended = s.extended
           /\ Advance(s, reply).language = s.language
BY DEF Advance, Session

(* A request taken in is ahead of the row it read, or at its stage. *)
LEMMA ReceiveSerial ==
    ASSUME IInv, Serial, Exists, NEW h \in Handlers, NEW op, NEW s,
           Receive(h, op, s), UNCHANGED row, Ahead(row, [op |-> op, row |-> s])
    PROVE  Serial' /\ Forward
<1>1. /\ req' = [req EXCEPT ![h] = [op |-> op, row |-> s]]
      /\ req \in [Handlers -> Request \cup {Null}]
      /\ row \in Session
  BY DEF Receive, IInv, TypeOK, Exists
<1>2. ASSUME NEW g \in Handlers, req'[g] # Null PROVE Ahead(row, req'[g])
  <2>1. CASE g = h
    BY <1>1, <2>1
  <2>2. CASE g # h
    BY <1>1, <1>2, <2>2 DEF Serial
  <2>3. QED
    BY <2>1, <2>2
<1>3. Moves(row, row)
  BY <1>1 DEF Moves, Session
<1>4. QED
  BY <1>1, <1>2, <1>3 DEF Serial, Forward, Exists

(* A copy saved moves the row to its own stage. *)
LEMMA SaveSerial ==
    ASSUME OneAtATime, IInv, NEW h \in Handlers, NEW s \in Session, Save(h, s),
           row # Null, Exists => Moves(row, s)
    PROVE  Serial' /\ Forward
<1>1. /\ row' = IF row = Deleted THEN Deleted ELSE s
      /\ req' = [req EXCEPT ![h] = Null]
      /\ req \in [Handlers -> Request \cup {Null}]
  BY DEF Save, IInv, TypeOK
<1>2. \A g \in Handlers : req'[g] = Null
  BY <1>1 DEF OneAtATime
<1>3. QED
  BY <1>1, <1>2 DEF Serial, Forward, Exists

(* Every step of a session served one request at a time. *)
LEMMA NextSerial ==
    ASSUME OneAtATime
    PROVE  IInv /\ Follows /\ Serial /\ [Next]_vars => Serial' /\ Forward
<1> SUFFICES ASSUME IInv, Follows, Serial, [Next]_vars PROVE Serial' /\ Forward
  OBVIOUS
<1> USE DEF IInv
<1>1. ASSUME NEW reply \in Reply \cup {Null}, Start(reply)
      PROVE  Serial' /\ Forward
  <2> DEFINE note == [kind |-> "notes", slot |-> Null, usable |-> TRUE]
  <2>1. PICK history \in {<<>>, <<note>>} : row' = Advance(NewSession(history), reply)
    BY <1>1 DEF Start
  <2>2. row = Null /\ UNCHANGED req /\ row' \in Session
    BY <1>1, StartIInv DEF Start
  <2>3. \A h \in Handlers : req[h] = Null
    BY <2>2 DEF Follows
  <2> DEFINE s == NewSession(history)
  <2>4. note \in Turn
    BY DEF Turn
  <2> HIDE DEF note
  <2>5. history \in Seq(Turn)
    <3>1. <<>> \in Seq(Turn) /\ <<note>> \in Seq(Turn)
      BY <2>4
    <3>2. QED
      BY <2>1, <3>1
  <2>6. /\ s \in Session /\ s.status = "collecting"
        /\ s.extended = Null /\ s.language = Null
    BY <2>5, NoSlotsType DEF NewSession, Session
  <2>7. row' = Advance(s, reply)
    BY <2>1
  <2> HIDE DEF s
  <2>8. Begun(row')
    BY <2>6, <2>7, AdvanceMoves DEF Begun
  <2>9. QED
    BY <2>2, <2>3, <2>8, NullAssumption DEF Serial, Forward, Exists
<1>2. CASE Delete
  BY <1>2 DEF Delete, Serial, Forward, Exists
<1>3. ASSUME NEW h \in Handlers, NEW usable \in BOOLEAN, Answer(h, usable)
      PROVE  Serial' /\ Forward
  <2> DEFINE s == [row EXCEPT !.history =
                     Append(@, [kind |-> "asked", slot |-> row.pending.target,
                                usable |-> usable])]
  <2>1. /\ Exists /\ row.status = "collecting" /\ row \in Session
        /\ Receive(h, "answer", s) /\ UNCHANGED row
    BY <1>3 DEF Answer, TypeOK, Exists
  <2>2. s.status = row.status
    BY <2>1 DEF Session
  <2>3. QED
    BY <2>1, <2>2, ReceiveSerial DEF Ahead
<1>4. ASSUME NEW h \in Handlers, Confirm(h) PROVE Serial' /\ Forward
  <2>1. PICK e \in ResolvedExtended(row) :
          Receive(h, "confirm",
             [row EXCEPT !.status = "confirmed", !.extended = e,
                         !.language = ResolvedLanguage(row)])
    BY <1>4 DEF Confirm
  <2> DEFINE s == [row EXCEPT !.status = "confirmed", !.extended = e,
                              !.language = ResolvedLanguage(row)]
  <2>2. /\ Exists /\ row.status = "awaiting_confirmation" /\ row \in Session
        /\ Receive(h, "confirm", s) /\ UNCHANGED row
    BY <1>4, <2>1 DEF Confirm, TypeOK, Exists
  <2>3. /\ s.status = "confirmed" /\ s.history = row.history
        /\ s.slots = row.slots /\ s.summary = row.summary
    BY <2>2 DEF Session
  <2>4. QED
    BY <2>2, <2>3, ReceiveSerial DEF Ahead
<1>5. ASSUME NEW h \in Handlers, NEW k \in SlotKeys, EditSlot(h, k)
      PROVE  Serial' /\ Forward
  <2> DEFINE slots == [row.slots EXCEPT ![k] = Stated(Len(row.history) + 1)]
             s == [row EXCEPT
                     !.history = Append(@, [kind |-> "correction", slot |-> k,
                                            usable |-> TRUE]),
                     !.slots = slots,
                     !.open = ReconcileOpenQuestions(@, {}, slots)]
  <2>1. /\ Exists /\ row \in Session
        /\ Receive(h, "edit", s) /\ UNCHANGED row
    BY <1>5 DEF EditSlot, TypeOK, Exists
  <2>2. s.status = row.status
    BY <2>1 DEF Session
  <2>3. QED
    BY <2>1, <2>2, ReceiveSerial DEF Ahead
<1>6. ASSUME NEW h \in Handlers, NEW extended \in BOOLEAN \cup {Null},
             NEW language \in Languages \cup {Null}, Update(h, extended, language)
      PROVE  Serial' /\ Forward
  <2> DEFINE s == [row EXCEPT
                     !.extended = IF extended = Null THEN @ ELSE extended,
                     !.language = IF language = Null THEN @ ELSE language]
  <2>1. /\ Exists /\ row \in Session
        /\ Receive(h, "update", s) /\ UNCHANGED row
    BY <1>6 DEF Update, TypeOK, Exists
  <2>2. s.status = row.status
    BY <2>1 DEF Session
  <2>3. QED
    BY <2>1, <2>2, ReceiveSerial DEF Ahead
<1>7. ASSUME NEW h \in Handlers, NEW reply \in Reply \cup {Null}, SaveAnswer(h, reply)
      PROVE  Serial' /\ Forward
  <2> DEFINE s == Advance(req[h].row, reply)
  <2>1. /\ req[h] # Null /\ req[h].op = "answer" /\ req[h] \in Request
        /\ Save(h, s) /\ AnswerOK(req[h].row)
    BY <1>7 DEF SaveAnswer, TypeOK, RequestOK
  <2>2. req[h].row \in Session /\ req[h].row.status = "collecting" /\ row # Null
    BY <2>1 DEF Request, AnswerOK, Follows
  <2>3. s \in Session /\ s.status # "confirmed"
    BY <2>1, <2>2, AdvanceMoves, AdvanceOK
  <2>4. Exists => row.status = "collecting"
    BY <2>1 DEF Serial, Ahead
  <2> HIDE DEF s
  <2>5. QED
    BY <2>1, <2>2, <2>3, <2>4, SaveSerial DEF Moves
<1>8. ASSUME NEW h \in Handlers, SaveOther(h) PROVE Serial' /\ Forward
  <2>1. /\ req[h] # Null /\ req[h].op # "answer" /\ req[h] \in Request
        /\ Save(h, req[h].row) /\ row # Null
        /\ Exists => Ahead(row, req[h]) /\ KeepsLocked(row, req[h].row)
    BY <1>8 DEF SaveOther, TypeOK, Serial, Follows
  <2>2. req[h].row \in Session /\ req[h].op \in {"confirm", "edit", "update"}
    BY <2>1 DEF Request
  <2>3. Exists => Moves(row, req[h].row)
    <3>1. SUFFICES ASSUME Exists PROVE Moves(row, req[h].row)
      OBVIOUS
    <3>2. row \in Session
      BY <3>1 DEF Exists, TypeOK
    <3>3. CASE req[h].op = "confirm"
      BY <2>1, <3>1, <3>3 DEF Ahead, Moves
    <3>4. CASE req[h].op # "confirm"
      <4>1. req[h].row.status = row.status
        BY <2>1, <2>2, <3>1, <3>4 DEF Ahead
      <4>2. QED
        BY <3>2, <4>1 DEF Moves, Session
    <3>5. QED
      BY <3>3, <3>4
  <2>4. QED
    BY <2>1, <2>2, <2>3, SaveSerial
<1>9. CASE UNCHANGED vars
  <2>1. UNCHANGED row /\ UNCHANGED req /\ row \in Session \cup {Null, Deleted}
    BY <1>9 DEF vars, TypeOK
  <2>2. Exists => row \in Session /\ Moves(row, row)
    BY <2>1 DEF Exists, Moves, Session
  <2>3. QED
    BY <2>1, <2>2 DEF Serial, Forward, Exists
<1>10. QED
  BY <1>1, <1>2, <1>3, <1>4, <1>5, <1>6, <1>7, <1>8, <1>9 DEF Next

(* A step of the session is one of the promise's, or none. *)
LEMMA StepPromised ==
    ASSUME IInv, IInv', Onward, Forward
    PROVE  [Promise!Next]_(Promise!vars)
<1>1. row \in Session \cup {Null, Deleted} /\ row' \in Session \cup {Null, Deleted}
  BY DEF IInv, TypeOK
<1>2. Null \notin Session /\ Deleted \notin Session /\ Null # Deleted
  BY SessionAssumption, NullAssumption
<1>3. CASE row' = row
  BY <1>3 DEF Promise!vars, Phase, Exists
<1>4. CASE row = Null /\ row' \in Session /\ Begun(row')
  <2>1. row'.status \in {"collecting", "awaiting_confirmation"}
    BY <1>4 DEF Session, Begun
  <2>2. Phase = "none" /\ Phase' \in {"talking", "shown"}
    BY <1>2, <1>4, <2>1 DEF Phase
  <2>3. Exists' /\ ChoicesMade(row') = {}
    BY <1>2, <1>4 DEF ChoicesMade, Begun, Exists
  <2>4. Promise!Begin
    BY <2>2, <2>3 DEF Promise!Begin
  <2>5. QED
    BY <2>4 DEF Promise!Next
<1>5. CASE row \in Session /\ row' = Deleted
  <2>1. Phase \in {"talking", "shown", "locked"} /\ Phase' = "gone"
    BY <1>2, <1>5 DEF Phase, Session
  <2>2. QED
    BY <2>1 DEF Promise!Next, Promise!Remove
<1>6. CASE row \in Session /\ row' \in Session
  <2>1. /\ Exists /\ Exists' /\ Keeps(row, row') /\ KeepsLocked(row, row')
        /\ Moves(row, row')
    BY <1>2, <1>6 DEF Exists, Onward, Forward
  <2>2. ChoicesPinned(row) /\ ChoicesPinned(row')
    BY <2>1 DEF IInv, RowOK
  <2>3. /\ Phase = CASE row.status = "collecting" -> "talking"
                     [] row.status = "awaiting_confirmation" -> "shown"
                     [] row.status = "confirmed" -> "locked"
        /\ Phase' = CASE row'.status = "collecting" -> "talking"
                      [] row'.status = "awaiting_confirmation" -> "shown"
                      [] row'.status = "confirmed" -> "locked"
    BY <1>2, <1>6 DEF Phase, Session
  <2>4. Promise!Learns
    <3>1. {k \in SlotKeys : Explicit(row.slots, k)}
            \subseteq {k \in SlotKeys : Explicit(row'.slots, k)}
      BY <2>1 DEF Keeps, StatementsIn
    <3>2. ChoicesMade(row) \subseteq ChoicesMade(row')
      BY <2>1 DEF Keeps, ChoicesMade
    <3>3. QED
      BY <2>1, <3>1, <3>2 DEF Promise!Learns, Keeps
  <2>5. row.status \in {"collecting", "awaiting_confirmation", "confirmed"}
        /\ row'.status \in {"collecting", "awaiting_confirmation", "confirmed"}
    BY <1>6 DEF Session
  <2>6. CASE row.status = "collecting"
    <3>1. Phase = "talking" /\ Phase' \in {"talking", "shown"}
      BY <2>1, <2>3, <2>5, <2>6 DEF Moves
    <3>2. QED
      BY <2>4, <3>1 DEF Promise!Next, Promise!Talk
  <2>7. CASE row.status = "awaiting_confirmation" /\ row'.status = row.status
    <3>1. Phase = "shown" /\ Phase' = "shown"
      BY <2>3, <2>7
    <3>2. QED
      BY <2>4, <3>1 DEF Promise!Next, Promise!Amend
  <2>8. CASE row.status = "awaiting_confirmation" /\ row'.status = "confirmed"
    <3>1. Phase = "shown" /\ Phase' = "locked"
      BY <2>3, <2>8
    <3>2. /\ row'.history = row.history /\ row'.slots = row.slots
          /\ row'.summary = row.summary
      BY <2>1, <2>8 DEF Moves
    <3>3. ChoicesMade(row') = {"extended", "language"}
      BY <2>2, <2>8 DEF ChoicesPinned, ChoicesMade
    <3>4. Promise!Lock
      BY <2>1, <3>1, <3>2, <3>3 DEF Promise!Lock
    <3>5. QED
      BY <3>4 DEF Promise!Next
  <2>9. CASE row.status = "confirmed"
    <3>1. /\ row'.status = row.status
          /\ row'.history = row.history /\ row'.slots = row.slots
          /\ row'.summary = row.summary
      BY <2>1, <2>9 DEF KeepsLocked
    <3>2. Phase' = Phase
      BY <2>3, <2>9, <3>1
    <3>3. ChoicesMade(row') = ChoicesMade(row)
      BY <2>2, <2>9, <3>1 DEF ChoicesPinned, ChoicesMade
    <3>4. QED
      BY <2>1, <3>1, <3>2, <3>3 DEF Promise!vars
  <2>10. QED
    BY <2>1, <2>5, <2>6, <2>7, <2>8, <2>9 DEF Moves
<1>7. QED
  BY <1>1, <1>3, <1>4, <1>5, <1>6 DEF Forward, Exists

(* Served one request at a time, the interview keeps its promise: it goes   *)
(* from talking to the gate to the lock and never back, and what is locked  *)
(* is what the gate showed (confirm()).                                     *)
THEOREM KeepsPromise ==
    ASSUME OneAtATime
    PROVE  Spec => ImplementsLockedProject
<1>1. Init => Follows /\ Serial /\ Promise!Init
  BY DEF Init, Follows, Serial, Promise!Init, Phase
<1>2. IInv /\ Follows /\ [Next]_vars => Follows' /\ Onward
  BY NextFollows
<1>3. IInv /\ Follows /\ Serial /\ [Next]_vars => Serial' /\ Forward
  BY NextSerial
<1>4. IInv /\ IInv' /\ Onward /\ Forward => [Promise!Next]_(Promise!vars)
  BY StepPromised
<1>5. QED
  BY <1>1, <1>2, <1>3, <1>4, Invariance, PTL
     DEF Spec, ImplementsLockedProject, Promise!Spec

=============================================================================
