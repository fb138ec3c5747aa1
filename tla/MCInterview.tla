---------------------------- MODULE MCInterview ----------------------------
(* Small instances of Interview: one slot, the budget, and one language.    *)
(* The question plan is longer than the cap and never reaches the threshold *)
(* by itself, as in the code (9 of 11 questions is 82%).                    *)
EXTENDS Interview, TLC

CONSTANTS budget, en, h1, h2

MCSlotKeys == {budget}
MCLanguages == {en}
MCCoverage == {0, 95}

(* Nothing; an inference; a slot judged not applicable. *)
MCModelSlots ==
    {[k \in MCSlotKeys |-> Null],
     [k \in MCSlotKeys |-> [source |-> "inferred", na |-> FALSE]],
     [k \in MCSlotKeys |-> [source |-> "explicit", na |-> TRUE]]}

(* The concurrent instance keeps the interleavings and fewer replies. *)
LowCoverage == {0}

OneHandler == {h1}
TwoHandlers == {h1, h2}
AnyHandler == Permutations(TwoHandlers)
=============================================================================
