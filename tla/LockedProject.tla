---------------------------- MODULE LockedProject ----------------------------
(***************************************************************************)
(* What the interview promises an owner, whatever the model answers: it    *)
(* talks, shows what it understood, and locks exactly what it showed when  *)
(* the owner confirms; it never goes back, and until then it only learns   *)
(* (interview.service.ts).                                                 *)
(***************************************************************************)
EXTENDS Naturals, Sequences

CONSTANTS Choices   \* what a locked project has settled

VARIABLES
    phase,     \* "none", "talking", "shown", "locked" or "gone"
    turns,     \* the transcript
    stated,    \* the slots somebody has stated
    brief,     \* the slots and the summary
    choices    \* the choices that are made

vars == <<phase, turns, stated, brief, choices>>

Init == phase = "none"

(* Nothing that was said, stated or chosen is lost. *)
Learns ==
    /\ Len(turns') >= Len(turns)
    /\ SubSeq(turns', 1, Len(turns)) = turns
    /\ stated \subseteq stated'
    /\ choices \subseteq choices'

(* start(): no choice is made before the owner makes one. *)
Begin == phase = "none" /\ phase' \in {"talking", "shown"} /\ choices' = {}

(* answer(), and corrections meanwhile *)
Talk == phase = "talking" /\ phase' \in {"talking", "shown"} /\ Learns

(* editSlot() and update() at the gate *)
Amend == phase = "shown" /\ phase' = "shown" /\ Learns

(* confirm(): what is locked is what was shown. *)
Lock ==
    /\ phase = "shown" /\ phase' = "locked"
    /\ UNCHANGED <<turns, stated, brief>>
    /\ choices' = Choices

(* deleteProject() *)
Remove == phase \in {"talking", "shown", "locked"} /\ phase' = "gone"

Next == Begin \/ Talk \/ Amend \/ Lock \/ Remove

Spec == Init /\ [][Next]_vars
=============================================================================
