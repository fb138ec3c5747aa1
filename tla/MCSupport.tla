----------------------------- MODULE MCSupport -----------------------------
(* A small instance of Support.                                             *)
EXTENDS Support, TLC

CONSTANTS h1, h2, agent

TwoHandlers == {h1, h2}
AnyHandler == Permutations(TwoHandlers)

OneAgent == {agent}
Everything == [s \in OneAgent |-> Permission]

Sets(field, value) == [NoPatch EXCEPT ![field] = value]

(* A change of each kind: a date that is set, one that is cleared, neither; *)
(* a change of no status; a resolution that comes with an assignee.         *)
SomePatches ==
    {Sets("status", st) : st \in {"open", "in_progress", "closed"}}
    \cup {[Sets("priority", "critical") EXCEPT !.assignee = agent]}
    \cup {[Sets("status", "resolved") EXCEPT !.assignee = a] :
            a \in {Nobody, Outsider}}
=============================================================================
