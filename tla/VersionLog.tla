----------------------------- MODULE VersionLog -----------------------------
(***************************************************************************)
(* What the history of a project promises, whoever cuts its versions: a    *)
(* sequence that only grows, one version at a time, each one a state the   *)
(* project can be taken back to (versions.service.ts,                      *)
(* version.repository.ts).                                                 *)
(***************************************************************************)
EXTENDS Naturals, Sequences

CONSTANT Versions   \* the snapshots worth keeping

VARIABLE log        \* the versions, in the order of their numbers

Init == log = <<>>

(* snapshot(): nothing of what was kept changes.                            *)
Cut ==
    /\ Len(log') = Len(log) + 1
    /\ \A n \in 1 .. Len(log) : log'[n] = log[n]
    /\ log'[Len(log) + 1] \in Versions

Spec == Init /\ [][Cut]_log
=============================================================================
