----------------------------- MODULE MCBilling -----------------------------
(* A small instance of Billing.                                             *)
EXTENDS Billing, TLC

CONSTANTS h1, h2, p1, s1

TwoHandlers == {h1, h2}
OneProject == {p1}
OneId == {s1}
EitherProvider == {"mock", "paddle"}
Interchangeable == Permutations(TwoHandlers)

(* Long enough for the two to differ.                                       *)
ShortPeriod == [monthly |-> 1, annual |-> 2]

(* Bound: while a project is stored or being started, Paddle has sent one   *)
(* event fewer than it may.                                                 *)
ProjectsFirst ==
    Len(mail) = MaxMail =>
        /\ \A p \in Projects : projects[p] = Null
        /\ \A h \in Handlers : req[h] # Null => req[h].action # "start"
=============================================================================
