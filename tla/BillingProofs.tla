---------------------------- MODULE BillingProofs ----------------------------
(* Theorems about Billing, for every value of its constants: any number of  *)
(* requests, projects and Paddle subscriptions, any quota, any time.        *)
EXTENDS Billing, FiniteSetTheorems, TLAPS

(* The ends a row may have by now: what is paid for or on trial, and what   *)
(* has been made up for an event without its billing period.                *)
Limit ==
    {end \in Nat :
        \/ end <= due
        \/ /\ "undated" \in upset
           /\ \E cycle \in Cycle : end <= now + Period[cycle]}

(* The row ends within those. *)
Earned(row, limit) == row # Null /\ row.end # Null => row.end \in limit

(* What holds of a request in flight: once past the first read it has a     *)
(* row, and a webhook has an event that was sent.                           *)
Fine(r, sent, limit) ==
    /\ r \in Request
    /\ Earned(r.row, limit)
    /\ r.pc # "create" => r.row # Null
    /\ r.pc = "apply" => r.action = "webhook"
    /\ r.action = "webhook" => r.event \in 1 .. sent

Flight ==
    /\ req \in [Handlers -> Request \cup {Null}]
    /\ \A h \in Handlers : req[h] # Null => Fine(req[h], Len(mail), Limit)

(* A plan without an end is a grant in force or the mark of a stale save. *)
Backed == sub # Null /\ sub.plan = "pro" /\ sub.end = Null =>
              comped \/ "stale" \in upset

Account ==
    /\ sub \in Row \cup {Null} /\ Earned(sub, Limit) /\ Backed
    /\ due \in Nat /\ comped \in BOOLEAN /\ upset \subseteq Upset

Beyond ==
    /\ paddle \in [PaddleIds -> [state : PaddleState, end : Nat]]
    /\ \A id \in PaddleIds : paddle[id].end <= due
    /\ mail \in Seq(Event)
    /\ \A i \in 1 .. Len(mail) : mail[i].end # Null => mail[i].end <= due

Rest ==
    /\ provider \in Providers
    /\ projects \in [Projects -> Project \cup {Null}]
    /\ now \in Nat /\ seen \in Nat

(* The inductive invariant of the two theorems on the plan. *)
IInv == Flight /\ Account /\ Beyond /\ Rest

-----------------------------------------------------------------------------
(* Lemmas                                                                   *)

(* Later() is the maximum. *)
LEMMA LaterBounds ==
    ASSUME NEW a \in Nat, NEW b \in Nat
    PROVE  Later(a, b) \in Nat /\ a <= Later(a, b) /\ b <= Later(a, b)
BY DEF Later

(* More time, more paid and more gone wrong: the limit only grows. *)
LEMMA LimitGrows ==
    ASSUME IInv, due' \in Nat, due <= due', now' \in Nat, now <= now',
           upset \subseteq upset'
    PROVE  Limit \subseteq Limit'
<1>1. due \in Nat /\ now \in Nat /\ \A cycle \in Cycle : Period[cycle] \in Nat
  BY ConstantsAssumption DEF IInv, Account, Rest
<1>2. ASSUME NEW end \in Nat, end <= due PROVE end <= due'
  BY <1>1, <1>2
<1>3. ASSUME NEW end \in Nat, NEW cycle \in Cycle, end <= now + Period[cycle]
      PROVE  end <= now' + Period[cycle]
  BY <1>1, <1>3
<1> QED BY <1>2, <1>3 DEF Limit

(* A step that saves no row leaves the row due. *)
LEMMA AccountStays ==
    ASSUME IInv, UNCHANGED <<sub, comped>>, due' \in Nat, due <= due',
           now' \in Nat, now <= now', upset \subseteq upset', upset' \subseteq Upset
    PROVE  Account' /\ Limit \subseteq Limit'
<1>1. Limit \subseteq Limit'
  BY LimitGrows
<1>2. Earned(sub', Limit')
  BY <1>1 DEF IInv, Account, Earned
<1>3. Backed'
  BY DEF IInv, Account, Backed
<1> QED BY <1>1, <1>2, <1>3 DEF IInv, Account

(* So does one that changes none of what the row is due for. *)
LEMMA SameAccount ==
    ASSUME IInv, UNCHANGED <<sub, comped, due, now, upset>>
    PROVE  Account' /\ Limit \subseteq Limit'
<1>1. due \in Nat /\ now \in Nat /\ upset \subseteq Upset
  BY DEF IInv, Account, Rest
<1>2. due' \in Nat /\ due <= due' /\ now' \in Nat /\ now <= now'
  BY <1>1
<1> QED BY <1>1, <1>2, AccountStays

(* The limit of a moment is that of its clock, account and mishaps. *)
LEMMA LimitStays ==
    ASSUME IInv, UNCHANGED <<due, now>>, upset \subseteq upset'
    PROVE  Limit \subseteq Limit'
BY DEF Limit

(* A higher limit, or more events, leaves a request fine. *)
LEMMA FineStays ==
    ASSUME NEW r, NEW sent \in Nat, NEW limit,
           NEW more \in Nat, NEW later, sent <= more, limit \subseteq later,
           Fine(r, sent, limit)
    PROVE  Fine(r, more, later)
<1>1. r \in Request /\ r.event \in Nat
  BY DEF Fine, Request
<1>2. Earned(r.row, later)
  BY DEF Fine, Earned
<1> QED BY <1>1, <1>2 DEF Fine

(* A step that moves no request and loses no event. *)
LEMMA SameFlight ==
    ASSUME IInv, UNCHANGED req, Limit \subseteq Limit', Len(mail') \in Nat,
           Len(mail) <= Len(mail')
    PROVE  Flight'
<1>1. Len(mail) \in Nat
  BY DEF IInv, Beyond
<1>2. ASSUME NEW h \in Handlers, req[h] # Null
      PROVE  Fine(req[h], Len(mail'), Limit')
  BY <1>1, <1>2, FineStays DEF IInv, Flight
<1> QED BY <1>2 DEF IInv, Flight

(* The mail left alone is as long as before. *)
LEMMA SameMail ==
    ASSUME IInv, UNCHANGED mail
    PROVE  Len(mail') \in Nat /\ Len(mail) <= Len(mail')
<1>1. Len(mail) \in Nat
  BY DEF IInv, Beyond
<1> QED BY <1>1

(* A step that moves one request, whatever else it pays or saves. *)
LEMMA FlightStep ==
    ASSUME IInv, NEW h \in Handlers, NEW r, req' = [req EXCEPT ![h] = r],
           UNCHANGED mail, Limit \subseteq Limit',
           r = Null \/ Fine(r, Len(mail), Limit')
    PROVE  Flight'
<1>1. r \in Request \cup {Null}
  BY DEF Fine
<1>2. req' \in [Handlers -> Request \cup {Null}]
  BY <1>1 DEF IInv, Flight
<1>3. Len(mail) \in Nat
  BY DEF IInv, Beyond
<1>4. ASSUME NEW g \in Handlers, req'[g] # Null
      PROVE  Fine(req'[g], Len(mail'), Limit')
  <2>1. CASE g = h
    BY <1>4, <2>1 DEF IInv, Flight
  <2>2. CASE g # h
    <3>1. req'[g] = req[g]
      BY <2>2 DEF IInv, Flight
    <3>2. Fine(req[g], Len(mail), Limit)
      BY <1>4, <3>1 DEF IInv, Flight
    <3> QED BY <1>3, <3>1, <3>2, FineStays
  <2> QED BY <2>1, <2>2
<1> QED BY <1>2, <1>4 DEF Flight

(* Paying more leaves what was paid for. *)
LEMMA BeyondStep ==
    ASSUME IInv, UNCHANGED external, due' \in Nat, due <= due'
    PROVE  Beyond'
<1>1. \A id \in PaddleIds : paddle[id].end \in Nat
  BY DEF IInv, Beyond
<1>2. ASSUME NEW i \in 1 .. Len(mail), mail[i].end # Null
      PROVE  mail[i].end \in Nat /\ mail[i].end <= due
  <2>1. mail[i] \in Event
    BY DEF IInv, Beyond
  <2> QED BY <1>2, <2>1 DEF Event, IInv, Beyond
<1>3. due \in Nat
  BY DEF IInv, Account
<1>4. \A i \in 1 .. Len(mail) : mail[i].end # Null => mail[i].end <= due'
  BY <1>2, <1>3
<1>5. \A id \in PaddleIds : paddle[id].end <= due'
  BY <1>1, <1>3 DEF IInv, Beyond
<1> QED BY <1>4, <1>5 DEF external, IInv, Beyond

-----------------------------------------------------------------------------
(* The initial state, and one lemma per kind of step                        *)

LEMMA InitIInv == Init => IInv
<1> SUFFICES ASSUME Init PROVE IInv
  OBVIOUS
<1>1. Flight
  BY NullAssumption DEF Init, Flight
<1>2. Account
  BY DEF Init, Account, Earned, Backed, Upset
<1>3. Beyond
  BY DEF Init, Beyond, PaddleState
<1>4. Rest
  BY DEF Init, Rest
<1> QED BY <1>1, <1>2, <1>3, <1>4 DEF IInv

(* A request that starts has read the row, or found none. *)
LEMMA OpenIInv ==
    ASSUME IInv, NEW h \in Handlers, NEW action \in Action,
           NEW cycle \in Cycle, NEW event \in Nat,
           action = "webhook" => event \in 1 .. Len(mail),
           Open(h, action, FirstStep[action], cycle, event)
    PROVE  IInv'
<1> DEFINE r == [pc |-> IF sub = Null THEN "create" ELSE FirstStep[action],
                 action |-> action, row |-> sub, cycle |-> cycle,
                 event |-> event, metered |-> FALSE]
<1>1. /\ req' = [req EXCEPT ![h] = r]
      /\ UNCHANGED <<provider, sub, projects, now, external, seen, due,
                     comped, upset>>
  BY DEF Open
<1>2. Fine(r, Len(mail), Limit)
  <2>1. sub \in Row \cup {Null} /\ Earned(sub, Limit)
    BY DEF IInv, Account
  <2>2. r \in Request
    BY <2>1 DEF Request, FirstStep, Action
  <2> QED BY <2>1, <2>2 DEF Fine, FirstStep, Action
<1> HIDE DEF r
<1>3. Flight'
  <2>1. Limit' = Limit /\ UNCHANGED mail
    BY <1>1 DEF external, Limit
  <2>2. Limit \subseteq Limit' /\ Fine(r, Len(mail), Limit')
    BY <1>2, <2>1
  <2> QED BY <1>1, <2>1, <2>2, FlightStep
<1>4. Account'
  BY <1>1, SameAccount
<1> QED BY <1>1, <1>3, <1>4 DEF IInv, Beyond, Rest, external

LEMMA CreateRowIInv ==
    ASSUME IInv, NEW h \in Handlers, CreateRow(h)
    PROVE  IInv'
<1> DEFINE n == [req[h] EXCEPT !.row = FreeRow, !.pc = FirstStep[req[h].action]]
<1>1. /\ req[h] # Null /\ req[h].pc = "create"
      /\ \/ sub' = FreeRow /\ req' = [req EXCEPT ![h] = n]
         \/ sub' = sub /\ req' = [req EXCEPT ![h] = Null]
      /\ UNCHANGED <<provider, projects, now, external, seen, due, comped,
                     upset>>
  BY DEF CreateRow
<1>2. Fine(req[h], Len(mail), Limit)
  BY <1>1 DEF IInv, Flight
<1>3. FreeRow \in Row /\ FreeRow.end = Null /\ FreeRow.plan = "free"
  BY DEF FreeRow, Row, Plan, Cycle
<1>4. Fine(n, Len(mail), Limit)
  <2>1. req[h] \in Request
    BY <1>2 DEF Fine
  <2>2. FirstStep[req[h].action] \in {"count", "cadence", "ask", "admin", "apply"}
    BY <2>1 DEF Request, FirstStep, Action
  <2>3. n \in Request
    BY <1>3, <2>1, <2>2 DEF Request
  <2>4. n.row = FreeRow /\ n.pc = FirstStep[n.action] /\ n.event = req[h].event
        /\ n.action = req[h].action
    BY <2>1 DEF Request
  <2>5. n.action \in Action
    BY <2>3 DEF Request
  <2> HIDE DEF n
  <2>6. n.pc = "apply" => n.action = "webhook"
    BY <2>4, <2>5 DEF FirstStep, Action
  <2>7. FreeRow # Null
    BY <1>3, NullAssumption
  <2> QED BY <1>2, <1>3, <2>3, <2>4, <2>6, <2>7 DEF Fine, Earned
<1> HIDE DEF n
<1>5. Flight'
  <2>1. Limit' = Limit /\ UNCHANGED mail
    BY <1>1 DEF external, Limit
  <2>2. Limit \subseteq Limit' /\ Fine(n, Len(mail), Limit')
    BY <1>2, <1>4, <2>1
  <2>3. CASE req' = [req EXCEPT ![h] = n]
    BY <2>1, <2>2, <2>3, FlightStep
  <2>4. CASE req' = [req EXCEPT ![h] = Null]
    BY <2>1, <2>2, <2>4, FlightStep
  <2> QED BY <1>1, <2>3, <2>4
<1>6. Account'
  <2>1. CASE sub' = FreeRow
    BY <1>1, <1>3, <2>1 DEF IInv, Account, Earned, Backed
  <2>2. CASE sub' = sub
    BY <1>1, <2>2, SameAccount
  <2> QED BY <1>1, <2>1, <2>2
<1> QED BY <1>1, <1>5, <1>6 DEF IInv, Beyond, Rest, external

(* A step that ends the request, or moves it on with the row it has. *)
LEMMA MoveFlight ==
    ASSUME IInv, NEW h \in Handlers, req[h] # Null, req[h].pc # "create",
           NEW pc \in {"insert", "flag", "activate"}, NEW metered \in BOOLEAN,
           \/ req' = [req EXCEPT ![h] = Null]
           \/ req' = [req EXCEPT ![h] = [req[h] EXCEPT !.pc = pc,
                                                       !.metered = metered]]
           \/ req' = [req EXCEPT ![h] = [req[h] EXCEPT !.pc = pc]],
           UNCHANGED mail, Limit \subseteq Limit'
    PROVE  Flight'
<1>1. Fine(req[h], Len(mail), Limit) /\ Len(mail) \in Nat
  BY DEF IInv, Flight, Beyond
<1>2. ASSUME NEW n, \/ n = [req[h] EXCEPT !.pc = pc, !.metered = metered]
                    \/ n = [req[h] EXCEPT !.pc = pc]
      PROVE  Fine(n, Len(mail), Limit')
  <2>1. req[h] \in Request
    BY <1>1 DEF Fine
  <2>2. n \in Request /\ n.row = req[h].row /\ n.pc = pc /\ n.event = req[h].event
        /\ n.action = req[h].action
    BY <1>2, <2>1 DEF Request
  <2>3. Fine(n, Len(mail), Limit)
    BY <1>1, <2>2 DEF Fine
  <2> QED BY <1>1, <2>3, FineStays
<1>3. CASE req' = [req EXCEPT ![h] = Null]
  BY <1>1, <1>3, FlightStep
<1>4. CASE \E n : Fine(n, Len(mail), Limit') /\ req' = [req EXCEPT ![h] = n]
  BY <1>1, <1>4, FlightStep
<1> QED BY <1>2, <1>3, <1>4
(* Starting and deleting projects touches no subscription. *)
LEMMA ProjectIInv ==
    ASSUME IInv,
           \/ DeleteProject
           \/ \E h \in Handlers : Count(h) \/ InsertProject(h)
    PROVE  IInv'
<1>0. now \in Nat
  BY DEF IInv, Rest
<1>1. ASSUME NEW h \in Handlers, Count(h) PROVE IInv'
  <2>1. /\ req[h] # Null /\ req[h].pc = "count"
        /\ \/ req' = [req EXCEPT ![h] = Null]
           \/ req' = [req EXCEPT ![h] = [req[h] EXCEPT !.pc = "insert",
                                            !.metered = ~IsPro(req[h].row)]]
        /\ UNCHANGED <<provider, sub, projects, now, external, seen, due,
                       comped, upset>>
    BY <1>1 DEF Count, Done
  <2>2. Flight'
    <3> DEFINE metered == ~IsPro(req[h].row)
    <3>1. metered \in BOOLEAN
      BY DEF IsPro
    <3>2. UNCHANGED mail /\ Limit \subseteq Limit'
      BY <2>1, LimitStays DEF external
    <3> HIDE DEF metered
    <3> QED BY <2>1, <3>1, <3>2, MoveFlight DEF metered
  <2>3. Account'
    BY <2>1, SameAccount
  <2> QED BY <2>1, <2>2, <2>3 DEF IInv, Beyond, Rest, external
<1>2. ASSUME NEW h \in Handlers, InsertProject(h) PROVE IInv'
  <2>1. /\ req[h] # Null /\ req[h].pc = "insert"
        /\ req' = [req EXCEPT ![h] = Null]
        /\ UNCHANGED <<provider, sub, now, external, seen, due, comped, upset>>
    BY <1>2 DEF InsertProject, Done
  <2>2. Flight' /\ Account'
    BY <2>1, SameAccount, FlightStep DEF external
  <2>3. projects' \in [Projects -> Project \cup {Null}]
    <3>1. req[h].metered \in BOOLEAN
      BY <2>1 DEF IInv, Flight, Request
    <3> QED BY <1>0, <1>2, <3>1 DEF InsertProject, IInv, Rest, Project
  <2> QED BY <2>1, <2>2, <2>3 DEF IInv, Beyond, Rest, external
<1>3. CASE DeleteProject
  <2>1. /\ UNCHANGED <<provider, sub, now, external, req, seen, due, comped, upset>>
        /\ projects' \in [Projects -> Project \cup {Null}]
    BY <1>3 DEF DeleteProject, IInv, Rest
  <2>2. Account' /\ Limit \subseteq Limit'
    BY <2>1, SameAccount
  <2>3. Flight'
    <3>1. UNCHANGED mail
      BY <2>1 DEF external
    <3> QED BY <2>1, <2>2, <3>1, SameFlight, SameMail
  <2> QED BY <2>1, <2>2, <2>3 DEF IInv, Beyond, Rest, external
<1> QED BY <1>1, <1>2, <1>3

(* A save that leaves plan and period as they were read: the claim of the   *)
(* row that was read carries over, or the save is marked stale.             *)
LEMMA SaveAccount ==
    ASSUME IInv, NEW h \in Handlers, req[h] # Null, req[h].row # Null,
           NEW row \in Row, Save(h, row),
           row.plan = req[h].row.plan, row.end = req[h].row.end,
           UNCHANGED <<due, comped, now>>
    PROVE  Account' /\ Limit \subseteq Limit'
<1>0. Limit \subseteq Limit'
  BY LimitStays DEF Save
<1>1. Earned(req[h].row, Limit)
  BY DEF IInv, Flight, Fine
<1>2. Earned(sub', Limit')
  BY <1>0, <1>1 DEF Earned, Save
<1>3. sub' = row /\ upset \subseteq upset' /\ upset' \subseteq Upset
      /\ (sub # req[h].row => "stale" \in upset')
  BY DEF Save, IInv, Account, Upset
<1>4. Backed'
  BY <1>3 DEF Backed, IInv, Account
<1> QED BY <1>0, <1>2, <1>3, <1>4 DEF IInv, Account

(* The cadence and the cancellation mark change neither plan nor period. *)
LEMMA OwnerIInv ==
    ASSUME IInv, NEW h \in Handlers, SaveCadence(h) \/ FlagCancelled(h)
    PROVE  IInv'
<1> DEFINE r == req[h]
<1>1. r # Null /\ r.pc # "create"
  BY DEF SaveCadence, FlagCancelled
<1>2. Fine(r, Len(mail), Limit) /\ r \in Request /\ r.row \in Row
  BY <1>1 DEF IInv, Flight, Fine, Request
<1>3. CASE FlagCancelled(h)
  <2>1. /\ Save(h, [r.row EXCEPT !.cancelAtEnd = TRUE])
        /\ req' = [req EXCEPT ![h] = Null]
        /\ UNCHANGED <<provider, projects, now, external, seen, due, comped>>
    BY <1>3 DEF FlagCancelled, Done
  <2>2. Account' /\ Limit \subseteq Limit'
    <3>1. /\ [r.row EXCEPT !.cancelAtEnd = TRUE] \in Row
          /\ [r.row EXCEPT !.cancelAtEnd = TRUE].end = r.row.end
          /\ [r.row EXCEPT !.cancelAtEnd = TRUE].plan = r.row.plan
      BY <1>2 DEF Row
    <3> QED BY <1>1, <1>2, <2>1, <3>1, SaveAccount, NullAssumption
  <2>3. Flight'
    BY <2>1, <2>2, FlightStep DEF external
  <2> QED BY <2>1, <2>2, <2>3 DEF IInv, Beyond, Rest, external
<1>4. CASE SaveCadence(h)
  <2> DEFINE row == [r.row EXCEPT !.cycle = r.cycle]
             n == [r EXCEPT !.pc = "activate", !.row = row]
  <2>1. /\ req' = [req EXCEPT ![h] = n]
        /\ Save(h, row) \/ UNCHANGED <<sub, upset>>
        /\ UNCHANGED <<provider, projects, now, external, seen, due, comped>>
    BY <1>4 DEF SaveCadence
  <2>2. /\ row \in Row /\ row.end = r.row.end /\ row.plan = r.row.plan
        /\ row # Null /\ r.row # Null
    BY <1>2, NullAssumption DEF Row, Request
  <2>3. Fine(n, Len(mail), Limit)
    <3> HIDE DEF row
    <3>1. n \in Request /\ n.row = row /\ n.pc = "activate"
          /\ n.event = r.event /\ n.action = r.action
      BY <1>2, <2>2 DEF Request
    <3> QED BY <1>2, <2>2, <3>1 DEF Fine, Earned
  <2> HIDE DEF row, n
  <2>4. Account' /\ Limit \subseteq Limit'
    <3>1. CASE Save(h, row)
      BY <1>1, <2>1, <2>2, <3>1, SaveAccount
    <3>2. CASE UNCHANGED <<sub, upset>>
      BY <2>1, <3>2, SameAccount
    <3> QED BY <2>1, <3>1, <3>2
  <2>5. Flight'
    <3>1. Fine(n, Len(mail), Limit')
      BY <2>3, <2>4 DEF Fine, Earned
    <3> QED BY <2>1, <2>4, <3>1, FlightStep DEF external
  <2> QED BY <2>1, <2>4, <2>5 DEF IInv, Beyond, Rest, external
<1> QED BY <1>3, <1>4

(* The mock provider sells a period that is paid for. *)
LEMMA ActivateIInv ==
    ASSUME IInv, NEW h \in Handlers, Activate(h)
    PROVE  IInv'
<1> DEFINE r == req[h]
           end == now + Period[r.cycle]
           row == ProState(r.row, end, r.row.paddle)
<1>1. /\ r # Null /\ r.pc = "activate" /\ Save(h, row)
      /\ due' = Later(due, end) /\ comped' = FALSE
      /\ req' = [req EXCEPT ![h] = Null]
      /\ UNCHANGED <<provider, projects, now, external, seen>>
  BY DEF Activate, Done
<1>2. r \in Request /\ r.row \in Row
  BY <1>1 DEF IInv, Flight, Fine, Request
<1>3. end \in Nat
  BY <1>2, ConstantsAssumption DEF IInv, Rest, Request
<1>4. /\ due \in Nat /\ due' \in Nat /\ due <= due' /\ end <= due'
  BY <1>1, <1>3, LaterBounds DEF IInv, Account
<1>5. row \in Row /\ row.end = end
  BY <1>2, <1>3 DEF Row, ProState, Plan
<1> HIDE DEF row, end
<1>6. Flight'
  <2>1. now \in Nat /\ now' = now /\ upset \subseteq upset'
    BY <1>1 DEF IInv, Rest, Save
  <2>2. now' \in Nat /\ now <= now'
    BY <2>1
  <2>3. Limit \subseteq Limit'
    BY <1>4, <2>1, <2>2, LimitGrows
  <2> QED BY <1>1, <2>3, FlightStep DEF external
<1>7. Account'
  <2>1. end \in Limit'
    BY <1>3, <1>4 DEF Limit
  <2> QED BY <1>1, <1>3, <1>4, <1>5, <2>1, NullAssumption
     DEF Save, IInv, Account, Earned, Backed, Upset
<1>8. Beyond'
  BY <1>1, <1>4, BeyondStep
<1> QED BY <1>1, <1>6, <1>7, <1>8 DEF IInv, Rest

(* An offer opens nothing yet, and a cancellation changes no period. *)
LEMMA ProviderIInv ==
    ASSUME IInv, NEW h \in Handlers, OfferCheckout(h) \/ AskProvider(h)
    PROVE  IInv'
<1> DEFINE r == req[h]
<1>0. due \in Nat /\ due <= due /\ now \in Nat /\ now <= now
  BY DEF IInv, Account, Rest
<1>1. r # Null /\ r.pc # "create"
  BY DEF OfferCheckout, AskProvider
<1>2. r \in Request
  BY <1>1 DEF IInv, Flight, Fine
<1>3. /\ UNCHANGED <<provider, sub, projects, now, mail, seen, due, comped>>
      /\ upset \subseteq upset' /\ upset' \subseteq Upset
  BY DEF OfferCheckout, AskProvider, IInv, Account, Upset
<1>4. Account' /\ Limit \subseteq Limit'
  BY <1>0, <1>3, AccountStays
<1>5. Flight'
  <2>1. \/ req' = [req EXCEPT ![h] = Null]
        \/ req' = [req EXCEPT ![h] = [r EXCEPT !.pc = "flag"]]
    BY DEF OfferCheckout, AskProvider, Done
  <2> QED BY <1>1, <1>3, <1>4, <2>1, MoveFlight
<1>6. Beyond'
  <2>1. CASE UNCHANGED paddle
    BY <1>0, <1>3, <2>1, BeyondStep DEF external
  <2>2. CASE \E id \in PaddleIds, state \in PaddleState :
               paddle' = [paddle EXCEPT ![id].state = state]
    <3>1. PICK id \in PaddleIds, state \in PaddleState :
             paddle' = [paddle EXCEPT ![id].state = state]
      BY <2>2
    <3>2. paddle' \in [PaddleIds -> [state : PaddleState, end : Nat]]
          /\ \A q \in PaddleIds : paddle'[q].end = paddle[q].end
      BY <3>1 DEF IInv, Beyond
    <3> QED BY <1>3, <3>2 DEF IInv, Beyond
  <2>3. ASSUME OfferCheckout(h) PROVE \E id \in PaddleIds, state \in PaddleState :
               paddle' = [paddle EXCEPT ![id].state = state]
    BY <2>3 DEF OfferCheckout, PaddleState
  <2>4. ASSUME AskProvider(h), ~UNCHANGED paddle
        PROVE  \E id \in PaddleIds, state \in PaddleState :
                 paddle' = [paddle EXCEPT ![id].state = state]
    <3> DEFINE id == r.row.paddle
               state == IF paddle[id].state \in {"trialing", "active"} THEN "scheduled"
                        ELSE paddle[id].state
    <3>1. /\ id # Null /\ r.row # Null
          /\ paddle' = [paddle EXCEPT ![id].state = state]
      BY <1>1, <2>4 DEF AskProvider, IInv, Flight, Fine
    <3>2. id \in PaddleIds
      BY <1>2, <3>1 DEF Request, Row
    <3>3. state \in PaddleState
      BY <3>2 DEF IInv, Beyond, PaddleState
    <3> HIDE DEF id, state
    <3> QED BY <3>1, <3>2, <3>3
  <2> QED BY <2>1, <2>2, <2>3, <2>4
<1> QED BY <1>3, <1>4, <1>5, <1>6 DEF IInv, Rest

(* A grant is in force from its save on; a revocation leaves no period. *)
LEMMA AdminIInv ==
    ASSUME IInv, NEW h \in Handlers, ApplyAdmin(h)
    PROVE  IInv'
<1> DEFINE r == req[h]
<1>1. /\ r # Null /\ r.pc = "admin" /\ req' = [req EXCEPT ![h] = Null]
      /\ \/ UNCHANGED <<sub, comped, upset>>
         \/ /\ comped' = TRUE /\ Save(h, Granted(r.row))
         \/ /\ comped' = FALSE /\ Save(h, Downgraded(r.row))
      /\ UNCHANGED <<provider, projects, now, external, seen, due>>
  BY DEF ApplyAdmin, Done
<1>2. r \in Request /\ r.row \in Row
  BY <1>1 DEF IInv, Flight, Fine, Request
<1>3. /\ Granted(r.row) \in Row /\ Granted(r.row).end = Null
      /\ Downgraded(r.row) \in Row /\ Downgraded(r.row).end = Null
      /\ Downgraded(r.row).plan = "free"
  BY <1>2 DEF Row, Granted, Downgraded, Plan
<1>4. Flight' /\ Limit \subseteq Limit'
  <2>1. Limit \subseteq Limit'
    BY <1>1, LimitStays DEF Save
  <2> QED BY <1>1, <2>1, FlightStep DEF external
<1>5. Account'
  <2>1. CASE UNCHANGED <<sub, comped, upset>>
    BY <1>1, <2>1, SameAccount
  <2>2. CASE comped' = TRUE /\ Save(h, Granted(r.row))
    BY <1>1, <1>3, <2>2 DEF IInv, Account, Backed, Earned, Save, Upset
  <2>3. CASE comped' = FALSE /\ Save(h, Downgraded(r.row))
    BY <1>1, <1>3, <2>3 DEF IInv, Account, Backed, Earned, Save, Upset
  <2> QED BY <1>1, <2>1, <2>2, <2>3
<1> QED BY <1>1, <1>4, <1>5 DEF IInv, Beyond, Rest, external

(* A webhook sets the row to what an event said, which was due, or to an    *)
(* end it makes up, which the limit then allows.                            *)
LEMMA EventIInv ==
    ASSUME IInv, NEW h \in Handlers, ApplyEvent(h)
    PROVE  IInv'
<1> DEFINE r == req[h]
           e == mail[r.event]
           end == Expiry(e, r.row)
<1>0. due \in Nat /\ now \in Nat
  BY DEF IInv, Account, Rest
<1>1. /\ r # Null /\ r.pc = "apply" /\ req' = [req EXCEPT ![h] = Null]
      /\ \/ sub' = Downgraded(r.row)
         \/ sub' = ProState(r.row, end, e.id) /\ (e.end = Null => "undated" \in upset')
      /\ upset \subseteq upset' /\ upset' \subseteq Upset
      /\ seen' = Later(seen, r.event) /\ comped' = FALSE
      /\ UNCHANGED <<provider, projects, now, external, due>>
  BY DEF ApplyEvent, Done, IInv, Account, OutOfOrder, Upset
<1>2. r \in Request /\ r.row \in Row /\ r.event \in 1 .. Len(mail)
  BY <1>1 DEF IInv, Flight, Fine, Request
<1>3. e \in Event /\ (e.end # Null => e.end <= due)
  BY <1>2 DEF IInv, Beyond
<1>4. r.row.cycle \in Cycle /\ Period[r.row.cycle] \in Nat
  BY <1>2, ConstantsAssumption DEF Row
<1>5. end \in Nat /\ (e.end = Null => end = now + Period[r.row.cycle])
      /\ (e.end # Null => end = e.end)
  BY <1>0, <1>3, <1>4 DEF Expiry, Event
<1> HIDE DEF e, end
<1>6. /\ ProState(r.row, end, e.id) \in Row
      /\ ProState(r.row, end, e.id).end = end /\ end # Null
      /\ Downgraded(r.row) \in Row /\ Downgraded(r.row).end = Null
      /\ Downgraded(r.row).plan = "free"
  <2>1. e.id \in PaddleIds
    BY <1>3 DEF Event
  <2> QED BY <1>2, <1>5, <2>1, NullAssumption DEF Row, ProState, Downgraded, Plan
<1>7. Limit \subseteq Limit'
  BY <1>1, LimitStays
<1>8. Flight'
  BY <1>1, <1>7, FlightStep DEF external
<1>9. Account'
  <2>1. CASE sub' = Downgraded(r.row)
    BY <1>1, <1>6, <2>1 DEF IInv, Account, Backed, Earned
  <2>2. CASE sub' = ProState(r.row, end, e.id) /\ (e.end = Null => "undated" \in upset')
    <3>1. CASE e.end = Null
      <4>1. end <= now' + Period[r.row.cycle]
        BY <1>0, <1>1, <1>4, <1>5, <3>1
      <4>2. end \in Limit'
        BY <1>4, <1>5, <2>2, <3>1, <4>1 DEF Limit
      <4> QED BY <1>1, <1>6, <2>2, <4>2 DEF IInv, Account, Backed, Earned
    <3>2. CASE e.end # Null
      <4>1. end \in Limit'
        BY <1>1, <1>3, <1>5, <3>2 DEF Limit
      <4> QED BY <1>1, <1>6, <2>2, <4>1 DEF IInv, Account, Backed, Earned
    <3> QED BY <3>1, <3>2
  <2> QED BY <1>1, <2>1, <2>2
<1>10. seen' \in Nat
  <2>1. r.event \in Nat /\ seen \in Nat
    BY <1>2 DEF Request, IInv, Rest
  <2> QED BY <1>1, <2>1, LaterBounds
<1> QED BY <1>1, <1>8, <1>9, <1>10 DEF IInv, Beyond, Rest, external

(* Paddle posts an event whose period, if it has one, is due. *)
LEMMA SendBeyond ==
    ASSUME IInv, NEW id \in PaddleIds, NEW state \in PaddleState,
           NEW until \in Nat, NEW end \in Nat \cup {Null},
           NEW kind \in {"active", "trialing", "canceled"},
           paddle' = [paddle EXCEPT ![id] = [state |-> state, end |-> until]],
           Send(id, kind, end), due' \in Nat, due <= due', until <= due',
           end # Null => end <= due',
           UNCHANGED req, Limit \subseteq Limit'
    PROVE  Beyond' /\ Flight'
<1>1. PICK tagged \in Tagged, dated \in Dated :
         mail' = Append(mail, [id |-> id, kind |-> kind, tagged |-> tagged,
                               end |-> IF dated THEN end ELSE Null])
  BY DEF Send
<1> DEFINE e == [id |-> id, kind |-> kind, tagged |-> tagged,
                 end |-> IF dated THEN end ELSE Null]
<1>2. e \in Event /\ (e.end # Null => e.end = end)
  BY ConstantsAssumption DEF Event
<1> HIDE DEF e
<1>3. mail \in Seq(Event) /\ mail' = Append(mail, e) /\ Len(mail) \in Nat
  BY <1>1 DEF e, IInv, Beyond
<1>4. mail' \in Seq(Event) /\ Len(mail') = Len(mail) + 1
  BY <1>2, <1>3
<1>5. ASSUME NEW i \in 1 .. Len(mail'), mail'[i].end # Null
      PROVE  mail'[i].end <= due'
  <2>1. CASE i = Len(mail) + 1
    BY <1>2, <1>3, <1>5, <2>1
  <2>2. CASE i \in 1 .. Len(mail)
    <3>1. mail'[i] = mail[i]
      BY <1>2, <1>3, <2>2
    <3>2. mail[i] \in Event
      BY <1>3, <2>2
    <3>3. mail[i].end \in Nat
      BY <1>5, <3>1, <3>2 DEF Event
    <3>4. mail[i].end <= due /\ due \in Nat
      BY <1>5, <2>2, <3>1 DEF IInv, Beyond, Account
    <3> QED BY <3>1, <3>3, <3>4
  <2> QED BY <1>3, <1>4, <2>1, <2>2
<1>6. /\ paddle' \in [PaddleIds -> [state : PaddleState, end : Nat]]
      /\ \A q \in PaddleIds : paddle'[q].end <= due'
  BY DEF IInv, Beyond, Account
<1>7. Flight'
  <2>1. Len(mail') \in Nat /\ Len(mail) <= Len(mail')
    BY <1>3, <1>4
  <2> QED BY <2>1, SameFlight
<1> QED BY <1>4, <1>5, <1>6, <1>7 DEF Beyond

LEMMA PaddleIInv ==
    ASSUME IInv, NEW id \in PaddleIds,
           Pay(id) \/ Renew(id) \/ EndSubscription(id)
    PROVE  IInv'
<1>0. due \in Nat /\ now \in Nat /\ paddle[id].end \in Nat
      /\ paddle[id].end <= due
  BY DEF IInv, Account, Rest, Beyond
<1>1. /\ UNCHANGED <<provider, sub, projects, now, req, seen, comped>>
      /\ upset \subseteq upset' /\ upset' \subseteq Upset
  BY DEF Pay, Renew, EndSubscription, IInv, Account, Upset
<1>2. ASSUME due' \in Nat, due <= due'
      PROVE  Account' /\ Limit \subseteq Limit'
  <2>1. now' \in Nat /\ now <= now'
    BY <1>0, <1>1
  <2> QED BY <1>1, <1>2, <2>1, AccountStays
<1>3. Account' /\ Beyond' /\ Flight'
  <2>1. CASE \E state \in {"trialing", "active"} : BeginPeriod(id, state)
    <3>1. PICK state \in {"trialing", "active"}, cycle \in Cycle :
            /\ paddle' = [paddle EXCEPT ![id] = [state |-> state,
                                                end |-> now + Period[cycle]]]
            /\ due' = Later(due, now + Period[cycle])
            /\ Send(id, state, now + Period[cycle])
      BY <2>1 DEF BeginPeriod
    <3> DEFINE end == now + Period[cycle]
    <3>2. end \in Nat
      BY <1>0, ConstantsAssumption
    <3> HIDE DEF end
    <3>3. due' \in Nat /\ due <= due' /\ end <= due'
      BY <1>0, <3>1, <3>2, LaterBounds DEF end
    <3>4. state \in PaddleState /\ state \in {"active", "trialing", "canceled"}
      BY DEF PaddleState
    <3> QED BY <1>1, <1>2, <3>1, <3>2, <3>3, <3>4, SendBeyond DEF end
  <2>2. CASE EndSubscription(id)
    <3>1. /\ paddle' = [paddle EXCEPT ![id] = [state |-> "canceled",
                                              end |-> paddle[id].end]]
          /\ Send(id, "canceled", Null) /\ due' = due
      <4>1. /\ paddle' = [paddle EXCEPT ![id] = [paddle[id] EXCEPT
                                                   !.state = "canceled"]]
            /\ Send(id, "canceled", Null) /\ due' = due
        BY <2>2 DEF EndSubscription
      <4>2. paddle[id] \in [state : PaddleState, end : Nat]
        BY DEF IInv, Beyond
      <4>3. [paddle[id] EXCEPT !.state = "canceled"]
              = [state |-> "canceled", end |-> paddle[id].end]
        BY <4>2
      <4> QED BY <4>1, <4>3
    <3>2. "canceled" \in PaddleState /\ "canceled" \in {"active", "trialing", "canceled"}
      BY DEF PaddleState
    <3>3. due' \in Nat /\ due <= due' /\ paddle[id].end <= due'
      BY <1>0, <3>1
    <3> DEFINE until == paddle[id].end
    <3>4. until \in Nat
      BY <1>0
    <3> HIDE DEF until
    <3> QED BY <1>1, <1>2, <3>1, <3>2, <3>3, <3>4, SendBeyond DEF until
  <2> QED BY <2>1, <2>2 DEF Pay, Renew
<1> QED BY <1>1, <1>3 DEF IInv, Rest

(* Every step keeps the invariant. *)
LEMMA NextIInv == IInv /\ [Next]_vars => IInv'
<1> SUFFICES ASSUME IInv, [Next]_vars PROVE IInv'
  OBVIOUS
<1>1. CASE DeleteProject
  BY <1>1, ProjectIInv
<1>2. CASE IgnoreEvent
  <2>1. seen' \in Nat
    <3>1. \A i \in DOMAIN mail : i \in Nat
      BY DEF IInv, Beyond
    <3> QED BY <1>2, <3>1, LaterBounds DEF IgnoreEvent, IInv, Rest
  <2>2. /\ UNCHANGED <<provider, sub, projects, now, external, req, due, comped>>
        /\ upset \subseteq upset' /\ upset' \subseteq Upset
    BY <1>2 DEF IgnoreEvent, IInv, Account, Upset
  <2>3. due' \in Nat /\ due <= due' /\ now' \in Nat /\ now <= now'
    BY <2>2 DEF IInv, Account, Rest
  <2>4. Account' /\ Limit \subseteq Limit'
    BY <2>2, <2>3, AccountStays
  <2> QED BY <2>1, <2>2, <2>4, SameFlight, SameMail DEF IInv, Beyond, Rest, external
<1>3. CASE Tick
  <2>1. /\ UNCHANGED <<provider, sub, projects, external, req, seen, due, comped, upset>>
        /\ now' = now + 1
    BY <1>3 DEF Tick
  <2>2. due' \in Nat /\ due <= due' /\ now' \in Nat /\ now <= now'
        /\ upset \subseteq upset' /\ upset' \subseteq Upset
    BY <2>1 DEF IInv, Account, Rest
  <2>3. Account' /\ Limit \subseteq Limit'
    BY <2>1, <2>2, AccountStays
  <2> QED BY <2>1, <2>2, <2>3, SameFlight, SameMail DEF IInv, Beyond, Rest, external
<1>4. ASSUME NEW id \in PaddleIds, Pay(id) \/ Renew(id) \/ EndSubscription(id)
      PROVE  IInv'
  BY <1>4, PaddleIInv
<1>5. ASSUME NEW h \in Handlers,
             \/ StartProject(h) \/ Checkout(h) \/ Cancel(h) \/ Administer(h)
      PROVE  IInv'
  <2>1. PICK action \in Action \ {"webhook"}, cycle \in Cycle :
           Open(h, action, FirstStep[action], cycle, 0)
    BY <1>5 DEF StartProject, Checkout, Cancel, Administer, Action, Cycle,
                FirstStep
  <2> QED BY <2>1, OpenIInv
<1>6. ASSUME NEW h \in Handlers, Deliver(h) PROVE IInv'
  <2>1. PICK i \in DOMAIN mail : Open(h, "webhook", "apply", "monthly", i)
    BY <1>6 DEF Deliver
  <2>2. i \in 1 .. Len(mail) /\ i \in Nat
    BY DEF IInv, Beyond
  <2>3. "webhook" \in Action /\ "monthly" \in Cycle
        /\ FirstStep["webhook"] = "apply"
    BY DEF Action, Cycle, FirstStep
  <2> QED BY <2>1, <2>2, <2>3, OpenIInv
<1>7. ASSUME NEW h \in Handlers, CreateRow(h) PROVE IInv'
  BY <1>7, CreateRowIInv
<1>8. ASSUME NEW h \in Handlers, Count(h) \/ InsertProject(h) PROVE IInv'
  BY <1>8, ProjectIInv
<1>9. ASSUME NEW h \in Handlers, SaveCadence(h) \/ FlagCancelled(h) PROVE IInv'
  BY <1>9, OwnerIInv
<1>10. ASSUME NEW h \in Handlers, Activate(h) PROVE IInv'
  BY <1>10, ActivateIInv
<1>11. ASSUME NEW h \in Handlers, OfferCheckout(h) \/ AskProvider(h) PROVE IInv'
  BY <1>11, ProviderIInv
<1>12. ASSUME NEW h \in Handlers, ApplyAdmin(h) PROVE IInv'
  BY <1>12, AdminIInv
<1>13. ASSUME NEW h \in Handlers, ApplyEvent(h) PROVE IInv'
  BY <1>13, EventIInv
<1>14. CASE UNCHANGED vars
  <2>1. UNCHANGED <<provider, sub, projects, now, external, req, seen, due, comped,
                    upset>>
    BY <1>14 DEF vars, external
  <2>2. Account' /\ Limit \subseteq Limit'
    BY <2>1, SameAccount
  <2> QED BY <2>1, <2>2, SameFlight, SameMail DEF IInv, Beyond, Rest, external
<1> QED BY <1>1, <1>2, <1>3, <1>4, <1>5, <1>6, <1>7, <1>8, <1>9, <1>10, <1>11,
           <1>12, <1>13, <1>14 DEF Next

(* The invariant holds in every reachable state. *)
LEMMA Invariance == Spec => []IInv
BY InitIInv, NextIInv, PTL DEF Spec

-----------------------------------------------------------------------------
(* The theorems on the plan                                                 *)

(* The row, the requests in flight and Paddle's events have their types. *)
THEOREM TypeCorrect == Spec => []TypeOK
<1>1. IInv => TypeOK
  BY DEF IInv, Flight, Fine, Account, Beyond, Rest, TypeOK
<1> QED BY <1>1, Invariance, PTL

(* The plan is one that is due: whatever webhooks are repeated, reordered   *)
(* or delayed and whatever saves overlap, nobody is on the paid plan for    *)
(* longer than they paid or have a trial for, or a period from now when an  *)
(* event came without its own (applyPaddleEvent).                           *)
THEOREM PlanIsDue == Spec => []ProIsDue
<1>1. IInv => ProIsDue
  BY DEF IInv, Account, Backed, Earned, Limit, ProIsDue, IsPro
<1> QED BY <1>1, Invariance, PTL

-----------------------------------------------------------------------------
(* The quota                                                                *)

Slots == Quota + Cardinality(Handlers)

Past == \A p \in Projects : projects[p] # Null => projects[p].month <= now

(* Both sets of the bound are finite. *)
LEMMA QuotaSets ==
    /\ \A month : IsFiniteSet(Metered(month)) /\ Cardinality(Metered(month)) \in Nat
    /\ IsFiniteSet(Admitted) /\ Cardinality(Admitted) \in Nat
    /\ Cardinality(Admitted) <= Cardinality(Handlers)
    /\ Cardinality(Handlers) \in Nat
<1>1. ASSUME NEW month
      PROVE  IsFiniteSet(Metered(month)) /\ Cardinality(Metered(month)) \in Nat
  <2>1. Metered(month) \in SUBSET Projects
    BY DEF Metered
  <2>2. IsFiniteSet(Metered(month))
    BY <2>1, FS_Subset, ConstantsAssumption
  <2> QED BY <2>2, FS_CardinalityType
<1>2. Admitted \in SUBSET Handlers
  BY DEF Admitted
<1>3. /\ IsFiniteSet(Admitted)
      /\ Cardinality(Admitted) <= Cardinality(Handlers)
  BY <1>2, FS_Subset, ConstantsAssumption
<1>4. Cardinality(Admitted) \in Nat /\ Cardinality(Handlers) \in Nat
  BY <1>3, FS_CardinalityType, ConstantsAssumption
<1> QED BY <1>1, <1>3, <1>4

(* The same sets after a step. *)
LEMMA QuotaSetsNext ==
    /\ \A month : IsFiniteSet(Metered(month)') /\ Cardinality(Metered(month)') \in Nat
    /\ IsFiniteSet(Admitted') /\ Cardinality(Admitted') \in Nat
    /\ Cardinality(Admitted') <= Cardinality(Handlers)
<1>1. ASSUME NEW month
      PROVE  IsFiniteSet(Metered(month)') /\ Cardinality(Metered(month)') \in Nat
  <2>1. Metered(month)' \in SUBSET Projects
    BY DEF Metered
  <2>2. IsFiniteSet(Metered(month)')
    BY <2>1, FS_Subset, ConstantsAssumption
  <2> QED BY <2>2, FS_CardinalityType
<1>2. Admitted' \in SUBSET Handlers
  BY DEF Admitted
<1>3. /\ IsFiniteSet(Admitted')
      /\ Cardinality(Admitted') <= Cardinality(Handlers)
  BY <1>2, FS_Subset, ConstantsAssumption
<1>4. Cardinality(Admitted') \in Nat
  BY <1>3, FS_CardinalityType
<1> QED BY <1>1, <1>3, <1>4

(* A step that admits nobody and stores no project keeps the bound. *)
LEMMA QuotaShrinks ==
    ASSUME QuotaBounded, now' = now, Admitted' \subseteq Admitted,
           \A month : Metered(month)' \subseteq Metered(month)
    PROVE  QuotaBounded'
<1> SUFFICES ASSUME NEW month \in 0 .. now
             PROVE  Cardinality(Metered(month)') +
                    (IF month = now THEN Cardinality(Admitted') ELSE 0) < Slots
  BY DEF QuotaBounded, Slots
<1>1. Cardinality(Metered(month)') <= Cardinality(Metered(month))
  <2>1. Metered(month)' \in SUBSET Metered(month)
    OBVIOUS
  <2> QED BY <2>1, QuotaSets, FS_Subset
<1>2. Cardinality(Admitted') <= Cardinality(Admitted)
  <2>1. Admitted' \in SUBSET Admitted
    OBVIOUS
  <2> QED BY <2>1, QuotaSets, FS_Subset
<1>3. Cardinality(Metered(month)) +
      (IF month = now THEN Cardinality(Admitted) ELSE 0) < Slots
  BY DEF QuotaBounded, Slots
<1> DEFINE a == Cardinality(Metered(month))
           b == Cardinality(Admitted)
           c == Cardinality(Metered(month)')
           d == Cardinality(Admitted')
<1>4. a \in Nat /\ b \in Nat /\ c \in Nat /\ d \in Nat /\ Slots \in Nat
  BY QuotaSets, QuotaSetsNext, ConstantsAssumption DEF Slots
<1> HIDE DEF a, b, c, d, Slots
<1>5. c + (IF month = now THEN d ELSE 0) < Slots
  BY <1>1, <1>2, <1>3, <1>4 DEF a, b, c, d
<1> QED BY <1>5 DEF c, d

(* A start is admitted while the month has room for it, or is not metered. *)
LEMMA CountQuota ==
    ASSUME IInv, QuotaBounded, NEW h \in Handlers, Count(h)
    PROVE  QuotaBounded'
<1> DEFINE r == req[h]
           n == [r EXCEPT !.pc = "insert", !.metered = ~IsPro(r.row)]
<1>1. /\ r # Null /\ UNCHANGED <<projects, now>>
      /\ \/ req' = [req EXCEPT ![h] = Null]
         \/ /\ req' = [req EXCEPT ![h] = n]
            /\ IsPro(r.row) \/ WithinQuota(Used)
  BY DEF Count, Done
<1>2. r \in Request /\ req \in [Handlers -> Request \cup {Null}]
  BY <1>1 DEF IInv, Flight, Fine
<1>3. n.metered = ~IsPro(r.row)
  BY <1>2 DEF Request
<1> HIDE DEF n
<1>4. \A month : Metered(month)' = Metered(month)
  BY <1>1 DEF Metered
<1>5. CASE req'[h] = Null \/ (req'[h] = n /\ IsPro(r.row))
  <2>1. Admitted' \subseteq Admitted
    BY <1>1, <1>2, <1>3, <1>5 DEF Admitted
  <2> QED BY <1>1, <1>4, <2>1, QuotaShrinks
<1>6. CASE WithinQuota(Used)
  <2> DEFINE held == {p \in Projects :
                        projects[p] # Null /\ projects[p].month >= now}
  <2>1. Metered(now) \in SUBSET held
    <3>1. now <= now
      BY DEF IInv, Rest
    <3> QED BY <3>1 DEF Metered
  <2>2. held \in SUBSET Projects
    OBVIOUS
  <2>3. IsFiniteSet(held) /\ Cardinality(held) \in Nat
    BY <2>2, FS_Subset, FS_CardinalityType, ConstantsAssumption
  <2>4. Cardinality(Metered(now)) <= Cardinality(held)
    BY <2>1, <2>3, FS_Subset
  <2>5. Cardinality(held) < Quota
    BY <1>6 DEF WithinQuota, Used
  <2>6. ASSUME NEW month \in 0 .. now
        PROVE  Cardinality(Metered(month)') +
               (IF month = now THEN Cardinality(Admitted') ELSE 0) < Slots
    <3> DEFINE a == Cardinality(Metered(month))
               b == Cardinality(Admitted)
               d == Cardinality(Admitted')
               k == Cardinality(Handlers)
               m == Cardinality(held)
    <3>1. /\ a \in Nat /\ b \in Nat /\ d \in Nat /\ k \in Nat /\ m \in Nat
          /\ Quota \in Nat /\ d <= k
      BY <2>3, QuotaSets, QuotaSetsNext, ConstantsAssumption
    <3>2. Cardinality(Metered(month)') = a
      BY <1>4
    <3>3. a + (IF month = now THEN b ELSE 0) < Quota + k
      BY DEF QuotaBounded
    <3>4. month = now => a <= m
      BY <2>4
    <3> HIDE DEF a, b, d, k, m
    <3>5. a + (IF month = now THEN d ELSE 0) < Quota + k
      BY <2>5, <3>1, <3>3, <3>4 DEF m
    <3> QED BY <3>2, <3>5 DEF d, k, Slots
  <2> QED BY <1>1, <2>6 DEF QuotaBounded, Slots
<1> QED BY <1>1, <1>2, <1>5, <1>6

(* A stored project takes the place of the start it was admitted by. *)
LEMMA InsertQuota ==
    ASSUME IInv, QuotaBounded, NEW h \in Handlers, InsertProject(h)
    PROVE  QuotaBounded'
<1> DEFINE r == req[h]
<1>1. /\ r # Null /\ r.pc = "insert" /\ now' = now
      /\ req' = [req EXCEPT ![h] = Null]
  BY DEF InsertProject, Done
<1>2. PICK p \in Projects :
        /\ projects[p] = Null
        /\ projects' = [projects EXCEPT ![p] = [month |-> now,
                                               metered |-> r.metered]]
  BY DEF InsertProject
<1>3. /\ req \in [Handlers -> Request \cup {Null}]
      /\ projects \in [Projects -> Project \cup {Null}]
  BY DEF IInv, Flight, Rest
<1>4. Admitted' = Admitted \ {h}
  BY <1>1, <1>3 DEF Admitted
<1>5. \A q \in Projects : projects'[q] = IF q = p
                             THEN [month |-> now, metered |-> r.metered]
                             ELSE projects[q]
  BY <1>2, <1>3
<1>6. [month |-> now, metered |-> r.metered] # Null
  <2>1. r \in Request
    BY <1>1, <1>3
  <2>2. [month |-> now, metered |-> r.metered] \in Project
    BY <2>1 DEF Request, Project, IInv, Rest
  <2> QED BY <2>2, NullAssumption
<1>7. CASE ~r.metered
  <2>1. \A month : Metered(month)' \subseteq Metered(month)
    BY <1>5, <1>7 DEF Metered
  <2> QED BY <1>1, <1>4, <2>1, QuotaShrinks
<1>8. CASE r.metered
  <2>1. /\ Metered(now)' = Metered(now) \cup {p} /\ p \notin Metered(now)
        /\ \A month : month # now => Metered(month)' = Metered(month)
    BY <1>1, <1>2, <1>5, <1>6, <1>8 DEF Metered
  <2>2. h \in Admitted
    BY <1>1, <1>8 DEF Admitted
  <2>3. Cardinality(Admitted') = Cardinality(Admitted) - 1
    BY <1>4, <2>2, QuotaSets, FS_RemoveElement
  <2>4. Cardinality(Metered(now)') = Cardinality(Metered(now)) + 1
    BY <2>1, QuotaSets, FS_AddElement
  <2>5. ASSUME NEW month \in 0 .. now
        PROVE  Cardinality(Metered(month)') +
               (IF month = now THEN Cardinality(Admitted') ELSE 0) < Slots
    <3>1. Cardinality(Metered(month)) +
          (IF month = now THEN Cardinality(Admitted) ELSE 0) < Slots
      BY DEF QuotaBounded, Slots
    <3>2. CASE month = now
      <4> DEFINE a == Cardinality(Metered(now))
                 b == Cardinality(Admitted)
      <4>1. a \in Nat /\ b \in Nat
        BY QuotaSets
      <4>2. Slots \in Nat
        BY QuotaSets, ConstantsAssumption DEF Slots
      <4>3. a + b < Slots
        BY <3>1, <3>2
      <4> HIDE DEF a, b
      <4>4. (a + 1) + (b - 1) < Slots
        BY <4>1, <4>2, <4>3
      <4> QED BY <1>1, <2>3, <2>4, <3>2, <4>4 DEF a, b
    <3>3. CASE month # now
      <4>1. Metered(month)' = Metered(month)
        BY <2>1, <3>3
      <4> QED BY <3>1, <3>3, <4>1
    <3> QED BY <3>2, <3>3
  <2> QED BY <1>1, <2>5 DEF QuotaBounded, Slots
<1> QED BY <1>7, <1>8

(* A new month starts with only what is in flight. *)
LEMMA TickQuota ==
    ASSUME IInv, Past, QuotaBounded, Tick
    PROVE  QuotaBounded'
<1>1. now \in Nat /\ now' = now + 1 /\ UNCHANGED <<projects, req>>
  BY DEF Tick, IInv, Rest
<1>2. Admitted' = Admitted /\ \A month : Metered(month)' = Metered(month)
  BY <1>1 DEF Admitted, Metered
<1>3. ASSUME NEW month \in 0 .. now + 1
      PROVE  Cardinality(Metered(month)) +
             (IF month = now + 1 THEN Cardinality(Admitted) ELSE 0) < Slots
  <2> DEFINE a == Cardinality(Metered(month))
             b == Cardinality(Admitted)
             k == Cardinality(Handlers)
  <2>1. a \in Nat /\ b \in Nat /\ k \in Nat /\ b <= k /\ Quota \in Nat /\ Quota > 0
    BY QuotaSets, ConstantsAssumption
  <2>2. CASE month = now + 1
    <3>1. Metered(month) = {}
      <4>1. ASSUME NEW q \in Projects, projects[q] # Null
            PROVE  projects[q].month # now + 1
        <5>1. projects[q] \in Project
          BY <4>1 DEF IInv, Rest
        <5>2. projects[q].month \in Nat /\ projects[q].month <= now
          BY <4>1, <5>1 DEF Project, Past
        <5> QED BY <1>1, <5>2
      <4> QED BY <2>2, <4>1 DEF Metered
    <3>2. a = 0
      BY <3>1, FS_EmptySet
    <3> HIDE DEF a, b, k
    <3>3. a + b < Quota + k
      BY <2>1, <3>2
    <3> QED BY <2>2, <3>3 DEF a, b, k, Slots
  <2>3. CASE month # now + 1
    <3>1. month \in 0 .. now
      BY <1>1, <2>3
    <3>2. a + (IF month = now THEN b ELSE 0) < Quota + k
      BY <3>1 DEF QuotaBounded
    <3> HIDE DEF a, b, k
    <3>3. a + 0 < Quota + k
      BY <2>1, <3>2
    <3> QED BY <2>3, <3>3 DEF a, k, Slots
  <2> QED BY <2>2, <2>3
<1> QED BY <1>1, <1>2, <1>3 DEF QuotaBounded, Slots

(* No other step admits a start or stores a project. *)
LEMMA OtherQuota ==
    ASSUME IInv, [Next]_vars
    PROVE  \/ Tick
           \/ \E h \in Handlers : Count(h) \/ InsertProject(h)
           \/ /\ now' = now /\ Admitted' \subseteq Admitted
              /\ \A p \in Projects : projects'[p] \in {projects[p], Null}
<1> DEFINE Quiet == /\ now' = now /\ Admitted' \subseteq Admitted
                    /\ \A p \in Projects : projects'[p] \in {projects[p], Null}
<1>0. /\ req \in [Handlers -> Request \cup {Null}]
      /\ projects \in [Projects -> Project \cup {Null}]
  BY DEF IInv, Flight, Rest
<1>1. ASSUME NEW h \in Handlers, NEW r, req' = [req EXCEPT ![h] = r],
             r = Null \/ r.pc # "insert", UNCHANGED <<now, projects>>
      PROVE  Quiet
  BY <1>0, <1>1 DEF Admitted
<1>2. ASSUME UNCHANGED <<now, req, projects>> PROVE Quiet
  BY <1>2 DEF Admitted
<1>3. ASSUME DeleteProject PROVE Quiet
  BY <1>0, <1>3 DEF DeleteProject, Admitted
<1>4. ASSUME NEW h \in Handlers, NEW action \in Action, NEW cycle, NEW event,
             Open(h, action, FirstStep[action], cycle, event)
      PROVE  Quiet
  <2> DEFINE n == [pc |-> IF sub = Null THEN "create" ELSE FirstStep[action],
                   action |-> action, row |-> sub, cycle |-> cycle,
                   event |-> event, metered |-> FALSE]
  <2>1. req' = [req EXCEPT ![h] = n] /\ UNCHANGED <<now, projects>>
    BY <1>4 DEF Open
  <2>2. n.pc # "insert"
    BY DEF FirstStep, Action
  <2> HIDE DEF n
  <2> QED BY <1>1, <2>1, <2>2
<1>5. ASSUME NEW h \in Handlers,
             \/ StartProject(h) \/ Checkout(h) \/ Cancel(h) \/ Administer(h)
             \/ Deliver(h)
      PROVE  Quiet
  <2>1. \E action \in Action : \E cycle, event :
           Open(h, action, FirstStep[action], cycle, event)
    BY <1>5 DEF StartProject, Checkout, Cancel, Administer, Deliver, Action,
                FirstStep
  <2> QED BY <1>4, <2>1
<1>6. ASSUME NEW h \in Handlers, CreateRow(h) PROVE Quiet
  <2> DEFINE n == [req[h] EXCEPT !.row = FreeRow, !.pc = FirstStep[req[h].action]]
  <2>1. /\ req[h] # Null /\ UNCHANGED <<now, projects>>
        /\ req' = [req EXCEPT ![h] = n] \/ req' = [req EXCEPT ![h] = Null]
    BY <1>6 DEF CreateRow
  <2>2. n.pc # "insert"
    BY <1>0, <2>1 DEF FirstStep, Request, Action
  <2> HIDE DEF n
  <2> QED BY <1>1, <2>1, <2>2
<1>7. ASSUME NEW h \in Handlers, SaveCadence(h) \/ AskProvider(h)
      PROVE  Quiet
  <2>1. PICK pc \in {"activate", "flag"} : \E row :
          /\ req[h] # Null /\ UNCHANGED <<now, projects>>
          /\ \/ req' = [req EXCEPT ![h] = [req[h] EXCEPT !.pc = pc, !.row = row]]
             \/ req' = [req EXCEPT ![h] = [req[h] EXCEPT !.pc = pc]]
             \/ req' = [req EXCEPT ![h] = Null]
    BY <1>7 DEF SaveCadence, AskProvider, Done
  <2>2. /\ \A row : [req[h] EXCEPT !.pc = pc, !.row = row].pc = pc
        /\ [req[h] EXCEPT !.pc = pc].pc = pc
    BY <1>0, <2>1 DEF Request
  <2> QED BY <1>1, <2>1, <2>2
<1>8. ASSUME NEW h \in Handlers,
             \/ Activate(h) \/ OfferCheckout(h) \/ FlagCancelled(h)
             \/ ApplyAdmin(h) \/ ApplyEvent(h)
      PROVE  Quiet
  <2>1. req' = [req EXCEPT ![h] = Null] /\ UNCHANGED <<now, projects>>
    BY <1>8 DEF Activate, OfferCheckout, FlagCancelled, ApplyAdmin, ApplyEvent,
                Done
  <2> QED BY <1>1, <2>1
<1>9. ASSUME NEW id \in PaddleIds, Pay(id) \/ Renew(id) \/ EndSubscription(id)
      PROVE  Quiet
  <2>1. UNCHANGED <<now, req, projects>>
    BY <1>9 DEF Pay, Renew, EndSubscription
  <2> QED BY <1>2, <2>1
<1>10. ASSUME IgnoreEvent PROVE Quiet
  BY <1>2, <1>10 DEF IgnoreEvent
<1>11. ASSUME UNCHANGED vars PROVE Quiet
  BY <1>2, <1>11 DEF vars
<1> HIDE DEF Quiet
<1>12. ASSUME Next, ~Tick, \A h \in Handlers : ~(Count(h) \/ InsertProject(h))
       PROVE  Quiet
  BY <1>3, <1>5, <1>6, <1>7, <1>8, <1>9, <1>10, <1>12 DEF Next
<1>13. Quiet \/ Tick \/ \E h \in Handlers : Count(h) \/ InsertProject(h)
  BY <1>11, <1>12
<1> QED BY <1>13 DEF Quiet

(* Starts in flight together pass the free plan's quota by less than their  *)
(* number, in any month, with any number of projects.                       *)
THEOREM QuotaKept == Spec => []QuotaBounded
<1>1. Init => Past /\ QuotaBounded
  <2> SUFFICES ASSUME Init PROVE Past /\ QuotaBounded
    OBVIOUS
  <2>1. Past /\ Admitted = {} /\ \A month : Metered(month) = {}
    BY DEF Init, Past, Admitted, Metered
  <2>2. Cardinality({}) = 0 /\ Quota \in Nat /\ Quota > 0
        /\ Cardinality(Handlers) \in Nat
    BY FS_EmptySet, QuotaSets, ConstantsAssumption
  <2> QED BY <2>1, <2>2 DEF QuotaBounded
<1>2. IInv /\ Past /\ QuotaBounded /\ [Next]_vars => (Past /\ QuotaBounded)'
  <2> SUFFICES ASSUME IInv, Past, QuotaBounded, [Next]_vars
               PROVE  Past' /\ QuotaBounded'
    OBVIOUS
  <2>0. now \in Nat /\ \A p \in Projects : projects[p] # Null => projects[p] \in Project
    BY DEF IInv, Rest
  <2>1. CASE Tick
    <3>1. Past'
      BY <2>0, <2>1 DEF Tick, Past, Project
    <3> QED BY <2>1, <3>1, TickQuota
  <2>2. ASSUME NEW h \in Handlers, Count(h) PROVE Past' /\ QuotaBounded'
    <3>1. Past'
      BY <2>2 DEF Count, Past
    <3> QED BY <2>2, <3>1, CountQuota
  <2>3. ASSUME NEW h \in Handlers, InsertProject(h)
        PROVE  Past' /\ QuotaBounded'
    <3>1. Past'
      BY <2>0, <2>3 DEF InsertProject, Past, IInv, Rest
    <3> QED BY <2>3, <3>1, InsertQuota
  <2>4. CASE /\ now' = now /\ Admitted' \subseteq Admitted
             /\ \A p \in Projects : projects'[p] \in {projects[p], Null}
    <3>1. Past'
      BY <2>4 DEF Past
    <3>2. \A month : Metered(month)' \subseteq Metered(month)
      BY <2>4 DEF Metered
    <3> QED BY <2>4, <3>1, <3>2, QuotaShrinks
  <2> QED BY <2>1, <2>2, <2>3, <2>4, OtherQuota
<1> QED BY <1>1, <1>2, Invariance, PTL DEF Spec

=============================================================================
