---------------------------- MODULE BillingServed ----------------------------
(* Theorems about Billing and Paddle together: a cancellation that is shown *)
(* is one Paddle knows of, and who pays Paddle is served.                   *)
EXTENDS BillingProofs

(* The states of a subscription that was begun, and that will not be        *)
(* charged again.  Neither is ever left.                                    *)
Started == {"trialing", "active", "scheduled", "canceled"}

Ended == {"scheduled", "canceled"}

(* A row names a subscription that exists, and is marked as cancelled only  *)
(* if Paddle's is, unless a call to Paddle failed.                          *)
Agrees(row, pd, failed) ==
    row # Null /\ row.paddle # Null =>
        /\ pd[row.paddle].state \in Started
        /\ ~failed /\ row.cancelAtEnd => pd[row.paddle].state \in Ended

(* So does every copy of it, and a request that is about to mark it has     *)
(* told Paddle.                                                             *)
Asked(r, pd, failed) ==
    /\ Agrees(r.row, pd, failed)
    /\ r.pc = "flag" /\ r.row.paddle # Null /\ ~failed =>
            pd[r.row.paddle].state \in Ended

Failed == "failed" \in upset

(* The inductive invariant of the cancellation. *)
Told ==
    /\ provider # "paddle" =>
         mail = <<>> /\ \A id \in PaddleIds : paddle[id].state = "none"
    /\ \A i \in 1 .. Len(mail) : paddle[mail[i].id].state \in Started
    /\ Agrees(sub, paddle, Failed)
    /\ \A h \in Handlers : req[h] # Null => Asked(req[h], paddle, Failed)

(* What no step takes back. *)
Onward ==
    /\ \A id \in PaddleIds :
         /\ paddle[id].state \in Started => paddle'[id].state \in Started
         /\ paddle[id].state \in Ended => paddle'[id].state \in Ended
    /\ Failed => Failed'

-----------------------------------------------------------------------------
(* Lemmas                                                                   *)

(* What agrees with Paddle still does after any step. *)
LEMMA AgreesStays ==
    ASSUME NEW row \in Row \cup {Null}, Onward, Agrees(row, paddle, Failed)
    PROVE  Agrees(row, paddle', Failed')
<1>1. row # Null /\ row.paddle # Null => row.paddle \in PaddleIds
  BY DEF Row
<1> QED BY <1>1 DEF Agrees, Onward

(* So does a request that agrees with it. *)
LEMMA AskedStays ==
    ASSUME NEW r \in Request, Onward, Asked(r, paddle, Failed),
           r.pc = "flag" => r.row # Null
    PROVE  Asked(r, paddle', Failed')
<1>1. r.row \in Row \cup {Null}
  BY DEF Request
<1>2. r.pc = "flag" /\ r.row.paddle # Null => r.row.paddle \in PaddleIds
  BY <1>1 DEF Row
<1>3. Agrees(r.row, paddle', Failed')
  BY <1>1, AgreesStays DEF Asked
<1> QED BY <1>2, <1>3 DEF Asked, Onward

(* A step that moves one request, and saves a row that agrees or none. *)
LEMMA ToldStep ==
    ASSUME IInv, Told, Onward, NEW h \in Handlers, NEW r,
           req' = [req EXCEPT ![h] = r],
           r = Null \/ Asked(r, paddle', Failed'),
           sub' = sub \/ Agrees(sub', paddle', Failed'),
           UNCHANGED <<provider, mail>>,
           provider # "paddle" => UNCHANGED paddle
    PROVE  Told'
<1>1. \A i \in 1 .. Len(mail) : paddle'[mail[i].id].state \in Started
  <2>1. \A i \in 1 .. Len(mail) : mail[i].id \in PaddleIds
    <3>1. \A i \in 1 .. Len(mail) : mail[i] \in Event
      BY DEF IInv, Beyond
    <3> QED BY <3>1 DEF Event
  <2> QED BY <2>1 DEF Told, Onward
<1>2. Agrees(sub', paddle', Failed')
  <2>1. CASE sub' = sub
    BY <2>1, AgreesStays DEF Told, IInv, Account
  <2> QED BY <2>1
<1>3. ASSUME NEW g \in Handlers, req'[g] # Null
      PROVE  Asked(req'[g], paddle', Failed')
  <2>1. CASE g = h
    BY <1>3, <2>1 DEF IInv, Flight
  <2>2. CASE g # h
    <3>1. req'[g] = req[g]
      BY <2>2 DEF IInv, Flight
    <3>2. req[g] \in Request /\ (req[g].pc = "flag" => req[g].row # Null)
      BY <1>3, <3>1 DEF IInv, Flight, Fine
    <3> QED BY <1>3, <3>1, <3>2, AskedStays DEF Told
  <2> QED BY <2>1, <2>2
<1> QED BY <1>1, <1>2, <1>3 DEF Told

(* What is in flight is a request that agrees with Paddle. *)
LEMMA InFlight ==
    ASSUME IInv, Told, NEW h \in Handlers, req[h] # Null
    PROVE  /\ req[h] \in Request /\ Asked(req[h], paddle, Failed)
           /\ req[h].row \in Row \cup {Null}
           /\ req[h].pc # "create" => req[h].row # Null /\ req[h].row \in Row
<1>1. Fine(req[h], Len(mail), Limit)
  BY DEF IInv, Flight
<1>2. req[h].row \in Row \cup {Null}
  BY <1>1 DEF Fine, Request
<1> QED BY <1>1, <1>2 DEF Told, Fine

(* Nothing Paddle has changes where Paddle is not asked. *)
LEMMA QuietOnward ==
    ASSUME UNCHANGED paddle, upset \subseteq upset'
    PROVE  Onward
BY DEF Onward, Failed

-----------------------------------------------------------------------------
(* One lemma per kind of step                                               *)

(* A request that comes in holds the stored row. *)
LEMMA OpenTold ==
    ASSUME IInv, Told, NEW h \in Handlers, NEW action, NEW cycle, NEW event,
           NEW first, first # "flag", Open(h, action, first, cycle, event)
    PROVE  Told'
<1> DEFINE r == [pc |-> IF sub = Null THEN "create" ELSE first,
                 action |-> action, row |-> sub, cycle |-> cycle,
                 event |-> event, metered |-> FALSE]
<1>1. req' = [req EXCEPT ![h] = r]
      /\ UNCHANGED <<provider, sub, external, upset>>
  BY DEF Open
<1>2. r.row = sub /\ r.pc # "flag"
  OBVIOUS
<1> HIDE DEF r
<1>3. Asked(r, paddle', Failed')
  BY <1>1, <1>2 DEF Told, Asked, external, Failed
<1> QED BY <1>1, <1>3, ToldStep, QuietOnward DEF external

(* A new row names no subscription. *)
LEMMA CreateRowTold ==
    ASSUME IInv, Told, NEW h \in Handlers, CreateRow(h)
    PROVE  Told'
<1> DEFINE n == [req[h] EXCEPT !.row = FreeRow, !.pc = FirstStep[req[h].action]]
<1>1. /\ req[h] # Null
      /\ \/ sub' = FreeRow /\ req' = [req EXCEPT ![h] = n]
         \/ sub' = sub /\ req' = [req EXCEPT ![h] = Null]
      /\ UNCHANGED <<provider, external, upset>>
  BY DEF CreateRow
<1>2. req[h] \in Request
  BY <1>1, InFlight
<1>3. n.row = FreeRow /\ n.pc # "flag"
  BY <1>2 DEF Request, FirstStep, Action
<1> HIDE DEF n
<1>4. FreeRow.paddle = Null
  BY DEF FreeRow
<1>5. Agrees(FreeRow, paddle', Failed') /\ Asked(n, paddle', Failed')
  BY <1>3, <1>4 DEF Agrees, Asked
<1>6. Onward
  BY <1>1, QuietOnward DEF external
<1> QED BY <1>1, <1>5, <1>6, ToldStep DEF external

(* A start saves no row. *)
LEMMA ProjectTold ==
    ASSUME IInv, Told, NEW h \in Handlers, Count(h) \/ InsertProject(h)
    PROVE  Told'
<1> DEFINE n == [req[h] EXCEPT !.pc = "insert", !.metered = ~IsPro(req[h].row)]
<1>1. /\ req[h] # Null
      /\ req' = [req EXCEPT ![h] = n] \/ req' = [req EXCEPT ![h] = Null]
      /\ UNCHANGED <<provider, sub, external, upset>>
  BY DEF Count, InsertProject, Done
<1>2. req[h] \in Request /\ Asked(req[h], paddle, Failed)
  BY <1>1, InFlight
<1>3. n.row = req[h].row /\ n.pc = "insert"
  BY <1>2 DEF Request
<1> HIDE DEF n
<1>4. Asked(n, paddle', Failed')
  BY <1>1, <1>2, <1>3 DEF Asked, external, Failed
<1> QED BY <1>1, <1>4, ToldStep, QuietOnward DEF external

(* The cadence is neither the mark nor the subscription; the mark is set    *)
(* only once Paddle was told.                                               *)
LEMMA OwnerTold ==
    ASSUME IInv, Told, NEW h \in Handlers, SaveCadence(h) \/ FlagCancelled(h)
    PROVE  Told'
<1> DEFINE r == req[h]
<1>1. r # Null /\ r.pc # "create" /\ upset \subseteq upset'
      /\ UNCHANGED <<provider, external>>
  BY DEF SaveCadence, FlagCancelled, Save
<1>2. r \in Request /\ Asked(r, paddle, Failed) /\ r.row \in Row
  BY <1>1, InFlight
<1>3. Onward
  BY <1>1, QuietOnward DEF external
<1>4. Asked(r, paddle', Failed')
  BY <1>1, <1>2, <1>3, AskedStays, NullAssumption
<1>5. CASE FlagCancelled(h)
  <2> DEFINE row == [r.row EXCEPT !.cancelAtEnd = TRUE]
  <2>1. sub' = row /\ req' = [req EXCEPT ![h] = Null] /\ r.pc = "flag"
    BY <1>5 DEF FlagCancelled, Save, Done
  <2>2. row.paddle = r.row.paddle
    BY <1>2 DEF Row
  <2> HIDE DEF row
  <2>3. Agrees(row, paddle', Failed')
    BY <1>2, <1>4, <2>1, <2>2, NullAssumption DEF Asked, Agrees
  <2> QED BY <1>1, <1>3, <2>1, <2>3, ToldStep DEF external
<1>6. CASE SaveCadence(h)
  <2> DEFINE row == [r.row EXCEPT !.cycle = r.cycle]
             n == [r EXCEPT !.pc = "activate", !.row = row]
  <2>1. sub' \in {sub, row} /\ req' = [req EXCEPT ![h] = n]
    BY <1>6 DEF SaveCadence, Save
  <2>2. row.paddle = r.row.paddle /\ row.cancelAtEnd = r.row.cancelAtEnd
    BY <1>2 DEF Row
  <2>3. n.row = row /\ n.pc = "activate"
    BY <1>2 DEF Request
  <2> HIDE DEF row, n
  <2>4. Agrees(row, paddle', Failed')
    BY <1>2, <1>4, <2>2, NullAssumption DEF Asked, Agrees
  <2>5. Asked(n, paddle', Failed')
    BY <2>3, <2>4 DEF Asked
  <2> QED BY <1>1, <1>3, <2>1, <2>4, <2>5, ToldStep DEF external
<1> QED BY <1>5, <1>6

(* What is activated is not cancelled. *)
LEMMA ActivateTold ==
    ASSUME IInv, Told, NEW h \in Handlers, Activate(h)
    PROVE  Told'
<1> DEFINE r == req[h]
           row == ProState(r.row, now + Period[r.cycle], r.row.paddle)
<1>1. /\ r # Null /\ r.pc = "activate" /\ sub' = row
      /\ req' = [req EXCEPT ![h] = Null] /\ upset \subseteq upset'
      /\ UNCHANGED <<provider, external>>
  BY DEF Activate, Done, Save
<1>2. Asked(r, paddle, Failed) /\ r.row \in Row /\ r.row # Null
  BY <1>1, InFlight
<1>3. Onward
  BY <1>1, QuietOnward DEF external
<1>4. row.paddle = r.row.paddle /\ row.cancelAtEnd = FALSE
  BY <1>2 DEF Row, ProState
<1> HIDE DEF row
<1>5. Agrees(row, paddle', Failed')
  BY <1>1, <1>2, <1>4 DEF Asked, Agrees, external
<1> QED BY <1>1, <1>3, <1>5, ToldStep DEF external

(* Paddle offers what is new, and schedules the end of what runs.      *)
LEMMA ProviderOnward ==
    ASSUME IInv, NEW h \in Handlers, OfferCheckout(h) \/ AskProvider(h)
    PROVE  Onward /\ (provider # "paddle" => UNCHANGED paddle)
<1>1. paddle \in [PaddleIds -> [state : PaddleState, end : Nat]]
  BY DEF IInv, Beyond
<1>2. Failed => Failed'
  BY DEF OfferCheckout, AskProvider, Failed
<1>3. CASE UNCHANGED paddle
  BY <1>2, <1>3 DEF Onward
<1>4. CASE OfferCheckout(h)
  <2>1. PICK id \in PaddleIds :
           /\ paddle[id].state = "none"
           /\ paddle' = [paddle EXCEPT ![id].state = "offered"]
    BY <1>4 DEF OfferCheckout
  <2>2. \A q \in PaddleIds : q # id => paddle'[q] = paddle[q]
    BY <1>1, <2>1
  <2>3. paddle[id].state \notin Started \cup Ended
    BY <2>1 DEF Started, Ended
  <2> QED BY <1>2, <1>4, <2>2, <2>3 DEF Onward, OfferCheckout
<1>5. CASE AskProvider(h) /\ ~UNCHANGED paddle
  <2> DEFINE id == req[h].row.paddle
  <2>1. /\ paddle' = [paddle EXCEPT ![id].state = IF @ \in {"trialing", "active"}
                                                  THEN "scheduled" ELSE @]
        /\ provider = "paddle"
    BY <1>5 DEF AskProvider
  <2> HIDE DEF id
  <2>2. \A q \in PaddleIds : paddle'[q].state \in {paddle[q].state, "scheduled"}
    BY <1>1, <2>1
  <2> QED BY <1>2, <2>1, <2>2 DEF Onward, Started, Ended
<1> QED BY <1>3, <1>4, <1>5

(* A request goes on to mark the row when Paddle was told, or the call      *)
(* failed, or there is nothing to tell.                                     *)
LEMMA ProviderTold ==
    ASSUME IInv, Told, NEW h \in Handlers, OfferCheckout(h) \/ AskProvider(h)
    PROVE  Told'
<1> DEFINE r == req[h]
           n == [r EXCEPT !.pc = "flag"]
           id == r.row.paddle
<1>1. /\ r # Null /\ r.pc # "create" /\ UNCHANGED <<provider, sub, mail>>
      /\ \/ req' = [req EXCEPT ![h] = Null]
         \/ AskProvider(h) /\ req' = [req EXCEPT ![h] = n]
  BY DEF OfferCheckout, AskProvider, Done
<1>2. /\ r \in Request /\ Asked(r, paddle, Failed)
      /\ r.row \in Row /\ r.row # Null
  BY <1>1, InFlight
<1>3. Onward /\ (provider # "paddle" => UNCHANGED paddle)
  BY ProviderOnward
<1>4. CASE req' = [req EXCEPT ![h] = Null]
  BY <1>1, <1>3, <1>4, ToldStep
<1>5. CASE AskProvider(h) /\ req' = [req EXCEPT ![h] = n]
  <2>1. Agrees(r.row, paddle', Failed')
    BY <1>2, <1>3, AgreesStays DEF Asked
  <2>2. n.row = r.row /\ n # Null
    BY <1>2, NullAssumption DEF Request
  <2>3. id # Null => id \in PaddleIds /\ paddle[id].state \in Started
    BY <1>2 DEF Asked, Agrees, Row
  <2>4. id # Null => provider = "paddle"
    BY <2>3 DEF Told, Started
  <2>5. ASSUME id # Null, ~Failed'
        PROVE  paddle' = [paddle EXCEPT ![id].state =
                            IF @ \in {"trialing", "active"}
                            THEN "scheduled" ELSE @]
    <3>1. req'[h] # Null
      BY <1>5, <2>2 DEF IInv, Flight
    <3>2. IsPro(r.row)
      BY <1>5, <3>1 DEF AskProvider, Done, IInv, Flight
    <3> QED BY <1>5, <2>4, <2>5, <3>1, <3>2 DEF AskProvider, Done, IInv, Flight, Failed
  <2>6. ASSUME id # Null, ~Failed'
        PROVE  paddle'[id].state \in Ended
    <3>1. paddle'[id].state = IF paddle[id].state \in {"trialing", "active"}
                              THEN "scheduled" ELSE paddle[id].state
      BY <2>3, <2>5, <2>6 DEF IInv, Beyond
    <3> QED BY <2>3, <2>6, <3>1 DEF Started, Ended
  <2> HIDE DEF n
  <2>7. Asked(n, paddle', Failed')
    BY <2>1, <2>2, <2>6 DEF Asked
  <2> QED BY <1>1, <1>3, <1>5, <2>7, ToldStep
<1> QED BY <1>1, <1>4, <1>5

(* The console leaves a row that names a subscription alone. *)
LEMMA AdminTold ==
    ASSUME IInv, Told, NEW h \in Handlers, ApplyAdmin(h)
    PROVE  Told'
<1> DEFINE r == req[h]
<1>1. /\ r # Null /\ r.pc = "admin" /\ req' = [req EXCEPT ![h] = Null]
      /\ \/ sub' = sub
         \/ r.row.paddle = Null /\ sub' \in {Granted(r.row), Downgraded(r.row)}
      /\ upset \subseteq upset' /\ UNCHANGED <<provider, external>>
  BY DEF ApplyAdmin, Done, Save, PaddleManaged
<1>2. r.row \in Row
  BY <1>1, InFlight
<1>3. Granted(r.row).paddle = r.row.paddle /\ Downgraded(r.row).paddle = r.row.paddle
  BY <1>2 DEF Row, Granted, Downgraded
<1>4. sub' = sub \/ Agrees(sub', paddle', Failed')
  BY <1>1, <1>3 DEF Agrees
<1>5. Onward
  BY <1>1, QuietOnward DEF external
<1> QED BY <1>1, <1>4, <1>5, ToldStep DEF external

(* An event names a subscription that was begun, and clears the mark. *)
LEMMA EventTold ==
    ASSUME IInv, Told, NEW h \in Handlers, ApplyEvent(h)
    PROVE  Told'
<1> DEFINE r == req[h]
           e == mail[r.event]
           end == Expiry(e, r.row)
<1>1. /\ r # Null /\ r.pc = "apply" /\ req' = [req EXCEPT ![h] = Null]
      /\ sub' \in {Downgraded(r.row), ProState(r.row, end, e.id)}
      /\ upset \subseteq upset' /\ UNCHANGED <<provider, external>>
  BY DEF ApplyEvent, Done
<1>2. Asked(r, paddle, Failed) /\ r.row \in Row /\ r.row # Null
  BY <1>1, InFlight
<1>3. paddle[e.id].state \in Started
  BY <1>1 DEF IInv, Flight, Fine, Told
<1>4. /\ Downgraded(r.row).paddle = r.row.paddle
      /\ Downgraded(r.row).cancelAtEnd = FALSE
      /\ ProState(r.row, end, e.id).paddle = e.id
      /\ ProState(r.row, end, e.id).cancelAtEnd = FALSE
  BY <1>2 DEF Row, Downgraded, ProState
<1>5. UNCHANGED paddle
  BY <1>1 DEF external
<1> HIDE DEF e, end
<1>6. Agrees(sub', paddle', Failed')
  BY <1>1, <1>2, <1>3, <1>4, <1>5 DEF Asked, Agrees
<1>7. Onward
  BY <1>1, <1>5, QuietOnward
<1> QED BY <1>1, <1>6, <1>7, ToldStep DEF external

(* Paddle begins a period of what was offered or runs, ends what is alive,  *)
(* and posts an event, with the end of the period or without it.            *)
LEMMA PaddleStep ==
    ASSUME IInv, NEW id \in PaddleIds,
           Pay(id) \/ Renew(id) \/ EndSubscription(id)
    PROVE  \E kind \in {"trialing", "active", "canceled"}, until \in Nat,
              end \in Nat \cup {Null}, tagged \in BOOLEAN :
             /\ mail' = Append(mail, [id |-> id, kind |-> kind,
                                      tagged |-> tagged, end |-> end])
             /\ paddle' = [paddle EXCEPT ![id] = [state |-> kind, end |-> until]]
             /\ kind # "canceled" =>
                  /\ paddle[id].state \in {"offered", "trialing", "active"}
                  /\ Pay(id) \/ Renew(id)
                  /\ end \in {until, Null}
             /\ kind = "canceled" => EndSubscription(id) /\ Alive(id)
<1>1. CASE Pay(id) \/ Renew(id)
  <2>1. PICK kind \in {"trialing", "active"}, cycle \in Cycle :
          /\ paddle' = [paddle EXCEPT ![id] = [state |-> kind,
                                              end |-> now + Period[cycle]]]
          /\ Send(id, kind, now + Period[cycle])
    BY <1>1 DEF Pay, Renew, BeginPeriod
  <2> DEFINE until == now + Period[cycle]
  <2>2. until \in Nat
    BY ConstantsAssumption DEF IInv, Rest
  <2> HIDE DEF until
  <2>3. PICK tagged \in Tagged, dated \in Dated :
           mail' = Append(mail, [id |-> id, kind |-> kind, tagged |-> tagged,
                                 end |-> IF dated THEN until ELSE Null])
    BY <2>1 DEF Send, until
  <2> DEFINE end == IF dated THEN until ELSE Null
  <2>4. tagged \in BOOLEAN /\ end \in Nat \cup {Null} /\ end \in {until, Null}
    BY <2>2, ConstantsAssumption
  <2>5. paddle[id].state \in {"offered", "trialing", "active"}
    BY <1>1 DEF Pay, Renew
  <2>6. mail' = Append(mail, [id |-> id, kind |-> kind, tagged |-> tagged,
                              end |-> end])
    BY <2>3
  <2>7. paddle' = [paddle EXCEPT ![id] = [state |-> kind, end |-> until]]
    BY <2>1 DEF until
  <2> HIDE DEF end
  <2> QED BY <1>1, <2>2, <2>4, <2>5, <2>6, <2>7
<1>2. CASE EndSubscription(id)
  <2> DEFINE until == paddle[id].end
  <2>1. PICK tagged \in Tagged, dated \in Dated :
           mail' = Append(mail, [id |-> id, kind |-> "canceled",
                                 tagged |-> tagged, end |-> Null])
    BY <1>2 DEF EndSubscription, Send
  <2>2. paddle[id] \in [state : PaddleState, end : Nat] /\ until \in Nat
    BY DEF IInv, Beyond
  <2>3. paddle' = [paddle EXCEPT ![id] = [state |-> "canceled", end |-> until]]
    <3>1. paddle' = [paddle EXCEPT ![id] = [paddle[id] EXCEPT !.state = "canceled"]]
      BY <1>2 DEF EndSubscription
    <3>2. [paddle[id] EXCEPT !.state = "canceled"]
            = [state |-> "canceled", end |-> paddle[id].end]
      BY <2>2
    <3> QED BY <3>1, <3>2
  <2>4. Alive(id) /\ tagged \in BOOLEAN
    BY <1>2, ConstantsAssumption DEF EndSubscription
  <2> QED BY <1>2, <2>1, <2>2, <2>3, <2>4
<1> QED BY <1>1, <1>2

(* Every event is about a subscription that was begun. *)
LEMMA PaddleTold ==
    ASSUME IInv, Told, NEW id \in PaddleIds,
           Pay(id) \/ Renew(id) \/ EndSubscription(id)
    PROVE  Told'
<1>1. PICK kind \in {"trialing", "active", "canceled"}, until \in Nat,
           end \in Nat \cup {Null}, tagged \in BOOLEAN :
        /\ mail' = Append(mail, [id |-> id, kind |-> kind, tagged |-> tagged,
                                 end |-> end])
        /\ paddle' = [paddle EXCEPT ![id] = [state |-> kind, end |-> until]]
        /\ kind # "canceled" =>
             paddle[id].state \in {"offered", "trialing", "active"}
        /\ kind = "canceled" => Alive(id)
  BY PaddleStep
<1>2. UNCHANGED <<provider, sub, req>> /\ upset \subseteq upset'
  BY DEF Pay, Renew, EndSubscription
<1>3. paddle \in [PaddleIds -> [state : PaddleState, end : Nat]]
  BY DEF IInv, Beyond
<1>4. \A q \in PaddleIds : paddle'[q].state = IF q = id THEN kind ELSE paddle[q].state
  BY <1>1, <1>3
<1>5. Onward
  BY <1>1, <1>2, <1>4 DEF Onward, Failed, Started, Ended
<1>6. paddle[id].state # "none"
  BY <1>1 DEF Alive
<1>7. provider = "paddle"
  BY <1>6 DEF Told
<1> DEFINE e == [id |-> id, kind |-> kind, tagged |-> tagged, end |-> end]
<1>8. e \in Event /\ e.id = id
  BY DEF Event
<1> HIDE DEF e
<1>9. \A i \in 1 .. Len(mail') : paddle'[mail'[i].id].state \in Started
  <2>1. mail \in Seq(Event) /\ mail' = Append(mail, e) /\ Len(mail) \in Nat
    BY <1>1 DEF e, IInv, Beyond
  <2>2. Len(mail') = Len(mail) + 1
    BY <1>8, <2>1
  <2> SUFFICES ASSUME NEW i \in 1 .. Len(mail')
               PROVE  paddle'[mail'[i].id].state \in Started
    OBVIOUS
  <2>3. CASE i = Len(mail) + 1
    <3>1. mail'[i] = e
      BY <1>8, <2>1, <2>3
    <3> QED BY <1>4, <1>8, <3>1 DEF Started
  <2>4. CASE i \in 1 .. Len(mail)
    <3>1. mail'[i] = mail[i] /\ mail[i] \in Event
      BY <1>8, <2>1, <2>4
    <3>2. mail[i].id \in PaddleIds
      BY <3>1 DEF Event
    <3> QED BY <1>5, <2>4, <3>1, <3>2 DEF Told, Onward
  <2> QED BY <2>1, <2>2, <2>3, <2>4
<1>10. Agrees(sub', paddle', Failed')
  BY <1>2, <1>5, AgreesStays DEF Told, IInv, Account
<1>11. ASSUME NEW h \in Handlers, req[h] # Null
       PROVE  Asked(req[h], paddle', Failed')
  <2>1. req[h] \in Request /\ (req[h].pc = "flag" => req[h].row # Null)
    BY <1>11 DEF IInv, Flight, Fine
  <2> QED BY <1>5, <1>11, <2>1, AskedStays DEF Told
<1> QED BY <1>2, <1>7, <1>9, <1>10, <1>11 DEF Told

(* Every step keeps it. *)
LEMMA NextTold == IInv /\ Told /\ [Next]_vars => Told'
<1> SUFFICES ASSUME IInv, Told, [Next]_vars PROVE Told'
  OBVIOUS
<1>1. CASE UNCHANGED <<provider, sub, paddle, mail, req>> /\ Failed' = Failed
  BY <1>1 DEF Told
<1>2. CASE DeleteProject \/ IgnoreEvent \/ Tick \/ UNCHANGED vars
  BY <1>1, <1>2 DEF DeleteProject, IgnoreEvent, Tick, vars, external, Failed
<1>3. ASSUME NEW id \in PaddleIds, Pay(id) \/ Renew(id) \/ EndSubscription(id)
      PROVE  Told'
  BY <1>3, PaddleTold
<1>4. ASSUME NEW h \in Handlers,
             StartProject(h) \/ Checkout(h) \/ Cancel(h) \/ Administer(h) \/ Deliver(h)
      PROVE  Told'
  <2>1. \E action, first, cycle, event :
           first # "flag" /\ Open(h, action, first, cycle, event)
    BY <1>4 DEF StartProject, Checkout, Cancel, Administer, Deliver
  <2> QED BY <2>1, OpenTold
<1>5. ASSUME NEW h \in Handlers,
             \/ CreateRow(h) \/ Count(h) \/ InsertProject(h) \/ SaveCadence(h)
             \/ Activate(h) \/ OfferCheckout(h) \/ AskProvider(h)
             \/ FlagCancelled(h) \/ ApplyAdmin(h) \/ ApplyEvent(h)
      PROVE  Told'
  BY <1>5, CreateRowTold, ProjectTold, OwnerTold, ActivateTold, ProviderTold,
     AdminTold, EventTold
<1> QED BY <1>2, <1>3, <1>4, <1>5 DEF Next

(* It holds at the start. *)
LEMMA ToldInit == Init => Told
BY DEF Init, Told, Agrees

(* A cancellation the user is shown is one Paddle knows of, whatever saves  *)
(* overlap and in whatever order its events arrive, unless the call to      *)
(* Paddle failed (cancel(), billing.service.ts).                            *)
THEOREM CancelKept == Spec => []CancelHonoured
<1>1. Init => Told
  BY ToldInit
<1>2. Told => CancelHonoured
  BY DEF Told, Agrees, CancelHonoured, Failed, Ended
<1> QED BY <1>1, <1>2, NextTold, Invariance, PTL DEF Spec

-----------------------------------------------------------------------------
(* Who pays is served                                                       *)

Calmly ==
    upset \cap {"stale", "late", "unmatched", "second", "undated"} = {}

Serving(e) == e.kind \in {"active", "trialing"}

(* The row gives what the event says is due. *)
Serves(row, e) ==
    row # Null /\ row.plan = "pro" /\ row.end = e.end /\ row.paddle = e.id

OneAlive == \A a, b \in PaddleIds : Alive(a) /\ Alive(b) => a = b

(* The last event says that the subscription which is alive is served, and  *)
(* until when if it has a period.                                           *)
LastTells ==
    \A id \in PaddleIds : Alive(id) =>
        /\ Len(mail) > 0
        /\ Serving(mail[Len(mail)])
        /\ mail[Len(mail)].id = id
        /\ mail[Len(mail)].end \in {paddle[id].end, Null}

(* The row gives what the latest event handled says, and it had a period. *)
HandledServes ==
    seen > 0 /\ Serving(mail[seen]) =>
        mail[seen].end # Null /\ Serves(sub, mail[seen])

(* The inductive invariant of the service. *)
Served ==
    /\ seen <= Len(mail)
    /\ Calmly => OneAlive /\ LastTells /\ HandledServes

(* A step that handles no event, changes no charge, and saves a row that    *)
(* still gives what the latest event says.                                  *)
LEMMA ServedStep ==
    ASSUME Served, UNCHANGED <<mail, seen>>, Calmly' => Calmly,
           \A id \in PaddleIds : /\ Alive(id)' => Alive(id)
                                 /\ paddle'[id].end = paddle[id].end,
           Calmly' /\ seen > 0 /\ Serves(sub, mail[seen]) => Serves(sub', mail[seen])
    PROVE  Served'
BY DEF Served, OneAlive, LastTells, HandledServes

(* A save over the row that was read keeps the service when the new row     *)
(* keeps the plan, the end and the subscription.                            *)
LEMMA SaveServed ==
    ASSUME IInv, Served, NEW h \in Handlers, NEW row,
           req[h] # Null, Save(h, row), UNCHANGED <<external, seen>>,
           row # Null, row.plan = req[h].row.plan, row.end = req[h].row.end,
           row.paddle = req[h].row.paddle
    PROVE  Served'
<1>1. Calmly' => Calmly /\ sub = req[h].row
  BY DEF Save, Calmly
<1>2. sub' = row
  BY DEF Save
<1>3. \A id \in PaddleIds : Alive(id)' => Alive(id)
  BY DEF Alive, external
<1> QED BY <1>1, <1>2, <1>3, ServedStep DEF Serves, external

(* The cadence and the mark are columns of their own. *)
LEMMA OwnerServed ==
    ASSUME IInv, Told, Served, NEW h \in Handlers, SaveCadence(h) \/ FlagCancelled(h)
    PROVE  Served'
<1> DEFINE r == req[h]
<1>1. r # Null /\ r.pc # "create" /\ UNCHANGED <<external, seen>>
  BY DEF SaveCadence, FlagCancelled
<1>2. r.row \in Row
  BY <1>1, InFlight
<1>3. ASSUME NEW row \in {[r.row EXCEPT !.cycle = r.cycle],
                          [r.row EXCEPT !.cancelAtEnd = TRUE]},
             Save(h, row)
      PROVE  Served'
  <2>1. row.plan = r.row.plan /\ row.end = r.row.end /\ row.paddle = r.row.paddle
    BY <1>2, <1>3 DEF Row
  <2>2. row # Null
    <3>1. row \in [plan : Plan, cycle : {row.cycle}, end : Nat \cup {Null},
                   cancelAtEnd : BOOLEAN, paddle : PaddleIds \cup {Null}]
      BY <1>2, <1>3 DEF Row
    <3>2. row.cycle \in Cycle
      BY <1>1, <1>2, <1>3, InFlight DEF Row, Request
    <3> QED BY <3>1, <3>2, NullAssumption DEF Row
  <2> QED BY <1>1, <1>3, <2>1, <2>2, SaveServed
<1>4. CASE UNCHANGED <<sub, upset>>
  BY <1>1, <1>4, ServedStep DEF external, Calmly, Alive
<1> QED BY <1>3, <1>4 DEF SaveCadence, FlagCancelled

(* The mock provider activates at once, and sends no events. *)
LEMMA ActivateServed ==
    ASSUME IInv, Told, Served, NEW h \in Handlers, Activate(h)
    PROVE  Served'
<1>1. provider = "mock" /\ UNCHANGED <<external, seen>> /\ upset \subseteq upset'
  BY DEF Activate, Save
<1>2. mail = <<>>
  BY <1>1 DEF Told
<1>3. ~(seen > 0)
  BY <1>2 DEF Served, IInv, Rest
<1> QED BY <1>1, <1>3, ServedStep DEF external, Calmly, Alive

(* The console does not save over a row that gives what was paid for. *)
LEMMA AdminServed ==
    ASSUME IInv, Told, Served, NEW h \in Handlers, ApplyAdmin(h)
    PROVE  Served'
<1>1. req[h] # Null /\ UNCHANGED <<external, seen>> /\ upset \subseteq upset'
  BY DEF ApplyAdmin, Save
<1>2. CASE UNCHANGED sub
  BY <1>1, <1>2, ServedStep DEF external, Calmly, Alive
<1>3. CASE ~PaddleManaged(req[h].row) /\ (Calmly' => sub = req[h].row)
  <2>1. ASSUME seen > 0  PROVE  mail[seen].id # Null
    <3>1. seen \in 1 .. Len(mail) /\ mail \in Seq(Event)
      BY <2>1 DEF Served, IInv, Rest, Beyond
    <3>2. mail[seen] \in Event
      BY <3>1
    <3> QED BY <3>2, NullAssumption DEF Event
  <2>2. Calmly' /\ seen > 0 => ~Serves(sub, mail[seen])
    BY <1>3, <2>1 DEF PaddleManaged, Serves
  <2> QED BY <1>1, <2>2, ServedStep DEF external, Calmly, Alive
<1> QED BY <1>2, <1>3 DEF ApplyAdmin, Save, Calmly

(* What is offered is not alive, and what is to end at its period still is. *)
LEMMA ProviderServed ==
    ASSUME IInv, Served, NEW h \in Handlers, OfferCheckout(h) \/ AskProvider(h)
    PROVE  Served'
<1>1. UNCHANGED <<sub, mail, seen>> /\ upset \subseteq upset'
  BY DEF OfferCheckout, AskProvider
<1>2. paddle \in [PaddleIds -> [state : PaddleState, end : Nat]]
  BY DEF IInv, Beyond
<1>3. \A id \in PaddleIds : (Alive(id)' => Alive(id)) /\ paddle'[id].end = paddle[id].end
  <2>1. CASE UNCHANGED paddle
    BY <2>1 DEF Alive
  <2>2. CASE OfferCheckout(h)
    <3>1. PICK q \in PaddleIds : paddle' = [paddle EXCEPT ![q].state = "offered"]
      BY <2>2 DEF OfferCheckout
    <3>2. \A id \in PaddleIds : /\ paddle'[id].state \in {paddle[id].state, "offered"}
                                /\ paddle'[id].end = paddle[id].end
      BY <1>2, <3>1
    <3> QED BY <3>2 DEF Alive
  <2>3. CASE AskProvider(h) /\ ~UNCHANGED paddle
    <3> DEFINE q == req[h].row.paddle
    <3>1. paddle' = [paddle EXCEPT ![q].state =
                        IF @ \in {"trialing", "active"} THEN "scheduled" ELSE @]
      BY <2>3 DEF AskProvider
    <3> HIDE DEF q
    <3>2. \A id \in PaddleIds :
            /\ paddle'[id].state = paddle[id].state
               \/ paddle[id].state \in {"trialing", "active"}
            /\ paddle'[id].end = paddle[id].end
      BY <1>2, <3>1
    <3> QED BY <3>2 DEF Alive
  <2> QED BY <2>1, <2>2, <2>3
<1> QED BY <1>1, <1>3, ServedStep DEF Calmly

(* An event handled in order is the latest, and the row gives what it says. *)
LEMMA EventServed ==
    ASSUME IInv, Told, Served, NEW h \in Handlers, ApplyEvent(h)
    PROVE  Served'
<1> DEFINE r == req[h]
           e == mail[r.event]
<1>1. /\ r # Null /\ r.pc = "apply" /\ seen' = Later(seen, r.event)
      /\ UNCHANGED external
      /\ upset \subseteq upset' /\ OutOfOrder(r.event) \subseteq upset'
      /\ Serving(e) => sub' = ProState(r.row, Expiry(e, r.row), e.id)
      /\ Serving(e) /\ e.end = Null => "undated" \in upset'
  BY DEF ApplyEvent, Serving
<1>2. r.event \in 1 .. Len(mail) /\ seen \in Nat /\ Len(mail) \in Nat
  BY <1>1 DEF IInv, Flight, Fine, Rest, Beyond
<1>3. r.row \in Row
  BY <1>1, InFlight
<1>4. Calmly' => Calmly /\ r.event \in {seen, seen + 1}
  BY <1>1 DEF Calmly, OutOfOrder
<1>5. r.event \in {seen, seen + 1} => seen' = r.event
  BY <1>1, <1>2 DEF Later
<1>6. seen' <= Len(mail)
  BY <1>1, <1>2 DEF Served, Later
<1>7. e.end # Null =>
        LET row == ProState(r.row, Expiry(e, r.row), e.id)
        IN  row # Null /\ Serves(row, e)
  <2> SUFFICES ASSUME e.end # Null
               PROVE  LET row == ProState(r.row, e.end, e.id)
                      IN  row # Null /\ Serves(row, e)
    BY DEF Expiry
  <2> DEFINE row == ProState(r.row, e.end, e.id)
  <2>1. e \in Event
    BY <1>2 DEF IInv, Beyond
  <2> HIDE DEF e
  <2>2. row \in Row /\ row.plan = "pro" /\ row.end = e.end /\ row.paddle = e.id
    BY <1>3, <2>1 DEF ProState, Row, Event, Plan
  <2> QED BY <2>2, NullAssumption DEF Serves
<1>8. Calmly' => HandledServes'
  <2>1. Calmly' /\ Serving(e) => e.end # Null
    BY <1>1 DEF Calmly
  <2> QED BY <1>1, <1>4, <1>5, <1>7, <2>1 DEF HandledServes, external
<1>9. Calmly' => OneAlive' /\ LastTells'
  BY <1>1, <1>4 DEF Served, OneAlive, LastTells, external, Alive
<1> QED BY <1>1, <1>6, <1>8, <1>9 DEF Served, external

(* What Paddle charges or ends is what its last event is about. *)
LEMMA PaddleServed ==
    ASSUME IInv, Served, NEW id \in PaddleIds,
           Pay(id) \/ Renew(id) \/ EndSubscription(id)
    PROVE  Served'
<1>1. PICK kind \in {"trialing", "active", "canceled"}, until \in Nat,
           end \in Nat \cup {Null}, tagged \in BOOLEAN :
        /\ mail' = Append(mail, [id |-> id, kind |-> kind, tagged |-> tagged,
                                 end |-> end])
        /\ paddle' = [paddle EXCEPT ![id] = [state |-> kind, end |-> until]]
        /\ kind # "canceled" =>
             (Pay(id) \/ Renew(id)) /\ end \in {until, Null}
        /\ kind = "canceled" => Alive(id)
  BY PaddleStep
<1> DEFINE e == [id |-> id, kind |-> kind, tagged |-> tagged, end |-> end]
<1>2. UNCHANGED <<sub, seen>> /\ upset \subseteq upset'
  BY DEF Pay, Renew, EndSubscription
<1>3. e \in Event /\ e.id = id /\ e.kind = kind /\ e.end = end
  BY DEF Event
<1>4. mail \in Seq(Event) /\ mail' = Append(mail, e) /\ Len(mail) \in Nat /\ seen \in Nat
  BY <1>1 DEF IInv, Beyond, Rest
<1> HIDE DEF e
<1>5. /\ Len(mail') = Len(mail) + 1 /\ mail'[Len(mail')] = e
      /\ \A i \in 1 .. Len(mail) : mail'[i] = mail[i]
  BY <1>3, <1>4
<1>6. seen' <= Len(mail') /\ (seen > 0 => mail'[seen] = mail[seen])
  BY <1>2, <1>4, <1>5 DEF Served
<1>7. \A q \in PaddleIds : paddle'[q] = IF q = id THEN [state |-> kind, end |-> until]
                                       ELSE paddle[q]
  BY <1>1 DEF IInv, Beyond
<1>8. Calmly' => Calmly
  BY <1>2 DEF Calmly
<1>9. ASSUME Calmly', NEW q \in PaddleIds, Alive(q), q # id
      PROVE  FALSE
  <2>1. Alive(id) \/ Pay(id)
    <3>1. kind # "canceled" => Pay(id) \/ Alive(id)
      BY <1>1 DEF Renew, Alive
    <3> QED BY <1>1, <3>1
  <2>2. ~Pay(id)
    BY <1>9 DEF Pay, Calmly
  <2> QED BY <1>8, <1>9, <2>1, <2>2 DEF Served, OneAlive
<1>10. Calmly' => \A q \in PaddleIds : Alive(q)' => q = id /\ kind # "canceled"
  BY <1>7, <1>9 DEF Alive
<1>11. Calmly' => OneAlive' /\ LastTells'
  BY <1>3, <1>1, <1>4, <1>5, <1>7, <1>10 DEF OneAlive, LastTells, Serving
<1>12. Calmly' => HandledServes'
  BY <1>2, <1>6, <1>8 DEF Served, HandledServes
<1> QED BY <1>6, <1>11, <1>12 DEF Served

(* A step that leaves Paddle, its events and the row alone. *)
LEMMA QuietServed ==
    ASSUME Served, UNCHANGED <<sub, external, seen>>, upset \subseteq upset'
    PROVE  Served'
BY ServedStep DEF external, Calmly, Alive

(* Every step keeps it. *)
LEMMA NextServed == IInv /\ Told /\ Served /\ [Next]_vars => Served'
<1> SUFFICES ASSUME IInv, Told, Served, [Next]_vars PROVE Served'
  OBVIOUS
<1>1. CASE DeleteProject \/ Tick \/ UNCHANGED vars
  BY <1>1, QuietServed DEF DeleteProject, Tick, vars, external
<1>2. CASE IgnoreEvent
  <2>1. PICK i \in DOMAIN mail : seen' = Later(seen, i)
    BY <1>2 DEF IgnoreEvent
  <2>2. "unmatched" \in upset' /\ UNCHANGED mail
    BY <1>2 DEF IgnoreEvent, external
  <2>3. i \in 1 .. Len(mail) /\ Len(mail) \in Nat /\ seen \in Nat
    BY <2>1 DEF IInv, Beyond, Rest
  <2>4. seen' <= Len(mail)
    BY <2>1, <2>3 DEF Served, Later
  <2>5. ~Calmly'
    BY <2>2 DEF Calmly
  <2> QED BY <2>2, <2>4, <2>5 DEF Served
<1>3. ASSUME NEW h \in Handlers,
             \/ StartProject(h) \/ Checkout(h) \/ Cancel(h) \/ Administer(h)
             \/ Deliver(h) \/ Count(h) \/ InsertProject(h)
      PROVE  Served'
  <2>1. CASE Count(h) \/ InsertProject(h)
    BY <2>1, QuietServed DEF Count, InsertProject
  <2>2. CASE StartProject(h) \/ Checkout(h) \/ Cancel(h) \/ Administer(h) \/ Deliver(h)
    <3>1. \E action, first, cycle, event : Open(h, action, first, cycle, event)
      BY <2>2 DEF StartProject, Checkout, Cancel, Administer, Deliver
    <3>2. UNCHANGED <<sub, external, seen, upset>>
      BY <3>1 DEF Open
    <3> QED BY <3>2, QuietServed
  <2> QED BY <1>3, <2>1, <2>2
<1>4. ASSUME NEW h \in Handlers, CreateRow(h)  PROVE Served'
  <2>1. UNCHANGED <<external, seen, upset>> /\ (sub' = sub \/ sub = Null)
    BY <1>4 DEF CreateRow
  <2> QED BY <2>1, ServedStep DEF external, Calmly, Alive, Serves
<1>5. ASSUME NEW h \in Handlers,
             \/ SaveCadence(h) \/ Activate(h) \/ OfferCheckout(h) \/ AskProvider(h)
             \/ FlagCancelled(h) \/ ApplyAdmin(h) \/ ApplyEvent(h)
      PROVE  Served'
  BY <1>5, OwnerServed, ActivateServed, ProviderServed, AdminServed, EventServed
<1>6. ASSUME NEW id \in PaddleIds, Pay(id) \/ Renew(id) \/ EndSubscription(id)
      PROVE  Served'
  BY <1>6, PaddleServed
<1> QED BY <1>1, <1>2, <1>3, <1>4, <1>5, <1>6 DEF Next

(* Who pays is served: with Paddle's events dated and handled in order, and *)
(* no save over a newer row, whoever holds a subscription, paid for or on   *)
(* trial, is on the paid plan, whatever else the owner and the              *)
(* administrators do (applyPaddleEvent(), billing.service.ts).              *)
THEOREM PaidServed == Spec => []PaidIsPro
<1>1. Init => Served
  BY DEF Init, Served, Calmly, OneAlive, LastTells, HandledServes, Alive
<1>2. IInv /\ Served => PaidIsPro
  <2> SUFFICES ASSUME IInv, Served, Calmly, seen = Len(mail),
                      NEW id \in PaddleIds, Alive(id), now < paddle[id].end
               PROVE  sub # Null /\ IsPro(sub)
    BY DEF PaidIsPro, Calmly
  <2>1. /\ sub # Null /\ sub.plan = "pro" /\ sub.end = paddle[id].end
    BY DEF Served, LastTells, HandledServes, Serves
  <2>2. paddle[id].end \in Nat /\ now \in Nat
    BY DEF IInv, Beyond, Rest
  <2> QED BY <2>1, <2>2 DEF IsPro, Over
<1> QED BY <1>1, <1>2, NextTold, NextServed, ToldInit, Invariance, PTL DEF Spec
=============================================================================
