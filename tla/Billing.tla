------------------------------- MODULE Billing -------------------------------
(***************************************************************************)
(* The subscription of one user and what it is worth: billing.service.ts,  *)
(* its two providers, the store of subscriptions, and the monthly quota    *)
(* that interview.service.ts spends when a project is started.             *)
(*                                                                         *)
(* Every operation reads the row, waits for something, and saves every     *)
(* column of the row it read.  The row is created by whichever request     *)
(* needs it first.  With Paddle, the payment happens elsewhere and comes   *)
(* back as webhooks, which may be repeated or arrive in any order.         *)
(*                                                                         *)
(* Time is counted in quota months.  "status" is left out of the row: no   *)
(* code writes anything but 'active' to it.                                *)
(***************************************************************************)
EXTENDS Integers, Sequences, FiniteSets

CONSTANTS
    Handlers,    \* requests that may be in flight together
    Providers,   \* the providers the deployment may be configured with
    PaddleIds,   \* bound: the subscriptions Paddle may open for the user
    Projects,    \* bound: the projects the user may have at once
    Quota,       \* projectQuota of the free plan; the other is unlimited
    Period,      \* what a cycle buys, in quota months
    Tagged,      \* whether events may carry the user's id, {TRUE, FALSE}
    Dated,       \* whether events may carry a billing period, {TRUE, FALSE}
    MaxTime,     \* bound: the clock stops here
    MaxMail,     \* bound: Paddle sends this many events
    MaxUpset,    \* bound: nothing starts once more than this has gone wrong
    Null         \* model value

Plan == {"free", "pro"}

Cycle == {"monthly", "annual"}

ASSUME ConstantsAssumption ==
    /\ IsFiniteSet(Handlers)
    /\ IsFiniteSet(Projects)
    /\ Providers \subseteq {"mock", "paddle"}
    /\ Quota \in Nat \ {0}
    /\ Period \in [Cycle -> Nat \ {0}]
    /\ Tagged \subseteq BOOLEAN
    /\ Dated \subseteq BOOLEAN
    /\ MaxTime \in Nat
    /\ MaxMail \in Nat
    /\ MaxUpset \in Nat

Row == [plan : Plan, cycle : Cycle, end : Nat \cup {Null},
        cancelAtEnd : BOOLEAN, paddle : PaddleIds \cup {Null}]

(* The other side, as the webhook and the provider see it.                  *)
PaddleState ==
    {"none", "offered", "trialing", "active", "scheduled", "canceled"}

(* What applyPaddleEvent() tells apart: a status that makes the user Pro or *)
(* ends it, and the end of the billing period, Null when there is none.     *)
(* Events of any other type or status change nothing and are left out.      *)
Event == [id : PaddleIds, kind : {"active", "trialing", "canceled"},
          end : Nat \cup {Null}, tagged : BOOLEAN]

Action == {"start", "checkout", "cancel", "grant", "revoke", "webhook"}

(* A request in flight, with the row it read.  "event" is the position of   *)
(* the event a webhook delivers.                                            *)
Request == [pc      : {"create", "count", "insert", "cadence", "activate",
                       "ask", "flag", "admin", "apply"},
            action  : Action,
            row     : Row \cup {Null},
            cycle   : Cycle,
            event   : Nat,
            metered : BOOLEAN]

Project == [month : Nat, metered : BOOLEAN]

ASSUME NullAssumption ==
    /\ Null \notin Nat
    /\ Null \notin PaddleIds
    /\ Null \notin Row
    /\ Null \notin Request
    /\ Null \notin Project

VARIABLES
    provider,   \* the configured provider
    sub,        \* the subscription row, or Null
    projects,   \* projects[p]: Null, or when it was created
    now,        \* the clock
    paddle,     \* external: paddle[id], Paddle's own record
    mail,       \* external: the events Paddle has sent, in order
    req,        \* req[h]: Null, or the request in h
    seen,       \* history: the latest event handled
    due,        \* history: until when the user has paid or is on trial
    comped,     \* history: an administrator's grant is in force
    upset       \* history: what has gone wrong

vars == <<provider, sub, projects, now, paddle, mail, req, seen, due, comped,
          upset>>

external == <<paddle, mail>>

(* A save over a row that changed since it was read ("stale"); an event     *)
(* handled out of order ("late"); one that named nobody ("unmatched"); a    *)
(* cancellation Paddle never got ("failed"); a subscription bought while    *)
(* another was alive ("second"); an event without its billing period, whose *)
(* end was made up ("undated").                                             *)
Upset == {"stale", "late", "unmatched", "failed", "second", "undated"}

FreeRow == [plan |-> "free", cycle |-> "monthly", end |-> Null,
            cancelAtEnd |-> FALSE, paddle |-> Null]

Init ==
    /\ provider \in Providers
    /\ sub = Null
    /\ projects = [p \in Projects |-> Null]
    /\ now = 0
    /\ paddle = [id \in PaddleIds |-> [state |-> "none", end |-> 0]]
    /\ mail = <<>>
    /\ req = [h \in Handlers |-> Null]
    /\ seen = 0
    /\ due = 0
    /\ comped = FALSE
    /\ upset = {}

(* An event without its period upsets nothing that follows.                 *)
Calm == Cardinality(upset \ {"undated"}) <= MaxUpset

Later(a, b) == IF a < b THEN b ELSE a

(* effectivePlan()                                                          *)
Over(row) == row.end # Null /\ row.end <= now

IsPro(row) == row.plan = "pro" /\ ~Over(row)

-----------------------------------------------------------------------------
(* Reading and saving the row                                               *)

(* getOrCreate(): a request that finds no row goes on to create one.        *)
Open(h, action, first, cycle, event) ==
    /\ Calm
    /\ req[h] = Null
    /\ req' = [req EXCEPT ![h] =
                [pc |-> IF sub = Null THEN "create" ELSE first,
                 action |-> action, row |-> sub, cycle |-> cycle,
                 event |-> event, metered |-> FALSE]]
    /\ UNCHANGED <<provider, sub, projects, now, external, seen, due, comped,
                   upset>>

FirstStep == [start |-> "count", checkout |-> "cadence", cancel |-> "ask",
              grant |-> "admin", revoke |-> "admin", webhook |-> "apply"]

(* The column is unique: of two requests that both found no row, the second *)
(* to create one fails.                                                     *)
CreateRow(h) ==
    LET r == req[h] IN
    /\ r # Null /\ r.pc = "create"
    /\ IF sub = Null
       THEN /\ sub' = FreeRow
            /\ req' = [req EXCEPT ![h].row = FreeRow,
                                  ![h].pc = FirstStep[r.action]]
       ELSE /\ req' = [req EXCEPT ![h] = Null]
            /\ UNCHANGED sub
    /\ UNCHANGED <<provider, projects, now, external, seen, due, comped, upset>>

(* save(): every column, whatever the row holds by now.                     *)
Save(h, row) ==
    /\ sub' = row
    /\ upset' = upset \cup (IF sub # req[h].row THEN {"stale"} ELSE {})

Done(h) == req' = [req EXCEPT ![h] = Null]

(* mutant: a new period leaves the cancellation of the old one              *)
ProStateStillCancelled(row, end, id) ==
    [row EXCEPT !.plan = "pro", !.end = end, !.paddle = id]

(* mutant: the plan is written as the cadence                               *)
ProStateSwapped(row, end, id) ==
    [row EXCEPT !.plan = row.cycle, !.cancelAtEnd = FALSE, !.end = end,
                !.paddle = id]

(* applyProState(), with the new Paddle id or the one the row has           *)
ProState(row, end, id) ==
    [row EXCEPT !.plan = "pro", !.cancelAtEnd = FALSE, !.end = end,
                !.paddle = id]

(* mutant: a downgrade only forgets the period                              *)
PeriodForgotten(row) == [row EXCEPT !.cancelAtEnd = FALSE, !.end = Null]

(* downgradeToFree(): the Paddle id stays.                                  *)
Downgraded(row) ==
    [row EXCEPT !.plan = "free", !.cancelAtEnd = FALSE, !.end = Null]

-----------------------------------------------------------------------------
(* Starting a project                                                       *)

StartProject(h) == Open(h, "start", "count", "monthly", 0)

(* The projects listed for this month, started under whichever plan.        *)
Used == Cardinality({p \in Projects :
                        projects[p] # Null /\ projects[p].month >= now})

(* mutant: the month's last slot is offered twice                           *)
WithinQuotaOrAt(used) == used <= Quota

WithinQuota(used) == used < Quota

Count(h) ==
    LET r == req[h] IN
    /\ r # Null /\ r.pc = "count"
    /\ IF IsPro(r.row) \/ WithinQuota(Used)
       THEN req' = [req EXCEPT ![h].pc = "insert", ![h].metered = ~IsPro(r.row)]
       ELSE Done(h)
    /\ UNCHANGED <<provider, sub, projects, now, external, seen, due, comped,
                   upset>>

(* The row is stored once the model has analysed the idea and asked its     *)
(* first question, and dated then.                                          *)
InsertProject(h) ==
    /\ req[h] # Null /\ req[h].pc = "insert"
    /\ \E p \in Projects :
        /\ projects[p] = Null
        /\ projects' = [projects EXCEPT
                ![p] = [month |-> now, metered |-> req[h].metered]]
    /\ Done(h)
    /\ UNCHANGED <<provider, sub, now, external, seen, due, comped, upset>>

DeleteProject ==
    /\ Calm
    /\ \E p \in Projects :
        /\ projects[p] # Null
        /\ projects' = [projects EXCEPT ![p] = Null]
    /\ UNCHANGED <<provider, sub, now, external, req, seen, due, comped, upset>>

-----------------------------------------------------------------------------
(* The owner buys, and cancels                                              *)

Checkout(h) == \E cycle \in Cycle : Open(h, "checkout", "cadence", cycle, 0)

(* startCheckout(): the cadence is saved first, when it is another.         *)
SaveCadence(h) ==
    LET r   == req[h]
        row == [r.row EXCEPT !.cycle = r.cycle]
    IN
    /\ r # Null /\ r.pc = "cadence"
    /\ req' = [req EXCEPT ![h].pc = "activate", ![h].row = row]
    /\ IF r.row.cycle # r.cycle THEN Save(h, row) ELSE UNCHANGED <<sub, upset>>
    /\ UNCHANGED <<provider, projects, now, external, seen, due, comped>>

(* The mock provider activates at once.                                     *)
Activate(h) ==
    LET r   == req[h]
        end == now + Period[r.cycle]
    IN
    /\ r # Null /\ r.pc = "activate"
    /\ provider = "mock"
    /\ Save(h, ProState(r.row, end, r.row.paddle))
    /\ due' = Later(due, end)
    /\ comped' = FALSE
    /\ Done(h)
    /\ UNCHANGED <<provider, projects, now, external, seen>>

(* Paddle's returns what the client opens its overlay with.                 *)
OfferCheckout(h) ==
    /\ req[h] # Null /\ req[h].pc = "activate"
    /\ provider = "paddle"
    /\ \E id \in PaddleIds :
        /\ paddle[id].state = "none"
        /\ paddle' = [paddle EXCEPT ![id].state = "offered"]
    /\ Done(h)
    /\ UNCHANGED <<provider, sub, projects, now, mail, seen, due, comped, upset>>

Cancel(h) == Open(h, "cancel", "ask", "monthly", 0)

(* cancel(): nothing to do for a free row; the provider is asked, and an    *)
(* error of the call to Paddle is only logged.                              *)
AskProvider(h) ==
    LET r == req[h] IN
    /\ r # Null /\ r.pc = "ask"
    /\ \/ /\ ~IsPro(r.row)
          /\ Done(h)
          /\ UNCHANGED <<paddle, upset>>
       \/ /\ IsPro(r.row)
          /\ req' = [req EXCEPT ![h].pc = "flag"]
          /\ IF provider = "paddle" /\ r.row.paddle # Null
             THEN \/ /\ paddle' = [paddle EXCEPT ![r.row.paddle].state =
                                    IF @ \in {"trialing", "active"}
                                    THEN "scheduled" ELSE @]
                     /\ UNCHANGED upset
                  \/ /\ upset' = upset \cup {"failed"}
                     /\ UNCHANGED paddle
             ELSE UNCHANGED <<paddle, upset>>
    /\ UNCHANGED <<provider, sub, projects, now, mail, seen, due, comped>>

(* Both providers leave the downgrade to the end of the period.             *)
FlagCancelled(h) ==
    LET r == req[h] IN
    /\ r # Null /\ r.pc = "flag"
    /\ Save(h, [r.row EXCEPT !.cancelAtEnd = TRUE])
    /\ Done(h)
    /\ UNCHANGED <<provider, projects, now, external, seen, due, comped>>

-----------------------------------------------------------------------------
(* An administrator grants and revokes                                      *)

Administer(h) ==
    \E action \in {"grant", "revoke"} : Open(h, action, "admin", "monthly", 0)

(* mutant: the console changes what Paddle manages                          *)
NotManaged(row) == FALSE

PaddleManaged(row) == row.paddle # Null

Granted(row) == [row EXCEPT !.plan = "pro", !.cancelAtEnd = FALSE, !.end = Null]

ApplyAdmin(h) ==
    LET r == req[h] IN
    /\ r # Null /\ r.pc = "admin"
    /\ IF PaddleManaged(r.row)
       THEN UNCHANGED <<sub, comped, upset>>
       ELSE /\ Save(h, IF r.action = "grant" THEN Granted(r.row)
                                             ELSE Downgraded(r.row))
            /\ comped' = (r.action = "grant")
    /\ Done(h)
    /\ UNCHANGED <<provider, projects, now, external, seen, due>>

-----------------------------------------------------------------------------
(* The webhook                                                              *)

(* An event that repeats the latest one is in order.                        *)
OutOfOrder(i) == IF i \in {seen, seen + 1} THEN {} ELSE {"late"}

Known(e) == sub # Null /\ sub.paddle = e.id

Deliver(h) ==
    \E i \in DOMAIN mail :
        /\ Known(mail[i]) \/ mail[i].tagged
        /\ Open(h, "webhook", "apply", "monthly", i)

(* no matching subscription                                                 *)
IgnoreEvent ==
    /\ Calm
    /\ \E i \in DOMAIN mail :
        /\ ~Known(mail[i]) /\ ~mail[i].tagged
        /\ seen' = Later(seen, i)
    /\ upset' = upset \cup {"unmatched"}
    /\ UNCHANGED <<provider, sub, projects, now, external, req, due, comped>>

(* The end the event gives, or a period of the row's cadence from now on:   *)
(* from the moment it is handled, again each time it is delivered.          *)
Expiry(e, row) == IF e.end # Null THEN e.end ELSE now + Period[row.cycle]

(* applyPaddleEvent(): a trial counts like a paid period.                   *)
ApplyEvent(h) ==
    LET r == req[h]
        e == mail[r.event]
        serves == e.kind \in {"active", "trialing"}
    IN
    /\ r # Null /\ r.pc = "apply"
    /\ sub' = IF serves THEN ProState(r.row, Expiry(e, r.row), e.id)
              ELSE Downgraded(r.row)
    /\ upset' = upset \cup (IF sub # r.row THEN {"stale"} ELSE {})
                      \cup (IF serves /\ e.end = Null THEN {"undated"} ELSE {})
                      \cup OutOfOrder(r.event)
    /\ seen' = Later(seen, r.event)
    /\ comped' = FALSE
    /\ Done(h)
    /\ UNCHANGED <<provider, projects, now, external, due>>

-----------------------------------------------------------------------------
(* Paddle, as far as its events go: a customer pays in the overlay or       *)
(* begins a trial there, is charged again when a period ends, or is not; a  *)
(* subscription is ended at the end of the period it was cancelled in, or   *)
(* from Paddle's side.                                                      *)

Alive(id) == paddle[id].state \in {"trialing", "active", "scheduled"}

(* The user's id is custom data of the subscription: all its events carry   *)
(* it, or none does.                                                        *)
Send(id, kind, end) ==
    /\ Len(mail) < MaxMail
    /\ \E tagged \in Tagged, dated \in Dated :
        /\ \A i \in DOMAIN mail : mail[i].id = id => mail[i].tagged = tagged
        /\ mail' = Append(mail, [id |-> id, kind |-> kind, tagged |-> tagged,
                                 end |-> IF dated THEN end ELSE Null])

(* A period begins, charged for or on trial.                                *)
BeginPeriod(id, state) ==
    \E cycle \in Cycle :
        LET end == now + Period[cycle] IN
        /\ paddle' = [paddle EXCEPT ![id] = [state |-> state, end |-> end]]
        /\ due' = Later(due, end)
        /\ Send(id, state, end)

Pay(id) ==
    /\ Calm
    /\ paddle[id].state = "offered"
    /\ \E state \in {"trialing", "active"} : BeginPeriod(id, state)
    /\ upset' = upset \cup
         (IF \E other \in PaddleIds : Alive(other) THEN {"second"} ELSE {})
    /\ UNCHANGED <<provider, sub, projects, now, req, seen, comped>>

Renew(id) ==
    /\ Calm
    /\ paddle[id].state \in {"trialing", "active"} /\ paddle[id].end <= now
    /\ BeginPeriod(id, "active")
    /\ UNCHANGED <<provider, sub, projects, now, req, seen, comped, upset>>

EndSubscription(id) ==
    /\ Calm
    /\ Alive(id)
    /\ paddle' = [paddle EXCEPT ![id].state = "canceled"]
    /\ Send(id, "canceled", Null)
    /\ UNCHANGED <<provider, sub, projects, now, req, seen, due, comped, upset>>

Tick ==
    /\ Calm
    /\ now < MaxTime
    /\ now' = now + 1
    /\ UNCHANGED <<provider, sub, projects, external, req, seen, due, comped,
                   upset>>

-----------------------------------------------------------------------------
Next ==
    \/ DeleteProject \/ IgnoreEvent \/ Tick
    \/ \E id \in PaddleIds : Pay(id) \/ Renew(id) \/ EndSubscription(id)
    \/ \E h \in Handlers :
        \/ StartProject(h) \/ Checkout(h) \/ Cancel(h) \/ Administer(h)
        \/ Deliver(h) \/ CreateRow(h) \/ Count(h) \/ InsertProject(h)
        \/ SaveCadence(h) \/ Activate(h) \/ OfferCheckout(h)
        \/ AskProvider(h) \/ FlagCancelled(h) \/ ApplyAdmin(h) \/ ApplyEvent(h)

Spec == Init /\ [][Next]_vars

-----------------------------------------------------------------------------
(* Properties                                                               *)

(* Who pays is served: once Paddle's events have been handled, the user of  *)
(* a subscription that Paddle holds alive, paid for or on trial, is on the  *)
(* paid plan, whatever requests, administrators or repeated events came     *)
(* between.  What defeats it is listed: a save over a newer row, an event   *)
(* out of order, without the user's id or without its billing period, a     *)
(* second subscription (applyPaddleEvent).                                  *)
PaidIsPro ==
    /\ upset \cap {"stale", "late", "unmatched", "second", "undated"} = {}
    /\ seen = Len(mail)
    => \A id \in PaddleIds : Alive(id) /\ now < paddle[id].end =>
            sub # Null /\ IsPro(sub)

(* The plan is one that is due: nobody is on the paid plan for longer than  *)
(* they paid or have a trial for, however late, repeated or reordered the   *)
(* events and the saves are, and a plan without an end is an                *)
(* administrator's grant still in force, unless a request that read the row *)
(* before the grant was withdrawn saved it after.  An event without its     *)
(* billing period is the exception: each delivery of it makes up an end,    *)
(* which nobody need have paid for, but at most a period from that moment.  *)
ProIsDue ==
    sub # Null /\ IsPro(sub) =>
        IF sub.end = Null THEN comped \/ "stale" \in upset
        ELSE \/ sub.end <= due
             \/ /\ "undated" \in upset
                /\ \E cycle \in Cycle : sub.end <= now + Period[cycle]

(* A cancellation the user is shown is one Paddle knows of: a row that says *)
(* it ends with its period is not charged again, whatever saves overlap and *)
(* in whatever order the events come, unless the call to Paddle failed,     *)
(* which cancel() does not learn of (paddle-billing.provider.ts).           *)
CancelHonoured ==
    /\ sub # Null /\ sub.cancelAtEnd /\ sub.paddle # Null
    /\ "failed" \notin upset
    => paddle[sub.paddle].state \in {"scheduled", "canceled"}

Metered(month) ==
    {p \in Projects : projects[p] # Null /\ projects[p].metered
                      /\ projects[p].month = month}

Admitted ==
    {h \in Handlers : req[h] # Null /\ req[h].pc = "insert" /\ req[h].metered}

(* The free plan's monthly quota is counted first and spent by a later      *)
(* insert: starts in flight together can pass it, but only by the number of *)
(* them, in any month, and what is in flight counts (start()).              *)
QuotaBounded ==
    \A month \in 0 .. now :
        Cardinality(Metered(month)) +
        (IF month = now THEN Cardinality(Admitted) ELSE 0)
            < Quota + Cardinality(Handlers)

TypeOK ==
    /\ provider \in Providers
    /\ sub \in Row \cup {Null}
    /\ projects \in [Projects -> Project \cup {Null}]
    /\ now \in Nat
    /\ paddle \in [PaddleIds -> [state : PaddleState, end : Nat]]
    /\ mail \in Seq(Event)
    /\ req \in [Handlers -> Request \cup {Null}]
    /\ seen \in Nat
    /\ due \in Nat
    /\ comped \in BOOLEAN
    /\ upset \subseteq Upset
=============================================================================
