---------------------------- MODULE SupportProofs ----------------------------
(* Theorems about Support, for any staff, any permissions, and any number   *)
(* of requests in flight.                                                   *)
EXTENDS Support, TLAPS

(* A patch that sets a status sets the dates that go with it, and one that  *)
(* sets none leaves them.                                                   *)
Dated(p) ==
    /\ p.status = "closed" => p.closed = TRUE
    /\ p.status = "resolved" => p.resolved = TRUE
    /\ p.status = "open" => p.closed = FALSE /\ p.resolved = FALSE
    /\ p.status = Null => p.closed = Null /\ p.resolved = Null

(* What holds of a request in flight: an assignee who is not of the staff   *)
(* is still to be refused.                                                  *)
Fine(r) ==
    /\ r \in Request
    /\ Dated(r.patch)
    /\ r.pc = "before" => r.before # <<>>
    /\ r.pc = "update" => r.patch.assignee # Outsider
    /\ r.patch.assignee = Outsider =>
         \E i \in DOMAIN r.before : r.before[i].type = "assigned"
    /\ r.pc = "message" => r.patch.assignee = Null

Flight ==
    /\ req \in [Handlers -> Request \cup {Null}]
    /\ \A h \in Handlers : req[h] # Null => Fine(req[h]) /\ ticket # Null

Stored ==
    /\ ticket \in Ticket \cup {Null} /\ DatesAgree
    /\ messages \in Seq(Message)
    /\ timeline \in Seq(Event)
    /\ told \in Status \cup {Null}
    /\ next \in Nat
    /\ upset \subseteq Upset

(* The inductive invariant of types and dates. *)
IInv == Flight /\ Stored

-----------------------------------------------------------------------------
(* Lemmas                                                                   *)

(* A step that moves one request. *)
LEMMA FlightStep ==
    ASSUME IInv, NEW h \in Handlers, NEW r, req' = [req EXCEPT ![h] = r],
           r = Null \/ Fine(r), ticket' # Null
    PROVE  Flight'
<1>1. r \in Request \cup {Null}
  BY DEF Fine
<1>2. req' \in [Handlers -> Request \cup {Null}]
  BY <1>1 DEF IInv, Flight
<1>3. ASSUME NEW g \in Handlers, req'[g] # Null PROVE Fine(req'[g])
  BY <1>3 DEF IInv, Flight
<1> QED BY <1>2, <1>3 DEF Flight

(* The patch of a request that changes nothing. *)
LEMMA NoPatchFine == NoPatch \in Patch /\ Dated(NoPatch) /\ NoPatch.assignee = Null
BY NullAssumption DEF NoPatch, Patch, Dated, Status

(* Entries are events. *)
LEMMA EntryType ==
    ASSUME NEW type \in EventType, NEW by \in Side, NEW to \in Status \cup {Null}
    PROVE  Entry(type, by, to) \in Event
BY DEF Entry, Event

(* The request that adds a message and an entry. *)
LEMMA PlainFine ==
    ASSUME IInv, NEW by \in Side,
           NEW kind \in {"description", "reply", "note", "attachment", "suggestion"},
           NEW type \in EventType
    PROVE  /\ Plain(by, kind, type) \in Request
           /\ Plain(by, kind, type).pc = "message"
           /\ Plain(by, kind, type).patch = NoPatch
           /\ Plain(by, kind, type).before = <<>>
           /\ Plain(by, kind, type).after = <<Entry(type, by, Null)>>
           /\ Fine(Plain(by, kind, type))
<1>1. next + 1 \in Nat
  BY DEF IInv, Stored
<1>2. Entry(type, by, Null) \in Event
  BY EntryType
<1>3. Plain(by, kind, type) \in Request
  BY <1>1, <1>2, NoPatchFine DEF Plain, Request, Message
<1> QED BY <1>3, NoPatchFine, NullAssumption DEF Plain, Fine

(* Accepting a request leaves the rest. *)
LEMMA AcceptIInv ==
    ASSUME IInv, NEW h \in Handlers, NEW r, Fine(r), Accept(h, r),
           ticket' # Null, ticket' \in Ticket, DatesAgree'
    PROVE  IInv'
<1>1. /\ req' = [req EXCEPT ![h] = r] /\ next' = next + 1
      /\ upset' \subseteq upset \cup {"overlapped"}
      /\ UNCHANGED <<messages, timeline, told>>
  BY DEF Accept
<1>2. Flight'
  BY <1>1, FlightStep
<1> QED BY <1>1, <1>2 DEF IInv, Stored, Upset

-----------------------------------------------------------------------------
(* The initial state, and one lemma per action                              *)

LEMMA InitIInv == Init => IInv
BY NullAssumption DEF Init, IInv, Flight, Stored, DatesAgree, Upset

LEMMA CreateTicketIInv ==
    ASSUME IInv, NEW h \in Handlers, CreateTicket(h)
    PROVE  IInv'
<1> DEFINE p == Plain("customer", "description", "ticket_created")
           r == [p EXCEPT !.creates = TRUE]
<1>1. ticket' = NewTicket /\ Accept(h, r)
  BY DEF CreateTicket
<1>2. NewTicket \in Ticket /\ NewTicket # Null
  <2>1. NewTicket \in Ticket
    BY DEF NewTicket, Ticket, Status, Priority, Assignee
  <2> QED BY <2>1, NullAssumption
<1>3. Fine(p) /\ p \in Request
  <2>1. "customer" \in Side /\ "ticket_created" \in EventType
    BY DEF Side, EventType
  <2> HIDE DEF r
  <2> QED BY <2>1, PlainFine
<1>4. Fine(r)
  <2> HIDE DEF p
  <2>1. r \in Request /\ r.pc = p.pc /\ r.patch = p.patch /\ r.before = p.before
    BY <1>3 DEF Request
  <2> QED BY <1>3, <2>1 DEF Fine
<1>5. DatesAgree'
  BY <1>1 DEF DatesAgree, NewTicket
<1> QED BY <1>1, <1>2, <1>4, <1>5, AcceptIInv

LEMMA ReplyIInv ==
    ASSUME IInv, NEW h \in Handlers, Reply(h)
    PROVE  IInv'
<1>1. PICK by \in {"customer", "admin"} :
         Accept(h, [Plain(by, "reply", "reply_added") EXCEPT
                       !.patch.status = ReplyStatus(by),
                       !.patch.first = FirstResponse(by, next + 1)])
  BY DEF Reply
<1> DEFINE p == Plain(by, "reply", "reply_added")
           s == ReplyStatus(by)
           f == FirstResponse(by, next + 1)
           q == [NoPatch EXCEPT !.status = s, !.first = f]
           r == [p EXCEPT !.patch.status = s, !.patch.first = f]
<1>2. ticket # Null /\ ticket' = ticket
  BY DEF Reply
<1>3. Fine(p) /\ p \in Request /\ p.patch = NoPatch /\ p.pc = "message"
      /\ p.before = <<>>
  <2>1. by \in Side /\ "reply_added" \in EventType
    BY DEF Side, EventType
  <2> HIDE DEF s, f, q, r
  <2> QED BY <2>1, PlainFine
<1>4. /\ s \in {"waiting_admin", "waiting_customer"}
      /\ f \in Nat \cup {Null}
  BY DEF ReplyStatus, FirstResponse, IInv, Stored
<1>5. q \in Patch /\ q.status = s /\ q.assignee = Null
  BY <1>4 DEF NoPatch, Patch, Status
<1>6. Dated(q)
  BY <1>4, <1>5, NullAssumption DEF Dated, Status
<1> HIDE DEF p, s, f
<1>7. r \in Request /\ r.patch = q /\ r.pc = "message" /\ r.before = <<>>
  BY <1>3, <1>5 DEF Request
<1> HIDE DEF q
<1>8. Fine(r)
  BY <1>5, <1>6, <1>7, NullAssumption DEF Fine
<1>9. DatesAgree'
  BY <1>2 DEF DatesAgree, IInv, Stored
<1> HIDE DEF r
<1>10. Accept(h, r)
  BY <1>1 DEF r, p, s, f
<1> QED BY <1>2, <1>8, <1>9, <1>10, AcceptIInv DEF IInv, Stored

LEMMA CloseTicketIInv ==
    ASSUME IInv, NEW h \in Handlers, CloseTicket(h)
    PROVE  IInv'
<1>1. PICK by \in {"customer", "admin"} :
         Accept(h, [Plain(by, "note", StatusEvent("closed")) EXCEPT
                    !.pc = "update",
                    !.patch.status = "closed", !.patch.closed = TRUE,
                    !.after[1].to = "closed", !.tell = "closed"])
  BY DEF CloseTicket
<1> DEFINE p == Plain(by, "note", StatusEvent("closed"))
           q == [NoPatch EXCEPT !.status = "closed", !.closed = TRUE]
           r == [p EXCEPT !.pc = "update",
                    !.patch.status = "closed", !.patch.closed = TRUE,
                    !.after[1].to = "closed", !.tell = "closed"]
<1>2. ticket # Null /\ ticket' = ticket
  BY DEF CloseTicket
<1>3. Fine(p) /\ p \in Request /\ p.patch = NoPatch /\ p.pc = "message"
      /\ p.before = <<>> /\ p.after = <<Entry(StatusEvent("closed"), by, Null)>>
  <2>1. by \in Side /\ StatusEvent("closed") \in EventType
    BY DEF Side, EventType, StatusEvent
  <2> HIDE DEF q, r
  <2> QED BY <2>1, PlainFine
<1>4. q \in Patch /\ q.assignee = Null /\ Dated(q)
  BY NullAssumption DEF NoPatch, Patch, Status, Dated
<1>5. [p.after EXCEPT ![1].to = "closed"] \in Seq(Event)
  <2>1. Entry(StatusEvent("closed"), by, Null) \in Event
    BY EntryType DEF EventType, StatusEvent, Side
  <2>2. [Entry(StatusEvent("closed"), by, Null) EXCEPT !.to = "closed"] \in Event
    BY <2>1 DEF Event, Status
  <2> DEFINE e == [p.after[1] EXCEPT !.to = "closed"]
  <2>3. p.after \in [1 .. 1 -> Event] /\ e \in Event
    <3>1. p.after[1] = Entry(StatusEvent("closed"), by, Null)
      BY <1>3
    <3>2. e \in Event
      BY <2>2, <3>1
    <3>3. p.after = [i \in 1 .. 1 |-> Entry(StatusEvent("closed"), by, Null)]
      BY <1>3
    <3> HIDE DEF e, p
    <3>4. [i \in 1 .. 1 |-> Entry(StatusEvent("closed"), by, Null)] \in [1 .. 1 -> Event]
      BY <2>1
    <3> QED BY <3>2, <3>3, <3>4
  <2> DEFINE x == p.after
  <2> HIDE DEF p, e
  <2>4. [x EXCEPT ![1] = e] \in [1 .. 1 -> Event]
    BY <2>3
  <2>5. [x EXCEPT ![1] = e] \in Seq(Event)
    <3> DEFINE y == [x EXCEPT ![1] = e]
    <3>1. y \in [1 .. 1 -> Event] /\ 1 \in Nat
      BY <2>4
    <3> HIDE DEF y
    <3>2. \A n \in Nat : \A z \in [1 .. n -> Event] : z \in Seq(Event)
      OBVIOUS
    <3>3. y \in Seq(Event)
      BY <3>1, <3>2
    <3> QED BY <3>3 DEF y
  <2> QED BY <2>5 DEF e
<1> HIDE DEF p
<1>6. r \in Request /\ r.patch = q /\ r.pc = "update" /\ r.before = <<>>
  BY <1>3, <1>4, <1>5 DEF Request, Status
<1> HIDE DEF q
<1>7. Fine(r)
  BY <1>4, <1>6, NullAssumption DEF Fine
<1>8. DatesAgree'
  BY <1>2 DEF DatesAgree, IInv, Stored
<1> HIDE DEF r
<1>9. Accept(h, r)
  BY <1>1 DEF r, p
<1> QED BY <1>2, <1>7, <1>8, <1>9, AcceptIInv DEF IInv, Stored

LEMMA ReopenTicketIInv ==
    ASSUME IInv, NEW h \in Handlers, ReopenTicket(h)
    PROVE  IInv'
<1>1. PICK by \in {"customer", "admin"} :
         Accept(h, [Plain(by, "note", "reopened") EXCEPT
                    !.pc = "update", !.patch = Reopened(NoPatch)])
  BY DEF ReopenTicket
<1> DEFINE p == Plain(by, "note", "reopened")
           q == Reopened(NoPatch)
           r == [p EXCEPT !.pc = "update", !.patch = q]
<1>2. ticket # Null /\ ticket' = ticket
  BY DEF ReopenTicket
<1>3. Fine(p) /\ p \in Request /\ p.before = <<>>
  <2>1. by \in Side /\ "reopened" \in EventType
    BY DEF Side, EventType
  <2> HIDE DEF q, r
  <2> QED BY <2>1, PlainFine
<1>4. q \in Patch /\ q.assignee = Null /\ Dated(q)
  BY NullAssumption DEF NoPatch, Patch, Status, Dated, Reopened
<1> HIDE DEF p, q
<1>5. r \in Request /\ r.patch = q /\ r.pc = "update" /\ r.before = <<>>
  BY <1>3, <1>4 DEF Request
<1>6. Fine(r)
  BY <1>4, <1>5, NullAssumption DEF Fine
<1>7. DatesAgree'
  BY <1>2 DEF DatesAgree, IInv, Stored
<1> HIDE DEF r
<1>8. Accept(h, r)
  BY <1>1 DEF r, p, q
<1> QED BY <1>2, <1>6, <1>7, <1>8, AcceptIInv DEF IInv, Stored
(* Three lists of entries, one after the other. *)
LEMMA Concat3 ==
    ASSUME NEW a \in Seq(Event), NEW b \in Seq(Event), NEW c \in Seq(Event)
    PROVE  /\ a \o b \o c \in Seq(Event)
           /\ a \o b \o c = <<>> => a = <<>> /\ b = <<>> /\ c = <<>>
           /\ c # <<>> => /\ Len(a \o b \o c) \in DOMAIN (a \o b \o c)
                          /\ (a \o b \o c)[Len(a \o b \o c)] = c[Len(c)]
<1> DEFINE d == a \o b
           e == d \o c
<1>1. d \in Seq(Event)
  OBVIOUS
<1>2. d = <<>> => a = <<>> /\ b = <<>>
  <2>1. Len(d) = Len(a) + Len(b)
    OBVIOUS
  <2> QED BY <1>1, <2>1
<1> HIDE DEF d
<1>3. e \in Seq(Event) /\ Len(e) = Len(d) + Len(c)
  <2>1. e \in Seq(Event)
    BY <1>1
  <2>2. Len(e) = Len(d) + Len(c)
    BY <1>1
  <2> QED BY <2>1, <2>2
<1>4. e = <<>> => d = <<>> /\ c = <<>>
  BY <1>1, <1>3
<1>5. ASSUME c # <<>>
      PROVE  Len(e) \in DOMAIN e /\ e[Len(e)] = c[Len(c)]
  <2>1. Len(c) \in Nat /\ Len(c) > 0 /\ Len(d) \in Nat
    BY <1>1, <1>5
  <2>2. Len(e) \in 1 .. Len(e)
    BY <1>3, <2>1
  <2>3. e[Len(d) + Len(c)] = c[Len(c)]
    BY <1>1, <2>1
  <2> HIDE DEF e
  <2> QED BY <1>3, <2>2, <2>3
<1> QED BY <1>2, <1>3, <1>4, <1>5 DEF d

(* What the console changes is a patch with its dates. *)
LEMMA ChangedFine ==
    ASSUME ticket \in Ticket, NEW p \in Patches
    PROVE  /\ Changed(p) \in Patch /\ Dated(Changed(p))
           /\ /\ Changed(p).status = Null /\ Changed(p).priority = Null
              /\ Changed(p).assignee = Null
              => Changed(p) = NoPatch
<1>1. /\ p \in Patch /\ p.first = Null /\ p.resolved = Null /\ p.closed = Null
  BY ConstantsAssumption
<1> DEFINE q == [p EXCEPT
                   !.status   = IF Differs(@, ticket.status) THEN @ ELSE Null,
                   !.priority = IF Differs(@, ticket.priority) THEN @ ELSE Null,
                   !.assignee = IF Differs(@, ticket.assignee) THEN @ ELSE Null]
<1>2. /\ q \in Patch /\ q.first = Null /\ q.resolved = Null /\ q.closed = Null
  BY <1>1 DEF Patch, Differs
<1>3. Changed(p) = WithDates(q)
  BY DEF Changed
<1> HIDE DEF q
<1>4. \A s \in Status : s # Null
  BY NullAssumption
<1>5. "resolved" \in Status /\ "closed" \in Status /\ "open" \in Status
  BY DEF Status
<1>6. CASE q.status = "resolved"
  <2>1. WithDates(q) = [q EXCEPT !.resolved = TRUE]
    BY <1>6 DEF WithDates
  <2> QED BY <1>2, <1>3, <1>4, <1>5, <1>6, <2>1 DEF Patch, Dated
<1>7. CASE q.status = "closed"
  <2>1. WithDates(q) = [q EXCEPT !.closed = TRUE]
    BY <1>7 DEF WithDates
  <2> QED BY <1>2, <1>3, <1>4, <1>5, <1>7, <2>1 DEF Patch, Dated
<1>8. CASE q.status = "open"
  <2>1. WithDates(q) = Reopened(q)
    BY <1>8 DEF WithDates
  <2>2. /\ Reopened(q) \in Patch /\ Reopened(q).status = "open"
        /\ Reopened(q).resolved = FALSE /\ Reopened(q).closed = FALSE
    BY <1>2, <1>5 DEF Patch, Reopened
  <2> QED BY <1>3, <1>4, <1>5, <2>1, <2>2 DEF Dated
<1>9. CASE q.status \notin {"resolved", "closed", "open"}
  <2>1. WithDates(q) = q
    BY <1>9 DEF WithDates
  <2>2. Dated(q)
    BY <1>2, <1>9 DEF Dated
  <2>3. ASSUME q.status = Null, q.priority = Null, q.assignee = Null
        PROVE  q = NoPatch
    BY <1>2, <2>3 DEF NoPatch, Patch
  <2> QED BY <1>2, <1>3, <2>1, <2>2, <2>3
<1> QED BY <1>6, <1>7, <1>8, <1>9

(* Whatever changes has an entry, and an assignment its own. *)
LEMMA EntriesFine ==
    ASSUME NEW p \in Patch
    PROVE  /\ ChangeEntries(p) \in Seq(Event)
           /\ ChangeEntries(p) = <<>> =>
                p.status = Null /\ p.priority = Null /\ p.assignee = Null
           /\ p.assignee \notin {Null, Nobody} =>
                \E i \in DOMAIN ChangeEntries(p) : ChangeEntries(p)[i].type = "assigned"
<1> DEFINE a == StatusEntry(p)
           b == IF p.priority = Null THEN <<>>
                ELSE <<Entry("priority_changed", "admin", Null)>>
           c == IF p.assignee = Null THEN <<>>
                ELSE IF p.assignee = Nobody THEN <<Entry("unassigned", "admin", Null)>>
                ELSE <<Entry("assigned", "admin", Null)>>
<1>1. a \in Seq(Event) /\ (a = <<>> => p.status = Null)
  <2>1. CASE p.status = Null
    BY <2>1 DEF StatusEntry
  <2>2. CASE p.status # Null
    <3>1. p.status \in Status
      BY <2>2 DEF Patch
    <3>2. Entry(StatusEvent(p.status), "admin", p.status) \in Event
      BY <3>1, EntryType DEF StatusEvent, EventType, Side
    <3> QED BY <2>2, <3>2 DEF StatusEntry
  <2> QED BY <2>1, <2>2
<1>2. b \in Seq(Event) /\ (b = <<>> => p.priority = Null)
  BY EntryType DEF EventType, Side
<1>3. /\ c \in Seq(Event) /\ (c = <<>> => p.assignee = Null)
      /\ p.assignee \notin {Null, Nobody} => c # <<>> /\ c[Len(c)].type = "assigned"
  <2>1. /\ Entry("unassigned", "admin", Null) \in Event
        /\ Entry("assigned", "admin", Null) \in Event
    BY EntryType DEF EventType, Side
  <2>2. Entry("assigned", "admin", Null).type = "assigned"
    BY DEF Entry
  <2> QED BY <2>1, <2>2
<1>4. ChangeEntries(p) = a \o b \o c
  BY DEF ChangeEntries
<1> HIDE DEF a, b, c
<1> DEFINE d == a \o b \o c
<1>5. /\ d \in Seq(Event)
      /\ d = <<>> => a = <<>> /\ b = <<>> /\ c = <<>>
      /\ c # <<>> => Len(d) \in DOMAIN d /\ d[Len(d)] = c[Len(c)]
  BY <1>1, <1>2, <1>3, Concat3
<1> HIDE DEF d
<1>6. ChangeEntries(p) = d
  BY <1>4 DEF d
<1> QED BY <1>1, <1>2, <1>3, <1>5, <1>6

LEMMA AdminUpdateIInv ==
    ASSUME IInv, NEW h \in Handlers, AdminUpdate(h)
    PROVE  IInv'
<1>1. PICK p \in Patches :
        /\ Changed(p) # NoPatch
        /\ Accept(h, [Plain("admin", "note", "note_added") EXCEPT
                        !.pc = "before", !.patch = Changed(p),
                        !.before = ChangeEntries(Changed(p)), !.after = <<>>,
                        !.tell = StatusToTell(Changed(p))])
  BY DEF AdminUpdate
<1> DEFINE q == Changed(p)
           e == ChangeEntries(q)
           s == StatusToTell(q)
           n == Plain("admin", "note", "note_added")
           r == [n EXCEPT !.pc = "before", !.patch = q, !.before = e,
                          !.after = <<>>, !.tell = s]
<1>2. ticket # Null /\ ticket' = ticket /\ ticket \in Ticket
  BY DEF AdminUpdate, IInv, Stored
<1>3. q \in Patch /\ Dated(q) /\ s \in Status \cup {Null}
  BY <1>2, ChangedFine DEF StatusToTell, Patch
<1>4. /\ e \in Seq(Event) /\ e # <<>>
      /\ q.assignee = Outsider => \E i \in DOMAIN e : e[i].type = "assigned"
  <2>1. Outsider \notin {Null, Nobody}
    BY NullAssumption DEF Assignee
  <2> HIDE DEF q
  <2> QED BY <1>1, <1>2, <1>3, <2>1, ChangedFine, EntriesFine DEF q
<1>5. n \in Request
  <2>1. "admin" \in Side /\ "note_added" \in EventType
    BY DEF Side, EventType
  <2> HIDE DEF q, e, s, r
  <2> QED BY <2>1, PlainFine
<1> HIDE DEF q, e, s, n
<1>6. r \in Request /\ r.patch = q /\ r.pc = "before" /\ r.before = e
  <2> DEFINE x == [n EXCEPT !.pc = "before", !.patch = q, !.before = e]
  <2>1. /\ x \in Request /\ x.patch = q /\ x.pc = "before" /\ x.before = e
    BY <1>3, <1>4, <1>5 DEF Request
  <2>2. r = [x EXCEPT !.after = <<>>, !.tell = s]
    OBVIOUS
  <2>3. <<>> \in Seq(Event)
    OBVIOUS
  <2> HIDE DEF x, r
  <2> QED BY <1>3, <2>1, <2>2, <2>3 DEF Request
<1> HIDE DEF r
<1>7. Fine(r)
  BY <1>3, <1>4, <1>6 DEF Fine
<1>8. DatesAgree'
  BY <1>2 DEF DatesAgree, IInv, Stored
<1>9. Accept(h, r)
  BY <1>1 DEF r, q, e, s, n
<1> QED BY <1>2, <1>7, <1>8, <1>9, AcceptIInv

LEMMA AnnotateIInv ==
    ASSUME IInv, NEW h \in Handlers, Annotate(h)
    PROVE  IInv'
<1>1. PICK r : Fine(r) /\ Accept(h, r)
  BY PlainFine DEF Annotate, Side, EventType
<1>2. ticket # Null /\ ticket' = ticket
  BY DEF Annotate
<1> QED BY <1>1, <1>2, AcceptIInv DEF IInv, Stored, DatesAgree

(* A request in flight is fine, and has a ticket. *)
LEMMA InFlight ==
    ASSUME IInv, NEW h \in Handlers, req[h] # Null
    PROVE  /\ req[h] \in Request /\ Fine(req[h])
           /\ ticket # Null /\ ticket \in Ticket
BY DEF IInv, Flight, Stored, Fine

LEMMA AddMessageIInv ==
    ASSUME IInv, NEW h \in Handlers, AddMessage(h)
    PROVE  IInv'
<1> DEFINE r == req[h]
           pc == IF r.patch = NoPatch THEN "after" ELSE "update"
           n == [r EXCEPT !.pc = pc]
<1>1. /\ r # Null /\ r.pc = "message" /\ req' = [req EXCEPT ![h] = n]
      /\ messages' = Append(messages, r.message)
      /\ UNCHANGED <<ticket, timeline, told, next, upset>>
  BY DEF AddMessage
<1>2. r \in Request /\ Fine(r) /\ ticket # Null
  BY <1>1, InFlight
<1>3. pc \in {"after", "update"}
  OBVIOUS
<1> HIDE DEF pc
<1>4. n \in Request /\ n.pc = pc /\ n.patch = r.patch /\ n.before = r.before
  BY <1>2, <1>3 DEF Request
<1> HIDE DEF n
<1>5. Fine(n)
  <2>1. Null # Outsider
    BY NullAssumption
  <2> QED BY <1>1, <1>2, <1>3, <1>4, <2>1 DEF Fine
<1>6. Flight'
  BY <1>1, <1>2, <1>5, FlightStep
<1>7. messages' \in Seq(Message)
  BY <1>1, <1>2 DEF Request, IInv, Stored
<1> QED BY <1>1, <1>6, <1>7 DEF IInv, Stored, DatesAgree

(* Whoever is not of the staff is refused before the update. *)
LEMMA RecordBeforeIInv ==
    ASSUME IInv, NEW h \in Handlers, RecordBefore(h)
    PROVE  IInv'
<1> DEFINE r == req[h]
<1>1. /\ r # Null /\ r.pc = "before"
      /\ UNCHANGED <<ticket, messages, told, next>>
  BY DEF RecordBefore
<1>2. r \in Request /\ Fine(r) /\ ticket # Null
  BY <1>1, InFlight
<1>3. r.before \in Seq(Event) /\ r.before # <<>>
  BY <1>1, <1>2 DEF Fine, Request
<1>4. DatesAgree'
  BY <1>1 DEF IInv, Stored, DatesAgree
<1>5. CASE Refused(r)
  <2>1. /\ req' = [req EXCEPT ![h] = Null] /\ UNCHANGED timeline
        /\ upset' = upset \cup {"refused"}
    BY <1>5 DEF RecordBefore
  <2>2. Flight'
    BY <1>1, <1>2, <2>1, FlightStep
  <2> QED BY <1>1, <1>4, <2>1, <2>2 DEF IInv, Stored, Upset
<1>6. CASE ~Refused(r)
  <2> DEFINE rest == Tail(r.before)
             pc == IF rest = <<>> THEN "update" ELSE "before"
             n == [r EXCEPT !.before = rest, !.pc = pc]
  <2>1. /\ timeline' = Append(timeline, Head(r.before)) /\ UNCHANGED upset
        /\ req' = [req EXCEPT ![h] = n]
    <3>1. req' = [req EXCEPT ![h].before = Tail(@),
                     ![h].pc = IF Tail(r.before) = <<>> THEN "update" ELSE @]
      BY <1>6 DEF RecordBefore
    <3> QED BY <1>1, <1>6, <3>1 DEF RecordBefore, IInv, Flight
  <2>2. rest \in Seq(Event) /\ Head(r.before) \in Event
    BY <1>3
  <2>3. ASSUME r.patch.assignee = Outsider
        PROVE  \E i \in DOMAIN rest : rest[i].type = "assigned"
    <3>1. PICK i \in DOMAIN r.before : r.before[i].type = "assigned"
      BY <1>2, <2>3 DEF Fine
    <3>2. Outsider \notin Staff
      BY NullAssumption DEF Assignee
    <3>3. Head(r.before).type # "assigned"
      BY <1>6, <2>3, <3>2 DEF Refused
    <3>4. i # 1
      BY <1>3, <3>1, <3>3
    <3>5. i - 1 \in DOMAIN rest /\ rest[i - 1] = r.before[i]
      BY <1>3, <3>4
    <3> QED BY <3>1, <3>5
  <2>4. rest = <<>> => r.patch.assignee # Outsider
    BY <2>3
  <2>5. pc \in {"before", "update"} /\ (pc = "before" => rest # <<>>)
        /\ (pc = "update" => rest = <<>>)
    OBVIOUS
  <2> HIDE DEF rest, pc
  <2>6. n \in Request /\ n.pc = pc /\ n.patch = r.patch /\ n.before = rest
    BY <1>2, <2>2, <2>5 DEF Request
  <2> HIDE DEF n
  <2>7. Fine(n)
    BY <1>2, <2>3, <2>4, <2>5, <2>6 DEF Fine
  <2>8. Flight'
    BY <1>1, <1>2, <2>1, <2>7, FlightStep
  <2>9. timeline' \in Seq(Event)
    BY <2>1, <2>2 DEF IInv, Stored
  <2> QED BY <1>1, <1>4, <2>1, <2>8, <2>9 DEF IInv, Stored
<1> QED BY <1>5, <1>6

(* The dates move with the status, whatever the ticket has become since it  *)
(* was read.                                                                *)
LEMMA UpdatedDates ==
    ASSUME ticket \in Ticket, ticket # Null, DatesAgree, NEW p \in Patch, Dated(p),
           p.assignee # Outsider
    PROVE  LET t == Updated(ticket, p) IN
           /\ t \in Ticket
           /\ t.status = "closed" => t.closed
           /\ t.status = "resolved" => t.resolved
           /\ t.status = "open" => ~t.closed /\ ~t.resolved
<1> DEFINE t == Updated(ticket, p)
<1>0. \A x \in Status \cup Priority \cup BOOLEAN : x # Null
  BY NullAssumption
<1>1. t \in Ticket
  <2>1. Or(p.assignee, ticket.assignee) \in Assignee
    BY DEF Or, Patch, Ticket
  <2>2. /\ Or(p.status, ticket.status) \in Status
        /\ Or(p.priority, ticket.priority) \in Priority
        /\ Or(p.first, ticket.first) \in Nat \cup {Null}
    BY DEF Or, Patch, Ticket
  <2>3. /\ Or(p.resolved, ticket.resolved) \in BOOLEAN
        /\ Or(p.closed, ticket.closed) \in BOOLEAN
    BY DEF Or, Patch, Ticket
  <2> QED BY <2>1, <2>2, <2>3 DEF Updated, Ticket
<1>2. /\ t.status = IF p.status = Null THEN ticket.status ELSE p.status
      /\ t.resolved = IF p.resolved = Null THEN ticket.resolved ELSE p.resolved
      /\ t.closed = IF p.closed = Null THEN ticket.closed ELSE p.closed
  BY DEF Updated, Or
<1> HIDE DEF t
<1>3. TRUE # Null /\ FALSE # Null
  BY <1>0
<1>4. ASSUME p.status = Null
      PROVE  /\ t.status = ticket.status /\ t.closed = ticket.closed
             /\ t.resolved = ticket.resolved
  BY <1>2, <1>4 DEF Dated
<1>5. ASSUME p.status # Null
      PROVE  /\ t.status = "closed" => t.closed = TRUE
             /\ t.status = "resolved" => t.resolved = TRUE
             /\ t.status = "open" => t.closed = FALSE /\ t.resolved = FALSE
  BY <1>2, <1>3, <1>5 DEF Dated
<1>6. /\ t.status = "closed" => t.closed
      /\ t.status = "resolved" => t.resolved
      /\ t.status = "open" => ~t.closed /\ ~t.resolved
  <2>1. CASE p.status = Null
    BY <1>4, <2>1, Zenon DEF DatesAgree
  <2>2. CASE p.status # Null
    BY <1>5, <2>2, Zenon
  <2> QED BY <2>1, <2>2
<1> QED BY <1>1, <1>6 DEF t

LEMMA UpdateTicketIInv ==
    ASSUME IInv, NEW h \in Handlers, UpdateTicket(h)
    PROVE  IInv'
<1> DEFINE r == req[h]
           pc == IF r.after = <<>> THEN "tell" ELSE "after"
           n == [r EXCEPT !.pc = pc]
<1>1. /\ r # Null /\ r.pc = "update" /\ ticket' = Updated(ticket, r.patch)
      /\ \/ req' = [req EXCEPT ![h] = Null]
         \/ req' = [req EXCEPT ![h] = n]
      /\ UNCHANGED <<messages, timeline, told, next, upset>>
  BY DEF UpdateTicket
<1>2. r \in Request /\ Fine(r) /\ ticket # Null /\ ticket \in Ticket
  BY <1>1, InFlight
<1>3. pc \in {"tell", "after"}
  OBVIOUS
<1> HIDE DEF pc
<1>4. n \in Request /\ n.pc = pc /\ n.patch = r.patch /\ n.before = r.before
  BY <1>2, <1>3 DEF Request
<1> HIDE DEF n
<1>5. Fine(n)
  BY <1>1, <1>2, <1>3, <1>4 DEF Fine
<1>6. ticket' \in Ticket /\ ticket' # Null /\ DatesAgree'
  <2>1. r.patch \in Patch /\ Dated(r.patch) /\ r.patch.assignee # Outsider
    BY <1>1, <1>2 DEF Fine, Request
  <2>2. DatesAgree
    BY DEF IInv, Stored
  <2> QED BY <1>1, <1>2, <2>1, <2>2, UpdatedDates, NullAssumption DEF DatesAgree
<1>7. Flight'
  BY <1>1, <1>5, <1>6, FlightStep
<1> QED BY <1>1, <1>6, <1>7 DEF IInv, Stored

LEMMA LastStepsIInv ==
    ASSUME IInv, NEW h \in Handlers, RecordAfter(h) \/ TellStatus(h) \/ Die(h)
    PROVE  IInv'
<1> DEFINE r == req[h]
           n == [r EXCEPT !.pc = "tell", !.after = <<>>]
<1>1. /\ r # Null /\ UNCHANGED <<ticket, messages, next>>
      /\ \/ req' = [req EXCEPT ![h] = Null]
         \/ req' = [req EXCEPT ![h] = n]
      /\ timeline' \in {timeline, timeline \o r.after}
      /\ told' \in {told, r.tell}
      /\ upset' \subseteq upset \cup {"died"}
  BY DEF RecordAfter, TellStatus, Die
<1>2. r \in Request /\ Fine(r) /\ ticket # Null
  BY <1>1, InFlight
<1>3. n \in Request /\ n.pc = "tell" /\ n.patch = r.patch /\ n.before = r.before
  <2>1. <<>> \in Seq(Event)
    OBVIOUS
  <2> DEFINE none == <<>>
  <2> HIDE DEF none
  <2>2. none \in Seq(Event)
    BY <2>1 DEF none
  <2> DEFINE m == [r EXCEPT !.pc = "tell", !.after = none]
  <2>3. m \in Request /\ m.pc = "tell" /\ m.patch = r.patch /\ m.before = r.before
    BY <1>2, <2>2 DEF Request
  <2> QED BY <2>3 DEF none
<1> HIDE DEF n
<1>4. Fine(n)
  BY <1>2, <1>3 DEF Fine
<1>5. Flight'
  BY <1>1, <1>2, <1>4, FlightStep
<1>6. timeline' \in Seq(Event) /\ told' \in Status \cup {Null}
  <2>1. r.after \in Seq(Event) /\ r.tell \in Status \cup {Null}
    BY <1>2 DEF Request
  <2>2. timeline \in Seq(Event) /\ told \in Status \cup {Null}
    BY DEF IInv, Stored
  <2>3. timeline \o r.after \in Seq(Event)
    BY <2>1, <2>2
  <2> QED BY <1>1, <2>1, <2>2, <2>3
<1> QED BY <1>1, <1>5, <1>6 DEF IInv, Stored, DatesAgree, Upset

(* Every step keeps the invariant. *)
LEMMA NextIInv == IInv /\ [Next]_vars => IInv'
<1> SUFFICES ASSUME IInv, [Next]_vars PROVE IInv'
  OBVIOUS
<1>1. CASE UNCHANGED vars
  BY <1>1 DEF vars, IInv, Flight, Stored, DatesAgree
<1>2. CASE Next
  BY <1>2, CreateTicketIInv, ReplyIInv, CloseTicketIInv, ReopenTicketIInv,
     AdminUpdateIInv, AnnotateIInv, AddMessageIInv, RecordBeforeIInv,
     UpdateTicketIInv, LastStepsIInv DEF Next
<1> QED BY <1>1, <1>2

(* The invariant holds in every reachable state. *)
LEMMA Invariance == Spec => []IInv
BY InitIInv, NextIInv, PTL DEF Spec

-----------------------------------------------------------------------------
(* Theorems                                                                 *)

(* The ticket, its history and the requests in flight have their types; in  *)
(* particular nobody who is not of the staff is ever assigned.              *)
THEOREM TypeCorrect == Spec => []TypeOK
<1>1. IInv => TypeOK
  BY DEF IInv, Flight, Stored, TypeOK
<1> QED BY <1>1, Invariance, PTL

(* However replies, closes, reopenings and the console interleave, and      *)
(* wherever they die, the dates agree with the status.                      *)
THEOREM DatesTold == Spec => []DatesAgree
<1>1. IInv => DatesAgree
  BY DEF IInv, Stored
<1> QED BY <1>1, Invariance, PTL

-----------------------------------------------------------------------------
(* The status and its timeline                                              *)

Shows(entries, status) == \E i \in DOMAIN entries : Shown(entries[i]) = status

(* The status a request is about to set is recorded already, or it will be. *)
Kept(r, entries) ==
    /\ r.pc \in {"message", "before", "update"} /\ r.patch.status # Null =>
         \/ Shows(r.after, r.patch.status)
         \/ Shows(r.before, r.patch.status)
         \/ Shows(entries, r.patch.status)
    /\ r.pc \in {"message", "update"} => r.before = <<>>
    /\ r.pc \in {"before", "tell"} => r.after = <<>>

Promised ==
    /\ \A h \in Handlers : req[h] # Null => Kept(req[h], timeline)
    /\ StatusIsOnTimeline

LEMMA ShowsNothing == \A x : ~Shows(<<>>, x)
BY DEF Shows

LEMMA ShowsOne ==
    ASSUME NEW e, NEW x
    PROVE  Shows(<<e>>, x) <=> Shown(e) = x
<1>1. DOMAIN <<e>> = {1} /\ <<e>>[1] = e
  OBVIOUS
<1> DEFINE s == <<e>>
<1> HIDE DEF s
<1>2. DOMAIN s = {1} /\ s[1] = e
  BY <1>1 DEF s
<1>3. Shows(s, x) <=> Shown(e) = x
  BY <1>2 DEF Shows
<1> QED BY <1>3 DEF s

LEMMA ShowsConcat ==
    ASSUME NEW s \in Seq(Event), NEW t \in Seq(Event), NEW x
    PROVE  Shows(s \o t, x) <=> Shows(s, x) \/ Shows(t, x)
<1> DEFINE u == s \o t
<1>1. /\ Len(s) \in Nat /\ Len(t) \in Nat /\ u \in Seq(Event)
      /\ DOMAIN s = 1 .. Len(s) /\ DOMAIN t = 1 .. Len(t)
      /\ DOMAIN u = 1 .. Len(s) + Len(t)
  OBVIOUS
<1>2. /\ \A i \in 1 .. Len(s) : u[i] = s[i]
      /\ \A i \in 1 .. Len(t) : u[Len(s) + i] = t[i]
  OBVIOUS
<1> HIDE DEF u
<1>3. ASSUME Shows(s, x) PROVE Shows(u, x)
  BY <1>1, <1>2, <1>3 DEF Shows
<1>4. ASSUME Shows(t, x) PROVE Shows(u, x)
  <2>1. PICK i \in 1 .. Len(t) : Shown(t[i]) = x
    BY <1>1, <1>4 DEF Shows
  <2>2. Len(s) + i \in DOMAIN u /\ u[Len(s) + i] = t[i]
    BY <1>1, <1>2
  <2> QED BY <2>1, <2>2 DEF Shows
<1>5. ASSUME Shows(u, x) PROVE Shows(s, x) \/ Shows(t, x)
  <2>1. PICK i \in DOMAIN u : Shown(u[i]) = x
    BY <1>5 DEF Shows
  <2>2. CASE i \in 1 .. Len(s)
    BY <1>1, <1>2, <2>1, <2>2 DEF Shows
  <2>3. CASE i \notin 1 .. Len(s)
    <3> DEFINE j == i - Len(s)
    <3>1. j \in 1 .. Len(t) /\ i = Len(s) + j
      BY <1>1, <2>3
    <3> HIDE DEF j
    <3> QED BY <1>1, <1>2, <2>1, <3>1 DEF Shows
  <2> QED BY <2>2, <2>3
<1> QED BY <1>3, <1>4, <1>5 DEF u

LEMMA ShowsHead ==
    ASSUME NEW s \in Seq(Event), s # <<>>, NEW x, Shows(s, x)
    PROVE  Shown(Head(s)) = x \/ Shows(Tail(s), x)
<1>1. PICK i \in 1 .. Len(s) : Shown(s[i]) = x
  BY DEF Shows
<1>2. CASE i = 1
  BY <1>1, <1>2
<1>3. CASE i # 1
  <2> DEFINE t == Tail(s)
  <2>1. i - 1 \in DOMAIN t /\ t[i - 1] = s[i]
    BY <1>3
  <2> HIDE DEF t
  <2>2. Shows(t, x)
    BY <1>1, <2>1 DEF Shows
  <2> QED BY <2>2 DEF t
<1> QED BY <1>2, <1>3

LEMMA ShowsAppend ==
    ASSUME NEW s \in Seq(Event), NEW e \in Event, NEW x
    PROVE  Shows(Append(s, e), x) <=> Shows(s, x) \/ Shown(e) = x
<1>1. Append(s, e) = s \o <<e>> /\ <<e>> \in Seq(Event)
  OBVIOUS
<1> DEFINE t == <<e>>
<1>2. Shows(t, x) <=> Shown(e) = x
  BY ShowsOne
<1>3. t \in Seq(Event) /\ Append(s, e) = s \o t
  BY <1>1
<1> HIDE DEF t
<1>4. Shows(s \o t, x) <=> Shows(s, x) \/ Shows(t, x)
  BY <1>3, ShowsConcat
<1> QED BY <1>2, <1>3, <1>4

(* A step of one request: the timeline grows, and the status the ticket has *)
(* or gets stays shown.                                                     *)
LEMMA PromiseStep ==
    ASSUME IInv, Promised, NEW h \in Handlers, NEW r,
           req' = [req EXCEPT ![h] = r],
           r # Null => Kept(r, timeline'),
           \A x : Shows(timeline, x) => Shows(timeline', x),
           "died" \notin upset' => "died" \notin upset,
           \/ "died" \in upset'
           \/ /\ ticket # Null /\ ticket'.status = ticket.status
              /\ \A x : req[h] # Null /\ Shows(req[h].after, x) =>
                   Shows(timeline', x) \/ (r # Null /\ Shows(r.after, x))
           \/ Shows(timeline', ticket'.status)
           \/ r # Null /\ Shows(r.after, ticket'.status)
    PROVE  Promised'
<1>1. \A g \in Handlers : req'[g] = IF g = h THEN r ELSE req[g]
  BY DEF IInv, Flight
<1>2. ASSUME NEW g \in Handlers, req'[g] # Null PROVE Kept(req'[g], timeline')
  <2>1. CASE g = h
    BY <1>1, <1>2, <2>1
  <2>2. CASE g # h
    <3>1. Kept(req[g], timeline) /\ req'[g] = req[g]
      BY <1>1, <1>2, <2>2 DEF Promised
    <3> QED BY <3>1 DEF Kept
  <2> QED BY <2>1, <2>2
<1>3. ASSUME "died" \notin upset'
      PROVE  \/ Shows(timeline', ticket'.status)
             \/ \E g \in Handlers : req'[g] # Null /\ Shows(req'[g].after, ticket'.status)
  <2>1. CASE Shows(timeline', ticket'.status)
    BY <2>1
  <2>2. CASE r # Null /\ Shows(r.after, ticket'.status)
    BY <1>1, <2>2
  <2>3. CASE /\ ticket # Null /\ ticket'.status = ticket.status
             /\ \A x : req[h] # Null /\ Shows(req[h].after, x) =>
                   Shows(timeline', x) \/ (r # Null /\ Shows(r.after, x))
    <3>1. \/ Shows(timeline, ticket.status)
          \/ \E g \in Handlers : req[g] # Null /\ Shows(req[g].after, ticket.status)
      BY <1>3, <2>3 DEF Promised, StatusIsOnTimeline, Shows
    <3>2. CASE Shows(timeline, ticket.status)
      BY <2>3, <3>2
    <3>3. ASSUME NEW g \in Handlers, req[g] # Null, Shows(req[g].after, ticket.status)
          PROVE  \/ Shows(timeline', ticket.status)
                 \/ \E k \in Handlers : req'[k] # Null /\ Shows(req'[k].after, ticket.status)
      <4>1. CASE g = h
        BY <1>1, <2>3, <3>3, <4>1
      <4>2. CASE g # h
        BY <1>1, <3>3, <4>2
      <4> QED BY <4>1, <4>2
    <3> QED BY <2>3, <3>1, <3>2, <3>3
  <2> QED BY <1>3, <2>1, <2>2, <2>3
<1>4. StatusIsOnTimeline'
  BY <1>3 DEF StatusIsOnTimeline, Shows
<1> QED BY <1>2, <1>4 DEF Promised

(* A request accepted adds to what is promised. *)
LEMMA AcceptPromised ==
    ASSUME IInv, Promised, NEW h \in Handlers, NEW r, Accept(h, r),
           Kept(r, timeline),
           \/ ticket # Null /\ ticket' = ticket
           \/ r # Null /\ Shows(r.after, ticket'.status)
    PROVE  Promised'
<1>1. /\ req' = [req EXCEPT ![h] = r] /\ req[h] = Null
      /\ timeline' = timeline
      /\ "died" \notin upset' => "died" \notin upset
  BY DEF Accept
<1> QED BY <1>1, PromiseStep

LEMMA CreatePromised ==
    ASSUME IInv, Promised, NEW h \in Handlers, CreateTicket(h)
    PROVE  Promised'
<1> DEFINE p == Plain("customer", "description", "ticket_created")
           r == [p EXCEPT !.creates = TRUE]
<1>1. ticket' = NewTicket /\ Accept(h, r)
  BY DEF CreateTicket
<1>2. p \in Request /\ p.pc = "message" /\ p.patch = NoPatch /\ p.before = <<>>
      /\ p.after = <<Entry("ticket_created", "customer", Null)>>
  <2>1. "customer" \in Side /\ "ticket_created" \in EventType
    BY DEF Side, EventType
  <2> HIDE DEF r
  <2> QED BY <2>1, PlainFine
<1> HIDE DEF p
<1>3. /\ r \in Request /\ r.pc = p.pc /\ r.patch = p.patch /\ r.before = p.before
      /\ r.after = p.after
  BY <1>2 DEF Request
<1> HIDE DEF r
<1>4. Kept(r, timeline)
  BY <1>2, <1>3 DEF Kept, NoPatch
<1>5. Shown(Entry("ticket_created", "customer", Null)) = "open"
  BY DEF Shown, Entry
<1>6. Shows(r.after, "open")
  BY <1>2, <1>3, <1>5, ShowsOne
<1>7. r # Null /\ ticket'.status = "open"
  BY <1>1, <1>3, NullAssumption DEF NewTicket
<1> QED BY <1>1, <1>4, <1>6, <1>7, AcceptPromised

LEMMA ReplyPromised ==
    ASSUME IInv, Promised, NEW h \in Handlers, Reply(h)
    PROVE  Promised'
<1>1. PICK by \in {"customer", "admin"} :
         Accept(h, [Plain(by, "reply", "reply_added") EXCEPT
                       !.patch.status = ReplyStatus(by),
                       !.patch.first = FirstResponse(by, next + 1)])
  BY DEF Reply
<1> DEFINE p == Plain(by, "reply", "reply_added")
           s == ReplyStatus(by)
           f == FirstResponse(by, next + 1)
           r == [p EXCEPT !.patch.status = s, !.patch.first = f]
           e == Entry("reply_added", by, Null)
<1>2. ticket # Null /\ ticket' = ticket
  BY DEF Reply
<1>3. p \in Request /\ p.patch = NoPatch /\ p.pc = "message" /\ p.before = <<>>
      /\ p.after = <<e>>
  <2>1. by \in Side /\ "reply_added" \in EventType
    BY DEF Side, EventType
  <2> HIDE DEF s, f, r
  <2> QED BY <2>1, PlainFine
<1>4. Shown(e) = s
  BY DEF Shown, Entry, ReplyStatus
<1> HIDE DEF p, s, f, e
<1>5. r.patch.status = s /\ r.pc = p.pc /\ r.before = p.before /\ r.after = p.after
  BY <1>3 DEF Request, NoPatch
<1> HIDE DEF r
<1>6. Kept(r, timeline)
  BY <1>3, <1>4, <1>5, ShowsOne DEF Kept
<1>7. Accept(h, r)
  BY <1>1 DEF r, p, s, f
<1> QED BY <1>2, <1>6, <1>7, AcceptPromised

LEMMA ClosePromised ==
    ASSUME IInv, Promised, NEW h \in Handlers, CloseTicket(h)
    PROVE  Promised'
<1>1. PICK by \in {"customer", "admin"} :
         Accept(h, [Plain(by, "note", StatusEvent("closed")) EXCEPT
                    !.pc = "update",
                    !.patch.status = "closed", !.patch.closed = TRUE,
                    !.after[1].to = "closed", !.tell = "closed"])
  BY DEF CloseTicket
<1> DEFINE e == Entry(StatusEvent("closed"), by, Null)
           p == Plain(by, "note", StatusEvent("closed"))
           r == [p EXCEPT !.pc = "update",
                    !.patch.status = "closed", !.patch.closed = TRUE,
                    !.after[1].to = "closed", !.tell = "closed"]
<1>2. ticket # Null /\ ticket' = ticket
  BY DEF CloseTicket
<1>3. p \in Request /\ p.patch = NoPatch /\ p.before = <<>> /\ p.after = <<e>>
  <2>1. by \in Side /\ StatusEvent("closed") \in EventType
    BY DEF Side, EventType, StatusEvent
  <2> HIDE DEF r
  <2> QED BY <2>1, PlainFine
<1>4. p.after[1] = e /\ 1 \in DOMAIN p.after
  BY <1>3
<1>5. Shown([e EXCEPT !.to = "closed"]) = "closed"
  BY DEF Shown, Entry, StatusEvent
<1> HIDE DEF p, e
<1>6. /\ r.pc = "update" /\ r.patch.status = "closed" /\ r.before = p.before
      /\ r.after = [p.after EXCEPT ![1] = [e EXCEPT !.to = "closed"]]
  BY <1>3, <1>4 DEF Request, NoPatch
<1> HIDE DEF r
<1>7. 1 \in DOMAIN r.after /\ r.after[1] = [e EXCEPT !.to = "closed"]
  BY <1>4, <1>6
<1>8. Kept(r, timeline)
  BY <1>3, <1>5, <1>6, <1>7 DEF Kept, Shows
<1>9. Accept(h, r)
  BY <1>1 DEF r, p
<1> QED BY <1>2, <1>8, <1>9, AcceptPromised

LEMMA ReopenPromised ==
    ASSUME IInv, Promised, NEW h \in Handlers, ReopenTicket(h)
    PROVE  Promised'
<1>1. PICK by \in {"customer", "admin"} :
         Accept(h, [Plain(by, "note", "reopened") EXCEPT
                    !.pc = "update", !.patch = Reopened(NoPatch)])
  BY DEF ReopenTicket
<1> DEFINE e == Entry("reopened", by, Null)
           p == Plain(by, "note", "reopened")
           r == [p EXCEPT !.pc = "update", !.patch = Reopened(NoPatch)]
<1>2. ticket # Null /\ ticket' = ticket
  BY DEF ReopenTicket
<1>3. p \in Request /\ p.before = <<>> /\ p.after = <<e>>
  <2>1. by \in Side /\ "reopened" \in EventType
    BY DEF Side, EventType
  <2> HIDE DEF r
  <2> QED BY <2>1, PlainFine
<1>4. Shown(e) = "open" /\ Reopened(NoPatch).status = "open"
  BY DEF Shown, Entry, Reopened, NoPatch
<1> HIDE DEF p, e
<1>5. /\ r.pc = "update" /\ r.patch = Reopened(NoPatch) /\ r.before = p.before
      /\ r.after = p.after
  BY <1>3 DEF Request
<1> HIDE DEF r
<1>6. Kept(r, timeline)
  BY <1>3, <1>4, <1>5, ShowsOne DEF Kept
<1>7. Accept(h, r)
  BY <1>1 DEF r, p
<1> QED BY <1>2, <1>6, <1>7, AcceptPromised

LEMMA AdminPromised ==
    ASSUME IInv, Promised, NEW h \in Handlers, AdminUpdate(h)
    PROVE  Promised'
<1>1. PICK p \in Patches :
        Accept(h, [Plain("admin", "note", "note_added") EXCEPT
                        !.pc = "before", !.patch = Changed(p),
                        !.before = ChangeEntries(Changed(p)), !.after = <<>>,
                        !.tell = StatusToTell(Changed(p))])
  BY DEF AdminUpdate
<1> DEFINE q == Changed(p)
           n == Plain("admin", "note", "note_added")
           s == StatusToTell(q)
           r == [n EXCEPT !.pc = "before", !.patch = q,
                          !.before = ChangeEntries(q), !.after = <<>>, !.tell = s]
<1>2. ticket # Null /\ ticket' = ticket /\ ticket \in Ticket
  BY DEF AdminUpdate, IInv, Stored
<1>3. q \in Patch
  BY <1>2, ChangedFine
<1>4. n \in Request
  <2>1. "admin" \in Side /\ "note_added" \in EventType
    BY DEF Side, EventType
  <2> HIDE DEF q, s, r
  <2> QED BY <2>1, PlainFine
<1> HIDE DEF q, n, s
<1>5. q.status # Null => Shows(ChangeEntries(q), q.status)
  <2> SUFFICES ASSUME q.status # Null PROVE Shows(ChangeEntries(q), q.status)
    OBVIOUS
  <2> DEFINE e == Entry(StatusEvent(q.status), "admin", q.status)
             b == IF q.priority = Null THEN <<>>
                  ELSE <<Entry("priority_changed", "admin", Null)>>
             c == IF q.assignee = Null THEN <<>>
                  ELSE IF q.assignee = Nobody
                         THEN <<Entry("unassigned", "admin", Null)>>
                  ELSE <<Entry("assigned", "admin", Null)>>
  <2>1. StatusEntry(q) = <<e>> /\ ChangeEntries(q) = StatusEntry(q) \o b \o c
    BY DEF StatusEntry, ChangeEntries
  <2>2. e \in Event /\ b \in Seq(Event) /\ c \in Seq(Event)
    <3>1. q.status \in Status
      BY <1>3 DEF Patch
    <3>2. e \in Event
      BY <3>1, EntryType DEF StatusEvent, EventType, Side
    <3>3. /\ Entry("priority_changed", "admin", Null) \in Event
          /\ Entry("unassigned", "admin", Null) \in Event
          /\ Entry("assigned", "admin", Null) \in Event
      BY EntryType DEF EventType, Side
    <3> HIDE DEF e
    <3> QED BY <3>2, <3>3
  <2>3. Shown(e) = q.status
    BY DEF Shown, Entry, StatusEvent
  <2> HIDE DEF b, c, e
  <2> DEFINE d == <<e>>
  <2>4. d \in Seq(Event) /\ Shows(d, q.status)
    BY <2>2, <2>3, ShowsOne
  <2>5. ChangeEntries(q) = d \o b \o c
    BY <2>1
  <2> HIDE DEF d
  <2>6. d \o b \in Seq(Event) /\ Shows(d \o b, q.status)
    BY <2>2, <2>4, ShowsConcat
  <2> DEFINE g == d \o b
  <2>7. ChangeEntries(q) = g \o c /\ g \in Seq(Event) /\ Shows(g, q.status)
    BY <2>5, <2>6
  <2> HIDE DEF g
  <2>8. Shows(g \o c, q.status)
    BY <2>2, <2>7, ShowsConcat
  <2> QED BY <2>7, <2>8
<1>6. /\ r.pc = "before" /\ r.patch = q /\ r.before = ChangeEntries(q)
      /\ r.after = <<>>
  <2> DEFINE e == ChangeEntries(q)
             none == <<>>
             m == [n EXCEPT !.pc = "before", !.patch = q, !.before = e,
                            !.after = none, !.tell = s]
  <2> HIDE DEF e, none
  <2>1. m.pc = "before" /\ m.patch = q /\ m.before = e /\ m.after = none
    BY <1>4 DEF Request
  <2> QED BY <2>1 DEF e, none
<1> HIDE DEF r
<1>7. Kept(r, timeline)
  BY <1>5, <1>6 DEF Kept
<1>8. Accept(h, r)
  BY <1>1 DEF r, q, n, s
<1> QED BY <1>2, <1>7, <1>8, AcceptPromised

LEMMA AnnotatePromised ==
    ASSUME IInv, Promised, NEW h \in Handlers, Annotate(h)
    PROVE  Promised'
<1>1. PICK by \in Side, kind \in {"note", "attachment", "suggestion"} :
        \E type \in EventType : Accept(h, Plain(by, kind, type))
  BY DEF Annotate, Side, EventType
<1>2. PICK type \in EventType : Accept(h, Plain(by, kind, type))
  BY <1>1
<1> DEFINE r == Plain(by, kind, type)
<1>3. r.pc = "message" /\ r.patch = NoPatch /\ r.before = <<>>
  BY PlainFine
<1> HIDE DEF r
<1>4. Kept(r, timeline)
  BY <1>3 DEF Kept, NoPatch
<1>5. ticket # Null /\ ticket' = ticket
  BY DEF Annotate
<1> QED BY <1>2, <1>4, <1>5, AcceptPromised DEF r

LEMMA AddMessagePromised ==
    ASSUME IInv, Promised, NEW h \in Handlers, AddMessage(h)
    PROVE  Promised'
<1> DEFINE r == req[h]
           pc == IF r.patch = NoPatch THEN "after" ELSE "update"
           n == [r EXCEPT !.pc = pc]
<1>1. /\ r # Null /\ r.pc = "message" /\ req' = [req EXCEPT ![h] = n]
      /\ UNCHANGED <<ticket, timeline, upset>>
  BY DEF AddMessage
<1>2. r \in Request /\ ticket # Null /\ Kept(r, timeline)
  BY <1>1, InFlight DEF Promised
<1>3. pc \in {"after", "update"}
  OBVIOUS
<1> HIDE DEF pc
<1>4. n.pc = pc /\ n.patch = r.patch /\ n.before = r.before /\ n.after = r.after
      /\ n \in Request
  BY <1>2, <1>3 DEF Request
<1> HIDE DEF n
<1>5. Kept(n, timeline')
  BY <1>1, <1>2, <1>3, <1>4 DEF Kept
<1>6. n # Null
  BY <1>4, NullAssumption
<1> QED BY <1>1, <1>2, <1>4, <1>5, <1>6, PromiseStep

LEMMA RecordBeforePromised ==
    ASSUME IInv, Promised, NEW h \in Handlers, RecordBefore(h)
    PROVE  Promised'
<1> DEFINE r == req[h]
<1>1. /\ r # Null /\ r.pc = "before" /\ UNCHANGED ticket
  BY DEF RecordBefore
<1>2. r \in Request /\ Fine(r) /\ ticket # Null /\ Kept(r, timeline)
  BY <1>1, InFlight DEF Promised
<1>3. /\ r.before \in Seq(Event) /\ r.before # <<>> /\ r.after = <<>>
      /\ timeline \in Seq(Event)
  BY <1>1, <1>2 DEF Fine, Request, Kept, IInv, Stored
<1>4. \A x : ~Shows(r.after, x)
  BY <1>3, ShowsNothing
<1>5. CASE Refused(r)
  <2>1. /\ req' = [req EXCEPT ![h] = Null] /\ UNCHANGED timeline
        /\ upset' = upset \cup {"refused"}
    BY <1>5 DEF RecordBefore
  <2> QED BY <1>1, <1>2, <1>4, <2>1, PromiseStep
<1>6. CASE ~Refused(r)
  <2> DEFINE rest == Tail(r.before)
             e == Head(r.before)
             pc == IF rest = <<>> THEN "update" ELSE "before"
             n == [r EXCEPT !.before = rest, !.pc = pc]
  <2>1. /\ timeline' = Append(timeline, e) /\ UNCHANGED upset
        /\ req' = [req EXCEPT ![h] = n]
    <3>1. req' = [req EXCEPT ![h].before = Tail(@),
                     ![h].pc = IF Tail(r.before) = <<>> THEN "update" ELSE @]
      BY <1>6 DEF RecordBefore
    <3> QED BY <1>1, <1>6, <3>1 DEF RecordBefore, IInv, Flight
  <2>2. rest \in Seq(Event) /\ e \in Event
    BY <1>3
  <2>3. \A x : Shows(r.before, x) => Shown(e) = x \/ Shows(rest, x)
    BY <1>3, ShowsHead
  <2>4. pc \in {"before", "update"} /\ (pc = "update" => rest = <<>>)
    OBVIOUS
  <2> HIDE DEF rest, pc, e
  <2>5. n.pc = pc /\ n.patch = r.patch /\ n.before = rest /\ n.after = r.after
        /\ n \in Request
    BY <1>2, <2>2, <2>4 DEF Request
  <2> HIDE DEF n
  <2>6. \A x : Shows(timeline', x) <=> Shows(timeline, x) \/ Shown(e) = x
    BY <1>3, <2>1, <2>2, ShowsAppend
  <2>7. Kept(n, timeline')
    BY <1>1, <1>2, <1>3, <1>4, <2>3, <2>4, <2>5, <2>6 DEF Kept
  <2> QED BY <1>1, <1>2, <1>4, <2>1, <2>6, <2>7, PromiseStep
<1> QED BY <1>5, <1>6

LEMMA UpdatePromised ==
    ASSUME IInv, Promised, NEW h \in Handlers, UpdateTicket(h)
    PROVE  Promised'
<1> DEFINE r == req[h]
           pc == IF r.after = <<>> THEN "tell" ELSE "after"
           n == [r EXCEPT !.pc = pc]
           s == r.patch.status
<1>1. /\ r # Null /\ r.pc = "update" /\ ticket' = Updated(ticket, r.patch)
      /\ \/ req' = [req EXCEPT ![h] = Null] /\ r.after = <<>>
         \/ req' = [req EXCEPT ![h] = n]
      /\ UNCHANGED <<timeline, upset>>
  BY DEF UpdateTicket
<1>2. r \in Request /\ ticket # Null /\ Kept(r, timeline)
  BY <1>1, InFlight DEF Promised
<1>3. pc \in {"tell", "after"} /\ (pc = "tell" => r.after = <<>>)
  OBVIOUS
<1> HIDE DEF pc
<1>4. n.pc = pc /\ n.patch = r.patch /\ n.before = r.before /\ n.after = r.after
      /\ n \in Request
  BY <1>2, <1>3 DEF Request
<1> HIDE DEF n
<1>5. Kept(n, timeline') /\ n # Null
  BY <1>1, <1>2, <1>3, <1>4, NullAssumption DEF Kept
<1>6. ticket'.status = IF s = Null THEN ticket.status ELSE s
  BY <1>1 DEF Updated, Or
<1>7. s # Null => Shows(r.after, s) \/ Shows(timeline, s)
  BY <1>1, <1>2, ShowsNothing DEF Kept
<1>8. CASE req' = [req EXCEPT ![h] = n]
  <2>1. CASE s = Null
    BY <1>1, <1>2, <1>4, <1>5, <1>6, <1>8, <2>1, PromiseStep
  <2>2. CASE s # Null
    BY <1>1, <1>4, <1>5, <1>6, <1>7, <1>8, <2>2, PromiseStep
  <2> QED BY <2>1, <2>2
<1>9. CASE req' = [req EXCEPT ![h] = Null] /\ r.after = <<>>
  <2>0. \A x : ~Shows(r.after, x)
    BY <1>9, ShowsNothing
  <2>1. CASE s = Null
    BY <1>1, <1>2, <1>6, <1>9, <2>0, <2>1, PromiseStep
  <2>2. CASE s # Null
    BY <1>1, <1>6, <1>7, <1>9, <2>0, <2>2, PromiseStep
  <2> QED BY <2>1, <2>2
<1> QED BY <1>1, <1>8, <1>9

LEMMA RecordAfterPromised ==
    ASSUME IInv, Promised, NEW h \in Handlers, RecordAfter(h)
    PROVE  Promised'
<1> DEFINE r == req[h]
           none == <<>>
           n == [r EXCEPT !.pc = "tell", !.after = none]
<1>1. /\ r # Null /\ r.pc = "after" /\ timeline' = timeline \o r.after
      /\ req' = [req EXCEPT ![h] = IF r.tell = Null THEN Null ELSE n]
      /\ UNCHANGED <<ticket, upset>>
  BY DEF RecordAfter
<1>2. r \in Request /\ ticket # Null
  BY <1>1, InFlight
<1>3. \A x : Shows(timeline', x) <=> Shows(timeline, x) \/ Shows(r.after, x)
  <2>1. timeline \in Seq(Event) /\ r.after \in Seq(Event)
    BY <1>2 DEF IInv, Stored, Request
  <2> QED BY <1>1, <2>1, ShowsConcat
<1>4. none = <<>>
  OBVIOUS
<1> HIDE DEF none
<1>5. n.pc = "tell" /\ n.after = none
  BY <1>2 DEF Request
<1> DEFINE m == IF r.tell = Null THEN Null ELSE n
<1>6. m # Null => Kept(m, timeline')
  BY <1>4, <1>5 DEF Kept
<1>7. req' = [req EXCEPT ![h] = m]
  BY <1>1
<1> HIDE DEF m, n
<1> QED BY <1>1, <1>2, <1>3, <1>6, <1>7, PromiseStep

LEMMA EndPromised ==
    ASSUME IInv, Promised, NEW h \in Handlers, TellStatus(h) \/ Die(h)
    PROVE  Promised'
<1>1. /\ req[h] # Null /\ req' = [req EXCEPT ![h] = Null]
      /\ UNCHANGED <<ticket, timeline>>
      /\ \/ req[h].pc = "tell" /\ upset' = upset
         \/ upset' = upset \cup {"died"}
  BY DEF TellStatus, Die
<1>2. ticket # Null /\ Kept(req[h], timeline)
  BY <1>1, InFlight DEF Promised
<1>3. req[h].pc = "tell" => \A x : ~Shows(req[h].after, x)
  BY <1>2, ShowsNothing DEF Kept
<1> QED BY <1>1, <1>2, <1>3, PromiseStep

(* However requests interleave, and wherever one is refused half way, no    *)
(* ticket has a status its timeline does not show or is about to show.      *)
THEOREM StatusShown == Spec => []StatusIsOnTimeline
<1>1. Init => Promised
  BY DEF Init, Promised, StatusIsOnTimeline
<1>2. IInv /\ Promised /\ [Next]_vars => Promised'
  <2> SUFFICES ASSUME IInv, Promised, [Next]_vars PROVE Promised'
    OBVIOUS
  <2>1. CASE UNCHANGED vars
    BY <2>1 DEF vars, Promised, StatusIsOnTimeline
  <2>2. CASE Next
    BY <2>2, CreatePromised, ReplyPromised, ClosePromised, ReopenPromised,
       AdminPromised, AnnotatePromised, AddMessagePromised,
       RecordBeforePromised, UpdatePromised, RecordAfterPromised,
       EndPromised DEF Next
  <2> QED BY <2>1, <2>2
<1>3. Promised => StatusIsOnTimeline
  BY DEF Promised
<1> QED BY <1>1, <1>2, <1>3, Invariance, PTL DEF Spec
=============================================================================
