----------------------------- MODULE SupportTold -----------------------------
(* What the owner and the staff of a ticket are told, for any staff, any    *)
(* permissions, and any number of requests in flight: the timeline ends     *)
(* with the status, the owner is notified of it, and the first answer is    *)
(* the one that is dated.                                                   *)
EXTENDS SupportProofs

(* The entries the owner is notified of. *)
Console == {"status_changed", "resolved", "closed"}

Silent(entries) == \A i \in DOMAIN entries : Shown(entries[i]) = Null

(* An entry that shows a status; if the owner is to hear of it, the status  *)
(* told is that one.                                                        *)
Means(e, status, tell) == Shown(e) = status /\ (e.type \in Console => tell = status)

(* The last entry that shows a status shows this one. *)
Says(entries, status, tell) ==
    \E i \in DOMAIN entries :
        /\ Means(entries[i], status, tell)
        /\ \A j \in DOMAIN entries : j > i => Shown(entries[j]) = Null

(* The status a request that changes it is to set. *)
Goal(r) == IF r.creates THEN "open" ELSE r.patch.status

(* A request that changes the status has one entry for it, which it is      *)
(* still to record, before its update or after it, or which is the last.    *)
Due(r, row, entries) ==
    /\ \/ /\ r.pc \in {"message", "update", "after"} /\ DOMAIN r.after = {1}
          /\ Means(r.after[1], Goal(r), r.tell)
       \/ /\ r.pc = "before" /\ r.after = <<>>
          /\ Means(Head(r.before), Goal(r), r.tell) /\ Silent(Tail(r.before))
       \/ /\ r.pc \in {"before", "update", "tell"} /\ r.after = <<>>
          /\ r.pc = "before" => Silent(r.before)
          /\ Says(entries, Goal(r), r.tell)
    /\ r.creates \/ r.pc \in {"after", "tell"} => row.status = Goal(r)
    /\ r.creates => r.patch = NoPatch
    /\ Goal(r) \in Status

(* One that does not has no entry for it, and notifies none. *)
Quiet(r) ==
    Silent(r.before) /\ Silent(r.after) /\ r.tell = Null /\ r.pc # "tell"

Works(h) == req[h] # Null /\ StatusWork(req[h])

(* As long as changes of the status do not overlap and none stops half way. *)
Voiced ==
    upset = {} =>
        /\ \A g, h \in Handlers : Works(g) /\ Works(h) => g = h
        /\ \A h \in Handlers : req[h] # Null =>
              IF StatusWork(req[h]) THEN Due(req[h], ticket, timeline)
              ELSE Quiet(req[h])
        /\ ticket # Null /\ Settled => Says(timeline, ticket.status, told)

-----------------------------------------------------------------------------
IsAnswer(e) == e.type = "reply_added" /\ e.by = "admin"

Answers(r) == r.message.by = "admin" /\ r.message.kind = "reply"

(* The date a request is to set is that of its own reply, which is stored   *)
(* before the ticket is dated, and the ticket before the timeline.          *)
Answered(r, row, replies) ==
    /\ r.patch.first # Null =>
         /\ Answers(r) /\ r.patch.first = r.message.number
         /\ r.pc # "message" => r.patch.first \in replies
    /\ Answers(r) => r.patch.status # Null
    /\ \A i \in DOMAIN r.before : ~IsAnswer(r.before[i])
    /\ (\E i \in DOMAIN r.after : IsAnswer(r.after[i])) =>
         /\ r.patch # NoPatch
         /\ \/ row.first # Null
            \/ r.pc \in {"message", "update"} /\ r.patch.first # Null

Stamped ==
    /\ \A h \in Handlers : req[h] # Null => Answered(req[h], ticket, StaffReplies)
    /\ (\E i \in DOMAIN timeline : IsAnswer(timeline[i])) =>
         ticket # Null /\ ticket.first # Null
    /\ ticket # Null /\ ticket.first # Null => ticket.first \in StaffReplies
    /\ ticket = Null => messages = <<>>

(* Requests are numbered as they come.  Until the ticket is dated, the only *)
(* answer is that of the request about to date it.                          *)
Prompt(r, row) ==
    Answers(r) =>
        /\ r.pc # "before"
        /\ r.pc \in {"message", "update"} /\ r.patch.first # Null =>
             row.first = Null
        /\ r.pc = "message" =>
             IF row.first = Null THEN r.patch.first # Null
             ELSE row.first <= r.message.number

Dating ==
    upset = {} =>
        /\ \A i \in DOMAIN messages : messages[i].number <= next
        /\ \A h \in Handlers : req[h] # Null =>
              req[h].message.number <= next /\ Prompt(req[h], ticket)
        /\ ticket # Null /\ ticket.first = Null =>
              \A n \in StaffReplies : \E h \in Handlers :
                  req[h] # Null /\ req[h].pc = "update" /\ req[h].patch.first = n
        /\ ticket # Null /\ ticket.first # Null =>
              \A n \in StaffReplies : ticket.first <= n

-----------------------------------------------------------------------------
(* Entries                                                                  *)

(* A list of one entry. *)
LEMMA OneEntry ==
    ASSUME NEW e \in Event, NEW x, NEW y
    PROVE  /\ <<e>> \in Seq(Event) /\ <<e>> # <<>>
           /\ DOMAIN <<e>> = {1} /\ <<e>>[1] = e
           /\ Head(<<e>>) = e /\ Silent(Tail(<<e>>))
           /\ Shown(e) = Null => Silent(<<e>>)
           /\ Means(e, x, y) => Says(<<e>>, x, y)
<1>1. /\ <<e>> \in Seq(Event) /\ <<e>> # <<>> /\ DOMAIN <<e>> = {1} /\ <<e>>[1] = e
      /\ Head(<<e>>) = e /\ DOMAIN Tail(<<e>>) = {}
  OBVIOUS
<1> DEFINE s == <<e>>
<1> HIDE DEF s
<1>2. /\ s \in Seq(Event) /\ s # <<>> /\ DOMAIN s = {1} /\ s[1] = e
      /\ Head(s) = e /\ DOMAIN Tail(s) = {}
  BY <1>1 DEF s
<1>3. Silent(Tail(s))
  BY <1>2 DEF Silent
<1>4. Shown(e) = Null => Silent(s)
  BY <1>2 DEF Silent
<1>5. Means(e, x, y) => Says(s, x, y)
  BY <1>2 DEF Says
<1> QED BY <1>2, <1>3, <1>4, <1>5 DEF s

(* The entries of one list after another are those of either. *)
LEMMA Joined ==
    ASSUME NEW s \in Seq(Event), NEW t \in Seq(Event)
    PROVE  /\ s \o t \in Seq(Event) /\ Len(s) \in Nat
           /\ DOMAIN s = 1 .. Len(s) /\ DOMAIN (s \o t) = 1 .. Len(s) + Len(t)
           /\ DOMAIN t = 1 .. Len(t) /\ Len(t) \in Nat
           /\ \A i \in DOMAIN s : i \in DOMAIN (s \o t) /\ (s \o t)[i] = s[i]
           /\ \A i \in DOMAIN t : /\ Len(s) + i \in DOMAIN (s \o t)
                                  /\ (s \o t)[Len(s) + i] = t[i]
           /\ \A i \in DOMAIN (s \o t) : i \notin DOMAIN s =>
                i - Len(s) \in DOMAIN t /\ (s \o t)[i] = t[i - Len(s)]
<1> DEFINE u == s \o t
<1>1. /\ u \in Seq(Event) /\ Len(s) \in Nat /\ Len(t) \in Nat
      /\ DOMAIN s = 1 .. Len(s) /\ DOMAIN t = 1 .. Len(t)
      /\ DOMAIN u = 1 .. Len(s) + Len(t)
  OBVIOUS
<1>2. \A i \in DOMAIN s : i \in DOMAIN u /\ u[i] = s[i]
  OBVIOUS
<1>3. \A i \in DOMAIN t : Len(s) + i \in DOMAIN u /\ u[Len(s) + i] = t[i]
  OBVIOUS
<1> HIDE DEF u
<1>4. ASSUME NEW i \in DOMAIN u, i \notin DOMAIN s
      PROVE  i - Len(s) \in DOMAIN t /\ u[i] = t[i - Len(s)]
  <2> DEFINE j == i - Len(s)
  <2>1. j \in DOMAIN t /\ i = Len(s) + j
    BY <1>1, <1>4
  <2> HIDE DEF j
  <2>2. u[i] = t[j]
    BY <1>3, <2>1
  <2> QED BY <2>1, <2>2 DEF j
<1> QED BY <1>1, <1>2, <1>3, <1>4 DEF u

(* Nothing is said by lists that say nothing. *)
LEMMA SilentJoined ==
    ASSUME NEW s \in Seq(Event), NEW t \in Seq(Event), Silent(s), Silent(t)
    PROVE  s \o t \in Seq(Event) /\ Silent(s \o t)
BY Joined DEF Silent

(* What follows a first entry stays silent. *)
LEMMA SilentAfter ==
    ASSUME NEW s \in Seq(Event), NEW t \in Seq(Event), s # <<>>,
           Silent(Tail(s)), Silent(t)
    PROVE  /\ s \o t \in Seq(Event) /\ s \o t # <<>>
           /\ Head(s \o t) = Head(s) /\ Silent(Tail(s \o t))
<1> DEFINE u == s \o t
<1>1. /\ u \in Seq(Event) /\ Len(u) = Len(s) + Len(t)
      /\ Len(s) \in Nat /\ Len(t) \in Nat /\ Len(s) > 0
      /\ DOMAIN u = 1 .. Len(u) /\ DOMAIN s = 1 .. Len(s)
  BY Joined
<1>2. /\ \A i \in DOMAIN s : u[i] = s[i]
      /\ \A i \in DOMAIN u : i \notin DOMAIN s =>
           i - Len(s) \in DOMAIN t /\ u[i] = t[i - Len(s)]
  BY Joined
<1> HIDE DEF u
<1>3. u # <<>> /\ Head(u) = u[1] /\ Head(s) = s[1] /\ u[1] = s[1]
  BY <1>1, <1>2
<1>4. ASSUME NEW i \in DOMAIN Tail(u) PROVE Shown(Tail(u)[i]) = Null
  <2>1. i \in Nat /\ i >= 1 /\ i + 1 \in DOMAIN u /\ Tail(u)[i] = u[i + 1]
    BY <1>1, <1>3, <1>4
  <2>2. CASE i + 1 \in DOMAIN s
    <3>1. i \in DOMAIN Tail(s) /\ Tail(s)[i] = s[i + 1]
      BY <1>1, <2>1, <2>2
    <3> QED BY <1>2, <2>1, <2>2, <3>1 DEF Silent
  <2>3. CASE i + 1 \notin DOMAIN s
    <3>1. i + 1 - Len(s) \in DOMAIN t /\ u[i + 1] = t[i + 1 - Len(s)]
      BY <1>2, <2>1, <2>3
    <3> QED BY <2>1, <3>1 DEF Silent
  <2> QED BY <2>2, <2>3
<1> QED BY <1>1, <1>3, <1>4 DEF u, Silent

(* Silent entries take away nothing of what was said last. *)
LEMMA SaysStill ==
    ASSUME NEW s \in Seq(Event), NEW t \in Seq(Event), NEW x, NEW y,
           Says(s, x, y), Silent(t)
    PROVE  Says(s \o t, x, y)
<1> DEFINE u == s \o t
<1>1. PICK i \in DOMAIN s : /\ Means(s[i], x, y)
                            /\ \A j \in DOMAIN s : j > i => Shown(s[j]) = Null
  BY DEF Says
<1>2. i \in DOMAIN u /\ Means(u[i], x, y)
  BY <1>1, Joined
<1>3. ASSUME NEW j \in DOMAIN u, j > i PROVE Shown(u[j]) = Null
  <2>1. CASE j \in DOMAIN s
    BY <1>1, <1>3, <2>1, Joined
  <2>2. CASE j \notin DOMAIN s
    BY <2>2, Joined DEF Silent
  <2> QED BY <2>1, <2>2
<1> HIDE DEF u
<1>4. Says(u, x, y)
  BY <1>2, <1>3 DEF Says
<1> QED BY <1>4 DEF u

(* What the entries that follow say is said last. *)
LEMMA SaysNow ==
    ASSUME NEW s \in Seq(Event), NEW t \in Seq(Event), NEW x, NEW y, Says(t, x, y)
    PROVE  Says(s \o t, x, y)
<1> DEFINE u == s \o t
<1>1. PICK i \in DOMAIN t : /\ Means(t[i], x, y)
                            /\ \A j \in DOMAIN t : j > i => Shown(t[j]) = Null
  BY DEF Says
<1> DEFINE k == Len(s) + i
<1>2. k \in DOMAIN u /\ Means(u[k], x, y)
  BY <1>1, Joined
<1>3. ASSUME NEW j \in DOMAIN u, j > k PROVE Shown(u[j]) = Null
  <2>1. /\ Len(s) \in Nat /\ i \in Nat /\ j \in Nat /\ i > 0
        /\ DOMAIN s = 1 .. Len(s)
    BY Joined
  <2>2. j \notin DOMAIN s /\ j - Len(s) > i
    BY <1>3, <2>1
  <2>3. j - Len(s) \in DOMAIN t /\ u[j] = t[j - Len(s)]
    BY <2>2, Joined
  <2> QED BY <1>1, <2>2, <2>3
<1> HIDE DEF u, k
<1>4. Says(u, x, y)
  BY <1>2, <1>3 DEF Says
<1> QED BY <1>4 DEF u

(* One entry more. *)
LEMMA SaysAppend ==
    ASSUME NEW s \in Seq(Event), NEW e \in Event, NEW x, NEW y
    PROVE  /\ Shown(e) = Null /\ Says(s, x, y) => Says(Append(s, e), x, y)
           /\ Means(e, x, y) => Says(Append(s, e), x, y)
<1> DEFINE t == <<e>>
<1>1. Append(s, e) = s \o t
  OBVIOUS
<1>2. /\ t \in Seq(Event) /\ (Shown(e) = Null => Silent(t))
      /\ Means(e, x, y) => Says(t, x, y)
  BY OneEntry
<1> HIDE DEF t
<1> QED BY <1>1, <1>2, SaysStill, SaysNow

(* The last entry that shows a status is the one that says it. *)
LEMMA SaidLast ==
    ASSUME timeline \in Seq(Event), NEW x, NEW y, x # Null, Says(timeline, x, y)
    PROVE  /\ Shown(LastStatusEntry) = x
           /\ LastStatusEntry.type \in Console => y = x
<1>1. PICK i \in DOMAIN timeline :
        /\ Means(timeline[i], x, y)
        /\ \A j \in DOMAIN timeline : j > i => Shown(timeline[j]) = Null
  BY DEF Says
<1>2. DOMAIN timeline = 1 .. Len(timeline) /\ Len(timeline) \in Nat
  OBVIOUS
<1>3. i \in StatusEntries /\ StatusEntries \subseteq Nat
  BY <1>1, <1>2 DEF StatusEntries, ShowsStatus, Means
<1>4. \A j \in StatusEntries : j <= i
  BY <1>1, <1>2 DEF StatusEntries, ShowsStatus
<1> DEFINE k == CHOOSE n \in StatusEntries : \A j \in StatusEntries : j <= n
<1>5. k \in StatusEntries /\ \A j \in StatusEntries : j <= k
  BY <1>3, <1>4
<1> HIDE DEF k
<1>6. k = i
  BY <1>3, <1>4, <1>5
<1> QED BY <1>1, <1>6 DEF LastStatusEntry, k, Means

-----------------------------------------------------------------------------
(* The requests that are accepted                                           *)

(* What holds of a request as it is accepted. *)
Offer(r) ==
    /\ r.message.number = next + 1
    /\ r.pc \in {"message", "before", "update"}
    /\ IF StatusWork(r)
       THEN /\ \/ /\ r.pc # "before" /\ DOMAIN r.after = {1}
                  /\ Means(r.after[1], Goal(r), r.tell)
               \/ /\ r.pc = "before" /\ r.after = <<>>
                  /\ Means(Head(r.before), Goal(r), r.tell) /\ Silent(Tail(r.before))
            /\ r.creates => r.patch = NoPatch
            /\ Goal(r) \in Status
       ELSE Quiet(r)
    /\ r.patch.first # Null =>
         Answers(r) /\ r.patch.first = next + 1 /\ ticket.first = Null
    /\ Answers(r) =>
         /\ r.pc = "message" /\ r.patch.status # Null
         /\ ticket.first = Null => r.patch.first # Null
    /\ \A i \in DOMAIN r.before : ~IsAnswer(r.before[i])
    /\ \A i \in DOMAIN r.after : IsAnswer(r.after[i]) => Answers(r)

(* Each action offers a request. *)
Offered(h) == \E r : Accept(h, r) /\ Offer(r) /\ ~r.creates

(* The one entry of a request that adds a message and an entry. *)
LEMMA PlainShape ==
    ASSUME IInv, NEW by \in Side,
           NEW kind \in {"description", "reply", "note", "attachment", "suggestion"},
           NEW type \in EventType
    PROVE  /\ DOMAIN Plain(by, kind, type).before = {}
           /\ DOMAIN Plain(by, kind, type).after = {1}
           /\ Plain(by, kind, type).after[1] = Entry(type, by, Null)
BY PlainFine

(* The rest of it: it creates nothing, and there is nobody to tell. *)
LEMMA PlainRest ==
    ASSUME NEW by, NEW kind, NEW type
    PROVE  /\ Plain(by, kind, type).creates = FALSE
           /\ Plain(by, kind, type).tell = Null
BY DEF Plain

(* Its message has its number. *)
LEMMA PlainNumber ==
    ASSUME NEW by, NEW kind, NEW type
    PROVE  Plain(by, kind, type).message.number = next + 1
BY DEF Plain

(* And its author and kind. *)
LEMMA PlainMessage ==
    ASSUME NEW by, NEW kind, NEW type
    PROVE  /\ Plain(by, kind, type).message.by = by
           /\ Plain(by, kind, type).message.kind = kind
BY DEF Plain

(* An entry has the fields it is made of. *)
LEMMA EntryShape ==
    ASSUME NEW type, NEW by, NEW to
    PROVE  /\ Entry(type, by, to).type = type /\ Entry(type, by, to).by = by
           /\ Entry(type, by, to).to = to
BY DEF Entry

(* A patch without a date. *)
LEMMA NoPatchShape ==
    /\ NoPatch.status = Null /\ NoPatch.first = Null /\ NoPatch.priority = Null
    /\ NoPatch.assignee = Null
BY DEF NoPatch

(* createTicket() offers the one entry of an open ticket. *)
LEMMA CreateOffered ==
    ASSUME IInv, NEW h \in Handlers, CreateTicket(h)
    PROVE  \E r \in Request : Accept(h, r) /\ Offer(r) /\ r.creates
<1> DEFINE p == Plain("customer", "description", "ticket_created")
           e == Entry("ticket_created", "customer", Null)
           r == [p EXCEPT !.creates = TRUE]
<1>1. Accept(h, r)
  BY DEF CreateTicket
<1>2. /\ p \in Request /\ p.pc = "message" /\ p.patch = NoPatch
      /\ DOMAIN p.before = {} /\ DOMAIN p.after = {1} /\ p.after[1] = e
      /\ p.tell = Null /\ p.message.number = next + 1
      /\ p.message.by = "customer" /\ e.type = "ticket_created"
      /\ p.before = <<>>
  <2>1. "customer" \in Side /\ "ticket_created" \in EventType
    BY DEF Side, EventType
  <2> HIDE DEF r
  <2>2. p \in Request /\ p.pc = "message" /\ p.patch = NoPatch
        /\ p.before = <<>>
    BY <2>1, PlainFine
  <2>3. DOMAIN p.before = {} /\ DOMAIN p.after = {1} /\ p.after[1] = e
    BY <2>1, PlainShape
  <2>4. p.creates = FALSE /\ p.tell = Null
    BY PlainRest
  <2>5. p.message.number = next + 1
    BY PlainNumber
  <2>6. p.message.by = "customer" /\ p.message.kind = "description"
    BY PlainMessage
  <2>7. e.type = "ticket_created" /\ e.by = "customer" /\ e.to = Null
    BY EntryShape
  <2> HIDE DEF p, e
  <2> QED BY <2>2, <2>3, <2>4, <2>5, <2>6, <2>7
<1>3. Shown(e) = "open"
  BY <1>2 DEF Shown
<1> HIDE DEF p, e
<1>4. /\ r \in Request /\ r.pc = p.pc /\ r.patch = p.patch /\ r.before = p.before
      /\ r.after = p.after /\ r.tell = p.tell /\ r.message = p.message
      /\ r.creates = TRUE
  BY <1>2 DEF Request
<1> HIDE DEF r
<1>5. StatusWork(r) /\ Goal(r) = "open" /\ Goal(r) \in Status
  BY <1>4 DEF StatusWork, Goal, Status
<1>6. Means(r.after[1], Goal(r), r.tell) /\ ~Answers(r)
  BY <1>2, <1>3, <1>4, <1>5 DEF Means, Console, Answers
<1>7. \A i \in DOMAIN r.after : ~IsAnswer(r.after[i])
  BY <1>2, <1>4 DEF IsAnswer
<1>8. Offer(r)
  BY <1>2, <1>4, <1>5, <1>6, <1>7, NoPatchShape DEF Offer
<1> QED BY <1>1, <1>4, <1>8

(* reply() offers the status its side leaves, and the first date if any. *)
LEMMA ReplyOffered ==
    ASSUME IInv, NEW h \in Handlers, Reply(h)
    PROVE  Offered(h)
<1>1. PICK by \in {"customer", "admin"} :
         Accept(h, [Plain(by, "reply", "reply_added") EXCEPT
                       !.patch.status = ReplyStatus(by),
                       !.patch.first = FirstResponse(by, next + 1)])
  BY DEF Reply
<1> DEFINE p == Plain(by, "reply", "reply_added")
           s == ReplyStatus(by)
           f == FirstResponse(by, next + 1)
           q == [NoPatch EXCEPT !.status = s, !.first = f]
           r == [p EXCEPT !.patch.status = s, !.patch.first = f]
           e == Entry("reply_added", by, Null)
<1>2. /\ p \in Request /\ p.pc = "message" /\ p.patch = NoPatch
      /\ DOMAIN p.before = {} /\ DOMAIN p.after = {1} /\ p.after[1] = e
      /\ p.tell = Null /\ p.message.number = next + 1 /\ p.creates = FALSE
      /\ p.message.by = by /\ p.message.kind = "reply"
      /\ e.type = "reply_added" /\ e.by = by
  <2>1. by \in Side /\ "reply_added" \in EventType
    BY DEF Side, EventType
  <2> HIDE DEF s, f, q, r
  <2>2. p \in Request /\ p.pc = "message" /\ p.patch = NoPatch
        /\ p.before = <<>>
    BY <2>1, PlainFine
  <2>3. DOMAIN p.before = {} /\ DOMAIN p.after = {1} /\ p.after[1] = e
    BY <2>1, PlainShape
  <2>4. p.creates = FALSE /\ p.tell = Null
    BY PlainRest
  <2>5. p.message.number = next + 1
    BY PlainNumber
  <2>6. p.message.by = by /\ p.message.kind = "reply"
    BY PlainMessage
  <2>7. e.type = "reply_added" /\ e.by = by /\ e.to = Null
    BY EntryShape
  <2> HIDE DEF p, e
  <2> QED BY <2>2, <2>3, <2>4, <2>5, <2>6, <2>7
<1>3. /\ s \in Status /\ s # Null /\ Shown(e) = s
      /\ f \in Nat \cup {Null}
      /\ f # Null => by = "admin" /\ f = next + 1 /\ ticket.first = Null
      /\ by = "admin" /\ ticket.first = Null => f # Null
  <2>1. s \in Status /\ Shown(e) = s
    BY <1>2 DEF Shown, ReplyStatus, Status
  <2>2. next + 1 \in Nat /\ \A n \in Nat \cup Status : n # Null
    BY NullAssumption DEF IInv, Stored
  <2> QED BY <2>1, <2>2 DEF FirstResponse
<1>4. q \in Patch /\ q.status = s /\ q.first = f
  BY <1>3, NoPatchFine DEF NoPatch, Patch
<1> HIDE DEF p, e, s, f
<1>5. /\ r.pc = p.pc /\ r.before = p.before /\ r.after = p.after
      /\ r.tell = p.tell /\ r.message = p.message /\ r.creates = p.creates
      /\ r.patch = q
  BY <1>2, <1>4 DEF Request
<1> HIDE DEF q, r
<1>6. StatusWork(r) /\ Goal(r) = s /\ Answers(r) = (by = "admin")
  BY <1>2, <1>3, <1>4, <1>5 DEF StatusWork, Goal, Answers
<1>7. Means(r.after[1], s, r.tell)
  BY <1>2, <1>3, <1>5 DEF Means, Console
<1>8. \A i \in DOMAIN r.after : IsAnswer(r.after[i]) => by = "admin"
  BY <1>2, <1>5 DEF IsAnswer
<1>9. Offer(r)
  BY <1>2, <1>3, <1>4, <1>5, <1>6, <1>7, <1>8 DEF Offer
<1>10. Accept(h, r)
  BY <1>1 DEF r, p, s, f
<1> QED BY <1>2, <1>5, <1>9, <1>10 DEF Offered

(* closeTicket() offers its entry and its notification. *)
LEMMA CloseOffered ==
    ASSUME IInv, NEW h \in Handlers, CloseTicket(h)
    PROVE  Offered(h)
<1>1. PICK by \in {"customer", "admin"} :
         Accept(h, [Plain(by, "note", StatusEvent("closed")) EXCEPT
                    !.pc = "update",
                    !.patch.status = "closed", !.patch.closed = TRUE,
                    !.after[1].to = "closed", !.tell = "closed"])
  BY DEF CloseTicket
<1> DEFINE e == Entry(StatusEvent("closed"), by, Null)
           p == Plain(by, "note", StatusEvent("closed"))
           r == [p EXCEPT !.pc = "update",
                    !.patch.status = "closed", !.patch.closed = TRUE,
                    !.after[1].to = "closed", !.tell = "closed"]
           x == [e EXCEPT !.to = "closed"]
<1>2. /\ p \in Request /\ p.patch = NoPatch /\ p.creates = FALSE
      /\ DOMAIN p.before = {} /\ DOMAIN p.after = {1} /\ p.after[1] = e
      /\ p.message.number = next + 1 /\ p.message.kind = "note"
  <2>1. by \in Side /\ StatusEvent("closed") \in EventType
    BY DEF Side, EventType, StatusEvent
  <2> HIDE DEF r, x
  <2>2. p \in Request /\ p.pc = "message" /\ p.patch = NoPatch
        /\ p.before = <<>>
    BY <2>1, PlainFine
  <2>3. DOMAIN p.before = {} /\ DOMAIN p.after = {1} /\ p.after[1] = e
    BY <2>1, PlainShape
  <2>4. p.creates = FALSE /\ p.tell = Null
    BY PlainRest
  <2>5. p.message.number = next + 1
    BY PlainNumber
  <2>6. p.message.by = by /\ p.message.kind = "note"
    BY PlainMessage
  <2>7. e.type = StatusEvent("closed") /\ e.by = by /\ e.to = Null
    BY EntryShape
  <2> HIDE DEF p, e
  <2> QED BY <2>2, <2>3, <2>4, <2>5, <2>6, <2>7
<1>3. Shown(x) = "closed" /\ x.type = "closed"
  BY DEF Shown, Entry, StatusEvent
<1> HIDE DEF p, e, x
<1>5. /\ r.pc = "update" /\ r.before = p.before /\ r.tell = "closed"
      /\ r.message = p.message /\ r.creates = p.creates
      /\ r.patch.status = "closed" /\ r.patch.first = Null
      /\ DOMAIN r.after = {1} /\ r.after[1] = x
  <2>1. /\ r.pc = "update" /\ r.before = p.before /\ r.tell = "closed"
        /\ r.message = p.message /\ r.creates = p.creates
        /\ r.patch = [NoPatch EXCEPT !.status = "closed", !.closed = TRUE]
        /\ r.after = [p.after EXCEPT ![1] = [p.after[1] EXCEPT !.to = "closed"]]
    BY <1>2 DEF Request
  <2>2. DOMAIN r.after = {1} /\ r.after[1] = x
    BY <1>2, <2>1 DEF x
  <2> DEFINE q == [NoPatch EXCEPT !.status = "closed", !.closed = TRUE]
  <2>3. q.status = "closed" /\ q.first = Null
    BY DEF NoPatch
  <2>4. r.patch = q
    BY <2>1
  <2> HIDE DEF q, r
  <2> QED BY <2>1, <2>2, <2>3, <2>4
<1> HIDE DEF r
<1>6. Accept(h, r)
  BY <1>1 DEF r, p
<1>8. /\ StatusWork(r) /\ Goal(r) = "closed" /\ Goal(r) \in Status /\ ~Answers(r)
  BY <1>2, <1>5, NullAssumption DEF StatusWork, Goal, Answers, Status
<1>9. Means(r.after[1], "closed", r.tell) /\ ~IsAnswer(r.after[1])
  BY <1>3, <1>5 DEF Means, IsAnswer
<1>10. Offer(r)
  BY <1>2, <1>5, <1>8, <1>9 DEF Offer
<1> QED BY <1>2, <1>5, <1>6, <1>10 DEF Offered

(* reopenTicket() offers its entry, and tells nobody. *)
LEMMA ReopenOffered ==
    ASSUME IInv, NEW h \in Handlers, ReopenTicket(h)
    PROVE  Offered(h)
<1>1. PICK by \in {"customer", "admin"} :
         Accept(h, [Plain(by, "note", "reopened") EXCEPT
                    !.pc = "update", !.patch = Reopened(NoPatch)])
  BY DEF ReopenTicket
<1> DEFINE e == Entry("reopened", by, Null)
           p == Plain(by, "note", "reopened")
           r == [p EXCEPT !.pc = "update", !.patch = Reopened(NoPatch)]
<1>2. /\ p \in Request /\ p.creates = FALSE /\ p.tell = Null
      /\ DOMAIN p.before = {} /\ DOMAIN p.after = {1} /\ p.after[1] = e
      /\ p.message.number = next + 1 /\ p.message.kind = "note"
      /\ e.type = "reopened"
  <2>1. by \in Side /\ "reopened" \in EventType
    BY DEF Side, EventType
  <2> HIDE DEF r
  <2>2. p \in Request /\ p.pc = "message" /\ p.patch = NoPatch
        /\ p.before = <<>>
    BY <2>1, PlainFine
  <2>3. DOMAIN p.before = {} /\ DOMAIN p.after = {1} /\ p.after[1] = e
    BY <2>1, PlainShape
  <2>4. p.creates = FALSE /\ p.tell = Null
    BY PlainRest
  <2>5. p.message.number = next + 1
    BY PlainNumber
  <2>6. p.message.by = by /\ p.message.kind = "note"
    BY PlainMessage
  <2>7. e.type = "reopened" /\ e.by = by /\ e.to = Null
    BY EntryShape
  <2> HIDE DEF p, e
  <2> QED BY <2>2, <2>3, <2>4, <2>5, <2>6, <2>7
<1>3. Shown(e) = "open"
  BY <1>2 DEF Shown
<1>4. Reopened(NoPatch).status = "open" /\ Reopened(NoPatch).first = Null
  BY DEF Reopened, NoPatch
<1> HIDE DEF p, e
<1>5. /\ r.pc = "update" /\ r.before = p.before /\ r.after = p.after
      /\ r.message = p.message /\ r.creates = p.creates /\ r.tell = p.tell
      /\ r.patch.status = "open" /\ r.patch.first = Null
  BY <1>2, <1>4 DEF Request
<1> HIDE DEF r
<1>6. Accept(h, r)
  BY <1>1 DEF r, p
<1>7. /\ StatusWork(r) /\ Goal(r) = "open" /\ Goal(r) \in Status /\ ~Answers(r)
  BY <1>2, <1>5, NullAssumption DEF StatusWork, Goal, Answers, Status
<1>8. Means(r.after[1], "open", r.tell) /\ ~IsAnswer(r.after[1])
  BY <1>2, <1>3, <1>5 DEF Means, IsAnswer, Console
<1>9. Offer(r)
  BY <1>2, <1>5, <1>7, <1>8 DEF Offer
<1> QED BY <1>2, <1>5, <1>6, <1>9 DEF Offered

(* The status comes first among what the console changes. *)
LEMMA EntriesTell ==
    ASSUME NEW p \in Patch
    PROVE  /\ p.status = Null => Silent(ChangeEntries(p))
           /\ p.status # Null => /\ ChangeEntries(p) # <<>>
                                 /\ Means(Head(ChangeEntries(p)), p.status, p.status)
                                 /\ ~IsAnswer(Head(ChangeEntries(p)))
                                 /\ Silent(Tail(ChangeEntries(p)))
           /\ ChangeEntries(p) \in Seq(Event)
<1> DEFINE a == StatusEntry(p)
           b == IF p.priority = Null THEN <<>>
                ELSE <<Entry("priority_changed", "admin", Null)>>
           c == IF p.assignee = Null THEN <<>>
                ELSE IF p.assignee = Nobody THEN <<Entry("unassigned", "admin", Null)>>
                ELSE <<Entry("assigned", "admin", Null)>>
           e == Entry(StatusEvent(p.status), "admin", p.status)
<1>1. ASSUME NEW type \in {"priority_changed", "unassigned", "assigned"}
      PROVE  /\ <<Entry(type, "admin", Null)>> \in Seq(Event)
             /\ Silent(<<Entry(type, "admin", Null)>>)
  <2> DEFINE x == Entry(type, "admin", Null)
  <2>1. x \in Event
    BY EntryType DEF EventType, Side
  <2>2. Shown(x) = Null
    BY DEF Shown, Entry
  <2> HIDE DEF x
  <2> QED BY <2>1, <2>2, OneEntry DEF x
<1>2. Silent(<<>>) /\ <<>> \in Seq(Event)
  BY DEF Silent
<1>3. Silent(b) /\ b \in Seq(Event) /\ Silent(c) /\ c \in Seq(Event)
  BY <1>1, <1>2
<1>4. ChangeEntries(p) = a \o b \o c
  BY DEF ChangeEntries
<1> HIDE DEF b, c
<1>5. CASE p.status = Null
  <2>1. a \in Seq(Event) /\ Silent(a)
    BY <1>2, <1>5 DEF StatusEntry
  <2> HIDE DEF a
  <2>2. a \o b \in Seq(Event) /\ Silent(a \o b)
    BY <1>3, <2>1, SilentJoined
  <2>3. a \o b \o c \in Seq(Event) /\ Silent(a \o b \o c)
    BY <1>3, <2>2, SilentJoined
  <2> QED BY <1>4, <1>5, <2>3
<1>6. CASE p.status # Null
  <2>1. p.status \in Status
    BY <1>6 DEF Patch
  <2>2. e \in Event
    BY <2>1, EntryType DEF StatusEvent, EventType, Side
  <2>3. Means(e, p.status, p.status) /\ ~IsAnswer(e)
    BY DEF Means, IsAnswer, Shown, Entry, StatusEvent
  <2> HIDE DEF e
  <2>4. /\ a = <<e>> /\ a \in Seq(Event) /\ a # <<>> /\ Head(a) = e
        /\ Silent(Tail(a))
    <3>1. a = <<e>>
      BY <1>6 DEF StatusEntry, e
    <3> HIDE DEF a
    <3> QED BY <2>2, <3>1, OneEntry
  <2> HIDE DEF a
  <2> DEFINE d == a \o b
  <2>5. d \in Seq(Event) /\ d # <<>> /\ Head(d) = e /\ Silent(Tail(d))
    BY <1>3, <2>4, SilentAfter
  <2>6. ChangeEntries(p) = d \o c
    BY <1>4
  <2> HIDE DEF d
  <2>7. /\ d \o c \in Seq(Event) /\ d \o c # <<>> /\ Head(d \o c) = e
        /\ Silent(Tail(d \o c))
    BY <1>3, <2>5, SilentAfter
  <2> QED BY <1>6, <2>3, <2>6, <2>7
<1> QED BY <1>5, <1>6

(* An entry is the first or one of the rest. *)
LEMMA FirstOrRest ==
    ASSUME NEW s \in Seq(Event), s # <<>>, NEW i \in DOMAIN s
    PROVE  s[i] = Head(s) \/ \E j \in DOMAIN Tail(s) : s[i] = Tail(s)[j]
<1>1. CASE i = 1
  BY <1>1
<1>2. CASE i # 1
  <2>1. i - 1 \in DOMAIN Tail(s) /\ Tail(s)[i - 1] = s[i]
    BY <1>2
  <2> QED BY <2>1
<1> QED BY <1>1, <1>2

(* No answer is silent. *)
LEMMA AnswerShows == \A e : IsAnswer(e) => Shown(e) # Null
BY NullAssumption DEF IsAnswer, Shown, Status

(* The console sets no first response. *)
LEMMA ChangedUndated ==
    ASSUME NEW p \in Patches
    PROVE  Changed(p).first = Null
<1>1. p \in Patch /\ p.first = Null
  BY ConstantsAssumption
<1> DEFINE q == [p EXCEPT
                   !.status   = IF Differs(@, ticket.status) THEN @ ELSE Null,
                   !.priority = IF Differs(@, ticket.priority) THEN @ ELSE Null,
                   !.assignee = IF Differs(@, ticket.assignee) THEN @ ELSE Null]
<1>2. q \in Patch /\ q.first = Null
  <2> DEFINE a == IF Differs(p.status, ticket.status) THEN p.status ELSE Null
             b == IF Differs(p.priority, ticket.priority) THEN p.priority ELSE Null
             c == IF Differs(p.assignee, ticket.assignee) THEN p.assignee ELSE Null
  <2>1. q = [p EXCEPT !.status = a, !.priority = b, !.assignee = c]
    OBVIOUS
  <2>2. a \in {p.status, Null} /\ b \in {p.priority, Null} /\ c \in {p.assignee, Null}
    OBVIOUS
  <2> HIDE DEF q, a, b, c
  <2> QED BY <1>1, <2>1, <2>2 DEF Patch
<1>3. Changed(p) = WithDates(q)
  BY DEF Changed
<1> HIDE DEF q
<1>4. CASE q.status = "resolved"
  BY <1>2, <1>3, <1>4 DEF WithDates, Patch
<1>5. CASE q.status = "closed"
  BY <1>2, <1>3, <1>5 DEF WithDates, Patch
<1>6. CASE q.status = "open"
  BY <1>2, <1>3, <1>6 DEF WithDates, Patch, Reopened
<1>7. CASE q.status \notin {"resolved", "closed", "open"}
  BY <1>2, <1>3, <1>7 DEF WithDates
<1> QED BY <1>4, <1>5, <1>6, <1>7

(* adminUpdateTicket() offers its entries before its update. *)
LEMMA AdminOffered ==
    ASSUME IInv, NEW h \in Handlers, AdminUpdate(h)
    PROVE  Offered(h)
<1>1. PICK p \in Patches :
        Accept(h, [Plain("admin", "note", "note_added") EXCEPT
                        !.pc = "before", !.patch = Changed(p),
                        !.before = ChangeEntries(Changed(p)), !.after = <<>>,
                        !.tell = StatusToTell(Changed(p))])
  BY DEF AdminUpdate
<1> DEFINE q == Changed(p)
           c == ChangeEntries(q)
           n == Plain("admin", "note", "note_added")
           e == Entry("note_added", "admin", Null)
           s == StatusToTell(q)
           none == <<>>
           r == [n EXCEPT !.pc = "before", !.patch = q,
                          !.before = c, !.after = none, !.tell = s]
<1>2. ticket \in Ticket /\ s = q.status
  BY DEF AdminUpdate, IInv, Stored, StatusToTell
<1>3. q \in Patch /\ q.first = Null
  BY <1>2, ChangedFine, ChangedUndated
<1>4. /\ n \in Request /\ n.creates = FALSE
      /\ n.message.number = next + 1 /\ n.message.kind = "note"
  <2>1. "admin" \in Side /\ "note_added" \in EventType
    BY DEF Side, EventType
  <2> HIDE DEF q, c, s, r, none
  <2>2. n \in Request /\ n.pc = "message" /\ n.patch = NoPatch
        /\ n.before = <<>>
    BY <2>1, PlainFine
  <2>3. DOMAIN n.before = {} /\ DOMAIN n.after = {1} /\ n.after[1] = e
    BY <2>1, PlainShape
  <2>4. n.creates = FALSE /\ n.tell = Null
    BY PlainRest
  <2>5. n.message.number = next + 1
    BY PlainNumber
  <2>6. n.message.by = "admin" /\ n.message.kind = "note"
    BY PlainMessage
  <2>7. e.type = "note_added" /\ e.by = "admin" /\ e.to = Null
    BY EntryShape
  <2> HIDE DEF n, e
  <2> QED BY <2>2, <2>3, <2>4, <2>5, <2>6, <2>7
<1>5. none = <<>> /\ DOMAIN none = {}
  OBVIOUS
<1> HIDE DEF q, n, e, s, none
<1>6. /\ q.status = Null => Silent(c)
      /\ q.status # Null => /\ c # <<>> /\ Means(Head(c), q.status, q.status)
                            /\ ~IsAnswer(Head(c)) /\ Silent(Tail(c))
      /\ c \in Seq(Event)
  BY <1>3, EntriesTell
<1> HIDE DEF c
<1>7. /\ r.pc = "before" /\ r.before = c /\ r.after = none /\ r.tell = s
      /\ r.message = n.message /\ r.creates = n.creates /\ r.patch = q
  BY <1>4 DEF Request
<1> HIDE DEF r
<1>8. Accept(h, r)
  BY <1>1 DEF r, q, c, s, n, none
<1>9. \A i \in DOMAIN r.before : ~IsAnswer(r.before[i])
  BY <1>6, <1>7, FirstOrRest, AnswerShows DEF Silent
<1>10. ~Answers(r) /\ ~r.creates
  BY <1>4, <1>7 DEF Answers
<1>11. CASE q.status = Null
  <2>1. ~StatusWork(r) /\ Quiet(r)
    BY <1>2, <1>4, <1>5, <1>6, <1>7, <1>11 DEF StatusWork, Quiet, Silent
  <2>2. Offer(r)
    BY <1>3, <1>4, <1>5, <1>7, <1>9, <1>10, <2>1 DEF Offer
  <2> QED BY <1>8, <1>10, <2>2 DEF Offered
<1>12. CASE q.status # Null
  <2>1. StatusWork(r) /\ Goal(r) = q.status /\ q.status \in Status
    BY <1>3, <1>4, <1>7, <1>12 DEF StatusWork, Goal, Patch
  <2>2. Offer(r)
    BY <1>2, <1>3, <1>4, <1>5, <1>6, <1>7, <1>9, <1>10, <1>12, <2>1 DEF Offer
  <2> QED BY <1>8, <1>10, <2>2 DEF Offered
<1> QED BY <1>11, <1>12

(* A note, an attachment or a suggestion offers nothing about the status. *)
LEMMA AnnotateOffered ==
    ASSUME IInv, NEW h \in Handlers, Annotate(h)
    PROVE  Offered(h)
<1>1. PICK by \in Side, kind \in {"note", "attachment", "suggestion"} :
        \E type \in {"note_added", "attachment_added", "ai_suggestion"} :
            Accept(h, Plain(by, kind, type))
  BY DEF Annotate, Side
<1>2. PICK type \in {"note_added", "attachment_added", "ai_suggestion"} :
        Accept(h, Plain(by, kind, type))
  BY <1>1
<1> DEFINE r == Plain(by, kind, type)
           e == Entry(type, by, Null)
<1>3. /\ r.pc = "message" /\ r.patch = NoPatch /\ r.creates = FALSE /\ r.tell = Null
      /\ DOMAIN r.before = {} /\ DOMAIN r.after = {1} /\ r.after[1] = e
      /\ r.message.number = next + 1 /\ r.message.kind = kind
      /\ e.type = type /\ e.to = Null
  <2>1. type \in EventType
    BY DEF EventType
  <2>2. r \in Request /\ r.pc = "message" /\ r.patch = NoPatch
        /\ r.before = <<>>
    BY <2>1, PlainFine
  <2>3. DOMAIN r.before = {} /\ DOMAIN r.after = {1} /\ r.after[1] = e
    BY <2>1, PlainShape
  <2>4. r.creates = FALSE /\ r.tell = Null
    BY PlainRest
  <2>5. r.message.number = next + 1
    BY PlainNumber
  <2>6. r.message.by = by /\ r.message.kind = kind
    BY PlainMessage
  <2>7. e.type = type /\ e.by = by /\ e.to = Null
    BY EntryShape
  <2> HIDE DEF r, e
  <2> QED BY <2>2, <2>3, <2>4, <2>5, <2>6, <2>7
<1>4. Shown(e) = Null
  BY <1>3 DEF Shown
<1> HIDE DEF r, e
<1>5. ~StatusWork(r) /\ Quiet(r) /\ ~Answers(r)
  BY <1>3, <1>4, NoPatchShape DEF StatusWork, Quiet, Silent, Answers
<1>6. ~IsAnswer(r.after[1])
  BY <1>3, <1>4, AnswerShows
<1>7. Offer(r)
  BY <1>3, <1>5, <1>6, NoPatchShape DEF Offer
<1> QED BY <1>2, <1>3, <1>7 DEF Offered, r

-----------------------------------------------------------------------------
(* The timeline tells                                                       *)

(* A request that does not overlap another is accepted. *)
LEMMA AcceptVoiced ==
    ASSUME IInv, Voiced, NEW h \in Handlers, NEW r, Accept(h, r), Offer(r),
           \/ ticket # Null /\ ticket' = ticket /\ ~r.creates
           \/ ticket = Null /\ ticket' = NewTicket /\ r.creates /\ r \in Request
    PROVE  Voiced'
<1> SUFFICES ASSUME upset' = {}
             PROVE  /\ \A f, g \in Handlers : Works(f)' /\ Works(g)' => f = g
                    /\ \A g \in Handlers : req'[g] # Null =>
                          IF StatusWork(req'[g]) THEN Due(req'[g], ticket', timeline')
                          ELSE Quiet(req'[g])
                    /\ ticket' # Null /\ Settled' => Says(timeline', ticket'.status, told')
  BY DEF Voiced
<1>1. /\ req[h] = Null /\ timeline' = timeline /\ told' = told /\ upset = {}
      /\ \A g \in Handlers : req'[g] = IF g = h THEN r ELSE req[g]
      /\ StatusWork(r) => \A g \in Handlers : ~Works(g)
  <2>1. /\ req[h] = Null /\ timeline' = timeline /\ told' = told
        /\ req' = [req EXCEPT ![h] = r]
        /\ upset' = upset \cup
             (IF StatusWork(r) /\ \E g \in Handlers :
                    req[g] # Null /\ StatusWork(req[g])
              THEN {"overlapped"} ELSE {})
    BY DEF Accept
  <2>2. \A g \in Handlers : req'[g] = IF g = h THEN r ELSE req[g]
    BY <2>1 DEF IInv, Flight
  <2> QED BY <2>1, <2>2 DEF Works
<1>2. \A g \in Handlers : Works(g)' <=> IF g = h THEN r # Null /\ StatusWork(r) ELSE Works(g)
  BY <1>1 DEF Works
<1>3. \A f, g \in Handlers : Works(f)' /\ Works(g)' => f = g
  BY <1>1, <1>2 DEF Voiced
<1>4. ASSUME NEW g \in Handlers, req'[g] # Null, g # h
      PROVE  IF StatusWork(req'[g]) THEN Due(req'[g], ticket', timeline')
             ELSE Quiet(req'[g])
  <2>1. ticket' = ticket /\ req'[g] = req[g]
    BY <1>1, <1>4 DEF IInv, Flight
  <2> QED BY <1>1, <1>4, <2>1 DEF Voiced
<1>5. r.creates => ticket'.status = "open"
  BY DEF NewTicket
<1>6. IF StatusWork(r) THEN Due(r, ticket', timeline') ELSE Quiet(r)
  <2>1. ASSUME StatusWork(r)
        PROVE  Due(r, ticket', timeline')
    BY <1>5, <2>1 DEF Offer, Due, Goal
  <2> QED BY <2>1 DEF Offer
<1>7. ASSUME ticket' # Null, Settled' PROVE Says(timeline', ticket'.status, told')
  <2>1. r = Null \/ ~StatusWork(r)
    BY <1>1, <1>7 DEF Settled
  <2>2. ticket # Null /\ ticket' = ticket
    BY <2>1, NullAssumption DEF StatusWork
  <2>3. Settled
    BY <1>1, <1>7 DEF Settled
  <2> QED BY <1>1, <2>2, <2>3 DEF Voiced
<1>8. \A g \in Handlers : req'[g] # Null =>
          IF StatusWork(req'[g]) THEN Due(req'[g], ticket', timeline')
          ELSE Quiet(req'[g])
  BY <1>1, <1>4, <1>6
<1> QED BY <1>3, <1>7, <1>8

(* A step of the request that changes the status. *)
LEMMA WorkerVoiced ==
    ASSUME IInv, Voiced, NEW h \in Handlers, NEW r, Works(h),
           req' = [req EXCEPT ![h] = r], upset \subseteq upset',
           upset' = {} /\ r # Null => StatusWork(r) /\ Due(r, ticket', timeline'),
           upset' = {} /\ r = Null => Says(timeline', ticket'.status, told')
    PROVE  Voiced'
<1> SUFFICES ASSUME upset' = {}
             PROVE  /\ \A f, g \in Handlers : Works(f)' /\ Works(g)' => f = g
                    /\ \A g \in Handlers : req'[g] # Null =>
                          IF StatusWork(req'[g]) THEN Due(req'[g], ticket', timeline')
                          ELSE Quiet(req'[g])
                    /\ ticket' # Null /\ Settled' => Says(timeline', ticket'.status, told')
  BY DEF Voiced
<1>1. /\ upset = {} /\ \A g \in Handlers : req'[g] = IF g = h THEN r ELSE req[g]
  BY DEF IInv, Flight
<1>2. \A g \in Handlers : g # h => ~Works(g)
  BY <1>1 DEF Voiced
<1>3. \A g \in Handlers : g # h => ~Works(g)'
  BY <1>1, <1>2 DEF Works
<1>4. \A g \in Handlers : req'[g] # Null =>
          IF StatusWork(req'[g]) THEN Due(req'[g], ticket', timeline')
          ELSE Quiet(req'[g])
  BY <1>1, <1>2 DEF Voiced, Works
<1>5. Settled' => r = Null
  BY <1>1 DEF Settled
<1> QED BY <1>3, <1>4, <1>5

(* A step of one that does not. *)
LEMMA OtherVoiced ==
    ASSUME IInv, Voiced, NEW h \in Handlers, NEW r, req[h] # Null, ~Works(h),
           req' = [req EXCEPT ![h] = r], upset \subseteq upset',
           upset' = {} /\ r # Null => ~StatusWork(r) /\ Quiet(r),
           ticket'.status = ticket.status, told' = told,
           upset' = {} =>
               \A x, y : Says(timeline, x, y) => Says(timeline', x, y)
    PROVE  Voiced'
<1> SUFFICES ASSUME upset' = {}
             PROVE  /\ \A f, g \in Handlers : Works(f)' /\ Works(g)' => f = g
                    /\ \A g \in Handlers : req'[g] # Null =>
                          IF StatusWork(req'[g]) THEN Due(req'[g], ticket', timeline')
                          ELSE Quiet(req'[g])
                    /\ ticket' # Null /\ Settled' => Says(timeline', ticket'.status, told')
  BY DEF Voiced
<1>1. /\ upset = {} /\ \A g \in Handlers : req'[g] = IF g = h THEN r ELSE req[g]
  BY DEF IInv, Flight
<1>2. \A g \in Handlers : Works(g)' => Works(g)
  BY <1>1 DEF Works
<1>3. \A g \in Handlers : g # h /\ req[g] # Null =>
          IF StatusWork(req[g]) THEN Due(req[g], ticket', timeline')
          ELSE Quiet(req[g])
  BY <1>1 DEF Voiced, Due
<1>4. \A g \in Handlers : req'[g] # Null =>
          IF StatusWork(req'[g]) THEN Due(req'[g], ticket', timeline')
          ELSE Quiet(req'[g])
  BY <1>1, <1>3
<1>5. ASSUME Settled' PROVE Says(timeline', ticket'.status, told')
  <2>1. Settled /\ ticket # Null
    BY <1>1, <1>5, InFlight DEF Settled, Works
  <2> QED BY <1>1, <2>1 DEF Voiced
<1> QED BY <1>1, <1>2, <1>4, <1>5 DEF Voiced

(* A message is no word about the status. *)
LEMMA AddMessageVoiced ==
    ASSUME IInv, Voiced, NEW h \in Handlers, AddMessage(h)
    PROVE  Voiced'
<1> DEFINE r == req[h]
           pc == IF r.patch = NoPatch THEN "after" ELSE "update"
           n == [r EXCEPT !.pc = pc]
<1>1. /\ r # Null /\ r.pc = "message" /\ req' = [req EXCEPT ![h] = n]
      /\ UNCHANGED <<ticket, timeline, told, upset>>
  BY DEF AddMessage
<1>2. r \in Request
  BY <1>1, InFlight
<1>3. pc \in {"after", "update"} /\ (pc = "after" => r.patch = NoPatch)
  OBVIOUS
<1> HIDE DEF pc
<1>4. n.pc = pc /\ n.patch = r.patch /\ n.before = r.before /\ n.after = r.after
      /\ n.creates = r.creates /\ n.tell = r.tell /\ n \in Request
  BY <1>2, <1>3 DEF Request
<1>5. n # Null
  BY <1>4, NullAssumption
<1>6. Works(h) <=> StatusWork(r)
  BY <1>1 DEF Works
<1> HIDE DEF n, r
<1>7. (StatusWork(n) <=> StatusWork(r)) /\ Goal(n) = Goal(r)
  BY <1>4 DEF StatusWork, Goal
<1>8. CASE StatusWork(r)
  <2>1. upset' = {} => Due(r, ticket, timeline)
    BY <1>1, <1>8 DEF Voiced, r
  <2>2. pc = "after" => r.creates
    BY <1>3, <1>8, NoPatchShape DEF StatusWork
  <2>3. upset' = {} => Due(n, ticket', timeline')
    BY <1>1, <1>3, <1>4, <1>7, <2>1, <2>2 DEF Due
  <2> QED BY <1>1, <1>5, <1>6, <1>7, <1>8, <2>3, WorkerVoiced
<1>9. CASE ~StatusWork(r)
  <2>1. upset' = {} => Quiet(r)
    BY <1>1, <1>9 DEF Voiced, r
  <2>2. upset' = {} => Quiet(n)
    BY <1>3, <1>4, <2>1 DEF Quiet
  <2> QED BY <1>1, <1>5, <1>6, <1>7, <1>9, <2>2, OtherVoiced DEF r
<1> QED BY <1>8, <1>9

(* The console's entries are recorded, the status first. *)
LEMMA RecordBeforeVoiced ==
    ASSUME IInv, Voiced, NEW h \in Handlers, RecordBefore(h)
    PROVE  Voiced'
<1> DEFINE r == req[h]
<1>1. /\ r # Null /\ r.pc = "before" /\ UNCHANGED <<ticket, told>>
  BY DEF RecordBefore
<1>2. r \in Request /\ Fine(r)
  BY <1>1, InFlight
<1>3. /\ r.before \in Seq(Event) /\ r.before # <<>> /\ timeline \in Seq(Event)
  BY <1>1, <1>2 DEF Fine, Request, IInv, Stored
<1>4. CASE Refused(r)
  BY <1>4 DEF RecordBefore, Voiced
<1>5. CASE ~Refused(r)
  <2> DEFINE rest == Tail(r.before)
             e == Head(r.before)
             pc == IF rest = <<>> THEN "update" ELSE "before"
             n == [r EXCEPT !.before = rest, !.pc = pc]
  <2>1. /\ timeline' = Append(timeline, e) /\ UNCHANGED upset
        /\ req' = [req EXCEPT ![h] = n]
    <3>1. req' = [req EXCEPT ![h].before = Tail(@),
                     ![h].pc = IF Tail(r.before) = <<>> THEN "update" ELSE @]
      BY <1>5 DEF RecordBefore
    <3> QED BY <1>1, <1>5, <3>1 DEF RecordBefore, IInv, Flight
  <2>2. rest \in Seq(Event) /\ e \in Event
    BY <1>3
  <2>3. Silent(r.before) => Shown(e) = Null /\ Silent(rest)
    <3>1. 1 \in DOMAIN r.before /\ e = r.before[1]
      BY <1>3
    <3>2. \A i \in DOMAIN rest : i + 1 \in DOMAIN r.before /\ rest[i] = r.before[i + 1]
      BY <1>3
    <3> HIDE DEF rest, e
    <3> QED BY <3>1, <3>2 DEF Silent
  <2>4. pc \in {"before", "update"}
    OBVIOUS
  <2>5. Works(h) <=> StatusWork(r)
    BY <1>1 DEF Works
  <2>6. \A x, y : /\ Shown(e) = Null /\ Says(timeline, x, y) => Says(timeline', x, y)
                  /\ Means(e, x, y) => Says(timeline', x, y)
    BY <1>3, <2>1, <2>2, SaysAppend
  <2> HIDE DEF rest, pc, e
  <2>7. n.pc = pc /\ n.patch = r.patch /\ n.before = rest /\ n.after = r.after
        /\ n.creates = r.creates /\ n.tell = r.tell /\ n \in Request
    BY <1>2, <2>2, <2>4 DEF Request
  <2>8. n # Null
    BY <2>7, NullAssumption
  <2> HIDE DEF n
  <2>9. (StatusWork(n) <=> StatusWork(r)) /\ Goal(n) = Goal(r)
    BY <2>7 DEF StatusWork, Goal
  <2>10. CASE StatusWork(r)
    <3>1. upset' = {} => Due(r, ticket, timeline)
      BY <1>1, <2>1, <2>10 DEF Voiced
    <3>2. upset' = {} => r.after = <<>> /\ Silent(rest)
                         /\ Says(timeline', Goal(r), r.tell)
      BY <1>1, <2>3, <2>6, <3>1 DEF Due, rest, e
    <3>3. upset' = {} => Due(n, ticket', timeline')
      BY <1>1, <2>4, <2>7, <2>9, <3>1, <3>2 DEF Due
    <3> HIDE DEF r
    <3> QED BY <2>1, <2>5, <2>8, <2>9, <2>10, <3>3, WorkerVoiced
  <2>11. CASE ~StatusWork(r)
    <3>1. upset' = {} => Quiet(r)
      BY <1>1, <2>1, <2>11 DEF Voiced
    <3>2. upset' = {} => Quiet(n) /\ Shown(e) = Null
      BY <2>3, <2>4, <2>7, <3>1 DEF Quiet
    <3> QED BY <1>1, <2>1, <2>5, <2>6, <2>8, <2>9, <2>11, <3>2, OtherVoiced
  <2> QED BY <2>10, <2>11
<1> QED BY <1>4, <1>5

(* The ticket takes the status its entry shows. *)
LEMMA UpdateVoiced ==
    ASSUME IInv, Voiced, NEW h \in Handlers, UpdateTicket(h)
    PROVE  Voiced'
<1> DEFINE r == req[h]
           pc == IF r.after = <<>> THEN "tell" ELSE "after"
           n == [r EXCEPT !.pc = pc]
           m == IF r.after = <<>> /\ r.tell = Null THEN Null ELSE n
<1>1. /\ r # Null /\ r.pc = "update" /\ ticket' = Updated(ticket, r.patch)
      /\ req' = [req EXCEPT ![h] = m]
      /\ UNCHANGED <<timeline, told, upset>>
  BY DEF UpdateTicket
<1>2. r \in Request
  BY <1>1, InFlight
<1>3. pc \in {"tell", "after"} /\ (pc = "tell" <=> r.after = <<>>)
  OBVIOUS
<1> HIDE DEF pc
<1>4. n.pc = pc /\ n.patch = r.patch /\ n.before = r.before /\ n.after = r.after
      /\ n.creates = r.creates /\ n.tell = r.tell /\ n \in Request
  BY <1>2, <1>3 DEF Request
<1>5. ticket'.status = IF r.patch.status = Null THEN ticket.status ELSE r.patch.status
  BY <1>1 DEF Updated, Or
<1>6. Works(h) <=> StatusWork(r)
  BY <1>1 DEF Works
<1>7. m = Null \/ m = n
  OBVIOUS
<1>8. m = Null => r.after = <<>> /\ r.tell = Null
  BY <1>4, NullAssumption
<1> HIDE DEF n, m
<1>9. (StatusWork(n) <=> StatusWork(r)) /\ Goal(n) = Goal(r)
  BY <1>4 DEF StatusWork, Goal
<1>10. CASE StatusWork(r)
  <2>1. upset' = {} => Due(r, ticket, timeline)
    BY <1>1, <1>10 DEF Voiced
  <2>2. upset' = {} => ticket'.status = Goal(r)
    BY <1>5, <1>10, <2>1, NoPatchShape DEF Due, Goal, StatusWork
  <2>3. DOMAIN <<>> = {}
    OBVIOUS
  <2>4. upset' = {} => \/ r.after = <<>> /\ Says(timeline, Goal(r), r.tell)
                       \/ DOMAIN r.after = {1} /\ Means(r.after[1], Goal(r), r.tell)
                          /\ r.after # <<>>
    BY <1>1, <2>1, <2>3 DEF Due
  <2>5. upset' = {} => Due(n, ticket', timeline')
    BY <1>1, <1>3, <1>4, <1>9, <2>1, <2>2, <2>4 DEF Due
  <2>6. upset' = {} /\ m = Null => Says(timeline', ticket'.status, told')
    <3>1. upset' = {} => Goal(r) # Null
      BY <2>1, NullAssumption DEF Due
    <3>2. upset' = {} /\ m = Null => \A x : Means(x, Goal(r), Null) => Means(x, Goal(r), told)
      BY <3>1 DEF Means
    <3>3. upset' = {} /\ m = Null => Says(timeline, Goal(r), Null)
      BY <1>8, <2>4
    <3> QED BY <1>1, <2>2, <3>2, <3>3 DEF Says
  <2> HIDE DEF r
  <2> QED BY <1>1, <1>6, <1>7, <1>9, <1>10, <2>5, <2>6, WorkerVoiced
<1>11. CASE ~StatusWork(r)
  <2>1. upset' = {} => Quiet(r)
    BY <1>1, <1>11 DEF Voiced
  <2>2. upset' = {} /\ m # Null => Quiet(m)
    <3>1. r.tell = Null /\ m # Null => r.after # <<>>
      BY DEF m
    <3> QED BY <1>3, <1>4, <1>7, <2>1, <3>1 DEF Quiet
  <2>3. ticket'.status = ticket.status
    BY <1>5, <1>11 DEF StatusWork
  <2> QED BY <1>1, <1>6, <1>7, <1>9, <1>11, <2>2, <2>3, OtherVoiced
<1> QED BY <1>10, <1>11

(* The entry of what was done is recorded. *)
LEMMA RecordAfterVoiced ==
    ASSUME IInv, Voiced, NEW h \in Handlers, RecordAfter(h)
    PROVE  Voiced'
<1> DEFINE r == req[h]
           none == <<>>
           n == [r EXCEPT !.pc = "tell", !.after = none]
           m == IF r.tell = Null THEN Null ELSE n
<1>1. /\ r # Null /\ r.pc = "after" /\ timeline' = timeline \o r.after
      /\ req' = [req EXCEPT ![h] = m]
      /\ UNCHANGED <<ticket, told, upset>>
  BY DEF RecordAfter
<1>2. r \in Request /\ timeline \in Seq(Event)
  BY <1>1, InFlight DEF IInv, Stored
<1>3. r.after \in Seq(Event)
  BY <1>2 DEF Request
<1>4. none = <<>> /\ none \in Seq(Event)
  OBVIOUS
<1> HIDE DEF none
<1>5. /\ n.pc = "tell" /\ n.after = none /\ n.patch = r.patch /\ n.before = r.before
      /\ n.creates = r.creates /\ n.tell = r.tell /\ n \in Request
  BY <1>2, <1>4 DEF Request
<1>6. Works(h) <=> StatusWork(r)
  BY <1>1 DEF Works
<1>7. m = IF r.tell = Null THEN Null ELSE n
  OBVIOUS
<1>8. n # Null
  BY <1>5, NullAssumption
<1> HIDE DEF n, m
<1>9. (StatusWork(n) <=> StatusWork(r)) /\ Goal(n) = Goal(r)
  BY <1>5 DEF StatusWork, Goal
<1>10. CASE StatusWork(r)
  <2>1. upset' = {} => Due(r, ticket, timeline)
    BY <1>1, <1>10 DEF Voiced
  <2>2. upset' = {} => Says(r.after, Goal(r), r.tell)
    BY <1>1, <2>1 DEF Due, Says
  <2>3. upset' = {} => Says(timeline', Goal(r), r.tell)
    BY <1>1, <1>2, <1>3, <2>2, SaysNow
  <2>4. upset' = {} => Due(n, ticket', timeline')
    BY <1>1, <1>4, <1>5, <1>9, <2>1, <2>3 DEF Due
  <2>5. upset' = {} /\ m = Null => Says(timeline', ticket'.status, told')
    <3>1. upset' = {} => Goal(r) # Null /\ ticket'.status = Goal(r)
      BY <1>1, <2>1, NullAssumption DEF Due
    <3>2. upset' = {} => \A x : Means(x, Goal(r), Null) => Means(x, Goal(r), told')
      BY <3>1 DEF Means
    <3>3. upset' = {} /\ m = Null => Says(timeline', Goal(r), Null)
      BY <1>7, <1>8, <2>3
    <3> QED BY <3>1, <3>2, <3>3 DEF Says
  <2> HIDE DEF r
  <2> QED BY <1>1, <1>6, <1>7, <1>9, <1>10, <2>4, <2>5, WorkerVoiced
<1>11. CASE ~StatusWork(r)
  <2>1. upset' = {} => Quiet(r)
    BY <1>1, <1>11 DEF Voiced
  <2>2. upset' = {} => m = Null
    BY <1>7, <2>1 DEF Quiet
  <2>3. upset' = {} => \A x, y : Says(timeline, x, y) => Says(timeline', x, y)
    BY <1>1, <1>2, <1>3, <2>1, SaysStill DEF Quiet
  <2> QED BY <1>1, <1>6, <1>11, <2>2, <2>3, OtherVoiced
<1> QED BY <1>10, <1>11

(* The owner is told what the entry shows. *)
LEMMA EndVoiced ==
    ASSUME IInv, Voiced, NEW h \in Handlers, TellStatus(h) \/ Die(h)
    PROVE  Voiced'
<1>1. CASE Die(h)
  BY <1>1 DEF Die, Voiced
<1>2. CASE TellStatus(h)
  <2> DEFINE r == req[h]
  <2>1. /\ r # Null /\ r.pc = "tell" /\ told' = r.tell
        /\ req' = [req EXCEPT ![h] = Null] /\ UNCHANGED <<ticket, timeline, upset>>
    BY <1>2 DEF TellStatus
  <2>2. upset' = {} => StatusWork(r)
    BY <2>1 DEF Voiced, Quiet
  <2>3. CASE upset' = {}
    <3>1. Works(h) /\ Due(r, ticket, timeline)
      BY <2>1, <2>2, <2>3 DEF Voiced, Works
    <3>2. Says(timeline', ticket'.status, told')
      BY <2>1, <3>1 DEF Due
    <3> QED BY <2>1, <3>1, <3>2, WorkerVoiced
  <2>4. CASE upset' # {}
    BY <2>4 DEF Voiced
  <2> QED BY <2>3, <2>4
<1> QED BY <1>1, <1>2

(* Every step. *)
LEMMA NextVoiced == IInv /\ Voiced /\ [Next]_vars => Voiced'
<1> SUFFICES ASSUME IInv, Voiced, [Next]_vars PROVE Voiced'
  OBVIOUS
<1>1. CASE UNCHANGED vars
  BY <1>1 DEF vars, Voiced, Works, Settled
<1>2. ASSUME NEW h \in Handlers, CreateTicket(h) PROVE Voiced'
  BY <1>2, CreateOffered, AcceptVoiced DEF CreateTicket
<1>3. ASSUME NEW h \in Handlers,
             \/ Reply(h) \/ CloseTicket(h) \/ ReopenTicket(h)
             \/ AdminUpdate(h) \/ Annotate(h)
      PROVE Voiced'
  <2>1. Offered(h)
    BY <1>3, ReplyOffered, CloseOffered, ReopenOffered, AdminOffered, AnnotateOffered
  <2>2. ticket # Null /\ ticket' = ticket
    BY <1>3 DEF Reply, CloseTicket, ReopenTicket, AdminUpdate, Annotate
  <2> QED BY <2>1, <2>2, AcceptVoiced DEF Offered
<1>4. ASSUME NEW h \in Handlers,
             \/ AddMessage(h) \/ RecordBefore(h) \/ UpdateTicket(h)
             \/ RecordAfter(h) \/ TellStatus(h) \/ Die(h)
      PROVE Voiced'
  BY <1>4, AddMessageVoiced, RecordBeforeVoiced, UpdateVoiced, RecordAfterVoiced,
     EndVoiced
<1> QED BY <1>1, <1>2, <1>3, <1>4 DEF Next

(* Nothing has been said. *)
LEMMA InitVoiced == Init => Voiced
BY DEF Init, Voiced, Works

(* In every reachable state. *)
LEMMA VoicedAlways == Spec => [](IInv /\ Voiced)
BY InitIInv, NextIInv, InitVoiced, NextVoiced, PTL DEF Spec

(* Changes of status that do not overlap, and that run to their end, leave  *)
(* a timeline whose last entry about the status is the status, whatever     *)
(* replies, notes and console changes go on meanwhile (reply(),             *)
(* closeTicket(), reopenTicket(), adminUpdateTicket()).                     *)
THEOREM TimelineEndsTrue == Spec => []TimelineTells
<1>1. IInv /\ Voiced => TimelineTells
  <2> SUFFICES ASSUME IInv, Voiced, ticket # Null, Settled, upset = {}
               PROVE  Shown(LastStatusEntry) = ticket.status
    BY DEF TimelineTells
  <2>1. Says(timeline, ticket.status, told)
    BY DEF Voiced
  <2>2. timeline \in Seq(Event) /\ ticket.status # Null
    BY NullAssumption DEF IInv, Stored, Ticket
  <2> QED BY <2>1, <2>2, SaidLast
<1> QED BY <1>1, VoicedAlways, PTL

(* And when that entry is one of the console, or a close, the owner was     *)
(* last notified of that status (statusChanged).                            *)
THEOREM OwnerHears == Spec => []OwnerIsTold
<1>1. IInv /\ Voiced => OwnerIsTold
  <2> SUFFICES ASSUME IInv, Voiced, ticket # Null, Settled, upset = {},
                      LastStatusEntry.type \in {"status_changed", "resolved", "closed"}
               PROVE  told = ticket.status
    BY DEF OwnerIsTold
  <2>1. Says(timeline, ticket.status, told)
    BY DEF Voiced
  <2>2. timeline \in Seq(Event) /\ ticket.status # Null
    BY NullAssumption DEF IInv, Stored, Ticket
  <2> QED BY <2>1, <2>2, SaidLast DEF Console
<1> QED BY <1>1, VoicedAlways, PTL

-----------------------------------------------------------------------------
(* The first response                                                       *)

(* A step of one request that takes no answer and no date away. *)
LEMMA StampedStep ==
    ASSUME IInv, Stamped, NEW h \in Handlers, NEW r,
           req' = [req EXCEPT ![h] = r], ticket' # Null,
           ticket # Null /\ ticket.first # Null => ticket'.first # Null,
           StaffReplies \subseteq StaffReplies',
           r # Null => Answered(r, ticket', StaffReplies'),
           (\E i \in DOMAIN timeline' : IsAnswer(timeline'[i])) => ticket'.first # Null,
           ticket'.first # Null => ticket'.first \in StaffReplies'
    PROVE  Stamped'
<1>1. \A g \in Handlers : req'[g] = IF g = h THEN r ELSE req[g]
  BY DEF IInv, Flight
<1>2. ASSUME NEW g \in Handlers, req[g] # Null
      PROVE  Answered(req[g], ticket', StaffReplies')
  <2>1. ticket # Null /\ Answered(req[g], ticket, StaffReplies)
    BY <1>2, InFlight DEF Stamped
  <2> QED BY <2>1 DEF Answered
<1>3. \A g \in Handlers : req'[g] # Null => Answered(req'[g], ticket', StaffReplies')
  BY <1>1, <1>2
<1> QED BY <1>3 DEF Stamped

(* The number of what is stored joins the replies if it answers. *)
LEMMA RepliesGrow ==
    ASSUME messages \in Seq(Message), NEW m \in Message,
           messages' = Append(messages, m)
    PROVE  /\ StaffReplies \subseteq StaffReplies'
           /\ \A n \in StaffReplies' : n \notin StaffReplies =>
                n = m.number /\ m.by = "admin" /\ m.kind = "reply"
           /\ m.by = "admin" /\ m.kind = "reply" => m.number \in StaffReplies'
<1>1. /\ DOMAIN messages' = 1 .. Len(messages) + 1 /\ Len(messages) \in Nat
      /\ DOMAIN messages = 1 .. Len(messages)
      /\ \A i \in DOMAIN messages : messages'[i] = messages[i]
      /\ messages'[Len(messages) + 1] = m
  OBVIOUS
<1>2. \A i : i \in DOMAIN messages' <=> i \in DOMAIN messages \/ i = Len(messages) + 1
  BY <1>1
<1>3. ASSUME NEW n \in StaffReplies PROVE n \in StaffReplies'
  BY <1>1, <1>2, <1>3 DEF StaffReplies
<1>4. ASSUME NEW n \in StaffReplies'
      PROVE \/ n \in StaffReplies
            \/ n = m.number /\ m.by = "admin" /\ m.kind = "reply"
  BY <1>1, <1>2, <1>4 DEF StaffReplies
<1>5. m.by = "admin" /\ m.kind = "reply" => m.number \in StaffReplies'
  BY <1>1, <1>2 DEF StaffReplies
<1> QED BY <1>3, <1>4, <1>5

(* Replies are numbered. *)
LEMMA RepliesNumbered ==
    ASSUME IInv
    PROVE  /\ StaffReplies \subseteq Nat
           /\ \A n \in StaffReplies : \E i \in DOMAIN messages : n = messages[i].number
           /\ \A i \in DOMAIN messages : messages[i].number \in Nat
           /\ messages = <<>> => StaffReplies = {}
<1>1. messages \in Seq(Message)
  BY DEF IInv, Stored
<1>2. \A i \in DOMAIN messages : messages[i] \in Message
  BY <1>1
<1>3. \A i \in DOMAIN messages : messages[i].number \in Nat
  BY <1>2 DEF Message
<1>4. \A n \in StaffReplies : \E i \in DOMAIN messages : n = messages[i].number
  BY DEF StaffReplies
<1>5. messages = <<>> => DOMAIN messages = {}
  OBVIOUS
<1> QED BY <1>3, <1>4, <1>5

(* A reply is accepted with the date it is to set. *)
LEMMA AcceptStamped ==
    ASSUME IInv, Stamped, NEW h \in Handlers, NEW r, Accept(h, r), Offer(r),
           \/ ticket # Null /\ ticket' = ticket
           \/ ticket = Null /\ ticket' = NewTicket /\ r.creates
    PROVE  Stamped'
<1>1. req' = [req EXCEPT ![h] = r] /\ UNCHANGED <<messages, timeline>>
  BY DEF Accept
<1>2. StaffReplies' = StaffReplies
  BY <1>1 DEF StaffReplies
<1>3. ticket' # Null /\ (ticket = Null => ticket'.first = Null)
  <2>1. NewTicket # Null
    <3>1. NewTicket \in Ticket
      BY DEF NewTicket, Ticket, Status, Priority, Assignee
    <3> QED BY <3>1, NullAssumption
  <2>2. NewTicket.first = Null
    BY DEF NewTicket
  <2> QED BY <2>1, <2>2
<1>4. Answers(r) => ticket' = ticket
  BY NoPatchShape DEF Offer, StatusWork
<1>5. Answered(r, ticket', StaffReplies')
  BY <1>4, NoPatchShape DEF Offer, Answered
<1> QED BY <1>1, <1>2, <1>3, <1>5, StampedStep DEF Stamped

(* The reply is stored before it is dated. *)
LEMMA AddMessageStamped ==
    ASSUME IInv, Stamped, NEW h \in Handlers, AddMessage(h)
    PROVE  Stamped'
<1> DEFINE r == req[h]
           pc == IF r.patch = NoPatch THEN "after" ELSE "update"
           n == [r EXCEPT !.pc = pc]
<1>1. /\ r # Null /\ r.pc = "message" /\ req' = [req EXCEPT ![h] = n]
      /\ messages' = Append(messages, r.message)
      /\ UNCHANGED <<ticket, timeline>>
  BY DEF AddMessage
<1>2. r \in Request /\ ticket # Null /\ Answered(r, ticket, StaffReplies)
  BY <1>1, InFlight DEF Stamped
<1>3. pc \in {"after", "update"} /\ (pc = "after" => r.patch = NoPatch)
  OBVIOUS
<1> HIDE DEF pc
<1>4. n.pc = pc /\ n.patch = r.patch /\ n.before = r.before /\ n.after = r.after
      /\ n.message = r.message
  BY <1>2, <1>3 DEF Request
<1>5. /\ StaffReplies \subseteq StaffReplies'
      /\ Answers(r) => r.message.number \in StaffReplies'
  <2>1. r.message \in Message /\ messages \in Seq(Message)
    BY <1>2 DEF Request, IInv, Stored
  <2> HIDE DEF r
  <2> QED BY <1>1, <2>1, RepliesGrow DEF Answers
<1> HIDE DEF n
<1>6. Answered(n, ticket', StaffReplies')
  BY <1>1, <1>2, <1>3, <1>4, <1>5, NoPatchShape DEF Answered, Answers
<1> QED BY <1>1, <1>2, <1>5, <1>6, StampedStep DEF Stamped

(* The console records no reply. *)
LEMMA RecordBeforeStamped ==
    ASSUME IInv, Stamped, NEW h \in Handlers, RecordBefore(h)
    PROVE  Stamped'
<1> DEFINE r == req[h]
<1>1. /\ r # Null /\ r.pc = "before" /\ UNCHANGED <<ticket, messages>>
  BY DEF RecordBefore
<1>2. r \in Request /\ Fine(r) /\ ticket # Null /\ Answered(r, ticket, StaffReplies)
  BY <1>1, InFlight DEF Stamped
<1>3. /\ r.before \in Seq(Event) /\ r.before # <<>> /\ timeline \in Seq(Event)
  BY <1>1, <1>2 DEF Fine, Request, IInv, Stored
<1>4. StaffReplies' = StaffReplies
  BY <1>1 DEF StaffReplies
<1>5. CASE Refused(r)
  <2>1. /\ req' = [req EXCEPT ![h] = Null] /\ UNCHANGED timeline
    BY <1>5 DEF RecordBefore
  <2> QED BY <1>1, <1>2, <1>4, <2>1, StampedStep DEF Stamped
<1>6. CASE ~Refused(r)
  <2> DEFINE rest == Tail(r.before)
             e == Head(r.before)
             pc == IF rest = <<>> THEN "update" ELSE "before"
             n == [r EXCEPT !.before = rest, !.pc = pc]
  <2>1. /\ timeline' = Append(timeline, e)
        /\ req' = [req EXCEPT ![h] = n]
    <3>1. req' = [req EXCEPT ![h].before = Tail(@),
                     ![h].pc = IF Tail(r.before) = <<>> THEN "update" ELSE @]
      BY <1>6 DEF RecordBefore
    <3> QED BY <1>1, <1>6, <3>1 DEF RecordBefore, IInv, Flight
  <2>2. e \in Event /\ 1 \in DOMAIN r.before /\ e = r.before[1]
        /\ \A i \in DOMAIN rest : i + 1 \in DOMAIN r.before /\ rest[i] = r.before[i + 1]
    BY <1>3
  <2>3. pc \in {"before", "update"}
    OBVIOUS
  <2> HIDE DEF rest, pc, e
  <2>4. n.pc = pc /\ n.patch = r.patch /\ n.before = rest /\ n.after = r.after
        /\ n.message = r.message
    BY <1>2 DEF Request
  <2> HIDE DEF n
  <2>5. ~IsAnswer(e) /\ \A i \in DOMAIN rest : ~IsAnswer(rest[i])
    BY <1>2, <2>2 DEF Answered
  <2>6. (\E i \in DOMAIN timeline' : IsAnswer(timeline'[i])) => ticket.first # Null
    <3>1. \A i \in DOMAIN timeline' : \/ i \in DOMAIN timeline /\ timeline'[i] = timeline[i]
                                      \/ timeline'[i] = e
      BY <1>3, <2>1, <2>2
    <3> QED BY <2>5, <3>1 DEF Stamped
  <2>7. Answered(n, ticket', StaffReplies')
    BY <1>1, <1>2, <1>4, <2>3, <2>4, <2>5 DEF Answered, Answers
  <2> QED BY <1>1, <1>2, <1>4, <2>1, <2>6, <2>7, StampedStep DEF Stamped
<1> QED BY <1>5, <1>6

(* The ticket is dated with a reply that is stored. *)
LEMMA UpdateStamped ==
    ASSUME IInv, Stamped, NEW h \in Handlers, UpdateTicket(h)
    PROVE  Stamped'
<1> DEFINE r == req[h]
           pc == IF r.after = <<>> THEN "tell" ELSE "after"
           n == [r EXCEPT !.pc = pc]
           m == IF r.after = <<>> /\ r.tell = Null THEN Null ELSE n
<1>1. /\ r # Null /\ r.pc = "update" /\ ticket' = Updated(ticket, r.patch)
      /\ req' = [req EXCEPT ![h] = m]
      /\ UNCHANGED <<messages, timeline>>
  BY DEF UpdateTicket
<1>2. r \in Request /\ ticket # Null /\ Answered(r, ticket, StaffReplies)
  BY <1>1, InFlight DEF Stamped
<1>3. pc \in {"tell", "after"}
  OBVIOUS
<1> HIDE DEF pc
<1>4. n.pc = pc /\ n.patch = r.patch /\ n.before = r.before /\ n.after = r.after
      /\ n.message = r.message
  BY <1>2, <1>3 DEF Request
<1>5. ticket'.first = IF r.patch.first = Null THEN ticket.first ELSE r.patch.first
  BY <1>1 DEF Updated, Or
<1>6. m = Null \/ m = n
  OBVIOUS
<1> HIDE DEF n, m
<1>7. StaffReplies' = StaffReplies
  BY <1>1 DEF StaffReplies
<1>8. ticket' # Null
  <2>1. /\ r.patch \in Patch /\ Dated(r.patch) /\ r.patch.assignee # Outsider
        /\ ticket \in Ticket /\ DatesAgree
    BY <1>1, <1>2, InFlight DEF Fine, Request, IInv, Stored
  <2>2. ticket' \in Ticket
    BY <1>1, <1>2, <2>1, UpdatedDates
  <2> QED BY <2>2, NullAssumption
<1>9. Answered(n, ticket', StaffReplies')
  BY <1>1, <1>2, <1>3, <1>4, <1>5, <1>7 DEF Answered, Answers
<1> QED BY <1>1, <1>2, <1>5, <1>6, <1>7, <1>8, <1>9, StampedStep DEF Stamped, Answered

(* The reply is recorded once the ticket is dated. *)
LEMMA RecordAfterStamped ==
    ASSUME IInv, Stamped, NEW h \in Handlers, RecordAfter(h)
    PROVE  Stamped'
<1> DEFINE r == req[h]
           none == <<>>
           n == [r EXCEPT !.pc = "tell", !.after = none]
           m == IF r.tell = Null THEN Null ELSE n
<1>1. /\ r # Null /\ r.pc = "after" /\ timeline' = timeline \o r.after
      /\ req' = [req EXCEPT ![h] = m]
      /\ UNCHANGED <<ticket, messages>>
  BY DEF RecordAfter
<1>2. r \in Request /\ ticket # Null /\ Answered(r, ticket, StaffReplies)
      /\ timeline \in Seq(Event)
  BY <1>1, InFlight DEF Stamped, IInv, Stored
<1>3. r.after \in Seq(Event)
  BY <1>2 DEF Request
<1>4. DOMAIN none = {}
  OBVIOUS
<1> HIDE DEF none
<1>5. /\ n.pc = "tell" /\ n.after = none /\ n.patch = r.patch /\ n.before = r.before
      /\ n.message = r.message
  BY <1>2 DEF Request
<1>6. m = Null \/ m = n
  OBVIOUS
<1> HIDE DEF n, m
<1>7. StaffReplies' = StaffReplies
  BY <1>1 DEF StaffReplies
<1>8. \A i \in DOMAIN timeline' : \/ i \in DOMAIN timeline /\ timeline'[i] = timeline[i]
                                  \/ \E j \in DOMAIN r.after : timeline'[i] = r.after[j]
  <2> HIDE DEF r
  <2> QED BY <1>1, <1>2, <1>3, Joined
<1>9. (\E i \in DOMAIN timeline' : IsAnswer(timeline'[i])) => ticket.first # Null
  BY <1>1, <1>2, <1>8 DEF Stamped, Answered
<1>10. Answered(n, ticket', StaffReplies')
  BY <1>1, <1>2, <1>4, <1>5, <1>7 DEF Answered, Answers
<1> QED BY <1>1, <1>2, <1>6, <1>7, <1>9, <1>10, StampedStep DEF Stamped

(* What ends leaves the dates. *)
LEMMA EndStamped ==
    ASSUME IInv, Stamped, NEW h \in Handlers, TellStatus(h) \/ Die(h)
    PROVE  Stamped'
<1>1. /\ req[h] # Null /\ req' = [req EXCEPT ![h] = Null]
      /\ UNCHANGED <<ticket, timeline, messages>>
  BY DEF TellStatus, Die
<1>2. ticket # Null /\ StaffReplies' = StaffReplies
  BY <1>1, InFlight DEF StaffReplies
<1> QED BY <1>1, <1>2, StampedStep DEF Stamped

(* A new reply has a number above all. *)
LEMMA AcceptDating ==
    ASSUME IInv, Stamped, Dating, NEW h \in Handlers, NEW r, Accept(h, r), Offer(r),
           \/ ticket # Null /\ ticket' = ticket
           \/ ticket = Null /\ ticket' = NewTicket /\ r.creates
    PROVE  Dating'
<1> SUFFICES ASSUME upset' = {}
             PROVE  /\ \A i \in DOMAIN messages' : messages'[i].number <= next'
                    /\ \A g \in Handlers : req'[g] # Null =>
                          req'[g].message.number <= next' /\ Prompt(req'[g], ticket')
                    /\ ticket' # Null /\ ticket'.first = Null =>
                          \A n \in StaffReplies' : \E g \in Handlers :
                              /\ req'[g] # Null /\ req'[g].pc = "update"
                              /\ req'[g].patch.first = n
                    /\ ticket' # Null /\ ticket'.first # Null =>
                          \A n \in StaffReplies' : ticket'.first <= n
  BY DEF Dating
<1>1. /\ req' = [req EXCEPT ![h] = r] /\ req[h] = Null /\ UNCHANGED messages
      /\ next' = next + 1 /\ upset = {}
  BY DEF Accept
<1>2. /\ next \in Nat /\ StaffReplies' = StaffReplies
      /\ \A g \in Handlers : req'[g] = IF g = h THEN r ELSE req[g]
  BY <1>1 DEF IInv, Stored, Flight, StaffReplies
<1>3. \A i \in DOMAIN messages' : messages'[i].number <= next'
  BY <1>1, <1>2, RepliesNumbered DEF Dating
<1>4. \A n \in StaffReplies : n <= next
  BY <1>1, RepliesNumbered DEF Dating
<1>5. ASSUME NEW g \in Handlers, g # h, req[g] # Null
      PROVE  req[g].message.number <= next' /\ Prompt(req[g], ticket')
  <2>1. req[g] \in Request /\ ticket' = ticket
    BY <1>5, InFlight
  <2>2. req[g].message.number \in Nat
    BY <2>1 DEF Request, Message
  <2> QED BY <1>1, <1>2, <1>5, <2>1, <2>2 DEF Dating
<1>6. r.message.number <= next' /\ Prompt(r, ticket')
  <2>1. r.message.number = next + 1
    BY DEF Offer
  <2>2. CASE ~Answers(r)
    BY <1>1, <1>2, <2>1, <2>2 DEF Prompt
  <2>3. CASE Answers(r)
    <3>1. ticket # Null /\ ticket' = ticket
      BY <2>3, NoPatchShape DEF Offer, StatusWork
    <3>2. ticket.first # Null => ticket.first <= next + 1
      <4>1. ticket.first # Null => ticket.first \in StaffReplies
        BY <3>1 DEF Stamped
      <4> QED BY <1>2, <1>4, <4>1, RepliesNumbered
    <3> QED BY <1>1, <1>2, <2>1, <2>3, <3>1, <3>2 DEF Prompt, Offer
  <2> QED BY <2>2, <2>3
<1>7. \A g \in Handlers : req'[g] # Null =>
          req'[g].message.number <= next' /\ Prompt(req'[g], ticket')
  BY <1>2, <1>5, <1>6
<1>8. CASE ticket # Null /\ ticket' = ticket
  <2>1. ASSUME ticket.first = Null, NEW n \in StaffReplies
        PROVE  \E g \in Handlers : /\ req'[g] # Null /\ req'[g].pc = "update"
                                   /\ req'[g].patch.first = n
    <3>1. PICK g \in Handlers : /\ req[g] # Null /\ req[g].pc = "update"
                                /\ req[g].patch.first = n
      BY <1>1, <1>8, <2>1 DEF Dating
    <3>2. g # h
      BY <1>1, <3>1
    <3> QED BY <1>2, <3>1, <3>2
  <2> QED BY <1>1, <1>2, <1>3, <1>7, <1>8, <2>1 DEF Dating
<1>9. CASE ticket = Null /\ ticket' = NewTicket
  <2>1. StaffReplies' = {}
    BY <1>2, <1>9, RepliesNumbered DEF Stamped
  <2> QED BY <1>3, <1>7, <2>1
<1> QED BY <1>8, <1>9

(* A request that stores a reply. *)
LEMMA AddMessageDating ==
    ASSUME IInv, Stamped, Dating, NEW h \in Handlers, AddMessage(h)
    PROVE  Dating'
<1> DEFINE r == req[h]
           pc == IF r.patch = NoPatch THEN "after" ELSE "update"
           n == [r EXCEPT !.pc = pc]
<1> SUFFICES ASSUME upset' = {}
             PROVE  /\ \A i \in DOMAIN messages' : messages'[i].number <= next'
                    /\ \A g \in Handlers : req'[g] # Null =>
                          req'[g].message.number <= next' /\ Prompt(req'[g], ticket')
                    /\ ticket' # Null /\ ticket'.first = Null =>
                          \A k \in StaffReplies' : \E g \in Handlers :
                              /\ req'[g] # Null /\ req'[g].pc = "update"
                              /\ req'[g].patch.first = k
                    /\ ticket' # Null /\ ticket'.first # Null =>
                          \A k \in StaffReplies' : ticket'.first <= k
  BY DEF Dating
<1>1. /\ r # Null /\ r.pc = "message" /\ req' = [req EXCEPT ![h] = n]
      /\ messages' = Append(messages, r.message)
      /\ ticket' = ticket /\ next' = next /\ upset = {}
  BY DEF AddMessage
<1>2. r \in Request /\ ticket # Null /\ Answered(r, ticket, StaffReplies)
  BY <1>1, InFlight DEF Stamped
<1>3. pc \in {"after", "update"} /\ (pc = "after" => r.patch = NoPatch)
  OBVIOUS
<1> HIDE DEF pc
<1>4. n.pc = pc /\ n.patch = r.patch /\ n.message = r.message /\ n \in Request
  BY <1>2, <1>3 DEF Request
<1>5. n # Null
  BY <1>4, NullAssumption
<1> HIDE DEF n
<1>6. \A g \in Handlers : req'[g] = IF g = h THEN n ELSE req[g]
  BY <1>1 DEF IInv, Flight
<1>7. r.message \in Message /\ messages \in Seq(Message)
  BY <1>2 DEF Request, IInv, Stored
<1>8. r.message.number <= next /\ Prompt(r, ticket)
  BY <1>1 DEF Dating
<1>9. Prompt(n, ticket)
  BY <1>1, <1>3, <1>4, <1>8 DEF Prompt, Answers
<1>10. \A g \in Handlers : req'[g] # Null =>
           req'[g].message.number <= next' /\ Prompt(req'[g], ticket')
  BY <1>1, <1>4, <1>6, <1>8, <1>9 DEF Dating
<1> DEFINE m == r.message
<1>11. m.by = "admin" /\ m.kind = "reply" <=> Answers(r)
  BY DEF Answers
<1>12. \A k \in StaffReplies' : k \notin StaffReplies => k = m.number /\ Answers(r)
  <2> HIDE DEF r
  <2> QED BY <1>1, <1>7, <1>11, RepliesGrow
<1>13. \A i \in DOMAIN messages' : messages'[i].number <= next'
  <2>1. \A i \in DOMAIN messages' : \/ i \in DOMAIN messages /\ messages'[i] = messages[i]
                                    \/ messages'[i] = m
    <3> HIDE DEF r
    <3> QED BY <1>1, <1>7
  <2> QED BY <1>1, <1>8, <2>1 DEF Dating
<1>14. ASSUME ticket.first = Null, NEW k \in StaffReplies'
       PROVE  \E g \in Handlers : /\ req'[g] # Null /\ req'[g].pc = "update"
                                  /\ req'[g].patch.first = k
  <2>1. CASE k \in StaffReplies
    <3>1. PICK g \in Handlers : /\ req[g] # Null /\ req[g].pc = "update"
                                /\ req[g].patch.first = k
      BY <1>1, <1>2, <1>14, <2>1 DEF Dating
    <3>2. g # h
      BY <1>1, <3>1
    <3> QED BY <1>6, <3>1, <3>2
  <2>2. CASE k \notin StaffReplies
    <3>1. k = m.number /\ Answers(r)
      BY <1>12, <2>2
    <3>2. r.patch.first = k
      BY <1>1, <1>2, <1>8, <1>14, <3>1 DEF Prompt, Answered
    <3>3. pc = "update"
      BY <1>2, <1>3, <3>1, NoPatchShape DEF Answered
    <3> QED BY <1>4, <1>5, <1>6, <3>2, <3>3
  <2> QED BY <2>1, <2>2
<1>15. ASSUME ticket.first # Null, NEW k \in StaffReplies'
       PROVE  ticket.first <= k
  <2>1. CASE k \in StaffReplies
    BY <1>1, <1>2, <1>15, <2>1 DEF Dating
  <2>2. CASE k \notin StaffReplies
    BY <1>1, <1>8, <1>12, <1>15, <2>2 DEF Prompt
  <2> QED BY <2>1, <2>2
<1> QED BY <1>1, <1>10, <1>13, <1>14, <1>15

(* A request that dates the ticket is the only one with an answer. *)
LEMMA UpdateDating ==
    ASSUME IInv, Voiced, Stamped, Dating, NEW h \in Handlers, UpdateTicket(h)
    PROVE  Dating'
<1> DEFINE r == req[h]
           pc == IF r.after = <<>> THEN "tell" ELSE "after"
           n == [r EXCEPT !.pc = pc]
           m == IF r.after = <<>> /\ r.tell = Null THEN Null ELSE n
<1> SUFFICES ASSUME upset' = {}
             PROVE  /\ \A i \in DOMAIN messages' : messages'[i].number <= next'
                    /\ \A g \in Handlers : req'[g] # Null =>
                          req'[g].message.number <= next' /\ Prompt(req'[g], ticket')
                    /\ ticket' # Null /\ ticket'.first = Null =>
                          \A k \in StaffReplies' : \E g \in Handlers :
                              /\ req'[g] # Null /\ req'[g].pc = "update"
                              /\ req'[g].patch.first = k
                    /\ ticket' # Null /\ ticket'.first # Null =>
                          \A k \in StaffReplies' : ticket'.first <= k
  BY DEF Dating
<1>1. /\ r # Null /\ r.pc = "update" /\ ticket' = Updated(ticket, r.patch)
      /\ req' = [req EXCEPT ![h] = m]
      /\ messages' = messages /\ next' = next /\ upset = {}
  BY DEF UpdateTicket
<1>2. r \in Request /\ ticket # Null /\ Answered(r, ticket, StaffReplies)
      /\ Prompt(r, ticket) /\ r.message.number <= next
  BY <1>1, InFlight DEF Stamped, Dating
<1>3. pc \in {"tell", "after"}
  OBVIOUS
<1> HIDE DEF pc
<1>4. n.pc = pc /\ n.patch = r.patch /\ n.message = r.message
  BY <1>2, <1>3 DEF Request
<1>5. ticket'.first = IF r.patch.first = Null THEN ticket.first ELSE r.patch.first
  BY <1>1 DEF Updated, Or
<1>6. m = Null \/ m = n
  OBVIOUS
<1> HIDE DEF n, m
<1>7. \A g \in Handlers : req'[g] = IF g = h THEN m ELSE req[g]
  BY <1>1 DEF IInv, Flight
<1>8. StaffReplies' = StaffReplies
  BY <1>1 DEF StaffReplies
<1>9. n.message.number <= next' /\ Prompt(n, ticket')
  BY <1>1, <1>2, <1>3, <1>4 DEF Prompt
<1>10. \A k \in StaffReplies : k # Null
  BY RepliesNumbered, NullAssumption
<1>11. CASE r.patch.first = Null
  <2>1. ticket'.first = ticket.first
    BY <1>5, <1>11
  <2>2. \A g \in Handlers : req'[g] # Null =>
          req'[g].message.number <= next' /\ Prompt(req'[g], ticket')
    BY <1>1, <1>6, <1>7, <1>9, <2>1 DEF Dating, Prompt
  <2>3. ASSUME ticket.first = Null, NEW k \in StaffReplies
        PROVE  \E g \in Handlers : /\ req'[g] # Null /\ req'[g].pc = "update"
                                   /\ req'[g].patch.first = k
    <3>1. PICK g \in Handlers : /\ req[g] # Null /\ req[g].pc = "update"
                                /\ req[g].patch.first = k
      BY <1>1, <1>2, <2>3 DEF Dating
    <3>2. g # h
      BY <1>10, <1>11, <3>1
    <3> QED BY <1>7, <3>1, <3>2
  <2> QED BY <1>1, <1>2, <1>8, <2>1, <2>2, <2>3 DEF Dating
<1>12. CASE r.patch.first # Null
  <2>1. /\ Answers(r) /\ ticket.first = Null /\ ticket'.first = r.patch.first
        /\ Works(h) /\ r.patch.first \in StaffReplies
    BY <1>1, <1>2, <1>5, <1>12 DEF Answered, Prompt, Works, StatusWork
  <2>2. ASSUME NEW g \in Handlers, req[g] # Null, Answers(req[g]) PROVE g = h
    <3>1. Works(g)
      BY <2>2 DEF Stamped, Answered, Works, StatusWork
    <3> QED BY <1>1, <2>1, <3>1 DEF Voiced
  <2>3. \A g \in Handlers : req'[g] # Null =>
          req'[g].message.number <= next' /\ Prompt(req'[g], ticket')
    BY <1>1, <1>6, <1>7, <1>9, <2>2 DEF Dating, Prompt
  <2>4. ASSUME NEW k \in StaffReplies PROVE k = r.patch.first
    <3>1. PICK g \in Handlers : req[g] # Null /\ req[g].patch.first = k
      BY <1>1, <1>2, <2>1, <2>4 DEF Dating
    <3>2. Answers(req[g])
      BY <1>10, <2>4, <3>1 DEF Stamped, Answered
    <3> QED BY <2>2, <3>1, <3>2
  <2>5. \A k \in StaffReplies : r.patch.first <= k
    BY <2>1, <2>4, RepliesNumbered
  <2> QED BY <1>1, <1>8, <1>12, <2>1, <2>3, <2>5 DEF Dating
<1> QED BY <1>11, <1>12

(* The other steps of a request store no message and date nothing. *)
LEMMA QuietDating ==
    ASSUME IInv, Dating, NEW h \in Handlers,
           RecordBefore(h) \/ RecordAfter(h) \/ TellStatus(h) \/ Die(h)
    PROVE  Dating'
<1> DEFINE r == req[h]
<1>1. CASE upset' # {}
  BY <1>1 DEF Dating
<1>2. CASE upset' = {}
  <2>1. /\ r # Null /\ r.pc # "update" /\ UNCHANGED <<ticket, messages, next, upset>>
    BY <1>2 DEF RecordBefore, RecordAfter, TellStatus, Die
  <2>2. r \in Request
    BY <2>1, InFlight
  <2>3. \E n : /\ req' = [req EXCEPT ![h] = n]
               /\ n # Null => /\ n.message = r.message /\ n.patch = r.patch
                              /\ n.pc \in {"tell", r.pc} \/ r.pc = "before"
                              /\ n.pc # "message"
    <3>1. CASE RecordBefore(h)
      <4> DEFINE pc == IF Tail(r.before) = <<>> THEN "update" ELSE "before"
                 rest == Tail(r.before)
                 n == [r EXCEPT !.before = rest, !.pc = pc]
      <4>1. r.pc = "before" /\ req' = [req EXCEPT ![h] = n]
        <5>1. \/ upset' = upset \cup {"refused"}
              \/ req' = [req EXCEPT ![h].before = Tail(@),
                     ![h].pc = IF Tail(r.before) = <<>> THEN "update" ELSE @]
          BY <3>1 DEF RecordBefore
        <5>2. r.pc = "before"
          BY <3>1 DEF RecordBefore
        <5> QED BY <1>2, <5>1, <5>2 DEF IInv, Flight
      <4>2. pc \in {"update", "before"}
        OBVIOUS
      <4> HIDE DEF pc, rest
      <4>3. n.message = r.message /\ n.patch = r.patch /\ n.pc = pc
        BY <2>2 DEF Request
      <4> HIDE DEF n
      <4> QED BY <4>1, <4>2, <4>3
    <3>2. CASE RecordAfter(h)
      <4> DEFINE none == <<>>
                 n == [r EXCEPT !.pc = "tell", !.after = none]
                 m == IF r.tell = Null THEN Null ELSE n
      <4>1. req' = [req EXCEPT ![h] = m]
        BY <3>2 DEF RecordAfter
      <4> HIDE DEF none
      <4>2. n.message = r.message /\ n.patch = r.patch /\ n.pc = "tell"
        BY <2>2 DEF Request
      <4>3. m = Null \/ m = n
        OBVIOUS
      <4> HIDE DEF n, m
      <4> QED BY <4>1, <4>2, <4>3
    <3>3. CASE TellStatus(h) \/ Die(h)
      BY <3>3 DEF TellStatus, Die
    <3> QED BY <3>1, <3>2, <3>3
  <2>4. PICK n : /\ req' = [req EXCEPT ![h] = n]
                 /\ n # Null => /\ n.message = r.message /\ n.patch = r.patch
                                /\ n.pc \in {"tell", r.pc} \/ r.pc = "before"
                                /\ n.pc # "message"
    BY <2>3
  <2>5. \A g \in Handlers : req'[g] = IF g = h THEN n ELSE req[g]
    BY <2>4 DEF IInv, Flight
  <2>6. r.message.number <= next /\ Prompt(r, ticket)
    BY <1>2, <2>1 DEF Dating
  <2>7. n # Null => n.message.number <= next /\ Prompt(n, ticket)
    BY <2>1, <2>4, <2>6 DEF Prompt, Answers
  <2>8. \A g \in Handlers : req'[g] # Null =>
          req'[g].message.number <= next' /\ Prompt(req'[g], ticket')
    BY <1>2, <2>1, <2>5, <2>7 DEF Dating
  <2>9. StaffReplies' = StaffReplies
    BY <2>1 DEF StaffReplies
  <2>10. \A g \in Handlers : req[g] # Null /\ req[g].pc = "update" =>
            req'[g] = req[g]
    BY <2>1, <2>5
  <2> QED BY <1>2, <2>1, <2>8, <2>9, <2>10 DEF Dating
<1> QED BY <1>1, <1>2

(* Every step. *)
LEMMA NextDating ==
    IInv /\ Voiced /\ Stamped /\ Dating /\ [Next]_vars => Stamped' /\ Dating'
<1> SUFFICES ASSUME IInv, Voiced, Stamped, Dating, [Next]_vars
             PROVE  Stamped' /\ Dating'
  OBVIOUS
<1>1. CASE UNCHANGED vars
  <2>1. StaffReplies' = StaffReplies
    BY <1>1 DEF vars, StaffReplies
  <2> QED BY <1>1, <2>1 DEF vars, Stamped, Dating
<1>2. ASSUME NEW h \in Handlers, CreateTicket(h) PROVE Stamped' /\ Dating'
  BY <1>2, CreateOffered, AcceptStamped, AcceptDating DEF CreateTicket
<1>3. ASSUME NEW h \in Handlers,
             \/ Reply(h) \/ CloseTicket(h) \/ ReopenTicket(h)
             \/ AdminUpdate(h) \/ Annotate(h)
      PROVE  Stamped' /\ Dating'
  <2>1. Offered(h)
    BY <1>3, ReplyOffered, CloseOffered, ReopenOffered, AdminOffered, AnnotateOffered
  <2>2. ticket # Null /\ ticket' = ticket
    BY <1>3 DEF Reply, CloseTicket, ReopenTicket, AdminUpdate, Annotate
  <2> QED BY <2>1, <2>2, AcceptStamped, AcceptDating DEF Offered
<1>4. ASSUME NEW h \in Handlers,
             \/ AddMessage(h) \/ RecordBefore(h) \/ UpdateTicket(h)
             \/ RecordAfter(h) \/ TellStatus(h) \/ Die(h)
      PROVE  Stamped' /\ Dating'
  BY <1>4, AddMessageStamped, RecordBeforeStamped, UpdateStamped,
     RecordAfterStamped, EndStamped, AddMessageDating, UpdateDating, QuietDating
<1> QED BY <1>1, <1>2, <1>3, <1>4 DEF Next

(* A ticket whose answer is on the timeline is dated, with an answer that   *)
(* was stored, through any interleaving and any death; and with the first,  *)
(* as long as changes of the status do not overlap and run to their end     *)
(* (reply(), firstResponseAt).                                              *)
THEOREM FirstDated == Spec => []FirstResponseKept
<1>1. Init => Stamped /\ Dating
  <2>1. Init => DOMAIN messages = {} /\ DOMAIN timeline = {}
    BY DEF Init
  <2> QED BY <2>1 DEF Init, Stamped, Dating
<1>2. Stamped /\ Dating => FirstResponseKept
  BY DEF Stamped, Dating, FirstResponseKept, IsAnswer
<1> QED BY <1>1, <1>2, InitIInv, NextIInv, InitVoiced, NextVoiced, NextDating, PTL
    DEF Spec
=============================================================================
