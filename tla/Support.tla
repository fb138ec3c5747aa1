------------------------------- MODULE Support -------------------------------
(***************************************************************************)
(* A ticket of the support centre: support.service.ts, the suggestions of  *)
(* support-ai.service.ts and the store.  The owner and the staff reply,    *)
(* close, reopen and manage the same ticket; each request reads it, then   *)
(* writes the message, the columns it changes, the timeline and the        *)
(* notification one after the other, with no transaction over them.        *)
(*                                                                         *)
(* The category of a ticket is left out: it is changed as the priority is. *)
(* So are the notifications that do not tell a status, and the owner who   *)
(* is a member of the staff.                                               *)
(***************************************************************************)
EXTENDS Integers, Sequences, FiniteSets

CONSTANTS
    Handlers,      \* requests that may be in flight together
    Staff,         \* who holds support:read_all
    Outsider,      \* somebody who does not
    Can,           \* Can[s]: the other permissions of s
    Patches,       \* bound: what the console may send
    MaxRequests,   \* bound: requests in a behaviour
    MaxUpset,      \* bound: nothing starts once more than this has gone wrong
    Nobody,        \* model value: no assignee
    Null           \* model value

Status == {"open", "in_progress", "waiting_customer", "waiting_admin",
           "resolved", "closed"}

Priority == {"medium", "critical"}

Permission == {"reply", "manage", "assign", "note"}

Side == {"customer", "admin", "ai"}

Assignee == Staff \cup {Nobody}

(* "first" is the number of the reply that stamped firstResponseAt;         *)
(* "resolved" and "closed" say whether the two dates are set.               *)
Ticket == [status : Status, priority : Priority, assignee : Assignee,
           first : Nat \cup {Null}, resolved : BOOLEAN, closed : BOOLEAN]

(* The columns updateTicket() is given; Null leaves one as it is.           *)
Patch == [status : Status \cup {Null}, priority : Priority \cup {Null},
          assignee : Assignee \cup {Outsider, Null}, first : Nat \cup {Null},
          resolved : BOOLEAN \cup {Null}, closed : BOOLEAN \cup {Null}]

NoPatch == [status |-> Null, priority |-> Null, assignee |-> Null,
            first |-> Null, resolved |-> Null, closed |-> Null]

ASSUME ConstantsAssumption ==
    /\ Can \in [Staff -> SUBSET Permission]
    /\ Patches \subseteq Patch
    /\ \A p \in Patches : p.first = Null /\ p.resolved = Null /\ p.closed = Null
    /\ MaxRequests \in Nat
    /\ MaxUpset \in Nat

EventType == {"ticket_created", "reply_added", "status_changed",
              "priority_changed", "assigned", "unassigned", "resolved",
              "closed", "reopened", "note_added", "attachment_added",
              "ai_suggestion"}

Event == [type : EventType, by : Side, to : Status \cup {Null}]

Message == [number : Nat, by : Side,
            kind : {"description", "reply", "note", "attachment", "suggestion"}]

(* A request in flight, with what it decided from the ticket it read: the   *)
(* message to add, the entries to record before and after its update, and   *)
(* the status to notify.                                                    *)
Request == [pc      : {"message", "before", "update", "after", "tell"},
            creates : BOOLEAN,
            message : Message,
            patch   : Patch,
            before  : Seq(Event),
            after   : Seq(Event),
            tell    : Status \cup {Null}]

ASSUME NullAssumption ==
    /\ Null \notin Nat \cup Status \cup Priority \cup BOOLEAN
    /\ Null \notin Assignee \cup {Outsider}
    /\ Null \notin Ticket
    /\ Null \notin Request
    /\ Nobody \notin Staff
    /\ Outsider \notin Assignee

VARIABLES
    ticket,     \* the row, or Null
    messages,   \* its messages, notes, attachments and suggestions
    timeline,   \* its events
    told,       \* the last status its owner was notified of, or Null
    req,        \* req[h]: Null, or the request in h
    next,       \* the last number given to a request
    upset       \* history: what has gone wrong

vars == <<ticket, messages, timeline, told, req, next, upset>>

(* Two requests that change the status in flight together ("overlapped"); a *)
(* change given up after some of its events were recorded ("refused"); a    *)
(* request that died.                                                       *)
Upset == {"overlapped", "refused", "died"}

Init ==
    /\ ticket = Null
    /\ messages = <<>>
    /\ timeline = <<>>
    /\ told = Null
    /\ req = [h \in Handlers |-> Null]
    /\ next = 0
    /\ upset = {}

StatusWork(r) == r.creates \/ r.patch.status # Null

Accept(h, r) ==
    /\ Cardinality(upset) <= MaxUpset
    /\ next < MaxRequests
    /\ req[h] = Null
    /\ next' = next + 1
    /\ req' = [req EXCEPT ![h] = r]
    /\ upset' = upset \cup
         (IF StatusWork(r) /\ \E g \in Handlers :
                req[g] # Null /\ StatusWork(req[g])
          THEN {"overlapped"} ELSE {})
    /\ UNCHANGED <<messages, timeline, told>>

Entry(type, by, to) == [type |-> type, by |-> by, to |-> to]

(* Nothing but a message and an entry.                                      *)
Plain(by, kind, type) ==
    [pc |-> "message", creates |-> FALSE,
     message |-> [number |-> next + 1, by |-> by, kind |-> kind],
     patch |-> NoPatch, before |-> <<>>, after |-> <<Entry(type, by, Null)>>,
     tell |-> Null]

-----------------------------------------------------------------------------
(* The owner and the staff                                                  *)

NewTicket == [status |-> "open", priority |-> "medium", assignee |-> Nobody,
              first |-> Null, resolved |-> FALSE, closed |-> FALSE]

(* createTicket(): the row, then its description as the first message.      *)
CreateTicket(h) ==
    /\ ticket = Null
    /\ ticket' = NewTicket
    /\ Accept(h, [Plain("customer", "description", "ticket_created")
                    EXCEPT !.creates = TRUE])

(* mutant: a reply leaves the ticket waiting for its author                 *)
ReplyStatusOfAuthor(by) ==
    IF by = "admin" THEN "waiting_admin" ELSE "waiting_customer"

ReplyStatus(by) == IF by = "admin" THEN "waiting_customer" ELSE "waiting_admin"

(* mutant: every reply of the staff is the first                            *)
AlwaysFirst(by, number) == IF by = "admin" THEN number ELSE Null

FirstResponse(by, number) ==
    IF by = "admin" /\ ticket.first = Null THEN number ELSE Null

(* Staff acting on a ticket they do not own need a permission for it; its   *)
(* owner does not.                                                          *)
Allowed(by, permission) ==
    by = "admin" => \E s \in Staff : permission \in Can[s]

Reply(h) ==
    /\ ticket # Null
    /\ ticket.status # "closed"
    /\ \E by \in {"customer", "admin"} :
        /\ Allowed(by, "reply")
        /\ Accept(h, [Plain(by, "reply", "reply_added") EXCEPT
                    !.patch.status = ReplyStatus(by),
                    !.patch.first = FirstResponse(by, next + 1)])
    /\ UNCHANGED ticket

(* mutant: the event is named after the status                              *)
StatusNamed(to) == to

StatusEvent(to) == IF to \in {"resolved", "closed"} THEN to ELSE "status_changed"

(* closeTicket(): of a closed ticket, nothing.                              *)
CloseTicket(h) ==
    /\ ticket # Null
    /\ ticket.status # "closed"
    /\ \E by \in {"customer", "admin"} :
        /\ Allowed(by, "manage")
        /\ Accept(h, [Plain(by, "note", StatusEvent("closed")) EXCEPT
                    !.pc = "update",
                    !.patch.status = "closed", !.patch.closed = TRUE,
                    !.after[1].to = "closed", !.tell = "closed"])
    /\ UNCHANGED ticket

(* mutant: a ticket opened again keeps the date it was closed at            *)
ReopenedStillClosed(p) == [p EXCEPT !.status = "open", !.resolved = FALSE]

Reopened(p) == [p EXCEPT !.status = "open", !.resolved = FALSE, !.closed = FALSE]

ReopenTicket(h) ==
    /\ ticket # Null
    /\ ticket.status \in {"closed", "resolved"}
    /\ \E by \in {"customer", "admin"} :
        /\ Allowed(by, "manage")
        /\ Accept(h, [Plain(by, "note", "reopened") EXCEPT
                    !.pc = "update", !.patch = Reopened(NoPatch)])
    /\ UNCHANGED ticket

-----------------------------------------------------------------------------
(* The console                                                              *)

Differs(new, old) == new # Null /\ new # old

(* adminUpdateTicket() sets the dates that go with a status.                *)
WithDates(p) ==
    CASE p.status = "resolved" -> [p EXCEPT !.resolved = TRUE]
      [] p.status = "closed"   -> [p EXCEPT !.closed = TRUE]
      [] p.status = "open"     -> Reopened(p)
      [] OTHER                 -> p

Changed(p) ==
    WithDates(
    [p EXCEPT !.status   = IF Differs(@, ticket.status) THEN @ ELSE Null,
              !.priority = IF Differs(@, ticket.priority) THEN @ ELSE Null,
              !.assignee = IF Differs(@, ticket.assignee) THEN @ ELSE Null])

(* mutant: the entry carries the status the ticket is leaving               *)
StatusEntryFrom(p) ==
    IF p.status = Null THEN <<>>
    ELSE <<Entry(StatusEvent(p.status), "admin", ticket.status)>>

StatusEntry(p) ==
    IF p.status = Null THEN <<>>
    ELSE <<Entry(StatusEvent(p.status), "admin", p.status)>>

(* Each change is an event, recorded before anything is changed.            *)
ChangeEntries(p) ==
    StatusEntry(p)
    \o (IF p.priority = Null THEN <<>>
        ELSE <<Entry("priority_changed", "admin", Null)>>)
    \o (IF p.assignee = Null THEN <<>>
        ELSE IF p.assignee = Nobody THEN <<Entry("unassigned", "admin", Null)>>
        ELSE <<Entry("assigned", "admin", Null)>>)

Permitted(s, p) ==
    /\ p.status # Null \/ p.priority # Null => "manage" \in Can[s]
    /\ p.assignee # Null => "assign" \in Can[s]

(* mutant: the owner is told of nothing but a closed ticket                 *)
OnlyClosed(p) == IF p.status = "closed" THEN p.status ELSE Null

StatusToTell(p) == p.status

AdminUpdate(h) ==
    /\ ticket # Null
    /\ \E p \in Patches : LET change == Changed(p) IN
        /\ change # NoPatch
        /\ \E s \in Staff : Permitted(s, change)
        /\ Accept(h, [Plain("admin", "note", "note_added") EXCEPT
                        !.pc = "before", !.patch = change,
                        !.before = ChangeEntries(change), !.after = <<>>,
                        !.tell = StatusToTell(change)])
    /\ UNCHANGED ticket

(* A note, an attachment, and the suggestion of the assistant, which both   *)
(* sides may ask for.                                                       *)
Annotate(h) ==
    /\ ticket # Null
    /\ \/ /\ Allowed("admin", "note")
          /\ Accept(h, Plain("admin", "note", "note_added"))
       \/ \E by \in {"customer", "admin"} :
              Accept(h, Plain(by, "attachment", "attachment_added"))
       \/ Accept(h, Plain("ai", "suggestion", "ai_suggestion"))
    /\ UNCHANGED ticket

-----------------------------------------------------------------------------
(* The writes of a request                                                  *)

AddMessage(h) ==
    LET r == req[h] IN
    /\ r # Null /\ r.pc = "message"
    /\ messages' = Append(messages, r.message)
    /\ req' = [req EXCEPT ![h].pc = IF r.patch = NoPatch THEN "after" ELSE "update"]
    /\ UNCHANGED <<ticket, timeline, told, next, upset>>

(* assertAssignable(), between the events and the update                    *)
Refused(r) == Head(r.before).type = "assigned" /\ r.patch.assignee \notin Staff

RecordBefore(h) ==
    LET r == req[h] IN
    /\ r # Null /\ r.pc = "before"
    /\ IF Refused(r)
       THEN /\ req' = [req EXCEPT ![h] = Null]
            /\ upset' = upset \cup {"refused"}
            /\ UNCHANGED timeline
       ELSE /\ timeline' = Append(timeline, Head(r.before))
            /\ req' = [req EXCEPT ![h].before = Tail(@),
                            ![h].pc = IF Tail(r.before) = <<>> THEN "update" ELSE @]
            /\ UNCHANGED upset
    /\ UNCHANGED <<ticket, messages, told, next>>

Or(new, old) == IF new = Null THEN old ELSE new

(* updateTicket(): the columns of the patch and no other.                   *)
Updated(t, p) ==
    [status   |-> Or(p.status, t.status),
     priority |-> Or(p.priority, t.priority),
     assignee |-> Or(p.assignee, t.assignee),
     first    |-> Or(p.first, t.first),
     resolved |-> Or(p.resolved, t.resolved),
     closed   |-> Or(p.closed, t.closed)]

UpdateTicket(h) ==
    LET r == req[h] IN
    /\ r # Null /\ r.pc = "update"
    /\ ticket' = Updated(ticket, r.patch)
    /\ req' = [req EXCEPT ![h] =
                IF r.after = <<>> /\ r.tell = Null THEN Null
                ELSE [r EXCEPT !.pc = IF r.after = <<>> THEN "tell" ELSE "after"]]
    /\ UNCHANGED <<messages, timeline, told, next, upset>>

RecordAfter(h) ==
    LET r == req[h] IN
    /\ r # Null /\ r.pc = "after"
    /\ timeline' = timeline \o r.after
    /\ req' = [req EXCEPT ![h] = IF r.tell = Null THEN Null
                                 ELSE [r EXCEPT !.pc = "tell", !.after = <<>>]]
    /\ UNCHANGED <<ticket, messages, told, next, upset>>

TellStatus(h) ==
    LET r == req[h] IN
    /\ r # Null /\ r.pc = "tell"
    /\ told' = r.tell
    /\ req' = [req EXCEPT ![h] = Null]
    /\ UNCHANGED <<ticket, messages, timeline, next, upset>>

Die(h) ==
    /\ req[h] # Null
    /\ req' = [req EXCEPT ![h] = Null]
    /\ upset' = upset \cup {"died"}
    /\ UNCHANGED <<ticket, messages, timeline, told, next>>

-----------------------------------------------------------------------------
Next ==
    \E h \in Handlers :
        \/ CreateTicket(h) \/ Reply(h) \/ CloseTicket(h) \/ ReopenTicket(h)
        \/ AdminUpdate(h) \/ Annotate(h) \/ AddMessage(h) \/ RecordBefore(h)
        \/ UpdateTicket(h) \/ RecordAfter(h) \/ TellStatus(h) \/ Die(h)

Spec == Init /\ [][Next]_vars

-----------------------------------------------------------------------------
(* Properties                                                               *)

(* The status a timeline entry stands for, as its reader understands it.    *)
Shown(e) ==
    CASE e.type \in {"ticket_created", "reopened"} -> "open"
      [] e.type = "reply_added" /\ e.by = "admin" -> "waiting_customer"
      [] e.type = "reply_added" /\ e.by # "admin" -> "waiting_admin"
      [] OTHER -> e.to

ShowsStatus(e) == Shown(e) # Null

StatusEntries == {i \in DOMAIN timeline : ShowsStatus(timeline[i])}

LastStatusEntry ==
    timeline[CHOOSE i \in StatusEntries : \A j \in StatusEntries : j <= i]

Settled == \A h \in Handlers : req[h] # Null => ~StatusWork(req[h])

(* No ticket has a status its timeline does not show, in whatever order     *)
(* requests that overlap record and update: the request that set it either  *)
(* recorded it before, or is about to, unless it died.                      *)
StatusIsOnTimeline ==
    ticket # Null /\ "died" \notin upset =>
        \/ \E i \in DOMAIN timeline : Shown(timeline[i]) = ticket.status
        \/ \E h \in Handlers : req[h] # Null
              /\ \E i \in DOMAIN req[h].after :
                    Shown(req[h].after[i]) = ticket.status

(* The timeline ends with the truth: with no change of status in flight,    *)
(* and none that overlapped another, died or was refused half way, its last *)
(* entry about the status shows the status the ticket has.                  *)
TimelineTells ==
    ticket # Null /\ Settled /\ upset = {} =>
        Shown(LastStatusEntry) = ticket.status

(* The owner hears of what was done to the ticket: when the last change is  *)
(* one of the console, or a close, the last status notified is that one     *)
(* (statusChanged, support-notifications.service.ts).                       *)
OwnerIsTold ==
    /\ ticket # Null /\ Settled /\ upset = {}
    /\ LastStatusEntry.type \in {"status_changed", "resolved", "closed"}
    => told = ticket.status

(* The dates the resolution metrics are computed from agree with the status *)
(* through any interleaving: a closed or resolved ticket is dated, and one  *)
(* opened again is not (adminAggregate, prisma-support.repository.ts).      *)
DatesAgree ==
    ticket # Null =>
        /\ ticket.status = "closed" => ticket.closed
        /\ ticket.status = "resolved" => ticket.resolved
        /\ ticket.status = "open" => ~ticket.closed /\ ~ticket.resolved

StaffReplies == {messages[i].number : i \in
    {j \in DOMAIN messages : messages[j].by = "admin" /\ messages[j].kind = "reply"}}

(* A ticket the staff have answered carries the date of an answer that was  *)
(* made, the first one unless two overlapped or one died before its update  *)
(* (the metric of reply(), firstResponseAt).                                *)
FirstResponseKept ==
    ticket # Null =>
        /\ (\E i \in DOMAIN timeline :
                timeline[i].type = "reply_added" /\ timeline[i].by = "admin")
           => ticket.first # Null
        /\ ticket.first # Null => ticket.first \in StaffReplies
        /\ ticket.first # Null /\ upset = {} =>
                \A n \in StaffReplies : ticket.first <= n

TypeOK ==
    /\ ticket \in Ticket \cup {Null}
    /\ messages \in Seq(Message)
    /\ timeline \in Seq(Event)
    /\ told \in Status \cup {Null}
    /\ req \in [Handlers -> Request \cup {Null}]
    /\ next \in Nat
    /\ upset \subseteq Upset
=============================================================================
