--------------------------- MODULE PipelineProofs ---------------------------
(* Theorems about Pipeline, for every value of its constants.               *)
EXTENDS Pipeline, TLAPS

(* A document that was stamped by its own write: its revision names its     *)
(* text, and a derived one recorded the revision of each text it was        *)
(* written from.                                                            *)
Good(a, x) ==
    /\ x.at = x.text
    /\ a \in Derived =>
         /\ x.stamp \in [Chain -> Revision]
         /\ \A k \in Sources(a) : x.stamp[k] \in Nat /\ x.from[k] = x.stamp[k]

GoodDocs(docs, S) == \A a \in S : docs[a] # Null => Good(a, docs[a])

(* k is still to be read. *)
Pending(todo, k) == \E i \in DOMAIN todo : k \in todo[i]

(* The documents a stage cannot be written without. *)
Needed(r) ==
    IF r.op = "edit" THEN {r.stages[1]}
    ELSE IF r.stages[1] \in Derived THEN Sources(r.stages[1])
    ELSE {}

(* What holds of an operation in flight besides its type. *)
Working(r) ==
    /\ r.stages # <<>>
    /\ r.op = "edit" => Len(r.stages) = 1 /\ r.stages[1] \in Chain
    /\ \A k \in Needed(r) : r.seen[k] # Null \/ Pending(r.todo, k)
    /\ r.phase = "write" => r.todo = <<>>

Sound(r) ==
    /\ r \in Operation
    /\ GoodDocs(r.seen, Artifact)
    /\ r.phase \in {"read", "write"} => Working(r)

Store ==
    /\ doc \in [Artifact -> Document \cup {Null}]
    /\ GoodDocs(doc, Artifact)
    /\ clock \in Nat

Rows ==
    /\ DOMAIN versions \subseteq Nat
    /\ \A n \in DOMAIN versions :
         versions[n] \in Snapshot /\ GoodDocs(versions[n], Captured)

Flight ==
    /\ req = [h \in Handlers |-> req[h]]
    /\ \A h \in Handlers : req[h] # Null => Sound(req[h])

(* The inductive invariant of freshness. *)
IInv == Store /\ Rows /\ Flight

-----------------------------------------------------------------------------
(* The tables                                                               *)

(* Artifacts, and what they are made of, are what they are called. *)
LEMMA Tables ==
    /\ Captured \subseteq Artifact /\ Chain \subseteq Captured
    /\ Derived \subseteq Artifact
    /\ "requirements" \in Chain /\ "apiDesign" \in Chain
    /\ "review" \in Captured /\ "requirements" \notin Derived
    /\ Chain \cap Derived = {}
    /\ \A d \in Artifact : Sources(d) \subseteq Chain
BY ConstantsAssumption DEF Captured, Artifact, Chain, Derived, Sources

(* One query out of the first group: the rest is still to be read. *)
LEMMA WithoutRest ==
    ASSUME NEW todo \in Seq(SUBSET Artifact), todo # <<>>,
           NEW k \in Head(todo)
    PROVE  /\ Without(todo, k) \in Seq(SUBSET Artifact)
           /\ \A j : Pending(todo, j) => j = k \/ Pending(Without(todo, k), j)
<1>1. CASE Head(todo) = {k}
  <2>1. Without(todo, k) = Tail(todo)
    BY <1>1 DEF Without
  <2>2. Tail(todo) \in Seq(SUBSET Artifact)
    OBVIOUS
  <2>3. ASSUME NEW j, NEW i \in DOMAIN todo, j \in todo[i], j # k
        PROVE  Pending(Tail(todo), j)
    <3>1. i # 1 /\ i \in 1 .. Len(todo)
      BY <1>1, <2>3
    <3>2. i - 1 \in DOMAIN Tail(todo) /\ Tail(todo)[i - 1] = todo[i]
      BY <3>1
    <3> QED BY <3>2, <2>3 DEF Pending
  <2> QED BY <2>1, <2>2, <2>3 DEF Pending
<1>2. CASE Head(todo) # {k}
  <2> DEFINE rest == [todo EXCEPT ![1] = @ \ {k}]
  <2>1. Without(todo, k) = rest
    BY <1>2 DEF Without
  <2>2. 1 \in DOMAIN todo /\ todo[1] \in SUBSET Artifact
    OBVIOUS
  <2>3. rest \in Seq(SUBSET Artifact) /\ DOMAIN rest = DOMAIN todo
    BY <2>2
  <2>4. \A i \in DOMAIN todo : todo[i] \subseteq rest[i] \cup {k}
    BY <2>2
  <2> HIDE DEF rest
  <2> QED BY <2>1, <2>3, <2>4 DEF Pending
<1> QED BY <1>1, <1>2

(* generate() of a stage reads everything it cannot do without. *)
LEMMA UpstreamCovers ==
    ASSUME NEW s \in Artifact
    PROVE  /\ Upstream(s) \in Seq(SUBSET Artifact)
           /\ s \in Derived => \A k \in Sources(s) : Pending(Upstream(s), k)
<1>1. CASE s \in Chain
  <2>1. s \notin Derived
    BY <1>1, Tables
  <2>2. \A k \in Chain : {k} \in SUBSET Artifact
    BY DEF Artifact
  <2>3. CASE s = "requirements"
    BY <2>1, <2>3 DEF Upstream, RequirementsReads
  <2>4. CASE s = "systemDesign"
    BY <2>1, <2>2, <2>4 DEF Upstream, Chain, SystemDesignReads
  <2>5. CASE s = "databaseDesign"
    BY <2>1, <2>2, <2>5 DEF Upstream, Chain, DatabaseDesignReads
  <2>6. CASE s = "apiDesign"
    BY <2>1, <2>2, <2>6 DEF Upstream, Chain, ApiDesignReads
  <2> QED BY <1>1, <2>3, <2>4, <2>5, <2>6 DEF Chain
<1>2. CASE s \notin Chain
  <2> DEFINE rest == Sources(s) \ {"apiDesign"}
  <2>1. Upstream(s) = <<{"apiDesign"}, rest>>
    <3>1. s \in {"review", "roadmap", "costEstimate", "threatModel", "qaPlan"}
      BY <1>2, ConstantsAssumption DEF Artifact, Derived
    <3> QED BY <3>1 DEF Upstream, Sources, Chain, ReviewReads, RoadmapReads,
              CostEstimateReads, ThreatModelReads, QaPlanReads
  <2>2. rest \in SUBSET Artifact /\ {"apiDesign"} \in SUBSET Artifact
    BY Tables
  <2>3. \A k \in Sources(s) : k \in {"apiDesign"} \/ k \in rest
    OBVIOUS
  <2> HIDE DEF rest
  <2>4. Upstream(s) \in Seq(SUBSET Artifact)
    BY <2>1, <2>2
  <2>5. \A k \in Sources(s) : Pending(Upstream(s), k)
    BY <2>1, <2>3 DEF Pending
  <2> QED BY <2>4, <2>5
<1> QED BY <1>1, <1>2

(* So does every operation before it writes that stage. *)
LEMMA ReadsCover ==
    ASSUME NEW op \in {"generate", "edit", "refine", "restore"},
           NEW s \in Artifact, op = "edit" => s \in Chain
    PROVE  /\ Reads(op, s) \in Seq(SUBSET Artifact)
           /\ op = "edit" => Pending(Reads(op, s), s)
           /\ op # "edit" /\ s \in Derived =>
                \A k \in Sources(s) : Pending(Reads(op, s), k)
<1>1. CASE op = "edit"
  <2>1. Reads(op, s) = <<{s}>>
    BY <1>1 DEF Reads
  <2>2. Reads(op, s) \in Seq(SUBSET Artifact)
    BY <2>1
  <2>3. Pending(Reads(op, s), s)
    BY <2>1 DEF Pending
  <2> QED BY <1>1, <2>2, <2>3
<1>2. CASE op = "refine" /\ s = "requirements"
  <2>1. Reads(op, s) = <<{"requirements"}, {"apiDesign"}>>
    BY <1>2 DEF Reads
  <2>2. Reads(op, s) \in Seq(SUBSET Artifact)
    BY <2>1, Tables
  <2> QED BY <1>2, <2>2, Tables
<1>3. CASE op = "refine" /\ s = "review"
  <2> DEFINE up == Upstream(s)
  <2>1. Reads(op, s) = <<{"review"}>> \o up
    BY <1>3 DEF Reads
  <2>2. up \in Seq(SUBSET Artifact)
    BY UpstreamCovers
  <2>3. <<{"review"}>> \in Seq(SUBSET Artifact)
    BY Tables
  <2>4. Reads(op, s) \in Seq(SUBSET Artifact)
    BY <2>1, <2>2, <2>3
  <2>5. s \in Derived => \A k \in Sources(s) : Pending(up, k)
    BY UpstreamCovers
  <2> HIDE DEF up
  <2>6. ASSUME NEW k, Pending(up, k)
        PROVE  Pending(Reads(op, s), k)
    <3>1. PICK i \in DOMAIN up : k \in up[i]
      BY <2>6 DEF Pending
    <3>2. /\ i + 1 \in DOMAIN Reads(op, s)
          /\ Reads(op, s)[i + 1] = up[i]
      BY <2>1, <2>2
    <3> QED BY <3>1, <3>2 DEF Pending
  <2> QED BY <1>3, <2>4, <2>5, <2>6
<1>4. CASE op # "edit" /\ ~(op = "refine" /\ s \in {"requirements", "review"})
  <2>1. Reads(op, s) = Upstream(s)
    BY <1>4 DEF Reads
  <2> QED BY <1>4, <2>1, UpstreamCovers
<1> QED BY <1>1, <1>2, <1>3, <1>4

-----------------------------------------------------------------------------
(* Operations                                                               *)

(* An operation starts, and goes on to its next stage, with all it needs    *)
(* still to read.                                                           *)
LEMMA ReadyToRead ==
    ASSUME NEW r \in Operation, r.phase = "read", r.stages # <<>>,
           r.op = "edit" => Len(r.stages) = 1 /\ r.stages[1] \in Chain,
           r.todo = Reads(r.op, r.stages[1])
    PROVE  Working(r)
<1>1. r.stages[1] \in Artifact /\ r.op \in {"generate", "edit", "refine", "restore"}
  BY DEF Operation
<1>2. \A k \in Needed(r) : Pending(r.todo, k)
  BY <1>1, ReadsCover DEF Needed
<1> QED BY <1>2 DEF Working

(* Having read nothing is typed, and vacuously good. *)
LEMMA NothingTyped ==
    /\ Nothing \in [Artifact -> Document \cup {Null}]
    /\ GoodDocs(Nothing, Artifact)
BY DEF Nothing, GoodDocs

(* What begins is sound. *)
LEMMA BeginSound ==
    ASSUME NEW op \in {"generate", "edit", "refine"}, NEW cut \in BOOLEAN,
           NEW stages \in Seq(Artifact), stages # <<>>,
           op = "edit" => Len(stages) = 1 /\ stages[1] \in Chain
    PROVE  Sound(Begin(op, stages, cut))
<1> DEFINE r == Begin(op, stages, cut)
<1>1. Head(stages) = stages[1] /\ stages[1] \in Artifact
  OBVIOUS
<1>2. Reads(op, stages[1]) \in Seq(SUBSET Artifact)
  BY <1>1, ReadsCover
<1>3. r = [op |-> op, phase |-> "read", stages |-> stages,
           todo |-> Reads(op, stages[1]), seen |-> Nothing,
           at |-> 0, number |-> 0, cut |-> cut]
  BY <1>1 DEF Begin
<1> HIDE DEF r
<1>4. r \in Operation
  BY <1>2, <1>3, NothingTyped DEF Operation
<1>5. Working(r)
  BY <1>3, <1>4, ReadyToRead
<1> QED BY <1>3, <1>4, <1>5, NothingTyped DEF r, Sound

(* An operation that goes on to other documents. *)
Reset(r, phase, stages, todo) ==
    [r EXCEPT !.phase = phase, !.stages = stages, !.todo = todo,
              !.seen = Nothing, !.at = 0]

(* It is still an operation. *)
LEMMA ResetTyped ==
    ASSUME NEW r \in Operation, NEW phase \in {"read", "capture"},
           NEW stages \in Seq(Artifact), NEW todo \in Seq(SUBSET Artifact)
    PROVE  /\ Reset(r, phase, stages, todo) \in Operation
           /\ Reset(r, phase, stages, todo).phase = phase
           /\ Reset(r, phase, stages, todo).stages = stages
           /\ Reset(r, phase, stages, todo).todo = todo
           /\ Reset(r, phase, stages, todo).seen = Nothing
           /\ Reset(r, phase, stages, todo).op = r.op
BY NothingTyped DEF Operation, Reset

(* A sequence of two or more has a rest. *)
LEMMA RestOfStages ==
    ASSUME NEW s \in Seq(Artifact), s # <<>>, Len(s) # 1
    PROVE  /\ Tail(s) \in Seq(Artifact) /\ Tail(s) # <<>>
           /\ Tail(s)[1] = s[2] /\ s[2] \in Artifact
<1> DEFINE n == Len(s)
<1>1. n \in Nat /\ n # 0 /\ n # 1 /\ s \in [1 .. n -> Artifact]
  OBVIOUS
<1> HIDE DEF n
<1>2. n >= 2
  BY <1>1
<1>3. s[2] \in Artifact
  BY <1>1, <1>2
<1>4. Tail(s) \in Seq(Artifact) /\ Len(Tail(s)) = n - 1 /\ Tail(s)[1] = s[2]
  BY <1>1, <1>2 DEF n
<1>5. Tail(s) # <<>>
  <2> DEFINE t == Tail(s)
  <2>1. t \in Seq(Artifact) /\ Len(t) # 0
    BY <1>1, <1>2, <1>4
  <2> HIDE DEF t
  <2>2. t # <<>>
    BY <2>1
  <2> QED BY <2>2 DEF t
<1> QED BY <1>3, <1>4, <1>5

(* An operation that begins its snapshot is sound. *)
LEMMA CapturingSound ==
    ASSUME NEW r \in Operation
    PROVE  Sound(Capturing(r))
<1> DEFINE c == Capturing(r)
           none == <<>>
           todo == <<Captured>>
<1>1. c = Reset(r, "capture", none, todo)
  BY DEF Capturing, Reset
<1>2. todo \in Seq(SUBSET Artifact) /\ none \in Seq(Artifact)
  BY Tables
<1> HIDE DEF none, todo
<1>3. c \in Operation /\ c.phase = "capture" /\ c.seen = Nothing
  BY <1>1, <1>2, ResetTyped
<1> HIDE DEF c
<1>4. Sound(c)
  BY <1>3, NothingTyped DEF Sound
<1> QED BY <1>4 DEF c

(* After its last stage an operation snapshots or ends. *)
LEMMA FinishedSound ==
    ASSUME NEW r \in Operation
    PROVE  Finished(r) # Null => Sound(Finished(r))
BY CapturingSound DEF Finished

(* So it does between two stages. *)
LEMMA NextStageSound ==
    ASSUME NEW r, Sound(r), r.phase = "write"
    PROVE  NextStage(r) # Null => Sound(NextStage(r))
<1>1. r \in Operation /\ Working(r)
  BY DEF Sound
<1>2. CASE Len(r.stages) = 1
  BY <1>1, <1>2, FinishedSound DEF NextStage
<1>3. CASE Len(r.stages) # 1
  <2> DEFINE n == NextStage(r)
             rest == Tail(r.stages)
             s == r.stages[2]
  <2>1. /\ r.stages \in Seq(Artifact) /\ r.stages # <<>>
        /\ r.op \in {"generate", "edit", "refine", "restore"} /\ r.op # "edit"
    BY <1>1, <1>3 DEF Operation, Working
  <2>3. rest \in Seq(Artifact) /\ rest # <<>> /\ rest[1] = s /\ s \in Artifact
    BY <2>1, <1>3, RestOfStages
  <2>4. Reads(r.op, s) \in Seq(SUBSET Artifact)
    BY <2>1, <2>3, ReadsCover
  <2>5. n = Reset(r, "read", rest, Reads(r.op, s))
    BY <1>3 DEF NextStage, Reset
  <2> HIDE DEF n, rest, s
  <2>6. n \in Operation
    BY <1>1, <2>3, <2>4, <2>5, ResetTyped
  <2>7. /\ n.phase = "read" /\ n.stages = rest /\ n.seen = Nothing
        /\ n.todo = Reads(r.op, s) /\ n.op = r.op
    BY <1>1, <2>3, <2>4, <2>5, ResetTyped
  <2>8. Working(n)
    BY <2>1, <2>3, <2>6, <2>7, ReadyToRead
  <2>9. Sound(n)
    BY <2>6, <2>7, <2>8, NothingTyped DEF Sound
  <2> QED BY <2>9 DEF n
<1> QED BY <1>2, <1>3

(* The revisions and the texts of typed documents are typed. *)
LEMMA RevisionsTyped ==
    ASSUME NEW docs \in [Artifact -> Document \cup {Null}]
    PROVE  /\ Revisions(docs) \in [Chain -> Revision]
           /\ Texts(docs) \in [Chain -> Revision]
           /\ \A k \in Chain : docs[k] # Null =>
                /\ Revisions(docs)[k] = docs[k].at /\ Texts(docs)[k] = docs[k].text
                /\ docs[k].at \in Nat
<1>1. \A k \in Chain : docs[k] # Null => docs[k].at \in Nat /\ docs[k].text \in Nat
  BY DEF Document, Artifact
<1> QED BY <1>1 DEF Revisions, Texts, Revision

(* A stamp is typed, and holds the revision of each source. *)
LEMMA StampTyped ==
    ASSUME NEW d, NEW revisions \in [Chain -> Revision]
    PROVE  /\ UpstreamStamp(d, revisions) \in [Chain -> Revision]
           /\ \A k \in Chain : k \in Sources(d) =>
                UpstreamStamp(d, revisions)[k] = revisions[k]
BY DEF UpstreamStamp, Revision

(* When a stage writes, it has read all it cannot do without, so what it    *)
(* writes is good.                                                          *)
LEMMA WrittenGood ==
    ASSUME NEW r, Sound(r), r.phase = "write"
    PROVE  /\ Head(r.stages) \in Artifact
           /\ Written(r) \in Document
           /\ Good(Head(r.stages), Written(r))
<1> DEFINE s == Head(r.stages)
           x == Written(r)
           stamp == UpstreamStamp(s, Revisions(r.seen))
           from == IF r.op = "edit" THEN r.seen[s].from ELSE Texts(r.seen)
<1>1. r \in Operation /\ GoodDocs(r.seen, Artifact) /\ Working(r)
  BY DEF Sound
<1>2. /\ r.seen \in [Artifact -> Document \cup {Null}] /\ r.at \in Nat
      /\ r.stages \in Seq(Artifact)
  BY <1>1 DEF Operation
<1>3. r.stages # <<>> /\ r.todo = <<>>
  BY <1>1 DEF Working
<1>4. s \in Artifact /\ s = r.stages[1]
  BY <1>2, <1>3
<1>5. \A k \in Needed(r) : r.seen[k] # Null
  BY <1>1, <1>3 DEF Working, Pending
<1>6. stamp \in [Chain -> Revision]
  BY <1>2, RevisionsTyped, StampTyped
<1>7. from \in [Chain -> Revision]
  <2>1. CASE r.op = "edit"
    <3>1. r.seen[s] \in Document
      BY <1>2, <1>4, <1>5, <2>1 DEF Needed
    <3> QED BY <2>1, <3>1 DEF Document
  <2>2. CASE r.op # "edit"
    BY <1>2, <2>2, RevisionsTyped
  <2> QED BY <2>1, <2>2
<1>8. x = [at |-> r.at, text |-> r.at, from |-> from,
           stamp |-> IF s \in Derived THEN stamp ELSE Null]
  BY DEF Written
<1>9. ASSUME s \in Derived, NEW k \in Sources(s)
      PROVE  stamp[k] \in Nat /\ from[k] = stamp[k]
  <2>1. r.op # "edit"
    BY <1>1, <1>4, <1>9, Tables DEF Working
  <2>2. k \in Chain /\ k \in Artifact
    BY <1>4, <1>9, Tables
  <2>3. r.seen[k] # Null
    BY <1>4, <1>5, <1>9, <2>1 DEF Needed
  <2>4. Good(k, r.seen[k])
    BY <1>1, <2>2, <2>3 DEF GoodDocs
  <2>5. r.seen[k].at = r.seen[k].text
    BY <2>4 DEF Good
  <2>6. stamp[k] = Revisions(r.seen)[k]
    BY <1>2, <1>9, <2>2, RevisionsTyped, StampTyped
  <2>7. from = Texts(r.seen)
    BY <2>1
  <2> HIDE DEF stamp, from
  <2> QED BY <1>2, <2>2, <2>3, <2>5, <2>6, <2>7, RevisionsTyped
<1> HIDE DEF s, x, stamp, from
<1>10. x \in Document
  BY <1>2, <1>6, <1>7, <1>8 DEF Document
<1>11. Good(s, x)
  BY <1>6, <1>8, <1>9 DEF Good
<1> QED BY <1>4, <1>10, <1>11 DEF s, x

(* A query that found its document leaves the operation sound. *)
LEMMA FetchSound ==
    ASSUME NEW r, Sound(r), r.phase \in {"read", "capture"},
           r.todo # <<>>, NEW k \in Head(r.todo), Store,
           doc[k] # Null \/ r.phase = "capture"
    PROVE  Sound([r EXCEPT !.todo = Without(@, k), !.seen[k] = doc[k]])
<1> DEFINE n == [r EXCEPT !.todo = Without(@, k), !.seen[k] = doc[k]]
           todo == Without(r.todo, k)
           seen == [r.seen EXCEPT ![k] = doc[k]]
<1>1. r \in Operation /\ GoodDocs(r.seen, Artifact)
  BY DEF Sound
<1>2. /\ r.todo \in Seq(SUBSET Artifact)
      /\ r.seen \in [Artifact -> Document \cup {Null}]
  BY <1>1 DEF Operation
<1>3. k \in Artifact
  BY <1>2
<1>4. /\ todo \in Seq(SUBSET Artifact)
      /\ \A j : Pending(r.todo, j) => j = k \/ Pending(todo, j)
  BY <1>2, WithoutRest
<1>5. seen \in [Artifact -> Document \cup {Null}]
  BY <1>2, <1>3 DEF Store
<1>6. seen[k] = doc[k] /\ \A j \in Artifact : j # k => seen[j] = r.seen[j]
  BY <1>2, <1>3
<1>7. n = [r EXCEPT !.todo = todo, !.seen = seen]
  OBVIOUS
<1> HIDE DEF n, todo, seen
<1>8. n \in Operation
  BY <1>1, <1>4, <1>5, <1>7 DEF Operation
<1>9. /\ n.phase = r.phase /\ n.stages = r.stages /\ n.op = r.op
      /\ n.todo = todo /\ n.seen = seen
  BY <1>1, <1>7 DEF Operation
<1>10. GoodDocs(seen, Artifact)
  BY <1>1, <1>6 DEF GoodDocs, Store
<1>11. ASSUME n.phase \in {"read", "write"}
       PROVE  Working(n)
  <2>1. Working(r) /\ doc[k] # Null /\ r.phase = "read"
    BY <1>9, <1>11 DEF Sound
  <2>2. Needed(n) = Needed(r)
    BY <1>9 DEF Needed
  <2>3. Needed(r) \subseteq Artifact
    <3>1. r.stages # <<>> /\ r.stages \in Seq(Artifact)
      BY <1>1, <2>1 DEF Working, Operation
    <3>2. r.stages[1] \in Artifact
      BY <3>1
    <3> QED BY <3>2, Tables DEF Needed
  <2>4. \A j \in Needed(n) : seen[j] # Null \/ Pending(todo, j)
    BY <1>4, <1>6, <2>1, <2>2, <2>3 DEF Working
  <2> QED BY <1>9, <2>1, <2>4 DEF Working
<1> QED BY <1>8, <1>9, <1>10, <1>11 DEF Sound, n

-----------------------------------------------------------------------------
(* The invariant of freshness                                               *)

(* Replacing one operation by a sound one, or by none, keeps them sound. *)
LEMMA FlightStep ==
    ASSUME Flight, NEW h \in Handlers, NEW r, Step(h, r), r # Null => Sound(r)
    PROVE  Flight'
<1>1. req' = [req EXCEPT ![h] = r]
  BY DEF Step
<1>2. \A g \in Handlers : req'[g] = IF g = h THEN r ELSE req[g]
  BY <1>1 DEF Flight
<1>3. req' = [g \in Handlers |-> req'[g]]
  BY <1>1 DEF Flight
<1>4. \A g \in Handlers : req'[g] # Null => Sound(req'[g])
  BY <1>2 DEF Flight
<1> QED BY <1>3, <1>4 DEF Flight

(* One good document stored for an artifact keeps the store good. *)
LEMMA StoreStep ==
    ASSUME Store, NEW a \in Artifact, NEW x \in Document \cup {Null},
           x # Null => Good(a, x), doc' = [doc EXCEPT ![a] = x], UNCHANGED clock
    PROVE  Store'
<1>1. doc' \in [Artifact -> Document \cup {Null}] /\ clock' \in Nat
  BY DEF Store
<1>2. \A b \in Artifact : doc'[b] = IF b = a THEN x ELSE doc[b]
  BY DEF Store
<1>3. GoodDocs(doc', Artifact)
  BY <1>2 DEF GoodDocs, Store
<1> QED BY <1>1, <1>3 DEF Store

(* A project without documents. *)
LEMMA InitIInv == Init => IInv
<1> SUFFICES ASSUME Init
             PROVE  IInv
  OBVIOUS
<1>1. Store
  BY NothingTyped DEF Init, Store
<1>2. DOMAIN versions = {}
  BY DEF Init
<1>3. Rows
  BY <1>2 DEF Rows
<1>4. req = [h \in Handlers |-> Null]
  BY DEF Init
<1>5. Flight
  BY <1>4 DEF Flight
<1> QED BY <1>1, <1>3, <1>5 DEF IInv

(* Whoever runs a stage, it is one and the same operation. *)
LEMMA StageRuns ==
    ASSUME NEW h, NEW s, RunJob(h, s) \/ RunStream(h, s) \/ PostGenerate(h, s)
    PROVE  \E cut \in BOOLEAN : Generate(h, s, cut)
<1>1. (s \in Captured) \in BOOLEAN
  OBVIOUS
<1> QED BY <1>1 DEF RunJob, RunStream, PostGenerate

(* Starting an operation. *)
LEMMA GenerateIInv ==
    ASSUME IInv, NEW h \in Handlers, NEW s \in Artifact, NEW cut \in BOOLEAN,
           Generate(h, s, cut)
    PROVE  IInv'
<1>1. <<s>> \in Seq(Artifact) /\ <<s>> # <<>>
  OBVIOUS
<1>2. Sound(Begin("generate", <<s>>, cut))
  BY <1>1, BeginSound
<1>3. Step(h, Begin("generate", <<s>>, cut)) /\ UNCHANGED <<doc, versions, clock>>
  BY DEF Generate
<1>4. Flight'
  BY <1>2, <1>3, FlightStep DEF IInv
<1> QED BY <1>3, <1>4 DEF IInv, Store, Rows

(* Starting an edit, whose stage is one design document. *)
LEMMA EditIInv ==
    ASSUME IInv, NEW h \in Handlers, NEW k \in Chain, Edit(h, k)
    PROVE  IInv'
<1>1. <<k>> \in Seq(Artifact) /\ <<k>> # <<>> /\ Len(<<k>>) = 1 /\ <<k>>[1] = k
  BY Tables
<1>2. Sound(Begin("edit", <<k>>, FALSE))
  BY <1>1, BeginSound
<1>3. Step(h, Begin("edit", <<k>>, FALSE)) /\ UNCHANGED <<doc, versions, clock>>
  BY DEF Edit
<1>4. Flight'
  BY <1>2, <1>3, FlightStep DEF IInv
<1> QED BY <1>3, <1>4 DEF IInv, Store, Rows

(* Starting a refinement, whose stages are the whole chain. *)
LEMMA RefineIInv ==
    ASSUME IInv, NEW h \in Handlers, Refine(h)
    PROVE  IInv'
<1>1. RefineStages \in Seq(Artifact) /\ RefineStages # <<>>
  BY DEF RefineStages, Artifact, Chain, Derived
<1>2. Sound(Begin("refine", RefineStages, TRUE))
  BY <1>1, BeginSound
<1>3. Step(h, Begin("refine", RefineStages, TRUE)) /\ UNCHANGED <<doc, versions, clock>>
  BY DEF Refine
<1>4. Flight'
  BY <1>2, <1>3, FlightStep DEF IInv
<1> QED BY <1>3, <1>4 DEF IInv, Store, Rows

(* A version holds good documents, so a restore starts from good ones. *)
LEMMA RestoreIInv ==
    ASSUME IInv, NEW h \in Handlers, NEW n \in DOMAIN versions, Restore(h, n)
    PROVE  IInv'
<1> DEFINE seen == [a \in Artifact |->
                      IF a \in Captured THEN versions[n][a] ELSE Null]
           todo == <<Captured>>
           none == <<>>
           r == [op |-> "restore", phase |-> "apply", stages |-> none,
                 todo |-> todo, seen |-> seen, at |-> 0, number |-> n, cut |-> TRUE]
<1>1. n \in Nat /\ versions[n] \in Snapshot /\ GoodDocs(versions[n], Captured)
  BY DEF IInv, Rows
<1>2. seen \in [Artifact -> Document \cup {Null}]
  BY <1>1 DEF Snapshot
<1>3. GoodDocs(seen, Artifact)
  BY <1>1 DEF GoodDocs
<1>4. todo \in Seq(SUBSET Artifact) /\ none \in Seq(Artifact)
  BY Tables
<1>5. Step(h, r) /\ UNCHANGED <<doc, versions, clock>>
  BY DEF Restore
<1> HIDE DEF seen, todo, none
<1>6. r \in Operation /\ r.seen = seen /\ r.phase = "apply"
  BY <1>1, <1>2, <1>4 DEF Operation
<1>7. Sound(r)
  BY <1>3, <1>6 DEF Sound
<1>8. Flight'
  BY <1>5, <1>7, FlightStep DEF IInv
<1> QED BY <1>5, <1>8 DEF IInv, Store, Rows

(* A query: with what it found the operation stays sound, or it ends. *)
LEMMA FetchIInv ==
    ASSUME IInv, NEW h \in Handlers, NEW k \in Artifact, Fetch(h, k)
    PROVE  IInv'
<1> DEFINE r == req[h]
           found == [r EXCEPT !.todo = Without(@, k), !.seen[k] = doc[k]]
<1>1. /\ r # Null /\ r.phase \in {"read", "capture"}
      /\ r.todo # <<>> /\ k \in Head(r.todo)
      /\ UNCHANGED <<doc, versions, clock>>
  BY DEF Fetch
<1>2. Sound(r) /\ Store
  BY <1>1 DEF IInv, Flight
<1>3. doc[k] # Null \/ r.phase = "capture" => Sound(found)
  BY <1>1, <1>2, FetchSound
<1>4. Finished(r) # Null => Sound(Finished(r))
  BY <1>2, FinishedSound DEF Sound
<1>5. \/ Step(h, found) /\ (doc[k] # Null \/ r.phase = "capture")
      \/ Step(h, Finished(r))
      \/ Step(h, Null)
  BY DEF Fetch
<1> HIDE DEF found
<1>6. Flight'
  BY <1>3, <1>4, <1>5, FlightStep DEF IInv
<1> QED BY <1>1, <1>6 DEF IInv, Store, Rows

(* Stamping the revision. *)
LEMMA ConsultIInv ==
    ASSUME IInv, NEW h \in Handlers, Consult(h)
    PROVE  IInv'
<1> DEFINE r == req[h]
           n == [r EXCEPT !.phase = "write", !.at = clock + 1]
<1>1. /\ r # Null /\ r.phase = "read" /\ r.todo = <<>>
      /\ clock' = clock + 1 /\ Step(h, n) /\ UNCHANGED <<doc, versions>>
  BY DEF Consult
<1>2. r \in Operation /\ GoodDocs(r.seen, Artifact) /\ Working(r)
  BY <1>1 DEF IInv, Flight, Sound
<1>3. clock + 1 \in Nat
  BY DEF IInv, Store
<1>4. n \in Operation
  BY <1>2, <1>3 DEF Operation
<1>5. /\ n.phase = "write" /\ n.todo = r.todo /\ n.seen = r.seen
      /\ n.stages = r.stages /\ n.op = r.op
  BY <1>2 DEF Operation
<1> HIDE DEF n
<1>6. Working(n)
  BY <1>1, <1>2, <1>5 DEF Working, Needed
<1>7. Sound(n)
  BY <1>2, <1>4, <1>5, <1>6 DEF Sound
<1>8. Flight'
  BY <1>1, <1>7, FlightStep DEF IInv
<1> QED BY <1>1, <1>3, <1>8 DEF IInv, Store, Rows

(* The upsert of a stage or of an edit. *)
LEMMA WriteIInv ==
    ASSUME IInv, NEW h \in Handlers, Write(h)
    PROVE  IInv'
<1> DEFINE r == req[h]
           s == Head(r.stages)
           x == Written(r)
<1>1. /\ r # Null /\ r.phase = "write" /\ doc' = [doc EXCEPT ![s] = x]
      /\ Step(h, NextStage(r)) /\ UNCHANGED <<versions, clock>>
  BY DEF Write
<1>2. Sound(r) /\ Store /\ Flight /\ Rows
  BY <1>1 DEF IInv, Flight
<1>3. s \in Artifact /\ x \in Document /\ Good(s, x)
  BY <1>1, <1>2, WrittenGood
<1>4. NextStage(r) # Null => Sound(NextStage(r))
  BY <1>1, <1>2, NextStageSound
<1> HIDE DEF s, x, r
<1>5. Store'
  BY <1>1, <1>2, <1>3, StoreStep
<1>6. Flight'
  BY <1>1, <1>2, <1>4, FlightStep
<1> QED BY <1>1, <1>2, <1>5, <1>6 DEF IInv, Rows

(* One upsert or delete of a restore. *)
LEMMA ApplyIInv ==
    ASSUME IInv, NEW h \in Handlers, NEW k \in Captured, Apply(h, k)
    PROVE  IInv'
<1> DEFINE r == req[h]
           todo == Without(r.todo, k)
           rest == [r EXCEPT !.todo = todo]
<1>1. /\ r # Null /\ r.phase = "apply" /\ r.todo # <<>> /\ k \in Head(r.todo)
      /\ doc' = [doc EXCEPT ![k] = r.seen[k]] /\ UNCHANGED <<versions, clock>>
      /\ Step(h, IF todo = <<>> THEN Capturing(r) ELSE rest)
  BY DEF Apply
<1>2. Sound(r) /\ Store /\ Flight /\ Rows
  BY <1>1 DEF IInv, Flight
<1>3. r \in Operation /\ GoodDocs(r.seen, Artifact) /\ k \in Artifact
  BY <1>2, Tables DEF Sound
<1>4. r.seen[k] \in Document \cup {Null} /\ (r.seen[k] # Null => Good(k, r.seen[k]))
  BY <1>3 DEF Operation, GoodDocs
<1>5. Store'
  BY <1>1, <1>2, <1>3, <1>4, StoreStep
<1>6. todo \in Seq(SUBSET Artifact)
  BY <1>1, <1>3, WithoutRest DEF Operation
<1> HIDE DEF todo
<1>7. rest \in Operation /\ rest.seen = r.seen /\ rest.phase = "apply"
  BY <1>1, <1>3, <1>6 DEF Operation
<1>8. Sound(rest)
  BY <1>3, <1>7 DEF Sound
<1>9. Sound(Capturing(r))
  BY <1>3, CapturingSound
<1> HIDE DEF rest, r
<1>10. Flight'
  BY <1>1, <1>2, <1>8, <1>9, FlightStep
<1> QED BY <1>1, <1>2, <1>5, <1>10 DEF IInv, Rows

(* Deciding whether to cut a version, and under which number. *)
LEMMA NumberIInv ==
    ASSUME IInv, NEW h \in Handlers, Number(h), LatestVersion \in Nat
    PROVE  IInv'
<1> DEFINE r == req[h]
           next == LatestVersion + 1
           n == [r EXCEPT !.phase = "create", !.number = next]
<1>1. /\ r # Null /\ UNCHANGED <<doc, versions, clock>>
      /\ Step(h, Null) \/ Step(h, n)
  BY DEF Number
<1>2. Sound(r)
  BY <1>1 DEF IInv, Flight
<1> next \in Nat
  OBVIOUS
<1> HIDE DEF next
<1>3. n \in Operation /\ n.seen = r.seen /\ n.phase = "create"
  BY <1>2 DEF Sound, Operation
<1> HIDE DEF n
<1>4. Sound(n)
  BY <1>2, <1>3 DEF Sound
<1>5. Flight'
  BY <1>1, <1>4, FlightStep DEF IInv
<1> QED BY <1>1, <1>5 DEF IInv, Store, Rows

(* A new row holds the good documents that were read. *)
LEMMA CreateIInv ==
    ASSUME IInv, NEW h \in Handlers, Create(h)
    PROVE  IInv'
<1> DEFINE r == req[h]
           snapshot == SnapshotOf(r.seen)
<1>1. /\ r # Null /\ Step(h, Null) /\ UNCHANGED <<doc, clock>>
      /\ versions' = IF r.number \in DOMAIN versions THEN versions
                     ELSE [n \in DOMAIN versions \cup {r.number} |->
                             IF n = r.number THEN snapshot ELSE versions[n]]
  BY DEF Create
<1>2. Sound(r) /\ Flight /\ Store /\ Rows
  BY <1>1 DEF IInv, Flight
<1>3. /\ r.number \in Nat /\ r.seen \in [Artifact -> Document \cup {Null}]
      /\ GoodDocs(r.seen, Artifact)
  BY <1>2 DEF Sound, Operation
<1>4. snapshot \in Snapshot /\ GoodDocs(snapshot, Captured)
  BY <1>3, Tables DEF Snapshot, SnapshotOf, GoodDocs
<1> HIDE DEF snapshot, r
<1>5. /\ DOMAIN versions' \subseteq DOMAIN versions \cup {r.number}
      /\ \A n \in DOMAIN versions' :
           versions'[n] = snapshot \/ (n \in DOMAIN versions /\ versions'[n] = versions[n])
  BY <1>1
<1>6. Rows'
  BY <1>2, <1>3, <1>4, <1>5 DEF Rows
<1>7. Flight'
  BY <1>1, <1>2, FlightStep
<1> QED BY <1>1, <1>2, <1>6, <1>7 DEF IInv, Store

(* An operation that dies leaves what it wrote. *)
LEMMA FailIInv ==
    ASSUME IInv, NEW h \in Handlers, Fail(h)
    PROVE  IInv'
<1>1. Step(h, Null) /\ UNCHANGED <<doc, versions, clock>>
  BY DEF Fail
<1>2. Flight'
  BY <1>1, FlightStep DEF IInv
<1> QED BY <1>1, <1>2 DEF IInv, Store, Rows

-----------------------------------------------------------------------------
(* The numbers of the versions                                              *)

(* The rows are numbered 1 to the latest; a row about to be created takes a *)
(* number no later than the next.                                           *)
Numbered ==
    /\ LatestVersion \in Nat
    /\ DOMAIN versions = 1 .. LatestVersion
    /\ \A h \in Handlers :
         req[h] # Null /\ req[h].phase = "create" =>
            req[h].number \in 1 .. LatestVersion + 1

LastOf(D) == IF D = {} THEN 0 ELSE CHOOSE i \in D : \A m \in D : m <= i

(* With rows 1 to n, the latest is n. *)
LEMMA LastOfInterval ==
    ASSUME NEW n \in Nat, NEW D, D = 1 .. n
    PROVE  LastOf(D) = n
<1>1. CASE n = 0
  <2>1. D = {}
    BY <1>1
  <2> QED BY <1>1, <2>1 DEF LastOf
<1>2. CASE n # 0
  <2> DEFINE last == CHOOSE i \in D : \A m \in D : m <= i
  <2>1. n \in D /\ \A m \in D : m <= n
    BY <1>2
  <2>2. last \in D /\ \A m \in D : m <= last
    BY <2>1
  <2>3. last \in Nat /\ last <= n /\ n <= last
    BY <2>1, <2>2
  <2> QED BY <2>1, <2>3 DEF LastOf
<1> QED BY <1>1, <1>2

(* A step that adds no row and sends no operation to the "create" phase     *)
(* keeps the numbering.                                                     *)
LEMMA NumberedStep ==
    ASSUME Numbered, Flight, NEW h \in Handlers, NEW r, Step(h, r),
           r # Null => r.phase # "create", UNCHANGED versions
    PROVE  Numbered'
<1>1. \A g \in Handlers : req'[g] = IF g = h THEN r ELSE req[g]
  BY DEF Flight, Step
<1>2. LatestVersion' = LatestVersion
  BY DEF LatestVersion
<1> QED BY <1>1, <1>2 DEF Numbered

(* No version yet: the latest is 0. *)
LEMMA InitNumbered == Init => Numbered
<1> SUFFICES ASSUME Init
             PROVE  Numbered
  OBVIOUS
<1>1. DOMAIN versions = 1 .. 0
  BY DEF Init
<1>2. LatestVersion = 0
  BY <1>1, LastOfInterval DEF LatestVersion, LastOf
<1>3. \A h \in Handlers : req[h] = Null
  BY DEF Init
<1> QED BY <1>1, <1>2, <1>3 DEF Numbered

(* Every other step keeps the rows, and none but Number(h) is about to      *)
(* create one.                                                              *)
LEMMA OtherSteps ==
    ASSUME IInv, [Next]_vars
    PROVE  \/ UNCHANGED vars
           \/ \E h \in Handlers : Create(h)
           \/ \E h \in Handlers : Number(h)
           \/ /\ UNCHANGED versions
              /\ \E h \in Handlers : \E r :
                   Step(h, r) /\ (r # Null => r.phase # "create")
<1> DEFINE Quiet(h) == /\ UNCHANGED versions
                       /\ \E r : Step(h, r) /\ (r # Null => r.phase # "create")
<1>1. ASSUME NEW h \in Handlers, NEW s \in Artifact, NEW cut \in BOOLEAN,
             Generate(h, s, cut)
      PROVE  Quiet(h)
  BY <1>1 DEF Generate, Begin
<1>2. ASSUME NEW h \in Handlers, NEW k \in Chain, Edit(h, k)
      PROVE  Quiet(h)
  BY <1>2 DEF Edit, Begin
<1>3. ASSUME NEW h \in Handlers, Refine(h)
      PROVE  Quiet(h)
  BY <1>3 DEF Refine, Begin
<1>4. ASSUME NEW h \in Handlers, NEW n \in DOMAIN versions, Restore(h, n)
      PROVE  Quiet(h)
  <2> DEFINE r == [op |-> "restore", phase |-> "apply", stages |-> <<>>,
                   todo |-> <<Captured>>,
                   seen |-> [a \in Artifact |->
                               IF a \in Captured THEN versions[n][a] ELSE Null],
                   at |-> 0, number |-> n, cut |-> TRUE]
  <2>1. Step(h, r) /\ r.phase = "apply" /\ UNCHANGED versions
    BY <1>4 DEF Restore
  <2> QED BY <2>1
<1>5. ASSUME NEW h \in Handlers, req[h] # Null
      PROVE  req[h] \in Operation
  BY <1>5 DEF IInv, Flight, Sound
<1>6. ASSUME NEW r \in Operation
      PROVE  Capturing(r).phase = "capture"
  BY <1>6 DEF Capturing, Operation
<1>7. ASSUME NEW r \in Operation
      PROVE  Finished(r) # Null => Finished(r).phase # "create"
  BY <1>6 DEF Finished
<1>8. ASSUME NEW h \in Handlers, NEW k \in Artifact, Fetch(h, k)
      PROVE  Quiet(h)
  <2> DEFINE r == req[h]
             found == [r EXCEPT !.todo = Without(@, k), !.seen[k] = doc[k]]
  <2>1. r # Null /\ r.phase \in {"read", "capture"} /\ UNCHANGED versions
    BY <1>8 DEF Fetch
  <2>2. r \in Operation
    BY <1>5, <2>1
  <2>3. found.phase = r.phase
    BY <2>2 DEF Operation
  <2>4. Step(h, found) \/ Step(h, Finished(r)) \/ Step(h, Null)
    BY <1>8 DEF Fetch
  <2> HIDE DEF found
  <2> QED BY <1>7, <2>1, <2>2, <2>3, <2>4
<1>9. ASSUME NEW h \in Handlers, Consult(h)
      PROVE  Quiet(h)
  <2> DEFINE n == [req[h] EXCEPT !.phase = "write", !.at = clock + 1]
  <2>1. req[h] # Null /\ Step(h, n) /\ UNCHANGED versions
    BY <1>9 DEF Consult
  <2>2. n.phase = "write"
    BY <1>5, <2>1 DEF Operation
  <2> QED BY <2>1, <2>2
<1>10. ASSUME NEW h \in Handlers, Write(h)
       PROVE  Quiet(h)
  <2> DEFINE r == req[h]
  <2>1. r # Null /\ Step(h, NextStage(r)) /\ UNCHANGED versions
    BY <1>10 DEF Write
  <2>2. r \in Operation
    BY <1>5, <2>1
  <2>3. NextStage(r) # Null => NextStage(r).phase # "create"
    BY <1>7, <2>2 DEF NextStage, Operation
  <2> QED BY <2>1, <2>3
<1>11. ASSUME NEW h \in Handlers, NEW k \in Captured, Apply(h, k)
       PROVE  Quiet(h)
  <2> DEFINE r == req[h]
             rest == [r EXCEPT !.todo = Without(r.todo, k)]
  <2>1. /\ r # Null /\ r.phase = "apply" /\ UNCHANGED versions
        /\ Step(h, Capturing(r)) \/ Step(h, rest)
    BY <1>11 DEF Apply
  <2>2. r \in Operation
    BY <1>5, <2>1
  <2>3. rest.phase = "apply" /\ Capturing(r).phase = "capture"
    BY <1>6, <2>1, <2>2 DEF Operation
  <2> QED BY <2>1, <2>3
<1>12. ASSUME NEW h \in Handlers, Fail(h)
       PROVE  Quiet(h)
  BY <1>12 DEF Fail
<1> HIDE DEF Quiet
<1>13. ASSUME Next
       PROVE  \E h \in Handlers : Create(h) \/ Number(h) \/ Quiet(h)
  BY <1>1, <1>2, <1>3, <1>4, <1>8, <1>9, <1>10, <1>11, <1>12, <1>13,
     StageRuns DEF Next
<1> QED BY <1>13 DEF Quiet

(* Every step keeps both invariants. *)
LEMMA NextIInv == IInv /\ Numbered /\ [Next]_vars => IInv'
<1> SUFFICES ASSUME IInv, Numbered, [Next]_vars
             PROVE  IInv'
  OBVIOUS
<1>1. CASE UNCHANGED vars
  BY <1>1 DEF vars, IInv, Store, Rows, Flight
<1>2. LatestVersion \in Nat
  BY DEF Numbered
<1>3. CASE Next
  BY <1>2, <1>3, GenerateIInv, EditIInv, RefineIInv, RestoreIInv, FetchIInv,
     ConsultIInv, WriteIInv, ApplyIInv, NumberIInv, CreateIInv, FailIInv,
     StageRuns DEF Next
<1> QED BY <1>1, <1>3

(* The number picked is the one after the latest. *)
LEMMA NumberNumbered ==
    ASSUME IInv, Numbered, NEW h \in Handlers, Number(h)
    PROVE  Numbered'
<1> DEFINE next == LatestVersion + 1
           n == [req[h] EXCEPT !.phase = "create", !.number = next]
<1>1. /\ req[h] # Null /\ UNCHANGED versions
      /\ Step(h, Null) \/ Step(h, n)
  BY DEF Number
<1>2. req[h] \in Operation
  BY <1>1 DEF IInv, Flight, Sound
<1>3. n.number = next
  BY <1>2 DEF Operation
<1> HIDE DEF n
<1>4. LatestVersion' = LatestVersion
  BY <1>1 DEF LatestVersion
<1>5. \A g \in Handlers : g # h => req'[g] = req[g]
  BY <1>1 DEF IInv, Flight, Step
<1>6. req'[h] = Null \/ req'[h] = n
  BY <1>1 DEF IInv, Flight, Step
<1>7. next \in 1 .. LatestVersion + 1
  BY DEF Numbered
<1> HIDE DEF next
<1> QED BY <1>1, <1>3, <1>4, <1>5, <1>6, <1>7 DEF Numbered

(* The unique index: either the number was taken and nothing changes, or it *)
(* is the next one.                                                         *)
LEMMA CreateNumbered ==
    ASSUME IInv, Numbered, NEW h \in Handlers, Create(h)
    PROVE  Numbered'
<1> DEFINE n == req[h].number
           last == LatestVersion
<1>1. /\ req[h] # Null /\ req[h].phase = "create" /\ Step(h, Null)
      /\ n \in DOMAIN versions => UNCHANGED versions
      /\ n \notin DOMAIN versions => DOMAIN versions' = DOMAIN versions \cup {n}
  BY DEF Create
<1>2. last \in Nat /\ DOMAIN versions = 1 .. last /\ n \in 1 .. last + 1
  BY <1>1 DEF Numbered
<1>3. \A g \in Handlers : req'[g] = IF g = h THEN Null ELSE req[g]
  BY <1>1 DEF IInv, Flight, Step
<1>4. CASE n \in DOMAIN versions
  <2>1. LatestVersion' = last
    BY <1>1, <1>4 DEF LatestVersion
  <2> QED BY <1>1, <1>3, <1>4, <2>1 DEF Numbered
<1>5. CASE n \notin DOMAIN versions
  <2>1. n = last + 1
    BY <1>2, <1>5
  <2>2. DOMAIN versions' = 1 .. last + 1
    BY <1>1, <1>2, <1>5, <2>1
  <2>3. LatestVersion' = last + 1
    <3> DEFINE D == DOMAIN versions'
               k == last + 1
    <3>1. LatestVersion' = LastOf(D)
      BY DEF LatestVersion, LastOf
    <3>2. k \in Nat /\ D = 1 .. k
      BY <1>2, <2>2
    <3> HIDE DEF D, k
    <3>3. LatestVersion' = k
      BY <3>1, <3>2, LastOfInterval
    <3> QED BY <3>3 DEF k
  <2>4. ASSUME NEW g \in Handlers, req'[g] # Null, req'[g].phase = "create"
        PROVE  req'[g].number \in 1 .. last + 2
    <3>1. req'[g] = req[g]
      BY <1>3, <2>4
    <3>2. req[g].number \in 1 .. last + 1
      BY <2>4, <3>1 DEF Numbered
    <3> QED BY <1>2, <3>1, <3>2
  <2> HIDE DEF last
  <2>5. last + 1 \in Nat /\ (last + 1) + 1 = last + 2
    BY <1>2
  <2> QED BY <2>2, <2>3, <2>4, <2>5 DEF Numbered
<1> QED BY <1>4, <1>5

(* Every step keeps the numbering. *)
LEMMA NextNumbered == IInv /\ Numbered /\ [Next]_vars => Numbered'
<1> SUFFICES ASSUME IInv, Numbered, [Next]_vars
             PROVE  Numbered'
  OBVIOUS
<1>1. CASE UNCHANGED vars
  BY <1>1 DEF vars, Numbered, LatestVersion
<1>2. CASE \E h \in Handlers : Create(h)
  BY <1>2, CreateNumbered
<1>3. CASE \E h \in Handlers : Number(h)
  BY <1>3, NumberNumbered
<1>4. CASE /\ UNCHANGED versions
           /\ \E h \in Handlers : \E r :
                Step(h, r) /\ (r # Null => r.phase # "create")
  BY <1>4, NumberedStep DEF IInv
<1> QED BY <1>1, <1>2, <1>3, <1>4, OtherSteps

(* Both invariants hold in every reachable state. *)
LEMMA Invariance == Spec => [](IInv /\ Numbered)
<1>1. Init => IInv /\ Numbered
  BY InitIInv, InitNumbered
<1>2. (IInv /\ Numbered) /\ [Next]_vars => (IInv /\ Numbered)'
  BY NextIInv, NextNumbered
<1> QED BY <1>1, <1>2, PTL DEF Spec

-----------------------------------------------------------------------------
(* The theorems                                                             *)

(* The stored documents, the versions and the operations in flight always   *)
(* have their types.                                                        *)
THEOREM TypeCorrect == Spec => []TypeOK
<1>1. IInv => TypeOK
  <2> SUFFICES ASSUME IInv
               PROVE  TypeOK
    OBVIOUS
  <2>1. req \in [Handlers -> Operation \cup {Null}]
    BY DEF IInv, Flight, Sound
  <2> QED BY <2>1 DEF IInv, Store, Rows, TypeOK
<1> QED BY <1>1, Invariance, PTL

(* A derived artifact that reads as fresh was written from exactly the      *)
(* current texts of its sources, for any number of concurrent operations,   *)
(* failures and restores.                                                   *)
THEOREM FreshnessSound == Spec => []FreshMeansCurrent
<1>1. IInv => FreshMeansCurrent
  <2> SUFFICES ASSUME IInv, NEW d \in Derived, doc[d] # Null,
                      ~IsStale(d, doc[d], Revisions(doc)), NEW k \in Sources(d)
               PROVE  doc[k] # Null /\ doc[d].from[k] = doc[k].text
    BY DEF FreshMeansCurrent
  <2>1. d \in Artifact /\ k \in Chain /\ k \in Artifact
    BY Tables
  <2>2. Good(d, doc[d]) /\ doc \in [Artifact -> Document \cup {Null}]
    BY <2>1 DEF IInv, Store, GoodDocs
  <2>3. /\ doc[d].stamp \in [Chain -> Revision]
        /\ doc[d].stamp[k] \in Nat /\ doc[d].from[k] = doc[d].stamp[k]
    BY <2>2 DEF Good
  <2>4. doc[d].stamp = UpstreamStamp(d, Revisions(doc))
    BY <2>3, NullAssumption DEF IsStale
  <2>5. doc[d].stamp[k] = Revisions(doc)[k]
    BY <2>1, <2>2, <2>4, RevisionsTyped, StampTyped
  <2>6. doc[k] # Null
    BY <2>1, <2>3, <2>5, NullAssumption DEF Revisions
  <2>7. doc[k].at = doc[k].text
    BY <2>1, <2>6 DEF IInv, Store, GoodDocs, Good
  <2> QED BY <2>1, <2>2, <2>3, <2>5, <2>6, <2>7, RevisionsTyped
<1> QED BY <1>1, Invariance, PTL

(* Versions are numbered from 1 without a gap. *)
THEOREM NoGaps == Spec => []VersionsDense
<1>1. Numbered => VersionsDense
  BY DEF Numbered, VersionsDense
<1> QED BY <1>1, Invariance, PTL

(* No step changes or removes a version. *)
THEOREM HistoryKept == Spec => VersionsImmutable
<1>1. IInv /\ [Next]_vars =>
        [/\ DOMAIN versions \subseteq DOMAIN versions'
         /\ \A n \in DOMAIN versions : versions'[n] = versions[n]]_vars
  <2> SUFFICES ASSUME IInv, [Next]_vars, ~UNCHANGED vars
               PROVE  /\ DOMAIN versions \subseteq DOMAIN versions'
                      /\ \A n \in DOMAIN versions : versions'[n] = versions[n]
    OBVIOUS
  <2>1. CASE UNCHANGED versions
    BY <2>1
  <2>2. CASE \E h \in Handlers : Create(h)
    BY <2>2 DEF Create
  <2>3. CASE \E h \in Handlers : Number(h)
    BY <2>3 DEF Number
  <2> QED BY <2>1, <2>2, <2>3, OtherSteps
<1> QED BY <1>1, Invariance, PTL DEF Spec, VersionsImmutable

-----------------------------------------------------------------------------
(* The history of the project                                               *)

Founded == doc["requirements"] # Null

(* An operation that is past its first stage, or replaces or captures the   *)
(* project, runs on a project that has requirements; one that only starts   *)
(* will find out.  Whether the project is founded is a parameter, because   *)
(* once it is, it stays so.                                                 *)
RootedOp(r, founded) ==
    /\ r.phase = "read" /\ Pending(r.todo, "review") => founded
    /\ r.phase \in {"read", "write"} /\ r.stages[1] # "requirements" =>
         founded \/ \E k \in Chain : Pending(r.todo, k)
    /\ r.phase \in {"apply", "capture", "create"} => founded
    /\ r.phase \in {"apply", "create"} => r.seen["requirements"] # Null
    /\ r.phase = "capture" =>
         r.seen["requirements"] # Null \/ Pending(r.todo, "requirements")

(* The inductive invariant of the history: whatever exists, the             *)
(* requirements exist, in the project and in each of its versions.          *)
Rooted ==
    /\ \A k \in Captured : doc[k] # Null => Founded
    /\ \A n \in DOMAIN versions : Founded /\ versions[n]["requirements"] # Null
    /\ \A h \in Handlers : req[h] # Null => RootedOp(req[h], Founded)

(* What is still to be read was to be read before. *)
LEMMA WithoutLess ==
    ASSUME NEW todo \in Seq(SUBSET Artifact), todo # <<>>, NEW k \in Head(todo)
    PROVE  \A j : Pending(Without(todo, k), j) => Pending(todo, j)
<1>1. CASE Head(todo) = {k}
  <2>1. Without(todo, k) = Tail(todo)
    BY <1>1 DEF Without
  <2>2. ASSUME NEW i \in DOMAIN Tail(todo)
        PROVE  i + 1 \in DOMAIN todo /\ todo[i + 1] = Tail(todo)[i]
    BY <2>2
  <2> QED BY <2>1, <2>2 DEF Pending
<1>2. CASE Head(todo) # {k}
  <2>1. Without(todo, k) = [todo EXCEPT ![1] = @ \ {k}]
    BY <1>2 DEF Without
  <2>2. /\ DOMAIN Without(todo, k) = DOMAIN todo
        /\ \A i \in DOMAIN todo : Without(todo, k)[i] \subseteq todo[i]
    BY <2>1
  <2> QED BY <2>2 DEF Pending
<1> QED BY <1>1, <1>2

(* generate() of a stage does not read the review, and reads at least one   *)
(* design unless it writes the first.                                       *)
LEMMA UpstreamRooted ==
    ASSUME NEW s \in Artifact
    PROVE  /\ ~Pending(Upstream(s), "review")
           /\ s # "requirements" => \E k \in Chain : Pending(Upstream(s), k)
<1>1. "review" \notin Chain
  BY DEF Chain
<1>2. CASE s = "requirements"
  BY <1>2 DEF Upstream, RequirementsReads, Pending
<1>3. CASE s = "systemDesign"
  <2>1. Upstream(s) = <<{"requirements"}>>
    BY <1>3 DEF Upstream, SystemDesignReads
  <2> QED BY <2>1, Tables DEF Pending
<1>4. CASE s = "databaseDesign"
  <2>1. Upstream(s) = <<{"systemDesign"}, {"requirements"}>>
    BY <1>4 DEF Upstream, DatabaseDesignReads
  <2>2. Upstream(s)[2] = {"requirements"} /\ DOMAIN Upstream(s) = {1, 2}
    BY <2>1
  <2>3. Upstream(s)[1] = {"systemDesign"}
    BY <2>1
  <2> QED BY <2>2, <2>3, Tables DEF Pending
<1>5. CASE s = "apiDesign"
  <2>1. Upstream(s) = <<{"databaseDesign"}, {"systemDesign"}, {"requirements"}>>
    BY <1>5 DEF Upstream, ApiDesignReads
  <2>2. Upstream(s)[3] = {"requirements"} /\ DOMAIN Upstream(s) = {1, 2, 3}
    BY <2>1
  <2>3. Upstream(s)[1] = {"databaseDesign"} /\ Upstream(s)[2] = {"systemDesign"}
    BY <2>1
  <2> QED BY <2>2, <2>3, Tables DEF Pending
<1>6. CASE s \notin Chain
  <2> DEFINE rest == Sources(s) \ {"apiDesign"}
  <2>1. Upstream(s) = <<{"apiDesign"}, rest>>
    <3>1. s \in {"review", "roadmap", "costEstimate", "threatModel", "qaPlan"}
      BY <1>6, ConstantsAssumption DEF Artifact, Derived
    <3> QED BY <3>1 DEF Upstream, Sources, Chain, ReviewReads, RoadmapReads,
              CostEstimateReads, ThreatModelReads, QaPlanReads
  <2>2. rest \subseteq Chain
    BY Tables
  <2> HIDE DEF rest
  <2>3. /\ DOMAIN Upstream(s) = {1, 2}
        /\ Upstream(s)[1] = {"apiDesign"} /\ Upstream(s)[2] = rest
    BY <2>1
  <2> QED BY <1>1, <2>2, <2>3, Tables DEF Pending
<1> QED BY <1>2, <1>3, <1>4, <1>5, <1>6 DEF Chain

(* Neither does an operation that starts. *)
LEMMA BeginRooted ==
    ASSUME NEW op \in {"generate", "edit", "refine"}, NEW cut \in BOOLEAN,
           NEW s \in Artifact, NEW stages, Head(stages) = s, stages[1] = s,
           op = "edit" => s \in Chain, op = "refine" => s = "requirements",
           NEW founded
    PROVE  RootedOp(Begin(op, stages, cut), founded)
<1> DEFINE r == Begin(op, stages, cut)
<1>1. /\ r.phase = "read" /\ r.stages[1] = s /\ r.todo = Reads(op, s)
  BY DEF Begin
<1>2. "review" \notin Chain
  BY DEF Chain
<1>3. /\ ~Pending(Reads(op, s), "review")
      /\ s # "requirements" => \E k \in Chain : Pending(Reads(op, s), k)
  <2>1. CASE op = "generate"
    BY <2>1, UpstreamRooted DEF Reads
  <2>2. CASE op = "edit"
    <3>1. Reads(op, s) = <<{s}>>
      BY <2>2 DEF Reads
    <3> QED BY <1>2, <2>2, <3>1 DEF Pending
  <2>3. CASE op = "refine"
    <3>1. Reads(op, s) = <<{"requirements"}, {"apiDesign"}>>
      BY <2>3 DEF Reads
    <3>2. /\ DOMAIN Reads(op, s) = {1, 2}
          /\ Reads(op, s)[1] = {"requirements"} /\ Reads(op, s)[2] = {"apiDesign"}
      BY <3>1
    <3> QED BY <2>3, <3>2 DEF Pending
  <2> QED BY <2>1, <2>2, <2>3
<1> HIDE DEF r
<1>4. RootedOp(r, founded)
  BY <1>1, <1>3 DEF RootedOp
<1> QED BY <1>4 DEF r

(* On a founded project an operation may read on, or snapshot. *)
LEMMA FoundedRooted ==
    ASSUME NEW r \in Operation, NEW founded, founded
    PROVE  /\ RootedOp(Capturing(r), founded)
           /\ Finished(r) # Null => RootedOp(Finished(r), founded)
           /\ NextStage(r) # Null => RootedOp(NextStage(r), founded)
<1>1. RootedOp(Capturing(r), founded)
  <2> DEFINE c == Capturing(r)
  <2>1. c.phase = "capture" /\ c.todo = <<Captured>>
    BY DEF Capturing, Operation
  <2>2. Pending(c.todo, "requirements")
    BY <2>1, Tables DEF Pending
  <2> HIDE DEF c
  <2>3. RootedOp(c, founded)
    BY <2>1, <2>2 DEF RootedOp
  <2> QED BY <2>3 DEF c
<1>2. Finished(r) # Null => RootedOp(Finished(r), founded)
  BY <1>1 DEF Finished
<1>3. CASE Len(r.stages) = 1
  BY <1>1, <1>2, <1>3 DEF NextStage
<1>4. CASE Len(r.stages) # 1
  <2> DEFINE n == NextStage(r)
  <2>1. n.phase = "read"
    BY <1>4 DEF NextStage, Operation
  <2> HIDE DEF n
  <2>2. RootedOp(n, founded)
    BY <2>1 DEF RootedOp
  <2> QED BY <1>1, <1>2, <2>2 DEF n
<1> QED BY <1>1, <1>2, <1>3, <1>4

(* A step that moves one operation, and leaves what was founded founded. *)
LEMMA RootedStep ==
    ASSUME IInv, Rooted, NEW h \in Handlers, NEW r, Step(h, r),
           r # Null => RootedOp(r, Founded'),
           Founded => Founded', UNCHANGED versions,
           \A k \in Captured : doc'[k] # Null => Founded'
    PROVE  Rooted'
<1>1. \A g \in Handlers : req'[g] = IF g = h THEN r ELSE req[g]
  BY DEF IInv, Flight, Step
<1>2. ASSUME NEW g \in Handlers, req'[g] # Null
      PROVE  RootedOp(req'[g], Founded')
  <2>1. CASE g = h
    BY <1>1, <1>2, <2>1
  <2>2. CASE g # h
    <3>1. req'[g] = req[g] /\ RootedOp(req[g], Founded)
      BY <1>1, <1>2, <2>2 DEF Rooted
    <3> HIDE DEF Founded
    <3> QED BY <3>1 DEF RootedOp
  <2> QED BY <2>1, <2>2
<1> QED BY <1>2 DEF Rooted

(* So does one that writes no document. *)
LEMMA RootedQuiet ==
    ASSUME IInv, Rooted, NEW h \in Handlers, NEW r, Step(h, r),
           r # Null => RootedOp(r, Founded), UNCHANGED <<doc, versions>>
    PROVE  Rooted'
<1>1. Founded' = Founded
  BY DEF Founded
<1>2. \A k \in Captured : doc'[k] # Null => Founded'
  BY <1>1 DEF Rooted
<1> QED BY <1>1, <1>2, RootedStep

(* Starting an operation; a version to restore holds the requirements. *)
LEMMA StartRooted ==
    ASSUME IInv, Rooted, NEW h \in Handlers,
           \/ \E s \in Artifact : \E cut \in BOOLEAN : Generate(h, s, cut)
           \/ \E k \in Chain : Edit(h, k)
           \/ Refine(h)
           \/ \E n \in DOMAIN versions : Restore(h, n)
    PROVE  Rooted'
<1>1. ASSUME NEW s \in Artifact, NEW cut \in BOOLEAN, Generate(h, s, cut)
      PROVE  Rooted'
  <2>1. Head(<<s>>) = s /\ <<s>>[1] = s
    OBVIOUS
  <2>2. RootedOp(Begin("generate", <<s>>, cut), Founded)
    BY <2>1, BeginRooted
  <2> QED BY <1>1, <2>2, RootedQuiet DEF Generate
<1>2. ASSUME NEW k \in Chain, Edit(h, k)
      PROVE  Rooted'
  <2>1. Head(<<k>>) = k /\ <<k>>[1] = k /\ k \in Artifact
    BY Tables
  <2>2. RootedOp(Begin("edit", <<k>>, FALSE), Founded)
    BY <2>1, BeginRooted
  <2> QED BY <1>2, <2>2, RootedQuiet DEF Edit
<1>3. CASE Refine(h)
  <2>1. /\ Head(RefineStages) = "requirements"
        /\ RefineStages[1] = "requirements" /\ "requirements" \in Artifact
    BY Tables DEF RefineStages
  <2>2. RootedOp(Begin("refine", RefineStages, TRUE), Founded)
    BY <2>1, BeginRooted
  <2> QED BY <1>3, <2>2, RootedQuiet DEF Refine
<1>4. ASSUME NEW n \in DOMAIN versions, Restore(h, n)
      PROVE  Rooted'
  <2> DEFINE r == [op |-> "restore", phase |-> "apply", stages |-> <<>>,
                   todo |-> <<Captured>>,
                   seen |-> [a \in Artifact |->
                               IF a \in Captured THEN versions[n][a] ELSE Null],
                   at |-> 0, number |-> n, cut |-> TRUE]
  <2>1. Step(h, r) /\ UNCHANGED <<doc, versions>>
    BY <1>4 DEF Restore
  <2>2. r.phase = "apply" /\ r.seen["requirements"] = versions[n]["requirements"]
    BY Tables
  <2> HIDE DEF r
  <2>3. RootedOp(r, Founded)
    BY <2>2 DEF Rooted, RootedOp
  <2> QED BY <2>1, <2>3, RootedQuiet
<1> QED BY <1>1, <1>2, <1>3, <1>4

(* A document found is one more reason the project is founded. *)
LEMMA FetchRooted ==
    ASSUME IInv, Rooted, NEW h \in Handlers, NEW k \in Artifact, Fetch(h, k)
    PROVE  Rooted'
<1> DEFINE r == req[h]
           todo == Without(r.todo, k)
           seen == [r.seen EXCEPT ![k] = doc[k]]
           n == [r EXCEPT !.todo = todo, !.seen = seen]
<1>1. /\ r # Null /\ r.phase \in {"read", "capture"}
      /\ r.todo # <<>> /\ k \in Head(r.todo)
      /\ UNCHANGED <<doc, versions>>
      /\ \/ Step(h, n) /\ (doc[k] # Null \/ r.phase = "capture")
         \/ Step(h, Finished(r)) /\ k = "review" /\ r.phase = "read"
         \/ Step(h, Null)
  BY DEF Fetch
<1>2. r \in Operation /\ RootedOp(r, Founded)
  BY <1>1 DEF IInv, Flight, Sound, Rooted
<1>3. /\ r.todo \in Seq(SUBSET Artifact)
      /\ r.seen \in [Artifact -> Document \cup {Null}]
  BY <1>2 DEF Operation
<1>4. CASE Step(h, n) /\ (doc[k] # Null \/ r.phase = "capture")
  <2>1. /\ n.phase = r.phase /\ n.stages = r.stages
        /\ n.todo = todo /\ n.seen = seen
    BY <1>2 DEF Operation
  <2>2. /\ \A j : Pending(todo, j) => Pending(r.todo, j)
        /\ \A j : Pending(r.todo, j) => j = k \/ Pending(todo, j)
    BY <1>1, <1>3, WithoutLess, WithoutRest
  <2>3. k \in Chain /\ r.phase = "read" => Founded
    BY <1>4, Tables DEF Rooted
  <2>4. r.phase = "capture" =>
          seen["requirements"] = IF k = "requirements" THEN doc[k]
                                 ELSE r.seen["requirements"]
    BY <1>3, Tables
  <2> HIDE DEF n, todo, seen
  <2>5. RootedOp(n, Founded)
    <3>1. CASE r.phase = "read"
      BY <1>2, <2>1, <2>2, <2>3, <3>1 DEF RootedOp
    <3>2. CASE r.phase = "capture"
      BY <1>2, <2>1, <2>2, <2>4, <3>2 DEF RootedOp, Founded
    <3> QED BY <1>1, <3>1, <3>2
  <2> QED BY <1>1, <1>4, <2>5, RootedQuiet
<1>5. CASE Step(h, Finished(r)) /\ k = "review" /\ r.phase = "read"
  <2>1. 1 \in DOMAIN r.todo /\ r.todo[1] = Head(r.todo)
    BY <1>1, <1>3
  <2>2. Pending(r.todo, "review")
    BY <1>1, <1>5, <2>1 DEF Pending
  <2>3. Founded
    BY <1>2, <1>5, <2>2 DEF RootedOp
  <2> QED BY <1>1, <1>2, <1>5, <2>3, FoundedRooted, RootedQuiet
<1>6. CASE Step(h, Null)
  BY <1>1, <1>6, RootedQuiet
<1> QED BY <1>1, <1>4, <1>5, <1>6

(* An operation that has read all it needs writes on a founded project, or  *)
(* founds it.                                                               *)
LEMMA WriteRooted ==
    ASSUME IInv, Rooted, NEW h \in Handlers, Consult(h) \/ Write(h)
    PROVE  Rooted'
<1> DEFINE r == req[h]
<1>1. /\ r # Null /\ r.phase \in {"read", "write"} /\ UNCHANGED versions
  BY DEF Consult, Write
<1>2. Sound(r) /\ r \in Operation /\ Working(r) /\ RootedOp(r, Founded)
  BY <1>1 DEF IInv, Flight, Sound, Rooted
<1>3. CASE Consult(h)
  <2> DEFINE n == [r EXCEPT !.phase = "write", !.at = clock + 1]
  <2>1. Step(h, n) /\ UNCHANGED <<doc, versions>>
    BY <1>3 DEF Consult
  <2>2. n.phase = "write" /\ n.todo = r.todo /\ n.stages = r.stages
    BY <1>2 DEF Operation
  <2> HIDE DEF n
  <2>3. RootedOp(n, Founded)
    BY <1>1, <1>2, <2>2 DEF RootedOp
  <2> QED BY <2>1, <2>3, RootedQuiet
<1>4. CASE Write(h)
  <2> DEFINE s == Head(r.stages)
             x == Written(r)
  <2>1. /\ r.phase = "write" /\ doc' = [doc EXCEPT ![s] = x]
        /\ Step(h, NextStage(r))
    BY <1>4 DEF Write
  <2>2. s \in Artifact /\ x # Null
    BY <1>2, <2>1, WrittenGood, NullAssumption
  <2>3. s = r.stages[1] /\ r.todo = <<>>
    BY <1>2, <2>1 DEF Working, Operation
  <2>4. s # "requirements" => Founded
    <3>1. \A k : ~Pending(r.todo, k)
      BY <2>3 DEF Pending
    <3> QED BY <1>2, <2>1, <2>3, <3>1 DEF RootedOp
  <2> HIDE DEF s, x
  <2>5. Founded'
    <3>1. doc \in [Artifact -> Document \cup {Null}] /\ "requirements" \in Artifact
      BY Tables DEF IInv, Store
    <3> QED BY <2>1, <2>2, <2>4, <3>1 DEF Founded
  <2>6. NextStage(r) # Null => RootedOp(NextStage(r), Founded')
    BY <1>2, <2>5, FoundedRooted
  <2> QED BY <1>1, <2>1, <2>5, <2>6, RootedStep
<1> QED BY <1>3, <1>4

(* A restore brings requirements of its own. *)
LEMMA ApplyRooted ==
    ASSUME IInv, Rooted, NEW h \in Handlers, NEW k \in Captured, Apply(h, k)
    PROVE  Rooted'
<1> DEFINE r == req[h]
           rest == [r EXCEPT !.todo = Without(r.todo, k)]
<1>1. /\ r # Null /\ r.phase = "apply" /\ UNCHANGED versions
      /\ doc' = [doc EXCEPT ![k] = r.seen[k]]
      /\ Step(h, Capturing(r)) \/ Step(h, rest)
  BY DEF Apply
<1>2. r \in Operation /\ RootedOp(r, Founded)
  BY <1>1 DEF IInv, Flight, Sound, Rooted
<1>3. Founded /\ r.seen["requirements"] # Null
  BY <1>1, <1>2 DEF RootedOp
<1>4. Founded'
  <2>1. doc \in [Artifact -> Document \cup {Null}] /\ "requirements" \in Artifact
    BY Tables DEF IInv, Store
  <2> QED BY <1>1, <1>3, <2>1 DEF Founded
<1>5. RootedOp(Capturing(r), Founded')
  BY <1>2, <1>4, FoundedRooted
<1>6. RootedOp(rest, Founded')
  <2>1. rest.phase = "apply" /\ rest.seen = r.seen
    BY <1>1, <1>2 DEF Operation
  <2> HIDE DEF rest
  <2> QED BY <1>3, <1>4, <2>1 DEF RootedOp
<1> HIDE DEF rest
<1> QED BY <1>1, <1>4, <1>5, <1>6, RootedStep

(* The row that is inserted was read from a founded project. *)
LEMMA CutRooted ==
    ASSUME IInv, Rooted, NEW h \in Handlers, Number(h) \/ Create(h)
    PROVE  Rooted'
<1> DEFINE r == req[h]
<1>1. r # Null /\ UNCHANGED doc
  BY DEF Number, Create
<1>2. r \in Operation /\ RootedOp(r, Founded)
  BY <1>1 DEF IInv, Flight, Sound, Rooted
<1>3. CASE Number(h)
  <2> DEFINE n == [r EXCEPT !.phase = "create", !.number = LatestVersion + 1]
  <2>1. /\ r.phase = "capture" /\ r.todo = <<>> /\ UNCHANGED versions
        /\ Step(h, Null) \/ Step(h, n)
    BY <1>3 DEF Number
  <2>2. n.phase = "create" /\ n.seen = r.seen
    BY <1>2 DEF Operation
  <2>3. ~Pending(r.todo, "requirements")
    BY <2>1 DEF Pending
  <2> HIDE DEF n
  <2>4. RootedOp(n, Founded)
    BY <1>2, <2>1, <2>2, <2>3 DEF RootedOp
  <2> QED BY <1>1, <2>1, <2>4, RootedQuiet
<1>4. CASE Create(h)
  <2>1. /\ r.phase = "create" /\ Step(h, Null)
        /\ \A n \in DOMAIN versions' :
             \/ versions'[n] = SnapshotOf(r.seen)
             \/ n \in DOMAIN versions /\ versions'[n] = versions[n]
    BY <1>4 DEF Create
  <2>2. Founded /\ r.seen["requirements"] # Null
    BY <1>2, <2>1 DEF RootedOp
  <2>3. SnapshotOf(r.seen)["requirements"] # Null
    BY <2>2, Tables DEF SnapshotOf
  <2>4. Founded'
    BY <1>1, <2>2 DEF Founded
  <2>5. \A n \in DOMAIN versions' : versions'[n]["requirements"] # Null
    BY <2>1, <2>3 DEF Rooted
  <2>6. \A g \in Handlers : req'[g] = IF g = h THEN Null ELSE req[g]
    BY <2>1 DEF IInv, Flight, Step
  <2>7. Founded' = Founded
    BY <1>1 DEF Founded
  <2> QED BY <1>1, <2>4, <2>5, <2>6, <2>7 DEF Rooted
<1> QED BY <1>3, <1>4

(* Every step keeps it. *)
LEMMA NextRooted == IInv /\ Rooted /\ [Next]_vars => Rooted'
<1> SUFFICES ASSUME IInv, Rooted, [Next]_vars
             PROVE  Rooted'
  OBVIOUS
<1>1. CASE UNCHANGED vars
  BY <1>1 DEF vars, Rooted, Founded
<1>2. ASSUME NEW h \in Handlers, Fail(h)
      PROVE  Rooted'
  BY <1>2, RootedQuiet DEF Fail
<1>3. CASE Next
  BY <1>2, <1>3, StageRuns, StartRooted, FetchRooted, WriteRooted, ApplyRooted,
     CutRooted DEF Next
<1> QED BY <1>1, <1>3

(* It holds at the start. *)
LEMMA InitRooted == Init => Rooted
<1> SUFFICES ASSUME Init
             PROVE  Rooted
  OBVIOUS
<1>1. /\ \A k \in Captured : doc[k] = Null
      /\ DOMAIN versions = {} /\ \A h \in Handlers : req[h] = Null
  BY Tables DEF Init, Nothing
<1> QED BY <1>1 DEF Rooted

(* A step of the project is a step of the history it keeps, or a stutter.   *)
LEMMA StepRefines ==
    ASSUME IInv, Numbered, Rooted, versions \in Seq(Snapshot), [Next]_vars
    PROVE  [Log!Cut]_versions /\ versions' \in Seq(Snapshot)
<1> DEFINE last == LatestVersion
<1>1. last \in Nat /\ DOMAIN versions = 1 .. last /\ Len(versions) = last
  BY DEF Numbered
<1>2. ASSUME NEW h \in Handlers, Create(h)
      PROVE  [Log!Cut]_versions /\ versions' \in Seq(Snapshot)
  <2> DEFINE n == req[h].number
             snapshot == SnapshotOf(req[h].seen)
  <2>1. /\ req[h] # Null /\ req[h].phase = "create"
        /\ n \in DOMAIN versions => UNCHANGED versions
        /\ n \notin DOMAIN versions =>
              versions' = [m \in DOMAIN versions \cup {n} |->
                             IF m = n THEN snapshot ELSE versions[m]]
    BY <1>2 DEF Create
  <2>2. n \in 1 .. last + 1
    BY <1>2, <2>1 DEF Numbered
  <2>3. snapshot \in Versions
    <3>1. req[h] \in Operation /\ req[h].seen["requirements"] # Null
      BY <2>1 DEF IInv, Flight, Sound, Rooted, RootedOp
    <3> QED BY <3>1, Tables DEF Operation, SnapshotOf, Snapshot, Versions
  <2>4. snapshot \in Snapshot
    BY <2>3 DEF Versions
  <2> HIDE DEF n, snapshot, last
  <2>5. CASE n \in DOMAIN versions
    BY <2>1, <2>5
  <2>6. CASE n \notin DOMAIN versions
    <3>1. n = last + 1
      BY <1>1, <2>2, <2>6
    <3>2. versions' = [m \in 1 .. last + 1 |->
                         IF m = last + 1 THEN snapshot ELSE versions[m]]
      <4>1. DOMAIN versions \cup {n} = 1 .. last + 1
        BY <1>1, <3>1
      <4> QED BY <2>1, <2>6, <3>1, <4>1
    <3>3. \A m \in 1 .. last : versions[m] \in Snapshot
      BY <1>1
    <3>4. versions' \in [1 .. last + 1 -> Snapshot]
      <4>1. ASSUME NEW m \in 1 .. last + 1
            PROVE  (IF m = last + 1 THEN snapshot ELSE versions[m]) \in Snapshot
        BY <1>1, <2>4, <3>3
      <4> QED BY <3>2, <4>1
    <3>5. versions' \in Seq(Snapshot) /\ Len(versions') = last + 1
      <4>1. last + 1 \in Nat
        BY <1>1
      <4>2. versions' \in Seq(Snapshot)
        BY <3>4, <4>1
      <4> QED BY <3>4, <4>1, <4>2
    <3>6. \A m \in 1 .. Len(versions) : versions'[m] = versions[m]
      BY <1>1, <3>2
    <3>7. versions'[Len(versions) + 1] \in Versions
      BY <1>1, <2>3, <3>2
    <3> QED BY <1>1, <3>5, <3>6, <3>7 DEF Log!Cut
  <2> QED BY <2>5, <2>6
<1>3. CASE UNCHANGED versions
  BY <1>3
<1>4. CASE \E h \in Handlers : Number(h)
  BY <1>3, <1>4 DEF Number
<1> QED BY <1>2, <1>3, <1>4, OtherSteps DEF vars

(* The project implements the history: the versions only grow, one at a     *)
(* time, and each can be carried on from, for any number of concurrent      *)
(* snapshots, restores and failures (versions.service.ts).                  *)
THEOREM VersionsRefineLog == Spec => ImplementsVersionLog
<1>1. Init => versions \in Seq(Snapshot) /\ Log!Init /\ Rooted
  BY InitRooted DEF Init, Log!Init
<1>2. IInv /\ Numbered /\ Rooted /\ versions \in Seq(Snapshot) /\ [Next]_vars
      => [Log!Cut]_versions /\ (versions \in Seq(Snapshot))' /\ Rooted'
  BY StepRefines, NextRooted
<1> QED BY <1>1, <1>2, Invariance, PTL
        DEF Spec, ImplementsVersionLog, Log!Spec

=============================================================================
