---------------------------- MODULE PipelineAlone ----------------------------
(* Theorems about a project served one operation at a time: what two in     *)
(* flight together would break.                                             *)
EXTENDS PipelineProofs

(* With one handler there is never an operation in flight beside another.   *)
OneAtATime == \A g, h \in Handlers : g = h

(* What an operation in flight knows of a project that nobody else changes: *)
(* a restore brings back the version it names, a snapshot is what is stored. *)
Tracked(r, docs, vs) ==
    /\ r.phase \in {"read", "write"} => r.op # "restore"
    /\ r.phase = "apply" =>
         /\ r.op = "restore" /\ r.number \in DOMAIN vs
         /\ \A k \in Captured :
              /\ r.seen[k] = vs[r.number][k]
              /\ Pending(r.todo, k) \/ docs[k] = r.seen[k]
    /\ r.phase = "capture" =>
         /\ r.op = "restore" => /\ r.number \in DOMAIN vs
                                /\ \A k \in Captured : docs[k] = vs[r.number][k]
         /\ \A k \in Captured : Pending(r.todo, k) \/ r.seen[k] = docs[k]
    /\ r.phase = "create" => \A k \in Captured : r.seen[k] = docs[k]

Alone == \A h \in Handlers : req[h] # Null => Tracked(req[h], doc, versions)

-----------------------------------------------------------------------------
(* Lemmas                                                                   *)

(* The only operation there is, replaced by one that is on track. *)
LEMMA AloneStep ==
    ASSUME OneAtATime, Flight, NEW h \in Handlers, NEW r, Step(h, r),
           r # Null => Tracked(r, doc', versions')
    PROVE  Alone'
<1>1. req' = [req EXCEPT ![h] = r]
  BY DEF Step
<1>2. \A g \in Handlers : req'[g] = r
  BY <1>1 DEF Flight, OneAtATime
<1> QED BY <1>2 DEF Alone

(* Everything a snapshot captures is to be read when it starts. *)
LEMMA AllPending == \A k \in Captured : Pending(<<Captured>>, k)
<1>1. 1 \in DOMAIN <<Captured>> /\ <<Captured>>[1] = Captured
  OBVIOUS
<1> QED BY <1>1 DEF Pending

(* Nothing is left when the list is empty. *)
LEMMA NonePending == \A k : ~Pending(<<>>, k)
BY DEF Pending

(* An operation that goes on to its snapshot keeps its track. *)
LEMMA CapturingTracked ==
    ASSUME NEW r \in Operation, NEW docs, NEW vs,
           r.op = "restore" =>
             /\ r.number \in DOMAIN vs
             /\ \A k \in Captured : docs[k] = vs[r.number][k]
    PROVE  Tracked(Capturing(r), docs, vs)
<1> DEFINE c == Capturing(r)
<1>1. /\ c.phase = "capture" /\ c.op = r.op /\ c.number = r.number
      /\ c.todo = <<Captured>>
  BY DEF Capturing, Operation
<1> HIDE DEF c
<1>2. Tracked(c, docs, vs)
  BY <1>1, AllPending DEF Tracked
<1> QED BY <1>2 DEF c

(* So does one that ends, or goes on to it. *)
LEMMA FinishedTracked ==
    ASSUME NEW r \in Operation, NEW docs, NEW vs, r.op # "restore"
    PROVE  Finished(r) # Null => Tracked(Finished(r), docs, vs)
BY CapturingTracked DEF Finished

(* An operation that reads on is on track unless it is a restore. *)
LEMMA ReadingTracked ==
    ASSUME NEW r, NEW docs, NEW vs, r.phase \in {"read", "write"}, r.op # "restore"
    PROVE  Tracked(r, docs, vs)
BY DEF Tracked

(* Between two stages an operation is on track. *)
LEMMA NextStageTracked ==
    ASSUME NEW r \in Operation, NEW docs, NEW vs, r.op # "restore"
    PROVE  NextStage(r) # Null => Tracked(NextStage(r), docs, vs)
<1>1. CASE Len(r.stages) = 1
  BY <1>1, FinishedTracked DEF NextStage
<1>2. CASE Len(r.stages) # 1
  <2> DEFINE n == NextStage(r)
  <2>1. n.phase = "read" /\ n.op = r.op
    BY <1>2 DEF NextStage, Operation
  <2> HIDE DEF n
  <2>2. Tracked(n, docs, vs)
    BY <2>1, ReadingTracked
  <2> QED BY <2>2 DEF n
<1> QED BY <1>1, <1>2

-----------------------------------------------------------------------------
(* The steps                                                                *)

(* Whatever begins is on track: a restore has everything left to apply. *)
LEMMA BeginAlone ==
    ASSUME OneAtATime, IInv, NEW h \in Handlers,
           \/ \E s \in Artifact, cut \in BOOLEAN : Generate(h, s, cut)
           \/ \E k \in Chain : Edit(h, k)
           \/ Refine(h)
    PROVE  Alone'
<1>1. \E op \in {"generate", "edit", "refine"} : \E stages, cut :
         Step(h, Begin(op, stages, cut))
  BY DEF Generate, Edit, Refine
<1>2. PICK op \in {"generate", "edit", "refine"} : \E stages, cut :
         Step(h, Begin(op, stages, cut))
  BY <1>1
<1>3. PICK stages, cut : Step(h, Begin(op, stages, cut))
  BY <1>2
<1> DEFINE r == Begin(op, stages, cut)
<1>4. r.phase = "read" /\ r.op # "restore"
  BY DEF Begin
<1> HIDE DEF r
<1>5. Tracked(r, doc', versions')
  BY <1>4, ReadingTracked
<1> QED BY <1>3, <1>5, AloneStep DEF IInv, r

(* A restore begins with all that it holds left to apply. *)
LEMMA RestoreAlone ==
    ASSUME OneAtATime, IInv, NEW h \in Handlers, NEW n \in DOMAIN versions,
           Restore(h, n)
    PROVE  Alone'
<1> DEFINE seen == [a \in Artifact |->
                      IF a \in Captured THEN versions[n][a] ELSE Null]
           r == [op |-> "restore", phase |-> "apply", stages |-> <<>>,
                 todo |-> <<Captured>>, seen |-> seen, at |-> 0, number |-> n,
                 cut |-> TRUE]
<1>1. Step(h, r) /\ UNCHANGED <<doc, versions>>
  BY DEF Restore
<1>2. \A k \in Captured : seen[k] = versions[n][k]
  BY Tables
<1> HIDE DEF seen
<1>3. /\ r.phase = "apply" /\ r.op = "restore" /\ r.number = n
      /\ r.seen = seen /\ r.todo = <<Captured>>
  OBVIOUS
<1> HIDE DEF r
<1>4. Tracked(r, doc', versions')
  BY <1>1, <1>2, <1>3, AllPending DEF Tracked
<1> QED BY <1>1, <1>4, AloneStep DEF IInv

(* A query: what it found is what is stored. *)
LEMMA FetchAlone ==
    ASSUME OneAtATime, IInv, Alone, NEW h \in Handlers, NEW k \in Artifact,
           Fetch(h, k)
    PROVE  Alone'
<1> DEFINE r == req[h]
           found == [r EXCEPT !.todo = Without(@, k), !.seen[k] = doc[k]]
<1>1. /\ r # Null /\ r.phase \in {"read", "capture"}
      /\ r.todo # <<>> /\ k \in Head(r.todo) /\ UNCHANGED <<doc, versions>>
      /\ \/ Step(h, found)
         \/ Step(h, Finished(r)) /\ r.phase = "read"
         \/ Step(h, Null)
  BY DEF Fetch
<1>2. r \in Operation /\ Tracked(r, doc, versions)
  BY <1>1 DEF IInv, Flight, Sound, Alone
<1>3. /\ r.todo \in Seq(SUBSET Artifact)
      /\ r.seen \in [Artifact -> Document \cup {Null}]
  BY <1>2 DEF Operation
<1>4. \A j : Pending(r.todo, j) => j = k \/ Pending(Without(r.todo, k), j)
  BY <1>1, <1>3, WithoutRest
<1>5. /\ found.phase = r.phase /\ found.op = r.op /\ found.number = r.number
      /\ found.todo = Without(r.todo, k)
      /\ found.seen = [r.seen EXCEPT ![k] = doc[k]]
  BY <1>2 DEF Operation
<1> DEFINE seen == [r.seen EXCEPT ![k] = doc[k]]
<1>6. \A j \in Artifact : seen[j] = IF j = k THEN doc[k] ELSE r.seen[j]
  BY <1>3
<1> HIDE DEF found, seen
<1>7. Tracked(found, doc, versions)
  <2>1. CASE r.phase = "read"
    BY <1>2, <1>5, <2>1, ReadingTracked DEF Tracked
  <2>2. CASE r.phase = "capture"
    <3>1. \A j \in Captured : Pending(found.todo, j) \/ found.seen[j] = doc[j]
      BY <1>2, <1>4, <1>5, <1>6, <2>2, Tables DEF Tracked, seen
    <3> QED BY <1>2, <1>5, <2>2, <3>1 DEF Tracked
  <2> QED BY <1>1, <2>1, <2>2
<1>8. r.phase = "read" /\ Finished(r) # Null => Tracked(Finished(r), doc, versions)
  BY <1>2, FinishedTracked DEF Tracked
<1> HIDE DEF r
<1> QED BY <1>1, <1>7, <1>8, AloneStep DEF IInv

(* The answer of the model stores nothing. *)
LEMMA ConsultAlone ==
    ASSUME OneAtATime, IInv, Alone, NEW h \in Handlers, Consult(h)
    PROVE  Alone'
<1> DEFINE r == req[h]
           n == [r EXCEPT !.phase = "write", !.at = clock + 1]
<1>1. r # Null /\ r.phase = "read" /\ Step(h, n)
  BY DEF Consult
<1>2. r \in Operation /\ Tracked(r, doc, versions)
  BY <1>1 DEF IInv, Flight, Sound, Alone
<1>3. n.phase = "write" /\ n.op = r.op /\ r.op # "restore"
  BY <1>1, <1>2 DEF Operation, Tracked
<1> HIDE DEF n
<1>4. Tracked(n, doc', versions')
  BY <1>3, ReadingTracked
<1> QED BY <1>1, <1>4, AloneStep DEF IInv

(* A stage that is written leaves no restore half way. *)
LEMMA WriteAlone ==
    ASSUME OneAtATime, IInv, Alone, NEW h \in Handlers, Write(h)
    PROVE  Alone'
<1> DEFINE r == req[h]
<1>1. r # Null /\ r.phase = "write" /\ Step(h, NextStage(r))
  BY DEF Write
<1>2. r \in Operation /\ Tracked(r, doc, versions)
  BY <1>1 DEF IInv, Flight, Sound, Alone
<1>3. r.op # "restore"
  BY <1>1, <1>2 DEF Tracked
<1>4. NextStage(r) # Null => Tracked(NextStage(r), doc', versions')
  BY <1>2, <1>3, NextStageTracked
<1> QED BY <1>1, <1>4, AloneStep DEF IInv

(* One upsert of a restore: when none is left the project is the version. *)
LEMMA ApplyAlone ==
    ASSUME OneAtATime, IInv, Alone, NEW h \in Handlers, NEW k \in Captured,
           Apply(h, k)
    PROVE  Alone'
<1> DEFINE r == req[h]
           todo == Without(r.todo, k)
           rest == [r EXCEPT !.todo = todo]
<1>1. /\ r # Null /\ r.phase = "apply" /\ r.todo # <<>> /\ k \in Head(r.todo)
      /\ doc' = [doc EXCEPT ![k] = r.seen[k]] /\ UNCHANGED versions
      /\ Step(h, IF todo = <<>> THEN Capturing(r) ELSE rest)
  BY DEF Apply
<1>2. r \in Operation /\ Tracked(r, doc, versions)
  BY <1>1 DEF IInv, Flight, Sound, Alone
<1>3. \A j : Pending(r.todo, j) => j = k \/ Pending(todo, j)
  BY <1>1, <1>2, WithoutRest DEF Operation
<1>4. \A j \in Captured : doc'[j] = IF j = k THEN r.seen[k] ELSE doc[j]
  BY <1>1, Tables DEF IInv, Store
<1>5. /\ r.op = "restore" /\ r.number \in DOMAIN versions
      /\ \A j \in Captured : r.seen[j] = versions[r.number][j]
      /\ \A j \in Captured : Pending(todo, j) \/ doc'[j] = r.seen[j]
  BY <1>1, <1>2, <1>3, <1>4 DEF Tracked
<1>6. /\ rest.phase = "apply" /\ rest.op = r.op /\ rest.number = r.number
      /\ rest.seen = r.seen /\ rest.todo = todo
  BY <1>1, <1>2 DEF Operation
<1> HIDE DEF rest, todo, r
<1>7. CASE todo = <<>>
  <2>1. \A j \in Captured : doc'[j] = versions[r.number][j]
    BY <1>5, <1>7, NonePending
  <2>2. Tracked(Capturing(r), doc', versions')
    BY <1>1, <1>2, <1>5, <2>1, CapturingTracked
  <2> QED BY <1>1, <1>7, <2>2, AloneStep DEF IInv
<1>8. CASE todo # <<>>
  <2>1. Tracked(rest, doc', versions')
    BY <1>1, <1>5, <1>6 DEF Tracked
  <2> QED BY <1>1, <1>8, <2>1, AloneStep DEF IInv
<1> QED BY <1>7, <1>8

(* A snapshot that was read is still what is stored when it is numbered. *)
LEMMA NumberAlone ==
    ASSUME OneAtATime, IInv, Alone, NEW h \in Handlers, Number(h)
    PROVE  Alone'
<1> DEFINE r == req[h]
           next == LatestVersion + 1
           n == [r EXCEPT !.phase = "create", !.number = next]
<1>1. /\ r # Null /\ r.phase = "capture" /\ r.todo = <<>>
      /\ UNCHANGED <<doc, versions>>
      /\ Step(h, Null) \/ Step(h, n)
  BY DEF Number
<1>2. r \in Operation /\ Tracked(r, doc, versions)
  BY <1>1 DEF IInv, Flight, Sound, Alone
<1> HIDE DEF next
<1>3. n.phase = "create" /\ n.seen = r.seen
  BY <1>2 DEF Operation
<1>4. \A k \in Captured : r.seen[k] = doc[k]
  BY <1>1, <1>2, NonePending DEF Tracked
<1> HIDE DEF n, r
<1>5. Tracked(n, doc', versions')
  BY <1>1, <1>3, <1>4 DEF Tracked
<1> QED BY <1>1, <1>5, AloneStep DEF IInv

(* Every step of a project served one operation at a time. *)
LEMMA NextAlone ==
    ASSUME OneAtATime
    PROVE  IInv /\ Alone /\ [Next]_vars => Alone'
<1> SUFFICES ASSUME IInv, Alone, [Next]_vars
             PROVE  Alone'
  OBVIOUS
<1>1. ASSUME NEW h \in Handlers, Create(h) \/ Fail(h)
      PROVE  Alone'
  BY <1>1, AloneStep DEF Create, Fail, IInv
<1>2. CASE UNCHANGED vars
  BY <1>2 DEF vars, Alone
<1>3. CASE Next
  BY <1>1, <1>3, BeginAlone, RestoreAlone, FetchAlone, ConsultAlone, WriteAlone,
     ApplyAlone, NumberAlone, StageRuns DEF Next
<1> QED BY <1>2, <1>3

(* Both invariants hold in every reachable state. *)
LEMMA AlwaysAlone ==
    ASSUME OneAtATime
    PROVE  Spec => [](IInv /\ Alone)
<1>1. Init => Alone
  BY DEF Init, Alone
<1>2. IInv /\ Alone /\ [Next]_vars => Alone'
  BY NextAlone
<1> QED BY <1>1, <1>2, Invariance, PTL DEF Spec

-----------------------------------------------------------------------------
(* Prerequisites                                                            *)

(* The document each captured one is derived from first of all.             *)
Before(s) ==
    CASE s = "systemDesign"   -> {"requirements"}
      [] s = "databaseDesign" -> {"systemDesign"}
      [] s = "apiDesign"      -> {"databaseDesign"}
      [] s = "review"         -> {"apiDesign"}
      [] OTHER                -> {}

Based(docs) ==
    \A s \in Captured : docs[s] # Null => \A k \in Before(s) : docs[k] # Null

(* What an operation must have found before it writes its stage.            *)
Must(r) == IF r.op = "edit" THEN {r.stages[1]} ELSE Before(r.stages[1])

Ready(r, docs) ==
    r.phase \in {"read", "write"} =>
        \A k \in Must(r) : Pending(r.todo, k) \/ docs[k] # Null

(* Every version can be restored into a project that has its prerequisites, *)
(* and only a restore is ever without them.                                 *)
Grounded ==
    /\ \A n \in DOMAIN versions : Based(versions[n])
    /\ ~Restoring => Based(doc)
    /\ \A h \in Handlers : req[h] # Null => Ready(req[h], doc)

(* What must stand before a stage is a document of the chain. *)
LEMMA BeforeChain == \A s : Before(s) \subseteq Chain /\ Before(s) \subseteq Captured
BY DEF Before, Chain, Captured

(* Each operation reads what its stage must have. *)
LEMMA ReadsMust ==
    ASSUME NEW op \in {"generate", "edit", "refine", "restore"},
           NEW s \in Artifact, op = "edit" => s \in Chain
    PROVE  /\ op = "edit" => Pending(Reads(op, s), s)
           /\ op # "edit" => \A k \in Before(s) : Pending(Reads(op, s), k)
<1>1. op = "edit" => Pending(Reads(op, s), s)
  BY ReadsCover
<1>2. CASE op # "edit" /\ s = "review"
  <2>1. s \in Derived /\ "apiDesign" \in Sources(s)
    BY <1>2 DEF Derived, Sources, Chain
  <2> QED BY <1>1, <1>2, <2>1, ReadsCover DEF Before
<1>3. CASE op # "edit" /\ s \in {"systemDesign", "databaseDesign", "apiDesign"}
  <2>1. Reads(op, s) = Upstream(s)
    BY <1>3 DEF Reads
  <2>2. Upstream(s)[1] = Before(s) /\ 1 \in DOMAIN Upstream(s)
    BY <1>3 DEF Upstream, Before, SystemDesignReads, DatabaseDesignReads,
       ApiDesignReads
  <2>3. \A k \in Before(s) : Pending(Upstream(s), k)
    BY <2>2 DEF Pending
  <2> QED BY <1>3, <2>1, <2>3
<1>4. CASE s \notin {"systemDesign", "databaseDesign", "apiDesign", "review"}
  BY <1>1, <1>4 DEF Before
<1> QED BY <1>1, <1>2, <1>3, <1>4

(* The only operation there is, replaced by one that is ready. *)
LEMMA GroundedStep ==
    ASSUME OneAtATime, Flight, NEW h \in Handlers, NEW r, Step(h, r),
           r # Null => Ready(r, doc'),
           r = Null \/ r.phase # "apply" => Based(doc'),
           \A n \in DOMAIN versions' : Based(versions'[n])
    PROVE  Grounded'
<1>1. req' = [req EXCEPT ![h] = r]
  BY DEF Step
<1>2. \A g \in Handlers : req'[g] = r
  BY <1>1 DEF Flight, OneAtATime
<1>3. (~Restoring)' => r = Null \/ r.phase # "apply"
  BY <1>2 DEF Restoring
<1> QED BY <1>2, <1>3 DEF Grounded

(* Outside a restore the project is based. *)
LEMMA AloneBased ==
    ASSUME OneAtATime, Grounded, NEW h \in Handlers,
           req[h] = Null \/ req[h].phase # "apply"
    PROVE  Based(doc)
BY DEF Grounded, Restoring, OneAtATime

(* Whatever begins has its prerequisites to read. *)
LEMMA BeginReady ==
    ASSUME NEW op \in {"generate", "edit", "refine"}, NEW cut, NEW docs,
           NEW stages, stages[1] \in Artifact, Head(stages) = stages[1],
           op = "edit" => stages[1] \in Chain
    PROVE  /\ Begin(op, stages, cut).phase = "read"
           /\ Ready(Begin(op, stages, cut), docs)
<1> DEFINE r == Begin(op, stages, cut)
<1>1. /\ r.phase = "read" /\ r.op = op /\ r.stages = stages
      /\ r.todo = Reads(op, stages[1])
  BY DEF Begin
<1> HIDE DEF r
<1>2. Ready(r, docs)
  BY <1>1, ReadsMust DEF Ready, Must
<1> QED BY <1>1, <1>2 DEF r

(* It begins on a project that has the prerequisites of what it has. *)
LEMMA BeginGrounded ==
    ASSUME OneAtATime, IInv, Grounded, NEW h \in Handlers,
           \/ \E s \in Artifact, cut \in BOOLEAN : Generate(h, s, cut)
           \/ \E k \in Chain : Edit(h, k)
           \/ Refine(h)
    PROVE  Grounded'
<1>1. /\ \E op \in {"generate", "edit", "refine"} : \E stages, cut :
           /\ Step(h, Begin(op, stages, cut))
           /\ stages[1] \in Artifact /\ Head(stages) = stages[1]
           /\ op = "edit" => stages[1] \in Chain
      /\ req[h] = Null /\ UNCHANGED <<doc, versions>>
  <2>1. ASSUME NEW s \in Artifact
        PROVE  <<s>>[1] = s /\ Head(<<s>>) = s
    OBVIOUS
  <2>2. CASE \E s \in Artifact, cut \in BOOLEAN : Generate(h, s, cut)
    BY <2>1, <2>2 DEF Generate, MayStart
  <2>3. CASE \E k \in Chain : Edit(h, k)
    BY <2>1, <2>3 DEF Edit, MayStart, Artifact
  <2>4. CASE Refine(h)
    <3>1. RefineStages[1] = "requirements" /\ Head(RefineStages) = "requirements"
      BY DEF RefineStages
    <3> QED BY <2>4, <3>1, Tables DEF Refine, MayStart
  <2> QED BY <2>2, <2>3, <2>4
<1>2. PICK op \in {"generate", "edit", "refine"} : \E stages, cut :
           /\ Step(h, Begin(op, stages, cut))
           /\ stages[1] \in Artifact /\ Head(stages) = stages[1]
           /\ op = "edit" => stages[1] \in Chain
  BY <1>1
<1>3. PICK stages, cut :
           /\ Step(h, Begin(op, stages, cut))
           /\ stages[1] \in Artifact /\ Head(stages) = stages[1]
           /\ op = "edit" => stages[1] \in Chain
  BY <1>2
<1>4. Ready(Begin(op, stages, cut), doc')
  BY <1>3, BeginReady
<1>5. Based(doc')
  BY <1>1, AloneBased
<1> QED BY <1>1, <1>3, <1>4, <1>5, GroundedStep DEF IInv, Grounded

(* A restore begins: until it is done nothing is asked of the project. *)
LEMMA RestoreGrounded ==
    ASSUME OneAtATime, IInv, Grounded, NEW h \in Handlers,
           NEW n \in DOMAIN versions, Restore(h, n)
    PROVE  Grounded'
<1> DEFINE seen == [a \in Artifact |->
                      IF a \in Captured THEN versions[n][a] ELSE Null]
           todo == <<Captured>>
           none == <<>>
           r == [op |-> "restore", phase |-> "apply", stages |-> none,
                 todo |-> todo, seen |-> seen, at |-> 0, number |-> n, cut |-> TRUE]
<1>1. n \in Nat /\ seen \in [Artifact -> Document \cup {Null}]
  BY DEF IInv, Rows, Snapshot
<1>2. todo \in Seq(SUBSET Artifact) /\ none \in Seq(Artifact)
  BY Tables
<1>3. Step(h, r) /\ UNCHANGED <<doc, versions>>
  BY DEF Restore
<1> HIDE DEF seen, todo, none
<1>4. r \in Operation /\ r.phase = "apply"
  BY <1>1, <1>2 DEF Operation
<1>5. r # Null
  BY <1>4, NullAssumption
<1> HIDE DEF r
<1>6. Ready(r, doc')
  BY <1>4 DEF Ready
<1> QED BY <1>3, <1>4, <1>5, <1>6, GroundedStep DEF IInv, Grounded

(* A query either finds what the stage must have or ends the operation. *)
LEMMA FetchGrounded ==
    ASSUME OneAtATime, IInv, Grounded, NEW h \in Handlers, NEW k \in Artifact,
           Fetch(h, k)
    PROVE  Grounded'
<1> DEFINE r == req[h]
           found == [r EXCEPT !.todo = Without(@, k), !.seen[k] = doc[k]]
<1>1. /\ r # Null /\ r.phase \in {"read", "capture"}
      /\ r.todo # <<>> /\ k \in Head(r.todo) /\ UNCHANGED <<doc, versions>>
      /\ \/ Step(h, found) /\ (doc[k] # Null \/ r.phase = "capture")
         \/ Step(h, Finished(r))
         \/ Step(h, Null)
  BY DEF Fetch
<1>2. r \in Operation /\ Ready(r, doc)
  BY <1>1 DEF IInv, Flight, Sound, Grounded
<1>3. \A j : Pending(r.todo, j) => j = k \/ Pending(Without(r.todo, k), j)
  BY <1>1, <1>2, WithoutRest DEF Operation
<1>4. /\ found.phase = r.phase /\ found.op = r.op /\ found.stages = r.stages
      /\ found.todo = Without(r.todo, k)
  BY <1>2 DEF Operation
<1> HIDE DEF found
<1>5. doc[k] # Null \/ r.phase = "capture" => Ready(found, doc)
  BY <1>2, <1>3, <1>4 DEF Ready, Must
<1>6. Finished(r) # Null => Finished(r).phase = "capture"
  BY <1>2 DEF Finished, Capturing, Operation
<1>7. Finished(r) # Null => Ready(Finished(r), doc)
  BY <1>6 DEF Ready
<1>8. Based(doc)
  BY <1>1, AloneBased
<1> HIDE DEF r
<1> QED BY <1>1, <1>5, <1>7, <1>8, GroundedStep DEF IInv, Grounded

(* The answer of the model: what was read is still there. *)
LEMMA ConsultGrounded ==
    ASSUME OneAtATime, IInv, Grounded, NEW h \in Handlers, Consult(h)
    PROVE  Grounded'
<1> DEFINE r == req[h]
           n == [r EXCEPT !.phase = "write", !.at = clock + 1]
<1>1. /\ r # Null /\ r.phase = "read" /\ Step(h, n)
      /\ UNCHANGED <<doc, versions>>
  BY DEF Consult
<1>2. r \in Operation /\ Ready(r, doc)
  BY <1>1 DEF IInv, Flight, Sound, Grounded
<1>3. n.phase = "write" /\ n.op = r.op /\ n.stages = r.stages /\ n.todo = r.todo
  BY <1>2 DEF Operation
<1> HIDE DEF n
<1>4. Ready(n, doc)
  BY <1>1, <1>2, <1>3 DEF Ready, Must
<1>5. Based(doc)
  BY <1>1, AloneBased
<1> QED BY <1>1, <1>4, <1>5, GroundedStep DEF IInv, Grounded

(* What is written has its prerequisites, or was there before. *)
LEMMA WriteGrounded ==
    ASSUME OneAtATime, IInv, Grounded, NEW h \in Handlers, Write(h)
    PROVE  Grounded'
<1> DEFINE r == req[h]
           s == Head(r.stages)
           x == Written(r)
<1>1. /\ r # Null /\ r.phase = "write" /\ doc' = [doc EXCEPT ![s] = x]
      /\ Step(h, NextStage(r)) /\ UNCHANGED versions
  BY DEF Write
<1>2. Sound(r) /\ r \in Operation /\ Working(r) /\ Ready(r, doc)
  BY <1>1 DEF IInv, Flight, Sound, Grounded
<1>3. s \in Artifact /\ x # Null
  BY <1>1, <1>2, WrittenGood, NullAssumption
<1>4. s = r.stages[1] /\ \A k \in Must(r) : doc[k] # Null
  BY <1>1, <1>2, NonePending DEF Working, Ready, Operation
<1>5. \A a \in Artifact : doc'[a] = IF a = s THEN x ELSE doc[a]
  BY <1>1 DEF IInv, Store
<1>6. Based(doc)
  BY <1>1, AloneBased
<1> HIDE DEF s, x
<1>7. Based(doc')
  <2>1. \A a \in Artifact : doc[a] # Null => doc'[a] # Null
    BY <1>3, <1>5
  <2>2. ASSUME NEW a \in Captured, doc'[a] # Null, NEW k \in Before(a)
        PROVE  doc[k] # Null
    <3>1. CASE doc[a] # Null
      BY <1>6, <2>2, <3>1 DEF Based
    <3>2. CASE doc[a] = Null
      <4>1. a = s
        BY <1>5, <2>2, <3>2, Tables
      <4>2. Must(r) = Before(s)
        BY <1>4, <3>2, <4>1 DEF Must
      <4> QED BY <1>4, <2>2, <4>1, <4>2
    <3> QED BY <3>1, <3>2
  <2>3. \A a : Before(a) \subseteq Artifact
    BY BeforeChain, Tables
  <2> QED BY <2>1, <2>2, <2>3 DEF Based
<1>8. NextStage(r) # Null => Ready(NextStage(r), doc')
  <2>1. CASE Len(r.stages) = 1
    <3>1. Finished(r) # Null => Finished(r).phase = "capture"
      BY <1>2 DEF Finished, Capturing, Operation
    <3> QED BY <2>1, <3>1 DEF NextStage, Ready
  <2>2. CASE Len(r.stages) # 1
    <3> DEFINE n == NextStage(r)
    <3>1. r.op # "edit" /\ r.stages \in Seq(Artifact) /\ r.stages # <<>>
      BY <1>2, <2>2 DEF Working, Operation
    <3>2. /\ Tail(r.stages)[1] = r.stages[2] /\ r.stages[2] \in Artifact
      BY <2>2, <3>1, RestOfStages
    <3>3. /\ n.op = r.op /\ n.stages = Tail(r.stages)
          /\ n.todo = Reads(r.op, r.stages[2])
      BY <1>2, <2>2 DEF NextStage, Operation
    <3> HIDE DEF n
    <3>4. \A k \in Must(n) : Pending(n.todo, k)
      <4>1. Must(n) = Before(r.stages[2])
        BY <3>1, <3>2, <3>3 DEF Must
      <4>2. r.op \in {"generate", "edit", "refine", "restore"}
        BY <1>2 DEF Operation
      <4>3. \A k \in Before(r.stages[2]) : Pending(Reads(r.op, r.stages[2]), k)
        BY <3>1, <3>2, <4>2, ReadsMust
      <4> QED BY <3>3, <4>1, <4>3
    <3>5. Ready(n, doc')
      BY <3>4 DEF Ready
    <3> QED BY <3>5 DEF n
  <2> QED BY <2>1, <2>2
<1> HIDE DEF r
<1> QED BY <1>1, <1>7, <1>8, GroundedStep DEF IInv, Grounded

(* A restore that is done has left a version, which is based. *)
LEMMA ApplyGrounded ==
    ASSUME OneAtATime, IInv, Alone, Grounded, NEW h \in Handlers,
           NEW k \in Captured, Apply(h, k)
    PROVE  Grounded'
<1> DEFINE r == req[h]
           todo == Without(r.todo, k)
           rest == [r EXCEPT !.todo = todo]
<1>1. /\ r # Null /\ r.phase = "apply" /\ UNCHANGED versions
      /\ Step(h, IF todo = <<>> THEN Capturing(r) ELSE rest)
  BY DEF Apply
<1>2. r \in Operation /\ Tracked(r, doc, versions)
  BY <1>1 DEF IInv, Flight, Sound, Alone
<1>3. r.op = "restore"
  BY <1>1, <1>2 DEF Tracked
<1>4. /\ rest.phase = "apply" /\ Capturing(r).phase = "capture"
      /\ Capturing(r).op = "restore" /\ Capturing(r).number = r.number
  BY <1>1, <1>2, <1>3 DEF Operation, Capturing
<1>5. rest # Null /\ Capturing(r) # Null
  <2>1. todo \in Seq(SUBSET Artifact)
    BY <1>2, WithoutRest DEF Operation, Apply
  <2> HIDE DEF todo
  <2>2. rest \in Operation
    BY <1>2, <2>1 DEF Operation
  <2>3. Capturing(r) \in Operation
    BY <1>2, CapturingSound DEF Sound
  <2> QED BY <2>2, <2>3, NullAssumption
<1>6. Alone'
  BY ApplyAlone
<1>7. /\ req' = [req EXCEPT ![h] = IF todo = <<>> THEN Capturing(r) ELSE rest]
      /\ req = [g \in Handlers |-> req[g]]
  BY <1>1 DEF Step, IInv, Flight
<1> HIDE DEF rest, todo, r
<1>8. CASE todo = <<>>
  <2>1. req'[h] = Capturing(r)
    BY <1>7, <1>8
  <2>2. /\ r.number \in DOMAIN versions
        /\ \A j \in Captured : doc'[j] = versions[r.number][j]
    BY <1>1, <1>4, <1>5, <1>6, <2>1 DEF Alone, Tracked
  <2>3. Based(doc')
    BY <2>2, BeforeChain DEF Grounded, Based
  <2>4. Ready(Capturing(r), doc')
    BY <1>4 DEF Ready
  <2> QED BY <1>1, <1>8, <2>3, <2>4, GroundedStep DEF IInv, Grounded
<1>9. CASE todo # <<>>
  <2>1. Ready(rest, doc')
    BY <1>4 DEF Ready
  <2> QED BY <1>1, <1>4, <1>5, <1>9, <2>1, GroundedStep DEF IInv, Grounded
<1> QED BY <1>8, <1>9

(* A number is picked, or an unchanged project leaves the history as it is. *)
LEMMA NumberGrounded ==
    ASSUME OneAtATime, IInv, Grounded, NEW h \in Handlers, Number(h)
    PROVE  Grounded'
<1> DEFINE r == req[h]
           next == LatestVersion + 1
           n == [r EXCEPT !.phase = "create", !.number = next]
<1>1. /\ r # Null /\ r.phase = "capture"
      /\ UNCHANGED <<doc, versions>>
      /\ Step(h, Null) \/ Step(h, n)
  BY DEF Number
<1>2. r \in Operation
  BY <1>1 DEF IInv, Flight, Sound
<1> HIDE DEF next
<1>3. n.phase = "create"
  BY <1>2 DEF Operation
<1>4. Based(doc)
  BY <1>1, AloneBased
<1> HIDE DEF n, r
<1>5. Ready(n, doc')
  BY <1>3 DEF Ready
<1> QED BY <1>1, <1>3, <1>4, <1>5, GroundedStep DEF IInv, Grounded

(* The version cut is the project, which is based. *)
LEMMA CreateGrounded ==
    ASSUME OneAtATime, IInv, Alone, Grounded, NEW h \in Handlers, Create(h)
    PROVE  Grounded'
<1> DEFINE r == req[h]
<1>1. /\ r # Null /\ r.phase = "create" /\ Step(h, Null) /\ UNCHANGED doc
      /\ versions' = IF r.number \in DOMAIN versions THEN versions
                     ELSE [m \in DOMAIN versions \cup {r.number} |->
                             IF m = r.number THEN SnapshotOf(r.seen)
                             ELSE versions[m]]
  BY DEF Create
<1>2. \A k \in Captured : r.seen[k] = doc[k]
  BY <1>1 DEF Alone, Tracked
<1>3. Based(doc)
  BY <1>1, AloneBased
<1>4. Based(SnapshotOf(r.seen))
  BY <1>2, <1>3, BeforeChain DEF Based, SnapshotOf
<1>5. \A n \in DOMAIN versions' : Based(versions'[n])
  BY <1>1, <1>4 DEF Grounded
<1> HIDE DEF r
<1> QED BY <1>1, <1>3, <1>5, GroundedStep DEF IInv

(* Every step of a project served one operation at a time, none of which    *)
(* dies.                                                                    *)
LEMMA NextGrounded ==
    ASSUME OneAtATime, MayFail = FALSE
    PROVE  IInv /\ Alone /\ Grounded /\ [Next]_vars => Grounded'
<1> SUFFICES ASSUME IInv, Alone, Grounded, [Next]_vars
             PROVE  Grounded'
  OBVIOUS
<1>1. CASE UNCHANGED vars
  BY <1>1 DEF vars, Grounded, Restoring
<1>2. CASE Next
  BY <1>2, BeginGrounded, RestoreGrounded, FetchGrounded, ConsultGrounded,
     WriteGrounded, ApplyGrounded, NumberGrounded, CreateGrounded, StageRuns
     DEF Next, Fail
<1> QED BY <1>1, <1>2

-----------------------------------------------------------------------------
(* Results                                                                  *)

(* A restore that reaches its own snapshot has left the project exactly as  *)
(* the version holds it, if no other operation was in flight.               *)
THEOREM RestoreIsExact ==
    ASSUME OneAtATime
    PROVE  Spec => []RestoreExact
<1>1. IInv /\ Alone => RestoreExact
  <2> SUFFICES ASSUME IInv, Alone, NEW h \in Handlers, req[h] # Null,
                      req[h].op = "restore", req[h].phase = "capture"
               PROVE  SnapshotOf(doc) = versions[req[h].number]
    BY DEF RestoreExact
  <2> DEFINE n == req[h].number
  <2>1. n \in DOMAIN versions /\ \A k \in Captured : doc[k] = versions[n][k]
    BY DEF Alone, Tracked
  <2>2. versions[n] \in [Captured -> Document \cup {Null}]
    BY <2>1 DEF IInv, Rows, Snapshot
  <2> QED BY <2>1, <2>2 DEF SnapshotOf
<1> QED BY <1>1, AlwaysAlone, PTL

(* A version is cut of the project as it is, if no other operation was in   *)
(* flight since it was read.                                                *)
THEOREM CutsAreCurrent ==
    ASSUME OneAtATime
    PROVE  Spec => CutIsCurrent
<1>1. IInv /\ Alone /\ [Next]_vars =>
        [\A n \in DOMAIN versions' \ DOMAIN versions :
            versions'[n] = SnapshotOf(doc)]_vars
  <2> SUFFICES ASSUME IInv, Alone, [Next]_vars,
                      NEW n \in DOMAIN versions' \ DOMAIN versions
               PROVE  versions'[n] = SnapshotOf(doc)
    OBVIOUS
  <2>1. PICK h \in Handlers : Create(h)
    BY OtherSteps DEF vars, Number
  <2> DEFINE r == req[h]
  <2>2. /\ r # Null /\ r.phase = "create"
        /\ versions' = IF r.number \in DOMAIN versions THEN versions
                       ELSE [m \in DOMAIN versions \cup {r.number} |->
                               IF m = r.number THEN SnapshotOf(r.seen)
                               ELSE versions[m]]
    BY <2>1 DEF Create
  <2>3. versions'[n] = SnapshotOf(r.seen)
    BY <2>2
  <2>4. \A k \in Captured : r.seen[k] = doc[k]
    BY <2>2 DEF Alone, Tracked
  <2> QED BY <2>3, <2>4 DEF SnapshotOf
<1> QED BY <1>1, AlwaysAlone, PTL DEF Spec, CutIsCurrent

(* No artifact exists without the documents it is derived from, in the      *)
(* project and in every version, if no other operation was in flight and    *)
(* none died half way through a restore.                                    *)
THEOREM PrerequisitesKept ==
    ASSUME OneAtATime, MayFail = FALSE
    PROVE  Spec => []PrerequisitesHold
<1>1. Init => Grounded
  <2> SUFFICES ASSUME Init
               PROVE  Grounded
    OBVIOUS
  <2>1. \A s \in Captured : doc[s] = Null
    BY Tables DEF Init, Nothing
  <2>2. DOMAIN versions = {} /\ \A h \in Handlers : req[h] = Null
    BY DEF Init
  <2> QED BY <2>1, <2>2 DEF Grounded, Based
<1>2. IInv /\ Alone /\ Grounded /\ [Next]_vars => Grounded'
  BY NextGrounded
<1>3. Grounded => PrerequisitesHold
  <2> SUFFICES ASSUME Grounded, ~Restoring
               PROVE  /\ doc["systemDesign"] # Null => doc["requirements"] # Null
                      /\ doc["databaseDesign"] # Null => doc["systemDesign"] # Null
                      /\ doc["apiDesign"] # Null => doc["databaseDesign"] # Null
                      /\ doc["review"] # Null => doc["apiDesign"] # Null
    BY DEF PrerequisitesHold
  <2>1. Based(doc)
    BY DEF Grounded
  <2> QED BY <2>1 DEF Based, Before, Captured, Chain
<1> QED BY <1>1, <1>2, <1>3, AlwaysAlone, PTL DEF Spec

-----------------------------------------------------------------------------
(* Refinement                                                               *)

(* What is left of a refinement, from each of its stages on.                *)
RefineRests ==
    {<<"requirements", "systemDesign", "databaseDesign", "apiDesign", "review">>,
     <<"systemDesign", "databaseDesign", "apiDesign", "review">>,
     <<"databaseDesign", "apiDesign", "review">>,
     <<"apiDesign", "review">>,
     <<"review">>}

(* The designs it has rewritten when it comes to a stage. *)
Rewritten(s) ==
    CASE s = "databaseDesign" -> {"systemDesign"}
      [] s = "apiDesign"      -> {"systemDesign", "databaseDesign"}
      [] s = "review"         -> {"systemDesign", "databaseDesign", "apiDesign"}
      [] OTHER                -> {}

(* The design was written from the texts its sources hold. *)
Current(s, docs) ==
    \A k \in Chain : Pending(Upstream(s), k) => docs[s].from[k] = docs[k].text

ReviewFresh(docs) == ~IsStale("review", docs["review"], Revisions(docs))

(* What a stage has read is what is stored. *)
Known(r, docs) ==
    r.stages[1] # "requirements" =>
        \A k \in Chain : Pending(Upstream(r.stages[1]), k) =>
            \/ Pending(r.todo, k)
            \/ docs[k] # Null /\ r.seen[k] = docs[k]

(* What a refinement in flight has left behind it.                          *)
Refining(r, docs) ==
    r.op = "refine" =>
        /\ r.phase \in {"read", "write"} =>
             /\ r.stages \in RefineRests
             /\ \A s \in Rewritten(r.stages[1]) : Current(s, docs)
             /\ Known(r, docs)
             /\ Pending(r.todo, "review") => r.stages[1] = "review"
        /\ r.phase = "capture" =>
             /\ \A s \in Rewritten("review") : Current(s, docs)
             /\ ReviewFresh(docs)

(* The inductive invariant of refinement. *)
Chained == \A h \in Handlers : req[h] # Null => Refining(req[h], doc)

(* What each stage of a refinement is written from. *)
LEMMA UpstreamOf ==
    ASSUME NEW k
    PROVE  /\ Pending(Upstream("systemDesign"), k) <=> k = "requirements"
           /\ Pending(Upstream("databaseDesign"), k) <=>
                k \in {"requirements", "systemDesign"}
           /\ Pending(Upstream("apiDesign"), k) <=>
                k \in {"requirements", "systemDesign", "databaseDesign"}
           /\ Pending(Upstream("review"), k) <=> k \in Chain
<1>1. ASSUME NEW a, NEW todo, todo = <<a>>  PROVE Pending(todo, k) <=> k \in a
  <2>1. DOMAIN todo = 1 .. 1 /\ todo[1] = a
    BY <1>1
  <2> QED BY <2>1 DEF Pending
<1>2. ASSUME NEW a, NEW b, NEW todo, todo = <<a, b>>
      PROVE  Pending(todo, k) <=> k \in a \/ k \in b
  <2>1. DOMAIN todo = 1 .. 2 /\ todo[1] = a /\ todo[2] = b
    BY <1>2
  <2>2. 1 .. 2 = {1, 2}
    OBVIOUS
  <2> QED BY <2>1, <2>2 DEF Pending
<1>3. ASSUME NEW a, NEW b, NEW c, NEW todo, todo = <<a, b, c>>
      PROVE  Pending(todo, k) <=> k \in a \/ k \in b \/ k \in c
  <2>1. DOMAIN todo = 1 .. 3 /\ todo[1] = a /\ todo[2] = b /\ todo[3] = c
    BY <1>3
  <2>2. 1 .. 3 = {1, 2, 3}
    OBVIOUS
  <2> QED BY <2>1, <2>2 DEF Pending
<1>4. Pending(Upstream("systemDesign"), k) <=> k = "requirements"
  BY <1>1 DEF Upstream, SystemDesignReads
<1>5. Pending(Upstream("databaseDesign"), k) <=> k \in {"requirements", "systemDesign"}
  BY <1>2 DEF Upstream, DatabaseDesignReads
<1>6. Pending(Upstream("apiDesign"), k) <=>
        k \in {"requirements", "systemDesign", "databaseDesign"}
  BY <1>3 DEF Upstream, ApiDesignReads
<1>7. Pending(Upstream("review"), k) <=> k \in Chain
  BY <1>2 DEF Upstream, ReviewReads, Chain
<1> QED BY <1>4, <1>5, <1>6, <1>7

(* The stages of a refinement, one after the other. *)
LEMMA RestsInOrder ==
    ASSUME NEW t \in RefineRests
    PROVE  /\ t[1] \in {"requirements", "systemDesign", "databaseDesign",
                        "apiDesign", "review"}
           /\ Head(t) = t[1]
           /\ t[1] = "review" => Len(t) = 1
           /\ t[1] # "review" =>
                /\ Len(t) # 1 /\ Tail(t) \in RefineRests /\ Tail(t)[1] = t[2]
                /\ t[2] # "requirements"
                /\ Rewritten(t[2]) = Rewritten(t[1]) \cup ({t[1]} \ {"requirements"})
<1>1. CASE t = <<"requirements", "systemDesign", "databaseDesign", "apiDesign",
                 "review">>
  <2>1. t[1] = "requirements" /\ t[2] = "systemDesign" /\ Len(t) = 5
        /\ Head(t) = t[1]
    BY <1>1
  <2>2. Tail(t) = <<"systemDesign", "databaseDesign", "apiDesign", "review">>
    BY <1>1
  <2>3. Tail(t)[1] = t[2] /\ Tail(t) \in RefineRests
    BY <2>1, <2>2 DEF RefineRests
  <2> QED BY <2>1, <2>3 DEF Rewritten
<1>2. CASE t = <<"systemDesign", "databaseDesign", "apiDesign", "review">>
  <2>1. t[1] = "systemDesign" /\ t[2] = "databaseDesign" /\ Len(t) = 4
        /\ Head(t) = t[1]
    BY <1>2
  <2>2. Tail(t) = <<"databaseDesign", "apiDesign", "review">>
    BY <1>2
  <2>3. Tail(t)[1] = t[2] /\ Tail(t) \in RefineRests
    BY <2>1, <2>2 DEF RefineRests
  <2> QED BY <2>1, <2>3 DEF Rewritten
<1>3. CASE t = <<"databaseDesign", "apiDesign", "review">>
  <2>1. t[1] = "databaseDesign" /\ t[2] = "apiDesign" /\ Len(t) = 3
        /\ Head(t) = t[1]
    BY <1>3
  <2>2. Tail(t) = <<"apiDesign", "review">>
    BY <1>3
  <2>3. Tail(t)[1] = t[2] /\ Tail(t) \in RefineRests
    BY <2>1, <2>2 DEF RefineRests
  <2> QED BY <2>1, <2>3 DEF Rewritten
<1>4. CASE t = <<"apiDesign", "review">>
  <2>1. t[1] = "apiDesign" /\ t[2] = "review" /\ Len(t) = 2 /\ Head(t) = t[1]
    BY <1>4
  <2>2. Tail(t) = <<"review">>
    BY <1>4
  <2>3. Tail(t)[1] = t[2] /\ Tail(t) \in RefineRests
    BY <2>1, <2>2 DEF RefineRests
  <2> QED BY <2>1, <2>3 DEF Rewritten
<1>5. CASE t = <<"review">>
  BY <1>5
<1> QED BY <1>1, <1>2, <1>3, <1>4, <1>5 DEF RefineRests

(* Writing a stage leaves the designs before it as they were written. *)
LEMMA CurrentStays ==
    ASSUME NEW t, NEW s \in Rewritten(t), NEW docs, NEW next,
           \A a \in Artifact : a # t => next[a] = docs[a],
           Current(s, docs)
    PROVE  Current(s, next)
<1>1. s \in Artifact /\ s # t /\ ~Pending(Upstream(s), t)
  <2>1. t \in {"databaseDesign", "apiDesign", "review"}
    BY DEF Rewritten
  <2>2. CASE t = "databaseDesign"
    BY <2>2, UpstreamOf, Tables DEF Rewritten, Artifact, Chain
  <2>3. CASE t = "apiDesign"
    BY <2>3, UpstreamOf, Tables DEF Rewritten, Artifact, Chain
  <2>4. CASE t = "review"
    BY <2>4, UpstreamOf, Tables DEF Rewritten, Artifact, Chain
  <2> QED BY <2>1, <2>2, <2>3, <2>4
<1>2. \A k \in Chain : Pending(Upstream(s), k) => k # t /\ k \in Artifact
  BY <1>1, Tables
<1> QED BY <1>1, <1>2 DEF Current

(* What a stage of a refinement is to read. *)
LEMMA RefineReads ==
    ASSUME NEW s \in {"requirements", "systemDesign", "databaseDesign",
                      "apiDesign", "review"}
    PROVE  /\ s # "requirements" =>
                \A k \in Chain : Pending(Upstream(s), k) => Pending(Reads("refine", s), k)
           /\ Pending(Reads("refine", s), "review") => s = "review"
<1>1. "review" \notin Chain
  BY DEF Chain
<1>2. CASE s = "requirements"
  <2> DEFINE todo == <<{"requirements"}, {"apiDesign"}>>
  <2>1. Reads("refine", s) = todo
    BY <1>2 DEF Reads
  <2>2. DOMAIN todo = 1 .. 2 /\ todo[1] = {"requirements"} /\ todo[2] = {"apiDesign"}
    OBVIOUS
  <2>3. 1 .. 2 = {1, 2}
    OBVIOUS
  <2> HIDE DEF todo
  <2> QED BY <1>2, <2>1, <2>2, <2>3 DEF Pending
<1>3. CASE s = "review"
  <2>1. s \in Artifact /\ s \in Derived /\ \A k \in Chain : k \in Sources(s)
    BY <1>3, Tables DEF Derived, Sources
  <2> QED BY <1>3, <2>1, ReadsCover
<1>4. CASE s \notin {"requirements", "review"}
  <2>1. Reads("refine", s) = Upstream(s)
    BY <1>4 DEF Reads
  <2>2. ~Pending(Upstream(s), "review")
    BY <1>4, UpstreamOf
  <2> QED BY <2>1, <2>2
<1> QED BY <1>2, <1>3, <1>4

(* The only operation there is, replaced by one that refines soundly. *)
LEMMA ChainedStep ==
    ASSUME OneAtATime, Flight, NEW h \in Handlers, NEW r, Step(h, r),
           r # Null => Refining(r, doc')
    PROVE  Chained'
<1>1. req' = [req EXCEPT ![h] = r]
  BY DEF Step
<1>2. \A g \in Handlers : req'[g] = r
  BY <1>1 DEF Flight, OneAtATime
<1> QED BY <1>2 DEF Chained

(* A refinement that is done goes on to its snapshot. *)
LEMMA FinishedRefining ==
    ASSUME NEW r \in Operation, NEW docs,
           r.op = "refine" =>
             /\ \A s \in Rewritten("review") : Current(s, docs)
             /\ ReviewFresh(docs)
    PROVE  Finished(r) # Null => Refining(Finished(r), docs)
<1> DEFINE c == Capturing(r)
<1>1. c.phase = "capture" /\ c.op = r.op
  BY DEF Capturing, Operation
<1> HIDE DEF c
<1>2. Refining(c, docs)
  BY <1>1 DEF Refining
<1> QED BY <1>2 DEF Finished, c

(* A refinement starts with everything to rewrite; nothing else is one. *)
LEMMA BeginChained ==
    ASSUME OneAtATime, IInv, NEW h \in Handlers,
           \/ \E s \in Artifact, cut \in BOOLEAN : Generate(h, s, cut)
           \/ \E k \in Chain : Edit(h, k)
           \/ Refine(h)
    PROVE  Chained'
<1>1. CASE Refine(h)
  <2> DEFINE r == Begin("refine", RefineStages, TRUE)
  <2>1. RefineStages \in RefineRests /\ RefineStages[1] = "requirements"
        /\ Head(RefineStages) = "requirements"
    BY DEF RefineStages, RefineRests
  <2>2. /\ r.phase = "read" /\ r.stages = RefineStages
        /\ r.todo = Reads("refine", "requirements")
    BY <2>1 DEF Begin
  <2>3. Step(h, r)
    BY <1>1 DEF Refine
  <2> HIDE DEF r
  <2>4. Rewritten("requirements") = {}
    BY DEF Rewritten
  <2>5. Refining(r, doc')
    BY <2>1, <2>2, <2>4, RefineReads DEF Refining, Known
  <2> QED BY <2>3, <2>5, ChainedStep DEF IInv
<1>2. CASE ~Refine(h)
  <2>1. \E op \in {"generate", "edit"} : \E stages, cut :
           Step(h, Begin(op, stages, cut))
    BY <1>2 DEF Generate, Edit
  <2>2. PICK op \in {"generate", "edit"} : \E stages, cut :
           Step(h, Begin(op, stages, cut))
    BY <2>1
  <2>3. PICK stages, cut : Step(h, Begin(op, stages, cut))
    BY <2>2
  <2> DEFINE r == Begin(op, stages, cut)
  <2>4. r.op # "refine"
    BY DEF Begin
  <2> HIDE DEF r
  <2>5. Refining(r, doc')
    BY <2>4 DEF Refining
  <2> QED BY <2>3, <2>5, ChainedStep DEF IInv, r
<1> QED BY <1>1, <1>2

(* A query of a refinement brings what is stored; without a review there is *)
(* none to be fresh.                                                        *)
LEMMA FetchChained ==
    ASSUME OneAtATime, IInv, Chained, NEW h \in Handlers, NEW k \in Artifact,
           Fetch(h, k)
    PROVE  Chained'
<1> DEFINE r == req[h]
           found == [r EXCEPT !.todo = Without(@, k), !.seen[k] = doc[k]]
<1>1. /\ r # Null /\ r.phase \in {"read", "capture"}
      /\ r.todo # <<>> /\ k \in Head(r.todo) /\ UNCHANGED doc
      /\ \/ Step(h, found) /\ (doc[k] # Null \/ r.phase = "capture")
         \/ Step(h, Finished(r)) /\ k = "review" /\ doc[k] = Null /\ r.phase = "read"
         \/ Step(h, Null)
  BY DEF Fetch
<1>2. r \in Operation /\ Refining(r, doc)
  BY <1>1 DEF IInv, Flight, Sound, Chained
<1>3. /\ r.todo \in Seq(SUBSET Artifact)
      /\ r.seen \in [Artifact -> Document \cup {Null}]
  BY <1>2 DEF Operation
<1>4. /\ \A j : Pending(r.todo, j) => j = k \/ Pending(Without(r.todo, k), j)
      /\ \A j : Pending(Without(r.todo, k), j) => Pending(r.todo, j)
  BY <1>1, <1>3, WithoutRest, WithoutLess
<1>5. /\ found.phase = r.phase /\ found.op = r.op /\ found.stages = r.stages
      /\ found.todo = Without(r.todo, k)
      /\ \A j \in Artifact : found.seen[j] = IF j = k THEN doc[k] ELSE r.seen[j]
  BY <1>2, <1>3 DEF Operation
<1> HIDE DEF found
<1>6. Pending(r.todo, k)
  <2>1. 1 \in DOMAIN r.todo /\ r.todo[1] = Head(r.todo)
    BY <1>1, <1>3
  <2> QED BY <1>1, <2>1 DEF Pending
<1>7. doc[k] # Null \/ r.phase = "capture" => Refining(found, doc)
  <2>1. \A j \in Chain : j \in Artifact
    BY Tables
  <2>2. r.op = "refine" /\ r.phase = "read" /\ doc[k] # Null => Known(found, doc)
    BY <1>2, <1>4, <1>5, <2>1 DEF Refining, Known
  <2> QED BY <1>1, <1>2, <1>4, <1>5, <2>2 DEF Refining
<1>8. k = "review" /\ doc[k] = Null /\ r.phase = "read" /\ Finished(r) # Null =>
        Refining(Finished(r), doc)
  <2> SUFFICES ASSUME k = "review", doc[k] = Null, r.phase = "read"
               PROVE  Finished(r) # Null => Refining(Finished(r), doc)
    OBVIOUS
  <2>1. r.op = "refine" => r.stages[1] = "review"
    BY <1>2, <1>6 DEF Refining
  <2>2. r.op = "refine" => \A s \in Rewritten("review") : Current(s, doc)
    BY <1>2, <2>1 DEF Refining
  <2>3. ReviewFresh(doc)
    BY DEF ReviewFresh, IsStale
  <2> QED BY <1>2, <2>2, <2>3, FinishedRefining
<1> HIDE DEF r
<1> QED BY <1>1, <1>7, <1>8, ChainedStep DEF IInv

(* The answer of the model stores nothing. *)
LEMMA ConsultChained ==
    ASSUME OneAtATime, IInv, Chained, NEW h \in Handlers, Consult(h)
    PROVE  Chained'
<1> DEFINE r == req[h]
           n == [r EXCEPT !.phase = "write", !.at = clock + 1]
<1>1. r # Null /\ r.phase = "read" /\ Step(h, n) /\ UNCHANGED doc
  BY DEF Consult
<1>2. r \in Operation /\ Refining(r, doc)
  BY <1>1 DEF IInv, Flight, Sound, Chained
<1>3. /\ n.phase = "write" /\ n.op = r.op /\ n.stages = r.stages
      /\ n.todo = r.todo /\ n.seen = r.seen
  BY <1>2 DEF Operation
<1> HIDE DEF n
<1>4. Refining(n, doc')
  BY <1>1, <1>2, <1>3 DEF Refining, Known
<1> QED BY <1>1, <1>4, ChainedStep DEF IInv

(* A stage that has read what is stored is written from it. *)
LEMMA WrittenCurrent ==
    ASSUME NEW r \in Operation, r.op = "refine", r.todo = <<>>,
           r.stages[1] = Head(r.stages), NEW docs, Known(r, docs)
    PROVE  /\ r.stages[1] # "requirements" =>
                \A k \in Chain : Pending(Upstream(r.stages[1]), k) =>
                    Written(r).from[k] = docs[k].text
           /\ r.stages[1] = "review" =>
                Written(r).stamp = UpstreamStamp("review", Revisions(docs))
<1>1. r.stages[1] # "requirements" =>
        \A k \in Chain : Pending(Upstream(r.stages[1]), k) =>
            docs[k] # Null /\ r.seen[k] = docs[k]
  BY NonePending DEF Known
<1>2. Written(r).from = Texts(r.seen)
  BY DEF Written
<1>3. CASE r.stages[1] = "review"
  <2>1. \A k \in Chain : r.seen[k] = docs[k]
    BY <1>1, <1>3, UpstreamOf
  <2>2. Revisions(r.seen) = Revisions(docs)
    BY <2>1 DEF Revisions
  <2>3. Written(r).stamp = UpstreamStamp("review", Revisions(r.seen))
    BY <1>3 DEF Written, Derived
  <2> QED BY <1>1, <1>2, <2>2, <2>3 DEF Texts
<1>4. CASE r.stages[1] # "review"
  BY <1>1, <1>2, <1>4 DEF Texts
<1> QED BY <1>3, <1>4

(* The stage it comes to has everything left to read. *)
LEMMA NextStageRefining ==
    ASSUME NEW r \in Operation, r.op = "refine", r.stages \in RefineRests,
           r.stages[1] # "review", NEW docs,
           \A s \in Rewritten(r.stages[2]) : Current(s, docs)
    PROVE  Refining(NextStage(r), docs)
<1> DEFINE n == NextStage(r)
<1>1. /\ Len(r.stages) # 1 /\ Tail(r.stages) \in RefineRests
      /\ Tail(r.stages)[1] = r.stages[2]
  BY RestsInOrder
<1>2. /\ n.op = "refine" /\ n.phase = "read" /\ n.stages = Tail(r.stages)
      /\ n.todo = Reads("refine", r.stages[2])
  BY <1>1 DEF NextStage, Operation
<1>3. r.stages[2] \in {"requirements", "systemDesign", "databaseDesign",
                       "apiDesign", "review"}
  BY <1>1, RestsInOrder
<1> HIDE DEF n
<1>4. Known(n, docs) /\ (Pending(n.todo, "review") => n.stages[1] = "review")
  BY <1>1, <1>2, <1>3, RefineReads DEF Known
<1>5. Refining(n, docs)
  BY <1>1, <1>2, <1>4 DEF Refining
<1> QED BY <1>5 DEF n

(* Each stage is written from the ones before it, the review from them all. *)
LEMMA WriteChained ==
    ASSUME OneAtATime, IInv, Chained, NEW h \in Handlers, Write(h)
    PROVE  Chained'
<1> DEFINE r == req[h]
           s == Head(r.stages)
           x == Written(r)
<1>1. /\ r # Null /\ r.phase = "write" /\ doc' = [doc EXCEPT ![s] = x]
      /\ Step(h, NextStage(r))
  BY DEF Write
<1>2. Sound(r) /\ r \in Operation /\ Working(r) /\ Refining(r, doc)
  BY <1>1 DEF IInv, Flight, Sound, Chained
<1>3. CASE r.op # "refine"
  <2>1. Finished(r) # Null => Refining(Finished(r), doc')
    BY <1>2, <1>3, FinishedRefining
  <2>2. Len(r.stages) # 1 => NextStage(r).op = r.op
    BY <1>2 DEF NextStage, Operation
  <2>3. NextStage(r) # Null => Refining(NextStage(r), doc')
    BY <1>3, <2>1, <2>2 DEF NextStage, Refining
  <2> HIDE DEF r
  <2> QED BY <1>1, <2>3, ChainedStep DEF IInv
<1>4. CASE r.op = "refine"
  <2>1. /\ r.stages \in RefineRests /\ Known(r, doc) /\ r.todo = <<>>
        /\ \A d \in Rewritten(r.stages[1]) : Current(d, doc)
    BY <1>1, <1>2, <1>4 DEF Refining, Working
  <2>2. s = r.stages[1] /\ s \in Artifact
    BY <1>1, <1>2, <2>1, RestsInOrder, WrittenGood
  <2>3. \A a \in Artifact : doc'[a] = IF a = s THEN x ELSE doc[a]
    BY <1>1, <2>2 DEF IInv, Store
  <2>4. /\ s # "requirements" =>
             \A k \in Chain : Pending(Upstream(s), k) => x.from[k] = doc[k].text
        /\ s = "review" => x.stamp = UpstreamStamp("review", Revisions(doc))
    BY <1>2, <1>4, <2>1, <2>2, WrittenCurrent
  <2> HIDE DEF s, x
  <2>5. \A d \in Rewritten(s) : Current(d, doc')
    BY <2>1, <2>2, <2>3, CurrentStays
  <2>6. s \in Chain \ {"requirements"} => Current(s, doc')
    <3> SUFFICES ASSUME s \in Chain, s # "requirements",
                        NEW k \in Chain, Pending(Upstream(s), k)
                 PROVE  doc'[s].from[k] = doc'[k].text
      BY DEF Current
    <3>1. k # s
      BY UpstreamOf DEF Chain
    <3>2. doc'[s] = x /\ doc'[k] = doc[k]
      BY <2>2, <2>3, <3>1, Tables
    <3> QED BY <2>4, <3>2
  <2>7. CASE s = "review"
    <3>1. Revisions(doc') = Revisions(doc)
      <4>1. \A k \in Chain : doc'[k] = doc[k]
        BY <2>3, <2>7, Tables DEF Chain, Artifact
      <4> QED BY <4>1 DEF Revisions
    <3>2. ReviewFresh(doc')
      BY <2>2, <2>3, <2>4, <2>7, <3>1 DEF ReviewFresh, IsStale
    <3>3. Finished(r) # Null => Refining(Finished(r), doc')
      BY <1>2, <2>5, <2>7, <3>2, FinishedRefining
    <3>4. NextStage(r) = Finished(r)
      BY <2>1, <2>2, <2>7, RestsInOrder DEF NextStage
    <3> HIDE DEF r
    <3> QED BY <1>1, <3>3, <3>4, ChainedStep DEF IInv
  <2>8. CASE s # "review"
    <3>1. \A d \in Rewritten(r.stages[2]) : Current(d, doc')
      <4>1. s \in Chain
        BY <2>1, <2>2, <2>8, RestsInOrder DEF Chain
      <4>2. Rewritten(r.stages[2]) = Rewritten(s) \cup ({s} \ {"requirements"})
        BY <2>1, <2>2, <2>8, RestsInOrder
      <4> QED BY <2>5, <2>6, <4>1, <4>2
    <3>2. Refining(NextStage(r), doc')
      BY <1>2, <1>4, <2>1, <2>2, <2>8, <3>1, NextStageRefining
    <3> HIDE DEF r
    <3> QED BY <1>1, <3>2, ChainedStep DEF IInv
  <2> QED BY <2>7, <2>8
<1> QED BY <1>3, <1>4

(* The other steps are not of a refinement that rewrites, and store nothing *)
(* under one that does not.                                                 *)
LEMMA OtherChained ==
    ASSUME OneAtATime, IInv, Alone, Chained, NEW h \in Handlers,
           \/ \E n \in DOMAIN versions : Restore(h, n)
           \/ \E k \in Captured : Apply(h, k)
           \/ Number(h) \/ Create(h) \/ Fail(h)
    PROVE  Chained'
<1>1. CASE Create(h) \/ Fail(h)
  BY <1>1, ChainedStep DEF Create, Fail, IInv
<1>2. CASE Number(h)
  <2> DEFINE r == req[h]
             n == [r EXCEPT !.phase = "create", !.number = LatestVersion + 1]
  <2>1. r # Null /\ (Step(h, Null) \/ Step(h, n))
    BY <1>2 DEF Number
  <2>2. n.phase = "create"
    BY <2>1 DEF IInv, Flight, Sound, Operation
  <2> HIDE DEF n
  <2>3. Refining(n, doc')
    BY <2>2 DEF Refining
  <2> QED BY <2>1, <2>3, ChainedStep DEF IInv
<1>3. CASE \E n \in DOMAIN versions : Restore(h, n)
  <2>1. PICK n \in DOMAIN versions : Restore(h, n)
    BY <1>3
  <2>2. \E r : Step(h, r) /\ r.op = "restore"
    BY <2>1 DEF Restore
  <2> QED BY <2>2, ChainedStep DEF IInv, Refining
<1>4. CASE \E k \in Captured : Apply(h, k)
  <2> DEFINE r == req[h]
  <2>1. PICK k \in Captured : Apply(h, k)
    BY <1>4
  <2>2. r # Null /\ r.phase = "apply"
    BY <2>1 DEF Apply
  <2>3. r \in Operation /\ r.op = "restore"
    BY <2>2 DEF IInv, Flight, Sound, Alone, Tracked
  <2>4. \E n : Step(h, n) /\ n.op = "restore"
    <3> DEFINE todo == Without(r.todo, k)
               rest == [r EXCEPT !.todo = todo]
               c == Capturing(r)
    <3>1. Step(h, IF todo = <<>> THEN c ELSE rest)
      BY <2>1 DEF Apply
    <3>2. rest.op = "restore" /\ c.op = "restore"
      BY <2>3 DEF Operation, Capturing
    <3> HIDE DEF rest, c, todo
    <3> QED BY <3>1, <3>2
  <2> QED BY <2>4, ChainedStep DEF IInv, Refining
<1> QED BY <1>1, <1>2, <1>3, <1>4

(* Refining leaves everything downstream consistent, whatever it was asked  *)
(* of and whenever the designs were written before, if no other operation   *)
(* was in flight (refine(), refinement.service.ts).                         *)
THEOREM RefineIsConsistent ==
    ASSUME OneAtATime
    PROVE  Spec => []RefineConsistent
<1>1. Init => Chained
  BY DEF Init, Chained
<1>2. IInv /\ Alone /\ Chained /\ [Next]_vars => Chained'
  <2> SUFFICES ASSUME IInv, Alone, Chained, [Next]_vars PROVE Chained'
    OBVIOUS
  <2>1. CASE UNCHANGED vars
    BY <2>1 DEF vars, Chained
  <2>2. CASE Next
    BY <2>2, BeginChained, FetchChained, ConsultChained, WriteChained,
       OtherChained, StageRuns DEF Next
  <2> QED BY <2>1, <2>2
<1>3. Chained => RefineConsistent
  <2> SUFFICES ASSUME Chained, NEW h \in Handlers, req[h] # Null,
                      req[h].op = "refine", req[h].phase = "capture"
               PROVE  /\ \A s \in Chain \ {"requirements"} :
                           \A i \in DOMAIN Upstream(s) : \A k \in Upstream(s)[i] :
                              doc[s].from[k] = doc[k].text
                      /\ ReviewFresh(doc)
    BY DEF RefineConsistent, ReviewFresh
  <2>1. (\A s \in Rewritten("review") : Current(s, doc)) /\ ReviewFresh(doc)
    BY DEF Chained, Refining
  <2>2. ASSUME NEW s \in Chain \ {"requirements"},
               NEW i \in DOMAIN Upstream(s), NEW k \in Upstream(s)[i]
        PROVE  doc[s].from[k] = doc[k].text
    <3>1. s \in Rewritten("review")
      BY DEF Chain, Rewritten
    <3>2. Pending(Upstream(s), k)
      BY DEF Pending
    <3>3. k \in Chain
      BY <3>2, UpstreamOf DEF Chain
    <3> QED BY <2>1, <3>1, <3>2, <3>3 DEF Current
  <2> QED BY <2>1, <2>2
<1> QED BY <1>1, <1>2, <1>3, AlwaysAlone, PTL DEF Spec

=============================================================================
