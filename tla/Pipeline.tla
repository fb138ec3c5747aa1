------------------------------ MODULE Pipeline ------------------------------
(***************************************************************************)
(* The artifacts of one confirmed project and the operations that rewrite  *)
(* them: stage generation by a job, a stream or the synchronous endpoint,  *)
(* the structured editors, chat refinement, and version snapshot / restore *)
(* (requirements, system-design, database-design, api-design, review,      *)
(* the standalone stages, chat, jobs, stream and versions in apps/api/src, *)
(* freshness.ts in packages/shared/src).                                   *)
(*                                                                         *)
(* No operation holds a lock or a transaction: it reads the documents it   *)
(* needs one query at a time, awaits the model, and upserts one document   *)
(* at a time.  Every query is a step here, so two operations in flight     *)
(* interleave at each of them, and an operation may die after any of them. *)
(*                                                                         *)
(* A document is its revision ("at", the generatedAt it carries), a number *)
(* that stands for its text, the texts it was written from, and the        *)
(* revisions a derived document recorded (sourceStamp).  Two documents are *)
(* taken never to be stamped in the same millisecond: each stamp is a new  *)
(* value of the clock.                                                     *)
(*                                                                         *)
(* The store is the PostgreSQL one, with its unique index on the version   *)
(* number and its JSONB snapshots; the in-memory one of the tests is left  *)
(* out.                                                                    *)
(***************************************************************************)
EXTENDS Integers, Sequences, FiniteSets

CONSTANTS
    Handlers,      \* operations that may be in flight together
    Standalone,    \* the stamped standalone stages of this instance
    Operations,    \* bound: the operations this instance starts
    MayFail,       \* whether an operation may die half-way
    MaxClock,      \* bound: no operation starts at this revision
    MaxVersions,   \* bound: no version-cutting operation starts at this many
    Null           \* model value

Chain == {"requirements", "systemDesign", "databaseDesign", "apiDesign"}

(* The artifacts a version holds, in the order currentSnapshot() writes them. *)
WrittenOrder ==
    <<"requirements", "systemDesign", "databaseDesign", "apiDesign", "review">>

(* PostgreSQL's JSONB keeps the keys of an object by length, then by bytes: *)
(* the order in which a stored snapshot comes back.                         *)
StoredOrder ==
    <<"review", "apiDesign", "requirements", "systemDesign", "databaseDesign">>

Captured == Chain \cup {"review"}

Derived == {"review"} \cup Standalone

Artifact == Chain \cup Derived

ASSUME ConstantsAssumption ==
    /\ Standalone \subseteq {"roadmap", "costEstimate", "threatModel", "qaPlan"}
    /\ Operations \subseteq {"generate", "edit", "refine", "restore"}
    /\ MayFail \in BOOLEAN
    /\ MaxClock \in Nat
    /\ MaxVersions \in Nat

Revision == Nat \cup {Null}

Document == [at : Nat, text : Nat, from : [Chain -> Revision],
             stamp : [Chain -> Revision] \cup {Null}]

Snapshot == [Captured -> Document \cup {Null}]

Nothing == [a \in Artifact |-> Null]

(* "stages" are left to generate; "todo" is what is left to read (or, for a *)
(* restore, to overwrite) in groups whose members are awaited together;     *)
(* "seen" is what was read.                                                 *)
Operation == [op     : {"generate", "edit", "refine", "restore"},
              phase  : {"read", "write", "apply", "capture", "create"},
              stages : Seq(Artifact),
              todo   : Seq(SUBSET Artifact),
              seen   : [Artifact -> Document \cup {Null}],
              at     : Nat,
              number : Nat,
              cut    : BOOLEAN]

ASSUME NullAssumption ==
    /\ Null \notin Nat
    /\ Null \notin Document
    /\ Null \notin [Chain -> Revision]
    /\ Null \notin Operation

VARIABLES
    doc,        \* the stored documents, Null where there is none
    versions,   \* the version rows: a function from their numbers
    clock,      \* the last revision stamped
    req         \* req[h]: Null, or what the operation in h has left to do

vars == <<doc, versions, clock, req>>

-----------------------------------------------------------------------------
(* Freshness (freshness.ts)                                                 *)

Sources(d) == IF d = "costEstimate" THEN Chain \ {"requirements"} ELSE Chain

(* the generatedAt of each document, Null for the '' of a missing one *)
Revisions(docs) == [k \in Chain |-> IF docs[k] = Null THEN Null ELSE docs[k].at]

UpstreamStamp(d, revisions) ==
    [k \in Chain |-> IF k \in Sources(d) THEN revisions[k] ELSE Null]

(* mutant: stale when an upstream document is newer, rather than different *)
IsStaleByRecency(d, x, revisions) ==
    /\ x # Null /\ x.stamp # Null
    /\ \E k \in Sources(d) : revisions[k] # Null /\ revisions[k] > x.at

IsStale(d, x, revisions) ==
    /\ x # Null /\ x.stamp # Null
    /\ x.stamp # UpstreamStamp(d, revisions)

-----------------------------------------------------------------------------
(* What each stage reads before it consults its agent                       *)

(* The documents generate() of each stage requires, in the order it queries *)
(* them; one group is awaited together.                                     *)
RequirementsReads == <<>>

SystemDesignReads == <<{"requirements"}>>

DatabaseDesignReads == <<{"systemDesign"}, {"requirements"}>>

ApiDesignReads == <<{"databaseDesign"}, {"systemDesign"}, {"requirements"}>>

ReviewReads ==
    <<{"apiDesign"}, {"requirements", "systemDesign", "databaseDesign"}>>

RoadmapReads ==
    <<{"apiDesign"}, {"requirements", "systemDesign", "databaseDesign"}>>

(* It looks the requirements up as well, for a hint, and needs none. *)
CostEstimateReads == <<{"apiDesign"}, {"systemDesign", "databaseDesign"}>>

ThreatModelReads ==
    <<{"apiDesign"}, {"requirements", "systemDesign", "databaseDesign"}>>

QaPlanReads ==
    <<{"apiDesign"}, {"requirements", "systemDesign", "databaseDesign"}>>

Upstream(s) ==
    CASE s = "requirements" -> RequirementsReads
      [] s = "systemDesign" -> SystemDesignReads
      [] s = "databaseDesign" -> DatabaseDesignReads
      [] s = "apiDesign" -> ApiDesignReads
      [] s = "review" -> ReviewReads
      [] s = "roadmap" -> RoadmapReads
      [] s = "costEstimate" -> CostEstimateReads
      [] s = "threatModel" -> ThreatModelReads
      [] s = "qaPlan" -> QaPlanReads

(* refine() looks for the API design before it amends the requirements, and *)
(* for a review before it reviews again.                                    *)
Reads(op, s) ==
    IF op = "edit" THEN <<{s}>>
    ELSE IF op = "refine" /\ s = "requirements"
      THEN <<{"requirements"}, {"apiDesign"}>>
    ELSE IF op = "refine" /\ s = "review"
      THEN <<{"review"}>> \o Upstream(s)
    ELSE Upstream(s)

(* mutant: refine forgets the database design *)
RefineStagesNoDatabase == <<"requirements", "systemDesign", "apiDesign", "review">>

RefineStages ==
    <<"requirements", "systemDesign", "databaseDesign", "apiDesign", "review">>

-----------------------------------------------------------------------------
(* The steps of an operation                                                *)

Begin(op, stages, cut) ==
    [op |-> op, phase |-> "read", stages |-> stages,
     todo |-> Reads(op, Head(stages)), seen |-> Nothing,
     at |-> 0, number |-> 0, cut |-> cut]

(* mutant: the snapshot leaves the review out *)
CapturingNoReview(r) ==
    [r EXCEPT !.phase = "capture", !.stages = <<>>, !.todo = <<Chain>>,
              !.seen = Nothing, !.at = 0]

(* currentSnapshot(): five queries awaited together *)
Capturing(r) ==
    [r EXCEPT !.phase = "capture", !.stages = <<>>, !.todo = <<Captured>>,
              !.seen = Nothing, !.at = 0]

Finished(r) == IF r.cut THEN Capturing(r) ELSE Null

NextStage(r) ==
    IF Len(r.stages) = 1 THEN Finished(r)
    ELSE [r EXCEPT !.phase = "read", !.stages = Tail(@), !.seen = Nothing,
                   !.todo = Reads(r.op, r.stages[2]), !.at = 0]

Without(todo, k) ==
    IF Head(todo) = {k} THEN Tail(todo) ELSE [todo EXCEPT ![1] = @ \ {k}]

Step(h, r) == req' = [req EXCEPT ![h] = r]

(* mutant: a missing upstream document does not stop the stage *)
FetchAnyway(h, k) ==
    /\ req[h] # Null /\ req[h].phase \in {"read", "capture"}
    /\ req[h].todo # <<>> /\ k \in Head(req[h].todo)
    /\ Step(h, [req[h] EXCEPT !.todo = Without(@, k), !.seen[k] = doc[k]])
    /\ UNCHANGED <<doc, versions, clock>>

(* One query returns.  A required document that is missing ends the         *)
(* operation (409), except that refine() merely skips the review.           *)
Fetch(h, k) ==
    /\ req[h] # Null /\ req[h].phase \in {"read", "capture"}
    /\ req[h].todo # <<>> /\ k \in Head(req[h].todo)
    /\ Step(h,
         IF doc[k] # Null \/ req[h].phase = "capture"
           THEN [req[h] EXCEPT !.todo = Without(@, k), !.seen[k] = doc[k]]
         ELSE IF k = "review" THEN Finished(req[h])
         ELSE Null)
    /\ UNCHANGED <<doc, versions, clock>>

(* generate() of the agent stamps generatedAt first, then calls the model;  *)
(* an editor stamps what it is about to save.                               *)
Consult(h) ==
    /\ req[h] # Null /\ req[h].phase = "read" /\ req[h].todo = <<>>
    /\ clock' = clock + 1
    /\ Step(h, [req[h] EXCEPT !.phase = "write", !.at = clock + 1])
    /\ UNCHANGED <<doc, versions>>

Texts(docs) == [k \in Chain |-> IF docs[k] = Null THEN Null ELSE docs[k].text]

(* mutant: an edit keeps the generatedAt of the document it replaces *)
WrittenKeepsStamp(r) ==
    LET s == Head(r.stages)
        edit == r.op = "edit"
    IN  [at    |-> IF edit THEN r.seen[s].at ELSE r.at,
         text  |-> r.at,
         from  |-> IF edit THEN r.seen[s].from ELSE Texts(r.seen),
         stamp |-> IF s \in Derived THEN UpstreamStamp(s, Revisions(r.seen))
                   ELSE Null]

(* mutant: an edit is saved with no generatedAt *)
WrittenUnstamped(r) ==
    LET s == Head(r.stages)
        edit == r.op = "edit"
    IN  [at    |-> IF edit THEN Null ELSE r.at,
         text  |-> r.at,
         from  |-> IF edit THEN r.seen[s].from ELSE Texts(r.seen),
         stamp |-> IF s \in Derived THEN UpstreamStamp(s, Revisions(r.seen))
                   ELSE Null]

(* What an operation upserts.  An edit, a patch or an appended item changes *)
(* the text and moves generatedAt; a derived stage records the revisions it *)
(* read.                                                                    *)
Written(r) ==
    LET s == Head(r.stages)
    IN  [at    |-> r.at,
         text  |-> r.at,
         from  |-> IF r.op = "edit" THEN r.seen[s].from ELSE Texts(r.seen),
         stamp |-> IF s \in Derived THEN UpstreamStamp(s, Revisions(r.seen))
                   ELSE Null]

(* mutant: the stamp is taken of the documents at hand when it is saved *)
WriteStampsLate(h) ==
    /\ req[h] # Null /\ req[h].phase = "write"
    /\ LET s == Head(req[h].stages)
           x == Written(req[h])
       IN  doc' = [doc EXCEPT ![s] =
                     IF s \in Derived
                     THEN [x EXCEPT !.stamp = UpstreamStamp(s, Revisions(doc))]
                     ELSE x]
    /\ Step(h, NextStage(req[h]))
    /\ UNCHANGED <<versions, clock>>

Write(h) ==
    /\ req[h] # Null /\ req[h].phase = "write"
    /\ doc' = [doc EXCEPT ![Head(req[h].stages)] = Written(req[h])]
    /\ Step(h, NextStage(req[h]))
    /\ UNCHANGED <<versions, clock>>

(* mutant: what the version does not hold is left in place *)
ApplyKeepsAbsent(h, k) ==
    /\ req[h] # Null /\ req[h].phase = "apply"
    /\ req[h].todo # <<>> /\ k \in Head(req[h].todo)
    /\ doc' = IF req[h].seen[k] = Null THEN doc
              ELSE [doc EXCEPT ![k] = req[h].seen[k]]
    /\ LET todo == Without(req[h].todo, k)
       IN  Step(h, IF todo = <<>> THEN Capturing(req[h])
                   ELSE [req[h] EXCEPT !.todo = todo])
    /\ UNCHANGED <<versions, clock>>

(* applySnapshot(): five upserts or deletes awaited together *)
Apply(h, k) ==
    /\ req[h] # Null /\ req[h].phase = "apply"
    /\ req[h].todo # <<>> /\ k \in Head(req[h].todo)
    /\ doc' = [doc EXCEPT ![k] = req[h].seen[k]]
    /\ LET todo == Without(req[h].todo, k)
       IN  Step(h, IF todo = <<>> THEN Capturing(req[h])
                   ELSE [req[h] EXCEPT !.todo = todo])
    /\ UNCHANGED <<versions, clock>>

-----------------------------------------------------------------------------
(* Versions (versions.service.ts)                                           *)

SnapshotOf(docs) == [k \in Captured |-> docs[k]]

IsEmpty(snapshot) == \A k \in Captured : snapshot[k] = Null

(* JSON.stringify: the members in the order the object holds its keys *)
JsonText(order, snapshot) == [i \in 1 .. 5 |-> <<order[i], snapshot[order[i]]>>]

StableEqual(stored, built) ==
    JsonText(StoredOrder, stored) = JsonText(WrittenOrder, built)

LatestVersion ==
    IF DOMAIN versions = {} THEN 0
    ELSE CHOOSE n \in DOMAIN versions : \A m \in DOMAIN versions : m <= n

(* mutant: the first version is numbered as if there were one *)
NumberFromTwo(h) ==
    /\ req[h] # Null /\ req[h].phase = "capture" /\ req[h].todo = <<>>
    /\ LET snapshot == SnapshotOf(req[h].seen)
           latest == LatestVersion
           unchanged == latest # 0 /\ StableEqual(versions[latest], snapshot)
           next == IF latest = 0 THEN 2 ELSE latest + 1
       IN  Step(h, IF IsEmpty(snapshot) \/ unchanged THEN Null
                   ELSE [req[h] EXCEPT !.phase = "create", !.number = next])
    /\ UNCHANGED <<doc, versions, clock>>

(* snapshot(), from its query for the latest version to the decision to cut *)
(* another.                                                                 *)
Number(h) ==
    /\ req[h] # Null /\ req[h].phase = "capture" /\ req[h].todo = <<>>
    /\ LET snapshot == SnapshotOf(req[h].seen)
           latest == LatestVersion
           unchanged == latest # 0 /\ StableEqual(versions[latest], snapshot)
       IN  Step(h, IF IsEmpty(snapshot) \/ unchanged THEN Null
                   ELSE [req[h] EXCEPT !.phase = "create", !.number = latest + 1])
    /\ UNCHANGED <<doc, versions, clock>>

(* mutant: a version whose number is taken replaces the one that holds it *)
CreateReplaces(h) ==
    /\ req[h] # Null /\ req[h].phase = "create"
    /\ versions' = [n \in DOMAIN versions \cup {req[h].number} |->
                      IF n = req[h].number THEN SnapshotOf(req[h].seen)
                      ELSE versions[n]]
    /\ Step(h, Null)
    /\ UNCHANGED <<doc, clock>>

(* repo.create(): the unique index on the number refuses a second row. *)
Create(h) ==
    /\ req[h] # Null /\ req[h].phase = "create"
    /\ versions' = IF req[h].number \in DOMAIN versions THEN versions
                   ELSE [n \in DOMAIN versions \cup {req[h].number} |->
                           IF n = req[h].number THEN SnapshotOf(req[h].seen)
                           ELSE versions[n]]
    /\ Step(h, Null)
    /\ UNCHANGED <<doc, clock>>

-----------------------------------------------------------------------------
(* The operations                                                           *)

MayStart(h, op) == req[h] = Null /\ op \in Operations

MayWrite == clock < MaxClock

MayCut == Cardinality(DOMAIN versions) < MaxVersions

Generate(h, s, cut) ==
    /\ MayStart(h, "generate") /\ MayWrite
    /\ cut => MayCut
    /\ Step(h, Begin("generate", <<s>>, cut))
    /\ UNCHANGED <<doc, versions, clock>>

(* The job worker generates a stage of the pipeline and cuts a version. *)
RunJob(h, s) == s \in Captured /\ Generate(h, s, TRUE)

(* The stream generates any stage but the cost estimate; a standalone one   *)
(* cuts no version.                                                         *)
RunStream(h, s) == s # "costEstimate" /\ Generate(h, s, s \in Captured)

(* The synchronous endpoint of a stage never cuts one. *)
PostGenerate(h, s) == Generate(h, s, FALSE)

(* save() of an editor; applyPatch() and append*() of an approved fix *)
Edit(h, k) ==
    /\ MayStart(h, "edit") /\ MayWrite
    /\ Step(h, Begin("edit", <<k>>, FALSE))
    /\ UNCHANGED <<doc, versions, clock>>

Refine(h) ==
    /\ MayStart(h, "refine") /\ MayWrite /\ MayCut
    /\ Step(h, Begin("refine", RefineStages, TRUE))
    /\ UNCHANGED <<doc, versions, clock>>

Restore(h, n) ==
    /\ MayStart(h, "restore") /\ MayCut
    /\ n \in DOMAIN versions
    /\ Step(h, [op |-> "restore", phase |-> "apply", stages |-> <<>>,
                todo |-> <<Captured>>,
                seen |-> [a \in Artifact |->
                            IF a \in Captured THEN versions[n][a] ELSE Null],
                at |-> 0, number |-> n, cut |-> TRUE])
    /\ UNCHANGED <<doc, versions, clock>>

(* A query or the model throws, or the process dies: what is written stays. *)
Fail(h) ==
    /\ MayFail /\ req[h] # Null
    /\ Step(h, Null)
    /\ UNCHANGED <<doc, versions, clock>>

Init ==
    /\ doc = Nothing
    /\ versions = <<>>
    /\ clock = 0
    /\ req = [h \in Handlers |-> Null]

Next ==
    \E h \in Handlers :
        \/ \E s \in Artifact :
             RunJob(h, s) \/ RunStream(h, s) \/ PostGenerate(h, s)
        \/ \E k \in Chain : Edit(h, k)
        \/ Refine(h)
        \/ \E n \in DOMAIN versions : Restore(h, n)
        \/ \E k \in Artifact : Fetch(h, k)
        \/ Consult(h)
        \/ Write(h)
        \/ \E k \in Captured : Apply(h, k)
        \/ Number(h)
        \/ Create(h)
        \/ Fail(h)

Spec == Init /\ [][Next]_vars

-----------------------------------------------------------------------------
(* Properties                                                               *)

(* The stored values have their types. *)
TypeOK ==
    /\ doc \in [Artifact -> Document \cup {Null}]
    /\ DOMAIN versions \subseteq Nat
    /\ \A n \in DOMAIN versions : versions[n] \in Snapshot
    /\ clock \in Nat
    /\ req \in [Handlers -> Operation \cup {Null}]

(* A derived artifact that reads as fresh was written from exactly the      *)
(* texts its sources hold now, whatever was edited, regenerated or restored *)
(* while its agent ran or since.                                            *)
FreshMeansCurrent ==
    \A d \in Derived :
        doc[d] # Null /\ ~IsStale(d, doc[d], Revisions(doc)) =>
            \A k \in Sources(d) :
                doc[k] # Null /\ doc[d].from[k] = doc[k].text

(* Version numbers run from 1 without a gap, though concurrent snapshots    *)
(* pick their number before they insert the row.                            *)
VersionsDense == DOMAIN versions = 1 .. LatestVersion

(* History is never destroyed: no operation changes or removes a version.   *)
VersionsImmutable ==
    [][/\ DOMAIN versions \subseteq DOMAIN versions'
       /\ \A n \in DOMAIN versions : versions'[n] = versions[n]]_vars

(* snapshot() is a no-op when nothing changed since the latest version: two *)
(* consecutive versions always differ.                                      *)
NoDuplicateVersions ==
    \A n \in DOMAIN versions :
        n + 1 \in DOMAIN versions => versions[n + 1] # versions[n]

(* What a project can be carried on from.                                   *)
Versions == {v \in Snapshot : v["requirements"] # Null}

Log == INSTANCE VersionLog WITH log <- versions

(* The versions are such a history, however snapshots, restores and their   *)
(* failures interleave: each step of the project cuts one version or none,  *)
(* and none that has lost the requirements everything else is made from.    *)
ImplementsVersionLog == Log!Spec

Restoring == \E h \in Handlers : req[h] # Null /\ req[h].phase = "apply"

(* With one operation at a time no artifact exists without the documents it *)
(* is derived from, even after a restore took the project back.             *)
PrerequisitesHold ==
    ~Restoring =>
        /\ doc["systemDesign"] # Null => doc["requirements"] # Null
        /\ doc["databaseDesign"] # Null => doc["systemDesign"] # Null
        /\ doc["apiDesign"] # Null => doc["databaseDesign"] # Null
        /\ doc["review"] # Null => doc["apiDesign"] # Null

(* A restore leaves the project matching the version exactly. *)
RestoreExact ==
    \A h \in Handlers :
        req[h] # Null /\ req[h].op = "restore" /\ req[h].phase = "capture" =>
            SnapshotOf(doc) = versions[req[h].number]

(* Refining leaves everything downstream consistent: each design was        *)
(* written from the current text of the documents before it, and a review   *)
(* that exists is fresh.                                                    *)
RefineConsistent ==
    \A h \in Handlers :
        req[h] # Null /\ req[h].op = "refine" /\ req[h].phase = "capture" =>
            /\ \A s \in Chain \ {"requirements"} :
                 \A i \in DOMAIN Upstream(s) : \A k \in Upstream(s)[i] :
                    doc[s].from[k] = doc[k].text
            /\ ~IsStale("review", doc["review"], Revisions(doc))

(* A version captures the project as it is when the version is cut. *)
CutIsCurrent ==
    [][\A n \in DOMAIN versions' \ DOMAIN versions :
            versions'[n] = SnapshotOf(doc)]_vars

=============================================================================
