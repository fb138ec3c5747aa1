----------------------------- MODULE MCPipeline -----------------------------
(* Small instances of Pipeline.                                             *)
EXTENDS Pipeline, TLC

CONSTANTS h1, h2

OneHandler == {h1}
TwoHandlers == {h1, h2}
AnyHandler == Permutations(TwoHandlers)

(* The cost estimate reads fewer sources than the review, the other stages  *)
(* read the same ones.                                                      *)
CostOnly == {"costEstimate"}
NoStandalone == {}

AllOperations == {"generate", "edit", "refine", "restore"}
AllButRefine == AllOperations \ {"refine"}

(* A project whose chain was generated one stage after the other by the     *)
(* synchronous endpoints, which cut no version: a state that Spec reaches.  *)
Generated(n, sources) ==
    [at |-> n, text |-> n,
     from |-> [k \in Chain |-> IF k \in DOMAIN sources THEN sources[k] ELSE Null],
     stamp |-> Null]

DesignedProject ==
    [a \in Artifact |->
        CASE a = "requirements" -> Generated(1, <<>>)
          [] a = "systemDesign" -> Generated(2, [requirements |-> 1])
          [] a = "databaseDesign" ->
                Generated(3, [requirements |-> 1, systemDesign |-> 2])
          [] a = "apiDesign" ->
                Generated(4, [requirements |-> 1, systemDesign |-> 2,
                              databaseDesign |-> 3])
          [] OTHER -> Null]

DesignedInit ==
    /\ doc = DesignedProject
    /\ versions = <<>>
    /\ clock = 4
    /\ req = [h \in Handlers |-> Null]

DesignedSpec == DesignedInit /\ [][Next]_vars
=============================================================================
