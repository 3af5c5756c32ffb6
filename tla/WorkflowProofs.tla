--------------------------- MODULE WorkflowProofs ---------------------------
(***************************************************************************)
(* Theorems about the workflow controller.  First the store, for every set *)
(* of agents, files, flow definitions and concurrent update_context calls; *)
(* then the plugin, which implements the store, so that every theorem      *)
(* about the store holds of it, and whose engine, used by one agent,       *)
(* injects a workflow of that agent.                                       *)
(***************************************************************************)
EXTENDS WorkflowController, WellFoundedInduction, TLAPS

-----------------------------------------------------------------------------
(* Lookups. *)

\* The index that find() returns is one of the matching positions.
LEMMA MinIsMember ==
    ASSUME NEW S \in SUBSET Nat, S # {}
    PROVE  Min(S) \in S
  <1> DEFINE R == {ss \in Nat \X Nat : ss[1] < ss[2]}
  <1>1. IsWellFoundedOn(R, Nat)
    BY NatLessThanWellFounded, Zenon DEF OpToRel
  <1>2. PICK m \in S : \A k \in S : ~ (<<k, m>> \in R)
    BY <1>1, WFMin, Zenon
  <1>3. \A k, n \in Nat : k < n => <<k, n>> \in R
    OBVIOUS
  <1> HIDE DEF R
  <1>4. ASSUME NEW k \in S
        PROVE  m =< k
    <2>1. k \in Nat /\ m \in Nat
      OBVIOUS
    <2>2. ~ (k < m)
      BY <1>2, <1>3, <2>1
    <2> QED  BY <2>1, <2>2
  <1> QED  BY <1>4 DEF Min

\* A flow is indexed by natural numbers and has a first step.
LEMMA FlowShape ==
    ASSUME NEW d \in FlowDefs
    PROVE  /\ DOMAIN d \subseteq Nat
           /\ 1 \in DOMAIN d
           /\ \A i \in DOMAIN d : d[i] \in StepDef
  <1>1. d \in Seq(StepDef) /\ d # <<>>
    BY FlowDefsAssumption
  <1>2. Len(d) \in Nat /\ DOMAIN d = 1 .. Len(d) /\ Len(d) # 0
    BY <1>1
  <1> QED  BY <1>1, <1>2

LEMMA StepIndexFound ==
    ASSUME NEW d \in FlowDefs, NEW id, HasStep(d, id)
    PROVE  StepIndex(d, id) \in DOMAIN d /\ d[StepIndex(d, id)].id = id
  <1>1. StepsWithId(d, id) \in SUBSET Nat
    BY FlowShape DEF StepsWithId
  <1>2. StepIndex(d, id) \in StepsWithId(d, id)
    BY <1>1, MinIsMember DEF StepIndex, HasStep
  <1> QED  BY <1>2 DEF StepsWithId

-----------------------------------------------------------------------------
(* The type of a record. *)

LEMMA WorkflowFields ==
    ASSUME NEW wf \in Workflow
    PROVE  /\ wf.def \in FlowDefs
           /\ wf.status \in [DOMAIN wf.def -> Status]
           /\ wf.reasons \in [DOMAIN wf.def -> SUBSET Reasons]
           /\ wf.cur \in StepIds
           /\ wf.done \subseteq StepIds
           /\ wf.facts \subseteq Facts
           /\ wf.questions \subseteq Questions
           /\ wf.plan \in Plans \cup {EmptyPlan}
           /\ wf.issue \in Issues \cup {NoIssue}
           /\ wf.repo \in Repos \cup {NoRepo}
           /\ wf.closed \in BOOLEAN
  BY DEF Workflow, WorkflowOf

\* The assignments of the operations, typed once for all of them.
LEMMA WorkflowUpdates ==
    ASSUME NEW wf \in Workflow
    PROVE  /\ \A s \in [DOMAIN wf.def -> Status], r \in [DOMAIN wf.def -> SUBSET Reasons],
              n \in SUBSET StepIds :
                [wf EXCEPT !.status = s, !.reasons = r, !.done = n] \in Workflow
           /\ \A s \in [DOMAIN wf.def -> Status], c \in StepIds :
                [wf EXCEPT !.status = s, !.cur = c] \in Workflow
           /\ \A s \in [DOMAIN wf.def -> Status], r \in [DOMAIN wf.def -> SUBSET Reasons] :
                [wf EXCEPT !.status = s, !.reasons = r] \in Workflow
           /\ \A f \in SUBSET Facts, q \in SUBSET Questions, t \in Plans \cup {EmptyPlan} :
                [wf EXCEPT !.facts = f, !.questions = q, !.plan = t] \in Workflow
           /\ [wf EXCEPT !.closed = TRUE] \in Workflow
  <1>1. PICK d \in FlowDefs : wf \in WorkflowOf(d)
    BY DEF Workflow
  <1>2. WorkflowOf(d) \subseteq Workflow
    BY DEF Workflow, WorkflowOf
  <1>3. ASSUME NEW s \in [DOMAIN wf.def -> Status],
               NEW r \in [DOMAIN wf.def -> SUBSET Reasons],
               NEW n \in SUBSET StepIds
        PROVE  [wf EXCEPT !.status = s, !.reasons = r, !.done = n] \in WorkflowOf(d)
    BY <1>1 DEF WorkflowOf
  <1>4. ASSUME NEW s \in [DOMAIN wf.def -> Status], NEW c \in StepIds
        PROVE  [wf EXCEPT !.status = s, !.cur = c] \in WorkflowOf(d)
    BY <1>1 DEF WorkflowOf
  <1>5. ASSUME NEW s \in [DOMAIN wf.def -> Status],
               NEW r \in [DOMAIN wf.def -> SUBSET Reasons]
        PROVE  [wf EXCEPT !.status = s, !.reasons = r] \in WorkflowOf(d)
    BY <1>1 DEF WorkflowOf
  <1>6. ASSUME NEW f \in SUBSET Facts, NEW q \in SUBSET Questions, NEW t \in Plans \cup {EmptyPlan}
        PROVE  [wf EXCEPT !.facts = f, !.questions = q, !.plan = t] \in WorkflowOf(d)
    BY <1>1 DEF WorkflowOf
  <1>7. [wf EXCEPT !.closed = TRUE] \in WorkflowOf(d)
    BY <1>1 DEF WorkflowOf
  <1> QED  BY <1>2, <1>3, <1>4, <1>5, <1>6, <1>7

-----------------------------------------------------------------------------
(* What each operation does to a record. *)

LEMMA CreateWorkflowEffect ==
    ASSUME NEW d \in FlowDefs, NEW t \in Plans \cup {NoPlan},
           NEW i \in Issues \cup {NoIssue}, NEW r \in Repos \cup {NoRepo}
    PROVE  /\ CreateWorkflow(d, t, i, r) \in Workflow
           /\ CreateWorkflow(d, t, i, r).def = d
           /\ CreateWorkflow(d, t, i, r).done = {}
           /\ CreateWorkflow(d, t, i, r).cur = d[1].id
           /\ CreateWorkflow(d, t, i, r).status
                = [k \in DOMAIN d |-> IF k = 1 THEN "running" ELSE "pending"]
  <1>1. d[1].id \in StepIds
    BY FlowShape DEF StepDef
  <1>2. (IF t = NoPlan THEN EmptyPlan ELSE t) \in Plans \cup {EmptyPlan}
    BY PlansAssumption
  <1> QED  BY <1>1, <1>2 DEF CreateWorkflow, Workflow, WorkflowOf, Status

LEMMA AdvanceTargets ==
    ASSUME NEW wf \in Workflow, NEW p \in AdvanceArgs, CanAdvance(wf, p)
    PROVE  /\ CompletedIndex(wf, p) \in DOMAIN wf.def
           /\ wf.def[CompletedIndex(wf, p)].id = TargetId(wf, p.step)
           /\ TargetId(wf, p.step) \in StepIds
  <1>1. wf.def \in FlowDefs
    BY WorkflowFields
  <1>2. HasStep(wf.def, TargetId(wf, p.step))
    BY DEF CanAdvance
  <1>3. /\ CompletedIndex(wf, p) \in DOMAIN wf.def
        /\ wf.def[CompletedIndex(wf, p)].id = TargetId(wf, p.step)
    BY <1>1, <1>2, StepIndexFound DEF CompletedIndex
  <1> QED  BY <1>1, <1>3, FlowShape DEF StepDef

LEMMA MarkCompletedEffect ==
    ASSUME NEW wf \in Workflow, NEW p \in AdvanceArgs, CanAdvance(wf, p)
    PROVE  LET m == MarkCompleted(wf, p)
               i == CompletedIndex(wf, p)
           IN  /\ m \in Workflow
               /\ m.def = wf.def
               /\ m.cur = wf.cur
               /\ m.closed = wf.closed
               /\ m.status = [wf.status EXCEPT ![i] = "completed"]
               /\ m.reasons = [wf.reasons EXCEPT ![i] = {}]
               /\ m.done = wf.done \cup {wf.def[i].id}
  <1> DEFINE i == CompletedIndex(wf, p)
  <1>1. i \in DOMAIN wf.def /\ wf.def[i].id = TargetId(wf, p.step)
        /\ TargetId(wf, p.step) \in StepIds
    BY AdvanceTargets
  <1>2. /\ wf.status \in [DOMAIN wf.def -> Status]
        /\ wf.reasons \in [DOMAIN wf.def -> SUBSET Reasons]
        /\ wf.done \subseteq StepIds
    BY WorkflowFields
  <1> DEFINE s == [wf.status EXCEPT ![i] = "completed"]
             r == [wf.reasons EXCEPT ![i] = {}]
             n == wf.done \cup {TargetId(wf, p.step)}
  <1>3. /\ s \in [DOMAIN wf.def -> Status]
        /\ r \in [DOMAIN wf.def -> SUBSET Reasons]
        /\ n \in SUBSET StepIds
    BY <1>1, <1>2 DEF Status
  <1>4. MarkCompleted(wf, p) = [wf EXCEPT !.status = s, !.reasons = r, !.done = n]
    BY DEF MarkCompleted
  <1> HIDE DEF i, s, r, n
  <1>5. [wf EXCEPT !.status = s, !.reasons = r, !.done = n] \in Workflow
    BY <1>3, WorkflowUpdates, WorkflowFields
  <1>6. LET m == [wf EXCEPT !.status = s, !.reasons = r, !.done = n]
        IN  /\ m.def = wf.def
            /\ m.cur = wf.cur
            /\ m.closed = wf.closed
            /\ m.status = s
            /\ m.reasons = r
            /\ m.done = n
    BY DEF Workflow, WorkflowOf
  <1> QED  BY <1>1, <1>4, <1>5, <1>6 DEF i, s, r, n

LEMMA EnterNextEffect ==
    ASSUME NEW wf \in Workflow, NEW p \in AdvanceArgs
    PROVE  \/ EnterNext(wf, p) = wf
           \/ \E j \in DOMAIN wf.def :
                /\ EnterNext(wf, p) \in Workflow
                /\ EnterNext(wf, p)
                     = [wf EXCEPT !.status = [wf.status EXCEPT ![j] = "running"],
                                  !.cur    = wf.def[j].id]
  <1> DEFINE S == EnterCandidates(wf, p)
             j == Min(S)
  <1>1. SUFFICES ASSUME S # {}
                 PROVE  /\ j \in DOMAIN wf.def
                        /\ EnterNext(wf, p) \in Workflow
    BY DEF EnterNext
  <1>2. wf.def \in FlowDefs /\ wf.status \in [DOMAIN wf.def -> Status]
    BY WorkflowFields
  <1>3. S \subseteq DOMAIN wf.def
    BY <1>2 DEF EnterCandidates, StepsWithId, PendingSteps
  <1>4. j \in DOMAIN wf.def
    BY <1>1, <1>2, <1>3, FlowShape, MinIsMember
  <1>5. wf.def[j].id \in StepIds
    BY <1>2, <1>4, FlowShape DEF StepDef
  <1>6. [wf.status EXCEPT ![j] = "running"] \in [DOMAIN wf.def -> Status]
    BY <1>2, <1>4 DEF Status
  <1>7. EnterNext(wf, p) = [wf EXCEPT !.status = [wf.status EXCEPT ![j] = "running"],
                                      !.cur    = wf.def[j].id]
    BY <1>1 DEF EnterNext
  <1> HIDE DEF j
  <1>8. [wf EXCEPT !.status = [wf.status EXCEPT ![j] = "running"],
                   !.cur    = wf.def[j].id] \in Workflow
    BY <1>5, <1>6, WorkflowUpdates, WorkflowFields
  <1> QED  BY <1>4, <1>7, <1>8

\* Facts, questions, plan and closedAt are no part of a record's progress.
SameProgress(wf, new) ==
    /\ new.def = wf.def
    /\ new.status = wf.status
    /\ new.reasons = wf.reasons
    /\ new.cur = wf.cur
    /\ new.done = wf.done

LEMMA LearnEffect ==
    ASSUME NEW wf \in Workflow, NEW p \in AdvanceArgs
    PROVE  /\ Learn(wf, p) \in Workflow
           /\ SameProgress(wf, Learn(wf, p))
           /\ Learn(wf, p).closed = wf.closed
  <1> DEFINE t == IF p.plan \in {NoPlan, EmptyPlan} THEN wf.plan ELSE p.plan
             f == wf.facts \cup p.facts
             q == (wf.questions \ p.resolved) \cup p.questions
  <1>1. t \in Plans \cup {EmptyPlan} /\ f \in SUBSET Facts /\ q \in SUBSET Questions
    BY WorkflowFields DEF AdvanceArgs
  <1>2. Learn(wf, p) = [wf EXCEPT !.facts = f, !.questions = q, !.plan = t]
    BY DEF Learn
  <1> HIDE DEF t, f, q
  <1>3. [wf EXCEPT !.facts = f, !.questions = q, !.plan = t] \in Workflow
    BY <1>1, WorkflowUpdates, WorkflowFields
  <1>4. SameProgress(wf, [wf EXCEPT !.facts = f, !.questions = q, !.plan = t])
        /\ [wf EXCEPT !.facts = f, !.questions = q, !.plan = t].closed = wf.closed
    BY DEF SameProgress, Workflow, WorkflowOf
  <1> QED  BY <1>2, <1>3, <1>4

LEMMA UpdateContextEffect ==
    ASSUME NEW wf \in Workflow, NEW p \in UpdateArgs
    PROVE  /\ UpdateContext(wf, p) \in Workflow
           /\ SameProgress(wf, UpdateContext(wf, p))
           /\ UpdateContext(wf, p).closed = wf.closed
  <1> DEFINE t == IF p.plan = NoPlan THEN wf.plan ELSE p.plan
             f == (wf.facts \cup p.addFacts) \ p.removeFacts
             q == (wf.questions \cup p.addQs) \ p.resolveQs
  <1>1. t \in Plans \cup {EmptyPlan} /\ f \in SUBSET Facts /\ q \in SUBSET Questions
    BY WorkflowFields DEF UpdateArgs
  <1>2. UpdateContext(wf, p) = [wf EXCEPT !.facts = f, !.questions = q, !.plan = t]
    BY DEF UpdateContext
  <1> HIDE DEF t, f, q
  <1>3. [wf EXCEPT !.facts = f, !.questions = q, !.plan = t] \in Workflow
    BY <1>1, WorkflowUpdates, WorkflowFields
  <1>4. SameProgress(wf, [wf EXCEPT !.facts = f, !.questions = q, !.plan = t])
        /\ [wf EXCEPT !.facts = f, !.questions = q, !.plan = t].closed = wf.closed
    BY DEF SameProgress, Workflow, WorkflowOf
  <1> QED  BY <1>2, <1>3, <1>4

LEMMA CloseWorkflowEffect ==
    ASSUME NEW wf \in Workflow
    PROVE  /\ CloseWorkflow(wf) \in Workflow
           /\ SameProgress(wf, CloseWorkflow(wf))
           /\ CloseWorkflow(wf).closed = TRUE
  <1>1. [wf EXCEPT !.closed = TRUE] \in Workflow
    BY WorkflowUpdates
  <1>2. SameProgress(wf, [wf EXCEPT !.closed = TRUE])
    BY DEF SameProgress, Workflow, WorkflowOf
  <1>3. [wf EXCEPT !.closed = TRUE].closed = TRUE
    BY DEF Workflow, WorkflowOf
  <1> QED  BY <1>1, <1>2, <1>3 DEF CloseWorkflow

\* new is wf with its i-th step blocked for the reasons r.
BlockedAt(wf, new, i, r) ==
    /\ new \in Workflow
    /\ new.def = wf.def
    /\ new.cur = wf.cur
    /\ new.done = wf.done
    /\ new.closed = wf.closed
    /\ new.status = [wf.status EXCEPT ![i] = "blocked"]
    /\ new.reasons = [wf.reasons EXCEPT ![i] = r]

LEMMA BlockStepEffect ==
    ASSUME NEW wf \in Workflow, NEW id \in StepIds \cup {NoStep},
           NEW r \in SUBSET Reasons, HasStep(wf.def, TargetId(wf, id))
    PROVE  \E i \in DOMAIN wf.def : BlockedAt(wf, BlockStep(wf, id, r), i, r)
  <1> DEFINE i == StepIndex(wf.def, TargetId(wf, id))
  <1>1. i \in DOMAIN wf.def
    BY WorkflowFields, StepIndexFound
  <1> DEFINE s == [wf.status EXCEPT ![i] = "blocked"]
             q == [wf.reasons EXCEPT ![i] = r]
  <1>2. s \in [DOMAIN wf.def -> Status] /\ q \in [DOMAIN wf.def -> SUBSET Reasons]
    BY <1>1, WorkflowFields DEF Status
  <1>3. BlockStep(wf, id, r) = [wf EXCEPT !.status = s, !.reasons = q]
    BY DEF BlockStep
  <1> HIDE DEF s, q, i
  <1>4. [wf EXCEPT !.status = s, !.reasons = q] \in Workflow
    BY <1>2, WorkflowUpdates, WorkflowFields
  <1>5. LET new == [wf EXCEPT !.status = s, !.reasons = q]
        IN  /\ new.def = wf.def
            /\ new.cur = wf.cur
            /\ new.done = wf.done
            /\ new.closed = wf.closed
            /\ new.status = s
            /\ new.reasons = q
    BY DEF Workflow, WorkflowOf
  <1> QED  BY <1>1, <1>3, <1>4, <1>5 DEF BlockedAt, s, q

-----------------------------------------------------------------------------
(* The operations keep a record consistent. *)

Consistent(wf) == wf \in Workflow /\ Bookkept(wf) /\ Started(wf)

LEMMA SameProgressConsistent ==
    ASSUME NEW wf, Consistent(wf), NEW new \in Workflow, SameProgress(wf, new)
    PROVE  Consistent(new)
  BY DEF Consistent, SameProgress, Bookkept, Started

LEMMA CreateConsistent ==
    ASSUME NEW d \in FlowDefs, NEW t \in Plans \cup {NoPlan},
           NEW i \in Issues \cup {NoIssue}, NEW r \in Repos \cup {NoRepo}
    PROVE  /\ Consistent(CreateWorkflow(d, t, i, r))
           /\ DistinctIds(d) => RunsOnlyCurrent(CreateWorkflow(d, t, i, r))
  <1> DEFINE wf == CreateWorkflow(d, t, i, r)
  <1>1. /\ wf \in Workflow /\ wf.def = d /\ wf.done = {} /\ wf.cur = d[1].id
        /\ wf.status = [k \in DOMAIN d |-> IF k = 1 THEN "running" ELSE "pending"]
    BY CreateWorkflowEffect
  <1>2. 1 \in DOMAIN d
    BY FlowShape
  <1> HIDE DEF wf
  <1>3. Bookkept(wf) /\ Started(wf) /\ RunsOnlyCurrent(wf)
    BY <1>1, <1>2 DEF Bookkept, Started, RunsOnlyCurrent
  <1> QED  BY <1>1, <1>3 DEF wf, Consistent

\* Completing a step: the intermediate record of advanceStep.
LEMMA MarkCompletedConsistent ==
    ASSUME NEW wf, Consistent(wf), NEW p \in AdvanceArgs, CanAdvance(wf, p)
    PROVE  /\ Consistent(MarkCompleted(wf, p))
           /\ TargetId(wf, p.step) = wf.cur /\ DistinctIds(wf.def) /\ RunsOnlyCurrent(wf)
                => \A k \in DOMAIN wf.def : MarkCompleted(wf, p).status[k] # "running"
  <1> DEFINE m == MarkCompleted(wf, p)
             i == CompletedIndex(wf, p)
  <1>1. wf \in Workflow
    BY DEF Consistent
  <1>2. /\ i \in DOMAIN wf.def
        /\ wf.def[i].id = TargetId(wf, p.step)
    BY <1>1, AdvanceTargets
  <1>3. /\ m \in Workflow
        /\ m.def = wf.def
        /\ m.cur = wf.cur
        /\ m.status = [wf.status EXCEPT ![i] = "completed"]
        /\ m.reasons = [wf.reasons EXCEPT ![i] = {}]
        /\ m.done = wf.done \cup {wf.def[i].id}
    BY <1>1, MarkCompletedEffect
  <1>4. /\ wf.status \in [DOMAIN wf.def -> Status]
        /\ wf.reasons \in [DOMAIN wf.def -> SUBSET Reasons]
    BY <1>1, WorkflowFields
  <1> HIDE DEF m, i
  <1>5. ASSUME NEW k \in DOMAIN m.def, m.status[k] = "completed"
        PROVE  m.def[k].id \in m.done /\ m.reasons[k] = {}
    BY <1>2, <1>3, <1>4, <1>5 DEF Consistent, Bookkept
  <1>6. ASSUME DistinctIds(m.def), NEW k \in DOMAIN m.def, m.status[k] = "pending"
        PROVE  m.def[k].id \notin m.done
    <2>1. k # i /\ wf.status[k] = "pending"
      BY <1>2, <1>3, <1>4, <1>6
    <2>2. wf.def[k].id \notin wf.done
      BY <1>3, <1>6, <2>1 DEF Consistent, Bookkept
    <2>3. wf.def[k].id # wf.def[i].id
      BY <1>2, <1>3, <1>6, <2>1 DEF DistinctIds
    <2> QED  BY <1>3, <2>2, <2>3
  <1>7. Started(m)
    <2>1. PICK k \in DOMAIN wf.def : wf.def[k].id = wf.cur /\ wf.status[k] # "pending"
      BY DEF Consistent, Started
    <2>2. m.status[k] # "pending"
      BY <1>3, <1>4, <2>1
    <2> QED  BY <1>3, <2>1, <2>2 DEF Started
  <1>8. ASSUME TargetId(wf, p.step) = wf.cur, DistinctIds(wf.def), RunsOnlyCurrent(wf),
               NEW k \in DOMAIN wf.def
        PROVE  m.status[k] # "running"
    BY <1>2, <1>3, <1>4, <1>8 DEF DistinctIds, RunsOnlyCurrent
  <1> QED  BY <1>3, <1>5, <1>6, <1>7, <1>8 DEF m, Consistent, Bookkept

LEMMA EnterNextConsistent ==
    ASSUME NEW wf, Consistent(wf), NEW p \in AdvanceArgs
    PROVE  /\ Consistent(EnterNext(wf, p))
           /\ EnterNext(wf, p).def = wf.def
           /\ EnterNext(wf, p).done = wf.done
           /\ EnterNext(wf, p).closed = wf.closed
           /\ \A k \in DOMAIN wf.def :
                 wf.status[k] # "pending" => EnterNext(wf, p).status[k] # "pending"
           /\ (\A k \in DOMAIN wf.def : wf.status[k] # "running")
                => RunsOnlyCurrent(EnterNext(wf, p))
  <1>1. wf \in Workflow
    BY DEF Consistent
  <1>2. CASE EnterNext(wf, p) = wf
    BY <1>2 DEF Consistent, RunsOnlyCurrent
  <1>3. CASE \E j \in DOMAIN wf.def :
                /\ EnterNext(wf, p) \in Workflow
                /\ EnterNext(wf, p)
                     = [wf EXCEPT !.status = [wf.status EXCEPT ![j] = "running"],
                                  !.cur    = wf.def[j].id]
    <2> DEFINE new == EnterNext(wf, p)
    <2>1. PICK j \in DOMAIN wf.def :
                /\ new \in Workflow
                /\ new = [wf EXCEPT !.status = [wf.status EXCEPT ![j] = "running"],
                                    !.cur    = wf.def[j].id]
      BY <1>3
    <2>2. /\ new.def = wf.def
          /\ new.done = wf.done
          /\ new.closed = wf.closed
          /\ new.reasons = wf.reasons
          /\ new.cur = wf.def[j].id
          /\ new.status = [wf.status EXCEPT ![j] = "running"]
      BY <1>1, <2>1 DEF Workflow, WorkflowOf
    <2>3. wf.status \in [DOMAIN wf.def -> Status]
      BY <1>1, WorkflowFields
    <2> HIDE DEF new
    <2>4. Bookkept(new)
      BY <2>2, <2>3 DEF Consistent, Bookkept, DistinctIds
    <2>5. Started(new)
      BY <2>2, <2>3 DEF Started
    <2>6. ASSUME NEW k \in DOMAIN wf.def, wf.status[k] # "pending"
          PROVE  new.status[k] # "pending"
      BY <2>2, <2>3, <2>6
    <2>7. ASSUME \A k \in DOMAIN wf.def : wf.status[k] # "running"
          PROVE  RunsOnlyCurrent(new)
      BY <2>2, <2>3, <2>7 DEF RunsOnlyCurrent
    <2> QED  BY <2>1, <2>2, <2>4, <2>5, <2>6, <2>7 DEF new, Consistent
  <1> QED  BY <1>1, <1>2, <1>3, EnterNextEffect

\* Nothing is lost between a record and a later one of the same workflow.
Keeps(old, new) == new.def = old.def /\ ~ Rewinds(old, new)

LEMMA AdvanceStepSound ==
    ASSUME NEW wf, Consistent(wf), NEW p \in AdvanceArgs, CanAdvance(wf, p)
    PROVE  /\ Consistent(AdvanceStep(wf, p))
           /\ Keeps(wf, AdvanceStep(wf, p))
           /\ TargetId(wf, p.step) = wf.cur /\ DistinctIds(wf.def) /\ RunsOnlyCurrent(wf)
                => RunsOnlyCurrent(AdvanceStep(wf, p))
  <1> DEFINE m == MarkCompleted(wf, p)
             n == EnterNext(m, p)
             l == Learn(n, p)
             i == CompletedIndex(wf, p)
  <1>1. /\ wf \in Workflow
        /\ wf.status \in [DOMAIN wf.def -> Status]
    BY WorkflowFields DEF Consistent
  <1>2. /\ m.def = wf.def
        /\ m.closed = wf.closed
        /\ m.status = [wf.status EXCEPT ![i] = "completed"]
        /\ wf.done \subseteq m.done
    BY <1>1, MarkCompletedEffect
  <1>3. /\ Consistent(m)
        /\ TargetId(wf, p.step) = wf.cur /\ DistinctIds(wf.def) /\ RunsOnlyCurrent(wf)
             => \A k \in DOMAIN wf.def : m.status[k] # "running"
    BY MarkCompletedConsistent
  <1> HIDE DEF m
  <1>4. /\ Consistent(n)
        /\ n.def = m.def
        /\ n.done = m.done
        /\ n.closed = m.closed
        /\ \A k \in DOMAIN m.def : m.status[k] # "pending" => n.status[k] # "pending"
        /\ (\A k \in DOMAIN m.def : m.status[k] # "running") => RunsOnlyCurrent(n)
    BY <1>3, EnterNextConsistent
  <1> HIDE DEF n
  <1>5. /\ l \in Workflow
        /\ SameProgress(n, l)
        /\ l.closed = n.closed
    BY <1>4, LearnEffect DEF Consistent
  <1> HIDE DEF l
  <1>6. Consistent(l)
    BY <1>4, <1>5, SameProgressConsistent
  <1>7. \A k \in DOMAIN wf.def : wf.status[k] # "pending" => l.status[k] # "pending"
    BY <1>1, <1>2, <1>4, <1>5 DEF SameProgress
  <1>8. Keeps(wf, l)
    BY <1>1, <1>2, <1>4, <1>5, <1>7 DEF Keeps, Rewinds, SameProgress
  <1>9. ASSUME TargetId(wf, p.step) = wf.cur, DistinctIds(wf.def), RunsOnlyCurrent(wf)
        PROVE  RunsOnlyCurrent(l)
    BY <1>2, <1>3, <1>4, <1>5, <1>9 DEF RunsOnlyCurrent, SameProgress
  <1> QED  BY <1>6, <1>8, <1>9 DEF l, n, m, AdvanceStep

LEMMA BlockStepSound ==
    ASSUME NEW wf, Consistent(wf), NEW id \in StepIds \cup {NoStep},
           NEW r \in SUBSET Reasons, HasStep(wf.def, TargetId(wf, id))
    PROVE  /\ Consistent(BlockStep(wf, id, r))
           /\ Keeps(wf, BlockStep(wf, id, r))
           /\ RunsOnlyCurrent(wf) => RunsOnlyCurrent(BlockStep(wf, id, r))
  <1> DEFINE new == BlockStep(wf, id, r)
  <1>1. /\ wf \in Workflow
        /\ wf.status \in [DOMAIN wf.def -> Status]
        /\ wf.reasons \in [DOMAIN wf.def -> SUBSET Reasons]
    BY WorkflowFields DEF Consistent
  <1>2. PICK i \in DOMAIN wf.def : BlockedAt(wf, new, i, r)
    BY <1>1, BlockStepEffect
  <1> HIDE DEF new
  <1>3. Bookkept(new)
    BY <1>1, <1>2 DEF BlockedAt, Consistent, Bookkept, DistinctIds
  <1>4. Started(new)
    BY <1>1, <1>2 DEF BlockedAt, Consistent, Started
  <1>5. Keeps(wf, new)
    BY <1>1, <1>2 DEF BlockedAt, Keeps, Rewinds
  <1>6. RunsOnlyCurrent(wf) => RunsOnlyCurrent(new)
    BY <1>1, <1>2 DEF BlockedAt, RunsOnlyCurrent
  <1> QED  BY <1>2, <1>3, <1>4, <1>5, <1>6 DEF BlockedAt, new, Consistent

LEMMA SameProgressKeeps ==
    ASSUME NEW wf, NEW new, SameProgress(wf, new), wf.closed => new.closed
    PROVE  Keeps(wf, new) /\ (RunsOnlyCurrent(wf) => RunsOnlyCurrent(new))
  BY DEF SameProgress, Keeps, Rewinds, RunsOnlyCurrent

-----------------------------------------------------------------------------
(* The inductive invariant: every saved record and every record held by an *)
(* update_context call is consistent, and runs only its current step while *)
(* no call has named another one.  The records that calls hold must be     *)
(* part of it, because a stale save brings them back.                      *)

Sound(wf, quiet) ==
    Consistent(wf) /\ (quiet /\ DistinctIds(wf.def) => RunsOnlyCurrent(wf))

DiskSound ==
    \A a \in Agents, w \in WorkflowIds :
        disk[a][w] # NoWorkflow => Sound(disk[a][w], <<a, w>> \notin strayed)

CallsSound ==
    \A c \in Calls :
        call[c] # Idle => Sound(call[c].base, <<call[c].agent, call[c].id>> \notin strayed)

StoreInv == StoreTypeOK /\ DiskSound /\ CallsSound

LEMMA SavedRecord ==
    ASSUME StoreInv, NEW a \in Agents, NEW w \in Saved(a)
    PROVE  /\ w \in WorkflowIds
           /\ disk[a][w] \in Workflow
           /\ disk[a][w] # NoWorkflow
           /\ Sound(disk[a][w], <<a, w>> \notin strayed)
           /\ Consistent(disk[a][w])
  BY DEF StoreInv, StoreTypeOK, DiskSound, Saved, Sound

LEMMA HeldRecord ==
    ASSUME StoreInv, NEW c \in Calls, call[c] # Idle
    PROVE  /\ call[c] \in PendingCall
           /\ call[c].agent \in Agents
           /\ call[c].id \in WorkflowIds
           /\ call[c].base \in Workflow
           /\ call[c].args \in UpdateArgs
           /\ Sound(call[c].base, <<call[c].agent, call[c].id>> \notin strayed)
  BY DEF StoreInv, StoreTypeOK, CallsSound, PendingCall

\* Every handler that saves: one sound record is written, the history only
\* grows, and calls only end.
LEMMA SavePreservesInv ==
    ASSUME StoreInv,
           NEW a \in Agents, NEW w \in WorkflowIds, NEW new,
           SaveWorkflow(a, w, new),
           Sound(new, <<a, w>> \notin strayed'),
           strayed \subseteq strayed',
           strayed' \subseteq Agents \X WorkflowIds,
           call' \in [Calls -> PendingCall \cup {Idle}],
           \A c \in Calls : call'[c] # Idle => call'[c] = call[c]
    PROVE  StoreInv'
  <1>1. new \in Workflow
    BY DEF Sound, Consistent
  <1>2. /\ disk \in [Agents -> [WorkflowIds -> Workflow \cup {NoWorkflow}]]
        /\ disk' = [disk EXCEPT ![a][w] = new]
    BY DEF StoreInv, StoreTypeOK, SaveWorkflow
  <1>3. StoreTypeOK'
    BY <1>1, <1>2 DEF StoreTypeOK
  <1>4. DiskSound'
    <2> SUFFICES ASSUME NEW b \in Agents, NEW v \in WorkflowIds, disk'[b][v] # NoWorkflow
                 PROVE  Sound(disk'[b][v], <<b, v>> \notin strayed')
      BY DEF DiskSound
    <2>1. CASE b = a /\ v = w
      BY <1>2, <2>1
    <2>2. CASE ~ (b = a /\ v = w)
      <3>1. disk'[b][v] = disk[b][v]
        BY <1>2, <2>2
      <3>2. Sound(disk[b][v], <<b, v>> \notin strayed)
        BY <3>1 DEF StoreInv, DiskSound
      <3> QED  BY <3>1, <3>2 DEF Sound
    <2> QED  BY <2>1, <2>2
  <1>5. CallsSound'
    <2> SUFFICES ASSUME NEW c \in Calls, call'[c] # Idle
                 PROVE  Sound(call'[c].base, <<call'[c].agent, call'[c].id>> \notin strayed')
      BY DEF CallsSound
    <2>1. call'[c] = call[c]
      OBVIOUS
    <2>2. Sound(call[c].base, <<call[c].agent, call[c].id>> \notin strayed)
      BY <2>1 DEF StoreInv, CallsSound
    <2> QED  BY <2>1, <2>2 DEF Sound
  <1> QED  BY <1>3, <1>4, <1>5 DEF StoreInv

LEMMA InitInv == StoreInit => StoreInv
  BY DEF StoreInit, StoreInv, StoreTypeOK, DiskSound, CallsSound

LEMMA FindWorkflowByIssueFound ==
    ASSUME NEW a \in Agents, NEW issue, NEW repo, ForIssue(a, issue, repo) # {}
    PROVE  FindWorkflowByIssue(a, issue, repo) \in Saved(a)
  <1>1. ForIssue(a, issue, repo) \in SUBSET Nat
    BY WorkflowIdsAssumption DEF ForIssue, Saved
  <1>2. FindWorkflowByIssue(a, issue, repo) \in ForIssue(a, issue, repo)
    BY <1>1, MinIsMember DEF FindWorkflowByIssue
  <1> QED  BY <1>2 DEF ForIssue

LEMMA CreateInv ==
    ASSUME StoreInv, NEW a \in Agents, NEW w \in WorkflowIds, NEW def \in FlowDefs,
           NEW plan \in Plans \cup {NoPlan}, NEW issue \in Issues \cup {NoIssue},
           NEW repo \in Repos \cup {NoRepo},
           Create(a, w, def, plan, issue, repo)
    PROVE  StoreInv'
  <1> DEFINE new == CreateWorkflow(def, plan, issue, repo)
  <1>0. new.def = def
    BY DEF CreateWorkflow
  <1>1. Consistent(new) /\ (DistinctIds(def) => RunsOnlyCurrent(new))
    BY CreateConsistent
  <1> HIDE DEF new
  <1>2. Sound(new, <<a, w>> \notin strayed')
    BY <1>0, <1>1 DEF Sound
  <1>3. SaveWorkflow(a, w, new) /\ call' = call /\ strayed' = strayed
    BY DEF Create, new
  <1>4. call \in [Calls -> PendingCall \cup {Idle}] /\ strayed \subseteq Agents \X WorkflowIds
    BY DEF StoreInv, StoreTypeOK
  <1> QED  BY <1>2, <1>3, <1>4, SavePreservesInv

LEMMA CompleteInv ==
    ASSUME StoreInv, NEW a \in Agents, NEW w \in WorkflowIds, NEW p \in AdvanceArgs,
           Complete(a, w, p)
    PROVE  /\ StoreInv'
           /\ AdvanceStep(disk[a][w], p) \in Workflow
           /\ Keeps(disk[a][w], AdvanceStep(disk[a][w], p))
  <1> DEFINE wf == disk[a][w]
             new == AdvanceStep(wf, p)
  <1>1. w \in Saved(a) /\ CanAdvance(wf, p)
    BY DEF Complete
  <1>2. Sound(wf, <<a, w>> \notin strayed) /\ Consistent(wf)
    BY <1>1, SavedRecord
  <1>3. /\ Consistent(new)
        /\ Keeps(wf, new)
        /\ TargetId(wf, p.step) = wf.cur /\ DistinctIds(wf.def) /\ RunsOnlyCurrent(wf)
             => RunsOnlyCurrent(new)
    BY <1>1, <1>2, AdvanceStepSound
  <1>4. /\ SaveWorkflow(a, w, new)
        /\ call' = call
        /\ strayed' = IF TargetId(wf, p.step) = wf.cur
                      THEN strayed ELSE strayed \cup {<<a, w>>}
    BY DEF Complete
  <1> HIDE DEF new, wf
  <1>5. Sound(new, <<a, w>> \notin strayed')
    BY <1>2, <1>3, <1>4 DEF Sound, Keeps
  <1>6. /\ call \in [Calls -> PendingCall \cup {Idle}]
        /\ strayed \subseteq Agents \X WorkflowIds
    BY DEF StoreInv, StoreTypeOK
  <1>7. strayed \subseteq strayed' /\ strayed' \subseteq Agents \X WorkflowIds
    BY <1>4, <1>6
  <1>8. StoreInv'
    BY <1>4, <1>5, <1>6, <1>7, SavePreservesInv
  <1> QED  BY <1>3, <1>8 DEF wf, new, Consistent

LEMMA BlockInv ==
    ASSUME StoreInv, NEW a \in Agents, NEW w \in WorkflowIds,
           NEW s \in StepIds \cup {NoStep}, NEW r \in SUBSET Reasons,
           Block(a, w, s, r)
    PROVE  /\ StoreInv'
           /\ BlockStep(disk[a][w], s, r) \in Workflow
           /\ Keeps(disk[a][w], BlockStep(disk[a][w], s, r))
  <1> DEFINE wf == disk[a][w]
             new == BlockStep(wf, s, r)
  <1>1. w \in Saved(a) /\ HasStep(wf.def, TargetId(wf, s))
    BY DEF Block
  <1>2. Sound(wf, <<a, w>> \notin strayed) /\ Consistent(wf)
    BY <1>1, SavedRecord
  <1>3. /\ Consistent(new)
        /\ Keeps(wf, new)
        /\ RunsOnlyCurrent(wf) => RunsOnlyCurrent(new)
    BY <1>1, <1>2, BlockStepSound
  <1>4. SaveWorkflow(a, w, new) /\ call' = call /\ strayed' = strayed
    BY DEF Block
  <1> HIDE DEF new, wf
  <1>5. Sound(new, <<a, w>> \notin strayed')
    BY <1>2, <1>3, <1>4 DEF Sound, Keeps
  <1>6. call \in [Calls -> PendingCall \cup {Idle}] /\ strayed \subseteq Agents \X WorkflowIds
    BY DEF StoreInv, StoreTypeOK
  <1>7. StoreInv'
    BY <1>4, <1>5, <1>6, SavePreservesInv
  <1> QED  BY <1>3, <1>7 DEF wf, new, Consistent

LEMMA ArchiveInv ==
    ASSUME StoreInv, NEW a \in Agents, NEW issue \in Issues, NEW repo \in Repos \cup {NoRepo},
           Archive(a, issue, repo)
    PROVE  LET w == FindWorkflowByIssue(a, issue, repo)
           IN  /\ StoreInv'
               /\ w \in Saved(a)
               /\ CloseWorkflow(disk[a][w]) \in Workflow
               /\ Keeps(disk[a][w], CloseWorkflow(disk[a][w]))
  <1> DEFINE w == FindWorkflowByIssue(a, issue, repo)
             wf == disk[a][w]
             new == CloseWorkflow(wf)
  <1>1. ForIssue(a, issue, repo) # {}
    BY DEF Archive
  <1>2. w \in Saved(a) /\ w \in WorkflowIds
    BY <1>1, FindWorkflowByIssueFound DEF Saved
  <1>3. SaveWorkflow(a, w, new) /\ call' = call /\ strayed' = strayed
    BY DEF Archive
  <1> HIDE DEF w
  <1>4. Sound(wf, <<a, w>> \notin strayed) /\ Consistent(wf)
    BY <1>2, SavedRecord
  <1>5. new \in Workflow /\ SameProgress(wf, new) /\ new.closed
    BY <1>4, CloseWorkflowEffect DEF Consistent
  <1> HIDE DEF new
  <1>6. Consistent(new)
    BY <1>4, <1>5, SameProgressConsistent
  <1>7. Keeps(wf, new) /\ (RunsOnlyCurrent(wf) => RunsOnlyCurrent(new))
    BY <1>5, SameProgressKeeps
  <1>8. Sound(new, <<a, w>> \notin strayed')
    BY <1>3, <1>4, <1>6, <1>7 DEF Sound, Keeps
  <1>9. call \in [Calls -> PendingCall \cup {Idle}] /\ strayed \subseteq Agents \X WorkflowIds
    BY DEF StoreInv, StoreTypeOK
  <1>10. StoreInv'
    BY <1>2, <1>3, <1>8, <1>9, SavePreservesInv
  <1> QED  BY <1>2, <1>5, <1>7, <1>10 DEF w, new

LEMMA UpdateEndInv ==
    ASSUME StoreInv, NEW c \in Calls, UpdateEnd(c)
    PROVE  /\ StoreInv'
           /\ UpdateContext(call[c].base, call[c].args) \in Workflow
           /\ Keeps(call[c].base, UpdateContext(call[c].base, call[c].args))
  <1> DEFINE wf == call[c].base
             new == UpdateContext(wf, call[c].args)
             a == call[c].agent
             w == call[c].id
  <1>1. /\ call[c] # Idle
        /\ SaveWorkflow(a, w, new)
        /\ call' = [call EXCEPT ![c] = Idle]
        /\ strayed' = strayed
    BY DEF UpdateEnd
  <1>2. a \in Agents /\ w \in WorkflowIds /\ wf \in Workflow /\ call[c].args \in UpdateArgs
        /\ Sound(wf, <<a, w>> \notin strayed)
    BY <1>1, HeldRecord
  <1>3. new \in Workflow /\ SameProgress(wf, new) /\ new.closed = wf.closed
    BY <1>2, UpdateContextEffect
  <1> HIDE DEF new, wf, a, w
  <1>4. Consistent(new)
    BY <1>2, <1>3, SameProgressConsistent DEF Sound
  <1>5. Keeps(wf, new) /\ (RunsOnlyCurrent(wf) => RunsOnlyCurrent(new))
    BY <1>3, SameProgressKeeps
  <1>6. Sound(new, <<a, w>> \notin strayed')
    BY <1>1, <1>2, <1>4, <1>5 DEF Sound, Keeps
  <1>7. call \in [Calls -> PendingCall \cup {Idle}] /\ strayed \subseteq Agents \X WorkflowIds
    BY DEF StoreInv, StoreTypeOK
  <1>8. /\ call' \in [Calls -> PendingCall \cup {Idle}]
        /\ \A d \in Calls : call'[d] # Idle => call'[d] = call[d]
    BY <1>1, <1>7
  <1>9. StoreInv'
    BY <1>1, <1>2, <1>6, <1>7, <1>8, SavePreservesInv
  <1> QED  BY <1>3, <1>5, <1>9 DEF wf, new

LEMMA UpdateBeginInv ==
    ASSUME StoreInv, NEW a \in Agents, NEW w \in WorkflowIds, NEW c \in Calls,
           NEW p \in UpdateArgs, UpdateBegin(a, w, c, p)
    PROVE  StoreInv'
  <1> DEFINE k == [agent |-> a, id |-> w, base |-> disk[a][w], args |-> p]
  <1>1. w \in Saved(a) /\ call' = [call EXCEPT ![c] = k] /\ disk' = disk /\ strayed' = strayed
    BY DEF UpdateBegin
  <1>2. disk[a][w] \in Workflow /\ Sound(disk[a][w], <<a, w>> \notin strayed)
    BY <1>1, SavedRecord
  <1>3. k \in PendingCall /\ Sound(k.base, <<k.agent, k.id>> \notin strayed)
    BY <1>2 DEF PendingCall
  <1> HIDE DEF k
  <1>4. StoreTypeOK'
    BY <1>1, <1>3 DEF StoreInv, StoreTypeOK
  <1>5. DiskSound'
    BY <1>1 DEF StoreInv, DiskSound
  <1>6. CallsSound'
    BY <1>1, <1>3 DEF StoreInv, StoreTypeOK, CallsSound
  <1> QED  BY <1>4, <1>5, <1>6 DEF StoreInv

LEMMA CrashInv == StoreInv /\ Crash => StoreInv'
  BY DEF StoreInv, StoreTypeOK, DiskSound, CallsSound, Crash

LEMMA NextInv == StoreInv /\ [StoreNext]_storeVars => StoreInv'
  <1> SUFFICES ASSUME StoreInv, [StoreNext]_storeVars
               PROVE  StoreInv'
    OBVIOUS
  <1>1. ASSUME NEW a \in Agents, NEW w \in WorkflowIds, NEW def \in FlowDefs,
               NEW plan \in Plans \cup {NoPlan}, NEW issue \in Issues \cup {NoIssue},
               NEW repo \in Repos \cup {NoRepo},
               Create(a, w, def, plan, issue, repo)
        PROVE  StoreInv'
    BY <1>1, CreateInv
  <1>2. ASSUME NEW a \in Agents, NEW w \in WorkflowIds, Advance(a, w)
        PROVE  StoreInv'
    BY <1>2, CompleteInv DEF Advance
  <1>3. ASSUME NEW a \in Agents, NEW w \in WorkflowIds, Branch(a, w)
        PROVE  StoreInv'
    BY <1>3, CompleteInv DEF Branch
  <1>4. ASSUME NEW a \in Agents, NEW w \in WorkflowIds, NEW s \in StepIds \cup {NoStep},
               NEW r \in SUBSET Reasons, Block(a, w, s, r)
        PROVE  StoreInv'
    BY <1>4, BlockInv
  <1>5. ASSUME NEW a \in Agents, NEW w \in WorkflowIds, NEW c \in Calls,
               NEW p \in UpdateArgs, UpdateBegin(a, w, c, p)
        PROVE  StoreInv'
    BY <1>5, UpdateBeginInv
  <1>6. ASSUME NEW c \in Calls, UpdateEnd(c)
        PROVE  StoreInv'
    BY <1>6, UpdateEndInv
  <1>7. ASSUME NEW a \in Agents, NEW issue \in Issues, NEW repo \in Repos \cup {NoRepo},
               Archive(a, issue, repo)
        PROVE  StoreInv'
    BY <1>7, ArchiveInv
  <1>8. CASE Crash
    BY <1>8, CrashInv
  <1>9. CASE UNCHANGED storeVars
    BY <1>9 DEF storeVars, StoreInv, StoreTypeOK, DiskSound, CallsSound
  <1> QED  BY <1>1, <1>2, <1>3, <1>4, <1>5, <1>6, <1>7, <1>8, <1>9 DEF StoreNext

-----------------------------------------------------------------------------
(* The second implementation of advance, on any record. *)

\* A record of the workflow's fields, of whatever values.
IsRecord(w) ==
    w \in [def : {w.def}, status : {w.status}, reasons : {w.reasons}, cur : {w.cur},
           done : {w.done}, facts : {w.facts}, questions : {w.questions},
           plan : {w.plan}, issue : {w.issue}, repo : {w.repo}, closed : {w.closed}]

SameOrigin(a, b) ==
    a.def = b.def /\ a.issue = b.issue /\ a.repo = b.repo /\ a.closed = b.closed

SameContext(a, b) ==
    a.facts = b.facts /\ a.questions = b.questions /\ a.plan = b.plan

LEMMA WorkflowIsRecord ==
    ASSUME NEW wf \in Workflow
    PROVE  IsRecord(wf)
  <1>1. PICK d \in FlowDefs : wf \in WorkflowOf(d)
    BY DEF Workflow
  <1> QED  BY <1>1 DEF WorkflowOf, IsRecord

\* Two records with the same fields are the same.
LEMMA EqualRecords ==
    ASSUME NEW a, NEW b, IsRecord(a), IsRecord(b), SameOrigin(a, b), SameContext(a, b),
           a.status = b.status, a.reasons = b.reasons, a.cur = b.cur, a.done = b.done
    PROVE  a = b
  BY DEF IsRecord, SameOrigin, SameContext

\* The assignments of the two implementations, and what they do to a record.
TwinsWith(w, s, r) ==
    [w EXCEPT !.status = s, !.reasons = r]

MarkedWith(w, s, r, n) ==
    [w EXCEPT !.status = s, !.reasons = r, !.done = n]

EnteredWith(w, s, c) ==
    [w EXCEPT !.status = s, !.cur = c]

TaughtWith(w, f, q, t) ==
    [w EXCEPT !.facts = f, !.questions = q, !.plan = t]

PlannedWith(w, t, c) ==
    [w EXCEPT !.plan = t, !.cur = c]

ConvertedWith(w, s, r, c, n, f, q, t) ==
    [w EXCEPT !.status = s, !.reasons = r, !.cur = c, !.done = n,
              !.facts = f, !.questions = q, !.plan = t]

LEMMA TwinsRecord ==
    ASSUME NEW w, IsRecord(w), NEW s, NEW r
    PROVE  LET v == TwinsWith(w, s, r)
           IN  /\ IsRecord(v) /\ SameOrigin(v, w) /\ SameContext(v, w)
               /\ v.status = s /\ v.reasons = r /\ v.cur = w.cur /\ v.done = w.done
  BY DEF IsRecord, SameOrigin, SameContext, TwinsWith

LEMMA MarkedRecord ==
    ASSUME NEW w, IsRecord(w), NEW s, NEW r, NEW n
    PROVE  LET v == MarkedWith(w, s, r, n)
           IN  /\ IsRecord(v) /\ SameOrigin(v, w) /\ SameContext(v, w)
               /\ v.status = s /\ v.reasons = r /\ v.cur = w.cur /\ v.done = n
  BY DEF IsRecord, SameOrigin, SameContext, MarkedWith

LEMMA EnteredRecord ==
    ASSUME NEW w, IsRecord(w), NEW s, NEW c
    PROVE  LET v == EnteredWith(w, s, c)
           IN  /\ IsRecord(v) /\ SameOrigin(v, w) /\ SameContext(v, w)
               /\ v.status = s /\ v.reasons = w.reasons /\ v.cur = c /\ v.done = w.done
  BY DEF IsRecord, SameOrigin, SameContext, EnteredWith

LEMMA TaughtRecord ==
    ASSUME NEW w, IsRecord(w), NEW f, NEW q, NEW t
    PROVE  LET v == TaughtWith(w, f, q, t)
           IN  /\ IsRecord(v) /\ SameOrigin(v, w)
               /\ v.facts = f /\ v.questions = q /\ v.plan = t
               /\ v.status = w.status /\ v.reasons = w.reasons
               /\ v.cur = w.cur /\ v.done = w.done
  BY DEF IsRecord, SameOrigin, TaughtWith

LEMMA PlannedRecord ==
    ASSUME NEW w, IsRecord(w), NEW t, NEW c
    PROVE  LET v == PlannedWith(w, t, c)
           IN  /\ IsRecord(v) /\ SameOrigin(v, w)
               /\ v.facts = w.facts /\ v.questions = w.questions /\ v.plan = t
               /\ v.status = w.status /\ v.reasons = w.reasons
               /\ v.cur = c /\ v.done = w.done
  BY DEF IsRecord, SameOrigin, PlannedWith

LEMMA ConvertedRecord ==
    ASSUME NEW w, IsRecord(w), NEW s, NEW r, NEW c, NEW n, NEW f, NEW q, NEW t
    PROVE  LET v == ConvertedWith(w, s, r, c, n, f, q, t)
           IN  /\ IsRecord(v) /\ SameOrigin(v, w)
               /\ v.facts = f /\ v.questions = q /\ v.plan = t
               /\ v.status = s /\ v.reasons = r /\ v.cur = c /\ v.done = n
  BY DEF IsRecord, SameOrigin, ConvertedWith

\* The steps the converter completes, the statuses after that, the next step
\* it resolves and the candidates to be entered.
Hits(wf, p) == StepsWithId(wf.def, TargetId(wf, p.step))

Marked(wf, p) ==
    [i \in DOMAIN wf.status |-> IF i \in Hits(wf, p) THEN "completed" ELSE wf.status[i]]

Emptied(wf, p) ==
    [i \in DOMAIN wf.reasons |-> IF i \in Hits(wf, p) THEN {} ELSE wf.reasons[i]]

NextOf(wf, p) ==
    IF Hits(wf, p) = {} THEN NoStep
    ELSE ResolveNextStepId(wf.def[Min(Hits(wf, p))], p.label)

Enterable(wf, p) ==
    IF NextOf(wf, p) # NoStep THEN StepsWithId(wf.def, NextOf(wf, p))
    ELSE PendingSteps(Marked(wf, p))

LEMMA Converted ==
    ASSUME NEW wf \in Workflow, NEW p
    PROVE  LET v == ConvertedAdvance(wf, p)
               S == Enterable(wf, p)
           IN  /\ IsRecord(v) /\ SameOrigin(v, wf)
               /\ v.status = IF S = {} THEN Marked(wf, p)
                             ELSE [Marked(wf, p) EXCEPT ![Min(S)] = "running"]
               /\ v.reasons = Emptied(wf, p)
               /\ v.cur = IF S = {} THEN TargetId(wf, p.step) ELSE wf.def[Min(S)].id
               /\ v.done = wf.done \cup {TargetId(wf, p.step)}
               /\ v.facts = wf.facts \cup p.facts
               /\ v.questions = (wf.questions \ p.resolved) \cup p.questions
               /\ v.plan = IF p.plan = NoPlan THEN wf.plan ELSE p.plan
  <1> DEFINE S == Enterable(wf, p)
             s == IF S = {} THEN Marked(wf, p)
                  ELSE [Marked(wf, p) EXCEPT ![Min(S)] = "running"]
             r == Emptied(wf, p)
             c == IF S = {} THEN TargetId(wf, p.step) ELSE wf.def[Min(S)].id
             n == wf.done \cup {TargetId(wf, p.step)}
             f == wf.facts \cup p.facts
             q == (wf.questions \ p.resolved) \cup p.questions
             t == IF p.plan = NoPlan THEN wf.plan ELSE p.plan
             v == ConvertedAdvance(wf, p)
  <1>1. v = ConvertedWith(wf, s, r, c, n, f, q, t)
    BY Zenon DEF ConvertedAdvance, ConvertedWith, Enterable, NextOf, Marked, Emptied, Hits
  <1> HIDE DEF s, r, c, n, f, q, t, v
  <1>2. IsRecord(wf)
    BY WorkflowIsRecord
  <1>3. /\ IsRecord(v) /\ SameOrigin(v, wf)
        /\ v.facts = f /\ v.questions = q /\ v.plan = t
        /\ v.status = s /\ v.reasons = r /\ v.cur = c /\ v.done = n
    BY <1>1, <1>2, ConvertedRecord
  <1> QED  BY <1>3, Zenon DEF s, r, c, n, f, q, t, v

\* Where advanceStep accepts the call, the two differ as stated.
LEMMA ConvertsAlike ==
    ASSUME NEW wf \in Workflow, NEW p, CanAdvance(wf, p)
    PROVE  ConvertedAdvance(wf, p) = AdvanceAsConverted(wf, p)
  <1> DEFINE id == TargetId(wf, p.step)
             d == wf.def
             hits == StepsWithId(d, id)
             c == StepIndex(d, id)
             s == [i \in DOMAIN d |-> IF d[i].id = id THEN "completed" ELSE wf.status[i]]
             r == [i \in DOMAIN d |-> IF d[i].id = id THEN {} ELSE wf.reasons[i]]
             T == TwinsCompleted(wf, id)
             next == AdvanceTarget(wf, p)
             S == EnterCandidates(T, p)
             M == MarkCompleted(T, p)
             N == EnterNext(M, p)
             L == Learn(N, p)
             A == AdvanceAsConverted(wf, p)
             V == ConvertedAdvance(wf, p)
             running == [s EXCEPT ![Min(S)] = "running"]
  <1>1. /\ d \in FlowDefs /\ IsRecord(wf) /\ DOMAIN wf.status = DOMAIN d
        /\ DOMAIN wf.reasons = DOMAIN d
        /\ c \in DOMAIN d /\ d[c].id = id /\ c = Min(hits) /\ c \in hits
    <2>1. d \in FlowDefs /\ DOMAIN wf.status = DOMAIN d /\ DOMAIN wf.reasons = DOMAIN d
      BY WorkflowFields
    <2>2. HasStep(d, id)
      BY DEF CanAdvance
    <2>3. c \in DOMAIN d /\ d[c].id = id
      BY <2>1, <2>2, StepIndexFound
    <2>4. c = Min(hits)
      BY DEF StepIndex
    <2>5. IsRecord(wf)
      BY WorkflowIsRecord
    <2> QED  BY <2>1, <2>3, <2>4, <2>5 DEF StepsWithId
  <1>2. /\ IsRecord(T) /\ SameOrigin(T, wf) /\ SameContext(T, wf)
        /\ T.status = s /\ T.reasons = r /\ T.cur = wf.cur /\ T.done = wf.done
    <2>1. T = TwinsWith(wf, s, r)
      BY DEF TwinsCompleted, TwinsWith
    <2> HIDE DEF s, r, T
    <2> QED  BY <1>1, <2>1, TwinsRecord
  <1>3. T.def = d /\ TargetId(T, p.step) = id
    BY <1>2 DEF SameOrigin, TargetId
  <1>4. CompletedIndex(T, p) = c /\ AdvanceTarget(T, p) = next
    BY <1>3 DEF CompletedIndex, AdvanceTarget
  <1>5. S = IF next # NoStep THEN StepsWithId(d, next) ELSE PendingSteps(s)
    BY <1>2, <1>3, <1>4 DEF EnterCandidates
  <1>6. [s EXCEPT ![c] = "completed"] = s /\ [r EXCEPT ![c] = {}] = r
    BY <1>1
  <1> DEFINE n == wf.done \cup {id}
  <1>7. /\ IsRecord(M) /\ SameOrigin(M, wf) /\ SameContext(M, wf)
        /\ M.status = s /\ M.reasons = r /\ M.cur = wf.cur /\ M.done = n
    <2>1. M = MarkedWith(T, s, r, n)
      <3> HIDE DEF s, r, n, T, c, id
      <3>1. M = [T EXCEPT !.status = [T.status EXCEPT ![c] = "completed"],
                          !.reasons = [T.reasons EXCEPT ![c] = {}],
                          !.done = T.done \cup {id}]
        BY <1>3, <1>4 DEF MarkCompleted
      <3> QED  BY <1>2, <1>6, <3>1 DEF n, MarkedWith
    <2> HIDE DEF s, r, n, T, M
    <2>2. /\ IsRecord(M) /\ SameOrigin(M, T) /\ SameContext(M, T)
          /\ M.status = s /\ M.reasons = r /\ M.cur = T.cur /\ M.done = n
      BY <1>2, <2>1, MarkedRecord
    <2> QED  BY <1>2, <2>2 DEF SameOrigin, SameContext
  <1>8. EnterCandidates(M, p) = S
    <2>1. M.def = d
      BY <1>7 DEF SameOrigin
    <2>2. TargetId(M, p.step) = id
      BY <1>7 DEF TargetId
    <2>3. AdvanceTarget(M, p) = next
      BY <2>1, <2>2 DEF AdvanceTarget, CompletedIndex
    <2> HIDE DEF S, s, M, next
    <2> QED  BY <1>5, <1>7, <2>1, <2>3 DEF EnterCandidates
  <1>9. /\ IsRecord(N) /\ SameOrigin(N, wf) /\ SameContext(N, wf)
        /\ N.reasons = r /\ N.done = n
        /\ N.status = IF S = {} THEN s ELSE running
        /\ N.cur = IF S = {} THEN wf.cur ELSE d[Min(S)].id
    <2>1. CASE S = {}
      <3>1. N = M
        BY <1>8, <2>1 DEF EnterNext
      <3> QED  BY <1>7, <2>1, <3>1
    <2>2. CASE S # {}
      <3>1. M.def = d /\ M.status = s
        BY <1>7 DEF SameOrigin
      <3>2. N = EnteredWith(M, running, d[Min(S)].id)
        <4> HIDE DEF S, M, s, d
        <4> QED  BY <1>8, <2>2, <3>1 DEF EnterNext, EnteredWith
      <3> HIDE DEF running, N, M, S, s, r, n, d
      <3>3. /\ IsRecord(N) /\ SameOrigin(N, M) /\ SameContext(N, M)
            /\ N.status = running /\ N.reasons = M.reasons
            /\ N.cur = d[Min(S)].id /\ N.done = M.done
        BY <1>7, <3>2, EnteredRecord
      <3> QED  BY <1>7, <2>2, <3>3 DEF SameOrigin, SameContext
    <2> QED  BY <2>1, <2>2
  <1> DEFINE f == wf.facts \cup p.facts
             q == (wf.questions \ p.resolved) \cup p.questions
             t == IF p.plan \in {NoPlan, EmptyPlan} THEN wf.plan ELSE p.plan
  <1>10. /\ IsRecord(L) /\ SameOrigin(L, wf)
         /\ L.facts = f /\ L.questions = q /\ L.plan = t
         /\ L.status = N.status /\ L.reasons = r /\ L.cur = N.cur /\ L.done = n
    <2>1. L = TaughtWith(N, f, q, t)
      <3> HIDE DEF N
      <3> QED  BY <1>9 DEF Learn, SameContext, TaughtWith
    <2> HIDE DEF L, N, f, q, t, r, n
    <2>2. /\ IsRecord(L) /\ SameOrigin(L, N)
          /\ L.facts = f /\ L.questions = q /\ L.plan = t
          /\ L.status = N.status /\ L.reasons = N.reasons
          /\ L.cur = N.cur /\ L.done = N.done
      BY <1>9, <2>1, TaughtRecord
    <2> QED  BY <1>9, <2>2 DEF SameOrigin
  <1> DEFINE plan == IF p.plan = EmptyPlan THEN EmptyPlan ELSE L.plan
             cur == IF S = {} THEN id ELSE L.cur
  <1>11. /\ IsRecord(A) /\ SameOrigin(A, wf)
         /\ A.facts = f /\ A.questions = q
         /\ A.plan = IF p.plan = NoPlan THEN wf.plan ELSE p.plan
         /\ A.status = IF S = {} THEN s ELSE running
         /\ A.reasons = r /\ A.done = n
         /\ A.cur = IF S = {} THEN id ELSE d[Min(S)].id
    <2>1. A = PlannedWith(L, plan, cur)
      BY Zenon DEF AdvanceAsConverted, AdvanceStep, PlannedWith
    <2>2. plan = IF p.plan = NoPlan THEN wf.plan ELSE p.plan
      <3>1. NoPlan # EmptyPlan
        BY PlansAssumption
      <3> HIDE DEF L
      <3> QED  BY <1>10, <3>1
    <2>3. cur = IF S = {} THEN id ELSE d[Min(S)].id
      <3> HIDE DEF L, N, S
      <3> QED  BY <1>9, <1>10
    <2> HIDE DEF plan, cur, A, L, N, S, s, r, n, f, q, running, id, d
    <2>4. /\ IsRecord(A) /\ SameOrigin(A, L)
          /\ A.facts = L.facts /\ A.questions = L.questions /\ A.plan = plan
          /\ A.status = L.status /\ A.reasons = L.reasons
          /\ A.cur = cur /\ A.done = L.done
      BY <1>10, <2>1, PlannedRecord
    <2>5. SameOrigin(A, wf)
      BY <1>10, <2>4 DEF SameOrigin
    <2> QED  BY <1>9, <1>10, <2>2, <2>3, <2>4, <2>5
  <1>12. /\ IsRecord(V) /\ SameOrigin(V, wf)
         /\ V.facts = f /\ V.questions = q
         /\ V.plan = IF p.plan = NoPlan THEN wf.plan ELSE p.plan
         /\ V.status = IF S = {} THEN s ELSE running
         /\ V.reasons = r /\ V.done = n
         /\ V.cur = IF S = {} THEN id ELSE d[Min(S)].id
    <2>1. s = Marked(wf, p) /\ r = Emptied(wf, p)
      BY <1>1 DEF StepsWithId, Marked, Emptied, Hits
    <2>2. next = NextOf(wf, p)
      BY <1>1 DEF AdvanceTarget, CompletedIndex, NextOf, Hits
    <2>3. S = Enterable(wf, p)
      <3> HIDE DEF s, next, S
      <3> QED  BY <1>5, <2>1, <2>2 DEF Enterable
    <2> HIDE DEF s, r, S, V, f, q, n, id
    <2>4. /\ IsRecord(V) /\ SameOrigin(V, wf)
          /\ V.status = IF S = {} THEN s ELSE [s EXCEPT ![Min(S)] = "running"]
          /\ V.reasons = r
          /\ V.cur = IF S = {} THEN TargetId(wf, p.step) ELSE d[Min(S)].id
          /\ V.done = wf.done \cup {TargetId(wf, p.step)}
          /\ V.facts = wf.facts \cup p.facts
          /\ V.questions = (wf.questions \ p.resolved) \cup p.questions
          /\ V.plan = IF p.plan = NoPlan THEN wf.plan ELSE p.plan
      BY <2>1, <2>3, Converted DEF V
    <2> QED  BY <2>4 DEF f, q, n, id
  <1> HIDE DEF A, V, f, q, s, r, n, running, S, id, d
  <1>13. SameOrigin(V, A) /\ SameContext(V, A)
    BY <1>11, <1>12 DEF SameOrigin, SameContext
  <1>14. V = A
    BY <1>11, <1>12, <1>13, EqualRecords
  <1> QED  BY <1>14 DEF V, A

\* A step that does not exist is listed, and nothing else is completed.
LEMMA ConverterSkipsUnknown ==
    ASSUME NEW wf \in Workflow, Bookkept(wf), NEW p, ~ HasStep(wf.def, TargetId(wf, p.step))
    PROVE  LET new == ConvertedAdvance(wf, p)
           IN  Bookkept(new) /\ CompletedSteps(new) = CompletedSteps(wf)
  <1> DEFINE id == TargetId(wf, p.step)
             d == wf.def
             hits == StepsWithId(d, id)
             S == PendingSteps(wf.status)
             new == ConvertedAdvance(wf, p)
  <1>1. d \in FlowDefs /\ wf.status \in [DOMAIN d -> Status] /\ DOMAIN wf.reasons = DOMAIN d
    BY WorkflowFields
  <1>2. hits = {} /\ \A i \in DOMAIN d : d[i].id # id
    BY DEF HasStep, StepsWithId
  <1>3. /\ new.def = d
        /\ new.status = IF S = {} THEN wf.status ELSE [wf.status EXCEPT ![Min(S)] = "running"]
        /\ new.reasons = wf.reasons
        /\ new.done = wf.done \cup {id}
    <2>1. Marked(wf, p) = wf.status
      BY <1>1, <1>2 DEF Marked, Hits
    <2>2. Emptied(wf, p) = wf.reasons
      BY <1>1, <1>2, WorkflowFields DEF Emptied, Hits
    <2>3. Enterable(wf, p) = S
      BY <1>2, <2>1 DEF Enterable, NextOf, Hits
    <2>4. /\ SameOrigin(new, wf)
          /\ new.status = IF Enterable(wf, p) = {} THEN Marked(wf, p)
                          ELSE [Marked(wf, p) EXCEPT ![Min(Enterable(wf, p))] = "running"]
          /\ new.reasons = Emptied(wf, p)
          /\ new.done = wf.done \cup {id}
      BY Converted
    <2> HIDE DEF S, new
    <2> QED  BY <2>1, <2>2, <2>3, <2>4 DEF SameOrigin
  <1>4. S # {} => Min(S) \in S
    <2>1. S \in SUBSET Nat
      BY <1>1, FlowShape DEF PendingSteps
    <2> QED  BY <2>1, MinIsMember
  <1>5. ASSUME NEW i \in DOMAIN d
        PROVE  /\ new.status[i] = "completed" <=> wf.status[i] = "completed"
               /\ new.status[i] = "pending" => wf.status[i] = "pending"
    BY <1>1, <1>3, <1>4 DEF PendingSteps
  <1> HIDE DEF new, id
  <1>6. Bookkept(new)
    BY <1>2, <1>3, <1>5 DEF Bookkept
  <1>7. CompletedSteps(new) = CompletedSteps(wf)
    BY <1>3, <1>5 DEF CompletedSteps
  <1> QED  BY <1>6, <1>7 DEF new

LEMMA RecordConverts ==
    ASSUME NEW wf \in Workflow, Bookkept(wf), NEW p
    PROVE  LET new == ConvertedAdvance(wf, p)
           IN  /\ CanAdvance(wf, p) => new = AdvanceAsConverted(wf, p)
               /\ ~ HasStep(wf.def, TargetId(wf, p.step)) =>
                     Bookkept(new) /\ CompletedSteps(new) = CompletedSteps(wf)
  BY ConvertsAlike, ConverterSkipsUnknown

LEMMA InvImplies ==
    StoreInv => /\ StoreTypeOK /\ StepBookkeeping /\ CurrentStarted
                /\ SingleRunning /\ ConverterAgrees
  <1> SUFFICES ASSUME StoreInv
               PROVE  /\ StoreTypeOK /\ StepBookkeeping /\ CurrentStarted
                      /\ SingleRunning /\ ConverterAgrees
    OBVIOUS
  <1>1. ASSUME NEW wf \in Records
        PROVE  Consistent(wf)
    <2>1. CASE \E a \in Agents, w \in WorkflowIds : wf = disk[a][w] /\ wf # NoWorkflow
      BY <2>1 DEF StoreInv, DiskSound, Sound
    <2>2. CASE \E c \in Calls : call[c] # Idle /\ wf = call[c].base
      BY <2>2 DEF StoreInv, CallsSound, Sound
    <2> QED  BY <1>1, <2>1, <2>2 DEF Records
  <1>2. SingleRunning
    BY SavedRecord, HeldRecord DEF SingleRunning, Sound
  <1>3. ConverterAgrees
    BY <1>1, RecordConverts, Zenon DEF ConverterAgrees, Consistent
  <1> QED  BY <1>1, <1>2, <1>3 DEF StoreInv, StepBookkeeping, CurrentStarted, Consistent

\* The inductive invariant holds in every reachable state of the store.
THEOREM StoreInvariant == StoreSpec => []StoreInv
  BY InitInv, NextInv, PTL DEF StoreSpec

\* Records on disk and in update_context calls keep their shape.
THEOREM StoreTypeCorrect == StoreSpec => []StoreTypeOK
  BY StoreInvariant, InvImplies, PTL

\* Step states and completedStepIds agree, for any flow definitions and any
\* number of agents, workflows and overtaken updates.
THEOREM StepsBookkept == StoreSpec => []StepBookkeeping
  BY StoreInvariant, InvImplies, PTL

\* currentStepId always names a step that was entered.
THEOREM CurrentStepStarted == StoreSpec => []CurrentStarted
  BY StoreInvariant, InvImplies, PTL

\* Without explicit step ids, at most the current step is running.
THEOREM OnlyCurrentRuns == StoreSpec => []SingleRunning
  BY StoreInvariant, InvImplies, PTL

\* The converter computes the record advanceStep saves, for any flow
\* definitions, facts, questions and plans, but for the four differences
\* that AdvanceAsConverted and the second conjunct name.
THEOREM ConverterDiffersAsStated == StoreSpec => []ConverterAgrees
  BY StoreInvariant, InvImplies, PTL

-----------------------------------------------------------------------------
(* Progress is lost only to a stale save. *)

Lost(a, w) == disk'[a][w] = NoWorkflow \/ Rewinds(disk[a][w], disk'[a][w])

LEMMA NothingLostBySave ==
    ASSUME StoreInv, NEW a \in Agents, NEW w \in Saved(a),
           NEW b \in Agents, NEW v \in WorkflowIds, NEW new \in Workflow,
           SaveWorkflow(b, v, new),
           b = a /\ v = w => Keeps(disk[a][w], new)
    PROVE  ~ Lost(a, w)
  <1>1. disk[a][w] # NoWorkflow /\ w \in WorkflowIds
    BY SavedRecord
  <1>2. disk'[a][w] = IF b = a /\ v = w THEN new ELSE disk[a][w]
    BY <1>1 DEF StoreInv, StoreTypeOK, SaveWorkflow
  <1>3. new # NoWorkflow
    BY SentinelsAssumption
  <1>4. ~ Rewinds(disk[a][w], disk[a][w])
    BY DEF Rewinds
  <1> QED  BY <1>1, <1>2, <1>3, <1>4 DEF Lost, Keeps

LEMMA NothingLostWithoutSave ==
    ASSUME NEW a \in Agents, NEW w \in Saved(a), disk' = disk
    PROVE  ~ Lost(a, w)
  BY DEF Lost, Saved, Rewinds

LEMMA LostOnlyToStaleSave ==
    ASSUME StoreInv, [StoreNext]_storeVars, NEW a \in Agents, NEW w \in Saved(a), Lost(a, w)
    PROVE  StaleSave(a, w)
  <1>1. ASSUME NEW b \in Agents, NEW v \in WorkflowIds, NEW def \in FlowDefs,
               NEW plan \in Plans \cup {NoPlan}, NEW issue \in Issues \cup {NoIssue},
               NEW repo \in Repos \cup {NoRepo},
               Create(b, v, def, plan, issue, repo)
        PROVE  FALSE
    <2>1. ~ (b = a /\ v = w)
      BY <1>1 DEF Create
    <2>2. CreateWorkflow(def, plan, issue, repo) \in Workflow
      BY CreateWorkflowEffect
    <2>3. SaveWorkflow(b, v, CreateWorkflow(def, plan, issue, repo))
      BY <1>1 DEF Create
    <2> QED  BY <2>1, <2>2, <2>3, NothingLostBySave
  <1>2. ASSUME NEW b \in Agents, NEW v \in WorkflowIds, NEW p \in AdvanceArgs,
               Complete(b, v, p)
        PROVE  FALSE
    <2>1. AdvanceStep(disk[b][v], p) \in Workflow
          /\ Keeps(disk[b][v], AdvanceStep(disk[b][v], p))
      BY <1>2, CompleteInv
    <2>2. SaveWorkflow(b, v, AdvanceStep(disk[b][v], p))
      BY <1>2 DEF Complete
    <2> QED  BY <2>1, <2>2, NothingLostBySave
  <1>3. ASSUME NEW b \in Agents, NEW v \in WorkflowIds, NEW s \in StepIds \cup {NoStep},
               NEW r \in SUBSET Reasons, Block(b, v, s, r)
        PROVE  FALSE
    <2>1. BlockStep(disk[b][v], s, r) \in Workflow
          /\ Keeps(disk[b][v], BlockStep(disk[b][v], s, r))
      BY <1>3, BlockInv
    <2>2. SaveWorkflow(b, v, BlockStep(disk[b][v], s, r))
      BY <1>3 DEF Block
    <2> QED  BY <2>1, <2>2, NothingLostBySave
  <1>4. ASSUME NEW b \in Agents, NEW issue \in Issues, NEW repo \in Repos \cup {NoRepo},
               Archive(b, issue, repo)
        PROVE  FALSE
    <2> DEFINE v == FindWorkflowByIssue(b, issue, repo)
    <2>1. /\ v \in Saved(b)
          /\ CloseWorkflow(disk[b][v]) \in Workflow
          /\ Keeps(disk[b][v], CloseWorkflow(disk[b][v]))
      BY <1>4, ArchiveInv
    <2>2. SaveWorkflow(b, v, CloseWorkflow(disk[b][v]))
      BY <1>4 DEF Archive
    <2> HIDE DEF v
    <2>3. v \in WorkflowIds
      BY <2>1 DEF Saved
    <2> QED  BY <2>1, <2>2, <2>3, NothingLostBySave
  <1>5. ASSUME NEW c \in Calls, UpdateEnd(c)
        PROVE  StaleSave(a, w)
    <2> DEFINE b == call[c].agent
               v == call[c].id
               new == UpdateContext(call[c].base, call[c].args)
    <2>1. new \in Workflow /\ Keeps(call[c].base, new)
      BY <1>5, UpdateEndInv
    <2>2. /\ call[c] # Idle
          /\ SaveWorkflow(b, v, new)
          /\ call' = [call EXCEPT ![c] = Idle]
      BY <1>5 DEF UpdateEnd
    <2>3. b \in Agents /\ v \in WorkflowIds
      BY <2>2, HeldRecord
    <2> HIDE DEF new
    <2>4. b = a /\ v = w /\ ~ Keeps(disk[a][w], new)
      BY <2>1, <2>2, <2>3, NothingLostBySave
    <2>5. call[c].base # disk[a][w]
      BY <2>1, <2>4
    <2>6. call'[c] = Idle
      BY <2>2 DEF StoreInv, StoreTypeOK
    <2> QED  BY <2>2, <2>4, <2>5, <2>6 DEF StaleSave, Ends
  <1>6. disk' # disk
    BY NothingLostWithoutSave
  <1>7. CASE StoreNext
    BY <1>1, <1>2, <1>3, <1>4, <1>5, <1>6, <1>7
       DEF StoreNext, Advance, Branch, UpdateBegin, Crash
  <1> QED  BY <1>6, <1>7 DEF storeVars

\* Whatever handlers interleave, a workflow loses its file, its archived
\* mark, a completed step or the start of a step only to an update_context
\* that saves an outdated copy.
THEOREM ProgressKept == StoreSpec => ProgressLostOnlyToStaleSave
  <1>1. StoreInv /\ [StoreNext]_storeVars
          => [\A a \in Agents : \A w \in Saved(a) :
                disk'[a][w] = NoWorkflow \/ Rewinds(disk[a][w], disk'[a][w])
                    => StaleSave(a, w)]_storeVars
    BY LostOnlyToStaleSave DEF Lost
  <1> QED  BY <1>1, StoreInvariant, PTL DEF StoreSpec, ProgressLostOnlyToStaleSave

-----------------------------------------------------------------------------
(* Used by the proofs about WorkflowController. *)

LEMMA StepSaves ==
    ASSUME StoreInv, [StoreNext]_storeVars
    PROVE  \/ disk' = disk
           \/ \E b \in Agents, v \in WorkflowIds, new \in Workflow : SaveWorkflow(b, v, new)
  <1>1. ASSUME NEW b \in Agents, NEW v \in WorkflowIds, NEW def \in FlowDefs,
               NEW plan \in Plans \cup {NoPlan}, NEW issue \in Issues \cup {NoIssue},
               NEW repo \in Repos \cup {NoRepo},
               Create(b, v, def, plan, issue, repo)
        PROVE  \E new \in Workflow : SaveWorkflow(b, v, new)
    BY <1>1, CreateWorkflowEffect DEF Create
  <1>2. ASSUME NEW b \in Agents, NEW v \in WorkflowIds, NEW p \in AdvanceArgs,
               Complete(b, v, p)
        PROVE  \E new \in Workflow : SaveWorkflow(b, v, new)
    BY <1>2, CompleteInv DEF Complete
  <1>3. ASSUME NEW b \in Agents, NEW v \in WorkflowIds, NEW s \in StepIds \cup {NoStep},
               NEW r \in SUBSET Reasons, Block(b, v, s, r)
        PROVE  \E new \in Workflow : SaveWorkflow(b, v, new)
    BY <1>3, BlockInv DEF Block
  <1>4. ASSUME NEW b \in Agents, NEW issue \in Issues, NEW repo \in Repos \cup {NoRepo},
               Archive(b, issue, repo)
        PROVE  \E v \in WorkflowIds, new \in Workflow : SaveWorkflow(b, v, new)
    <2> DEFINE v == FindWorkflowByIssue(b, issue, repo)
    <2>1. v \in Saved(b) /\ CloseWorkflow(disk[b][v]) \in Workflow
      BY <1>4, ArchiveInv
    <2>2. SaveWorkflow(b, v, CloseWorkflow(disk[b][v]))
      BY <1>4 DEF Archive
    <2> HIDE DEF v
    <2> QED  BY <2>1, <2>2 DEF Saved
  <1>5. ASSUME NEW c \in Calls, UpdateEnd(c)
        PROVE  \E b \in Agents, v \in WorkflowIds, new \in Workflow : SaveWorkflow(b, v, new)
    BY <1>5, UpdateEndInv, HeldRecord DEF UpdateEnd
  <1> QED  BY <1>1, <1>2, <1>3, <1>4, <1>5
           DEF StoreNext, Advance, Branch, UpdateBegin, Crash, storeVars

\* No handler deletes a workflow file.
LEMMA FilesStay ==
    ASSUME StoreInv, [StoreNext]_storeVars, NEW a \in Agents, NEW w \in Saved(a)
    PROVE  disk'[a][w] # NoWorkflow
  <1>1. disk[a][w] # NoWorkflow /\ w \in WorkflowIds
    BY SavedRecord
  <1>2. ASSUME NEW b \in Agents, NEW v \in WorkflowIds, NEW new \in Workflow,
               SaveWorkflow(b, v, new)
        PROVE  disk'[a][w] # NoWorkflow
    <2>1. disk'[a][w] = IF b = a /\ v = w THEN new ELSE disk[a][w]
      BY <1>1, <1>2 DEF StoreInv, StoreTypeOK, SaveWorkflow
    <2> QED  BY <1>1, <2>1, SentinelsAssumption
  <1> QED  BY <1>1, <1>2, StepSaves


-----------------------------------------------------------------------------
(* The plugin implements the store. *)


\* Every step of the plugin is a step of the store or leaves it alone.
LEMMA NextImplementsStore == [Next]_vars => [StoreNext]_storeVars
  <1> SUFFICES ASSUME [Next]_vars
               PROVE  [StoreNext]_storeVars
    OBVIOUS
  <1>1. ASSUME NEW a \in Agents, NEW e \in Engines, ToolCall(a, e)
        PROVE  [StoreNext]_storeVars
    <2>1. CASE WorkflowCreate(a, e)
      BY <2>1 DEF WorkflowCreate, StoreNext
    <2>2. CASE WorkflowAdvance(a)
      BY <2>2 DEF WorkflowAdvance, StoreNext
    <2>3. CASE WorkflowBranch(a)
      BY <2>3 DEF WorkflowBranch, StoreNext
    <2>4. CASE WorkflowBlock(a)
      BY <2>4 DEF WorkflowBlock, StoreNext
    <2>5. CASE UpdateContextBegin(a)
      BY <2>5 DEF UpdateContextBegin, StoreNext
    <2>6. CASE ResumeOpen(a, e)
      BY <2>6 DEF ResumeOpen
    <2>7. CASE ResumeClosed(a)
      BY <2>7 DEF ResumeClosed, StoreNext
    <2> QED  BY <1>1, <2>1, <2>2, <2>3, <2>4, <2>5, <2>6, <2>7 DEF ToolCall
  <1>2. CASE UpdateContextEnd
    BY <1>2 DEF UpdateContextEnd, StoreNext
  <1>3. CASE Restart
    BY <1>3 DEF Restart, StoreNext
  <1>4. CASE \/ \E e \in Engines : CreateContextEngine(e)
             \/ \E a \in Agents : CreateTools(a)
             \/ \E a \in Agents, e \in Engines : CreateStandaloneTools(a, e)
    BY <1>4 DEF CreateContextEngine, CreateTools, CreateStandaloneTools
  <1>5. CASE UNCHANGED vars
    BY <1>5 DEF vars, storeVars
  <1> QED  BY <1>1, <1>2, <1>3, <1>4, <1>5 DEF Next

\* The plugin implements the store specification.
THEOREM ImplementsStore == Spec => StoreSpec
  <1>1. Init => StoreInit
    BY DEF Init
  <1> QED  BY <1>1, NextImplementsStore, PTL DEF Spec, StoreSpec

\* The plugin loses progress only to a stale save, as the store does.
THEOREM ControllerKeepsProgress == Spec => ProgressLostOnlyToStaleSave
  BY ImplementsStore, ProgressKept, PTL

-----------------------------------------------------------------------------
(* The engines. *)

\* An active workflow is a file of an agent that holds tools of the engine,
\* and an engine with tools points to the directory of one of their holders.
EngineInv ==
    /\ engine \in [Engines -> EngineState \cup {NoEngine}]
    /\ shared \in Engines \cup {NoEngine}
    /\ tools \subseteq Agents \X Engines
    /\ shared # NoEngine => engine[shared] # NoEngine
    /\ \A e \in Engines :
          engine[e] # NoEngine /\ engine[e].active # NoId
              => \E a \in Users(e) : engine[e].active \in Saved(a)
    /\ \A e \in Engines :
          Users(e) # {} => engine[e] # NoEngine /\ engine[e].dir \in Users(e)

LEMMA EngineIsRecord ==
    ASSUME EngineInv, NEW e \in Engines, engine[e] # NoEngine
    PROVE  engine[e] \in EngineState
  BY DEF EngineInv

\* The engines that are not touched keep the invariant: files stay, and tool
\* sets are only added.
LEMMA EngineInvWhenUntouched ==
    ASSUME StoreInv, EngineInv, [StoreNext]_storeVars, UNCHANGED engineVars
    PROVE  EngineInv'
  <1>1. engine' = engine /\ shared' = shared /\ tools' = tools
    BY DEF engineVars
  <1>2. \A a \in Agents : Saved(a) \subseteq Saved(a)'
    BY FilesStay DEF Saved
  <1>3. \A e \in Engines : Users(e)' = Users(e) /\ Users(e) \subseteq Agents
    BY <1>1 DEF Users
  <1> QED  BY <1>1, <1>2, <1>3 DEF EngineInv

LEMMA CreateContextEngineInv ==
    ASSUME EngineInv, NEW e \in Engines, CreateContextEngine(e)
    PROVE  EngineInv'
  <1> DEFINE new == [dir |-> NoAgent, active |-> NoId]
  <1>1. /\ engine[e] = NoEngine
        /\ engine' = [engine EXCEPT ![e] = new]
        /\ shared' = e
        /\ tools' = tools
        /\ disk' = disk
    BY DEF CreateContextEngine, storeVars
  <1>2. new \in EngineState /\ new.active = NoId
    BY DEF EngineState
  <1> HIDE DEF new
  <1>3. new # NoEngine
    BY <1>2, EnginesAssumption
  <1>4. \A f \in Engines : Users(f)' = Users(f)
    BY <1>1 DEF Users
  <1>5. \A a \in Agents : Saved(a)' = Saved(a)
    BY <1>1 DEF Saved
  <1>6. Users(e) = {}
    BY <1>1 DEF EngineInv
  <1>7. \A f \in Engines : f # e => engine'[f] = engine[f]
    BY <1>1 DEF EngineInv
  <1>8. engine'[e] = new /\ engine' \in [Engines -> EngineState \cup {NoEngine}]
    BY <1>1, <1>2 DEF EngineInv
  <1>9. \A f \in Engines : Users(f) \subseteq Agents
    BY DEF Users
  <1>10. \A f \in Engines :
           engine'[f] # NoEngine /\ engine'[f].active # NoId
               => \E a \in Users(f) : engine'[f].active \in Saved(a)'
    BY <1>2, <1>5, <1>7, <1>8, <1>9 DEF EngineInv
  <1> QED  BY <1>1, <1>3, <1>4, <1>6, <1>7, <1>8, <1>10 DEF EngineInv

LEMMA CreateToolsInv ==
    ASSUME EngineInv, NEW a \in Agents, CreateTools(a)
    PROVE  EngineInv'
  <1> DEFINE new == [engine[shared] EXCEPT !.dir = a]
  <1>1. /\ shared \in Engines
        /\ engine' = [engine EXCEPT ![shared] = new]
        /\ tools' = tools \cup {<<a, shared>>}
        /\ shared' = shared
        /\ disk' = disk
    BY DEF CreateTools, storeVars, EngineInv
  <1>2. engine[shared] \in EngineState
    BY <1>1, EnginesAssumption, EngineIsRecord DEF EngineInv
  <1>3. new \in EngineState /\ new.dir = a /\ new.active = engine[shared].active
    BY <1>2 DEF EngineState
  <1> HIDE DEF new
  <1>4. new # NoEngine /\ engine[shared] # NoEngine
    BY <1>2, <1>3, EnginesAssumption
  <1>5. /\ \A f \in Engines : Users(f) \subseteq Users(f)' /\ Users(f) \subseteq Agents
        /\ \A f \in Engines : f # shared => Users(f)' = Users(f)
        /\ \A f \in Engines : f = shared => a \in Users(f)'
    BY <1>1 DEF Users
  <1>6. \A b \in Agents : Saved(b)' = Saved(b)
    BY <1>1 DEF Saved
  <1>7. /\ \A f \in Engines : f # shared => engine'[f] = engine[f]
        /\ engine'[shared] = new
        /\ engine' \in [Engines -> EngineState \cup {NoEngine}]
        /\ tools' \subseteq Agents \X Engines
    BY <1>1, <1>3 DEF EngineInv
  <1>8. ASSUME NEW f \in Engines, engine'[f] # NoEngine, engine'[f].active # NoId
        PROVE  \E b \in Users(f)' : engine'[f].active \in Saved(b)'
    <2>1. engine'[f].active = engine[f].active /\ engine[f] # NoEngine
      BY <1>3, <1>4, <1>7, <1>8
    <2>2. PICK b \in Users(f) : engine[f].active \in Saved(b)
      BY <2>1, <1>8 DEF EngineInv
    <2> QED  BY <2>1, <2>2, <1>5, <1>6
  <1>9. ASSUME NEW f \in Engines, Users(f)' # {}
        PROVE  engine'[f] # NoEngine /\ engine'[f].dir \in Users(f)'
    <2>1. CASE f = shared
      BY <2>1, <1>3, <1>4, <1>5, <1>7
    <2>2. CASE f # shared
      <3>1. Users(f) # {} /\ Users(f)' = Users(f) /\ engine'[f] = engine[f]
        BY <2>2, <1>5, <1>7, <1>9
      <3> QED  BY <3>1 DEF EngineInv
    <2> QED  BY <2>1, <2>2
  <1> QED  BY <1>1, <1>4, <1>7, <1>8, <1>9 DEF EngineInv

LEMMA CreateStandaloneToolsInv ==
    ASSUME EngineInv, NEW a \in Agents, NEW e \in Engines, CreateStandaloneTools(a, e)
    PROVE  EngineInv'
  <1> DEFINE new == [dir |-> a, active |-> NoId]
  <1>1. /\ shared = NoEngine
        /\ engine' = [engine EXCEPT ![e] = new]
        /\ tools' = tools \cup {<<a, e>>}
        /\ shared' = shared
        /\ disk' = disk
    BY DEF CreateStandaloneTools, storeVars
  <1>2. new \in EngineState /\ new.dir = a /\ new.active = NoId
    BY DEF EngineState
  <1> HIDE DEF new
  <1>3. new # NoEngine
    BY <1>2, EnginesAssumption
  <1>4. /\ \A f \in Engines : Users(f) \subseteq Agents
        /\ \A f \in Engines : f # e => Users(f)' = Users(f)
        /\ a \in Users(e)'
    BY <1>1 DEF Users
  <1>5. \A b \in Agents : Saved(b)' = Saved(b)
    BY <1>1 DEF Saved
  <1>6. /\ \A f \in Engines : f # e => engine'[f] = engine[f]
        /\ engine'[e] = new
        /\ engine' \in [Engines -> EngineState \cup {NoEngine}]
        /\ tools' \subseteq Agents \X Engines
    BY <1>1, <1>2 DEF EngineInv
  <1>7. ASSUME NEW f \in Engines, engine'[f] # NoEngine, engine'[f].active # NoId
        PROVE  \E b \in Users(f)' : engine'[f].active \in Saved(b)'
    BY <1>2, <1>4, <1>5, <1>6, <1>7 DEF EngineInv
  <1>8. ASSUME NEW f \in Engines, Users(f)' # {}
        PROVE  engine'[f] # NoEngine /\ engine'[f].dir \in Users(f)'
    BY <1>2, <1>3, <1>4, <1>6, <1>8 DEF EngineInv
  <1> QED  BY <1>1, <1>6, <1>7, <1>8, EnginesAssumption DEF EngineInv

\* create and resume activate a workflow that is a file of the caller.
LEMMA ActivateInv ==
    ASSUME StoreInv, EngineInv, [StoreNext]_storeVars,
           NEW a \in Agents, NEW e \in Engines, <<a, e>> \in tools,
           NEW w \in WorkflowIds, w \in Saved(a)', Activate(e, w)
    PROVE  EngineInv'
  <1> DEFINE new == [engine[e] EXCEPT !.active = w]
  <1>1. engine' = [engine EXCEPT ![e] = new] /\ shared' = shared /\ tools' = tools
    BY DEF Activate
  <1>2. a \in Users(e)
    BY DEF Users
  <1>3. engine[e] # NoEngine /\ engine[e].dir \in Users(e) /\ engine[e] \in EngineState
    BY <1>2, EngineIsRecord DEF EngineInv
  <1>4. new \in EngineState /\ new.dir = engine[e].dir /\ new.active = w
    BY <1>3 DEF EngineState
  <1> HIDE DEF new
  <1>5. new # NoEngine
    BY <1>4, EnginesAssumption
  <1>6. \A f \in Engines : Users(f)' = Users(f) /\ Users(f) \subseteq Agents
    BY <1>1 DEF Users
  <1>7. \A b \in Agents : Saved(b) \subseteq Saved(b)'
    BY FilesStay DEF Saved
  <1>8. /\ \A f \in Engines : f # e => engine'[f] = engine[f]
        /\ engine'[e] = new
        /\ engine' \in [Engines -> EngineState \cup {NoEngine}]
    BY <1>1, <1>4 DEF EngineInv
  <1>9. ASSUME NEW f \in Engines, engine'[f] # NoEngine, engine'[f].active # NoId
        PROVE  \E b \in Users(f)' : engine'[f].active \in Saved(b)'
    <2>1. CASE f = e
      BY <2>1, <1>2, <1>4, <1>6, <1>8
    <2>2. CASE f # e
      BY <2>2, <1>6, <1>7, <1>8, <1>9 DEF EngineInv
    <2> QED  BY <2>1, <2>2
  <1>10. ASSUME NEW f \in Engines, Users(f)' # {}
         PROVE  engine'[f] # NoEngine /\ engine'[f].dir \in Users(f)'
    BY <1>3, <1>4, <1>5, <1>6, <1>8, <1>10 DEF EngineInv
  <1>11. shared # NoEngine => engine'[shared] # NoEngine
    BY <1>5, <1>8 DEF EngineInv
  <1> QED  BY <1>1, <1>8, <1>9, <1>10, <1>11 DEF EngineInv

LEMMA RestartInv ==
    ASSUME Restart
    PROVE  EngineInv'
  <1>1. /\ engine' = [e \in Engines |-> NoEngine]
        /\ shared' = NoEngine
        /\ tools' = {}
    BY DEF Restart
  <1> QED  BY <1>1 DEF EngineInv, Users

LEMMA EngineNextInv ==
    ASSUME StoreInv, EngineInv, [Next]_vars
    PROVE  EngineInv'
  <1>0. [StoreNext]_storeVars
    BY NextImplementsStore
  <1>1. ASSUME NEW e \in Engines, CreateContextEngine(e)
        PROVE  EngineInv'
    BY <1>1, CreateContextEngineInv
  <1>2. ASSUME NEW a \in Agents, CreateTools(a)
        PROVE  EngineInv'
    BY <1>2, CreateToolsInv
  <1>3. ASSUME NEW a \in Agents, NEW e \in Engines, CreateStandaloneTools(a, e)
        PROVE  EngineInv'
    BY <1>3, CreateStandaloneToolsInv
  <1>4. ASSUME NEW a \in Agents, NEW e \in Engines, ToolCall(a, e)
        PROVE  EngineInv'
    <2>1. CASE WorkflowCreate(a, e)
      <3>1. PICK w \in WorkflowIds, def \in FlowDefs, plan \in Plans \cup {NoPlan},
                 issue \in Issues \cup {NoIssue}, repo \in Repos \cup {NoRepo} :
                    Create(a, w, def, plan, issue, repo) /\ Activate(e, w)
        BY <2>1 DEF WorkflowCreate
      <3>2. CreateWorkflow(def, plan, issue, repo) \in Workflow
        BY CreateWorkflowEffect
      <3>3. disk'[a][w] = CreateWorkflow(def, plan, issue, repo)
        BY <3>1 DEF Create, SaveWorkflow, StoreInv, StoreTypeOK
      <3>4. w \in Saved(a)'
        BY <3>2, <3>3, SentinelsAssumption DEF Saved
      <3> QED  BY <3>1, <3>4, <1>0, <1>4, ActivateInv DEF ToolCall
    <2>2. CASE ResumeOpen(a, e)
      <3>1. PICK issue \in Issues, repo \in Repos \cup {NoRepo} :
                    /\ ForIssue(a, issue, repo) # {}
                    /\ Activate(e, FindWorkflowByIssue(a, issue, repo))
                    /\ UNCHANGED storeVars
        BY <2>2 DEF ResumeOpen
      <3> DEFINE w == FindWorkflowByIssue(a, issue, repo)
      <3>2. w \in Saved(a) /\ Activate(e, w) /\ disk' = disk
        BY <3>1, FindWorkflowByIssueFound DEF storeVars
      <3> HIDE DEF w
      <3>3. w \in Saved(a)' /\ w \in WorkflowIds
        BY <3>2 DEF Saved
      <3> QED  BY <3>2, <3>3, <1>0, <1>4, ActivateInv DEF ToolCall
    <2>3. CASE UNCHANGED engineVars
      BY <2>3, <1>0, EngineInvWhenUntouched
    <2> QED  BY <1>4, <2>1, <2>2, <2>3
             DEF ToolCall, WorkflowAdvance, WorkflowBranch, WorkflowBlock,
                 UpdateContextBegin, ResumeClosed
  <1>5. CASE UpdateContextEnd
    BY <1>5, <1>0, EngineInvWhenUntouched DEF UpdateContextEnd
  <1>6. CASE Restart
    BY <1>6, RestartInv
  <1>7. CASE UNCHANGED vars
    BY <1>7, <1>0, EngineInvWhenUntouched DEF vars, engineVars
  <1> QED  BY <1>1, <1>2, <1>3, <1>4, <1>5, <1>6, <1>7 DEF Next

\* The engines' invariant holds together with the one of the store.
THEOREM EngineInvariant == Spec => []EngineInv
  <1>1. Init => EngineInv
    BY DEF Init, EngineInv, Users
  <1>2. Spec => []StoreInv
    BY ImplementsStore, StoreInvariant, PTL
  <1>3. StoreInv /\ EngineInv /\ [Next]_vars => EngineInv'
    BY EngineNextInv
  <1> QED  BY <1>1, <1>2, <1>3, PTL DEF Spec

\* Files, calls, engines and tool sets keep their shape.
THEOREM TypeCorrect == Spec => []TypeOK
  <1>1. StoreTypeOK /\ EngineInv => TypeOK
    BY DEF EngineInv, TypeOK
  <1> QED  BY <1>1, ImplementsStore, StoreTypeCorrect, EngineInvariant, PTL

\* The engine of a single agent injects a workflow of that agent, whatever
\* other engines, agents, restarts and update calls there are.
THEOREM InjectsOwn == Spec => []EngineInjectsOwn
  <1>1. ASSUME EngineInv
        PROVE  EngineInjectsOwn
    <2> SUFFICES ASSUME NEW e \in Engines, engine[e] # NoEngine, engine[e].active # NoId,
                        NEW a \in Agents, Users(e) = {a}
                 PROVE  Injected(e) # NoWorkflow
      BY DEF EngineInjectsOwn
    <2>1. engine[e].active \in Saved(a)
      BY <1>1 DEF EngineInv
    <2>2. engine[e].dir = a
      BY <1>1 DEF EngineInv
    <2> QED  BY <2>1, <2>2, EnginesAssumption DEF Injected, Saved
  <1> QED  BY <1>1, EngineInvariant, PTL

=============================================================================
