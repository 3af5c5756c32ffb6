---------------------------- MODULE TaskFlowsProofs ----------------------------
(***************************************************************************)
(* Theorems about the built-in flows: what they have in common, which      *)
(* decides that none gets stuck and that two outcomes exclude each other;  *)
(* and what three of them share, the way from the execution to the         *)
(* closing.                                                                *)
(***************************************************************************)
EXTENDS TaskFlows, DataTheorems

-----------------------------------------------------------------------------
(* The definitions of the flows.                                           *)

Branches(s) == {<<s.conds[k].label, s.conds[k].next>> : k \in DOMAIN s.conds}

IsStep(s, id, next, branches) ==
    /\ s.id = id /\ s.next = next
    /\ Branches(s) = branches /\ DOMAIN s.conds \in SUBSET Nat

Leads(def, id) == id = None \/ \E j \in DOMAIN def : def[j].id = id

\* Identifiers are different, and each transition leads to a step.
WellDefined(def) ==
    /\ DOMAIN def \in SUBSET Nat /\ 1 \in DOMAIN def
    /\ \A i, j \in DOMAIN def : def[i].id = def[j].id => i = j
    /\ \A i \in DOMAIN def :
          /\ def[i].id # None /\ DOMAIN def[i].conds \in SUBSET Nat
          /\ Leads(def, def[i].next)
          /\ \A b \in Branches(def[i]) : Leads(def, b[2])

\* A step that leads to itself only.
Final(def, i) == def[i].next = def[i].id /\ Branches(def[i]) = {}

\* Only the review r and the closing k itself lead to the closing, or a
\* branch with one of the labels of waivers; and the review is entered when
\* the steps before it are, the execution e among them.
Guarded(def, e, r, k, waivers) ==
    /\ {e, r, k} \subseteq DOMAIN def /\ 1 < e /\ e < r /\ r < k /\ def[e].id = "execution"
    /\ \A i \in DOMAIN def :
          /\ def[i].next # def[r].id
          /\ def[i].next = def[k].id => i = k
          /\ \A b \in Branches(def[i]) :
                /\ b[2] # def[r].id
                /\ b[2] = def[k].id => i = r \/ b[1] \in waivers

LEMMA BareStep ==
    ASSUME NEW id, NEW next
    PROVE  IsStep(Step(id, next, <<>>), id, next, {})
  BY DEF IsStep, Step, Branches

LEMMA StepOfTwo ==
    ASSUME NEW id, NEW next, NEW a, NEW b, NEW c, NEW d
    PROVE  IsStep(Step(id, next, <<Cond(a, b), Cond(c, d)>>), id, next, {<<a, b>>, <<c, d>>})
  <1> DEFINE s == <<Cond(a, b), Cond(c, d)>>
  <1>1. DOMAIN s = {1, 2} /\ s[1] = Cond(a, b) /\ s[2] = Cond(c, d)
    OBVIOUS
  <1> HIDE DEF s
  <1>2. Step(id, next, s).conds = s /\ Step(id, next, s).id = id /\ Step(id, next, s).next = next
    BY DEF Step
  <1>3. Branches(Step(id, next, s)) = {<<a, b>>, <<c, d>>}
    BY <1>1, <1>2 DEF Branches, Cond
  <1> QED  BY <1>1, <1>2, <1>3 DEF IsStep, s

LEMMA StepOfThree ==
    ASSUME NEW id, NEW next, NEW a, NEW b, NEW c, NEW d, NEW e, NEW f
    PROVE  IsStep(Step(id, next, <<Cond(a, b), Cond(c, d), Cond(e, f)>>), id, next,
                  {<<a, b>>, <<c, d>>, <<e, f>>})
  <1> DEFINE s == <<Cond(a, b), Cond(c, d), Cond(e, f)>>
  <1>1. DOMAIN s = {1, 2, 3} /\ s[1] = Cond(a, b) /\ s[2] = Cond(c, d) /\ s[3] = Cond(e, f)
    OBVIOUS
  <1> HIDE DEF s
  <1>2. Step(id, next, s).conds = s /\ Step(id, next, s).id = id /\ Step(id, next, s).next = next
    BY DEF Step
  <1>3. Branches(Step(id, next, s)) = {<<a, b>>, <<c, d>>, <<e, f>>}
    BY <1>1, <1>2 DEF Branches, Cond
  <1> QED  BY <1>1, <1>2, <1>3 DEF IsStep, s

LEMMA TaskFlowSteps ==
    /\ DOMAIN TaskFlow = 1 .. 7
    /\ IsStep(TaskFlow[1], "requirements", None,
              {<<"PASS", "issue_register">>, <<"NG", "requirements">>})
    /\ IsStep(TaskFlow[2], "issue_register", None,
              {<<"design", "design">>, <<"split", "task_split">>})
    /\ IsStep(TaskFlow[3], "design", None,
              {<<"PASS", "task_split">>, <<"NG", "design">>})
    /\ IsStep(TaskFlow[4], "task_split", None,
              {<<"PASS", "execution">>, <<"NG", "task_split">>, <<"no_execution", "acceptance">>})
    /\ IsStep(TaskFlow[5], "execution", None, {})
    /\ IsStep(TaskFlow[6], "review", None,
              {<<"PASS", "acceptance">>, <<"NG", "execution">>})
    /\ IsStep(TaskFlow[7], "acceptance", None, {})
  BY BareStep, StepOfTwo, StepOfThree DEF TaskFlow

LEMMA CommandFlowSteps ==
    /\ DOMAIN CommandFlow = 1 .. 5
    /\ IsStep(CommandFlow[1], "issue_register", None, {})
    /\ IsStep(CommandFlow[2], "task_split", None,
              {<<"PASS", "execution">>, <<"NG", "task_split">>})
    /\ IsStep(CommandFlow[3], "execution", None, {})
    /\ IsStep(CommandFlow[4], "review", None,
              {<<"PASS", "complete">>, <<"NG", "execution">>})
    /\ IsStep(CommandFlow[5], "complete", None, {})
  BY BareStep, StepOfTwo, StepOfThree DEF CommandFlow

LEMMA BugFlowSteps ==
    /\ DOMAIN BugFlow = 1 .. 8
    /\ IsStep(BugFlow[1], "issue_register", None, {})
    /\ IsStep(BugFlow[2], "investigate", None, {})
    /\ IsStep(BugFlow[3], "triage", None,
              {<<"act", "task_split">>, <<"decline", "close_no_fix">>, <<"again", "investigate">>})
    /\ IsStep(BugFlow[4], "task_split", None,
              {<<"PASS", "execution">>, <<"NG", "task_split">>})
    /\ IsStep(BugFlow[5], "execution", None, {})
    /\ IsStep(BugFlow[6], "review", None,
              {<<"PASS", "complete">>, <<"NG", "execution">>})
    /\ IsStep(BugFlow[7], "complete", "complete", {})
    /\ IsStep(BugFlow[8], "close_no_fix", "close_no_fix", {})
  BY BareStep, StepOfTwo, StepOfThree DEF BugFlow

LEMMA ConsultFlowSteps ==
    /\ DOMAIN ConsultFlow = 1 .. 4
    /\ IsStep(ConsultFlow[1], "issue_register", None, {})
    /\ IsStep(ConsultFlow[2], "analysis", None,
              {<<"act", "task_spawn">>, <<"decline", "complete">>})
    /\ IsStep(ConsultFlow[3], "task_spawn", "task_spawn", {})
    /\ IsStep(ConsultFlow[4], "complete", "complete", {})
  BY BareStep, StepOfTwo, StepOfThree DEF ConsultFlow

LEMMA IdeaFlowSteps ==
    /\ DOMAIN IdeaFlow = 1 .. 4
    /\ IsStep(IdeaFlow[1], "issue_register", None, {})
    /\ IsStep(IdeaFlow[2], "evaluation", None,
              {<<"act", "task_spawn">>, <<"decline", "close_rejected">>, <<"again", "evaluation">>})
    /\ IsStep(IdeaFlow[3], "task_spawn", "task_spawn", {})
    /\ IsStep(IdeaFlow[4], "close_rejected", "close_rejected", {})
  BY BareStep, StepOfTwo, StepOfThree DEF IdeaFlow

LEMMA ReportFlowSteps ==
    /\ DOMAIN ReportFlow = 1 .. 3
    /\ IsStep(ReportFlow[1], "issue_register", None, {})
    /\ IsStep(ReportFlow[2], "respond", None, {})
    /\ IsStep(ReportFlow[3], "complete", None, {})
  BY BareStep, StepOfTwo, StepOfThree DEF ReportFlow
LEMMA FewNumbers ==
    /\ \A i \in 1 .. 3 : i = 1 \/ i = 2 \/ i = 3
    /\ \A i \in 1 .. 4 : i = 1 \/ i = 2 \/ i = 3 \/ i = 4
    /\ \A i \in 1 .. 5 : i = 1 \/ i = 2 \/ i = 3 \/ i = 4 \/ i = 5
    /\ \A i \in 1 .. 7 : i = 1 \/ i = 2 \/ i = 3 \/ i = 4 \/ i = 5 \/ i = 6 \/ i = 7
    /\ \A i \in 1 .. 8 : i = 1 \/ i = 2 \/ i = 3 \/ i = 4 \/ i = 5 \/ i = 6 \/ i = 7 \/ i = 8
  OBVIOUS

LEMMA TaskWellDefined ==
    WellDefined(TaskFlow) /\ Guarded(TaskFlow, 5, 6, 7, {"no_execution"})
  BY TaskFlowSteps, FewNumbers DEF IsStep, WellDefined, Leads, Guarded, None

LEMMA CommandWellDefined ==
    WellDefined(CommandFlow) /\ Guarded(CommandFlow, 3, 4, 5, {})
  BY CommandFlowSteps, FewNumbers DEF IsStep, WellDefined, Leads, Guarded, None

LEMMA BugWellDefined ==
    WellDefined(BugFlow) /\ Guarded(BugFlow, 5, 6, 7, {}) /\ Final(BugFlow, 7) /\ Final(BugFlow, 8)
  BY BugFlowSteps, FewNumbers DEF IsStep, WellDefined, Leads, Guarded, None, Final

LEMMA ConsultWellDefined ==
    WellDefined(ConsultFlow) /\ Final(ConsultFlow, 3) /\ Final(ConsultFlow, 4)
  BY ConsultFlowSteps, FewNumbers DEF IsStep, WellDefined, Leads, None, Final

LEMMA IdeaWellDefined ==
    WellDefined(IdeaFlow) /\ Final(IdeaFlow, 3) /\ Final(IdeaFlow, 4)
  BY IdeaFlowSteps, FewNumbers DEF IsStep, WellDefined, Leads, None, Final

LEMMA ReportWellDefined == WellDefined(ReportFlow)
  BY ReportFlowSteps, FewNumbers DEF IsStep, WellDefined, Leads, None

\* Where the execution, the review and the closing are, in the flows that
\* have them.
Execution == [task |-> 5, command |-> 3, bug |-> 5]

Review == [task |-> 6, command |-> 4, bug |-> 6]

Closing == [task |-> 7, command |-> 5, bug |-> 7]

Waivers == [task |-> {"no_execution"}, command |-> {}, bug |-> {}]

Reviewed == {"task", "command", "bug"}

LEMMA FlowsDefined ==
    /\ \A f \in Flows : WellDefined(FlowMap[f])
    /\ \A f \in Reviewed :
          Guarded(FlowMap[f], Execution[f], Review[f], Closing[f], Waivers[f])
  <1>1. /\ FlowMap["task"] = TaskFlow /\ FlowMap["command"] = CommandFlow
        /\ FlowMap["bug"] = BugFlow /\ FlowMap["consult"] = ConsultFlow
        /\ FlowMap["idea"] = IdeaFlow /\ FlowMap["report"] = ReportFlow
    BY DEF FlowMap
  <1>2. \A f \in Flows : f \in {"task", "command", "bug", "consult", "idea", "report"}
    BY FlowsAssumption DEF FlowMap
  <1>3. /\ Execution["task"] = 5 /\ Review["task"] = 6 /\ Closing["task"] = 7
        /\ Execution["command"] = 3 /\ Review["command"] = 4 /\ Closing["command"] = 5
        /\ Execution["bug"] = 5 /\ Review["bug"] = 6 /\ Closing["bug"] = 7
        /\ Waivers["task"] = {"no_execution"} /\ Waivers["command"] = {} /\ Waivers["bug"] = {}
    BY DEF Execution, Review, Closing, Waivers
  <1>4. \A f \in Flows : WellDefined(FlowMap[f])
    BY <1>1, <1>2, TaskWellDefined, CommandWellDefined, BugWellDefined, ConsultWellDefined,
       IdeaWellDefined, ReportWellDefined
  <1>5. ASSUME NEW f \in Reviewed
        PROVE  Guarded(FlowMap[f], Execution[f], Review[f], Closing[f], Waivers[f])
    <2>1. CASE f = "task"
      BY <1>1, <1>3, <2>1, TaskWellDefined
    <2>2. CASE f = "command"
      BY <1>1, <1>3, <2>2, CommandWellDefined
    <2>3. CASE f = "bug"
      BY <1>1, <1>3, <2>3, BugWellDefined
    <2> QED  BY <2>1, <2>2, <2>3 DEF Reviewed
  <1> QED  BY <1>4, <1>5

-----------------------------------------------------------------------------
(* Lookups.                                                                *)

LEMMA LeastOf ==
    ASSUME NEW S \in SUBSET Nat, S # {}
    PROVE  Min(S) \in S /\ \A n \in S : Min(S) =< n
  BY LeastNumber DEF Min

LEMMA IndexOf ==
    ASSUME NEW def, WellDefined(def), NEW i \in DOMAIN def
    PROVE  /\ StepsWithId(def, def[i].id) = {i} /\ StepIndex(def, def[i].id) = i
           /\ HasStep(def, def[i].id) /\ i \in Nat
  <1>1. StepsWithId(def, def[i].id) = {i} /\ i \in Nat
    BY DEF WellDefined, StepsWithId
  <1>2. {i} \in SUBSET Nat /\ {i} # {}
    BY <1>1
  <1>3. Min({i}) \in {i}
    BY <1>2, LeastOf
  <1> QED  BY <1>1, <1>3 DEF StepIndex, HasStep

LEMMA CurrentIndex ==
    ASSUME NEW def, WellDefined(def), NEW id, HasStep(def, id)
    PROVE  /\ StepIndex(def, id) \in DOMAIN def /\ def[StepIndex(def, id)].id = id
           /\ StepsWithId(def, id) = {StepIndex(def, id)}
  <1>1. PICK i \in DOMAIN def : def[i].id = id
    BY DEF HasStep, StepsWithId
  <1> QED  BY <1>1, IndexOf

\* The step that a label leads to is that of a branch, or the default.
LEMMA Resolves ==
    ASSUME NEW s, DOMAIN s.conds \in SUBSET Nat, NEW label
    PROVE  \/ ResolveNextStepId(s, label) = s.next
           \/ <<label, ResolveNextStepId(s, label)>> \in Branches(s)
  <1> DEFINE S == MatchingConds(s, label)
  <1>1. CASE label # None /\ S # {}
    <2>1. S \in SUBSET Nat
      BY DEF MatchingConds
    <2>2. Min(S) \in S
      BY <1>1, <2>1, LeastOf
    <2>3. Min(S) \in DOMAIN s.conds /\ s.conds[Min(S)].label = label
      BY <2>2 DEF MatchingConds
    <2>4. ResolveNextStepId(s, label) = s.conds[Min(S)].next
      BY <1>1 DEF ResolveNextStepId
    <2> QED  BY <2>3, <2>4 DEF Branches
  <1>2. CASE ~ (label # None /\ S # {})
    BY <1>2 DEF ResolveNextStepId
  <1> QED  BY <1>1, <1>2

LEMMA ResolvesToStep ==
    ASSUME NEW def, WellDefined(def), NEW i \in DOMAIN def, NEW label
    PROVE  LET t == ResolveNextStepId(def[i], label)
           IN  t = None \/ HasStep(def, t)
  <1> DEFINE t == ResolveNextStepId(def[i], label)
  <1>1. t = def[i].next \/ <<label, t>> \in Branches(def[i])
    BY Resolves DEF WellDefined
  <1> HIDE DEF t
  <1>2. Leads(def, t)
    BY <1>1 DEF WellDefined
  <1>3. t = None \/ HasStep(def, t)
    BY <1>2 DEF Leads, HasStep, StepsWithId
  <1> QED  BY <1>3 DEF t

-----------------------------------------------------------------------------
(* What advanceStep and blockStep do to a record.                          *)

Ids == {s.id : s \in FlowSteps}

Reasons == {"waiting"}

CompletedWith(w, s, r, n) == [w EXCEPT !.status = s, !.reasons = r, !.done = n]

EnteredWith(w, s, c) == [w EXCEPT !.status = s, !.cur = c]

BlockedWith(w, s, r) == [w EXCEPT !.status = s, !.reasons = r]

Teachable(f, q, t) ==
    f \in SUBSET {"fact"} /\ q \in SUBSET {"question"} /\ t \in {"plan", ""}

TaughtWith(w, f, q, t) == [w EXCEPT !.facts = f, !.questions = q, !.plan = t]

LEMMA CompletedRecord ==
    ASSUME NEW d, NEW w \in WorkflowOf(d), NEW s \in [DOMAIN d -> Status],
           NEW r \in [DOMAIN d -> SUBSET Reasons], NEW n \in SUBSET Ids,
           NEW v, v = CompletedWith(w, s, r, n)
    PROVE  /\ v \in WorkflowOf(d)
           /\ v.status = s /\ v.reasons = r /\ v.done = n /\ v.cur = w.cur
           /\ v.facts = w.facts /\ v.questions = w.questions /\ v.plan = w.plan
           /\ v.issue = w.issue /\ v.repo = w.repo /\ v.closed = w.closed
  BY DEF CompletedWith, WorkflowOf, Ids, Reasons

LEMMA EnteredRecord ==
    ASSUME NEW d, NEW w \in WorkflowOf(d), NEW s \in [DOMAIN d -> Status], NEW c \in Ids,
           NEW v, v = EnteredWith(w, s, c)
    PROVE  /\ v \in WorkflowOf(d)
           /\ v.status = s /\ v.reasons = w.reasons /\ v.done = w.done /\ v.cur = c
           /\ v.facts = w.facts /\ v.questions = w.questions /\ v.plan = w.plan
           /\ v.issue = w.issue /\ v.repo = w.repo /\ v.closed = w.closed
  BY DEF EnteredWith, WorkflowOf, Ids

LEMMA BlockedRecord ==
    ASSUME NEW d, NEW w \in WorkflowOf(d), NEW s \in [DOMAIN d -> Status],
           NEW r \in [DOMAIN d -> SUBSET Reasons],
           NEW v, v = BlockedWith(w, s, r)
    PROVE  v \in WorkflowOf(d) /\ v.status = s /\ v.done = w.done /\ v.cur = w.cur
  BY DEF BlockedWith, WorkflowOf, Reasons

LEMMA TaughtRecord ==
    ASSUME NEW d, NEW w \in WorkflowOf(d), NEW f, NEW q, NEW t, Teachable(f, q, t),
           NEW v, v = TaughtWith(w, f, q, t)
    PROVE  /\ v \in WorkflowOf(d)
           /\ v.status = w.status /\ v.reasons = w.reasons /\ v.done = w.done /\ v.cur = w.cur
           /\ v.facts = f /\ v.questions = q /\ v.plan = t
           /\ v.issue = w.issue /\ v.repo = w.repo /\ v.closed = w.closed
  BY DEF TaughtWith, Teachable, WorkflowOf

LEMMA RecordFields ==
    ASSUME NEW d, NEW w \in WorkflowOf(d)
    PROVE  /\ w.def = d /\ w.status \in [DOMAIN d -> Status]
           /\ w.reasons \in [DOMAIN d -> SUBSET Reasons] /\ w.cur \in Ids /\ w.done \subseteq Ids
           /\ w.facts \subseteq {"fact"} /\ w.questions \subseteq {"question"}
           /\ w.plan \in {"plan", ""}
  BY DEF WorkflowOf, Ids, Reasons

Current(d, w) == StepIndex(d, w.cur)

Resolved(d, w, p) == ResolveNextStepId(d[Current(d, w)], p.label)

Marked(d, w) == [w.status EXCEPT ![Current(d, w)] = "completed"]

Candidates(d, w, p) ==
    IF Resolved(d, w, p) # None THEN StepsWithId(d, Resolved(d, w, p))
    ELSE PendingSteps(Marked(d, w))

\* v is what w becomes when its current step is completed.
Advanced(d, w, p, v) ==
    /\ v \in WorkflowOf(d)
    /\ v.status = IF Candidates(d, w, p) = {} THEN Marked(d, w)
                  ELSE [Marked(d, w) EXCEPT ![Min(Candidates(d, w, p))] = "running"]
    /\ v.cur = IF Candidates(d, w, p) = {} THEN w.cur ELSE d[Min(Candidates(d, w, p))].id
    /\ v.reasons = [w.reasons EXCEPT ![Current(d, w)] = {}]
    /\ v.done = w.done \cup {w.cur}
    /\ v.facts = w.facts \cup p.facts
    /\ v.questions = (w.questions \ p.resolved) \cup p.questions
    /\ v.issue = w.issue /\ v.repo = w.repo /\ v.closed = w.closed

\* The record w of a flow, and a call on its current step.
Drives(d, w, p) ==
    /\ WellDefined(d) /\ \A i \in DOMAIN d : d[i].id \in Ids
    /\ w \in WorkflowOf(d) /\ HasStep(d, w.cur)
    /\ p \in AdvanceArgs /\ p.step = None

LEMMA Driven ==
    ASSUME NEW d, NEW w, NEW p, Drives(d, w, p)
    PROVE  /\ Current(d, w) \in DOMAIN d /\ d[Current(d, w)].id = w.cur
           /\ StepsWithId(d, w.cur) = {Current(d, w)}
           /\ Marked(d, w) \in [DOMAIN d -> Status]
           /\ Candidates(d, w, p) \subseteq DOMAIN d
           /\ Candidates(d, w, p) # {} => Min(Candidates(d, w, p)) \in Candidates(d, w, p)
           /\ p.facts \subseteq {"fact"} /\ p.questions \subseteq {"question"}
           /\ p.plan \in {"plan", "", None}
  <1>1. /\ Current(d, w) \in DOMAIN d /\ d[Current(d, w)].id = w.cur
        /\ StepsWithId(d, w.cur) = {Current(d, w)} /\ DOMAIN d \in SUBSET Nat
    BY CurrentIndex DEF Drives, Current, WellDefined
  <1>2. w.status \in [DOMAIN d -> Status]
    BY RecordFields DEF Drives
  <1>3. Marked(d, w) \in [DOMAIN d -> Status]
    BY <1>2 DEF Marked, Status
  <1>4. Candidates(d, w, p) \subseteq DOMAIN d
    BY <1>3 DEF Candidates, StepsWithId, PendingSteps
  <1>5. Candidates(d, w, p) # {} => Min(Candidates(d, w, p)) \in Candidates(d, w, p)
    BY <1>1, <1>4, LeastOf
  <1>6. /\ p.facts \subseteq {"fact"} /\ p.questions \subseteq {"question"}
        /\ p.plan \in {"plan", "", None}
    BY DEF Drives, AdvanceArgs
  <1> QED  BY <1>1, <1>3, <1>4, <1>5, <1>6

LEMMA AdvanceStepAdvances ==
    ASSUME NEW d, NEW w, NEW p, Drives(d, w, p)
    PROVE  Advanced(d, w, p, AdvanceStep(w, p))
  <1> DEFINE c == Current(d, w)
             S == Candidates(d, w, p)
             s == Marked(d, w)
             m == MarkCompleted(w, p)
             n == EnterNext(m, p)
             r == [w.reasons EXCEPT ![c] = {}]
             done == w.done \cup {w.cur}
  <1>1. /\ w \in WorkflowOf(d) /\ p.step = None
        /\ w.def = d /\ w.status \in [DOMAIN d -> Status]
        /\ w.reasons \in [DOMAIN d -> SUBSET Reasons] /\ w.cur \in Ids /\ w.done \subseteq Ids
        /\ w.facts \subseteq {"fact"} /\ w.questions \subseteq {"question"}
        /\ w.plan \in {"plan", ""}
    BY RecordFields DEF Drives
  <1>2. /\ c \in DOMAIN d /\ s \in [DOMAIN d -> Status] /\ S \subseteq DOMAIN d
        /\ S # {} => Min(S) \in S
        /\ p.facts \subseteq {"fact"} /\ p.questions \subseteq {"question"}
        /\ p.plan \in {"plan", "", None}
    BY Driven
  <1>3. TargetId(w, p.step) = w.cur /\ CompletedIndex(w, p) = c
    BY <1>1 DEF TargetId, CompletedIndex, Current
  <1>4. m = CompletedWith(w, s, r, done)
    BY <1>3 DEF MarkCompleted, Marked, CompletedWith
  <1>5. r \in [DOMAIN d -> SUBSET Reasons] /\ done \in SUBSET Ids
    BY <1>1, <1>2
  <1> HIDE DEF c, S, s, m, n, r, done
  <1>6. /\ m \in WorkflowOf(d)
        /\ m.status = s /\ m.reasons = r /\ m.done = done /\ m.cur = w.cur
        /\ m.facts = w.facts /\ m.questions = w.questions /\ m.plan = w.plan
        /\ m.issue = w.issue /\ m.repo = w.repo /\ m.closed = w.closed
    <2>1. /\ w \in WorkflowOf(d) /\ s \in [DOMAIN d -> Status]
          /\ r \in [DOMAIN d -> SUBSET Reasons] /\ done \in SUBSET Ids
      BY <1>1, <1>2, <1>5
    <2> QED  BY <1>4, <2>1, CompletedRecord
  <1>7. m.def = d
    BY <1>6, RecordFields
  <1>8. EnterCandidates(m, p) = S
    <2>1. CompletedIndex(m, p) = c
      BY <1>1, <1>6, <1>7 DEF TargetId, CompletedIndex, Current, c
    <2>2. AdvanceTarget(m, p) = Resolved(d, w, p)
      BY <1>7, <2>1 DEF AdvanceTarget, Resolved, c
    <2> QED  BY <1>6, <1>7, <2>2 DEF EnterCandidates, Candidates, S, s
  <1>9. /\ n \in WorkflowOf(d)
        /\ n.status = IF S = {} THEN s ELSE [s EXCEPT ![Min(S)] = "running"]
        /\ n.cur = IF S = {} THEN w.cur ELSE d[Min(S)].id
        /\ n.reasons = r /\ n.done = done
        /\ n.facts = w.facts /\ n.questions = w.questions /\ n.plan = w.plan
        /\ n.issue = w.issue /\ n.repo = w.repo /\ n.closed = w.closed
    <2>1. CASE S = {}
      BY <1>6, <1>8, <2>1 DEF EnterNext, n
    <2>2. CASE S # {}
      <3> DEFINE j == Min(S)
                 entered == [s EXCEPT ![j] = "running"]
                 id == d[j].id
      <3>1. n = EnteredWith(m, entered, id)
        BY <1>6, <1>7, <1>8, <2>2 DEF EnterNext, EnteredWith, n
      <3>2. entered \in [DOMAIN d -> Status] /\ id \in Ids
        BY <1>2, <2>2 DEF Status, Drives
      <3> HIDE DEF j, entered, id
      <3>3. /\ n \in WorkflowOf(d)
            /\ n.status = entered /\ n.reasons = m.reasons /\ n.done = m.done /\ n.cur = id
            /\ n.facts = m.facts /\ n.questions = m.questions /\ n.plan = m.plan
            /\ n.issue = m.issue /\ n.repo = m.repo /\ n.closed = m.closed
        BY <1>6, <3>1, <3>2, EnteredRecord
      <3> QED  BY <1>6, <2>2, <3>3 DEF j, entered, id
    <2> QED  BY <2>1, <2>2
  <1> DEFINE f == n.facts \cup p.facts
             q == (n.questions \ p.resolved) \cup p.questions
             t == IF p.plan \in {None, ""} THEN n.plan ELSE p.plan
             l == AdvanceStep(w, p)
  <1>10. l = TaughtWith(n, f, q, t)
    BY DEF AdvanceStep, Learn, TaughtWith, n, m
  <1>11. Teachable(f, q, t)
    BY <1>1, <1>2, <1>9 DEF Teachable
  <1>13. f = w.facts \cup p.facts /\ q = (w.questions \ p.resolved) \cup p.questions
    BY <1>9
  <1> HIDE DEF f, q, t, l
  <1>14. /\ l \in WorkflowOf(d)
         /\ l.status = n.status /\ l.reasons = n.reasons /\ l.done = n.done /\ l.cur = n.cur
         /\ l.facts = f /\ l.questions = q /\ l.plan = t
         /\ l.issue = n.issue /\ l.repo = n.repo /\ l.closed = n.closed
    <2>1. n \in WorkflowOf(d)
      BY <1>9
    <2> QED  BY <1>10, <1>11, <2>1, TaughtRecord
  <1>15. Advanced(d, w, p, l)
    BY <1>9, <1>13, <1>14 DEF Advanced, c, S, s, r, done
  <1> QED  BY <1>15 DEF l

\* Where the next step comes from: it is the one resolved, or the flow stays
\* where it is, or it goes on with the first of the pending steps.
Moved(d, w, p, v, j) ==
    /\ j \in DOMAIN d /\ v.cur = d[j].id /\ v.status[j] # "pending"
    /\ \A i \in DOMAIN d : i # j /\ i # Current(d, w) => v.status[i] = w.status[i]
    /\ \/ Resolved(d, w, p) = d[j].id
       \/ Resolved(d, w, p) = None /\ j = Current(d, w)
       \/ /\ Resolved(d, w, p) = None
          /\ \A i \in DOMAIN d :
                i # Current(d, w) /\ w.status[i] = "pending" => j =< i

LEMMA Moves ==
    ASSUME NEW d, NEW w, NEW p, Drives(d, w, p), NEW v, Advanced(d, w, p, v)
    PROVE  \E j \in DOMAIN d : Moved(d, w, p, v, j)
  <1> DEFINE c == Current(d, w)
             S == Candidates(d, w, p)
  <1>1. /\ c \in DOMAIN d /\ d[c].id = w.cur /\ Marked(d, w) \in [DOMAIN d -> Status]
        /\ S \subseteq DOMAIN d /\ DOMAIN d \in SUBSET Nat
        /\ w.status \in [DOMAIN d -> Status]
    BY Driven, RecordFields DEF Drives, WellDefined
  <1>2. /\ Marked(d, w)[c] = "completed"
        /\ \A i \in DOMAIN d : i # c => Marked(d, w)[i] = w.status[i]
    BY <1>1 DEF Marked
  <1>3. CASE S = {}
    <2>1. v.cur = d[c].id /\ v.status = Marked(d, w)
      BY <1>1, <1>3 DEF Advanced
    <2>2. Resolved(d, w, p) = None \/ ~ HasStep(d, Resolved(d, w, p))
      BY <1>3 DEF Candidates, HasStep
    <2>3. Resolved(d, w, p) = None
      BY <1>1, <2>2, ResolvesToStep DEF Resolved, Drives
    <2>4. Moved(d, w, p, v, c)
      BY <1>1, <1>2, <2>1, <2>3 DEF Moved
    <2> QED  BY <1>1, <2>4
  <1>4. CASE S # {}
    <2> DEFINE j == Min(S)
    <2>1. j \in S /\ \A i \in S : j =< i
      BY <1>1, <1>4, LeastOf
    <2>2. v.cur = d[j].id /\ v.status = [Marked(d, w) EXCEPT ![j] = "running"]
      BY <1>4 DEF Advanced
    <2> HIDE DEF j
    <2>3. j \in DOMAIN d
      BY <1>1, <2>1
    <2>4. v.status[j] = "running" /\ \A i \in DOMAIN d : i # j /\ i # c => v.status[i] = w.status[i]
      BY <1>1, <1>2, <2>2, <2>3
    <2>5. CASE Resolved(d, w, p) # None
      <3>1. d[j].id = Resolved(d, w, p)
        BY <2>1, <2>5 DEF Candidates, StepsWithId
      <3>2. Moved(d, w, p, v, j)
        BY <2>2, <2>3, <2>4, <3>1 DEF Moved
      <3> QED  BY <2>3, <3>2
    <2>6. CASE Resolved(d, w, p) = None
      <3>1. S = PendingSteps(Marked(d, w))
        BY <2>6 DEF Candidates
      <3>2. \A i \in DOMAIN d : i # c /\ w.status[i] = "pending" => i \in S
        BY <1>1, <1>2, <3>1 DEF PendingSteps
      <3>3. Moved(d, w, p, v, j)
        BY <2>1, <2>2, <2>3, <2>4, <2>6, <3>2 DEF Moved
      <3> QED  BY <2>3, <3>3
    <2> QED  BY <2>5, <2>6
  <1> QED  BY <1>3, <1>4

-----------------------------------------------------------------------------
(* The inductive invariant.                                                *)

\* A step that was entered is the current one or was completed, and a final
\* one is never left.
Started(d, w) ==
    /\ w \in WorkflowOf(d) /\ HasStep(d, w.cur)
    /\ w.status[Current(d, w)] # "pending"
    /\ \A i \in DOMAIN d :
          /\ w.status[i] # "pending" => d[i].id = w.cur \/ d[i].id \in w.done
          /\ Final(d, i) /\ w.status[i] # "pending" => d[i].id = w.cur

\* Neither the review r nor the closing k is entered before the execution e
\* is completed, unless it was waived.
ClosesAfter(d, w, e, r, k, excused) ==
    w.status[r] # "pending" \/ w.status[k] # "pending" => d[e].id \in w.done \/ excused

FlowInv ==
    /\ flow \in Flows /\ waived \in BOOLEAN
    /\ Started(FlowMap[flow], wf)
    /\ flow \in Reviewed =>
          ClosesAfter(FlowMap[flow], wf, Execution[flow], Review[flow], Closing[flow],
                      waived /\ Waivers[flow] # {})

LEMMA FlowOf ==
    ASSUME NEW f \in Flows
    PROVE  /\ WellDefined(FlowMap[f])
           /\ \A i \in DOMAIN FlowMap[f] : FlowMap[f][i].id \in Ids
           /\ \A i \in DOMAIN FlowMap[f] :
                 \A k \in DOMAIN FlowMap[f][i].conds : FlowMap[f][i].conds[k].label \in AllLabels
  <1>1. WellDefined(FlowMap[f])
    BY FlowsDefined
  <1>2. \A i \in DOMAIN FlowMap[f] : FlowMap[f][i] \in FlowSteps
    BY DEF FlowSteps
  <1>3. \A i \in DOMAIN FlowMap[f] : FlowMap[f][i].id \in Ids
    BY <1>2 DEF Ids
  <1>4. ASSUME NEW s \in FlowSteps, NEW k \in DOMAIN s.conds
        PROVE  s.conds[k].label \in AllLabels
    BY DEF AllLabels
  <1> QED  BY <1>1, <1>2, <1>3, <1>4

\* The guard of the execution speaks of a flow in which it is defined.
LEMMA FlowGuarded ==
    ASSUME NEW f \in Reviewed
    PROVE  Guarded(FlowMap[f], Execution[f], Review[f], Closing[f], Waivers[f])
           /\ Waivers[f] \subseteq {"no_execution"}
  <1>1. Waivers["task"] = {"no_execution"} /\ Waivers["command"] = {} /\ Waivers["bug"] = {}
    BY DEF Waivers
  <1> QED  BY <1>1, FlowsDefined DEF Reviewed

LEMMA FlowInvInit == Init => FlowInv
  <1> SUFFICES ASSUME Init  PROVE FlowInv
    OBVIOUS
  <1> DEFINE d == FlowMap[flow]
  <1>1. flow \in Flows /\ waived = FALSE
    BY DEF Init
  <1>2. WellDefined(d) /\ \A i \in DOMAIN d : d[i].id \in Ids
    BY <1>1, FlowOf
  <1>3. wf = CreateWorkflow(d, None, 0, 0)
    BY DEF Init
  <1> HIDE DEF d
  <1>4. 1 \in DOMAIN d /\ d[1].id \in Ids
    BY <1>2 DEF WellDefined
  <1>5. /\ wf.status = [i \in DOMAIN d |-> IF i = 1 THEN "running" ELSE "pending"]
        /\ wf.cur = d[1].id
    BY <1>3 DEF CreateWorkflow
  <1>6. wf \in WorkflowOf(d)
    BY <1>3, <1>4 DEF CreateWorkflow, WorkflowOf, Ids, Status
  <1>7. HasStep(d, wf.cur) /\ Current(d, wf) = 1
    BY <1>2, <1>4, <1>5, IndexOf DEF Current
  <1>8. Started(d, wf)
    BY <1>4, <1>5, <1>6, <1>7 DEF Started
  <1>9. flow \in Reviewed =>
           ClosesAfter(d, wf, Execution[flow], Review[flow], Closing[flow],
                       waived /\ Waivers[flow] # {})
    <2> SUFFICES ASSUME flow \in Reviewed
                 PROVE  ClosesAfter(d, wf, Execution[flow], Review[flow], Closing[flow],
                                    waived /\ Waivers[flow] # {})
      OBVIOUS
    <2>1. Guarded(d, Execution[flow], Review[flow], Closing[flow], Waivers[flow])
      BY FlowGuarded DEF d
    <2>2. /\ Review[flow] \in DOMAIN d /\ Review[flow] # 1
          /\ Closing[flow] \in DOMAIN d /\ Closing[flow] # 1
      BY <1>2, <2>1 DEF Guarded, WellDefined
    <2> QED  BY <1>5, <2>2 DEF ClosesAfter
  <1> QED  BY <1>1, <1>8, <1>9 DEF FlowInv, d

\* The completion of the current step.
LEMMA StartedAdvance ==
    ASSUME NEW d, NEW w, NEW p, Drives(d, w, p), NEW v, Advanced(d, w, p, v), Started(d, w)
    PROVE  Started(d, v)
  <1> DEFINE c == Current(d, w)
  <1>1. PICK j \in DOMAIN d : Moved(d, w, p, v, j)
    BY Moves
  <1>2. /\ WellDefined(d) /\ c \in DOMAIN d /\ d[c].id = w.cur
        /\ v \in WorkflowOf(d) /\ v.done = w.done \cup {w.cur}
    BY Driven DEF Drives, Advanced
  <1>3. HasStep(d, v.cur) /\ Current(d, v) = j
    BY <1>1, <1>2, IndexOf DEF Moved, Current
  <1> HIDE DEF c
  <1>4. ASSUME NEW i \in DOMAIN d, v.status[i] # "pending"
        PROVE  d[i].id = v.cur \/ d[i].id \in v.done
    <2>1. i # j /\ i # c => v.status[i] = w.status[i]
      BY <1>1 DEF Moved, c
    <2> QED  BY <1>1, <1>2, <1>4, <2>1 DEF Moved, Started
  <1>5. ASSUME NEW i \in DOMAIN d, Final(d, i), v.status[i] # "pending"
        PROVE  d[i].id = v.cur
    <2>1. CASE i = j
      BY <1>1, <2>1 DEF Moved
    <2>2. CASE i = c
      <3>1. Resolved(d, w, p) = d[i].next
        BY <1>2, <1>5, <2>2, Resolves DEF Resolved, Final, WellDefined, c
      <3>2. Resolved(d, w, p) = d[i].id /\ d[i].id # None
        BY <1>2, <1>5, <3>1 DEF Final, WellDefined
      <3> QED  BY <1>1, <3>2 DEF Moved
    <2>3. CASE i # j /\ i # c
      <3>1. w.status[i] # "pending"
        BY <1>1, <1>5, <2>3 DEF Moved, c
      <3>2. d[i].id = w.cur
        BY <1>5, <3>1 DEF Started
      <3>3. i = c
        BY <1>2, <3>2 DEF WellDefined
      <3> QED  BY <2>3, <3>3
    <2> QED  BY <2>1, <2>2, <2>3
  <1> QED  BY <1>1, <1>2, <1>3, <1>4, <1>5 DEF Started, Moved

LEMMA ClosesAfterAdvance ==
    ASSUME NEW d, NEW w, NEW p, Drives(d, w, p), NEW v, Advanced(d, w, p, v), Started(d, w),
           NEW e, NEW r, NEW k, NEW waivers, Guarded(d, e, r, k, waivers),
           NEW before \in BOOLEAN, ClosesAfter(d, w, e, r, k, before),
           NEW after \in BOOLEAN, before => after, p.label \in waivers => after
    PROVE  ClosesAfter(d, v, e, r, k, after)
  <1> DEFINE c == Current(d, w)
  <1> SUFFICES ASSUME d[e].id \notin v.done, ~ after
               PROVE  v.status[r] = "pending" /\ v.status[k] = "pending"
    BY DEF ClosesAfter
  <1>1. PICK j \in DOMAIN d : Moved(d, w, p, v, j)
    BY Moves
  <1>2. /\ WellDefined(d) /\ c \in DOMAIN d /\ d[c].id = w.cur
        /\ v.done = w.done \cup {w.cur}
    BY Driven DEF Drives, Advanced
  <1>3. /\ e \in DOMAIN d /\ r \in DOMAIN d /\ k \in DOMAIN d /\ e < r /\ r < k
        /\ e \in Nat /\ r \in Nat /\ k \in Nat /\ j \in Nat
    BY <1>2 DEF Guarded, WellDefined
  <1>4. w.status[r] = "pending" /\ w.status[k] = "pending"
    BY <1>2 DEF ClosesAfter
  <1>5. c # r /\ c # k
    BY <1>4 DEF Started
  <1>6. c # e /\ w.status[e] = "pending"
    BY <1>2, <1>3 DEF Started
  <1> HIDE DEF c
  <1>7. \/ Resolved(d, w, p) = d[c].next
        \/ <<p.label, Resolved(d, w, p)>> \in Branches(d[c])
    BY <1>2, Resolves DEF Resolved, WellDefined, c
  <1>8. Resolved(d, w, p) # d[r].id
    <2>1. d[c].next # d[r].id /\ \A b \in Branches(d[c]) : b[2] # d[r].id
      BY <1>2 DEF Guarded
    <2> QED  BY <1>7, <2>1
  <1>9. Resolved(d, w, p) # d[k].id
    <2>1. d[c].next # d[k].id
      BY <1>2, <1>5 DEF Guarded
    <2>2. \A b \in Branches(d[c]) : b[2] = d[k].id => b[1] \in waivers
      BY <1>2, <1>5 DEF Guarded
    <2> QED  BY <1>7, <2>1, <2>2
  <1>10. j # r /\ j # k
    <2>1. Resolved(d, w, p) = None /\ j # c => j =< e
      BY <1>1, <1>3, <1>6, <1>2 DEF Moved, c, WellDefined
    <2> QED  BY <1>1, <1>3, <1>5, <1>8, <1>9, <2>1 DEF Moved, c
  <1> QED  BY <1>1, <1>3, <1>4, <1>5, <1>10 DEF Moved, c

LEMMA Completion ==
    ASSUME FlowInv, NEW label, label \in AllLabels \cup {None}, CompleteCurrent(label)
    PROVE  FlowInv'
  <1>1. PICK questions \in SUBSET {"question"} :
            /\ wf' = AdvanceStep(wf, Completing(label, questions))
            /\ waived' = (waived \/ label = "no_execution")
            /\ flow' = flow
    BY DEF CompleteCurrent
  <1> DEFINE d == FlowMap[flow]
             p == Completing(label, questions)
  <1>2. flow \in Flows /\ waived \in BOOLEAN /\ Started(d, wf)
    BY DEF FlowInv
  <1>3. p \in AdvanceArgs /\ p.step = None /\ p.label = label
    BY DEF Completing, AdvanceArgs
  <1>4. Drives(d, wf, p)
    BY <1>2, <1>3, FlowOf DEF Drives, Started
  <1> HIDE DEF p, d
  <1>5. Advanced(d, wf, p, wf')
    BY <1>1, <1>4, AdvanceStepAdvances DEF p
  <1>6. Started(d, wf')
    BY <1>2, <1>4, <1>5, StartedAdvance
  <1>7. flow \in Reviewed =>
           ClosesAfter(d, wf', Execution[flow], Review[flow], Closing[flow],
                       waived' /\ Waivers[flow] # {})
    <2> SUFFICES ASSUME flow \in Reviewed
                 PROVE  ClosesAfter(d, wf', Execution[flow], Review[flow], Closing[flow],
                                    waived' /\ Waivers[flow] # {})
      OBVIOUS
    <2> DEFINE before == waived /\ Waivers[flow] # {}
               after == waived' /\ Waivers[flow] # {}
    <2>1. /\ Guarded(d, Execution[flow], Review[flow], Closing[flow], Waivers[flow])
          /\ Waivers[flow] \subseteq {"no_execution"}
      BY FlowGuarded DEF d
    <2>2. ClosesAfter(d, wf, Execution[flow], Review[flow], Closing[flow], before)
      BY DEF FlowInv, d
    <2>3. before => after
      BY <1>1, <1>2
    <2>4. p.label \in Waivers[flow] => after
      BY <1>1, <1>3, <2>1 DEF p
    <2>5. before \in BOOLEAN /\ after \in BOOLEAN
      OBVIOUS
    <2> HIDE DEF before, after
    <2>6. ClosesAfter(d, wf', Execution[flow], Review[flow], Closing[flow], after)
      BY <1>2, <1>4, <1>5, <2>1, <2>2, <2>3, <2>4, <2>5, ClosesAfterAdvance
    <2> QED  BY <2>6 DEF after
  <1>8. waived' \in BOOLEAN
    BY <1>1, <1>2
  <1> QED  BY <1>1, <1>2, <1>6, <1>7, <1>8 DEF FlowInv, d

LEMMA Blocking ==
    ASSUME FlowInv, BlockCurrent
    PROVE  FlowInv'
  <1> DEFINE d == FlowMap[flow]
             c == Current(d, wf)
  <1>1. PICK reasons \in SUBSET {"waiting"} : wf' = BlockStep(wf, None, reasons)
    BY DEF BlockCurrent
  <1>2. flow \in Flows /\ waived \in BOOLEAN /\ Started(d, wf)
    BY DEF FlowInv
  <1>3. flow' = flow /\ waived' = waived
    BY DEF BlockCurrent
  <1>4. WellDefined(d)
    BY <1>2, FlowOf
  <1> HIDE DEF d
  <1>5. /\ wf \in WorkflowOf(d) /\ wf.def = d /\ wf.status \in [DOMAIN d -> Status]
        /\ wf.reasons \in [DOMAIN d -> SUBSET Reasons] /\ HasStep(d, wf.cur)
    BY <1>2, RecordFields DEF Started
  <1>6. c \in DOMAIN d /\ d[c].id = wf.cur
    BY <1>4, <1>5, CurrentIndex DEF Current
  <1> DEFINE s == [wf.status EXCEPT ![c] = "blocked"]
             r == [wf.reasons EXCEPT ![c] = reasons]
  <1>7. s \in [DOMAIN d -> Status] /\ r \in [DOMAIN d -> SUBSET Reasons]
    BY <1>5, <1>6 DEF Status, Reasons
  <1>8. wf' = BlockedWith(wf, s, r)
    BY <1>1, <1>5 DEF BlockStep, BlockedWith, TargetId, Current
  <1>9. \A i \in DOMAIN d : i # c => s[i] = wf.status[i]
    BY <1>5
  <1>10. s[c] # "pending"
    BY <1>5, <1>6
  <1> HIDE DEF s, r
  <1>11. wf' \in WorkflowOf(d) /\ wf'.status = s /\ wf'.done = wf.done /\ wf'.cur = wf.cur
    BY <1>5, <1>7, <1>8, BlockedRecord
  <1>12. wf.status[c] # "pending"
    BY <1>2 DEF Started
  <1>13. Current(d, wf') = c
    BY <1>11 DEF Current
  <1> HIDE DEF c
  <1>14. \A i \in DOMAIN d : wf'.status[i] # "pending" => wf.status[i] # "pending"
    BY <1>9, <1>11, <1>12
  <1>15. Started(d, wf')
    BY <1>2, <1>5, <1>10, <1>11, <1>13, <1>14 DEF Started
  <1>16. flow \in Reviewed =>
            ClosesAfter(d, wf', Execution[flow], Review[flow], Closing[flow],
                        waived /\ Waivers[flow] # {})
    <2> SUFFICES ASSUME flow \in Reviewed
                 PROVE  ClosesAfter(d, wf', Execution[flow], Review[flow], Closing[flow],
                                    waived /\ Waivers[flow] # {})
      OBVIOUS
    <2>1. ClosesAfter(d, wf, Execution[flow], Review[flow], Closing[flow],
                      waived /\ Waivers[flow] # {})
      BY DEF FlowInv, d
    <2>2. Review[flow] \in DOMAIN d /\ Closing[flow] \in DOMAIN d
      BY FlowGuarded DEF Guarded, d
    <2> QED  BY <1>11, <1>14, <2>1, <2>2 DEF ClosesAfter
  <1> QED  BY <1>2, <1>3, <1>15, <1>16 DEF FlowInv, d

LEMMA CurrentHasLabels ==
    ASSUME FlowInv
    PROVE  CurrentLabels \subseteq AllLabels
  <1> DEFINE d == FlowMap[flow]
             c == StepIndex(d, wf.cur)
  <1>1. flow \in Flows /\ wf \in WorkflowOf(d) /\ HasStep(d, wf.cur)
    BY DEF FlowInv, Started
  <1>2. wf.def = d /\ c \in DOMAIN d
    BY <1>1, FlowOf, RecordFields, CurrentIndex
  <1> QED  BY <1>1, <1>2, FlowOf DEF CurrentLabels, CurrentStep

LEMMA FlowInvNext == FlowInv /\ [Next]_vars => FlowInv'
  <1> SUFFICES ASSUME FlowInv, [Next]_vars  PROVE FlowInv'
    OBVIOUS
  <1>1. CASE Follow
    BY <1>1, Completion, CurrentHasLabels DEF Follow
  <1>2. CASE Stray
    BY <1>2, Completion DEF Stray
  <1>3. CASE BlockCurrent
    BY <1>3, Blocking
  <1>4. CASE UNCHANGED vars
    BY <1>4 DEF vars, FlowInv
  <1> QED  BY <1>1, <1>2, <1>3, <1>4 DEF Next

\* Whatever labels an agent gives, its workflow stays a record of its flow, in
\* which the steps entered are the current one and completed ones.
THEOREM FlowInvariant == Spec => []FlowInv
  BY FlowInvInit, FlowInvNext, PTL DEF Spec

-----------------------------------------------------------------------------
(* What the invariant decides.                                             *)

\* The step with an identifier, in a workflow of a flow.
LEMMA EnteredAt ==
    ASSUME NEW d, WellDefined(d), wf \in WorkflowOf(d), NEW i \in DOMAIN d
    PROVE  Entered(d[i].id) <=> wf.status[i] # "pending"
  <1>1. wf.def = d
    BY RecordFields
  <1>2. HasStep(d, d[i].id) /\ StepIndex(d, d[i].id) = i
    BY IndexOf
  <1> QED  BY <1>1, <1>2 DEF Entered, StatusOf

\* Two final steps are never both entered.
LEMMA OneFinal ==
    ASSUME NEW d, WellDefined(d), Started(d, wf), NEW i \in DOMAIN d, NEW k \in DOMAIN d,
           i # k, Final(d, i), Final(d, k)
    PROVE  ~ (Entered(d[i].id) /\ Entered(d[k].id))
  <1> SUFFICES ASSUME Entered(d[i].id), Entered(d[k].id)  PROVE FALSE
    OBVIOUS
  <1>1. wf.status[i] # "pending" /\ wf.status[k] # "pending"
    BY EnteredAt DEF Started
  <1>2. d[i].id = wf.cur /\ d[k].id = wf.cur
    BY <1>1 DEF Started
  <1> QED  BY <1>2 DEF WellDefined

LEMMA FlowsExclusive == FlowInv => OutcomesExclusive
  <1> SUFFICES ASSUME FlowInv  PROVE OutcomesExclusive
    OBVIOUS
  <1>1. flow \in Flows /\ Started(FlowMap[flow], wf) /\ WellDefined(FlowMap[flow])
    BY FlowOf DEF FlowInv
  <1>2. flow = "bug" => ~ (Entered("complete") /\ Entered("close_no_fix"))
    <2> SUFFICES ASSUME flow = "bug"  PROVE ~ (Entered("complete") /\ Entered("close_no_fix"))
      OBVIOUS
    <2>1. /\ FlowMap[flow] = BugFlow /\ Final(BugFlow, 7) /\ Final(BugFlow, 8)
          /\ 7 \in DOMAIN BugFlow /\ 8 \in DOMAIN BugFlow
          /\ BugFlow[7].id = "complete" /\ BugFlow[8].id = "close_no_fix"
      BY BugWellDefined, BugFlowSteps DEF FlowMap, IsStep
    <2> QED  BY <1>1, <2>1, OneFinal
  <1>3. flow = "consult" => ~ (Entered("task_spawn") /\ Entered("complete"))
    <2> SUFFICES ASSUME flow = "consult"  PROVE ~ (Entered("task_spawn") /\ Entered("complete"))
      OBVIOUS
    <2>1. /\ FlowMap[flow] = ConsultFlow /\ Final(ConsultFlow, 3) /\ Final(ConsultFlow, 4)
          /\ 3 \in DOMAIN ConsultFlow /\ 4 \in DOMAIN ConsultFlow
          /\ ConsultFlow[3].id = "task_spawn" /\ ConsultFlow[4].id = "complete"
      BY ConsultWellDefined, ConsultFlowSteps DEF FlowMap, IsStep
    <2> QED  BY <1>1, <2>1, OneFinal
  <1>4. flow = "idea" => ~ (Entered("task_spawn") /\ Entered("close_rejected"))
    <2> SUFFICES ASSUME flow = "idea"
                 PROVE  ~ (Entered("task_spawn") /\ Entered("close_rejected"))
      OBVIOUS
    <2>1. /\ FlowMap[flow] = IdeaFlow /\ Final(IdeaFlow, 3) /\ Final(IdeaFlow, 4)
          /\ 3 \in DOMAIN IdeaFlow /\ 4 \in DOMAIN IdeaFlow
          /\ IdeaFlow[3].id = "task_spawn" /\ IdeaFlow[4].id = "close_rejected"
      BY IdeaWellDefined, IdeaFlowSteps DEF FlowMap, IsStep
    <2> QED  BY <1>1, <2>1, OneFinal
  <1> QED  BY <1>2, <1>3, <1>4 DEF OutcomesExclusive

\* A closing step that was entered has the execution behind it.
LEMMA ClosedExecuted ==
    ASSUME FlowInv, flow \in Reviewed, NEW id, FlowMap[flow][Closing[flow]].id = id, Entered(id)
    PROVE  Done("execution") \/ (waived /\ Waivers[flow] # {})
  <1> DEFINE d == FlowMap[flow]
             e == Execution[flow]
             k == Closing[flow]
  <1>1. WellDefined(d) /\ Started(d, wf) /\ wf \in WorkflowOf(d)
    BY FlowOf DEF FlowInv, Started
  <1>2. e \in DOMAIN d /\ k \in DOMAIN d /\ d[e].id = "execution"
    BY FlowGuarded DEF Guarded
  <1>3. wf.status[k] # "pending"
    BY <1>1, <1>2, EnteredAt
  <1>4. "execution" \in wf.done \/ (waived /\ Waivers[flow] # {})
    BY <1>2, <1>3 DEF FlowInv, ClosesAfter
  <1>5. HasStep(wf.def, "execution")
    <2> HIDE DEF d, e
    <2>1. HasStep(d, d[e].id)
      BY <1>1, <1>2, IndexOf
    <2> QED  BY <1>1, <1>2, <2>1, RecordFields
  <1> QED  BY <1>4, <1>5 DEF Done

LEMMA FlowsClose == FlowInv => ClosedOnlyAfterExecution
  <1> SUFFICES ASSUME FlowInv  PROVE ClosedOnlyAfterExecution
    OBVIOUS
  <1>1. flow = "task" /\ Entered("acceptance") => Done("execution") \/ waived
    <2> SUFFICES ASSUME flow = "task", Entered("acceptance")  PROVE Done("execution") \/ waived
      OBVIOUS
    <2>1. FlowMap[flow][Closing[flow]].id = "acceptance" /\ flow \in Reviewed
      BY TaskFlowSteps DEF FlowMap, Closing, IsStep, Reviewed
    <2> QED  BY <2>1, ClosedExecuted
  <1>2. flow = "bug" /\ Entered("complete") => Done("execution")
    <2> SUFFICES ASSUME flow = "bug", Entered("complete")  PROVE Done("execution")
      OBVIOUS
    <2>1. FlowMap[flow][Closing[flow]].id = "complete" /\ flow \in Reviewed /\ Waivers[flow] = {}
      BY BugFlowSteps DEF FlowMap, Closing, IsStep, Reviewed, Waivers
    <2> QED  BY <2>1, ClosedExecuted
  <1>3. flow = "command" /\ Entered("complete") => Done("execution")
    <2> SUFFICES ASSUME flow = "command", Entered("complete")  PROVE Done("execution")
      OBVIOUS
    <2>1. FlowMap[flow][Closing[flow]].id = "complete" /\ flow \in Reviewed /\ Waivers[flow] = {}
      BY CommandFlowSteps DEF FlowMap, Closing, IsStep, Reviewed, Waivers
    <2> QED  BY <2>1, ClosedExecuted
  <1> QED  BY <1>1, <1>2, <1>3 DEF ClosedOnlyAfterExecution

LEMMA FlowsGoOn == FlowInv => NeverStuck
  <1> SUFFICES ASSUME FlowInv, NEW label \in CurrentLabels \cup {None}
               PROVE  CanAdvance(wf, Completing(label, {}))
    BY DEF NeverStuck
  <1> DEFINE d == FlowMap[flow]
             p == Completing(label, {})
             c == StepIndex(d, wf.cur)
  <1>1. WellDefined(d) /\ wf.def = d /\ HasStep(d, wf.cur)
    BY FlowOf, RecordFields DEF FlowInv, Started
  <1>2. c \in DOMAIN d
    BY <1>1, CurrentIndex
  <1>3. TargetId(wf, p.step) = wf.cur /\ p.label = label
    BY DEF TargetId, Completing
  <1> HIDE DEF d, p
  <1>4. AdvanceTarget(wf, p) = ResolveNextStepId(d[c], label)
    BY <1>1, <1>3 DEF AdvanceTarget, CompletedIndex
  <1>5. AdvanceTarget(wf, p) = None \/ HasStep(d, AdvanceTarget(wf, p))
    BY <1>1, <1>2, <1>4, ResolvesToStep
  <1>6. CanAdvance(wf, p)
    BY <1>1, <1>3, <1>5 DEF CanAdvance
  <1> QED  BY <1>6 DEF p

-----------------------------------------------------------------------------
(* The theorems.                                                           *)

\* In every flow and whatever the labels, at most one of two alternative
\* outcomes is ever entered: both are final, and a final step is never left.
THEOREM OutcomesAreExclusive == Spec => []OutcomesExclusive
  BY FlowInvariant, FlowsExclusive, PTL

\* No work is accepted or completed that was not executed, unless its
\* execution was waived: neither the review nor the closing can be the first
\* pending step before the execution is done, and only the review branches
\* to the closing.
THEOREM ClosingFollowsExecution == Spec => []ClosedOnlyAfterExecution
  BY FlowInvariant, FlowsClose, PTL

\* The current step of a built-in flow can be completed, with any label.
THEOREM FlowsNeverStuck == Spec => []NeverStuck
  BY FlowInvariant, FlowsGoOn, PTL

=============================================================================
