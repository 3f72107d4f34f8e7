----------------------------- MODULE Learning -----------------------------
(***************************************************************************)
(* Local tools: revisions that agents and administrators propose, the      *)
(* protected evaluation of a revision on behalf of a live task, its        *)
(* approval for a bounded number of tasks and a bounded time, and the      *)
(* tasks that pin what was approved (state/registry.go,                    *)
(* state/evaluations.go, state/learning.go, state/learning_execution.go).  *)
(*                                                                         *)
(* One tool identity of one system; a version is a revision of it.  The    *)
(* system's current binding (its revision and the digest of its            *)
(* definitions) is passed as at, and as runs whether it is running or      *)
(* paused and its definitions are those of the daemon.  The two model      *)
(* tasks of a skill's evaluation are one piece of work, as is the one      *)
(* build of an executable; what they compute, the evidence, the capability *)
(* profiles and the capacity limits are left out.                          *)
(***************************************************************************)
EXTENDS Integers, FiniteSets

CONSTANTS
  Versions,     \* 1 .. 32 in submitDraft
  Tasks,        \* the ordinary tasks of the system, in any order
  Allowances,   \* task_uses of an approval
  Lifetimes,    \* expires_seconds, in ticks
  NoTask

ASSUME LearningAssumption ==
  /\ IsFiniteSet(Versions) /\ Versions = 1 .. Cardinality(Versions)
  /\ IsFiniteSet(Tasks) /\ NoTask \notin Tasks
  /\ Allowances \subseteq Nat \ {0} /\ Lifetimes \subseteq Nat \ {0}

VARIABLES
  drafts,      \* tool_drafts
  evaluations, \* learning_evaluations, with the work of their tasks
  approvals,   \* learning_approvals; granted 0 when there is none
  revoked,     \* tool_revocations
  grants,      \* the local pins of the system's current revision
  tasks,       \* ordinary tasks and the local pins they were created with
  uses,        \* learning_uses
  sent         \* the tasks whose calls were dispatched with a pin

learningVars == <<drafts, evaluations, approvals, revoked, grants, tasks, uses, sent>>

NoDraft == [kind |-> "skill", state |-> "none"]
NoEvaluation == [state |-> "none", origin |-> NoTask, notify |-> FALSE, at |-> <<>>,
                 work |-> "none", passed |-> FALSE]
NoApproval == [granted |-> 0, left |-> 0, expires |-> 0]
Absent == [state |-> "none", pins |-> {}]
Drafted == {v \in Versions : drafts[v].state # "none"}
LiveTasks == {t \in Tasks : tasks[t].state = "live"}

\* A first skill may have been evaluated, approved for n tasks and granted to
\* the current revision by an earlier process.
LearningInit(n) ==
  LET before == {v \in Versions : v = 1 /\ n > 0} IN
  /\ drafts = [v \in Versions |-> IF v \in before THEN [NoDraft EXCEPT !.state = "draft"] ELSE NoDraft]
  /\ evaluations = [v \in Versions |-> IF v \in before
       THEN [NoEvaluation EXCEPT !.state = "active", !.work = "over", !.passed = TRUE] ELSE NoEvaluation]
  /\ approvals = [v \in Versions |-> IF v \in before THEN [granted |-> n, left |-> n, expires |-> 1] ELSE NoApproval]
  /\ grants = before
  /\ revoked = {} /\ uses = {} /\ sent = {}
  /\ tasks = [t \in Tasks |-> Absent]

----------------------------------------------------------------------------
(* Drafts and authority.                                                   *)

\* submitDraft: the revision after the one the proposer names.
Propose(v, expected, kind) ==
  /\ v \in Versions \ Drafted /\ expected = v - 1
  /\ v > 1 => v - 1 \in Drafted
  /\ drafts' = [drafts EXCEPT ![v] = [kind |-> kind, state |-> "draft"]]
  /\ UNCHANGED <<evaluations, approvals, revoked, grants, tasks, uses, sent>>

\* authorizeLocalPin
Approved(v, time) ==
  /\ approvals[v].granted > 0 /\ evaluations[v].state = "active"
  /\ drafts[v].state = "draft" /\ time < approvals[v].expires

\* authorizePins
Authorized(pins, time) == pins \cap revoked = {} /\ \A v \in pins : Approved(v, time)

\* learningEligible: the work the evaluation was asked for still goes on, under
\* the binding it was asked under.
Eligible(v, at, runs, time) ==
  LET e == evaluations[v] IN
  /\ drafts[v].state = "draft"
  /\ e.at = at /\ runs
  /\ e.origin \in LiveTasks /\ Authorized(tasks[e.origin].pins, time)

\* ChangeDraftState, to "rejected" or "disabled": nothing tells the two apart.
\* A running evaluation goes on, and finds the draft changed.
ChangeDraftState(v) ==
  /\ v \in Drafted
  /\ drafts' = [drafts EXCEPT ![v].state = "disabled"]
  /\ evaluations' = [evaluations EXCEPT ![v].state =
       IF @ \in {"none", "queued", "evaluating"} THEN @ ELSE "disabled"]
  /\ UNCHANGED <<approvals, revoked, grants, tasks, uses, sent>>

\* RevokeTool
Revoke(v) ==
  /\ approvals[v].granted > 0
  /\ revoked' = revoked \cup {v}
  /\ UNCHANGED <<drafts, evaluations, approvals, grants, tasks, uses, sent>>

\* The local pins of a new system revision (ReviseSystem).
Grant(pins, time) ==
  /\ Authorized(pins, time)
  /\ grants' = pins
  /\ UNCHANGED <<drafts, evaluations, approvals, revoked, tasks, uses, sent>>

----------------------------------------------------------------------------
(* Evaluation.                                                             *)

\* queueLearning: a version is evaluated once, for a live task.
Evaluate(v, t, notify, at, time) ==
  /\ drafts[v].state = "draft" /\ evaluations[v].state = "none"
  /\ t \in LiveTasks /\ Authorized(tasks[t].pins, time)
  /\ evaluations' = [evaluations EXCEPT ![v] =
       [state |-> IF drafts[v].kind = "skill" THEN "evaluating" ELSE "queued",
        origin |-> t, notify |-> notify, at |-> at, work |-> "queued", passed |-> FALSE]]
  /\ UNCHANGED <<drafts, approvals, revoked, grants, tasks, uses, sent>>

\* claimLearning leases the build.
ClaimBuild(v, at, runs, time) ==
  /\ evaluations[v].state = "queued" /\ evaluations[v].work = "queued"
  /\ Eligible(v, at, runs, time)
  /\ evaluations' = [evaluations EXCEPT ![v].state = "evaluating", ![v].work = "running"]
  /\ UNCHANGED <<drafts, approvals, revoked, grants, tasks, uses, sent>>

\* The protected model tasks of a skill answer as expected.  Admission checks
\* learningEligible before each call.
SkillPasses(v, at, runs, time) ==
  /\ drafts[v].kind = "skill" /\ evaluations[v].work = "queued"
  /\ Eligible(v, at, runs, time)
  /\ evaluations' = [evaluations EXCEPT ![v].work = "over", ![v].passed = TRUE]
  /\ UNCHANGED <<drafts, approvals, revoked, grants, tasks, uses, sent>>

\* They do not, or the work is stopped, rejected or expires.
WorkEnds(v) ==
  /\ evaluations[v].work = "queued"
  /\ evaluations' = [evaluations EXCEPT ![v].work = "over"]
  /\ UNCHANGED <<drafts, approvals, revoked, grants, tasks, uses, sent>>

\* finishEvaluation of the evaluations V, of which those in passing pass; the
\* notice to an origin in refused is refused, and ends that task.
FinishEvaluations(V, passing, refused) ==
  /\ evaluations' = [v \in Versions |-> IF v \notin V THEN evaluations[v]
       ELSE [evaluations[v] EXCEPT !.work = "over",
                                   !.state = IF v \in passing THEN "pending_approval" ELSE "failed"]]
  /\ tasks' = [t \in Tasks |->
       IF t \in refused /\ t \in LiveTasks /\ \E v \in V : evaluations[v].notify /\ evaluations[v].origin = t
       THEN [tasks[t] EXCEPT !.state = "ended"] ELSE tasks[t]]
  /\ UNCHANGED <<drafts, approvals, revoked, grants, uses, sent>>

\* Mutant: what the build was allowed to be is not looked at again.
Completes_Blind(v, ok, at, runs, time) == ok

\* What CompleteEvaluation makes of a build that reports ok.
Completes(v, ok, at, runs, time) == ok /\ Eligible(v, at, runs, time)

\* CompleteEvaluation
CompleteBuild(v, ok, refused, at, runs, time) ==
  /\ evaluations[v].state = "evaluating" /\ evaluations[v].work = "running"
  /\ FinishEvaluations({v}, {u \in {v} : Completes(u, ok, at, runs, time)}, refused)

\* pumpLearning: evaluations whose tasks are over.  A build that is found here
\* was interrupted.
PumpLearning(refused, at, runs, time) ==
  LET over == {v \in Versions : evaluations[v].state \in {"queued", "evaluating"} /\ evaluations[v].work = "over"}
        Noticed(v) == \E u \in over : u < v /\ evaluations[u].notify /\ evaluations[u].origin = evaluations[v].origin
  IN /\ over # {}
     /\ LET passing == {v \in over : /\ drafts[v].kind = "skill" /\ evaluations[v].passed
                                     /\ Eligible(v, at, runs, time)
                                     /\ evaluations[v].origin \in refused => ~Noticed(v)}
        IN FinishEvaluations(over, passing, refused)

\* ApproveLearning
ApproveLearning(v, allowance, lifetime, at, time) ==
  /\ evaluations[v].state = "pending_approval"
  /\ evaluations[v].at = at /\ drafts[v].state = "draft"
  /\ approvals' = [approvals EXCEPT ![v] = [granted |-> allowance, left |-> allowance, expires |-> time + lifetime]]
  /\ evaluations' = [evaluations EXCEPT ![v].state = "active"]
  /\ UNCHANGED <<drafts, revoked, grants, tasks, uses, sent>>

----------------------------------------------------------------------------
(* The tasks that use what was approved.                                   *)

\* A task is created with pins its agent was granted.
BeginTask(t, pins, time) ==
  /\ tasks[t] = Absent /\ pins \subseteq grants /\ Authorized(pins, time)
  /\ tasks' = [tasks EXCEPT ![t] = [state |-> "live", pins |-> pins]]
  /\ UNCHANGED <<drafts, evaluations, approvals, revoked, grants, uses, sent>>

EndTasks(T) ==
  /\ tasks' = [t \in Tasks |-> IF t \in T /\ t \in LiveTasks THEN [tasks[t] EXCEPT !.state = "ended"] ELSE tasks[t]]
  /\ UNCHANGED <<drafts, evaluations, approvals, revoked, grants, uses, sent>>

\* Mutant: every dispatch takes a use.
Pending_Always(t) == tasks[t].pins

\* The pins whose approval the task has not used yet.
Pending(t) == {v \in tasks[t].pins : <<v, t>> \notin uses}

\* admitLearningUses at the dispatch of any call of the task: all its pins are
\* authorized and have a use for it, or the call is rejected and the task ends.
Dispatch(t, time) ==
  /\ t \in LiveTasks
  /\ IF Authorized(tasks[t].pins, time) /\ \A v \in Pending(t) : approvals[v].left > 0
     THEN /\ approvals' = [v \in Versions |-> IF v \in Pending(t) THEN [approvals[v] EXCEPT !.left = @ - 1] ELSE approvals[v]]
          /\ uses' = uses \cup (Pending(t) \X {t})
          /\ sent' = sent \cup (tasks[t].pins \X {t})
          /\ UNCHANGED tasks
     ELSE /\ tasks' = [tasks EXCEPT ![t].state = "ended"]
          /\ UNCHANGED <<approvals, uses, sent>>
  /\ UNCHANGED <<drafts, evaluations, revoked, grants>>

\* RecoverExecutions: a build that was running is not repeated.
Interrupted ==
  /\ evaluations' = [v \in Versions |-> IF evaluations[v].work = "running"
                                        THEN [evaluations[v] EXCEPT !.work = "over"] ELSE evaluations[v]]
  /\ UNCHANGED <<drafts, approvals, revoked, grants, tasks, uses, sent>>

----------------------------------------------------------------------------
(* Properties.                                                             *)

\* An approval admits a bounded number of distinct tasks, and retries,
\* continuations and restarts neither take another use nor give one back: every
\* task whose call went out with a local tool holds exactly one of its uses.
UsesKept ==
  /\ sent \subseteq uses
  /\ \A v \in Versions : Cardinality({t \in Tasks : <<v, t>> \in uses}) + approvals[v].left = approvals[v].granted

\* A rejected or disabled revision is neither approved nor ready to be, also when
\* the change comes between the parts of its evaluation, or while a build runs.
DisabledStaysInert ==
  \A v \in Versions : evaluations[v].state \in {"pending_approval", "active"} => drafts[v].state = "draft"
============================================================================
