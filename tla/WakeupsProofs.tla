--------------------------- MODULE WakeupsProofs ---------------------------
(***************************************************************************)
(* Proofs about module Wakeups: its four invariants and two properties of  *)
(* steps, for any number of agents, triggers and scenarios.                *)
(*                                                                         *)
(* A transaction rewrites a world of seven fields, so the invariant, Sound,*)
(* speaks of worlds, and most lemmas are about how a world follows another *)
(* within a transaction: tasks that ended stay so and, once the goal was   *)
(* stopped, nothing new appears (Grows); inputs and wakeups stay with      *)
(* their task and die only with one that ended badly (Keeps); when work    *)
(* completes they pass on to a successor (Passes), and then too none is    *)
(* lost (Spares).  Each operator of the model has its lemma, down to the   *)
(* loops, whose rounds are counted by Rounds of DataTheorems.              *)
(*                                                                         *)
(* What has to be added to the properties is why the steps are enabled     *)
(* only when they are harmless: a chain of ends climbs to older tasks, so  *)
(* it never meets the successor just made (Lineal); a completed task has   *)
(* no delivery left, so nothing is pending for it when it is buried        *)
(* (Housed, OneLease); a schedule's next occurrence lies after what it has *)
(* posted (InTime); and where a stop has reached (Obeyed), no task that is *)
(* still live may be woken, nor a continuous root canceled.                *)
(***************************************************************************)
EXTENDS Wakeups, DataTheorems

SystemStates == {"running", "paused", "stopping", "stopped", "inactive"}
ControlStates == {"active", "paused", "stopped"}
Bad == {"failed", "rejected", "canceled"}
TaskStates == LiveStates \cup {"completed"} \cup Bad
TaskRows ==
  [agent : Agents, parent : Nat, state : TaskStates, stopped : BOOLEAN, turn : Nat,
   deadline : Nat, awaits : Nat, used : {"none", "tool", "wait", "delegate"}]
EventRows ==
  [task : Nat, kind : {"ready", "continue", "result"} \cup Carried, from : Nat,
   trigger : Triggers \cup {NoTrigger}, due : Nat, at : Nat,
   state : {"pending", "leased", "acked", "dead"}, applied : BOOLEAN]
TriggerRows ==
  [state : {"none", "active", "completed", "expired", "canceled", "failed"},
   kind : {"at", "cron", "memory", "task"}, task : Nat, due : Nat, left : Int, budget : Nat]
Worlds ==
  [system : SystemStates, control : ControlStates, agents : [Agents -> ControlStates],
   task : Seq(TaskRows), mail : Seq(EventRows), trigger : [Triggers -> TriggerRows],
   refused : SUBSET (Triggers \cup Nat)]

\* Parents are older than their children; a task without one is the operator's.
Lineal(T) ==
  \A t \in DOMAIN T : T[t].parent < t /\ (T[t].parent = 0 => T[t].agent = Operator)

\* An agent has one live task.
OneLive(T) ==
  \A t, u \in DOMAIN T :
    T[t].state \in LiveStates /\ T[u].state \in LiveStates /\ T[t].agent = T[u].agent => t = u

\* What is pending or leased belongs to a task that did not complete.
Housed(M, T) ==
  \A j \in DOMAIN M : /\ M[j].task \in DOMAIN T
                      /\ M[j].state \in {"pending", "leased"} => T[M[j].task].state # "completed"

OneLease(M) ==
  \A i, j \in DOMAIN M :
    M[i].state = "leased" /\ M[j].state = "leased" /\ M[i].task = M[j].task => i = j

FiredIn(M, x) == {j \in DOMAIN M : M[j].trigger = x}

\* AllowanceKept, with what a trigger that was never set up has.
Spent(M, X) ==
  \A x \in Triggers : /\ Cardinality(FiredIn(M, x)) + X[x].left = X[x].budget
                      /\ X[x].state = "active" => X[x].left > 0
                      /\ X[x].state = "none" => X[x].budget = 0 /\ X[x].left = 0

\* Coalesced, and what a schedule has posted was posted before its next occurrence.
InTime(M, X) ==
  \A x \in Triggers : X[x].kind = "cron" =>
    /\ \A i, j \in FiredIn(M, x) : i < j => M[i].at < M[j].due
    /\ X[x].state = "active" => \A j \in FiredIn(M, x) : M[j].at < X[x].due

\* FailedNotRetried.
Standing(c, X, T) ==
  \A x \in Triggers : X[x].state = "active" =>
    /\ X[x].task \in DOMAIN T
    /\ T[X[x].task].state \in LiveStates \/ (c /\ T[X[x].task].state = "completed")

\* A stopped goal leaves its system neither running nor paused.  A continuous goal never
\* ends of itself: its system stops when and only when every live task was told to.
Stopping(s) == s \in {"stopping", "stopped"}
Obeyed(c, w) ==
  /\ w.control = "stopped" => w.system \notin {"running", "paused"}
  /\ c => /\ w.system # "inactive"
          /\ \A t \in DOMAIN w.task : w.task[t].state \in LiveStates =>
               /\ Stopping(w.system) \/ w.agents[w.task[t].agent] = "stopped" => w.task[t].stopped
               /\ w.task[t].stopped /\ w.task[t].parent = 0 => Stopping(w.system)

Sound(c, w) ==
  /\ w \in Worlds
  /\ Lineal(w.task) /\ OneLive(w.task)
  /\ Housed(w.mail, w.task) /\ OneLease(w.mail)
  /\ Spent(w.mail, w.trigger) /\ InTime(w.mail, w.trigger)
  /\ Standing(c, w.trigger, w.task)
  /\ Obeyed(c, w)

\* Nothing is left to wake a continuous goal that was stopped.
Silenced ==
  Continuous /\ control = "stopped" => \A x \in Triggers : trigger[x].state # "active"

IInv ==
  /\ scenario \in Scenarios /\ now \in Nat
  /\ Sound(Continuous, World)
  /\ Silenced

-----------------------------------------------------------------------------
(* How one world follows another within a transaction. *)

\* The tasks stay what they were, and those that ended stay ended.
Later(T, T1) ==
  /\ DOMAIN T \subseteq DOMAIN T1
  /\ \A t \in DOMAIN T : /\ T1[t].agent = T[t].agent /\ T1[t].parent = T[t].parent
                         /\ T1[t].stopped = T[t].stopped
                         /\ T[t].state \notin LiveStates => T1[t].state = T[t].state

\* No task is new.
Fewer(T, T1) == Later(T, T1) /\ DOMAIN T1 = DOMAIN T

\* What the properties about triggers know of an event stays.
SameEvents(M, M1) ==
  /\ DOMAIN M1 = DOMAIN M
  /\ \A j \in DOMAIN M : /\ M1[j].kind = M[j].kind /\ M1[j].trigger = M[j].trigger
                         /\ M1[j].due = M[j].due /\ M1[j].at = M[j].at

\* At most, triggers are no longer active.
Fades(X, X1) ==
  \A x \in Triggers :
    /\ X1[x].kind = X[x].kind /\ X1[x].task = X[x].task /\ X1[x].due = X[x].due
    /\ X1[x].left = X[x].left /\ X1[x].budget = X[x].budget
    /\ X1[x].state = X[x].state \/ X1[x].state \notin {"active", "none"}

Grows(w, v) ==
  /\ v.control = w.control /\ (Stopping(w.system) => Stopping(v.system))
  /\ Later(w.task, v.task)
  /\ DOMAIN w.mail \subseteq DOMAIN v.mail
  /\ \A j \in DOMAIN w.mail : v.mail[j].trigger = w.mail[j].trigger
  /\ w.control = "stopped" =>
       /\ DOMAIN v.task = DOMAIN w.task
       /\ \A j \in DOMAIN v.mail \ DOMAIN w.mail : v.mail[j].trigger = NoTrigger
       /\ \A x \in Triggers : v.trigger[x].state = "active" => w.trigger[x].state = "active"

\* Inputs and wakeups stay with their task, and die only with one that ended badly.
Keeps(w, v) ==
  \A j \in DOMAIN w.mail :
    /\ v.mail[j].kind = w.mail[j].kind
    /\ w.mail[j].kind \in Carried =>
         /\ v.mail[j].task = w.mail[j].task
         /\ v.mail[j].state # w.mail[j].state =>
              /\ w.mail[j].state = "pending"
              /\ v.mail[j].state = "dead" => v.task[w.mail[j].task].state \in Bad

-----------------------------------------------------------------------------
(* Types *)

\* The states of tasks are disjoint sets of words.
LEMMA StatesApart ==
  /\ LiveStates \cap Bad = {} /\ "completed" \notin LiveStates /\ "completed" \notin Bad
  /\ LiveStates \subseteq TaskStates /\ Bad \subseteq TaskStates /\ "completed" \in TaskStates
  /\ {"queued", "running", "waiting"} \subseteq LiveStates
  BY DEF LiveStates, Bad, TaskStates

\* A world's tables are sequences of their rows.
LEMMA WorldFields ==
  ASSUME NEW w \in Worlds
  PROVE  /\ w.system \in SystemStates /\ w.control \in ControlStates
         /\ w.agents \in [Agents -> ControlStates]
         /\ w.task \in Seq(TaskRows) /\ Len(w.task) \in Nat /\ DOMAIN w.task = 1..Len(w.task)
         /\ \A t \in DOMAIN w.task : w.task[t] \in TaskRows
         /\ w.mail \in Seq(EventRows) /\ Len(w.mail) \in Nat /\ DOMAIN w.mail = 1..Len(w.mail)
         /\ \A j \in DOMAIN w.mail : w.mail[j] \in EventRows
         /\ w.trigger \in [Triggers -> TriggerRows]
         /\ w.refused \in SUBSET (Triggers \cup Nat)
<1>1. w.task \in Seq(TaskRows) /\ w.mail \in Seq(EventRows)
  BY DEF Worlds
<1>2. /\ Len(w.task) \in Nat /\ DOMAIN w.task = 1..Len(w.task) /\ w.task \in [1..Len(w.task) -> TaskRows]
      /\ Len(w.mail) \in Nat /\ DOMAIN w.mail = 1..Len(w.mail) /\ w.mail \in [1..Len(w.mail) -> EventRows]
  BY <1>1, LenProperties
<1> QED
  BY <1>1, <1>2 DEF Worlds

\* Writing one field of a world.
LEMMA FieldWritten ==
  ASSUME NEW w \in Worlds
  PROVE  /\ \A T \in Seq(TaskRows) : [w EXCEPT !.task = T] \in Worlds
         /\ \A M \in Seq(EventRows) : [w EXCEPT !.mail = M] \in Worlds
         /\ \A X \in [Triggers -> TriggerRows] : [w EXCEPT !.trigger = X] \in Worlds
         /\ \A s \in SystemStates : [w EXCEPT !.system = s] \in Worlds
         /\ \A R \in SUBSET (Triggers \cup Nat) : [w EXCEPT !.refused = R] \in Worlds
  BY DEF Worlds

\* The fields a write leaves alone.
LEMMA FieldKept ==
  ASSUME NEW w \in Worlds
  PROVE  /\ \A T : LET v == [w EXCEPT !.task = T] IN
              /\ v.task = T /\ v.mail = w.mail /\ v.trigger = w.trigger /\ v.system = w.system
              /\ v.control = w.control /\ v.agents = w.agents /\ v.refused = w.refused
         /\ \A M : LET v == [w EXCEPT !.mail = M] IN
              /\ v.mail = M /\ v.task = w.task /\ v.trigger = w.trigger /\ v.system = w.system
              /\ v.control = w.control /\ v.agents = w.agents /\ v.refused = w.refused
         /\ \A X : LET v == [w EXCEPT !.trigger = X] IN
              /\ v.trigger = X /\ v.task = w.task /\ v.mail = w.mail /\ v.system = w.system
              /\ v.control = w.control /\ v.agents = w.agents /\ v.refused = w.refused
         /\ \A s : LET v == [w EXCEPT !.system = s] IN
              /\ v.system = s /\ v.task = w.task /\ v.mail = w.mail /\ v.trigger = w.trigger
              /\ v.control = w.control /\ v.agents = w.agents /\ v.refused = w.refused
         /\ \A R : LET v == [w EXCEPT !.refused = R] IN
              /\ v.refused = R /\ v.task = w.task /\ v.mail = w.mail /\ v.trigger = w.trigger
              /\ v.control = w.control /\ v.agents = w.agents /\ v.system = w.system
  BY DEF Worlds

-----------------------------------------------------------------------------
(* What follows from how a world follows another. *)

\* Tables, worlds and the ways one follows another: each step of a transaction
\* may do nothing, and two steps in a row are one.
LEMMA LaterReflexive == \A T : Fewer(T, T)
  BY DEF Later, Fewer

\* The history of the tasks is a history.
LEMMA LaterTransitive ==
  ASSUME NEW T, NEW U, NEW V, Later(T, U), Later(U, V)
  PROVE  Later(T, V)
  BY DEF Later

\* A step that does nothing.
LEMMA GrowsReflexive == \A w : Grows(w, w) /\ Keeps(w, w)
  BY LaterReflexive DEF Grows, Keeps, Fewer

\* Two steps in a row.
LEMMA GrowsTransitive ==
  ASSUME NEW w, NEW v, NEW u, Grows(w, v), Grows(v, u)
  PROVE  Grows(w, u)
<1>1. Later(w.task, u.task)
  BY LaterTransitive DEF Grows
<1> QED
  BY <1>1 DEF Grows

\* Two steps in a row lose no input, since its task is not replaced by another.
LEMMA KeepsTransitive ==
  ASSUME NEW w \in Worlds, NEW v, NEW u, Grows(w, v), Grows(v, u), Keeps(w, v), Keeps(v, u),
         Housed(w.mail, w.task)
  PROVE  Keeps(w, u)
<1> SUFFICES ASSUME NEW j \in DOMAIN w.mail
             PROVE  /\ u.mail[j].kind = w.mail[j].kind
                    /\ w.mail[j].kind \in Carried =>
                         /\ u.mail[j].task = w.mail[j].task
                         /\ u.mail[j].state # w.mail[j].state =>
                              /\ w.mail[j].state = "pending"
                              /\ u.mail[j].state = "dead" => u.task[w.mail[j].task].state \in Bad
  BY DEF Keeps
<1>1. j \in DOMAIN v.mail /\ w.mail[j].task \in DOMAIN w.task /\ w.mail[j].task \in DOMAIN v.task
  BY DEF Grows, Later, Housed
<1>2. u.mail[j].kind = w.mail[j].kind /\ v.mail[j].kind = w.mail[j].kind
  BY <1>1 DEF Keeps
<1>3. \A t \in DOMAIN v.task : v.task[t].state \in Bad => u.task[t].state \in Bad
  BY StatesApart DEF Grows, Later
<1> QED
  BY <1>1, <1>2, <1>3 DEF Keeps

\* Fewer live tasks are still one for each agent, and younger than their parents.
LEMMA FewerTasks ==
  ASSUME NEW T, NEW T1, Fewer(T, T1), Lineal(T), OneLive(T)
  PROVE  Lineal(T1) /\ OneLive(T1)
  BY DEF Fewer, Later, Lineal, OneLive

\* Allowances and occurrences depend on nothing that such a step changes.
LEMMA SameAllowances ==
  ASSUME NEW M, NEW M1, NEW X, NEW X1, SameEvents(M, M1), Fades(X, X1), Spent(M, X), InTime(M, X)
  PROVE  Spent(M1, X1) /\ InTime(M1, X1)
<1>1. \A x \in Triggers : FiredIn(M1, x) = FiredIn(M, x)
  BY DEF SameEvents, FiredIn
<1>2. \A x \in Triggers : \A j \in FiredIn(M, x) : j \in DOMAIN M
  BY DEF FiredIn
<1>3. Spent(M1, X1)
  BY <1>1 DEF Fades, Spent
<1>4. InTime(M1, X1)
  BY <1>1, <1>2 DEF Fades, SameEvents, InTime
<1> QED
  BY <1>3, <1>4

\* A step without a new task, a new event or a new trigger: what is left to show.
LEMMA CalmStep ==
  ASSUME NEW c, NEW w, NEW v \in Worlds, Sound(c, w), Fewer(w.task, v.task),
         SameEvents(w.mail, v.mail), Fades(w.trigger, v.trigger),
         Housed(v.mail, v.task), OneLease(v.mail), Standing(c, v.trigger, v.task), Obeyed(c, v)
  PROVE  Sound(c, v)
  BY FewerTasks, SameAllowances DEF Sound

-----------------------------------------------------------------------------
(* The small operators *)

\* The state of one task is written, and perhaps more of the row that only runs it.
LEMMA TaskRowTypes ==
  ASSUME NEW r \in TaskRows
  PROVE  /\ \A s \in TaskStates : [r EXCEPT !.state = s] \in TaskRows
         /\ [r EXCEPT !.stopped = TRUE] \in TaskRows
         /\ \A u \in {"none", "tool", "wait", "delegate"} : [r EXCEPT !.used = u] \in TaskRows
         /\ r.agent \in Agents /\ r.parent \in Nat /\ r.state \in TaskStates /\ r.stopped \in BOOLEAN
         /\ r.turn \in Nat /\ r.deadline \in Nat /\ r.awaits \in Nat
  BY DEF TaskRows

\* What the operators write into the row of an event.
LEMMA EventRowTypes ==
  ASSUME NEW e \in EventRows
  PROVE  /\ \A s \in {"pending", "leased", "acked", "dead"} : [e EXCEPT !.state = s] \in EventRows
         /\ \A t \in Nat : [e EXCEPT !.task = t] \in EventRows
         /\ [e EXCEPT !.state = "acked", !.applied = TRUE] \in EventRows
         /\ [e EXCEPT !.state = "leased", !.applied = TRUE] \in EventRows
         /\ e.task \in Nat /\ e.due \in Nat /\ e.at \in Nat /\ e.trigger \in Triggers \cup {NoTrigger}
  BY DEF EventRows

\* A new state leaves the rest of an event alone.
LEMMA EventStateWritten ==
  ASSUME NEW e \in EventRows, NEW s \in {"pending", "leased", "acked", "dead"}
  PROVE  LET r == [e EXCEPT !.state = s] IN
         /\ r \in EventRows /\ r.state = s /\ r.task = e.task /\ r.kind = e.kind
         /\ r.trigger = e.trigger /\ r.due = e.due /\ r.at = e.at
  BY DEF EventRows

\* A new state leaves the rest of a trigger alone.
LEMMA TriggerRowTypes ==
  ASSUME NEW r \in TriggerRows
  PROVE  /\ \A s \in {"completed", "expired", "canceled", "failed"} :
              /\ [r EXCEPT !.state = s] \in TriggerRows
              /\ [r EXCEPT !.state = s].state = s /\ [r EXCEPT !.state = s].kind = r.kind
              /\ [r EXCEPT !.state = s].task = r.task /\ [r EXCEPT !.state = s].due = r.due
              /\ [r EXCEPT !.state = s].left = r.left /\ [r EXCEPT !.state = s].budget = r.budget
         /\ r.due \in Nat /\ r.left \in Int /\ r.budget \in Nat /\ r.task \in Nat
  BY DEF TriggerRows

\* Settling some triggers settles those of them that were active.
LEMMA ClosesWorld ==
  ASSUME NEW w \in Worlds, NEW X, NEW s \in {"expired", "canceled"}
  PROVE  LET v == Closes(w, X, s) IN
         /\ v \in Worlds /\ v.task = w.task /\ v.mail = w.mail /\ v.system = w.system
         /\ v.control = w.control /\ v.agents = w.agents /\ v.refused = w.refused
         /\ Fades(w.trigger, v.trigger)
         /\ \A x \in Triggers :
              v.trigger[x].state = "active" <=> x \notin X /\ w.trigger[x].state = "active"
         /\ \A x \in Triggers : x \notin X => v.trigger[x] = w.trigger[x]
<1> DEFINE new == [x \in Triggers |-> IF x \in X /\ Active(w, x) THEN [w.trigger[x] EXCEPT !.state = s]
                                      ELSE w.trigger[x]]
<1>1. w.trigger \in [Triggers -> TriggerRows]
  BY WorldFields
<1>2. \A x \in Triggers : /\ [w.trigger[x] EXCEPT !.state = s] \in TriggerRows
                          /\ LET r == [w.trigger[x] EXCEPT !.state = s] IN
                             /\ r.state = s /\ r.kind = w.trigger[x].kind /\ r.task = w.trigger[x].task
                             /\ r.due = w.trigger[x].due /\ r.left = w.trigger[x].left
                             /\ r.budget = w.trigger[x].budget
  <2> TAKE x \in Triggers
  <2>1. w.trigger[x] \in TriggerRows /\ s \in {"completed", "expired", "canceled", "failed"}
    BY <1>1
  <2> QED
    BY <2>1, TriggerRowTypes
<1>3. new \in [Triggers -> TriggerRows]
  BY <1>1, <1>2
<1>4. Closes(w, X, s) = [w EXCEPT !.trigger = new]
  BY DEF Closes
<1>5. Fades(w.trigger, new)
  BY <1>1, <1>2 DEF Fades
<1>6. \A x \in Triggers : /\ new[x].state = "active" <=> x \notin X /\ w.trigger[x].state = "active"
                          /\ x \notin X => new[x] = w.trigger[x]
  BY <1>1, <1>2 DEF Active
<1> HIDE DEF new
<1> QED
  BY <1>3, <1>4, <1>5, <1>6, FieldWritten, FieldKept

\* No trigger changes.
LEMMA FadesReflexive == \A X : Fades(X, X)
  BY DEF Fades

\* No event changes.
LEMMA EventsReflexive == \A M : SameEvents(M, M)
  BY DEF SameEvents

\* Without its trigger a task keeps nothing awake: closing triggers is sound.
LEMMA ClosesSound ==
  ASSUME NEW c, NEW w, Sound(c, w), NEW X, NEW s \in {"expired", "canceled"}
  PROVE  LET v == Closes(w, X, s) IN Sound(c, v) /\ Grows(w, v) /\ Keeps(w, v)
<1> DEFINE v == Closes(w, X, s)
<1>1. w \in Worlds
  BY DEF Sound
<1>2. /\ v \in Worlds /\ v.task = w.task /\ v.mail = w.mail /\ v.system = w.system
      /\ v.control = w.control /\ v.agents = w.agents /\ Fades(w.trigger, v.trigger)
      /\ \A x \in Triggers : v.trigger[x].state = "active" => w.trigger[x].state = "active"
  BY <1>1, ClosesWorld
<1> HIDE DEF v
<1>3. Fewer(w.task, v.task) /\ SameEvents(w.mail, v.mail)
  BY <1>2, LaterReflexive, EventsReflexive
<1>4. Housed(v.mail, v.task) /\ OneLease(v.mail) /\ Obeyed(c, v)
  BY <1>2 DEF Sound, Obeyed
<1>5. Standing(c, v.trigger, v.task)
  BY <1>2 DEF Sound, Standing, Fades
<1>6. Sound(c, v)
  BY <1>2, <1>3, <1>4, <1>5, CalmStep
<1>7. Grows(w, v) /\ Keeps(w, v)
  BY <1>2, <1>3 DEF Grows, Keeps, Fewer
<1> QED
  BY <1>6, <1>7 DEF v

\* A delivery is marked; what was not leased does not become so.
LEMMA MarkWorld ==
  ASSUME NEW w \in Worlds, NEW j \in DOMAIN w.mail, NEW s \in {"pending", "leased", "acked", "dead"}
  PROVE  LET v == Mark(w, j, s) IN
         /\ v \in Worlds /\ v.task = w.task /\ v.trigger = w.trigger /\ v.system = w.system
         /\ v.control = w.control /\ v.agents = w.agents /\ v.refused = w.refused
         /\ SameEvents(w.mail, v.mail)
         /\ \A k \in DOMAIN w.mail : /\ v.mail[k].task = w.mail[k].task
                                     /\ v.mail[k].state = IF k = j THEN s ELSE w.mail[k].state
<1> DEFINE e == [w.mail[j] EXCEPT !.state = s]
           M == [w.mail EXCEPT ![j] = e]
<1>1. w.mail \in Seq(EventRows) /\ w.mail[j] \in EventRows
  BY WorldFields
<1>2. e \in EventRows
  BY <1>1, EventRowTypes
<1>3. /\ e.state = s /\ e.task = w.mail[j].task /\ e.kind = w.mail[j].kind /\ e.due = w.mail[j].due
      /\ e.trigger = w.mail[j].trigger /\ e.at = w.mail[j].at
  BY <1>1 DEF EventRows
<1>4. Mark(w, j, s) = [w EXCEPT !.mail = M]
  BY DEF Mark
<1> HIDE DEF e
<1>5. /\ M \in Seq(EventRows) /\ DOMAIN M = DOMAIN w.mail
      /\ \A k \in DOMAIN w.mail : M[k] = IF k = j THEN e ELSE w.mail[k]
  BY <1>1, <1>2, RowChanged
<1> HIDE DEF M
<1> QED
  BY <1>3, <1>4, <1>5, FieldWritten, FieldKept DEF SameEvents

\* A delivery that is done with is marked: Mark, for finishDelivery and claim.
LEMMA MarkSound ==
  ASSUME NEW c, NEW w, Sound(c, w), NEW j \in DOMAIN w.mail, NEW s \in {"acked", "dead"}
  PROVE  Sound(c, Mark(w, j, s)) /\ Grows(w, Mark(w, j, s))
<1> DEFINE v == Mark(w, j, s)
<1>1. w \in Worlds
  BY DEF Sound
<1>2. /\ v \in Worlds /\ v.task = w.task /\ v.trigger = w.trigger /\ v.system = w.system
      /\ v.control = w.control /\ v.agents = w.agents /\ SameEvents(w.mail, v.mail)
      /\ \A k \in DOMAIN w.mail : /\ v.mail[k].task = w.mail[k].task
                                  /\ v.mail[k].state = IF k = j THEN s ELSE w.mail[k].state
  BY <1>1, MarkWorld
<1> HIDE DEF v
<1>3. Fewer(w.task, v.task) /\ Fades(w.trigger, v.trigger)
  BY <1>2, LaterReflexive, FadesReflexive
<1>4. Housed(v.mail, v.task) /\ OneLease(v.mail) /\ Obeyed(c, v) /\ Standing(c, v.trigger, v.task)
  BY <1>2 DEF Sound, Obeyed, Housed, OneLease, SameEvents
<1>5. Sound(c, v)
  BY <1>2, <1>3, <1>4, CalmStep
<1>6. Grows(w, v)
  BY <1>2, <1>3 DEF Grows, Fewer, SameEvents
<1> QED
  BY <1>5, <1>6 DEF v

\* The end of a system that was told to stop.
LEMMA DrainedSystem ==
  ASSUME NEW w
  PROVE  Drained(w) \in SystemStates /\ Stopping(Drained(w)) /\ Drained(w) \notin {"running", "paused", "inactive"}
  BY DEF Drained, SystemStates, Stopping

\* The end of a transaction, with the system drained or not.
LEMMA SweptSound ==
  ASSUME NEW c, NEW w, Sound(c, w)
  PROVE  Sound(c, Swept(w)) /\ Grows(w, Swept(w)) /\ Keeps(w, Swept(w))
<1>1. CASE w.system # "stopping"
  BY <1>1, GrowsReflexive DEF Swept
<1>2. CASE w.system = "stopping"
  <2> DEFINE v == Swept(w)
  <2>1. w \in Worlds /\ v = [w EXCEPT !.system = Drained(w)]
    BY <1>2 DEF Swept, Sound
  <2>2. /\ v \in Worlds /\ v.task = w.task /\ v.trigger = w.trigger /\ v.mail = w.mail
        /\ v.control = w.control /\ v.agents = w.agents /\ v.system = Drained(w)
    BY <2>1, FieldWritten, FieldKept, DrainedSystem
  <2> HIDE DEF v
  <2>3. Obeyed(c, v)
    BY <1>2, <2>2, DrainedSystem DEF Sound, Obeyed, Stopping
  <2>4. Sound(c, v)
    BY <2>2, <2>3, CalmStep, LaterReflexive, FadesReflexive, EventsReflexive DEF Sound
  <2>5. Grows(w, v) /\ Keeps(w, v)
    BY <2>2, LaterReflexive, DrainedSystem DEF Grows, Keeps, Fewer
  <2> QED
    BY <2>4, <2>5 DEF v
<1> QED
  BY <1>1, <1>2

\* A task that is live goes on being live: the row that runs it may change otherwise.
LEMMA LiveRowSound ==
  ASSUME NEW c, NEW w, Sound(c, w), NEW t \in DOMAIN w.task, Live(w, t), NEW r \in TaskRows,
         r.agent = w.task[t].agent, r.parent = w.task[t].parent, r.stopped = w.task[t].stopped,
         r.state \in LiveStates
  PROVE  LET v == [w EXCEPT !.task = [w.task EXCEPT ![t] = r]] IN
         /\ Sound(c, v) /\ Grows(w, v) /\ Keeps(w, v)
         /\ v.mail = w.mail /\ v.trigger = w.trigger /\ v.system = w.system
         /\ v.control = w.control /\ v.agents = w.agents /\ v.refused = w.refused
         /\ DOMAIN v.task = DOMAIN w.task
         /\ \A u \in DOMAIN w.task : v.task[u] = IF u = t THEN r ELSE w.task[u]
<1> DEFINE T == [w.task EXCEPT ![t] = r]
           v == [w EXCEPT !.task = T]
<1>1. w \in Worlds /\ w.task \in Seq(TaskRows)
  BY WorldFields DEF Sound
<1>2. /\ T \in Seq(TaskRows) /\ DOMAIN T = DOMAIN w.task
      /\ \A u \in DOMAIN w.task : T[u] = IF u = t THEN r ELSE w.task[u]
  BY <1>1, RowChanged
<1> HIDE DEF T
<1>3. /\ v \in Worlds /\ v.task = T /\ v.mail = w.mail /\ v.trigger = w.trigger /\ v.system = w.system
      /\ v.control = w.control /\ v.agents = w.agents /\ v.refused = w.refused
  BY <1>1, <1>2, FieldWritten, FieldKept
<1> HIDE DEF v
<1>4. Fewer(w.task, T)
  BY <1>2 DEF Fewer, Later, Live
<1>5. Housed(w.mail, T)
  BY <1>2, StatesApart DEF Sound, Housed
<1>6. Standing(c, w.trigger, T)
  BY <1>2 DEF Sound, Standing
<1>7. Obeyed(c, v)
  BY <1>2, <1>3 DEF Sound, Obeyed, Live
<1>8. Sound(c, v)
  BY <1>3, <1>4, <1>5, <1>6, <1>7, CalmStep, EventsReflexive, FadesReflexive DEF Sound
<1>9. Grows(w, v) /\ Keeps(w, v)
  BY <1>3, <1>4 DEF Grows, Keeps, Fewer
<1> QED
  BY <1>2, <1>3, <1>8, <1>9 DEF v, T

\* An event is posted.
LEMMA PostWorld ==
  ASSUME NEW w \in Worlds, NEW e \in EventRows
  PROVE  LET v == Post(w, e) IN
         /\ v \in Worlds /\ v.task = w.task /\ v.trigger = w.trigger /\ v.system = w.system
         /\ v.control = w.control /\ v.agents = w.agents /\ v.refused = w.refused
         /\ Len(w.mail) \in Nat /\ Len(w.mail) + 1 \notin DOMAIN w.mail
         /\ DOMAIN w.mail = 1..Len(w.mail)
         /\ DOMAIN v.mail = DOMAIN w.mail \cup {Len(w.mail) + 1}
         /\ v.mail[Len(w.mail) + 1] = e
         /\ \A j \in DOMAIN w.mail : v.mail[j] = w.mail[j]
<1> DEFINE M == Append(w.mail, e)
<1>1. w.mail \in Seq(EventRows)
  BY WorldFields
<1>2. /\ M \in Seq(EventRows) /\ Len(w.mail) \in Nat /\ Len(w.mail) + 1 \notin DOMAIN w.mail
      /\ DOMAIN w.mail = 1..Len(w.mail)
      /\ DOMAIN M = DOMAIN w.mail \cup {Len(w.mail) + 1} /\ M[Len(w.mail) + 1] = e
      /\ \A j \in DOMAIN w.mail : M[j] = w.mail[j]
  BY <1>1, RowAdded
<1>3. Post(w, e) = [w EXCEPT !.mail = M]
  BY DEF Post
<1> HIDE DEF M
<1> QED
  BY <1>2, <1>3, FieldWritten, FieldKept

\* What is posted by no trigger to a task that did not complete.
LEMMA PostSound ==
  ASSUME NEW c, NEW w, Sound(c, w), NEW e \in EventRows, e.task \in DOMAIN w.task,
         w.task[e.task].state # "completed", e.state = "pending", e.trigger = NoTrigger
  PROVE  LET v == Post(w, e) IN
         /\ Sound(c, v) /\ Grows(w, v) /\ Keeps(w, v)
         /\ v.task = w.task /\ v.trigger = w.trigger /\ v.system = w.system
         /\ v.control = w.control /\ v.agents = w.agents /\ v.refused = w.refused
         /\ \A j \in DOMAIN w.mail : v.mail[j] = w.mail[j]
<1> DEFINE v == Post(w, e)
           n == Len(w.mail) + 1
<1>1. w \in Worlds
  BY DEF Sound
<1>2. /\ v \in Worlds /\ v.task = w.task /\ v.trigger = w.trigger /\ v.system = w.system
      /\ v.control = w.control /\ v.agents = w.agents /\ v.refused = w.refused
      /\ n \notin DOMAIN w.mail /\ DOMAIN v.mail = DOMAIN w.mail \cup {n} /\ v.mail[n] = e
      /\ \A j \in DOMAIN w.mail : v.mail[j] = w.mail[j]
  BY <1>1, PostWorld
<1> HIDE DEF v, n
<1>3. \A x \in Triggers : FiredIn(v.mail, x) = FiredIn(w.mail, x)
  BY <1>2, WakeupsAssumption DEF FiredIn
<1>4. Spent(v.mail, v.trigger)
  BY <1>2, <1>3 DEF Sound, Spent
<1>5. InTime(v.mail, v.trigger)
  <2>1. \A x \in Triggers : \A j \in FiredIn(w.mail, x) : v.mail[j] = w.mail[j]
    BY <1>2 DEF FiredIn
  <2> QED
    BY <1>2, <1>3, <2>1 DEF Sound, InTime
<1>6. Housed(v.mail, v.task) /\ OneLease(v.mail)
  BY <1>2 DEF Sound, Housed, OneLease
<1>7. Sound(c, v)
  BY <1>2, <1>4, <1>5, <1>6 DEF Sound, Obeyed
<1>8. Grows(w, v) /\ Keeps(w, v)
  BY <1>2, LaterReflexive DEF Grows, Keeps, Fewer
<1> QED
  BY <1>2, <1>7, <1>8 DEF v

\* What the constructors of events and tasks build.
LEMMA EventMade ==
  ASSUME now \in Nat, NEW t \in Nat, NEW kind \in {"ready", "continue", "result"} \cup Carried,
         NEW from \in Nat, NEW x \in Triggers \cup {NoTrigger}, NEW due \in Nat
  PROVE  LET e == Event(t, kind, from, x, due) IN
         /\ e \in EventRows /\ e.task = t /\ e.kind = kind /\ e.trigger = x /\ e.due = due
         /\ e.at = now /\ e.state = "pending"
  BY DEF Event, EventRows

\* A new task is queued and was not told to stop.
LEMMA TaskMade ==
  ASSUME NEW a \in Agents, NEW p \in Nat, NEW turn \in Nat, NEW d \in Nat
  PROVE  LET r == Task(a, p, turn, d) IN
         /\ r \in TaskRows /\ r.agent = a /\ r.parent = p /\ r.state = "queued" /\ ~r.stopped
  BY DEF Task, TaskRows, TaskStates, LiveStates

\* A task is added to the table for an agent that has no live one.
LEMMA TaskAdded ==
  ASSUME NEW T \in Seq(TaskRows), NEW r \in TaskRows, Lineal(T), OneLive(T),
         r.parent \in DOMAIN T \cup {0}, r.parent = 0 => r.agent = Operator,
         \A u \in DOMAIN T : T[u].state \in LiveStates => T[u].agent # r.agent
  PROVE  LET T1 == Append(T, r) IN
         /\ Lineal(T1) /\ OneLive(T1) /\ Later(T, T1)
<1> DEFINE T1 == Append(T, r)
           n == Len(T) + 1
<1>1. /\ Len(T) \in Nat /\ DOMAIN T = 1..Len(T) /\ DOMAIN T1 = DOMAIN T \cup {n} /\ n \notin DOMAIN T
      /\ T1[n] = r /\ \A u \in DOMAIN T : T1[u] = T[u]
  BY RowAdded
<1>2. r.parent < n
  BY <1>1
<1> HIDE DEF T1, n
<1>3. Lineal(T1)
  BY <1>1, <1>2 DEF Lineal
<1>4. OneLive(T1)
  BY <1>1 DEF OneLive
<1>5. Later(T, T1)
  BY <1>1 DEF Later
<1> QED
  BY <1>3, <1>4, <1>5 DEF T1

\* A task is added for an agent that has no live one.
LEMMA TaskAddedSound ==
  ASSUME NEW c, NEW w, Sound(c, w), NEW r \in TaskRows, w.control # "stopped",
         r.parent \in DOMAIN w.task \cup {0}, r.parent = 0 => r.agent = Operator,
         r.state = "queued", ~r.stopped,
         LiveOf(w, r.agent) = {}, ~Stopping(w.system), w.agents[r.agent] # "stopped"
  PROVE  LET v == [w EXCEPT !.task = Append(w.task, r)]
             n == Len(w.task) + 1 IN
         /\ Sound(c, v) /\ Grows(w, v) /\ Keeps(w, v)
         /\ v.mail = w.mail /\ v.trigger = w.trigger /\ v.system = w.system
         /\ v.control = w.control /\ v.agents = w.agents /\ v.refused = w.refused
         /\ n \notin DOMAIN w.task /\ DOMAIN v.task = DOMAIN w.task \cup {n} /\ v.task[n] = r
         /\ \A u \in DOMAIN w.task : v.task[u] = w.task[u]
<1> DEFINE T == Append(w.task, r)
           v == [w EXCEPT !.task = T]
           n == Len(w.task) + 1
<1>1. w \in Worlds /\ w.task \in Seq(TaskRows)
  BY WorldFields DEF Sound
<1>2. /\ T \in Seq(TaskRows) /\ Len(w.task) \in Nat /\ DOMAIN w.task = 1..Len(w.task)
      /\ n \notin DOMAIN w.task
      /\ DOMAIN T = DOMAIN w.task \cup {n} /\ T[n] = r /\ \A u \in DOMAIN w.task : T[u] = w.task[u]
  BY <1>1, RowAdded
<1> HIDE DEF T
<1>3. /\ v \in Worlds /\ v.task = T /\ v.mail = w.mail /\ v.trigger = w.trigger /\ v.system = w.system
      /\ v.control = w.control /\ v.agents = w.agents /\ v.refused = w.refused
  BY <1>1, <1>2, FieldWritten, FieldKept
<1> HIDE DEF v
<1>4. Lineal(T) /\ OneLive(T) /\ Later(w.task, T)
  <2>1. \A u \in DOMAIN w.task : w.task[u].state \in LiveStates => w.task[u].agent # r.agent
    BY DEF LiveOf, Live
  <2> QED
    BY <1>1, <2>1, TaskAdded DEF Sound, T
<1> HIDE DEF n
<1>7. Housed(w.mail, T)
  BY <1>2 DEF Sound, Housed
<1>8. Standing(c, w.trigger, T)
  BY <1>2 DEF Sound, Standing
<1>9. Obeyed(c, v)
  BY <1>2, <1>3 DEF Sound, Obeyed
<1>10. Sound(c, v)
  BY <1>3, <1>4, <1>7, <1>8, <1>9 DEF Sound
<1>11. Grows(w, v) /\ Keeps(w, v)
  BY <1>3, <1>4 DEF Grows, Keeps
<1> QED
  BY <1>2, <1>3, <1>10, <1>11 DEF v, T, n

-----------------------------------------------------------------------------
(* wakeContinuousTask *)

\* The heir of a task that may be woken is a live task of its agent.
LEMMA WakeSound ==
  ASSUME NEW w, Sound(Continuous, w), NEW t \in DOMAIN w.task, CanWake(w, t)
  PROVE  LET v == Woken(w, t)
             h == Heir(w, t) IN
         /\ Sound(Continuous, v) /\ Grows(w, v) /\ Keeps(w, v)
         /\ v.mail = w.mail /\ v.trigger = w.trigger /\ v.system = w.system
         /\ v.control = w.control /\ v.agents = w.agents /\ v.refused = w.refused
         /\ DOMAIN w.task \subseteq DOMAIN v.task /\ \A u \in DOMAIN w.task : v.task[u] = w.task[u]
         /\ h \in DOMAIN v.task /\ v.task[h].state \in LiveStates
<1> DEFINE v == Woken(w, t)
           h == Heir(w, t)
           a == w.task[t].agent
<1>1. w \in Worlds /\ w.task[t] \in TaskRows
  BY WorldFields DEF Sound
<1>2. CASE Live(w, t)
  <2>1. h = t /\ v = w
    BY <1>2 DEF Heir, Woken
  <2> QED
    BY <1>2, <2>1, GrowsReflexive DEF Live
<1>3. CASE ~Live(w, t) /\ LiveOf(w, a) # {}
  <2>1. h = CHOOSE u \in LiveOf(w, a) : TRUE
    BY <1>3 DEF Heir
  <2>2. h \in LiveOf(w, a)
    BY <1>3, <2>1
  <2>3. h \in DOMAIN w.task /\ w.task[h].state \in LiveStates
    BY <2>2 DEF LiveOf, Live
  <2> HIDE DEF h
  <2>4. v = w
    BY <2>3 DEF Woken, h
  <2> QED
    BY <2>3, <2>4, GrowsReflexive DEF h
<1>4. CASE ~Live(w, t) /\ LiveOf(w, a) = {}
  <2> DEFINE r == Task(a, w.task[t].parent, 0, 0)
  <2>1. Continuous /\ ~Halted(w, t) /\ w.system \in {"running", "paused"}
    BY <1>4 DEF CanWake
  <2>2. a \in Agents /\ w.task[t].parent \in Nat
    BY <1>1, TaskRowTypes
  <2>3. /\ r \in TaskRows /\ r.agent = a /\ r.parent = w.task[t].parent
        /\ r.state = "queued" /\ ~r.stopped
    BY <2>2, TaskMade
  <2> HIDE DEF r
  <2>4. r.parent \in DOMAIN w.task \cup {0} /\ (r.parent = 0 => r.agent = Operator)
    BY <1>1, <2>2, <2>3, WorldFields DEF Sound, Lineal
  <2>5. w.control # "stopped" /\ ~Stopping(w.system) /\ w.agents[a] # "stopped"
    BY <2>1 DEF Halted, Stopping
  <2>6. h = Len(w.task) + 1
    BY <1>4 DEF Heir
  <2>7. Len(w.task) + 1 \notin DOMAIN w.task
    BY <1>1, WorldFields
  <2>8. v = [w EXCEPT !.task = Append(w.task, r)]
    BY <2>6, <2>7 DEF Woken, r
  <2>9. LiveOf(w, r.agent) = {} /\ w.agents[r.agent] # "stopped"
    BY <1>4, <2>3, <2>5
  <2> HIDE DEF v, h, a
  <2>10. /\ Sound(Continuous, v) /\ Grows(w, v) /\ Keeps(w, v)
         /\ v.mail = w.mail /\ v.trigger = w.trigger /\ v.system = w.system
         /\ v.control = w.control /\ v.agents = w.agents /\ v.refused = w.refused
         /\ DOMAIN v.task = DOMAIN w.task \cup {h} /\ v.task[h] = r
         /\ \A u \in DOMAIN w.task : v.task[u] = w.task[u]
    BY <2>3, <2>4, <2>5, <2>6, <2>8, <2>9, TaskAddedSound, SMTT(20)
  <2>11. h \in DOMAIN v.task /\ v.task[h].state \in LiveStates
    BY <2>3, <2>10, StatesApart
  <2> QED
    BY <2>10, <2>11 DEF v, h
<1> QED
  BY <1>2, <1>3, <1>4

-----------------------------------------------------------------------------
(* terminateTask, one task at a time *)

\* Inputs and wakeups stay with their task, or pass on to one that is new.
Passes(w, v) ==
  \A j \in DOMAIN w.mail :
    /\ v.mail[j].kind = w.mail[j].kind
    /\ w.mail[j].kind \in Carried =>
         \/ /\ v.mail[j].task = w.mail[j].task
            /\ v.mail[j].state # w.mail[j].state =>
                 /\ w.mail[j].state = "pending"
                 /\ v.mail[j].state = "dead" => v.task[w.mail[j].task].state \in Bad
         \/ /\ w.mail[j].state = "pending" /\ v.mail[j].state = "pending"
            /\ v.mail[j].task \in DOMAIN v.task \ DOMAIN w.task

\* CarriedNotLost, from one world to another.
Spares(w, v) ==
  \A j \in DOMAIN w.mail : w.mail[j].kind \in Carried /\ w.mail[j].state = "pending" =>
    v.mail[j].state # "dead" \/ v.task[w.mail[j].task].state \in Bad

\* How a task may end.  An input that has not been read needs a successor that may wake.
MayEnd(w, t, s) ==
  /\ s \in Bad \cup {"completed"}
  /\ Continuous /\ w.task[t].parent = 0 /\ s = "canceled" => Stopping(w.system)
  /\ s = "completed" =>
       /\ \A j \in DOMAIN w.mail : w.mail[j].task = t => w.mail[j].state # "leased"
       /\ \/ Unread(w, t) = {}
          \/ Continuous /\ ~Halted(w, t) /\ w.system \in {"running", "paused"}

\* Input that passed on to a new task is safe if those above lose only their own.
LEMMA PassesThenKeeps ==
  ASSUME NEW w, NEW v, NEW u, Passes(w, v), Grows(w, v), Keeps(v, u), Grows(v, u),
         Housed(w.mail, w.task), \A n \in DOMAIN v.task \ DOMAIN w.task : u.task[n].state \notin Bad
  PROVE  Spares(w, u)
<1> SUFFICES ASSUME NEW j \in DOMAIN w.mail, w.mail[j].kind \in Carried, w.mail[j].state = "pending",
                    u.mail[j].state = "dead"
             PROVE  u.task[w.mail[j].task].state \in Bad
  BY DEF Spares
<1>1. j \in DOMAIN v.mail /\ v.mail[j].kind \in Carried /\ w.mail[j].task \in DOMAIN w.task
  BY DEF Grows, Passes, Housed
<1>2. /\ u.mail[j].state # v.mail[j].state =>
           u.task[v.mail[j].task].state \in Bad
  BY <1>1 DEF Keeps
<1>3. \A t \in DOMAIN v.task : v.task[t].state \in Bad => u.task[t].state \in Bad
  BY StatesApart DEF Grows, Later
<1>4. w.mail[j].task \in DOMAIN v.task
  BY <1>1 DEF Grows, Later
<1> QED
  BY <1>1, <1>2, <1>3, <1>4 DEF Passes

\* To keep the mail is more than to spare it, and more than to pass it on.
LEMMA KeepsSpares == \A w, v : Keeps(w, v) => Spares(w, v) /\ Passes(w, v)
  BY DEF Keeps, Spares, Passes

\* The pending deliveries of a task are dead.
LEMMA BuriedWorld ==
  ASSUME NEW w \in Worlds, NEW t
  PROVE  LET v == Buried(w, t) IN
         /\ v \in Worlds /\ v.task = w.task /\ v.trigger = w.trigger /\ v.system = w.system
         /\ v.control = w.control /\ v.agents = w.agents /\ v.refused = w.refused
         /\ SameEvents(w.mail, v.mail)
         /\ \A j \in DOMAIN w.mail :
              /\ v.mail[j].task = w.mail[j].task
              /\ v.mail[j].state = IF w.mail[j].task = t /\ w.mail[j].state = "pending"
                                   THEN "dead" ELSE w.mail[j].state
<1> DEFINE row(j) == IF w.mail[j].task = t /\ w.mail[j].state = "pending"
                     THEN [w.mail[j] EXCEPT !.state = "dead"] ELSE w.mail[j]
           f == [j \in DOMAIN w.mail |-> row(j)]
           M == Table(f)
           n == Len(w.mail)
<1>1. n \in Nat /\ DOMAIN w.mail = 1..n /\ \A j \in DOMAIN w.mail : w.mail[j] \in EventRows
  BY WorldFields
<1>2. ASSUME NEW j \in DOMAIN w.mail
      PROVE  /\ row(j) \in EventRows
             /\ row(j).task = w.mail[j].task /\ row(j).kind = w.mail[j].kind
             /\ row(j).trigger = w.mail[j].trigger /\ row(j).due = w.mail[j].due
             /\ row(j).at = w.mail[j].at
             /\ row(j).state = IF w.mail[j].task = t /\ w.mail[j].state = "pending"
                               THEN "dead" ELSE w.mail[j].state
  <2>1. CASE w.mail[j].task = t /\ w.mail[j].state = "pending"
    <3> DEFINE e == w.mail[j]
               r == [e EXCEPT !.state = "dead"]
    <3>1. row(j) = r
      BY <2>1
    <3>2. e \in EventRows /\ "dead" \in {"pending", "leased", "acked", "dead"}
      BY <1>1
    <3> HIDE DEF e
    <3>3. /\ r \in EventRows /\ r.state = "dead" /\ r.task = e.task /\ r.kind = e.kind
          /\ r.trigger = e.trigger /\ r.due = e.due /\ r.at = e.at
      BY <3>2, EventStateWritten
    <3> HIDE DEF r, row
    <3> QED
      BY <2>1, <3>1, <3>3 DEF e
  <2>2. CASE ~(w.mail[j].task = t /\ w.mail[j].state = "pending")
    BY <1>1, <2>2
  <2> QED
    BY <2>1, <2>2
<1> HIDE DEF row
<1>3. DOMAIN f = 1..n /\ f = [j \in 1..n |-> f[j]] /\ \A j \in 1..n : f[j] \in EventRows
  BY <1>1, <1>2
<1>4. M \in Seq(EventRows) /\ DOMAIN M = DOMAIN w.mail /\ \A j \in DOMAIN w.mail : M[j] = row(j)
  <2>1. \A j \in DOMAIN w.mail : f[j] = row(j)
    OBVIOUS
  <2> HIDE DEF f, n
  <2>2. /\ << >> \o f \in Seq(EventRows) /\ DOMAIN (<< >> \o f) = 1..n
        /\ \A j \in 1..n : (<< >> \o f)[j] = f[j]
    BY <1>1, <1>3, TableRows
  <2> QED
    BY <1>1, <2>1, <2>2 DEF Table
<1>5. Buried(w, t) = [w EXCEPT !.mail = M]
  BY DEF Buried, row
<1> HIDE DEF M
<1> QED
  BY <1>2, <1>4, <1>5, FieldWritten, FieldKept DEF SameEvents

\* The state of a task is written.
Over(w, t, s) == [w EXCEPT !.task[t].state = s]

\* A live task ends: the others and its own history stay.
LEMMA StateWritten ==
  ASSUME NEW w \in Worlds, NEW t \in DOMAIN w.task, Live(w, t), NEW s \in Bad \cup {"completed"}
  PROVE  LET v == Over(w, t, s) IN
         /\ v \in Worlds /\ v.mail = w.mail /\ v.trigger = w.trigger /\ v.system = w.system
         /\ v.control = w.control /\ v.agents = w.agents /\ v.refused = w.refused
         /\ Fewer(w.task, v.task) /\ v.task[t].state = s
         /\ \A u \in DOMAIN w.task : u # t => v.task[u] = w.task[u]
         /\ \A u \in DOMAIN w.task : v.task[u].state \in LiveStates => w.task[u].state \in LiveStates
<1> DEFINE r == [w.task[t] EXCEPT !.state = s]
           T == [w.task EXCEPT ![t] = r]
<1>1. w.task \in Seq(TaskRows) /\ w.task[t] \in TaskRows /\ s \in TaskStates /\ s \notin LiveStates
  BY WorldFields, StatesApart
<1>2. /\ r \in TaskRows /\ r.state = s /\ r.agent = w.task[t].agent /\ r.parent = w.task[t].parent
      /\ r.stopped = w.task[t].stopped
  BY <1>1 DEF TaskRows
<1> DEFINE v == Over(w, t, s)
<1>3. v = [w EXCEPT !.task = T]
  BY DEF Over
<1> HIDE DEF r, v
<1>4. /\ T \in Seq(TaskRows) /\ DOMAIN T = DOMAIN w.task
      /\ \A u \in DOMAIN w.task : T[u] = IF u = t THEN r ELSE w.task[u]
  BY <1>1, <1>2, RowChanged
<1> HIDE DEF T
<1>5. Fewer(w.task, T)
  BY <1>2, <1>4 DEF Fewer, Later, Live
<1>6. /\ v \in Worlds /\ v.task = T /\ v.mail = w.mail /\ v.trigger = w.trigger /\ v.system = w.system
      /\ v.control = w.control /\ v.agents = w.agents /\ v.refused = w.refused
  BY <1>3, <1>4, FieldWritten, FieldKept
<1> QED
  BY <1>1, <1>2, <1>4, <1>5, <1>6 DEF v

\* The mailboxes are rewritten event by event.
LEMMA MailRewritten ==
  ASSUME NEW w \in Worlds, NEW f, f = [j \in DOMAIN w.mail |-> f[j]],
         \A j \in DOMAIN w.mail : f[j] \in EventRows
  PROVE  LET v == [w EXCEPT !.mail = Table(f)] IN
         /\ v \in Worlds /\ v.task = w.task /\ v.trigger = w.trigger /\ v.system = w.system
         /\ v.control = w.control /\ v.agents = w.agents /\ v.refused = w.refused
         /\ DOMAIN v.mail = DOMAIN w.mail /\ \A j \in DOMAIN w.mail : v.mail[j] = f[j]
<1> DEFINE n == Len(w.mail)
           M == Table(f)
<1>1. n \in Nat /\ DOMAIN w.mail = 1..n
  BY WorldFields
<1> HIDE DEF n
<1>2. DOMAIN f = 1..n /\ f = [j \in 1..n |-> f[j]] /\ \A j \in 1..n : f[j] \in EventRows
  BY <1>1
<1>3. /\ << >> \o f \in Seq(EventRows) /\ DOMAIN (<< >> \o f) = 1..n
      /\ \A j \in 1..n : (<< >> \o f)[j] = f[j]
  BY <1>1, <1>2, TableRows
<1>4. M \in Seq(EventRows) /\ DOMAIN M = DOMAIN w.mail /\ \A j \in DOMAIN w.mail : M[j] = f[j]
  BY <1>1, <1>3 DEF Table
<1> HIDE DEF M
<1>5. LET v == [w EXCEPT !.mail = M] IN
      /\ v \in Worlds /\ v.task = w.task /\ v.trigger = w.trigger /\ v.system = w.system
      /\ v.control = w.control /\ v.agents = w.agents /\ v.refused = w.refused /\ v.mail = M
  BY <1>4, FieldWritten, FieldKept
<1> QED
  BY <1>4, <1>5 DEF M

\* A task ends, its triggers settled, and takes with it what it was never given.
LEMMA EndedInPlace ==
  ASSUME NEW w, Sound(Continuous, w), NEW t \in DOMAIN w.task, NEW s \in Bad \cup {"completed"},
         NEW u \in Worlds, u.mail = w.mail, u.system = w.system, u.control = w.control,
         u.agents = w.agents, u.refused = w.refused,
         Fewer(w.task, u.task), u.task[t].state = s,
         \A k \in DOMAIN w.task : k # t => u.task[k] = w.task[k],
         \A k \in DOMAIN w.task : u.task[k].state \in LiveStates => w.task[k].state \in LiveStates,
         Fades(w.trigger, u.trigger), Standing(Continuous, u.trigger, u.task),
         \A x \in Triggers : u.trigger[x].state = "active" => w.trigger[x].state = "active",
         s = "completed" => /\ \A j \in DOMAIN w.mail : w.mail[j].task = t => w.mail[j].state # "leased"
                            /\ Unread(w, t) = {}
  PROVE  LET v == Buried(u, t) IN
         /\ Sound(Continuous, v) /\ Grows(w, v) /\ Keeps(w, v)
         /\ v.task = u.task /\ v.trigger = u.trigger /\ v.system = w.system /\ v.control = w.control
         /\ v.agents = w.agents /\ v.refused = w.refused
<1> DEFINE v == Buried(u, t)
<1>1. /\ v \in Worlds /\ v.task = u.task /\ v.trigger = u.trigger /\ v.system = w.system
      /\ v.control = w.control /\ v.agents = w.agents /\ v.refused = w.refused
      /\ SameEvents(w.mail, v.mail)
      /\ \A j \in DOMAIN w.mail :
           /\ v.mail[j].task = w.mail[j].task
           /\ v.mail[j].state = IF w.mail[j].task = t /\ w.mail[j].state = "pending"
                                THEN "dead" ELSE w.mail[j].state
  BY BuriedWorld
<1> HIDE DEF v
<1>2. DOMAIN v.mail = DOMAIN w.mail /\ DOMAIN v.task = DOMAIN w.task
  BY <1>1 DEF SameEvents, Fewer
<1>3. Housed(v.mail, v.task)
  <2> SUFFICES ASSUME NEW j \in DOMAIN w.mail
               PROVE  /\ v.mail[j].task \in DOMAIN v.task
                      /\ v.mail[j].state \in {"pending", "leased"} =>
                           v.task[v.mail[j].task].state # "completed"
    BY <1>2 DEF Housed
  <2>1. /\ w.mail[j].task \in DOMAIN w.task
        /\ w.mail[j].state \in {"pending", "leased"} => w.task[w.mail[j].task].state # "completed"
    BY DEF Sound, Housed
  <2>2. CASE w.mail[j].task # t
    BY <1>1, <1>2, <2>1, <2>2
  <2>3. CASE w.mail[j].task = t
    <3>1. v.mail[j].state \in {"pending", "leased"} => s # "completed"
      BY <1>1, <2>3
    <3> QED
      BY <1>1, <1>2, <2>1, <2>3, <3>1
  <2> QED
    BY <2>2, <2>3
<1>4. OneLease(v.mail)
  BY <1>1, <1>2 DEF Sound, OneLease
<1>5. Obeyed(Continuous, v)
  BY <1>1, <1>2 DEF Sound, Obeyed, Fewer, Later
<1>6. Sound(Continuous, v)
  BY <1>1, <1>3, <1>4, <1>5, CalmStep
<1>7. Grows(w, v)
  BY <1>1, <1>2 DEF Grows, Fewer, SameEvents
<1>8. Keeps(w, v)
  <2> SUFFICES ASSUME NEW j \in DOMAIN w.mail, w.mail[j].kind \in Carried,
                      v.mail[j].state # w.mail[j].state
               PROVE  w.mail[j].state = "pending" /\ v.task[w.mail[j].task].state \in Bad
    BY <1>1 DEF Keeps, SameEvents
  <2>1. w.mail[j].task = t /\ w.mail[j].state = "pending"
    BY <1>1
  <2>2. s # "completed"
    BY <2>1 DEF Unread, IsUnread
  <2> QED
    BY <1>1, <2>1, <2>2
<1> QED
  BY <1>1, <1>6, <1>7, <1>8 DEF v

\* A task of a continuous goal completes: what it has not read passes on to its
\* successor, which is new, since the agent had no other live task.
LEMMA EndedWithHeir ==
  ASSUME NEW w, Sound(Continuous, w), NEW t \in DOMAIN w.task, Live(w, t),
         NEW s, s = "completed", MayEnd(w, t, s), Unread(w, t) # {}
  PROVE  LET v == Ended(w, t, s) IN
         /\ Sound(Continuous, v) /\ Grows(w, v) /\ Passes(w, v)
         /\ v.trigger = w.trigger /\ v.system = w.system
         /\ v.task[t].state = "completed"
         /\ \A u \in DOMAIN w.task : u # t => v.task[u] = w.task[u]
         /\ \A u \in DOMAIN v.task \ DOMAIN w.task : v.task[u].state = "queued"
<1> DEFINE over == Over(w, t, "completed")
           a == w.task[t].agent
           r == Task(a, w.task[t].parent, 0, 0)
           n == Len(w.task) + 1
           T == Append(over.task, r)
           k == [over EXCEPT !.task = T]
           row(j) == IF IsUnread(w.mail[j], t) THEN [w.mail[j] EXCEPT !.task = n] ELSE w.mail[j]
           f == [j \in DOMAIN w.mail |-> row(j)]
           m == [k EXCEPT !.mail = Table(f)]
           v == Buried(m, t)
<1>1. /\ w \in Worlds /\ Len(w.task) \in Nat /\ DOMAIN w.task = 1..Len(w.task) /\ w.task[t] \in TaskRows
      /\ \A j \in DOMAIN w.mail : w.mail[j] \in EventRows
  BY WorldFields DEF Sound
<1>2. "completed" \in Bad \cup {"completed"}
  OBVIOUS
<1>3. /\ over \in Worlds /\ over.mail = w.mail /\ over.trigger = w.trigger /\ over.system = w.system
      /\ over.control = w.control /\ over.agents = w.agents
      /\ Fewer(w.task, over.task) /\ over.task[t].state = "completed"
      /\ \A u \in DOMAIN w.task : u # t => over.task[u] = w.task[u]
      /\ \A u \in DOMAIN w.task : over.task[u].state \in LiveStates => w.task[u].state \in LiveStates
  BY <1>1, <1>2, StateWritten
<1> HIDE DEF over
<1>4. /\ DOMAIN over.task = DOMAIN w.task /\ over.task[t].agent = a
      /\ over.task[t].parent = w.task[t].parent /\ over.task[t].stopped = w.task[t].stopped
      /\ over.task \in Seq(TaskRows) /\ Len(over.task) = Len(w.task)
  <2>1. over.task \in Seq(TaskRows) /\ DOMAIN over.task = 1..Len(over.task) /\ Len(over.task) \in Nat
    BY <1>3, WorldFields
  <2>2. DOMAIN over.task = DOMAIN w.task
    BY <1>3 DEF Fewer
  <2>3. Len(over.task) = Len(w.task)
    BY <1>1, <2>1, <2>2
  <2> QED
    BY <1>3, <2>1, <2>2, <2>3 DEF Fewer, Later
<1>5. \A u \in DOMAIN over.task : over.task[u].state \in LiveStates => over.task[u].agent # a
  <2> SUFFICES ASSUME NEW u \in DOMAIN w.task, over.task[u].state \in LiveStates, over.task[u].agent = a
               PROVE  FALSE
    BY <1>4
  <2>1. u # t
    BY <1>3, StatesApart
  <2>2. w.task[u].state \in LiveStates /\ w.task[u].agent = a
    BY <1>3, <2>1
  <2> QED
    BY <2>1, <2>2 DEF Sound, OneLive, Live
<1>6. ~Live(over, t) /\ LiveOf(over, over.task[t].agent) = {} /\ Unread(over, t) = Unread(w, t)
  BY <1>3, <1>4, <1>5, StatesApart DEF Live, LiveOf, Unread
<1>7. Heir(over, t) = n /\ n \notin DOMAIN over.task
  BY <1>1, <1>4, <1>6 DEF Heir
<1>8. Continuous /\ ~Halted(w, t) /\ w.system \in {"running", "paused"} /\ CanWake(over, t)
  <2>1. Continuous /\ ~Halted(w, t) /\ w.system \in {"running", "paused"}
    BY DEF MayEnd
  <2> QED
    BY <1>3, <1>4, <2>1 DEF CanWake, Halted
<1>9. Woken(over, t) = k
  BY <1>4, <1>7 DEF Woken
<1>10. Ended(w, t, s) = v
  <2>1. Ended(w, t, "completed") = Buried(Carry(over, t), t)
    BY <1>8 DEF Ended, Over, over
  <2>2. Carry(over, t) = m
    BY <1>3, <1>6, <1>7, <1>8, <1>9 DEF Carry
  <2> QED
    BY <2>1, <2>2
<1>11. /\ r \in TaskRows /\ r.agent = a /\ r.parent = w.task[t].parent
       /\ r.state = "queued" /\ ~r.stopped
  <2>1. a \in Agents /\ w.task[t].parent \in Nat
    BY <1>1, TaskRowTypes
  <2> QED
    BY <2>1, TaskMade
<1> HIDE DEF r
<1>12. r.parent \in DOMAIN over.task \cup {0} /\ (r.parent = 0 => r.agent = Operator)
  <2>1. w.task[t].parent \in Nat /\ w.task[t].parent < t /\ (w.task[t].parent = 0 => a = Operator)
    BY <1>1, TaskRowTypes DEF Sound, Lineal
  <2> QED
    BY <1>1, <1>4, <1>11, <2>1
<1>13. Lineal(over.task) /\ OneLive(over.task)
  BY <1>3, FewerTasks DEF Sound
<1>14. /\ T \in Seq(TaskRows) /\ DOMAIN T = DOMAIN w.task \cup {n} /\ T[n] = r
       /\ \A u \in DOMAIN w.task : T[u] = over.task[u]
  BY <1>4, <1>11, RowAdded
<1>15. Lineal(T) /\ OneLive(T) /\ Later(over.task, T)
  <2>1. \A u \in DOMAIN over.task : over.task[u].state \in LiveStates => over.task[u].agent # r.agent
    BY <1>5, <1>11
  <2> HIDE DEF a, n
  <2> QED
    BY <1>4, <1>11, <1>12, <1>13, <2>1, TaskAdded
<1> HIDE DEF T, n
<1>16. Later(w.task, T)
  BY <1>3, <1>15, LaterTransitive DEF Fewer
<1>17. /\ k \in Worlds /\ k.task = T /\ k.mail = w.mail /\ k.trigger = w.trigger /\ k.system = w.system
       /\ k.control = w.control /\ k.agents = w.agents
  BY <1>3, <1>14, FieldWritten, FieldKept
<1> HIDE DEF k
<1>18. n \in Nat
  BY <1>1 DEF n
<1>19. ASSUME NEW j \in DOMAIN w.mail
       PROVE  /\ row(j) \in EventRows /\ row(j).kind = w.mail[j].kind
              /\ row(j).trigger = w.mail[j].trigger /\ row(j).due = w.mail[j].due
              /\ row(j).at = w.mail[j].at /\ row(j).state = w.mail[j].state
              /\ row(j).task = IF IsUnread(w.mail[j], t) THEN n ELSE w.mail[j].task
  BY <1>1, <1>18 DEF EventRows
<1> HIDE DEF row
<1>20. f = [j \in DOMAIN k.mail |-> f[j]] /\ \A j \in DOMAIN k.mail : f[j] \in EventRows
  BY <1>17, <1>19
<1>21. \A j \in DOMAIN w.mail : f[j] = row(j)
  OBVIOUS
<1> HIDE DEF f
<1>22. /\ m \in Worlds /\ m.task = T /\ m.trigger = w.trigger /\ m.system = w.system
       /\ m.control = w.control /\ m.agents = w.agents
       /\ DOMAIN m.mail = DOMAIN w.mail /\ \A j \in DOMAIN w.mail : m.mail[j] = row(j)
  BY <1>17, <1>20, <1>21, MailRewritten
<1> HIDE DEF m
<1>23. /\ v \in Worlds /\ v.task = T /\ v.trigger = w.trigger /\ v.system = w.system
       /\ v.control = w.control /\ v.agents = w.agents /\ SameEvents(m.mail, v.mail)
       /\ \A j \in DOMAIN w.mail :
            /\ v.mail[j].task = row(j).task
            /\ v.mail[j].state = IF row(j).task = t /\ row(j).state = "pending"
                                 THEN "dead" ELSE row(j).state
  BY <1>22, BuriedWorld
<1> HIDE DEF v
<1>24. SameEvents(w.mail, v.mail) /\ DOMAIN v.mail = DOMAIN w.mail
  BY <1>19, <1>22, <1>23 DEF SameEvents
<1>25. n # t /\ n \notin DOMAIN w.task
  BY <1>4, <1>7
<1>26. \A u \in DOMAIN w.task : T[u] = IF u = t THEN over.task[t] ELSE w.task[u]
  BY <1>3, <1>14
<1>27. Housed(v.mail, T)
  <2> SUFFICES ASSUME NEW j \in DOMAIN w.mail
               PROVE  /\ v.mail[j].task \in DOMAIN T
                      /\ v.mail[j].state \in {"pending", "leased"} => T[v.mail[j].task].state # "completed"
    BY <1>24 DEF Housed
  <2>1. /\ w.mail[j].task \in DOMAIN w.task
        /\ w.mail[j].state \in {"pending", "leased"} => w.task[w.mail[j].task].state # "completed"
        /\ w.mail[j].task = t => w.mail[j].state # "leased"
    BY DEF Sound, Housed, MayEnd
  <2>2. CASE IsUnread(w.mail[j], t)
    BY <1>11, <1>14, <1>19, <1>23, <2>2
  <2>3. CASE ~IsUnread(w.mail[j], t)
    <3>1. row(j).task = w.mail[j].task /\ row(j).state = w.mail[j].state
      BY <1>19, <2>3
    <3>2. CASE w.mail[j].task = t
      BY <1>14, <1>23, <2>1, <3>1, <3>2
    <3>3. CASE w.mail[j].task # t
      BY <1>14, <1>23, <1>26, <2>1, <3>1, <3>3
    <3> QED
      BY <3>2, <3>3
  <2> QED
    BY <2>2, <2>3
<1>28. OneLease(v.mail)
  <2>1. \A j \in DOMAIN w.mail : v.mail[j].state = "leased" =>
          w.mail[j].state = "leased" /\ v.mail[j].task = w.mail[j].task
    BY <1>19, <1>23 DEF IsUnread
  <2> QED
    BY <1>24, <2>1 DEF Sound, OneLease
<1>29. Standing(Continuous, v.trigger, T)
  BY <1>8, <1>3, <1>14, <1>23, <1>26 DEF Sound, Standing
<1>30. Obeyed(Continuous, v)
  <2>1. /\ v.control = "stopped" => v.system \notin {"running", "paused"}
        /\ v.system # "inactive" /\ ~Stopping(v.system) /\ v.agents[a] # "stopped"
    BY <1>8, <1>23 DEF Halted, Stopping
  <2> SUFFICES ASSUME NEW u \in DOMAIN T, T[u].state \in LiveStates
               PROVE  /\ v.agents[T[u].agent] = "stopped" => T[u].stopped
                      /\ T[u].stopped /\ T[u].parent = 0 => Stopping(v.system)
    BY <1>23, <2>1 DEF Obeyed
  <2>2. CASE u = n
    BY <1>11, <1>14, <2>1, <2>2
  <2>3. CASE u # n
    <3>1. u \in DOMAIN w.task /\ T[u] = over.task[u] /\ u # t
      BY <1>3, <1>14, <2>3, StatesApart
    <3>2. T[u] = w.task[u]
      BY <1>26, <3>1
    <3> QED
      BY <1>8, <1>23, <3>1, <3>2 DEF Sound, Obeyed
  <2> QED
    BY <2>2, <2>3
<1>31. Spent(v.mail, v.trigger) /\ InTime(v.mail, v.trigger)
  BY <1>23, <1>24, FadesReflexive, SameAllowances DEF Sound
<1>32. Sound(Continuous, v)
  BY <1>15, <1>23, <1>27, <1>28, <1>29, <1>30, <1>31 DEF Sound
<1>33. Grows(w, v)
  <2>1. w.control # "stopped"
    BY <1>8 DEF Halted
  <2> QED
    BY <1>16, <1>23, <1>24, <2>1 DEF Grows, SameEvents
<1>34. Passes(w, v)
  <2> SUFFICES ASSUME NEW j \in DOMAIN w.mail, w.mail[j].kind \in Carried
               PROVE  \/ /\ v.mail[j].task = w.mail[j].task
                         /\ v.mail[j].state = w.mail[j].state
                      \/ /\ w.mail[j].state = "pending" /\ v.mail[j].state = "pending"
                         /\ v.mail[j].task \in DOMAIN v.task \ DOMAIN w.task
    BY <1>24 DEF Passes, SameEvents
  <2>1. CASE IsUnread(w.mail[j], t)
    BY <1>14, <1>19, <1>23, <1>25, <2>1 DEF IsUnread
  <2>2. CASE ~IsUnread(w.mail[j], t)
    BY <1>19, <1>23, <2>2 DEF IsUnread
  <2> QED
    BY <2>1, <2>2
<1> QED
  BY <1>3, <1>10, <1>11, <1>14, <1>23, <1>26, <1>32, <1>33, <1>34

\* One task ends.
LEMMA EndedSound ==
  ASSUME NEW w, Sound(Continuous, w), NEW t \in DOMAIN w.task, Live(w, t), NEW s, MayEnd(w, t, s)
  PROVE  LET v == Ended(w, t, s) IN
         /\ Sound(Continuous, v) /\ Grows(w, v) /\ Passes(w, v)
         /\ s \in Bad => Keeps(w, v) /\ DOMAIN v.task = DOMAIN w.task
         /\ v.system = w.system /\ v.task[t].state = s
         /\ \A u \in DOMAIN w.task : u # t => v.task[u] = w.task[u]
         /\ \A u \in DOMAIN v.task \ DOMAIN w.task : v.task[u].state = "queued"
<1> DEFINE over == Over(w, t, s)
           X == {x \in Triggers : w.trigger[x].task = t}
           closed == Closes(over, X, "canceled")
<1>1. w \in Worlds /\ s \in Bad \cup {"completed"}
  BY DEF Sound, MayEnd
<1>2. /\ over \in Worlds /\ over.mail = w.mail /\ over.trigger = w.trigger /\ over.system = w.system
      /\ over.control = w.control /\ over.agents = w.agents /\ over.refused = w.refused
      /\ Fewer(w.task, over.task) /\ over.task[t].state = s
      /\ \A u \in DOMAIN w.task : u # t => over.task[u] = w.task[u]
      /\ \A u \in DOMAIN w.task : over.task[u].state \in LiveStates => w.task[u].state \in LiveStates
  BY <1>1, StateWritten
<1> HIDE DEF over
<1>3. s = "completed" => \A j \in DOMAIN w.mail : w.mail[j].task = t => w.mail[j].state # "leased"
  BY DEF MayEnd
<1>4. CASE Continuous /\ s = "completed" /\ Unread(w, t) # {}
  <2> DEFINE v == Ended(w, t, s)
  <2>1. s = "completed" /\ Unread(w, t) # {} /\ s \notin Bad
    BY <1>4, StatesApart
  <2>2. Sound(Continuous, v) /\ Grows(w, v) /\ Passes(w, v) /\ v.system = w.system
    BY <2>1, EndedWithHeir
  <2>3. /\ v.task[t].state = s
        /\ \A u \in DOMAIN w.task : u # t => v.task[u] = w.task[u]
        /\ \A u \in DOMAIN v.task \ DOMAIN w.task : v.task[u].state = "queued"
    BY <2>1, EndedWithHeir
  <2> HIDE DEF v
  <2> QED
    BY <2>1, <2>2, <2>3 DEF v
<1>5. CASE Continuous /\ s = "completed" /\ Unread(w, t) = {}
  <2> DEFINE v == Buried(over, t)
  <2>1. Unread(over, t) = {}
    BY <1>2, <1>5 DEF Unread
  <2>2. Ended(w, t, s) = v
    BY <1>5, <2>1 DEF Ended, Over, over, Carry
  <2>3. Standing(Continuous, over.trigger, over.task)
    BY <1>2, <1>5 DEF Sound, Standing, Fewer
  <2>4. /\ Sound(Continuous, v) /\ Grows(w, v) /\ Keeps(w, v)
        /\ v.task = over.task /\ v.system = w.system
    <3> HIDE DEF v
    <3>1. Fades(w.trigger, over.trigger) /\ \A x \in Triggers : over.trigger[x].state = "active" => w.trigger[x].state = "active"
      BY <1>2, FadesReflexive
    <3> QED
      BY <1>1, <1>2, <1>3, <1>5, <2>3, <3>1, EndedInPlace DEF v
  <2> HIDE DEF v
  <2> QED
    BY <1>2, <2>2, <2>4, KeepsSpares DEF Fewer
<1>6. CASE ~(Continuous /\ s = "completed")
  <2> DEFINE v == Buried(closed, t)
  <2>1. Ended(w, t, s) = v
    BY <1>6 DEF Ended, Over, over
  <2>2. /\ closed \in Worlds /\ closed.task = over.task /\ closed.mail = w.mail
        /\ closed.system = w.system /\ closed.control = w.control /\ closed.agents = w.agents
        /\ closed.refused = w.refused /\ Fades(w.trigger, closed.trigger)
        /\ \A x \in Triggers : closed.trigger[x].state = "active" => w.trigger[x].task # t /\ w.trigger[x].state = "active"
    BY <1>2, ClosesWorld
  <2> HIDE DEF closed
  <2>3. Standing(Continuous, closed.trigger, closed.task)
    <3>1. \A x \in Triggers : closed.trigger[x].task = w.trigger[x].task
      BY <2>2 DEF Fades
    <3> QED
      BY <1>2, <2>2, <3>1 DEF Sound, Standing, Fewer
  <2>4. s = "completed" => Unread(w, t) = {}
    BY <1>6 DEF MayEnd
  <2>5. /\ Sound(Continuous, v) /\ Grows(w, v) /\ Keeps(w, v)
        /\ v.task = closed.task /\ v.system = w.system
    <3> HIDE DEF v
    <3> QED
      BY <1>1, <1>2, <1>3, <2>2, <2>3, <2>4, EndedInPlace DEF v
  <2> HIDE DEF v
  <2> QED
    BY <1>2, <2>1, <2>2, <2>5, KeepsSpares DEF Fewer
<1> QED
  BY <1>4, <1>5, <1>6

\* A continuous goal stops no system but one that was told to.
Told(s) == Continuous => Stopping(s)

\* A system told to stop drains; a continuous goal has told its tasks before.
LEMMA DrainsSound ==
  ASSUME NEW w, Sound(Continuous, w), Told(w.system),
         NEW s \in SystemStates \ {"running", "paused"}, Told(s), Stopping(w.system) => Stopping(s),
         NEW A \in [Agents -> ControlStates]
  PROVE  LET v == [w EXCEPT !.system = s, !.agents = A] IN
         /\ Sound(Continuous, v) /\ Grows(w, v) /\ Keeps(w, v)
         /\ v.task = w.task /\ v.mail = w.mail /\ v.trigger = w.trigger /\ v.system = s
         /\ v.control = w.control /\ v.refused = w.refused
<1> DEFINE v == [w EXCEPT !.system = s, !.agents = A]
<1>1. w \in Worlds
  BY DEF Sound
<1>2. /\ v \in Worlds /\ v.task = w.task /\ v.trigger = w.trigger /\ v.mail = w.mail
      /\ v.control = w.control /\ v.system = s /\ v.refused = w.refused /\ v.agents = A
  BY <1>1 DEF Worlds
<1> HIDE DEF v
<1>3. Continuous => Stopping(w.system) /\ Stopping(s) /\ s # "inactive"
  BY DEF Told, Stopping
<1>4. Obeyed(Continuous, v)
  BY <1>2, <1>3 DEF Sound, Obeyed
<1>5. Sound(Continuous, v)
  BY <1>2, <1>4, CalmStep, LaterReflexive, FadesReflexive, EventsReflexive DEF Sound
<1>6. Grows(w, v) /\ Keeps(w, v)
  BY <1>2, <1>3, LaterReflexive DEF Grows, Keeps, Fewer
<1> QED
  BY <1>2, <1>5, <1>6 DEF v

\* The end of a root, and with it of the system, unless the goal is continuous
\* and nobody told it to stop.
LEMMA RootEndedSound ==
  ASSUME NEW w, Sound(Continuous, w), Told(w.system)
  PROVE  LET v == RootEnded(w) IN
         /\ Sound(Continuous, v) /\ Grows(w, v) /\ Keeps(w, v) /\ v.task = w.task /\ v.mail = w.mail
<1> DEFINE s == IF w.system \in {"stopping", "stopped"} THEN Drained(w) ELSE "inactive"
           A == [a \in Agents |-> IF a # Operator THEN "stopped" ELSE w.agents[a]]
<1>1. w \in Worlds /\ w.agents \in [Agents -> ControlStates]
  BY WorldFields DEF Sound
<1>2. A \in [Agents -> ControlStates]
  BY <1>1 DEF ControlStates
<1>3. s \in SystemStates \ {"running", "paused"} /\ Told(s) /\ (Stopping(w.system) => Stopping(s))
  BY DrainedSystem DEF Stopping, SystemStates, Told
<1>4. RootEnded(w) = [w EXCEPT !.system = s, !.agents = A]
  BY <1>1 DEF RootEnded, Worlds
<1> HIDE DEF s, A
<1> DEFINE v == [w EXCEPT !.system = s, !.agents = A]
<1>5. Sound(Continuous, v) /\ Grows(w, v) /\ Keeps(w, v)
  BY <1>2, <1>3, DrainsSound
<1>6. v.task = w.task /\ v.mail = w.mail
  BY <1>1 DEF Worlds
<1> HIDE DEF v
<1> QED
  BY <1>4, <1>5, <1>6 DEF v

\* What the end of task t as s leaves behind: t has ended, now or before.
Ends(w, t, s, v) ==
  /\ Sound(Continuous, v) /\ Grows(w, v) /\ Passes(w, v)
  /\ s \in Bad => Keeps(w, v) /\ DOMAIN v.task = DOMAIN w.task
  /\ v.task[t].state \notin LiveStates
  /\ Live(w, t) => v.task[t].state = s
  /\ \A u \in DOMAIN w.task : u # t => v.task[u] = w.task[u]
  /\ \A u \in DOMAIN v.task \ DOMAIN w.task : v.task[u].state = "queued"

\* A post or a refusal after the end of a task takes nothing back.
LEMMA EndsThen ==
  ASSUME NEW w, NEW t, NEW s, NEW v, Ends(w, t, s, v), NEW u, Sound(Continuous, u), Grows(v, u),
         u.task = v.task, \A j \in DOMAIN v.mail : u.mail[j] = v.mail[j]
  PROVE  Ends(w, t, s, u)
<1>1. Sound(Continuous, v) /\ Grows(w, v) /\ Passes(w, v)
  BY DEF Ends
<1>2. Grows(w, u)
  BY <1>1, GrowsTransitive
<1>3. \A j \in DOMAIN w.mail : u.mail[j] = v.mail[j]
  BY <1>1 DEF Grows
<1>4. Passes(w, u)
  BY <1>1, <1>3 DEF Passes
<1>5. s \in Bad => Keeps(w, u)
  BY <1>3 DEF Ends, Keeps
<1> QED
  BY <1>2, <1>4, <1>5 DEF Ends

\* An event is refused.
Refuses(w, R) == [w EXCEPT !.refused = @ \cup R]

\* To refuse an event changes nothing but the count.
LEMMA RefusesSound ==
  ASSUME NEW w, Sound(Continuous, w), NEW R \in SUBSET (Triggers \cup Nat)
  PROVE  LET v == Refuses(w, R) IN
         /\ Sound(Continuous, v) /\ Grows(w, v) /\ Keeps(w, v)
         /\ v.task = w.task /\ v.mail = w.mail /\ v.trigger = w.trigger /\ v.system = w.system
<1> DEFINE v == Refuses(w, R)
<1>1. w \in Worlds
  BY DEF Sound
<1>2. w.refused \cup R \in SUBSET (Triggers \cup Nat)
  BY <1>1, WorldFields
<1>3. /\ v \in Worlds /\ v.task = w.task /\ v.trigger = w.trigger /\ v.mail = w.mail
      /\ v.control = w.control /\ v.system = w.system /\ v.agents = w.agents
  BY <1>1, <1>2, FieldWritten, FieldKept DEF Refuses
<1> HIDE DEF v
<1>4. Obeyed(Continuous, v)
  BY <1>3 DEF Sound, Obeyed
<1>5. Sound(Continuous, v)
  BY <1>3, <1>4, CalmStep, LaterReflexive, FadesReflexive, EventsReflexive DEF Sound
<1>6. Grows(w, v) /\ Keeps(w, v)
  BY <1>3, LaterReflexive DEF Grows, Keeps, Fewer
<1> QED
  BY <1>3, <1>5, <1>6 DEF v

\* A chain may go on with the task that is next.
MayClimb(c) ==
  c.next # 0 => /\ c.next \in DOMAIN c.w.task
                /\ Live(c.w, c.next) => MayEnd(c.w, c.next, c.state)

\* One step up: the task ends, and its parent is next when its result is refused.
LEMMA ClimbSound ==
  ASSUME now \in Nat, NEW c, Sound(Continuous, c.w), MayClimb(c), c.next # 0, NEW no
  PROVE  LET d == Climb(c, no) IN
         /\ Ends(c.w, c.next, c.state, d.w)
         /\ d.next # 0 => d.next \in DOMAIN c.w.task /\ d.next < c.next /\ d.state = "rejected"
<1> DEFINE w == c.w
           t == c.next
           s == c.state
           p == w.task[t].parent
           v == Ended(w, t, s)
           d == Climb(c, no)
           Stays(u) == [w |-> u, next |-> 0, state |-> s]
<1>1. /\ w \in Worlds /\ t \in DOMAIN w.task /\ t # 0 /\ DOMAIN w.task = 1..Len(w.task) /\ Len(w.task) \in Nat
      /\ w.task[t] \in TaskRows
  BY WorldFields DEF Sound, MayClimb
<1>2. p \in Nat /\ p < t
  BY <1>1, TaskRowTypes DEF Sound, Lineal
<1>3. CASE ~Live(w, t)
  <2>1. d = Stays(w)
    BY <1>1, <1>3 DEF Climb
  <2>2. d.w = w /\ d.next = 0
    BY <2>1
  <2>3. Ends(w, t, s, w)
    BY <1>3, GrowsReflexive, KeepsSpares DEF Ends, Live
  <2> HIDE DEF d
  <2> QED
    BY <2>2, <2>3 DEF d
<1>4. CASE Live(w, t)
  <2>1. MayEnd(w, t, s)
    BY <1>1, <1>4 DEF MayClimb
  <2>2. Ends(w, t, s, v) /\ v.system = w.system
    <3>1. /\ Sound(Continuous, v) /\ Grows(w, v) /\ Passes(w, v)
          /\ s \in Bad => Keeps(w, v) /\ DOMAIN v.task = DOMAIN w.task
      BY <1>1, <1>4, <2>1, EndedSound
    <3>2. /\ v.system = w.system /\ v.task[t].state = s
          /\ \A u \in DOMAIN w.task : u # t => v.task[u] = w.task[u]
          /\ \A u \in DOMAIN v.task \ DOMAIN w.task : v.task[u].state = "queued"
      BY <1>1, <1>4, <2>1, EndedSound
    <3>3. s \notin LiveStates
      BY <2>1, StatesApart DEF MayEnd
    <3> HIDE DEF v
    <3> QED
      BY <3>1, <3>2, <3>3 DEF Ends
  <2>3. d = IF p = 0 THEN Stays(IF Continuous /\ s # "canceled" THEN v ELSE RootEnded(v))
            ELSE IF ~Live(v, p) \/ v.task[p].stopped THEN Stays(v)
            ELSE IF t \in no
              THEN [w |-> Refuses(v, {t}), next |-> p, state |-> "rejected"]
            ELSE Stays(Post(v, Event(p, "result", t, NoTrigger, 0)))
    BY <1>1, <1>4 DEF Climb, Refuses
  <2>4. Sound(Continuous, v)
    BY <2>2 DEF Ends
  <2> HIDE DEF v, d, w, t, p, s
  <2>5. CASE p = 0 /\ Continuous /\ s # "canceled"
    <3>1. d.w = v /\ d.next = 0
      BY <2>3, <2>5
    <3> QED
      BY <2>2, <3>1 DEF d, w, t, s
  <2>6. CASE p = 0 /\ ~(Continuous /\ s # "canceled")
    <3>1. d.w = RootEnded(v) /\ d.next = 0
      BY <2>3, <2>6
    <3>2. Told(v.system)
      BY <2>1, <2>2, <2>6 DEF MayEnd, Told, p
    <3>3. /\ Sound(Continuous, RootEnded(v)) /\ Grows(v, RootEnded(v))
          /\ RootEnded(v).task = v.task /\ RootEnded(v).mail = v.mail
      BY <2>4, <3>2, RootEndedSound
    <3>4. Ends(w, t, s, RootEnded(v))
      BY <2>2, <3>3, EndsThen
    <3> QED
      BY <3>1, <3>4 DEF d, w, t, s
  <2>7. CASE p # 0 /\ (~Live(v, p) \/ v.task[p].stopped)
    <3>1. d.w = v /\ d.next = 0
      BY <2>3, <2>7
    <3> QED
      BY <2>2, <3>1 DEF d, w, t, s
  <2>8. CASE p # 0 /\ ~(~Live(v, p) \/ v.task[p].stopped) /\ t \in no
    <3>1. d.w = Refuses(v, {t}) /\ d.next = p /\ d.state = "rejected"
      BY <2>3, <2>8
    <3>2. {t} \in SUBSET (Triggers \cup Nat)
      BY <1>1
    <3>3. /\ Sound(Continuous, Refuses(v, {t})) /\ Grows(v, Refuses(v, {t}))
          /\ Refuses(v, {t}).task = v.task /\ Refuses(v, {t}).mail = v.mail
      BY <2>4, <3>2, RefusesSound
    <3>4. Ends(w, t, s, Refuses(v, {t}))
      BY <2>2, <3>3, EndsThen
    <3>5. p \in DOMAIN w.task
      BY <1>1, <1>2, <2>8
    <3> QED
      BY <1>2, <3>1, <3>4, <3>5 DEF d, w, t, s
  <2>9. CASE p # 0 /\ ~(~Live(v, p) \/ v.task[p].stopped) /\ t \notin no
    <3> DEFINE e == Event(p, "result", t, NoTrigger, 0)
    <3>1. d.w = Post(v, e) /\ d.next = 0
      BY <2>3, <2>9
    <3>2. p \in DOMAIN v.task
      BY <1>1, <1>2, <2>2, <2>9 DEF Ends, Grows, Later
    <3>3. e \in EventRows /\ e.task = p /\ e.state = "pending" /\ e.trigger = NoTrigger
      <4>1. /\ p \in Nat /\ t \in Nat /\ 0 \in Nat /\ NoTrigger \in Triggers \cup {NoTrigger}
            /\ "result" \in {"ready", "continue", "result"} \cup Carried
        BY <1>1, <1>2
      <4>2. e \in EventRows
        BY <4>1, EventMade
      <4>3. e.task = p /\ e.state = "pending" /\ e.trigger = NoTrigger
        BY DEF Event
      <4> QED
        BY <4>2, <4>3
    <3> HIDE DEF e
    <3>4. v.task[e.task].state # "completed"
      BY <2>9, <3>3, StatesApart DEF Live
    <3>5. /\ Sound(Continuous, Post(v, e)) /\ Grows(v, Post(v, e)) /\ Post(v, e).task = v.task
          /\ \A j \in DOMAIN v.mail : Post(v, e).mail[j] = v.mail[j]
      BY <2>4, <3>2, <3>3, <3>4, PostSound
    <3>6. Ends(w, t, s, Post(v, e))
      BY <2>2, <3>5, EndsThen
    <3> QED
      BY <3>1, <3>6 DEF d, w, t, s
  <2> QED
    BY <2>5, <2>6, <2>7, <2>8, <2>9
<1> QED
  BY <1>3, <1>4

-----------------------------------------------------------------------------
(* terminateTask, up the chain *)

\* The loop of Terminate is well defined.
IsChain(g, w, t, s, no) ==
  /\ g[0] = [w |-> w, next |-> t, state |-> s]
  /\ \A i \in 1..Len(w.task) : g[i] = Climb(g[i - 1], no)
  /\ Terminate(w, t, s, no) = g[Len(w.task)].w

\* There are such rounds.
LEMMA TerminateLoop ==
  ASSUME NEW w, NEW t, NEW s, NEW no, Len(w.task) \in Nat
  PROVE  \E g : IsChain(g, w, t, s, no)
<1> DEFINE n == Len(w.task)
           Is(g, k) == g = [i \in 0..k |-> IF i = 0 THEN [w |-> w, next |-> t, state |-> s]
                                           ELSE Climb(g[i - 1], no)]
           T == {k \in Nat : \E g : Is(g, k)}
<1>1. 0 \in T
  <2> DEFINE h == [i \in 0..0 |-> [w |-> w, next |-> t, state |-> s]]
  <2>1. Is(h, 0)
    OBVIOUS
  <2> HIDE DEF h, Is
  <2> QED
    BY <2>1
<1>2. ASSUME NEW k \in T PROVE k + 1 \in T
  <2>1. PICK g : Is(g, k)
    OBVIOUS
  <2> DEFINE h == [i \in 0..k + 1 |-> IF i <= k THEN g[i] ELSE Climb(g[k], no)]
  <2>2. ASSUME NEW i \in 0..k + 1
        PROVE  h[i] = IF i = 0 THEN [w |-> w, next |-> t, state |-> s] ELSE Climb(h[i - 1], no)
    <3>1. CASE i = 0
      BY <2>1, <3>1
    <3>2. CASE i # 0 /\ i <= k
      <4>1. h[i] = g[i] /\ h[i - 1] = g[i - 1]
        BY <3>2
      <4> QED
        BY <2>1, <3>2, <4>1
    <3>3. CASE i = k + 1
      <4>1. h[i - 1] = g[k]
        BY <3>3
      <4> QED
        BY <3>3, <4>1
    <3> QED
      BY <3>1, <3>2, <3>3
  <2>3. h = [i \in 0..k + 1 |-> h[i]]
    OBVIOUS
  <2> HIDE DEF h
  <2>4. Is(h, k + 1)
    BY <2>2, <2>3
  <2> HIDE DEF Is
  <2> QED
    BY <2>4
<1>3. T = Nat
  <2> HIDE DEF T
  <2>1. T \in SUBSET Nat
    BY DEF T
  <2> QED
    BY <1>1, <1>2, <2>1, Counting
<1> DEFINE g == CHOOSE g : Is(g, n)
<1>4. Is(g, n)
  <2>1. \E f : Is(f, n)
    BY <1>3
  <2> HIDE DEF Is
  <2> QED
    BY <2>1
<1>5. Terminate(w, t, s, no) = g[n].w
  BY DEF Terminate
<1> HIDE DEF g
<1>6. g[0] = [w |-> w, next |-> t, state |-> s]
  BY <1>4
<1>7. \A i \in 1..n : g[i] = Climb(g[i - 1], no)
  BY <1>4
<1> QED
  BY <1>5, <1>6, <1>7 DEF IsChain

\* A task ends, and what the end of its result does to those above it.  Those it may
\* reach are older than the task, so a successor that took its input over is none of them.
LEMMA TerminateSound ==
  ASSUME now \in Nat, NEW w, Sound(Continuous, w), NEW t \in DOMAIN w.task, NEW s, NEW no,
         Live(w, t) => MayEnd(w, t, s)
  PROVE  LET v == Terminate(w, t, s, no) IN
         /\ Sound(Continuous, v) /\ Grows(w, v) /\ Spares(w, v)
         /\ s \in Bad => Keeps(w, v) /\ DOMAIN v.task = DOMAIN w.task
         /\ v.task[t].state \notin LiveStates /\ (Live(w, t) => v.task[t].state = s)
<1> DEFINE n == Len(w.task)
           v == Terminate(w, t, s, no)
<1>1. w \in Worlds /\ n \in Nat /\ DOMAIN w.task = 1..n
  BY WorldFields DEF Sound
<1>2. PICK g : IsChain(g, w, t, s, no)
  BY <1>1, TerminateLoop
<1> DEFINE b == g[1].w
           Climbed(c) ==
             /\ Sound(Continuous, c.w) /\ Grows(b, c.w) /\ Keeps(b, c.w)
             /\ DOMAIN c.w.task = DOMAIN b.task
             /\ \A u \in DOMAIN b.task : u >= t => c.w.task[u] = b.task[u]
             /\ c.next # 0 => c.next \in DOMAIN b.task /\ c.next < t /\ c.state = "rejected"
<1>0. /\ g[0] = [w |-> w, next |-> t, state |-> s]
      /\ \A i \in 1..n : g[i] = Climb(g[i - 1], no)
      /\ v = g[n].w
  BY <1>2 DEF IsChain
<1> HIDE DEF n, v
<1>3. g[0].w = w /\ g[0].next = t /\ g[0].state = s /\ 1 \in 1..n /\ t # 0 /\ t \in Nat
  BY <1>0, <1>1
<1>4. Ends(w, t, s, b) /\ (g[1].next # 0 => g[1].next \in DOMAIN w.task /\ g[1].next < t /\ g[1].state = "rejected")
  <2>1. g[1] = Climb(g[0], no)
    <3>1. g[1] = Climb(g[1 - 1], no)
      BY <1>0, <1>3
    <3> QED
      BY <3>1
  <2>2. MayClimb(g[0])
    BY <1>3 DEF MayClimb
  <2>3. Sound(Continuous, g[0].w) /\ g[0].next # 0
    BY <1>3
  <2>4. /\ Ends(g[0].w, g[0].next, g[0].state, Climb(g[0], no).w)
        /\ Climb(g[0], no).next # 0 =>
             /\ Climb(g[0], no).next \in DOMAIN g[0].w.task /\ Climb(g[0], no).next < g[0].next
             /\ Climb(g[0], no).state = "rejected"
    BY <2>2, <2>3, ClimbSound
  <2> QED
    BY <1>3, <2>1, <2>4
<1>5. Sound(Continuous, b) /\ Grows(w, b) /\ DOMAIN w.task \subseteq DOMAIN b.task
  BY <1>4 DEF Ends, Grows, Later
<1>6. Climbed(g[1])
  BY <1>4, <1>5, GrowsReflexive
<1>7. ASSUME NEW i \in 1..n, i - 1 \in 1..n, Climbed(g[i - 1]) PROVE Climbed(g[i])
  <2> DEFINE c == g[i - 1]
             d == g[i]
  <2>1. d = Climb(c, no)
    BY <1>0
  <2>2. CASE c.next = 0
    <3>1. d = c
      BY <2>1, <2>2 DEF Climb
    <3> QED
      BY <1>7, <3>1
  <2>3. CASE c.next # 0
    <3>1. c.next \in DOMAIN c.w.task /\ c.next < t /\ c.state = "rejected" /\ Sound(Continuous, c.w)
      BY <1>7, <2>3
    <3>2. MayClimb(c)
      BY <3>1 DEF MayClimb, MayEnd, Bad
    <3> HIDE DEF c, d
    <3>3. /\ Ends(c.w, c.next, c.state, d.w)
          /\ d.next # 0 => d.next \in DOMAIN c.w.task /\ d.next < c.next /\ d.state = "rejected"
      BY <2>1, <2>3, <3>1, <3>2, ClimbSound
    <3>4. /\ Sound(Continuous, d.w) /\ Grows(c.w, d.w) /\ Keeps(c.w, d.w)
          /\ DOMAIN d.w.task = DOMAIN c.w.task
          /\ \A u \in DOMAIN c.w.task : u # c.next => d.w.task[u] = c.w.task[u]
      BY <3>1, <3>3 DEF Ends, Bad
    <3>5. /\ Grows(b, c.w) /\ Keeps(b, c.w) /\ DOMAIN c.w.task = DOMAIN b.task
          /\ \A u \in DOMAIN b.task : u >= t => c.w.task[u] = b.task[u]
      BY <1>7 DEF c
    <3> HIDE DEF Climbed, b
    <3>6. Grows(b, d.w)
      BY <3>4, <3>5, GrowsTransitive
    <3>7. Keeps(b, d.w)
      <4>1. b \in Worlds /\ Housed(b.mail, b.task)
        BY <1>5 DEF Sound
      <4> QED
        BY <3>4, <3>5, <4>1, KeepsTransitive
    <3>8. DOMAIN b.task \subseteq Nat /\ c.next \in Nat
      <4>1. b \in Worlds
        BY <1>5 DEF Sound
      <4>2. DOMAIN b.task = 1..Len(b.task) /\ Len(b.task) \in Nat
        BY <4>1, WorldFields
      <4> QED
        BY <3>1, <3>5, <4>2
    <3>9. \A u \in DOMAIN b.task : u >= t => d.w.task[u] = b.task[u]
      BY <1>3, <3>1, <3>4, <3>5, <3>8
    <3>10. d.next # 0 => d.next \in DOMAIN b.task /\ d.next < t /\ d.state = "rejected"
      BY <1>3, <3>1, <3>3, <3>5, <3>8
    <3> QED
      BY <3>4, <3>5, <3>6, <3>7, <3>9, <3>10 DEF Climbed, d
  <2> QED
    BY <2>2, <2>3
<1> HIDE DEF Climbed, b
<1>8. Climbed(g[n])
  <2> DEFINE T == {0} \cup {i \in 1..n : Climbed(g[i])}
  <2>1. ASSUME NEW i \in 1..n, i - 1 \in T PROVE i \in T
    <3>1. CASE i = 1
      BY <1>3, <1>6, <3>1
    <3>2. CASE i # 1
      <4>1. i - 1 \in 1..n /\ i - 1 # 0
        BY <1>1, <3>2
      <4>2. Climbed(g[i - 1])
        BY <2>1, <4>1
      <4> QED
        BY <1>7, <4>1, <4>2
    <3> QED
      BY <3>1, <3>2
  <2>2. 0 \in T
    OBVIOUS
  <2> HIDE DEF T
  <2>3. \A i \in 0..n : i \in T
    BY <1>1, <2>1, <2>2, Rounds
  <2>4. n \in T /\ n # 0
    BY <1>1, <1>3, <2>3
  <2> QED
    BY <2>4 DEF T
<1>9. /\ Sound(Continuous, v) /\ Grows(b, v) /\ Keeps(b, v) /\ DOMAIN v.task = DOMAIN b.task
      /\ \A u \in DOMAIN b.task : u >= t => v.task[u] = b.task[u]
  BY <1>0, <1>8 DEF Climbed
<1>10. Grows(w, v)
  BY <1>5, <1>9, GrowsTransitive
<1>11. Housed(w.mail, w.task)
  BY DEF Sound
<1>12. Spares(w, v)
  <2>1. \A u \in DOMAIN b.task \ DOMAIN w.task : v.task[u].state = "queued"
    <3>1. \A u \in DOMAIN b.task : u \notin DOMAIN w.task => u >= t
      <4>1. b \in Worlds
        BY <1>5 DEF Sound
      <4>2. DOMAIN b.task = 1..Len(b.task) /\ Len(b.task) \in Nat
        BY <4>1, WorldFields
      <4>3. t \in 1..n
        BY <1>1
      <4> QED
        BY <1>1, <4>2, <4>3
    <3> QED
      BY <1>4, <1>9, <3>1 DEF Ends
  <2>2. "queued" \notin Bad
    BY DEF Bad
  <2>3. Passes(w, b)
    BY <1>4 DEF Ends
  <2> QED
    BY <1>5, <1>9, <1>11, <2>1, <2>2, <2>3, PassesThenKeeps
<1>13. s \in Bad => Keeps(w, v) /\ DOMAIN v.task = DOMAIN w.task
  <2> HAVE s \in Bad
  <2>1. Keeps(w, b) /\ DOMAIN b.task = DOMAIN w.task
    BY <1>4 DEF Ends
  <2> QED
    BY <1>1, <1>5, <1>9, <1>11, <2>1, KeepsTransitive
<1>14. v.task[t] = b.task[t]
  BY <1>3, <1>5, <1>9
<1> QED
  BY <1>4, <1>9, <1>10, <1>12, <1>13, <1>14 DEF Ends, v

\* The loop of TerminateAll is well defined.
IsSweep(g, w, T, s, no) ==
  /\ g[0] = w
  /\ \A i \in 1..Len(w.task) : g[i] = IF i \in T THEN Terminate(g[i - 1], i, s, no) ELSE g[i - 1]
  /\ TerminateAll(w, T, s, no) = g[Len(w.task)]

\* There are such rounds.
LEMMA TerminateAllLoop ==
  ASSUME NEW w, NEW T, NEW s, NEW no, Len(w.task) \in Nat
  PROVE  \E g : IsSweep(g, w, T, s, no)
<1> DEFINE n == Len(w.task)
           Is(g, k) == g = [i \in 0..k |-> IF i = 0 THEN w ELSE IF i \in T THEN Terminate(g[i - 1], i, s, no) ELSE g[i - 1]]
           T0 == {k \in Nat : \E g : Is(g, k)}
<1>1. 0 \in T0
  <2> DEFINE h == [i \in 0..0 |-> w]
  <2>1. Is(h, 0)
    OBVIOUS
  <2> HIDE DEF h, Is
  <2> QED
    BY <2>1
<1>2. ASSUME NEW k \in T0 PROVE k + 1 \in T0
  <2>1. PICK g : Is(g, k)
    OBVIOUS
  <2> DEFINE h == [i \in 0..k + 1 |-> IF i <= k THEN g[i] ELSE IF k + 1 \in T THEN Terminate(g[k], k + 1, s, no) ELSE g[k]]
  <2>2. ASSUME NEW i \in 0..k + 1
        PROVE  h[i] = IF i = 0 THEN w ELSE IF i \in T THEN Terminate(h[i - 1], i, s, no) ELSE h[i - 1]
    <3>1. CASE i = 0
      BY <2>1, <3>1
    <3>2. CASE i # 0 /\ i <= k
      <4>1. h[i] = g[i] /\ h[i - 1] = g[i - 1]
        BY <3>2
      <4> QED
        BY <2>1, <3>2, <4>1
    <3>3. CASE i = k + 1
      <4>1. h[i - 1] = g[k]
        BY <3>3
      <4> QED
        BY <3>3, <4>1
    <3> QED
      BY <3>1, <3>2, <3>3
  <2>3. h = [i \in 0..k + 1 |-> h[i]]
    OBVIOUS
  <2> HIDE DEF h
  <2>4. Is(h, k + 1)
    BY <2>2, <2>3
  <2> HIDE DEF Is
  <2> QED
    BY <2>4
<1>3. T0 = Nat
  <2> HIDE DEF T0
  <2>1. T0 \in SUBSET Nat
    BY DEF T0
  <2> QED
    BY <1>1, <1>2, <2>1, Counting
<1> DEFINE g == CHOOSE g : Is(g, n)
<1>4. Is(g, n)
  <2>1. \E f : Is(f, n)
    BY <1>3
  <2> HIDE DEF Is
  <2> QED
    BY <2>1
<1>5. TerminateAll(w, T, s, no) = g[n]
  BY DEF TerminateAll
<1> HIDE DEF g
<1>6. g[0] = w
  BY <1>4
<1>7. \A i \in 1..n : g[i] = IF i \in T THEN Terminate(g[i - 1], i, s, no) ELSE g[i - 1]
  BY <1>4
<1> QED
  BY <1>5, <1>6, <1>7 DEF IsSweep

\* Some tasks end, one after the other; each does end.
LEMMA TerminateAllSound ==
  ASSUME now \in Nat, NEW w, Sound(Continuous, w), NEW T \in SUBSET DOMAIN w.task, NEW s \in Bad, NEW no,
         \A t \in T : MayEnd(w, t, s)
  PROVE  LET v == TerminateAll(w, T, s, no) IN
         /\ Sound(Continuous, v) /\ Grows(w, v) /\ Keeps(w, v) /\ DOMAIN v.task = DOMAIN w.task
         /\ \A t \in T : v.task[t].state \notin LiveStates
<1> DEFINE n == Len(w.task)
           v == TerminateAll(w, T, s, no)
           After(u, i) ==
             /\ Sound(Continuous, u) /\ Grows(w, u) /\ Keeps(w, u) /\ DOMAIN u.task = DOMAIN w.task
             /\ \A t \in T : t <= i => u.task[t].state \notin LiveStates
<1>1. w \in Worlds /\ n \in Nat /\ DOMAIN w.task = 1..n /\ Housed(w.mail, w.task)
  BY WorldFields DEF Sound
<1>2. PICK g : IsSweep(g, w, T, s, no)
  BY <1>1, TerminateAllLoop
<1>3. /\ g[0] = w /\ v = g[n]
      /\ \A i \in 1..n : g[i] = IF i \in T THEN Terminate(g[i - 1], i, s, no) ELSE g[i - 1]
  BY <1>2 DEF IsSweep
<1> HIDE DEF n, v
<1>4. After(g[0], 0)
  BY <1>1, <1>3, GrowsReflexive
<1>5. ASSUME NEW i \in 1..n, After(g[i - 1], i - 1) PROVE After(g[i], i)
  <2> DEFINE u == g[i - 1]
             u1 == g[i]
  <2>1. Sound(Continuous, u) /\ Grows(w, u) /\ Keeps(w, u) /\ DOMAIN u.task = DOMAIN w.task
    BY <1>5
  <2>2. \A t \in T : t <= i - 1 => u.task[t].state \notin LiveStates
    BY <1>5
  <2> HIDE DEF After
  <2>3. CASE i \notin T
    <3>1. u1 = u
      BY <1>3, <2>3
    <3>2. \A t \in T : t <= i => t <= i - 1
      BY <1>1, <2>3
    <3> QED
      BY <2>1, <2>2, <3>1, <3>2 DEF After
  <2>4. CASE i \in T
    <3>1. u1 = Terminate(u, i, s, no)
      BY <1>3, <2>4
    <3> HIDE DEF u, u1
    <3>2. i \in DOMAIN u.task
      BY <1>1, <2>1
    <3>3. MayEnd(u, i, s)
      <4>1. MayEnd(w, i, s) /\ i \in DOMAIN w.task
        BY <1>1, <2>4
      <4>2. u.task[i].parent = w.task[i].parent /\ (Stopping(w.system) => Stopping(u.system))
        BY <2>1, <4>1 DEF Grows, Later
      <4>3. s # "completed"
        BY StatesApart
      <4> QED
        BY <4>1, <4>2, <4>3 DEF MayEnd
    <3>4. Sound(Continuous, u1) /\ Grows(u, u1) /\ Keeps(u, u1) /\ DOMAIN u1.task = DOMAIN u.task
      BY <2>1, <3>1, <3>2, <3>3, TerminateSound
    <3>5. u1.task[i].state \notin LiveStates
      BY <2>1, <3>1, <3>2, <3>3, TerminateSound
    <3>6. \A t \in T : t <= i => u1.task[t].state \notin LiveStates
      <4> SUFFICES ASSUME NEW t \in T, t <= i PROVE u1.task[t].state \notin LiveStates
        OBVIOUS
      <4>1. CASE t = i
        BY <3>5, <4>1
      <4>2. CASE t # i
        <5>1. t <= i - 1 /\ t \in DOMAIN u.task
          BY <1>1, <2>1, <4>2
        <5> QED
          BY <2>2, <3>4, <5>1 DEF Grows, Later
      <4> QED
        BY <4>1, <4>2
    <3>7. Grows(w, u1) /\ Keeps(w, u1)
      BY <1>1, <2>1, <3>4, GrowsTransitive, KeepsTransitive
    <3> QED
      BY <2>1, <3>4, <3>6, <3>7 DEF After, u1
  <2> QED
    BY <2>3, <2>4
<1> HIDE DEF After
<1>6. After(g[n], n)
  <2> DEFINE K == {i \in 0..n : After(g[i], i)}
  <2>1. ASSUME NEW i \in 1..n, i - 1 \in K PROVE i \in K
    BY <1>1, <1>5, <2>1
  <2>2. 0 \in K
    BY <1>1, <1>4
  <2> HIDE DEF K
  <2>3. \A i \in 0..n : i \in K
    BY <1>1, <2>1, <2>2, Rounds
  <2>4. n \in K
    BY <1>1, <2>3
  <2> QED
    BY <2>4 DEF K
<1>7. \A t \in T : t <= n
  BY <1>1
<1> QED
  BY <1>3, <1>6, <1>7 DEF After, v

-----------------------------------------------------------------------------
(* Triggers *)

\* An active trigger wakes its task, or the successor of that, and uses up one occurrence.
Tells(w, x, kind, r) ==
  [Post(Woken(w, w.trigger[x].task),
        Event(Heir(w, w.trigger[x].task), kind, 0, x, w.trigger[x].due)) EXCEPT !.trigger[x] = r]

\* Only one trigger has changed, no event and no task that was there.
Beyond(w, v, x) ==
  /\ \A y \in Triggers : y # x => v.trigger[y] = w.trigger[y]
  /\ \A u \in DOMAIN w.task : u \in DOMAIN v.task /\ v.task[u] = w.task[u]
  /\ \A j \in DOMAIN w.mail : j \in DOMAIN v.mail /\ v.mail[j] = w.mail[j]

\* The event and the row it costs keep budget, occurrences and tasks in step.
LEMMA TellSound ==
  ASSUME now \in Nat, NEW w, Sound(Continuous, w), NEW x \in Triggers, Active(w, x),
         NEW kind \in Carried, CanWake(w, w.trigger[x].task), w.control # "stopped",
         NEW r \in TriggerRows, r.kind = w.trigger[x].kind, r.budget = w.trigger[x].budget,
         r.left = w.trigger[x].left - 1, r.task = Heir(w, w.trigger[x].task),
         r.state \in {"active", "completed"}, r.state = "active" => r.left > 0,
         r.kind = "cron" /\ r.state = "active" => r.due > now /\ r.due >= w.trigger[x].due
  PROVE  LET v == Tells(w, x, kind, r) IN
         Sound(Continuous, v) /\ Grows(w, v) /\ Keeps(w, v) /\ Beyond(w, v, x)
<1> DEFINE s == w.trigger[x]
           t == s.task
           h == Heir(w, t)
           k == Woken(w, t)
           e == Event(h, kind, 0, x, s.due)
           p == Post(k, e)
           X == [w.trigger EXCEPT ![x] = r]
           v == Tells(w, x, kind, r)
           n == Len(w.mail) + 1
<1>1. /\ w \in Worlds /\ s \in TriggerRows /\ w.trigger \in [Triggers -> TriggerRows]
      /\ w.mail \in Seq(EventRows) /\ Len(w.mail) \in Nat /\ DOMAIN w.mail = 1..Len(w.mail)
  BY WorldFields DEF Sound
<1>2. t \in DOMAIN w.task
  BY DEF Sound, Standing, Active
<1>3. /\ Sound(Continuous, k) /\ Grows(w, k)
      /\ k.mail = w.mail /\ k.trigger = w.trigger /\ k.system = w.system
      /\ k.control = w.control /\ k.agents = w.agents
  BY <1>2, WakeSound
<1>4. /\ \A u \in DOMAIN w.task : u \in DOMAIN k.task /\ k.task[u] = w.task[u]
      /\ h \in DOMAIN k.task /\ k.task[h].state \in LiveStates
  BY <1>2, WakeSound
<1>5. k \in Worlds /\ h \in Nat /\ s.due \in Nat /\ s.left \in Int /\ s.budget \in Nat
  <2>1. k \in Worlds
    BY <1>3 DEF Sound
  <2>2. DOMAIN k.task = 1..Len(k.task) /\ Len(k.task) \in Nat
    BY <2>1, WorldFields
  <2>3. s.due \in Nat /\ s.left \in Int /\ s.budget \in Nat
    BY <1>1 DEF TriggerRows
  <2> HIDE DEF k, h, s
  <2>4. h \in Nat
    BY <1>4, <2>2
  <2> QED
    BY <2>1, <2>3, <2>4
<1>6. e \in EventRows
  <2>1. /\ kind \in {"ready", "continue", "result"} \cup Carried /\ 0 \in Nat
        /\ x \in Triggers \cup {NoTrigger}
    OBVIOUS
  <2> HIDE DEF h, s
  <2> QED
    BY <1>5, <2>1, EventMade
<1>7. e.task = h /\ e.trigger = x /\ e.due = s.due /\ e.at = now /\ e.state = "pending" /\ e.kind = kind
  BY DEF Event
<1> HIDE DEF e
<1>8. /\ p \in Worlds /\ p.task = k.task /\ p.trigger = k.trigger /\ p.system = k.system
      /\ p.control = k.control /\ p.agents = k.agents
      /\ n \notin DOMAIN w.mail /\ DOMAIN p.mail = DOMAIN w.mail \cup {n} /\ p.mail[n] = e
      /\ \A j \in DOMAIN w.mail : p.mail[j] = w.mail[j]
  <2> HIDE DEF k
  <2> QED
    BY <1>3, <1>5, <1>6, PostWorld
<1>9. v = [p EXCEPT !.trigger = [p.trigger EXCEPT ![x] = r]]
  BY DEF Tells, e
<1> HIDE DEF p, k, v
<1>10. X \in [Triggers -> TriggerRows] /\ X[x] = r /\ \A y \in Triggers : y # x => X[y] = w.trigger[y]
  BY <1>1
<1>11. /\ v \in Worlds /\ v.task = k.task /\ v.trigger = X /\ v.mail = p.mail
       /\ v.system = w.system /\ v.control = w.control /\ v.agents = w.agents
  <2>1. v = [p EXCEPT !.trigger = X]
    BY <1>3, <1>8, <1>9
  <2> HIDE DEF X
  <2> QED
    BY <1>3, <1>8, <1>10, <2>1, FieldWritten, FieldKept
<1> HIDE DEF X, h, t, s, n
<1>12. \A y \in Triggers : FiredIn(v.mail, y) = FiredIn(w.mail, y) \cup (IF y = x THEN {n} ELSE {})
  BY <1>7, <1>8, <1>11 DEF FiredIn
<1>13. Spent(v.mail, X)
  <2> SUFFICES ASSUME NEW y \in Triggers
               PROVE  /\ Cardinality(FiredIn(v.mail, y)) + X[y].left = X[y].budget
                      /\ X[y].state = "active" => X[y].left > 0
                      /\ X[y].state = "none" => X[y].budget = 0 /\ X[y].left = 0
    BY DEF Spent
  <2>1. CASE y # x
    <3>1. FiredIn(v.mail, y) = FiredIn(w.mail, y)
      BY <1>12, <2>1
    <3> QED
      BY <1>10, <2>1, <3>1 DEF Sound, Spent
  <2>2. CASE y = x
    <3>1. FiredIn(w.mail, x) \subseteq 1..Len(w.mail) /\ n \notin FiredIn(w.mail, x)
      BY <1>1, <1>8 DEF FiredIn
    <3>2. IsFiniteSet(FiredIn(w.mail, x))
      <4>1. IsFiniteSet(1..Len(w.mail))
        BY <1>1, FS_Interval
      <4> QED
        BY <3>1, <4>1, FS_Subset
    <3>3. Cardinality(FiredIn(w.mail, x)) \in Nat
      BY <3>2, FS_CardinalityType
    <3>4. Cardinality(FiredIn(w.mail, x) \cup {n}) = Cardinality(FiredIn(w.mail, x)) + 1
      BY <3>1, <3>2, FS_AddElement
    <3>5. FiredIn(v.mail, x) = FiredIn(w.mail, x) \cup {n}
      BY <1>12
    <3>6. Cardinality(FiredIn(w.mail, x)) + s.left = s.budget
      BY DEF Sound, Spent, s
    <3>7. r.left = s.left - 1 /\ r.budget = s.budget
      BY DEF s
    <3>8. Cardinality(FiredIn(v.mail, x)) + r.left = r.budget
      BY <1>5, <3>3, <3>4, <3>5, <3>6, <3>7
    <3> QED
      BY <1>10, <2>2, <3>8
  <2> QED
    BY <2>1, <2>2
<1>14. InTime(v.mail, X)
  <2> SUFFICES ASSUME NEW y \in Triggers, X[y].kind = "cron"
               PROVE  /\ \A i, j \in FiredIn(v.mail, y) : i < j => v.mail[i].at < v.mail[j].due
                      /\ X[y].state = "active" => \A j \in FiredIn(v.mail, y) : v.mail[j].at < X[y].due
    BY DEF InTime
  <2>1. \A j \in FiredIn(w.mail, y) : j \in DOMAIN w.mail /\ v.mail[j] = w.mail[j]
    BY <1>8, <1>11 DEF FiredIn
  <2>2. CASE y # x
    <3>1. FiredIn(v.mail, y) = FiredIn(w.mail, y) /\ X[y] = w.trigger[y]
      BY <1>10, <1>12, <2>2
    <3> QED
      BY <2>1, <3>1 DEF Sound, InTime
  <2>3. CASE y = x
    <3>1. s.kind = "cron" /\ s.state = "active"
      BY <1>10, <2>3 DEF Active, s
    <3>2. /\ \A i, j \in FiredIn(w.mail, x) : i < j => w.mail[i].at < w.mail[j].due
          /\ \A j \in FiredIn(w.mail, x) : w.mail[j].at < s.due
      BY <3>1 DEF Sound, InTime, s
    <3>3. FiredIn(v.mail, x) = FiredIn(w.mail, x) \cup {n}
      BY <1>12
    <3>4. v.mail[n].at = now /\ v.mail[n].due = s.due
      BY <1>7, <1>8, <1>11
    <3>5. \A j \in FiredIn(w.mail, x) : j < n /\ j \in Nat /\ w.mail[j].at \in Nat
      <4> TAKE j \in FiredIn(w.mail, x)
      <4>1. j \in DOMAIN w.mail /\ w.mail[j] \in EventRows
        BY <1>1, WorldFields DEF FiredIn
      <4>2. w.mail[j].at \in Nat
        BY <4>1 DEF EventRows
      <4>3. j \in Nat /\ j < n
        BY <1>1, <4>1 DEF n
      <4> QED
        BY <4>2, <4>3
    <3>6. n \in Nat
      BY <1>1 DEF n
    <3>7. \A i, j \in FiredIn(v.mail, x) : i < j => v.mail[i].at < v.mail[j].due
      <4> SUFFICES ASSUME NEW i \in FiredIn(v.mail, x), NEW j \in FiredIn(v.mail, x), i < j
                   PROVE  v.mail[i].at < v.mail[j].due
        OBVIOUS
      <4>1. i # n
        BY <3>3, <3>5, <3>6
      <4>2. i \in FiredIn(w.mail, x) /\ v.mail[i] = w.mail[i]
        BY <2>1, <2>3, <3>3, <4>1
      <4>3. CASE j = n
        BY <3>2, <3>4, <4>2, <4>3
      <4>4. CASE j # n
        BY <2>1, <2>3, <3>2, <3>3, <4>2, <4>4
      <4> QED
        BY <4>3, <4>4
    <3>8. X[x].state = "active" => \A j \in FiredIn(v.mail, x) : v.mail[j].at < X[x].due
      <4> SUFFICES ASSUME X[x].state = "active", NEW j \in FiredIn(v.mail, x)
                   PROVE  v.mail[j].at < r.due
        BY <1>10
      <4>1. r.due > now /\ r.due >= s.due /\ r.due \in Nat
        BY <1>10, <2>3, TriggerRowTypes DEF s
      <4>2. CASE j = n
        BY <3>4, <4>1, <4>2
      <4>3. CASE j # n
        <5>1. j \in FiredIn(w.mail, x) /\ v.mail[j] = w.mail[j] /\ w.mail[j].at < s.due /\ w.mail[j].at \in Nat
          BY <2>1, <2>3, <3>2, <3>3, <3>5, <4>3
        <5> QED
          BY <1>5, <4>1, <5>1
      <4> QED
        BY <4>2, <4>3
    <3> QED
      BY <2>3, <3>7, <3>8
  <2> QED
    BY <2>2, <2>3
<1>15. Standing(Continuous, X, v.task)
  <2> SUFFICES ASSUME NEW y \in Triggers, X[y].state = "active"
               PROVE  /\ X[y].task \in DOMAIN v.task
                      /\ \/ v.task[X[y].task].state \in LiveStates
                         \/ Continuous /\ v.task[X[y].task].state = "completed"
    BY DEF Standing
  <2>1. CASE y # x
    <3>1. X[y] = w.trigger[y]
      BY <1>10, <2>1
    <3> QED
      BY <1>4, <1>11, <3>1 DEF Sound, Standing
  <2>2. CASE y = x
    BY <1>4, <1>10, <1>11, <2>2 DEF h, t, s
  <2> QED
    BY <2>1, <2>2
<1>16. Housed(v.mail, v.task) /\ OneLease(v.mail)
  <2>1. \A j \in DOMAIN v.mail : j = n \/ (j \in DOMAIN w.mail /\ v.mail[j] = k.mail[j])
    BY <1>3, <1>8, <1>11
  <2>2. v.mail[n].task = h /\ v.mail[n].state = "pending"
    BY <1>7, <1>8, <1>11
  <2>3. h \in DOMAIN v.task /\ v.task[h].state # "completed"
    BY <1>4, <1>11, StatesApart
  <2> QED
    BY <1>3, <1>11, <2>1, <2>2, <2>3 DEF Sound, Housed, OneLease
<1>17. Obeyed(Continuous, v) /\ Lineal(v.task) /\ OneLive(v.task)
  BY <1>3, <1>11 DEF Sound, Obeyed
<1>18. Sound(Continuous, v)
  BY <1>11, <1>13, <1>14, <1>15, <1>16, <1>17 DEF Sound
<1>19. Grows(w, v)
  BY <1>3, <1>8, <1>11 DEF Grows
<1>20. Keeps(w, v)
  BY <1>8, <1>11 DEF Keeps
<1>21. Beyond(w, v, x)
  BY <1>4, <1>8, <1>10, <1>11 DEF Beyond
<1> QED
  BY <1>18, <1>19, <1>20, <1>21 DEF v

\* No trigger changes.
LEMMA BeyondReflexive == \A w, x : Beyond(w, w, x)
  BY DEF Beyond

\* A trigger is settled whatever it was.
Settled(w, x, s) == [w EXCEPT !.trigger[x].state = s]

\* A trigger that is settled wakes nobody: CancelSchedule and a refused wakeup.
LEMMA SettledSound ==
  ASSUME NEW w, Sound(Continuous, w), NEW x \in Triggers, NEW s \in {"canceled", "failed"}
  PROVE  LET v == Settled(w, x, s) IN
         Sound(Continuous, v) /\ Grows(w, v) /\ Keeps(w, v) /\ Beyond(w, v, x)
<1> DEFINE r == [w.trigger[x] EXCEPT !.state = s]
           X == [w.trigger EXCEPT ![x] = r]
           v == Settled(w, x, s)
<1>1. w \in Worlds /\ w.trigger \in [Triggers -> TriggerRows] /\ w.trigger[x] \in TriggerRows
  BY WorldFields DEF Sound
<1>2. /\ r \in TriggerRows /\ r.state = s /\ r.kind = w.trigger[x].kind /\ r.task = w.trigger[x].task
      /\ r.due = w.trigger[x].due /\ r.left = w.trigger[x].left /\ r.budget = w.trigger[x].budget
  BY <1>1 DEF TriggerRows
<1>3. v = [w EXCEPT !.trigger = X]
  BY DEF Settled
<1> HIDE DEF r
<1>4. X \in [Triggers -> TriggerRows] /\ X[x] = r /\ \A y \in Triggers : y # x => X[y] = w.trigger[y]
  BY <1>1, <1>2
<1> HIDE DEF X
<1>5. /\ v \in Worlds /\ v.task = w.task /\ v.mail = w.mail /\ v.trigger = X /\ v.system = w.system
      /\ v.control = w.control /\ v.agents = w.agents
  BY <1>1, <1>3, <1>4, FieldWritten, FieldKept
<1> HIDE DEF v
<1>6. Fades(w.trigger, X) /\ \A y \in Triggers : X[y].state = "active" => y # x
  BY <1>2, <1>4 DEF Fades
<1>7. Standing(Continuous, X, w.task)
  BY <1>4, <1>6 DEF Sound, Standing
<1>8. Sound(Continuous, v)
  BY <1>5, <1>6, <1>7, CalmStep, LaterReflexive, EventsReflexive DEF Sound, Obeyed
<1>9. Grows(w, v) /\ Keeps(w, v) /\ Beyond(w, v, x)
  BY <1>4, <1>5, <1>6, LaterReflexive DEF Grows, Keeps, Fewer, Beyond
<1> QED
  BY <1>8, <1>9 DEF v

\* A refused wakeup settles its trigger.
LEMMA FailedSound ==
  ASSUME NEW w, Sound(Continuous, w), NEW x \in Triggers, NEW no
  PROVE  LET v == Failed(w, x, no) IN
         Sound(Continuous, v) /\ Grows(w, v) /\ Keeps(w, v) /\ Beyond(w, v, x)
<1> DEFINE u == Settled(w, x, "failed")
           v == Refuses(u, no \cap {x})
<1>1. Sound(Continuous, u) /\ Grows(w, u) /\ Keeps(w, u) /\ Beyond(w, u, x)
  BY SettledSound
<1>2. no \cap {x} \in SUBSET (Triggers \cup Nat)
  OBVIOUS
<1> HIDE DEF u
<1>3. Sound(Continuous, v) /\ Grows(u, v) /\ Keeps(u, v)
  BY <1>1, <1>2, RefusesSound
<1>4. v.task = u.task /\ v.mail = u.mail /\ v.trigger = u.trigger
  BY <1>1, <1>2, RefusesSound
<1>5. Failed(w, x, no) = v
  BY DEF Failed, Refuses, Settled, u
<1> HIDE DEF v
<1>6. Grows(w, v) /\ Keeps(w, v)
  BY <1>1, <1>3, GrowsTransitive, KeepsTransitive DEF Sound
<1>7. Beyond(w, v, x)
  BY <1>1, <1>4 DEF Beyond
<1> QED
  BY <1>3, <1>5, <1>6, <1>7

\* A trigger that expired, or whose task may not be woken, is settled.
LEMMA ClosesOne ==
  ASSUME NEW w, Sound(Continuous, w), NEW x \in Triggers, NEW s \in {"expired", "canceled"}
  PROVE  LET v == Closes(w, {x}, s) IN
         Sound(Continuous, v) /\ Grows(w, v) /\ Keeps(w, v) /\ Beyond(w, v, x)
<1> DEFINE v == Closes(w, {x}, s)
<1>1. Sound(Continuous, v) /\ Grows(w, v) /\ Keeps(w, v)
  BY ClosesSound
<1>2. w \in Worlds
  BY DEF Sound
<1>3. v.task = w.task /\ v.mail = w.mail /\ \A y \in Triggers : y \notin {x} => v.trigger[y] = w.trigger[y]
  BY <1>2, ClosesWorld
<1> HIDE DEF v
<1>4. Beyond(w, v, x)
  BY <1>3 DEF Beyond
<1> QED
  BY <1>1, <1>4 DEF v

\* The next instant of an expression lies in the future.
LEMMA NextCronLater ==
  ASSUME NEW t \in Nat
  PROVE  NextCron(t) \in Nat /\ NextCron(t) > t
<1>1. Period \in Nat \ {0}
  BY WakeupsAssumption
<1>2. t = Period * (t \div Period) + (t % Period) /\ t % Period \in 0..Period - 1 /\ t \div Period \in Nat
  BY <1>1
<1> QED
  BY <1>1, <1>2 DEF NextCron

\* An event on behalf of a trigger, and what is left of the trigger.
LEMMA NotifiedIs ==
  ASSUME NEW w, Sound(Continuous, w), NEW x \in Triggers, NEW kind,
         CanWake(w, w.trigger[x].task), Active(w, x), now \in Nat, kind \in Carried, NEW r,
         NEW s, s = [w.trigger[x] EXCEPT !.task = Heir(w, w.trigger[x].task)]
  PROVE  /\ [Notified(w, x, kind) EXCEPT !.trigger[x] = r] = Tells(w, x, kind, r)
         /\ Notified(w, x, kind).trigger[x] = s
<1> DEFINE t == w.trigger[x].task
           h == Heir(w, t)
           k == Woken(w, t)
           e == Event(h, kind, 0, x, w.trigger[x].due)
           p == Post(k, e)
<1>1. w \in Worlds /\ w.trigger \in [Triggers -> TriggerRows] /\ w.trigger[x] \in TriggerRows
  BY WorldFields DEF Sound
<1>2. t \in DOMAIN w.task
  BY DEF Sound, Standing, Active
<1>3. k \in Worlds /\ k.trigger = w.trigger
  BY <1>2, WakeSound DEF Sound
<1>4. p.trigger = w.trigger /\ DOMAIN p = {"system", "control", "agents", "task", "mail", "trigger", "refused"}
  <2> HIDE DEF e, k
  <2> QED
    BY <1>3 DEF Post, Worlds
<1>5. Notified(w, x, kind) = [p EXCEPT !.trigger[x].task = h]
  BY DEF Notified
<1>6. Tells(w, x, kind, r) = [p EXCEPT !.trigger[x] = r]
  BY DEF Tells
<1> HIDE DEF p, h
<1> DEFINE A == [w.trigger EXCEPT ![x].task = h]
           q == Notified(w, x, kind)
<1>7. q = [p EXCEPT !.trigger = A]
  BY <1>4, <1>5
<1>8. [A EXCEPT ![x] = r] = [w.trigger EXCEPT ![x] = r] /\ A[x] = s
  BY <1>1 DEF h
<1> HIDE DEF A, q
<1>9. q.trigger = A /\ [q EXCEPT !.trigger[x] = r] = [p EXCEPT !.trigger = [A EXCEPT ![x] = r]]
  BY <1>4, <1>7
<1>10. [p EXCEPT !.trigger[x] = r] = [p EXCEPT !.trigger = [w.trigger EXCEPT ![x] = r]]
  BY <1>4
<1> QED
  BY <1>6, <1>8, <1>9, <1>10 DEF q

\* The row of a schedule once it fired.
LEMMA AdvancedRow ==
  ASSUME now \in Nat, NEW s \in TriggerRows, s.kind \in Schedules, s.left > 0, s.due <= now
  PROVE  LET r == Advanced(s) IN
         /\ r \in TriggerRows /\ r.kind = s.kind /\ r.budget = s.budget /\ r.task = s.task
         /\ r.left = s.left - 1 /\ r.state \in {"active", "completed"}
         /\ r.state = "active" => r.left > 0
         /\ r.kind = "cron" /\ r.state = "active" => r.due > now /\ r.due >= s.due
<1> DEFINE next == NextCron(now)
           more == s.kind = "cron" /\ s.left > 1 /\ (Deadline = 0 \/ next < Deadline)
           due == IF s.kind = "cron" /\ s.left > 1 THEN next ELSE s.due
           state == IF more THEN "active" ELSE "completed"
           left == s.left - 1
           r == [s EXCEPT !.left = left, !.due = due, !.state = state]
<1>1. next \in Nat /\ next > now
  BY NextCronLater
<1>2. s.due \in Nat /\ s.left \in Int
  BY DEF TriggerRows
<1>3. Advanced(s) = r
  BY DEF Advanced
<1> HIDE DEF next
<1>4. state \in {"active", "completed"} /\ (state = "active" => s.kind = "cron" /\ s.left > 1)
  OBVIOUS
<1> HIDE DEF state
<1>5. /\ due \in Nat
      /\ s.kind = "cron" /\ s.left > 1 => due > now /\ due >= s.due
  BY <1>1, <1>2
<1> HIDE DEF due
<1>6. /\ r \in TriggerRows /\ r.kind = s.kind /\ r.budget = s.budget /\ r.task = s.task
      /\ r.left = s.left - 1 /\ r.state = state /\ r.due = due
  <2>1. left \in Int
    BY <1>2
  <2>2. due \in Nat /\ state \in {"active", "completed"}
    BY <1>4, <1>5
  <2> HIDE DEF left
  <2>3. r \in TriggerRows
    BY <2>1, <2>2 DEF TriggerRows
  <2>4. /\ r.kind = s.kind /\ r.budget = s.budget /\ r.task = s.task
        /\ r.left = left /\ r.state = state /\ r.due = due
    BY DEF TriggerRows
  <2> QED
    BY <2>3, <2>4 DEF left
<1> HIDE DEF r
<1> QED
  BY <1>2, <1>3, <1>4, <1>5, <1>6

\* The row of a subscription once it was told.
LEMMA UsedRow ==
  ASSUME NEW s \in TriggerRows, s.left > 0
  PROVE  LET r == Used(s) IN
         /\ r \in TriggerRows /\ r.kind = s.kind /\ r.budget = s.budget /\ r.task = s.task
         /\ r.left = s.left - 1 /\ r.state \in {"active", "completed"}
         /\ r.state = "active" => r.left > 0
<1>1. s.left \in Int
  BY DEF TriggerRows
<1> DEFINE state == IF s.left = 1 THEN "completed" ELSE "active"
           left == s.left - 1
           r == [s EXCEPT !.left = left, !.state = state]
<1>2. state \in {"active", "completed"} /\ (state = "active" => s.left > 1) /\ left \in Int
  BY <1>1
<1>3. Used(s) = r
  BY DEF Used
<1> HIDE DEF state
<1>4. /\ r \in TriggerRows /\ r.kind = s.kind /\ r.budget = s.budget /\ r.task = s.task
      /\ r.left = s.left - 1 /\ r.state = state
  <2> HIDE DEF left
  <2>1. r \in TriggerRows
    BY <1>2 DEF TriggerRows
  <2>2. /\ r.kind = s.kind /\ r.budget = s.budget /\ r.task = s.task
        /\ r.left = left /\ r.state = state
    BY DEF TriggerRows
  <2> QED
    BY <2>1, <2>2 DEF left
<1> HIDE DEF r
<1> QED
  BY <1>1, <1>2, <1>3, <1>4

\* The row of an active trigger once its task's successor took the task's place.
LEMMA HandedRow ==
  ASSUME NEW w, Sound(Continuous, w), NEW x \in Triggers, Active(w, x), CanWake(w, w.trigger[x].task)
  PROVE  LET h == Heir(w, w.trigger[x].task)
             s == [w.trigger[x] EXCEPT !.task = h] IN
         /\ s \in TriggerRows /\ s.kind = w.trigger[x].kind /\ s.budget = w.trigger[x].budget
         /\ s.task = h /\ s.left = w.trigger[x].left /\ s.due = w.trigger[x].due
         /\ s.state = "active" /\ s.left > 0
<1> DEFINE h == Heir(w, w.trigger[x].task)
           k == Woken(w, w.trigger[x].task)
<1>1. w.trigger[x] \in TriggerRows /\ w.trigger[x].state = "active"
  BY WorldFields DEF Sound, Active
<1>2. w.trigger[x].task \in DOMAIN w.task
  BY <1>1 DEF Sound, Standing
<1>3. h \in DOMAIN k.task /\ k \in Worlds
  BY <1>2, WakeSound DEF Sound
<1> HIDE DEF h, k
<1>4. DOMAIN k.task = 1..Len(k.task) /\ Len(k.task) \in Nat
  BY <1>3, WorldFields
<1>5. h \in Nat
  BY <1>3, <1>4
<1>6. w.trigger[x].left > 0
  BY <1>1 DEF Sound, Spent
<1> QED
  BY <1>1, <1>5, <1>6 DEF TriggerRows, h

\* A due schedule fires, is settled, or waits.
LEMMA FireSound ==
  ASSUME now \in Nat, NEW w, Sound(Continuous, w), NEW x \in Triggers, Active(w, x),
         w.trigger[x].kind \in Schedules, w.trigger[x].due <= now, NEW no
  PROVE  LET v == Fire(w, x, no) IN
         Sound(Continuous, v) /\ Grows(w, v) /\ Keeps(w, v) /\ Beyond(w, v, x)
<1> DEFINE t == w.trigger[x].task
           v == Fire(w, x, no)
<1>1. CASE Passed(Deadline)
  <2>1. v = Closes(w, {x}, "expired")
    BY <1>1 DEF Fire
  <2> QED
    BY <2>1, ClosesOne
<1>2. CASE ~Passed(Deadline) /\ Ineligible(w, t)
  <2>1. v = Closes(w, {x}, "canceled")
    BY <1>2 DEF Fire
  <2> QED
    BY <2>1, ClosesOne
<1>3. CASE ~Passed(Deadline) /\ ~Ineligible(w, t) /\ ~Ready(w, t)
  <2>1. v = w
    BY <1>3 DEF Fire
  <2> QED
    BY <2>1, GrowsReflexive, BeyondReflexive
<1>4. CASE ~Passed(Deadline) /\ ~Ineligible(w, t) /\ Ready(w, t) /\ ~CanNotify(w, x, no)
  <2>1. v = Failed(w, x, no)
    BY <1>4 DEF Fire
  <2> QED
    BY <2>1, FailedSound
<1>5. CASE ~Passed(Deadline) /\ ~Ineligible(w, t) /\ Ready(w, t) /\ CanNotify(w, x, no)
  <2> DEFINE s == [w.trigger[x] EXCEPT !.task = Heir(w, t)]
             r == Advanced(s)
             q == Notified(w, x, "fired")
  <2>1. v = [q EXCEPT !.trigger[x] = Advanced(q.trigger[x])]
    BY <1>5 DEF Fire
  <2>2. CanWake(w, t) /\ w.control # "stopped" /\ "fired" \in Carried
    BY <1>5 DEF CanNotify, Ready, Carried
  <2>3. /\ s \in TriggerRows /\ s.kind = w.trigger[x].kind /\ s.budget = w.trigger[x].budget
        /\ s.task = Heir(w, t) /\ s.left = w.trigger[x].left /\ s.due = w.trigger[x].due /\ s.left > 0
    BY <2>2, HandedRow
  <2>4. /\ [q EXCEPT !.trigger[x] = r] = Tells(w, x, "fired", r) /\ q.trigger[x] = s
    BY <2>2, NotifiedIs
  <2> HIDE DEF s, q
  <2>5. /\ r \in TriggerRows /\ r.kind = s.kind /\ r.budget = s.budget /\ r.task = s.task
        /\ r.left = s.left - 1 /\ r.state \in {"active", "completed"}
        /\ r.state = "active" => r.left > 0
        /\ r.kind = "cron" /\ r.state = "active" => r.due > now /\ r.due >= s.due
    BY <2>3, AdvancedRow
  <2>6. v = Tells(w, x, "fired", r)
    BY <2>1, <2>4
  <2> HIDE DEF r, v, t
  <2>7. LET u == Tells(w, x, "fired", r) IN
        Sound(Continuous, u) /\ Grows(w, u) /\ Keeps(w, u) /\ Beyond(w, u, x)
    BY <2>2, <2>3, <2>5, TellSound DEF t
  <2> QED
    BY <2>6, <2>7 DEF v
<1> QED
  BY <1>1, <1>2, <1>3, <1>4, <1>5

\* A subscription is told, is settled, or passes over news of its own agent.
LEMMA NotifySound ==
  ASSUME now \in Nat, NEW w, Sound(Continuous, w), NEW x \in Triggers, Active(w, x),
         w.trigger[x].kind # "cron", NEW source, NEW no
  PROVE  LET v == Notify(w, x, source, no) IN
         Sound(Continuous, v) /\ Grows(w, v) /\ Keeps(w, v) /\ Beyond(w, v, x)
<1> DEFINE t == w.trigger[x].task
           v == Notify(w, x, source, no)
           Own == source # 0 /\ w.task[t].agent = w.task[source].agent
<1>1. CASE Own
  <2>1. v = w
    BY <1>1 DEF Notify
  <2> QED
    BY <2>1, GrowsReflexive, BeyondReflexive
<1>2. CASE ~Own /\ Ineligible(w, t)
  <2>1. v = Closes(w, {x}, "canceled")
    BY <1>2 DEF Notify
  <2> QED
    BY <2>1, ClosesOne
<1>3. CASE ~Own /\ ~Ineligible(w, t) /\ ~CanNotify(w, x, no)
  <2>1. v = Failed(w, x, no)
    BY <1>3 DEF Notify
  <2> QED
    BY <2>1, FailedSound
<1>4. CASE ~Own /\ ~Ineligible(w, t) /\ CanNotify(w, x, no)
  <2> DEFINE s == [w.trigger[x] EXCEPT !.task = Heir(w, t)]
             r == Used(s)
             q == Notified(w, x, "notice")
  <2>1. v = [q EXCEPT !.trigger[x] = Used(q.trigger[x])]
    BY <1>4 DEF Notify
  <2>2. CanWake(w, t) /\ w.control # "stopped" /\ "notice" \in Carried
    BY <1>4 DEF CanNotify, Ineligible, Halted, Carried
  <2>3. /\ s \in TriggerRows /\ s.kind = w.trigger[x].kind /\ s.budget = w.trigger[x].budget
        /\ s.task = Heir(w, t) /\ s.left = w.trigger[x].left /\ s.left > 0
    BY <2>2, HandedRow
  <2>4. /\ [q EXCEPT !.trigger[x] = r] = Tells(w, x, "notice", r) /\ q.trigger[x] = s
    BY <2>2, NotifiedIs
  <2> HIDE DEF s, q
  <2>5. /\ r \in TriggerRows /\ r.kind = s.kind /\ r.budget = s.budget /\ r.task = s.task
        /\ r.left = s.left - 1 /\ r.state \in {"active", "completed"}
        /\ r.state = "active" => r.left > 0
    BY <2>3, UsedRow
  <2>6. v = Tells(w, x, "notice", r)
    BY <2>1, <2>4
  <2> HIDE DEF r, v, t
  <2>7. LET u == Tells(w, x, "notice", r) IN
        Sound(Continuous, u) /\ Grows(w, u) /\ Keeps(w, u) /\ Beyond(w, u, x)
    BY <2>2, <2>3, <2>5, TellSound DEF t
  <2> QED
    BY <2>6, <2>7 DEF v
<1> QED
  BY <1>1, <1>2, <1>3, <1>4

\* The tasks and events there were are as they were.
Untouched(w, v) ==
  /\ \A u \in DOMAIN w.task : u \in DOMAIN v.task /\ v.task[u] = w.task[u]
  /\ \A j \in DOMAIN w.mail : j \in DOMAIN v.mail /\ v.mail[j] = w.mail[j]

\* The loop of FireAll is well defined.
IsFiring(g, w, no) ==
  /\ g[0] = w
  /\ \A i \in 1..Len(SetToSeq(DueNow(w))) : g[i] = Fire(g[i - 1], SetToSeq(DueNow(w))[i], no)
  /\ FireAll(w, no) = g[Len(SetToSeq(DueNow(w)))]

\* There are such rounds.
LEMMA FireAllLoop ==
  ASSUME NEW w, NEW no, Len(SetToSeq(DueNow(w))) \in Nat
  PROVE  \E g : IsFiring(g, w, no)
<1> DEFINE list == SetToSeq(DueNow(w))
           n == Len(list)
           Is(g, k) == g = [i \in 0..k |-> IF i = 0 THEN w ELSE Fire(g[i - 1], list[i], no)]
           T0 == {k \in Nat : \E g : Is(g, k)}
<1> HIDE DEF list
<1>1. 0 \in T0
  <2> DEFINE h == [i \in 0..0 |-> w]
  <2>1. Is(h, 0)
    OBVIOUS
  <2> HIDE DEF h, Is
  <2> QED
    BY <2>1
<1>2. ASSUME NEW k \in T0 PROVE k + 1 \in T0
  <2>1. PICK g : Is(g, k)
    OBVIOUS
  <2> DEFINE h == [i \in 0..k + 1 |-> IF i <= k THEN g[i] ELSE Fire(g[k], list[k + 1], no)]
  <2>2. ASSUME NEW i \in 0..k + 1
        PROVE  h[i] = IF i = 0 THEN w ELSE Fire(h[i - 1], list[i], no)
    <3>1. CASE i = 0
      BY <2>1, <3>1
    <3>2. CASE i # 0 /\ i <= k
      <4>1. h[i] = g[i] /\ h[i - 1] = g[i - 1]
        BY <3>2
      <4> QED
        BY <2>1, <3>2, <4>1
    <3>3. CASE i = k + 1
      <4>1. h[i - 1] = g[k]
        BY <3>3
      <4> QED
        BY <3>3, <4>1
    <3> QED
      BY <3>1, <3>2, <3>3
  <2>3. h = [i \in 0..k + 1 |-> h[i]]
    OBVIOUS
  <2> HIDE DEF h
  <2>4. Is(h, k + 1)
    BY <2>2, <2>3
  <2> HIDE DEF Is
  <2> QED
    BY <2>4
<1>3. T0 = Nat
  <2> HIDE DEF T0
  <2>1. T0 \in SUBSET Nat
    BY DEF T0
  <2> QED
    BY <1>1, <1>2, <2>1, Counting
<1> DEFINE g == CHOOSE g : Is(g, n)
<1>4. Is(g, n)
  <2>1. \E f : Is(f, n)
    BY <1>3 DEF list
  <2> HIDE DEF Is
  <2> QED
    BY <2>1
<1>5. FireAll(w, no) = g[n]
  BY DEF FireAll, list
<1> HIDE DEF g
<1>6. g[0] = w
  BY <1>4
<1>7. \A i \in 1..n : g[i] = Fire(g[i - 1], list[i], no)
  BY <1>4
<1> QED
  BY <1>5, <1>6, <1>7 DEF IsFiring, list

\* Every schedule that is due is considered once.
LEMMA FireAllSound ==
  ASSUME now \in Nat, NEW w, Sound(Continuous, w), NEW no
  PROVE  LET v == FireAll(w, no) IN
         Sound(Continuous, v) /\ Grows(w, v) /\ Keeps(w, v) /\ Untouched(w, v)
<1> DEFINE S == DueNow(w)
           list == SetToSeq(S)
           n == Len(list)
           v == FireAll(w, no)
           After(u, i) ==
             /\ Sound(Continuous, u) /\ Grows(w, u) /\ Keeps(w, u) /\ Untouched(w, u)
             /\ \A k \in 1..n : k > i => u.trigger[list[k]] = w.trigger[list[k]]
<1>1. /\ n \in Nat /\ \A k \in 1..n : list[k] \in S
      /\ \A j, k \in 1..n : list[j] = list[k] => j = k
  <2> HIDE DEF S
  <2>1. IsFiniteSet(S)
    <3>1. IsFiniteSet(Triggers)
      BY WakeupsAssumption
    <3> QED
      BY <3>1, FS_Subset DEF S, DueNow
  <2>2. /\ Cardinality(S) \in Nat /\ list \in [1..Cardinality(S) -> S]
        /\ DOMAIN list = 1..Cardinality(S) /\ \A j, k \in DOMAIN list : list[j] = list[k] => j = k
    BY <2>1, Listing
  <2> HIDE DEF list
  <2>3. n = Cardinality(S)
    BY <2>2, SeqFromFunction
  <2> QED
    BY <2>2, <2>3
<1>2. PICK g : IsFiring(g, w, no)
  BY <1>1, FireAllLoop
<1>3. /\ g[0] = w /\ v = g[n]
      /\ \A i \in 1..n : g[i] = Fire(g[i - 1], list[i], no)
  BY <1>2 DEF IsFiring
<1>4. Housed(w.mail, w.task) /\ w \in Worlds
  BY DEF Sound
<1>5. \A x \in S : x \in Triggers /\ w.trigger[x].state = "active" /\ w.trigger[x].kind \in Schedules /\ w.trigger[x].due <= now
  BY DEF Active, DueNow
<1> HIDE DEF S, list, n, v
<1>6. After(g[0], 0)
  BY <1>3, GrowsReflexive DEF Untouched
<1>7. ASSUME NEW i \in 1..n, After(g[i - 1], i - 1) PROVE After(g[i], i)
  <2> DEFINE u == g[i - 1]
             u1 == g[i]
             x == list[i]
  <2>1. Sound(Continuous, u) /\ Grows(w, u) /\ Keeps(w, u) /\ Untouched(w, u)
    BY <1>7
  <2>2. \A k \in 1..n : k > i - 1 => u.trigger[list[k]] = w.trigger[list[k]]
    BY <1>7
  <2>3. x \in S /\ x \in Triggers /\ u.trigger[x] = w.trigger[x]
    BY <1>1, <1>5, <2>2
  <2>4. u1 = Fire(u, x, no)
    BY <1>3
  <2>5. u.trigger[x].state = "active" /\ u.trigger[x].kind \in Schedules /\ u.trigger[x].due <= now
    BY <1>5, <2>3
  <2>6. \A k \in 1..n : k > i => list[k] # x /\ list[k] \in Triggers
    BY <1>1, <1>5
  <2> HIDE DEF After, u, u1, x
  <2>7. Sound(Continuous, u1) /\ Grows(u, u1) /\ Keeps(u, u1) /\ Beyond(u, u1, x)
    BY <2>1, <2>3, <2>4, <2>5, FireSound DEF Active
  <2>8. Grows(w, u1) /\ Keeps(w, u1)
    BY <1>4, <2>1, <2>7, GrowsTransitive, KeepsTransitive
  <2>9. Untouched(w, u1)
    BY <2>1, <2>7 DEF Untouched, Beyond
  <2>10. \A k \in 1..n : k > i => u1.trigger[list[k]] = w.trigger[list[k]]
    <3> SUFFICES ASSUME NEW k \in 1..n, k > i PROVE u1.trigger[list[k]] = w.trigger[list[k]]
      OBVIOUS
    <3>1. u1.trigger[list[k]] = u.trigger[list[k]]
      BY <2>6, <2>7 DEF Beyond
    <3>2. k > i - 1
      BY <1>1
    <3> QED
      BY <2>2, <3>1, <3>2
  <2> QED
    BY <2>7, <2>8, <2>9, <2>10 DEF After, u1
<1> HIDE DEF After
<1>8. After(g[n], n)
  <2> DEFINE K == {i \in 0..n : After(g[i], i)}
  <2>1. ASSUME NEW i \in 1..n, i - 1 \in K PROVE i \in K
    BY <1>1, <1>7, <2>1
  <2>2. 0 \in K
    BY <1>1, <1>6
  <2> HIDE DEF K
  <2>3. \A i \in 0..n : i \in K
    BY <1>1, <2>1, <2>2, Rounds
  <2>4. n \in K
    BY <1>1, <2>3
  <2> QED
    BY <2>4 DEF K
<1> QED
  BY <1>3, <1>8 DEF After, v

\* The loop of NotifyAll is well defined.
IsTelling(g, w, kind, source, no) ==
  /\ g[0] = w
  /\ \A i \in 1..Len(SetToSeq(Subscribed(w, kind))) :
       g[i] = Notify(g[i - 1], SetToSeq(Subscribed(w, kind))[i], source, no)
  /\ NotifyAll(w, kind, source, no) = g[Len(SetToSeq(Subscribed(w, kind)))]

\* There are such rounds.
LEMMA NotifyAllLoop ==
  ASSUME NEW w, NEW kind, NEW source, NEW no, Len(SetToSeq(Subscribed(w, kind))) \in Nat
  PROVE  \E g : IsTelling(g, w, kind, source, no)
<1> DEFINE list == SetToSeq(Subscribed(w, kind))
           n == Len(list)
           Is(g, k) == g = [i \in 0..k |-> IF i = 0 THEN w ELSE Notify(g[i - 1], list[i], source, no)]
           T0 == {k \in Nat : \E g : Is(g, k)}
<1> HIDE DEF list
<1>1. 0 \in T0
  <2> DEFINE h == [i \in 0..0 |-> w]
  <2>1. Is(h, 0)
    OBVIOUS
  <2> HIDE DEF h, Is
  <2> QED
    BY <2>1
<1>2. ASSUME NEW k \in T0 PROVE k + 1 \in T0
  <2>1. PICK g : Is(g, k)
    OBVIOUS
  <2> DEFINE h == [i \in 0..k + 1 |-> IF i <= k THEN g[i] ELSE Notify(g[k], list[k + 1], source, no)]
  <2>2. ASSUME NEW i \in 0..k + 1
        PROVE  h[i] = IF i = 0 THEN w ELSE Notify(h[i - 1], list[i], source, no)
    <3>1. CASE i = 0
      BY <2>1, <3>1
    <3>2. CASE i # 0 /\ i <= k
      <4>1. h[i] = g[i] /\ h[i - 1] = g[i - 1]
        BY <3>2
      <4> QED
        BY <2>1, <3>2, <4>1
    <3>3. CASE i = k + 1
      <4>1. h[i - 1] = g[k]
        BY <3>3
      <4> QED
        BY <3>3, <4>1
    <3> QED
      BY <3>1, <3>2, <3>3
  <2>3. h = [i \in 0..k + 1 |-> h[i]]
    OBVIOUS
  <2> HIDE DEF h
  <2>4. Is(h, k + 1)
    BY <2>2, <2>3
  <2> HIDE DEF Is
  <2> QED
    BY <2>4
<1>3. T0 = Nat
  <2> HIDE DEF T0
  <2>1. T0 \in SUBSET Nat
    BY DEF T0
  <2> QED
    BY <1>1, <1>2, <2>1, Counting
<1> DEFINE g == CHOOSE g : Is(g, n)
<1>4. Is(g, n)
  <2>1. \E f : Is(f, n)
    BY <1>3 DEF list
  <2> HIDE DEF Is
  <2> QED
    BY <2>1
<1>5. NotifyAll(w, kind, source, no) = g[n]
  BY DEF NotifyAll, list
<1> HIDE DEF g
<1>6. g[0] = w
  BY <1>4
<1>7. \A i \in 1..n : g[i] = Notify(g[i - 1], list[i], source, no)
  BY <1>4
<1> QED
  BY <1>5, <1>6, <1>7 DEF IsTelling, list

\* Every subscription to what happened is considered once.
LEMMA NotifyAllSound ==
  ASSUME now \in Nat, NEW w, Sound(Continuous, w), NEW kind, NEW source, NEW no, kind # "cron"
  PROVE  LET v == NotifyAll(w, kind, source, no) IN
         Sound(Continuous, v) /\ Grows(w, v) /\ Keeps(w, v) /\ Untouched(w, v)
<1> DEFINE S == Subscribed(w, kind)
           list == SetToSeq(S)
           n == Len(list)
           v == NotifyAll(w, kind, source, no)
           After(u, i) ==
             /\ Sound(Continuous, u) /\ Grows(w, u) /\ Keeps(w, u) /\ Untouched(w, u)
             /\ \A k \in 1..n : k > i => u.trigger[list[k]] = w.trigger[list[k]]
<1>1. /\ n \in Nat /\ \A k \in 1..n : list[k] \in S
      /\ \A j, k \in 1..n : list[j] = list[k] => j = k
  <2> HIDE DEF S
  <2>1. IsFiniteSet(S)
    <3>1. IsFiniteSet(Triggers)
      BY WakeupsAssumption
    <3> QED
      BY <3>1, FS_Subset DEF S, Subscribed
  <2>2. /\ Cardinality(S) \in Nat /\ list \in [1..Cardinality(S) -> S]
        /\ DOMAIN list = 1..Cardinality(S) /\ \A j, k \in DOMAIN list : list[j] = list[k] => j = k
    BY <2>1, Listing
  <2> HIDE DEF list
  <2>3. n = Cardinality(S)
    BY <2>2, SeqFromFunction
  <2> QED
    BY <2>2, <2>3
<1>2. PICK g : IsTelling(g, w, kind, source, no)
  BY <1>1, NotifyAllLoop
<1>3. /\ g[0] = w /\ v = g[n]
      /\ \A i \in 1..n : g[i] = Notify(g[i - 1], list[i], source, no)
  BY <1>2 DEF IsTelling
<1>4. Housed(w.mail, w.task) /\ w \in Worlds
  BY DEF Sound
<1>5. \A x \in S : x \in Triggers /\ w.trigger[x].state = "active" /\ w.trigger[x].kind # "cron"
  BY DEF Active, Subscribed
<1> HIDE DEF S, list, n, v
<1>6. After(g[0], 0)
  BY <1>3, GrowsReflexive DEF Untouched
<1>7. ASSUME NEW i \in 1..n, After(g[i - 1], i - 1) PROVE After(g[i], i)
  <2> DEFINE u == g[i - 1]
             u1 == g[i]
             x == list[i]
  <2>1. Sound(Continuous, u) /\ Grows(w, u) /\ Keeps(w, u) /\ Untouched(w, u)
    BY <1>7
  <2>2. \A k \in 1..n : k > i - 1 => u.trigger[list[k]] = w.trigger[list[k]]
    BY <1>7
  <2>3. x \in S /\ x \in Triggers /\ u.trigger[x] = w.trigger[x]
    BY <1>1, <1>5, <2>2
  <2>4. u1 = Notify(u, x, source, no)
    BY <1>3
  <2>5. u.trigger[x].state = "active" /\ u.trigger[x].kind # "cron"
    BY <1>5, <2>3
  <2>6. \A k \in 1..n : k > i => list[k] # x /\ list[k] \in Triggers
    BY <1>1, <1>5
  <2> HIDE DEF After, u, u1, x
  <2>7. Sound(Continuous, u1) /\ Grows(u, u1) /\ Keeps(u, u1) /\ Beyond(u, u1, x)
    BY <2>1, <2>3, <2>4, <2>5, NotifySound DEF Active
  <2>8. Grows(w, u1) /\ Keeps(w, u1)
    BY <1>4, <2>1, <2>7, GrowsTransitive, KeepsTransitive
  <2>9. Untouched(w, u1)
    BY <2>1, <2>7 DEF Untouched, Beyond
  <2>10. \A k \in 1..n : k > i => u1.trigger[list[k]] = w.trigger[list[k]]
    <3> SUFFICES ASSUME NEW k \in 1..n, k > i PROVE u1.trigger[list[k]] = w.trigger[list[k]]
      OBVIOUS
    <3>1. u1.trigger[list[k]] = u.trigger[list[k]]
      BY <2>6, <2>7 DEF Beyond
    <3>2. k > i - 1
      BY <1>1
    <3> QED
      BY <2>2, <3>1, <3>2
  <2> QED
    BY <2>7, <2>8, <2>9, <2>10 DEF After, u1
<1> HIDE DEF After
<1>8. After(g[n], n)
  <2> DEFINE K == {i \in 0..n : After(g[i], i)}
  <2>1. ASSUME NEW i \in 1..n, i - 1 \in K PROVE i \in K
    BY <1>1, <1>7, <2>1
  <2>2. 0 \in K
    BY <1>1, <1>6
  <2> HIDE DEF K
  <2>3. \A i \in 0..n : i \in K
    BY <1>1, <2>1, <2>2, Rounds
  <2>4. n \in K
    BY <1>1, <2>3
  <2> QED
    BY <2>4 DEF K
<1> QED
  BY <1>3, <1>8 DEF After, v

\* pumpWakeups.
LEMMA PumpedSound ==
  ASSUME now \in Nat, NEW w, Sound(Continuous, w), NEW no
  PROVE  LET v == Pumped(w, no) IN Sound(Continuous, v) /\ Grows(w, v) /\ Keeps(w, v)
<1> DEFINE X == {x \in Triggers : w.trigger[x].kind \notin Schedules /\ Passed(Deadline)}
           u == Closes(w, X, "expired")
           T == Lapsed(w)
           k == TerminateAll(u, T, "failed", no)
           v == FireAll(k, no)
<1>1. Pumped(w, no) = v
  BY DEF Pumped
<1>2. w \in Worlds /\ Housed(w.mail, w.task)
  BY DEF Sound
<1>3. Sound(Continuous, u) /\ Grows(w, u) /\ Keeps(w, u)
  BY ClosesSound
<1>4. u.task = w.task
  BY <1>2, ClosesWorld
<1> HIDE DEF u
<1>5. T \in SUBSET DOMAIN u.task /\ "failed" \in Bad /\ \A t \in T : MayEnd(u, t, "failed")
  BY <1>4 DEF Lapsed, MayEnd, Bad
<1> HIDE DEF T
<1>6. Sound(Continuous, k) /\ Grows(u, k) /\ Keeps(u, k)
  BY <1>3, <1>5, TerminateAllSound
<1> HIDE DEF k
<1>7. Sound(Continuous, v) /\ Grows(k, v) /\ Keeps(k, v)
  BY <1>6, FireAllSound
<1> HIDE DEF v
<1>8. Grows(w, k) /\ Keeps(w, k)
  BY <1>2, <1>3, <1>6, GrowsTransitive, KeepsTransitive
<1>9. Grows(w, v) /\ Keeps(w, v)
  BY <1>2, <1>7, <1>8, GrowsTransitive, KeepsTransitive
<1> QED
  BY <1>1, <1>7, <1>9

-----------------------------------------------------------------------------
(* claim *)

\* A next call is prepared for a live task.
LEMMA PreparedSound ==
  ASSUME now \in Nat, NEW w, Sound(Continuous, w), NEW t \in DOMAIN w.task, Live(w, t)
  PROVE  LET v == Prepared(w, t) IN
         /\ Sound(Continuous, v) /\ Grows(w, v) /\ Keeps(w, v)
         /\ v.mail = w.mail /\ DOMAIN v.task = DOMAIN w.task /\ Live(v, t)
         /\ v.trigger = w.trigger /\ v.system = w.system /\ v.control = w.control
<1> DEFINE row == w.task[t]
           turn == row.turn + 1
           d == IF Continuous /\ row.deadline = 0 THEN now + Lifetime ELSE row.deadline
           r == [row EXCEPT !.turn = turn, !.state = "queued", !.awaits = 0, !.deadline = d]
           v == Prepared(w, t)
<1>1. w \in Worlds /\ row \in TaskRows
  BY WorldFields DEF Sound
<1>2. turn \in Nat /\ d \in Nat
  <2>1. row.turn \in Nat /\ row.deadline \in Nat
    BY <1>1 DEF TaskRows
  <2>2. Lifetime \in Nat
    BY WakeupsAssumption
  <2> QED
    BY <2>1, <2>2
<1>3. v = [w EXCEPT !.task = [w.task EXCEPT ![t] = r]]
  BY DEF Prepared
<1> HIDE DEF turn, d, v
<1>4. r \in TaskRows
  BY <1>1, <1>2 DEF TaskRows, TaskStates, LiveStates
<1>5. r.agent = row.agent /\ r.parent = row.parent /\ r.stopped = row.stopped /\ r.state = "queued"
  BY <1>1 DEF TaskRows
<1>6. r.state \in LiveStates
  BY <1>5, StatesApart
<1> HIDE DEF r
<1>7. /\ Sound(Continuous, v) /\ Grows(w, v) /\ Keeps(w, v)
      /\ v.mail = w.mail /\ DOMAIN v.task = DOMAIN w.task
      /\ v.trigger = w.trigger /\ v.system = w.system /\ v.control = w.control
      /\ \A u \in DOMAIN w.task : v.task[u] = IF u = t THEN r ELSE w.task[u]
  BY <1>3, <1>4, <1>5, <1>6, LiveRowSound
<1> QED
  BY <1>6, <1>7 DEF v, Live

\* A live task reads the inputs and wakeups that are there.
LEMMA ConsumedSound ==
  ASSUME NEW w, Sound(Continuous, w), NEW t
  PROVE  LET v == Consumed(w, t) IN
         /\ Sound(Continuous, v) /\ Grows(w, v) /\ Keeps(w, v)
         /\ v.task = w.task /\ DOMAIN v.mail = DOMAIN w.mail
         /\ \A j \in DOMAIN w.mail : /\ v.mail[j].task = w.mail[j].task
                                     /\ v.mail[j].state # w.mail[j].state => v.mail[j].state = "acked"
<1> DEFINE row(j) == IF IsUnread(w.mail[j], t) /\ ~w.mail[j].applied
                     THEN [w.mail[j] EXCEPT !.state = "acked", !.applied = TRUE] ELSE w.mail[j]
           f == [j \in DOMAIN w.mail |-> row(j)]
           v == Consumed(w, t)
<1>1. w \in Worlds /\ \A j \in DOMAIN w.mail : w.mail[j] \in EventRows
  BY WorldFields DEF Sound
<1>2. ASSUME NEW j \in DOMAIN w.mail
      PROVE  /\ row(j) \in EventRows /\ row(j).task = w.mail[j].task /\ row(j).kind = w.mail[j].kind
             /\ row(j).trigger = w.mail[j].trigger /\ row(j).due = w.mail[j].due
             /\ row(j).at = w.mail[j].at
             /\ row(j).state # w.mail[j].state => row(j).state = "acked" /\ w.mail[j].state = "pending"
  <2>1. CASE IsUnread(w.mail[j], t) /\ ~w.mail[j].applied
    <3> DEFINE e == w.mail[j]
               r == [e EXCEPT !.state = "acked", !.applied = TRUE]
    <3>1. row(j) = r /\ e.state = "pending"
      BY <2>1 DEF IsUnread
    <3>2. e \in EventRows
      BY <1>1
    <3> HIDE DEF e, row
    <3>3. r \in EventRows
      BY <3>2 DEF EventRows
    <3>4. /\ r.state = "acked" /\ r.task = e.task /\ r.kind = e.kind
          /\ r.trigger = e.trigger /\ r.due = e.due /\ r.at = e.at
      BY <3>2 DEF EventRows
    <3> HIDE DEF r
    <3> QED
      BY <3>1, <3>3, <3>4 DEF e
  <2>2. CASE ~(IsUnread(w.mail[j], t) /\ ~w.mail[j].applied)
    BY <1>1, <2>2
  <2> QED
    BY <2>1, <2>2
<1>3. v = [w EXCEPT !.mail = Table(f)]
  BY DEF Consumed
<1> HIDE DEF row, v
<1>4. f = [j \in DOMAIN w.mail |-> f[j]] /\ \A j \in DOMAIN w.mail : f[j] \in EventRows /\ f[j] = row(j)
  BY <1>2
<1> HIDE DEF f
<1>5. /\ v \in Worlds /\ v.task = w.task /\ v.trigger = w.trigger /\ v.system = w.system
      /\ v.control = w.control /\ v.agents = w.agents
      /\ DOMAIN v.mail = DOMAIN w.mail /\ \A j \in DOMAIN w.mail : v.mail[j] = row(j)
  BY <1>1, <1>3, <1>4, MailRewritten, SMTT(20)
<1>6. SameEvents(w.mail, v.mail)
  BY <1>2, <1>5 DEF SameEvents
<1>7. Housed(v.mail, v.task) /\ OneLease(v.mail)
  BY <1>2, <1>5 DEF Sound, Housed, OneLease
<1>8. Standing(Continuous, v.trigger, v.task) /\ Obeyed(Continuous, v)
  BY <1>5 DEF Sound, Obeyed
<1>9. Sound(Continuous, v)
  BY <1>5, <1>6, <1>7, <1>8, LaterReflexive, FadesReflexive, CalmStep
<1>10. Grows(w, v)
  BY <1>5, <1>6, LaterReflexive DEF Grows, Fewer, SameEvents
<1>11. Keeps(w, v)
  BY <1>2, <1>5 DEF Keeps
<1> QED
  BY <1>2, <1>5, <1>9, <1>10, <1>11 DEF v

\* The delivery of a live task without another lease is leased.
LEMMA LeasesSound ==
  ASSUME now \in Nat, NEW w, Sound(Continuous, w), NEW j \in DOMAIN w.mail, w.mail[j].state = "pending",
         Live(w, w.mail[j].task), \A i \in Leased(w) : w.mail[i].task # w.mail[j].task
  PROVE  LET v == Leases(w, j) IN Sound(Continuous, v) /\ Grows(w, v) /\ Keeps(w, v)
<1> DEFINE t == w.mail[j].task
           u == IF NeedsCall(w, j) THEN Prepared(w, t) ELSE w
           q == Consumed(u, t)
           r == [q.task[t] EXCEPT !.state = "running", !.used = "none"]
           k == [q EXCEPT !.task = [q.task EXCEPT ![t] = r]]
           e == [k.mail[j] EXCEPT !.state = "leased", !.applied = TRUE]
           M == [k.mail EXCEPT ![j] = e]
           v == [k EXCEPT !.mail = M]
<1>1. w \in Worlds /\ t \in DOMAIN w.task /\ Housed(w.mail, w.task)
  BY DEF Sound, Housed
<1>2. /\ Sound(Continuous, u) /\ Grows(w, u) /\ Keeps(w, u) /\ u.mail = w.mail
      /\ DOMAIN u.task = DOMAIN w.task /\ Live(u, t)
  <2>1. CASE NeedsCall(w, j)
    <3> DEFINE p == Prepared(w, t)
    <3>1. Sound(Continuous, p) /\ Grows(w, p) /\ Keeps(w, p) /\ p.mail = w.mail
      BY <1>1, PreparedSound
    <3>2. DOMAIN p.task = DOMAIN w.task /\ Live(p, t)
      BY <1>1, PreparedSound
    <3>3. u = p
      BY <2>1
    <3> HIDE DEF p, u, t
    <3> QED
      BY <3>1, <3>2, <3>3
  <2>2. CASE ~NeedsCall(w, j)
    BY <2>2, GrowsReflexive
  <2> QED
    BY <2>1, <2>2
<1> HIDE DEF u, t
<1>3. /\ Sound(Continuous, q) /\ Grows(u, q) /\ Keeps(u, q) /\ q.task = u.task
      /\ DOMAIN q.mail = DOMAIN w.mail
      /\ \A i \in DOMAIN w.mail : /\ q.mail[i].task = w.mail[i].task
                                  /\ q.mail[i].state # w.mail[i].state => q.mail[i].state = "acked"
  BY <1>2, ConsumedSound
<1> HIDE DEF q
<1>4. q \in Worlds /\ q.task[t] \in TaskRows /\ t \in DOMAIN q.task /\ Live(q, t)
  BY <1>1, <1>2, <1>3, WorldFields DEF Sound, Live
<1>5. /\ r \in TaskRows /\ r.agent = q.task[t].agent /\ r.parent = q.task[t].parent
      /\ r.stopped = q.task[t].stopped /\ r.state = "running"
  <2>1. r \in TaskRows
    BY <1>4 DEF TaskRows, TaskStates, LiveStates
  <2>2. /\ r.agent = q.task[t].agent /\ r.parent = q.task[t].parent
        /\ r.stopped = q.task[t].stopped /\ r.state = "running"
    BY <1>4 DEF TaskRows
  <2> QED
    BY <2>1, <2>2
<1> HIDE DEF r
<1>6. /\ Sound(Continuous, k) /\ Grows(q, k) /\ k.mail = q.mail
      /\ DOMAIN k.task = DOMAIN q.task
  BY <1>3, <1>4, <1>5, LiveRowSound, StatesApart
<1>7. k.task[t].state = "running" /\ \A i \in DOMAIN q.task : i # t => k.task[i] = q.task[i]
  BY <1>3, <1>4, <1>5, LiveRowSound, StatesApart
<1>8. Leases(w, j) = v
  <2>1. Leases(w, j) = [q EXCEPT !.task[t] = r, !.mail[j] = [@ EXCEPT !.state = "leased", !.applied = TRUE]]
    BY DEF Leases, q, u, t, r
  <2> QED
    BY <1>4, <2>1 DEF Worlds
<1> HIDE DEF k
<1>9. k \in Worlds /\ k.mail \in Seq(EventRows) /\ k.mail[j] \in EventRows /\ j \in DOMAIN k.mail
  BY <1>3, <1>6, WorldFields DEF Sound
<1>10. e \in EventRows /\ e.state = "leased"
  BY <1>9 DEF EventRows
<1>11. /\ e.task = k.mail[j].task /\ e.kind = k.mail[j].kind
       /\ e.trigger = k.mail[j].trigger /\ e.due = k.mail[j].due /\ e.at = k.mail[j].at
  BY <1>9 DEF EventRows
<1> HIDE DEF e
<1>12. /\ M \in Seq(EventRows) /\ DOMAIN M = DOMAIN k.mail
       /\ \A i \in DOMAIN k.mail : M[i] = IF i = j THEN e ELSE k.mail[i]
  BY <1>9, <1>10, RowChanged
<1> HIDE DEF M
<1>13. /\ v \in Worlds /\ v.task = k.task /\ v.trigger = k.trigger /\ v.system = k.system
       /\ v.control = k.control /\ v.agents = k.agents /\ v.mail = M
  BY <1>9, <1>12, FieldWritten, FieldKept
<1> HIDE DEF v
<1>14. SameEvents(k.mail, M)
  BY <1>11, <1>12 DEF SameEvents
<1>15. Housed(M, k.task)
  <2>1. M[j].task = t /\ k.task[t].state # "completed" /\ t \in DOMAIN k.task
    BY <1>1, <1>3, <1>4, <1>6, <1>7, <1>9, <1>11, <1>12 DEF t
  <2> QED
    BY <1>6, <1>12, <2>1 DEF Sound, Housed
<1>16. OneLease(M)
  <2>1. \A i \in DOMAIN k.mail : i # j /\ k.mail[i].state = "leased" => k.mail[i].task # t
    BY <1>3, <1>6 DEF Leased, t
  <2>2. M[j].task = t
    BY <1>3, <1>6, <1>9, <1>11, <1>12 DEF t
  <2> QED
    BY <1>6, <1>12, <2>1, <2>2 DEF Sound, OneLease
<1>17. Sound(Continuous, v)
  BY <1>6, <1>13, <1>14, <1>15, <1>16, LaterReflexive, FadesReflexive, CalmStep DEF Sound, Obeyed
<1>18. Grows(k, v)
  BY <1>13, <1>14, LaterReflexive DEF Grows, Fewer, SameEvents
<1>19. Grows(w, q) /\ Keeps(w, q)
  BY <1>1, <1>2, <1>3, GrowsTransitive, KeepsTransitive
<1>20. Grows(w, v)
  <2>1. Grows(w, k)
    BY <1>6, <1>19, GrowsTransitive
  <2> QED
    BY <1>18, <2>1, GrowsTransitive
<1>21. Keeps(w, v)
  <2> SUFFICES ASSUME NEW i \in DOMAIN w.mail
               PROVE  /\ v.mail[i].kind = w.mail[i].kind
                      /\ w.mail[i].kind \in Carried =>
                           /\ v.mail[i].task = w.mail[i].task
                           /\ v.mail[i].state # w.mail[i].state =>
                                /\ w.mail[i].state = "pending"
                                /\ v.mail[i].state = "dead" => v.task[w.mail[i].task].state \in Bad
    BY DEF Keeps
  <2>1. v.mail[i].kind = w.mail[i].kind
    BY <1>3, <1>6, <1>13, <1>14, <1>19 DEF Keeps, SameEvents
  <2>2. CASE i = j
    <3>1. v.mail[i].task = w.mail[i].task /\ v.mail[i].state = "leased" /\ w.mail[i].state = "pending"
      BY <1>3, <1>6, <1>9, <1>10, <1>11, <1>12, <1>13, <2>2
    <3> QED
      BY <2>1, <3>1
  <2>3. CASE i # j
    <3>1. v.mail[i] = q.mail[i]
      BY <1>3, <1>6, <1>12, <1>13, <2>3
    <3>2. q.mail[i].state # "dead" \/ q.mail[i].state = w.mail[i].state
      BY <1>3
    <3> QED
      BY <1>19, <2>1, <3>1, <3>2 DEF Keeps
  <2> QED
    BY <2>2, <2>3
<1> QED
  BY <1>8, <1>17, <1>20, <1>21

\* A pending delivery dies with its task.
LEMMA MarkedDead ==
  ASSUME NEW w, Sound(Continuous, w), NEW j \in DOMAIN w.mail, w.mail[j].state = "pending",
         NEW u, Grows(Mark(w, j, "dead"), u), Keeps(Mark(w, j, "dead"), u),
         w.mail[j].kind \in Carried => u.task[w.mail[j].task].state \in Bad
  PROVE  Grows(w, u) /\ Keeps(w, u)
<1> DEFINE v == Mark(w, j, "dead")
<1>1. w \in Worlds
  BY DEF Sound
<1>2. /\ v.task = w.task /\ SameEvents(w.mail, v.mail)
      /\ \A k \in DOMAIN w.mail : /\ v.mail[k].task = w.mail[k].task
                                  /\ v.mail[k].state = IF k = j THEN "dead" ELSE w.mail[k].state
  BY <1>1, MarkWorld
<1>3. Grows(w, v)
  BY MarkSound
<1>4. Grows(v, u) /\ Keeps(v, u)
  OBVIOUS
<1> HIDE DEF v
<1>5. Grows(w, u)
  BY <1>3, <1>4, GrowsTransitive
<1>6. Keeps(w, u)
  <2> SUFFICES ASSUME NEW i \in DOMAIN w.mail
               PROVE  /\ u.mail[i].kind = w.mail[i].kind
                      /\ w.mail[i].kind \in Carried =>
                           /\ u.mail[i].task = w.mail[i].task
                           /\ u.mail[i].state # w.mail[i].state =>
                                /\ w.mail[i].state = "pending"
                                /\ u.mail[i].state = "dead" => u.task[w.mail[i].task].state \in Bad
    BY DEF Keeps
  <2>1. i \in DOMAIN v.mail /\ v.mail[i].kind = w.mail[i].kind /\ v.mail[i].task = w.mail[i].task
    BY <1>2 DEF SameEvents
  <2>2. u.mail[i].kind = v.mail[i].kind /\ (v.mail[i].kind \in Carried => u.mail[i].task = v.mail[i].task)
    BY <1>4, <2>1 DEF Keeps
  <2>3. CASE i = j
    BY <2>1, <2>2, <2>3
  <2>4. CASE i # j
    BY <1>2, <1>4, <2>1, <2>4 DEF Keeps
  <2> QED
    BY <2>3, <2>4
<1> QED
  BY <1>5, <1>6

\* A continuous goal cancels its root only when its system was told to stop.
LEMMA HaltedMayEnd ==
  ASSUME NEW w, Sound(Continuous, w), NEW t \in DOMAIN w.task, Live(w, t)
  PROVE  /\ MayEnd(w, t, "failed") /\ MayEnd(w, t, "rejected")
         /\ Halted(w, t) => MayEnd(w, t, "canceled")
<1>1. {"failed", "rejected", "canceled"} \subseteq Bad
  BY DEF Bad
<1>2. Halted(w, t) /\ Continuous /\ w.task[t].parent = 0 => Stopping(w.system)
  <2>1. w.system \in SystemStates
    BY WorldFields DEF Sound
  <2> QED
    BY <2>1 DEF Sound, Obeyed, Halted, Stopping, SystemStates, Live
<1> QED
  BY <1>1, <1>2 DEF MayEnd

\* What claim knows of the deliveries it has considered.
IsSearch(c) == c = [found |-> c.found, w |-> c.w]
Unsearched(w) == [found |-> FALSE, w |-> w]

\* One delivery is considered: it may kill its task, be dead, be leased or be left.
LEMMA ConsiderSound ==
  ASSUME now \in Nat, NEW c, IsSearch(c), Sound(Continuous, c.w), NEW j \in DOMAIN c.w.mail, NEW no
  PROVE  LET d == Consider(c, j, no) IN
         IsSearch(d) /\ Sound(Continuous, d.w) /\ Grows(c.w, d.w) /\ Keeps(c.w, d.w)
<1> DEFINE w == c.w
           t == w.mail[j].task
           d == Consider(c, j, no)
           state == IF Halted(w, t) THEN "canceled" ELSE "failed"
           Skips == \/ c.found \/ w.mail[j].state # "pending"
                    \/ \E i \in Leased(w) : w.task[w.mail[i].task].agent = w.task[t].agent
<1>1. t \in DOMAIN w.task /\ (w.mail[j].state = "pending" => w.task[t].state # "completed")
  BY DEF Sound, Housed
<1>2. \A v : IsSearch([c EXCEPT !.w = v]) /\ [c EXCEPT !.w = v].w = v
  BY DEF IsSearch
<1>3. CASE Skips
  <2>1. d = c
    BY <1>3 DEF Consider
  <2> HIDE DEF d
  <2> QED
    BY <2>1, GrowsReflexive DEF d
<1>4. CASE ~Skips /\ Doomed(w, j)
  <2> DEFINE v == Mark(w, j, "dead")
             u == Terminate(v, t, state, no)
  <2>1. d = [c EXCEPT !.w = u]
    BY <1>4 DEF Consider
  <2>2. w.mail[j].state = "pending"
    BY <1>4
  <2>3. Sound(Continuous, v) /\ Grows(w, v)
    BY MarkSound
  <2>4. w \in Worlds
    BY DEF Sound
  <2>5. v.task = w.task /\ v.system = w.system /\ v.agents = w.agents /\ v.control = w.control
    BY <2>4, MarkWorld
  <2> HIDE DEF v
  <2>6. state \in Bad
    BY DEF Bad
  <2>7. Live(v, t) => MayEnd(v, t, state)
    <3>1. Live(v, t) => /\ MayEnd(v, t, "failed")
                        /\ Halted(v, t) => MayEnd(v, t, "canceled")
      BY <1>1, <2>3, <2>5, HaltedMayEnd
    <3>2. Halted(v, t) = Halted(w, t)
      BY <2>5 DEF Halted
    <3> QED
      BY <3>1, <3>2
  <2> HIDE DEF state, d
  <2>8. /\ Sound(Continuous, u) /\ Grows(v, u) /\ Keeps(v, u)
        /\ u.task[t].state \notin LiveStates /\ (Live(v, t) => u.task[t].state = state)
    BY <1>1, <2>3, <2>5, <2>6, <2>7, TerminateSound
  <2> HIDE DEF u
  <2>9. u.task[t].state \in Bad
    <3>1. CASE Live(v, t)
      BY <2>6, <2>8, <3>1
    <3>2. CASE ~Live(v, t)
      <4>1. u.task[t].state = w.task[t].state
        BY <1>1, <2>5, <2>8, <3>2 DEF Grows, Later, Live
      <4>2. w.task[t] \in TaskRows
        BY <1>1, <2>4, WorldFields
      <4> QED
        BY <1>1, <2>2, <2>8, <4>1, <4>2 DEF TaskRows, TaskStates
    <3> QED
      BY <3>1, <3>2
  <2>10. Grows(w, u) /\ Keeps(w, u)
    BY <2>2, <2>8, <2>9, MarkedDead DEF v
  <2> HIDE DEF w
  <2> QED
    BY <1>2, <2>1, <2>8, <2>10 DEF d, w
<1>5. CASE ~Skips /\ ~Doomed(w, j) /\ ~Runnable(w, j)
  <2>1. d = c
    BY <1>5 DEF Consider
  <2> HIDE DEF d
  <2> QED
    BY <2>1, GrowsReflexive DEF d
<1>6. CASE ~Skips /\ ~Doomed(w, j) /\ Runnable(w, j) /\ Stray(w, j)
  <2> DEFINE v == Mark(w, j, "dead")
  <2>1. d = [c EXCEPT !.w = v]
    BY <1>6 DEF Consider
  <2>2. w.mail[j].state = "pending" /\ w.mail[j].kind \notin Carried
    BY <1>6 DEF Stray, Carried
  <2>3. Sound(Continuous, v)
    BY MarkSound
  <2> HIDE DEF d, w, state
  <2>4. Grows(w, v) /\ Keeps(w, v)
    BY <2>2, GrowsReflexive, MarkedDead DEF w
  <2> QED
    BY <1>2, <2>1, <2>3, <2>4 DEF d, w
<1>7. CASE /\ ~Skips /\ ~Doomed(w, j) /\ Runnable(w, j) /\ ~Stray(w, j)
           /\ NeedsCall(w, j) /\ ~CanPrepare(w, t)
  <2> DEFINE u == Terminate(w, t, "rejected", no)
  <2>1. d = [c EXCEPT !.w = u]
    BY <1>7 DEF Consider
  <2>2. Live(w, t) /\ "rejected" \in Bad
    BY <1>7 DEF Doomed, Bad
  <2>3. MayEnd(w, t, "rejected")
    BY <1>1, <2>2, HaltedMayEnd
  <2>4. Sound(Continuous, u) /\ Grows(w, u) /\ Keeps(w, u)
    BY <1>1, <2>2, <2>3, TerminateSound
  <2> HIDE DEF u, d
  <2> QED
    BY <1>2, <2>1, <2>4 DEF d
<1>8. CASE /\ ~Skips /\ ~Doomed(w, j) /\ Runnable(w, j) /\ ~Stray(w, j)
           /\ ~(NeedsCall(w, j) /\ ~CanPrepare(w, t))
  <2> DEFINE u == Leases(w, j)
  <2>1. d = [found |-> TRUE, w |-> u]
    BY <1>8 DEF Consider
  <2>2. Live(w, t) /\ w.mail[j].state = "pending"
    BY <1>8 DEF Doomed
  <2>3. \A i \in Leased(w) : w.mail[i].task # t
    BY <1>8
  <2>4. Sound(Continuous, u) /\ Grows(w, u) /\ Keeps(w, u)
    BY <2>2, <2>3, LeasesSound
  <2> HIDE DEF u, d
  <2> QED
    BY <2>1, <2>4 DEF IsSearch, d
<1> HIDE DEF d, Skips, w, t, state
<1> QED
  BY <1>3, <1>4, <1>5, <1>6, <1>7, <1>8 DEF d, w

\* The loop of claim over the pending deliveries is well defined.
IsClaiming(g, w, no) ==
  /\ g[0] = Unsearched(w)
  /\ \A i \in 1..Len(w.mail) : g[i] = Consider(g[i - 1], i, no)
  /\ Considered(w, no) = g[Len(w.mail)].w

\* There are such rounds.
LEMMA ConsideredLoop ==
  ASSUME NEW w, NEW no, Len(w.mail) \in Nat
  PROVE  \E g : IsClaiming(g, w, no)
<1> DEFINE n == Len(w.mail)
           Is(g, k) == g = [i \in 0..k |-> IF i = 0 THEN Unsearched(w) ELSE Consider(g[i - 1], i, no)]
           T0 == {k \in Nat : \E g : Is(g, k)}
<1>1. 0 \in T0
  <2> DEFINE h == [i \in 0..0 |-> Unsearched(w)]
  <2>1. Is(h, 0)
    OBVIOUS
  <2> HIDE DEF h, Is
  <2> QED
    BY <2>1
<1>2. ASSUME NEW k \in T0 PROVE k + 1 \in T0
  <2>1. PICK g : Is(g, k)
    OBVIOUS
  <2> DEFINE h == [i \in 0..k + 1 |-> IF i <= k THEN g[i] ELSE Consider(g[k], k + 1, no)]
  <2>2. ASSUME NEW i \in 0..k + 1
        PROVE  h[i] = IF i = 0 THEN Unsearched(w) ELSE Consider(h[i - 1], i, no)
    <3>1. CASE i = 0
      BY <2>1, <3>1
    <3>2. CASE i # 0 /\ i <= k
      <4>1. h[i] = g[i] /\ h[i - 1] = g[i - 1]
        BY <3>2
      <4> QED
        BY <2>1, <3>2, <4>1
    <3>3. CASE i = k + 1
      <4>1. h[i - 1] = g[k]
        BY <3>3
      <4> QED
        BY <3>3, <4>1
    <3> QED
      BY <3>1, <3>2, <3>3
  <2>3. h = [i \in 0..k + 1 |-> h[i]]
    OBVIOUS
  <2> HIDE DEF h
  <2>4. Is(h, k + 1)
    BY <2>2, <2>3
  <2> HIDE DEF Is
  <2> QED
    BY <2>4
<1>3. T0 = Nat
  <2> HIDE DEF T0
  <2>1. T0 \in SUBSET Nat
    BY DEF T0
  <2> QED
    BY <1>1, <1>2, <2>1, Counting
<1> DEFINE g == CHOOSE g : Is(g, n)
<1>4. Is(g, n)
  <2>1. \E f : Is(f, n)
    BY <1>3
  <2> HIDE DEF Is
  <2> QED
    BY <2>1
<1>5. Considered(w, no) = g[n].w
  BY DEF Considered, Unsearched
<1> HIDE DEF g
<1>6. g[0] = Unsearched(w)
  BY <1>4
<1>7. \A i \in 1..n : g[i] = Consider(g[i - 1], i, no)
  BY <1>4
<1> QED
  BY <1>5, <1>6, <1>7 DEF IsClaiming

\* Every delivery is considered once.
LEMMA ConsideredSound ==
  ASSUME now \in Nat, NEW w, Sound(Continuous, w), NEW no
  PROVE  LET v == Considered(w, no) IN Sound(Continuous, v) /\ Grows(w, v) /\ Keeps(w, v)
<1> DEFINE n == Len(w.mail)
           v == Considered(w, no)
           After(c, i) == IsSearch(c) /\ Sound(Continuous, c.w) /\ Grows(w, c.w) /\ Keeps(w, c.w)
<1>1. w \in Worlds /\ n \in Nat /\ DOMAIN w.mail = 1..n /\ Housed(w.mail, w.task)
  BY WorldFields DEF Sound
<1>2. PICK g : IsClaiming(g, w, no)
  BY <1>1, ConsideredLoop
<1>3. /\ g[0] = Unsearched(w) /\ v = g[n].w
      /\ \A i \in 1..n : g[i] = Consider(g[i - 1], i, no)
  BY <1>2 DEF IsClaiming
<1> HIDE DEF n, v
<1>4. After(g[0], 0)
  BY <1>3, GrowsReflexive DEF IsSearch, Unsearched
<1>5. ASSUME NEW i \in 1..n, After(g[i - 1], i - 1) PROVE After(g[i], i)
  <2> DEFINE c == g[i - 1]
             d == g[i]
  <2>1. d = Consider(c, i, no)
    BY <1>3
  <2>2. IsSearch(c) /\ Sound(Continuous, c.w) /\ Grows(w, c.w) /\ Keeps(w, c.w)
    BY <1>5
  <2> HIDE DEF c, d
  <2>3. i \in DOMAIN c.w.mail
    BY <1>1, <2>2 DEF Grows
  <2>4. IsSearch(d) /\ Sound(Continuous, d.w) /\ Grows(c.w, d.w) /\ Keeps(c.w, d.w)
    BY <2>1, <2>2, <2>3, ConsiderSound
  <2>5. Grows(w, d.w) /\ Keeps(w, d.w)
    BY <1>1, <2>2, <2>4, GrowsTransitive, KeepsTransitive
  <2> QED
    BY <2>4, <2>5 DEF d
<1> HIDE DEF After
<1>6. After(g[n], n)
  <2> DEFINE K == {i \in 0..n : After(g[i], i)}
  <2>1. ASSUME NEW i \in 1..n, i - 1 \in K PROVE i \in K
    BY <1>1, <1>5, <2>1
  <2>2. 0 \in K
    BY <1>1, <1>4
  <2> HIDE DEF K
  <2>3. \A i \in 0..n : i \in K
    BY <1>1, <2>1, <2>2, Rounds
  <2>4. n \in K
    BY <1>1, <2>3
  <2> QED
    BY <2>4 DEF K
<1> QED
  BY <1>3, <1>6 DEF After, v

\* One claim.
LEMMA ClaimedSound ==
  ASSUME now \in Nat, Sound(Continuous, World), NEW no
  PROVE  LET v == Claimed(no) IN Sound(Continuous, v) /\ Grows(World, v) /\ Keeps(World, v)
<1> DEFINE w == World
           u == Pumped(w, no)
           k == Considered(u, no)
           v == Swept(k)
<1>1. Claimed(no) = v
  BY DEF Claimed
<1>2. Housed(w.mail, w.task) /\ w \in Worlds /\ Sound(Continuous, w)
  BY DEF Sound
<1> HIDE DEF w
<1>3. Sound(Continuous, u) /\ Grows(w, u) /\ Keeps(w, u)
  BY <1>2, PumpedSound
<1> HIDE DEF u
<1>4. Sound(Continuous, k) /\ Grows(u, k) /\ Keeps(u, k)
  BY <1>3, ConsideredSound
<1> HIDE DEF k
<1>5. Sound(Continuous, v) /\ Grows(k, v) /\ Keeps(k, v)
  BY <1>4, SweptSound
<1> HIDE DEF v
<1>6. Grows(w, k) /\ Keeps(w, k)
  BY <1>2, <1>3, <1>4, GrowsTransitive, KeepsTransitive
<1>7. Grows(w, v) /\ Keeps(w, v)
  BY <1>2, <1>5, <1>6, GrowsTransitive, KeepsTransitive
<1> QED
  BY <1>1, <1>5, <1>7 DEF w

-----------------------------------------------------------------------------
(* An activation ends. *)

\* A leased delivery is marked: what was pending before is pending still.
LEMMA MarkedLease ==
  ASSUME NEW w \in Worlds, NEW j \in Leased(w), NEW s \in {"acked", "dead"}, NEW u, Spares(Mark(w, j, s), u)
  PROVE  Spares(w, u)
<1>1. j \in DOMAIN w.mail /\ w.mail[j].state = "leased"
  BY DEF Leased
<1> DEFINE v == Mark(w, j, s)
<1>2. /\ SameEvents(w.mail, v.mail)
      /\ \A k \in DOMAIN w.mail : /\ v.mail[k].task = w.mail[k].task
                                  /\ v.mail[k].state = IF k = j THEN s ELSE w.mail[k].state
  BY <1>1, MarkWorld
<1>3. Spares(v, u)
  OBVIOUS
<1> HIDE DEF v
<1> QED
  BY <1>1, <1>2, <1>3 DEF Spares, SameEvents

\* The task waits.
LEMMA SleepsSound ==
  ASSUME NEW w, Sound(Continuous, w), NEW t \in DOMAIN w.task, Live(w, t)
  PROVE  LET v == Sleeps(w, t) IN Sound(Continuous, v) /\ Grows(w, v) /\ Keeps(w, v)
<1> DEFINE row == w.task[t]
           r == [row EXCEPT !.state = "waiting", !.awaits = 0]
           v == Sleeps(w, t)
<1>1. row \in TaskRows
  BY WorldFields DEF Sound
<1>2. v = [w EXCEPT !.task = [w.task EXCEPT ![t] = r]]
  BY DEF Sleeps
<1>3. r \in TaskRows
  BY <1>1 DEF TaskRows, TaskStates, LiveStates
<1>4. r.agent = row.agent /\ r.parent = row.parent /\ r.stopped = row.stopped /\ r.state = "waiting"
  BY <1>1 DEF TaskRows
<1> HIDE DEF r, v
<1>5. r.state \in LiveStates
  BY <1>4, StatesApart
<1> QED
  BY <1>2, <1>3, <1>4, <1>5, LiveRowSound DEF v

\* The task goes on with what is pending, or with a continuation.
LEMMA ContinuesSound ==
  ASSUME now \in Nat, NEW w, Sound(Continuous, w), NEW t \in DOMAIN w.task, Live(w, t), NEW no
  PROVE  LET v == Continues(w, t, no) IN Sound(Continuous, v) /\ Grows(w, v) /\ Keeps(w, v)
<1> DEFINE More == \E j \in DOMAIN w.mail : w.mail[j].task = t /\ w.mail[j].state = "pending"
           v == Continues(w, t, no)
           p == Prepared(w, t)
<1>1. /\ Sound(Continuous, p) /\ Grows(w, p) /\ Keeps(w, p)
      /\ DOMAIN p.task = DOMAIN w.task /\ Live(p, t)
  BY PreparedSound
<1>2. CASE ~CanPrepare(w, t)
  <2>1. v = Terminate(w, t, "rejected", no)
    BY <1>2 DEF Continues
  <2>2. "rejected" \in Bad
    BY DEF Bad
  <2> HIDE DEF v
  <2> QED
    BY <2>1, <2>2, HaltedMayEnd, TerminateSound DEF v
<1>3. CASE CanPrepare(w, t) /\ More
  <2>1. v = p
    BY <1>3 DEF Continues
  <2> HIDE DEF v, p
  <2> QED
    BY <1>1, <2>1 DEF v
<1>4. CASE CanPrepare(w, t) /\ ~More
  <2> DEFINE e == Event(t, "continue", 0, NoTrigger, 0)
             u == Post(p, e)
  <2>1. v = u
    BY <1>4 DEF Continues
  <2> HIDE DEF v, p
  <2>2. t \in Nat
    BY WorldFields DEF Sound
  <2>3. e \in EventRows /\ e.task = t /\ e.trigger = NoTrigger /\ e.state = "pending"
    <3>1. /\ 0 \in Nat /\ NoTrigger \in Triggers \cup {NoTrigger}
          /\ "continue" \in {"ready", "continue", "result"} \cup Carried
      OBVIOUS
    <3>2. e \in EventRows
      BY <2>2, <3>1, EventMade
    <3> QED
      BY <3>2 DEF Event
  <2> HIDE DEF e
  <2>4. p.task[e.task].state # "completed"
    BY <1>1, <2>3, StatesApart DEF Live
  <2>5. Sound(Continuous, u) /\ Grows(p, u) /\ Keeps(p, u)
    BY <1>1, <2>3, <2>4, PostSound
  <2> HIDE DEF u
  <2>6. w \in Worlds /\ Housed(w.mail, w.task)
    BY DEF Sound
  <2>7. Grows(w, u) /\ Keeps(w, u)
    BY <1>1, <2>5, <2>6, GrowsTransitive, KeepsTransitive
  <2> QED
    BY <2>1, <2>5, <2>7 DEF v
<1> QED
  BY <1>2, <1>3, <1>4

\* Completed work is told to those who subscribed to it.
LEMMA CompletesSound ==
  ASSUME now \in Nat, NEW w, Sound(Continuous, w), NEW t \in DOMAIN w.task, NEW no,
         MayEnd(w, t, "completed")
  PROVE  LET v == Completes(w, t, no) IN Sound(Continuous, v) /\ Grows(w, v) /\ Spares(w, v)
<1> DEFINE u == Terminate(w, t, "completed", no)
           v == NotifyAll(u, "task", t, no)
<1>1. Completes(w, t, no) = v
  BY DEF Completes
<1>2. Sound(Continuous, u) /\ Grows(w, u) /\ Spares(w, u)
  BY TerminateSound
<1> HIDE DEF u
<1>3. Sound(Continuous, v) /\ Grows(u, v) /\ Untouched(u, v)
  BY <1>2, NotifyAllSound
<1> HIDE DEF v
<1>4. Grows(w, v)
  BY <1>2, <1>3, GrowsTransitive
<1>5. Spares(w, v)
  <2> SUFFICES ASSUME NEW j \in DOMAIN w.mail, w.mail[j].kind \in Carried, w.mail[j].state = "pending"
               PROVE  v.mail[j].state # "dead" \/ v.task[w.mail[j].task].state \in Bad
    BY DEF Spares
  <2>1. j \in DOMAIN u.mail /\ w.mail[j].task \in DOMAIN u.task
    BY <1>2 DEF Grows, Later, Sound, Housed
  <2>2. v.mail[j] = u.mail[j] /\ v.task[w.mail[j].task] = u.task[w.mail[j].task]
    BY <1>3, <2>1 DEF Untouched
  <2> QED
    BY <1>2, <2>2 DEF Spares
<1> QED
  BY <1>1, <1>3, <1>4, <1>5

\* A live task that no stop has reached may complete once it has no lease.
LEMMA MayComplete ==
  ASSUME NEW w, Sound(Continuous, w), NEW t \in DOMAIN w.task, Live(w, t),
         ~Stopping(w.system), w.control # "stopped", ~w.task[t].stopped,
         \A j \in DOMAIN w.mail : w.mail[j].task = t => w.mail[j].state # "leased",
         Continuous \/ Unread(w, t) = {}
  PROVE  MayEnd(w, t, "completed")
<1>1. w.system \in SystemStates
  BY WorldFields DEF Sound
<1>2. CASE Continuous
  <2>1. w.agents[w.task[t].agent] # "stopped" /\ w.system # "inactive"
    BY <1>2 DEF Sound, Obeyed, Live
  <2> QED
    BY <1>1, <1>2, <2>1, StatesApart DEF MayEnd, Halted, Stopping, SystemStates
<1>3. CASE ~Continuous
  BY <1>3, StatesApart DEF MayEnd
<1> QED
  BY <1>2, <1>3

\* finishDelivery of an activation that went well.
LEMMA SucceedsSound ==
  ASSUME now \in Nat, NEW w, Sound(Continuous, w), NEW t \in DOMAIN w.task, Live(w, t),
         ~Stopping(w.system), w.control # "stopped", ~w.task[t].stopped,
         \A j \in DOMAIN w.mail : w.mail[j].task = t => w.mail[j].state # "leased", NEW no
  PROVE  LET v == Succeeds(w, t, no) IN Sound(Continuous, v) /\ Grows(w, v) /\ Spares(w, v)
<1> DEFINE v == Succeeds(w, t, no)
<1>1. \/ v = w \/ v = Continues(w, t, no) \/ v = Sleeps(w, t)
      \/ v = Completes(w, t, no) /\ (Continuous \/ Unread(w, t) = {})
  BY DEF Succeeds
<1> HIDE DEF v
<1>2. CASE v = w
  BY <1>2, GrowsReflexive, KeepsSpares DEF v
<1>3. CASE v = Continues(w, t, no)
  BY <1>3, ContinuesSound, KeepsSpares DEF v
<1>4. CASE v = Sleeps(w, t)
  BY <1>4, SleepsSound, KeepsSpares DEF v
<1>5. CASE v = Completes(w, t, no) /\ (Continuous \/ Unread(w, t) = {})
  BY <1>5, MayComplete, CompletesSound DEF v
<1> QED
  BY <1>1, <1>2, <1>3, <1>4, <1>5

\* A stop that reached the task ends it, and a root ends its system with it.
LEMMA HaltsSound ==
  ASSUME now \in Nat, NEW w, Sound(Continuous, w), NEW t \in DOMAIN w.task, Live(w, t), NEW no,
         Stopping(w.system) \/ w.control = "stopped" \/ w.task[t].stopped,
         task[t].parent = w.task[t].parent
  PROVE  LET v == Halts(Terminate(w, t, "canceled", no), t) IN
         Sound(Continuous, v) /\ Grows(w, v) /\ Keeps(w, v)
<1> DEFINE u == Terminate(w, t, "canceled", no)
           v == Halts(u, t)
<1>1. w \in Worlds /\ Housed(w.mail, w.task)
  BY DEF Sound
<1>2. "canceled" \in Bad /\ w.system \in SystemStates
  BY <1>1, WorldFields DEF Bad
<1>3. Continuous /\ w.task[t].parent = 0 => Stopping(w.system)
  BY <1>2 DEF Sound, Obeyed, Stopping, SystemStates, Live
<1>4. MayEnd(w, t, "canceled")
  BY <1>2, <1>3, StatesApart DEF MayEnd
<1>5. Sound(Continuous, u) /\ Grows(w, u) /\ Keeps(w, u)
  BY <1>2, <1>4, TerminateSound
<1> HIDE DEF u
<1>6. CASE task[t].parent # 0
  <2>1. v = u
    BY <1>6 DEF Halts
  <2> HIDE DEF v
  <2> QED
    BY <1>5, <2>1 DEF u, v
<1>7. CASE task[t].parent = 0
  <2> DEFINE s == Drained(u)
  <2>1. u \in Worlds /\ u.agents \in [Agents -> ControlStates]
    BY <1>5, WorldFields DEF Sound
  <2>2. v = [u EXCEPT !.system = s]
    BY <1>7 DEF Halts
  <2>3. s \in SystemStates \ {"running", "paused"} /\ Stopping(s)
    BY DrainedSystem
  <2> HIDE DEF v, s
  <2>4. [u EXCEPT !.system = s] = [u EXCEPT !.system = s, !.agents = u.agents]
    BY <2>1 DEF Worlds
  <2>5. Told(u.system) /\ Told(s)
    BY <1>3, <1>5, <1>7, <2>3 DEF Told, Grows
  <2> DEFINE A == u.agents
             k == [u EXCEPT !.system = s, !.agents = A]
  <2>6. Sound(Continuous, v) /\ Grows(u, v) /\ Keeps(u, v)
    <3>1. A \in [Agents -> ControlStates] /\ v = k
      BY <2>1, <2>2, <2>4
    <3> HIDE DEF A
    <3>2. Sound(Continuous, k) /\ Grows(u, k) /\ Keeps(u, k)
      BY <1>5, <2>3, <2>5, <3>1, DrainsSound
    <3> QED
      BY <3>1, <3>2
  <2>7. Grows(w, v) /\ Keeps(w, v)
    BY <1>1, <1>5, <2>6, GrowsTransitive, KeepsTransitive
  <2> QED
    BY <2>6, <2>7 DEF u, v
<1> QED
  BY <1>6, <1>7

\* What becomes of the world when the activation of t ends.
LEMMA FinishedSound ==
  ASSUME now \in Nat, Sound(Continuous, World), NEW t \in DOMAIN task, NEW ok \in BOOLEAN, NEW no,
         NEW j \in Leased(World), mail[j].task = t
  PROVE  LET v == Swept(Finished(t, ok, j, no)) IN
         Sound(Continuous, v) /\ Grows(World, v) /\ Spares(World, v)
<1> DEFINE state == IF ok THEN "acked" ELSE "dead"
           w == Mark(World, j, state)
           u == Finished(t, ok, j, no)
           v == Swept(u)
<1>1. /\ World \in Worlds /\ World.task = task /\ World.mail = mail
      /\ World.system = system /\ World.control = control /\ World.agents = agents
  BY DEF World, Sound
<1>2. j \in DOMAIN World.mail /\ World.mail[j].state = "leased"
  BY DEF Leased
<1>3. state \in {"acked", "dead"}
  OBVIOUS
<1> HIDE DEF state
<1>4. Sound(Continuous, w) /\ Grows(World, w)
  BY <1>2, <1>3, MarkSound
<1>5. /\ w.task = task /\ w.system = system /\ w.control = control
      /\ DOMAIN w.mail = DOMAIN mail
      /\ \A k \in DOMAIN mail : /\ w.mail[k].task = mail[k].task
                                /\ w.mail[k].state = IF k = j THEN state ELSE mail[k].state
  BY <1>1, <1>2, <1>3, MarkWorld DEF SameEvents
<1>6. \A k \in DOMAIN w.mail : w.mail[k].task = t => w.mail[k].state # "leased"
  BY <1>1, <1>2, <1>3, <1>5 DEF Sound, OneLease
<1> HIDE DEF w, u
<1>7. Sound(Continuous, u) /\ Grows(World, u) /\ Spares(World, u)
  <2>1. CASE ~Live(World, t)
    <3> DEFINE k == Mark(World, j, "dead")
    <3>1. u = k
      BY <2>1 DEF u, Finished
    <3>2. Sound(Continuous, k) /\ Grows(World, k)
      BY <1>2, MarkSound
    <3>3. Spares(k, k)
      BY GrowsReflexive, KeepsSpares
    <3>4. Spares(World, k)
      BY <1>1, <3>3, MarkedLease
    <3> QED
      BY <3>1, <3>2, <3>4
  <2>2. CASE Live(World, t)
    <3>1. t \in DOMAIN w.task /\ Live(w, t)
      BY <1>1, <1>5, <2>2 DEF Live
    <3>2. Sound(Continuous, u) /\ Grows(w, u) /\ Spares(w, u)
      <4>1. CASE Halting(t)
        <5>1. u = Halts(Terminate(w, t, "canceled", no), t)
          BY <2>2, <4>1 DEF u, w, state, Finished
        <5>2. /\ Stopping(w.system) \/ w.control = "stopped" \/ w.task[t].stopped
              /\ task[t].parent = w.task[t].parent
          BY <1>5, <4>1 DEF Halting, Stopping
        <5> QED
          BY <1>4, <3>1, <5>1, <5>2, HaltsSound, KeepsSpares
      <4>2. CASE ~Halting(t) /\ ok
        <5>1. u = Succeeds(w, t, no)
          BY <2>2, <4>2 DEF u, w, state, Finished
        <5>2. ~Stopping(w.system) /\ w.control # "stopped" /\ ~w.task[t].stopped
          BY <1>5, <4>2 DEF Halting, Stopping
        <5> QED
          BY <1>4, <1>6, <3>1, <5>1, <5>2, SucceedsSound
      <4>3. CASE ~Halting(t) /\ ~ok
        <5>1. u = Terminate(w, t, "failed", no)
          BY <2>2, <4>3 DEF u, w, state, Finished
        <5> QED
          BY <1>4, <3>1, <5>1, HaltedMayEnd, TerminateSound
      <4> QED
        BY <4>1, <4>2, <4>3
    <3>3. Grows(World, u)
      BY <1>4, <3>2, GrowsTransitive
    <3>4. Spares(World, u)
      BY <1>1, <1>3, <3>2, MarkedLease DEF w
    <3> QED
      BY <3>2, <3>3, <3>4
  <2> QED
    BY <2>1, <2>2
<1>8. Sound(Continuous, v) /\ Grows(u, v)
  BY <1>7, SweptSound
<1>9. Grows(World, v)
  BY <1>7, <1>8, GrowsTransitive
<1>10. v.mail = u.mail /\ v.task = u.task
  BY <1>7, FieldKept DEF Swept, Sound
<1>11. Spares(World, v)
  BY <1>7, <1>10 DEF Spares
<1> QED
  BY <1>8, <1>9, <1>11 DEF u

-----------------------------------------------------------------------------
(* What each step leaves behind. *)

\* The transaction that takes the state to v keeps what the properties are about.
Lands(v) ==
  /\ Sound(Continuous, v) /\ Spares(World, v)
  /\ control = "stopped" =>
       /\ v.control = "stopped" /\ DOMAIN v.task = DOMAIN task
       /\ \A j \in DOMAIN v.mail \ DOMAIN mail : v.mail[j].trigger = NoTrigger
  /\ Continuous /\ v.control = "stopped" => \A x \in Triggers : v.trigger[x].state # "active"

\* The world a transaction starts from is the state.
LEMMA WorldIs ==
  /\ World.task = task /\ World.mail = mail /\ World.trigger = trigger /\ World.system = system
  /\ World.control = control /\ World.agents = agents /\ World.refused = {}
  BY DEF World

\* Most steps only let the world grow.
LEMMA GrowsLands ==
  ASSUME IInv, NEW v, Sound(Continuous, v), Grows(World, v), Spares(World, v)
  PROVE  Lands(v)
  BY WorldIs DEF Lands, IInv, Silenced, Grows

\* Others change who may run, and no row.
LEMMA RuledSound ==
  ASSUME NEW w, Sound(Continuous, w), NEW v \in Worlds, v.task = w.task, v.mail = w.mail,
         v.trigger = w.trigger, Obeyed(Continuous, v)
  PROVE  Sound(Continuous, v)
  BY CalmStep, LaterReflexive, FadesReflexive, EventsReflexive DEF Sound

\* Pausing and resuming change no row.
LEMMA RuledLands ==
  ASSUME IInv, NEW v \in Worlds, v.task = task, v.mail = mail, v.trigger = trigger,
         Obeyed(Continuous, v), v.control = "stopped" <=> control = "stopped"
  PROVE  Lands(v)
<1>1. Sound(Continuous, v)
  BY WorldIs, RuledSound DEF IInv
<1>2. Spares(World, v)
  BY WorldIs DEF Spares
<1> QED
  BY <1>1, <1>2 DEF Lands, IInv, Silenced

\* claim.
LEMMA ClaimLands ==
  ASSUME IInv, NEW no
  PROVE  Lands(Claimed(no))
<1> DEFINE v == Claimed(no)
<1>1. Sound(Continuous, v) /\ Grows(World, v) /\ Keeps(World, v)
  BY ClaimedSound DEF IInv
<1> HIDE DEF v
<1>2. Lands(v)
  BY <1>1, KeepsSpares, GrowsLands
<1> QED
  BY <1>2 DEF v

\* finishDelivery.
LEMMA FinishLands ==
  ASSUME IInv, NEW t \in DOMAIN task, NEW ok \in BOOLEAN, NEW no, NEW j \in Leased(World), mail[j].task = t
  PROVE  Lands(Swept(Finished(t, ok, j, no)))
<1> DEFINE v == Swept(Finished(t, ok, j, no))
<1>1. Sound(Continuous, v) /\ Grows(World, v) /\ Spares(World, v)
  BY FinishedSound DEF IInv
<1> HIDE DEF v
<1>2. Lands(v)
  BY <1>1, GrowsLands
<1> QED
  BY <1>2 DEF v

-----------------------------------------------------------------------------
(* What an activation does. *)

\* A task that may use a tool runs, and nothing was told to stop.
LEMMA UsesSound ==
  ASSUME IInv, NEW t \in DOMAIN task, CanUse(t), NEW tool \in {"tool", "wait", "delegate"}
  PROVE  LET v == Uses(t, tool) IN
         /\ Sound(Continuous, v) /\ Grows(World, v) /\ Keeps(World, v)
         /\ v.mail = mail /\ v.trigger = trigger /\ v.control = control /\ v.system = system
         /\ DOMAIN v.task = DOMAIN task /\ Live(v, t) /\ Live(World, t)
         /\ control # "stopped" /\ ~Stopping(system)
<1> DEFINE row == task[t]
           r == [row EXCEPT !.used = tool]
           v == Uses(t, tool)
<1>1. Sound(Continuous, World) /\ row \in TaskRows /\ t \in DOMAIN World.task
  BY WorldIs, WorldFields DEF IInv, Sound
<1>2. v = [World EXCEPT !.task = [World.task EXCEPT ![t] = r]]
  BY WorldIs DEF Uses
<1>3. row.state = "running" /\ control # "stopped" /\ ~Stopping(system)
  BY DEF CanUse, Stopping
<1>4. r \in TaskRows
  BY <1>1 DEF TaskRows
<1>5. r.agent = row.agent /\ r.parent = row.parent /\ r.stopped = row.stopped /\ r.state = "running"
  BY <1>1, <1>3 DEF TaskRows
<1> HIDE DEF r, v
<1>6. r.state \in LiveStates /\ Live(World, t)
  BY <1>3, <1>5, WorldIs, StatesApart DEF Live
<1>7. /\ Sound(Continuous, v) /\ Grows(World, v) /\ Keeps(World, v)
      /\ v.mail = mail /\ v.trigger = trigger /\ v.control = control /\ v.system = system
      /\ DOMAIN v.task = DOMAIN task /\ v.task[t] = r
  BY <1>1, <1>2, <1>4, <1>5, <1>6, WorldIs, LiveRowSound
<1> QED
  BY <1>3, <1>6, <1>7 DEF v, Live

\* A trigger that was never set up has posted nothing.
LEMMA NeverFired ==
  ASSUME NEW w, Sound(Continuous, w), NEW x \in Triggers, w.trigger[x].state = "none"
  PROVE  FiredIn(w.mail, x) = {} /\ Cardinality(FiredIn(w.mail, x)) = 0
<1>1. Cardinality(FiredIn(w.mail, x)) + w.trigger[x].left = w.trigger[x].budget
  BY DEF Sound, Spent
<1>2. w.trigger[x].budget = 0 /\ w.trigger[x].left = 0
  BY DEF Sound, Spent
<1>3. FiredIn(w.mail, x) \subseteq 1..Len(w.mail) /\ Len(w.mail) \in Nat
  BY WorldFields DEF Sound, FiredIn
<1>4. IsFiniteSet(FiredIn(w.mail, x))
  <2>1. IsFiniteSet(1..Len(w.mail))
    BY <1>3, FS_Interval
  <2> QED
    BY <1>3, <2>1, FS_Subset
<1>5. Cardinality(FiredIn(w.mail, x)) \in Nat
  BY <1>4, FS_CardinalityType
<1>6. Cardinality(FiredIn(w.mail, x)) = 0
  BY <1>1, <1>2, <1>5
<1> QED
  BY <1>4, <1>6, FS_EmptySet

\* A trigger is set up for a task that is live, or completed in a continuous goal.
LEMMA ScheduledSound ==
  ASSUME NEW w, Sound(Continuous, w), w.trigger = trigger, w.control # "stopped", NEW t \in DOMAIN w.task,
         w.task[t].state \in LiveStates \/ (Continuous /\ w.task[t].state = "completed"), Fresh # {},
         NEW kind \in {"at", "cron", "memory", "task"}, NEW due \in Nat, NEW budget \in Nat \ {0}
  PROVE  LET v == Scheduled(w, t, kind, due, budget) IN
         Sound(Continuous, v) /\ Grows(w, v) /\ Keeps(w, v)
<1> DEFINE x == CHOOSE y \in Fresh : TRUE
           r == [state |-> "active", kind |-> kind, task |-> t, due |-> due, left |-> budget, budget |-> budget]
           X == [w.trigger EXCEPT ![x] = r]
           v == Scheduled(w, t, kind, due, budget)
<1>1. w \in Worlds /\ w.trigger \in [Triggers -> TriggerRows] /\ t \in Nat
  BY WorldFields DEF Sound
<1>2. v = [w EXCEPT !.trigger = X]
  BY DEF Scheduled
<1>3. x \in Fresh
  OBVIOUS
<1> HIDE DEF x, v
<1>4. x \in Triggers /\ w.trigger[x].state = "none"
  BY <1>3 DEF Fresh
<1>5. r \in TriggerRows
  BY <1>1 DEF TriggerRows
<1>6. /\ r.state = "active" /\ r.kind = kind /\ r.task = t /\ r.left = budget /\ r.budget = budget
  OBVIOUS
<1> HIDE DEF r
<1>7. /\ X \in [Triggers -> TriggerRows] /\ X[x] = r /\ \A y \in Triggers : y # x => X[y] = w.trigger[y]
  BY <1>1, <1>4, <1>5
<1> HIDE DEF X
<1>8. /\ v \in Worlds /\ v.task = w.task /\ v.mail = w.mail /\ v.trigger = X /\ v.system = w.system
      /\ v.control = w.control /\ v.agents = w.agents
  BY <1>1, <1>2, <1>7, FieldWritten, FieldKept
<1> HIDE DEF v
<1>9. FiredIn(w.mail, x) = {} /\ Cardinality(FiredIn(w.mail, x)) = 0
  BY <1>4, NeverFired
<1>10. Spent(w.mail, X)
  <2> SUFFICES ASSUME NEW y \in Triggers
               PROVE  /\ Cardinality(FiredIn(w.mail, y)) + X[y].left = X[y].budget
                      /\ X[y].state = "active" => X[y].left > 0
                      /\ X[y].state = "none" => X[y].budget = 0 /\ X[y].left = 0
    BY DEF Spent
  <2>1. CASE y = x
    BY <1>6, <1>7, <1>9, <2>1
  <2>2. CASE y # x
    BY <1>7, <2>2 DEF Sound, Spent
  <2> QED
    BY <2>1, <2>2
<1>11. InTime(w.mail, X)
  BY <1>7, <1>9 DEF Sound, InTime
<1>12. Standing(Continuous, X, w.task)
  BY <1>6, <1>7 DEF Sound, Standing
<1>13. Sound(Continuous, v)
  BY <1>8, <1>10, <1>11, <1>12 DEF Sound, Obeyed
<1>14. Grows(w, v) /\ Keeps(w, v)
  BY <1>8, LaterReflexive DEF Grows, Keeps, Fewer
<1> QED
  BY <1>13, <1>14 DEF v

\* What a command or a tool sets up.
LEMMA SetsUpLands ==
  ASSUME IInv, NEW w, Sound(Continuous, w), Grows(World, w), Keeps(World, w), w.trigger = trigger,
         w.control # "stopped", NEW t \in DOMAIN w.task,
         w.task[t].state \in LiveStates \/ (Continuous /\ w.task[t].state = "completed"),
         NEW v \in SetsUp(w, t)
  PROVE  Lands(v)
<1>1. PICK x \in [kind : scenario.triggers, due : 0 .. MaxNow + Period, budget : scenario.budgets] :
        /\ v = Scheduled(w, t, x.kind, x.due, x.budget)
        /\ Fresh # {}
  BY DEF SetsUp, MaySchedule, MaySubscribe
<1>2. /\ x.kind \in {"at", "cron", "memory", "task"} /\ x.budget \in Nat \ {0}
      /\ x.due \in Nat
  BY WakeupsAssumption DEF IInv
<1>3. Sound(Continuous, v) /\ Grows(w, v) /\ Keeps(w, v)
  BY <1>1, <1>2, ScheduledSound
<1>4. World \in Worlds /\ Housed(World.mail, World.task)
  BY DEF IInv, Sound
<1>5. Grows(World, v) /\ Keeps(World, v)
  BY <1>3, <1>4, GrowsTransitive, KeepsTransitive
<1> QED
  BY <1>3, <1>5, KeepsSpares, GrowsLands

\* runtime.schedule.create, runtime.events.subscribe
LEMMA CreateOwnLands ==
  ASSUME IInv, NEW t \in DOMAIN task, CanUse(t), NEW v \in SetsUp(Uses(t, "tool"), t)
  PROVE  Lands(v)
<1> DEFINE w == Uses(t, "tool")
<1>1. /\ Sound(Continuous, w) /\ Grows(World, w) /\ Keeps(World, w)
      /\ w.trigger = trigger /\ w.control # "stopped" /\ t \in DOMAIN w.task /\ Live(w, t)
  BY UsesSound
<1>2. v \in SetsUp(w, t)
  OBVIOUS
<1> HIDE DEF w
<1> QED
  BY <1>1, <1>2, SetsUpLands DEF Live

\* runtime.schedule.cancel, runtime.events.unsubscribe
LEMMA CancelOwnLands ==
  ASSUME IInv, NEW t \in DOMAIN task, CanUse(t), NEW x \in Triggers
  PROVE  Lands([Uses(t, "tool") EXCEPT !.trigger[x].state = "canceled"])
<1> DEFINE w == Uses(t, "tool")
           v == Settled(w, x, "canceled")
<1>1. Sound(Continuous, w) /\ Grows(World, w) /\ Keeps(World, w)
  BY UsesSound
<1>2. [w EXCEPT !.trigger[x].state = "canceled"] = v
  BY DEF Settled
<1> HIDE DEF w
<1>3. Sound(Continuous, v) /\ Grows(w, v) /\ Keeps(w, v)
  BY <1>1, SettledSound
<1>4. World \in Worlds /\ Housed(World.mail, World.task)
  BY DEF IInv, Sound
<1> HIDE DEF v
<1>5. Grows(World, v) /\ Keeps(World, v)
  BY <1>1, <1>3, <1>4, GrowsTransitive, KeepsTransitive
<1>6. Lands(v)
  BY <1>3, <1>5, KeepsSpares, GrowsLands
<1> QED
  BY <1>2, <1>6 DEF w

\* runtime.task.wait
LEMMA WaitLands ==
  ASSUME IInv, NEW t \in DOMAIN task, CanUse(t)
  PROVE  Lands(Sleeps(Uses(t, "wait"), t))
<1> DEFINE w == Uses(t, "wait")
           v == Sleeps(w, t)
<1>1. /\ Sound(Continuous, w) /\ Grows(World, w) /\ Keeps(World, w)
      /\ t \in DOMAIN w.task /\ Live(w, t)
  BY UsesSound
<1> HIDE DEF w
<1>2. Sound(Continuous, v) /\ Grows(w, v) /\ Keeps(w, v)
  BY <1>1, SleepsSound
<1>3. World \in Worlds /\ Housed(World.mail, World.task)
  BY DEF IInv, Sound
<1> HIDE DEF v
<1>4. Grows(World, v) /\ Keeps(World, v)
  BY <1>1, <1>2, <1>3, GrowsTransitive, KeepsTransitive
<1>5. Lands(v)
  BY <1>2, <1>4, KeepsSpares, GrowsLands
<1> QED
  BY <1>5 DEF v, w

\* runtime.task.delegate
LEMMA DelegateLands ==
  ASSUME IInv, NEW t \in DOMAIN task, CanUse(t), NEW a \in Agents, MayDelegate(t, a)
  PROVE  Lands(Delegated(t, a))
<1> DEFINE n == Len(task) + 1
           old == task[t]
           row == [old EXCEPT !.used = "delegate", !.state = "waiting", !.awaits = n]
           u == [World EXCEPT !.task = [World.task EXCEPT ![t] = row]]
           r == Task(a, t, 1, old.deadline)
           w == [u EXCEPT !.task = Append(u.task, r)]
           e == Event(n, "ready", 0, NoTrigger, 0)
           v == Post(w, e)
<1>1. /\ Sound(Continuous, World) /\ old \in TaskRows /\ t \in DOMAIN World.task /\ t \in Nat /\ t # 0
      /\ Len(task) \in Nat /\ DOMAIN task = 1..Len(task)
  BY WorldIs, WorldFields DEF IInv, Sound
<1>2. World \in Worlds /\ Housed(World.mail, World.task)
  BY <1>1 DEF Sound
<1>3. /\ old.state = "running" /\ control # "stopped" /\ ~Stopping(system)
      /\ a # old.agent /\ a # Operator /\ agents[a] = "active" /\ LiveOf(World, a) = {}
  BY DEF CanUse, Stopping, MayDelegate
<1>4. n \in Nat /\ row \in TaskRows
  <2>1. n \in Nat
    BY <1>1
  <2> HIDE DEF n, old
  <2>2. row \in TaskRows
    BY <1>1, <2>1 DEF TaskRows, TaskStates, LiveStates
  <2> QED
    BY <2>1, <2>2
<1>5. row.agent = old.agent /\ row.parent = old.parent /\ row.stopped = old.stopped /\ row.state = "waiting"
  BY <1>1 DEF TaskRows
<1>6. row.state \in LiveStates /\ Live(World, t)
  BY <1>3, <1>5, WorldIs, StatesApart DEF Live
<1>7. Delegated(t, a) = v
  <2>1. u.task = [task EXCEPT ![t] = row] /\ w = [World EXCEPT !.task = Append([task EXCEPT ![t] = row], r)]
    BY WorldIs DEF World
  <2> QED
    BY <2>1 DEF Delegated
<1> HIDE DEF row
<1>8. /\ Sound(Continuous, u) /\ Grows(World, u) /\ Keeps(World, u)
      /\ u.system = system /\ u.control = control /\ u.agents = agents
      /\ DOMAIN u.task = DOMAIN task
      /\ \A k \in DOMAIN task : u.task[k] = IF k = t THEN row ELSE task[k]
  BY <1>1, <1>4, <1>5, <1>6, WorldIs, LiveRowSound, SMTT(20)
<1> HIDE DEF u
<1>9. /\ r \in TaskRows /\ r.agent = a /\ r.parent = t /\ r.state = "queued" /\ ~r.stopped
  <2>1. old.deadline \in Nat /\ 1 \in Nat
    BY <1>1 DEF TaskRows
  <2> HIDE DEF old
  <2> QED
    BY <1>1, <2>1, TaskMade
<1> HIDE DEF r
<1>10. LiveOf(u, r.agent) = {}
  <2> SUFFICES ASSUME NEW k \in DOMAIN u.task, u.task[k].agent = a, Live(u, k) PROVE FALSE
    BY <1>9 DEF LiveOf
  <2>1. k # t /\ k \in DOMAIN task
    BY <1>1, <1>3, <1>5, <1>8, WorldIs
  <2>2. k \in LiveOf(World, a)
    BY <1>8, <2>1, WorldIs DEF LiveOf, Live
  <2> QED
    BY <1>3, <2>2
<1>11. Len(u.task) = Len(task)
  <2>1. DOMAIN u.task = 1..Len(u.task) /\ Len(u.task) \in Nat
    BY <1>8, WorldFields DEF Sound
  <2> QED
    BY <1>1, <1>8, <2>1
<1>12. /\ Sound(Continuous, w) /\ Grows(u, w) /\ Keeps(u, w)
       /\ n \in DOMAIN w.task /\ w.task[n] = r
  <2>1. r.parent \in DOMAIN u.task \cup {0} /\ (r.parent = 0 => r.agent = Operator)
    BY <1>1, <1>8, <1>9, WorldIs
  <2>2. u.control # "stopped" /\ ~Stopping(u.system) /\ u.agents[r.agent] # "stopped"
    BY <1>3, <1>8, <1>9
  <2> QED
    BY <1>8, <1>9, <1>10, <1>11, <2>1, <2>2, TaskAddedSound, SMTT(20)
<1> HIDE DEF w, n
<1>13. e \in EventRows /\ e.task = n /\ e.trigger = NoTrigger /\ e.state = "pending"
  <2>1. /\ 0 \in Nat /\ NoTrigger \in Triggers \cup {NoTrigger} /\ now \in Nat
        /\ "ready" \in {"ready", "continue", "result"} \cup Carried
    BY DEF IInv
  <2>2. e \in EventRows
    BY <1>4, <2>1, EventMade
  <2> QED
    BY <2>2 DEF Event
<1> HIDE DEF e
<1>14. w.task[e.task].state # "completed"
  BY <1>9, <1>12, <1>13
<1>15. Sound(Continuous, v) /\ Grows(w, v) /\ Keeps(w, v)
  BY <1>12, <1>13, <1>14, PostSound
<1> HIDE DEF v
<1>16. Grows(World, w) /\ Keeps(World, w)
  BY <1>2, <1>8, <1>12, GrowsTransitive, KeepsTransitive
<1>17. Grows(World, v) /\ Keeps(World, v)
  BY <1>2, <1>15, <1>16, GrowsTransitive, KeepsTransitive
<1>18. Lands(v)
  BY <1>15, <1>17, KeepsSpares, GrowsLands
<1> QED
  BY <1>7, <1>18

-----------------------------------------------------------------------------
(* The administrator's commands. *)

\* AddInput, AddAttachment: the input is posted to a live task.
LEMMA AddInputLands ==
  ASSUME IInv, NEW t \in DOMAIN task, CanWake(World, t)
  PROVE  Lands(Post(Woken(World, t), Event(Heir(World, t), "input", 0, NoTrigger, 0)))
<1> DEFINE w == Woken(World, t)
           h == Heir(World, t)
           e == Event(h, "input", 0, NoTrigger, 0)
           v == Post(w, e)
<1>1. World \in Worlds /\ Housed(World.mail, World.task) /\ t \in DOMAIN World.task
  BY WorldIs DEF IInv, Sound
<1>2. /\ Sound(Continuous, w) /\ Grows(World, w) /\ Keeps(World, w)
      /\ h \in DOMAIN w.task /\ w.task[h].state \in LiveStates
  BY <1>1, WakeSound DEF IInv
<1> HIDE DEF w, h
<1>3. h \in Nat
  BY <1>2, WorldFields DEF Sound
<1>4. e \in EventRows /\ e.task = h /\ e.trigger = NoTrigger /\ e.state = "pending"
  <2>1. /\ 0 \in Nat /\ NoTrigger \in Triggers \cup {NoTrigger} /\ now \in Nat
        /\ "input" \in {"ready", "continue", "result"} \cup Carried
    BY DEF IInv, Carried
  <2>2. e \in EventRows
    BY <1>3, <2>1, EventMade
  <2> QED
    BY <2>2 DEF Event
<1> HIDE DEF e
<1>5. w.task[e.task].state # "completed"
  BY <1>2, <1>4, StatesApart
<1>6. Sound(Continuous, v) /\ Grows(w, v) /\ Keeps(w, v)
  BY <1>2, <1>4, <1>5, PostSound
<1> HIDE DEF v
<1>7. Grows(World, v) /\ Keeps(World, v)
  BY <1>1, <1>2, <1>6, GrowsTransitive, KeepsTransitive
<1>8. Lands(v)
  BY <1>6, <1>7, KeepsSpares, GrowsLands
<1> QED
  BY <1>8 DEF v, e, w, h

\* CreateSchedule, CreateSubscription: an addressed task is one a trigger may wake.
LEMMA CreateTriggerLands ==
  ASSUME IInv, NEW a \in Agents, NEW t \in Addressed(a), Live(World, t) \/ task[t].state = "completed",
         NEW v \in SetsUp(World, t)
  PROVE  Lands(v)
<1>1. t \in DOMAIN task /\ system \in {"running", "paused"} /\ (Live(World, t) \/ Continuous)
  BY DEF Addressed
<1>2. control # "stopped"
  BY <1>1, WorldIs DEF IInv, Sound, Obeyed
<1>3. task[t].state \in LiveStates \/ (Continuous /\ task[t].state = "completed")
  BY <1>1, WorldIs DEF Live
<1>4. Grows(World, World) /\ Keeps(World, World)
  BY GrowsReflexive
<1> QED
  BY <1>1, <1>2, <1>3, <1>4, WorldIs, SetsUpLands DEF IInv

\* CancelSchedule, CancelSubscription
LEMMA CancelTriggerLands ==
  ASSUME IInv, NEW x \in Triggers
  PROVE  Lands([World EXCEPT !.trigger[x].state = "canceled"])
<1> DEFINE v == Settled(World, x, "canceled")
<1>1. [World EXCEPT !.trigger[x].state = "canceled"] = v
  BY DEF Settled
<1>2. Sound(Continuous, v) /\ Grows(World, v) /\ Keeps(World, v)
  BY SettledSound DEF IInv
<1> HIDE DEF v
<1>3. Lands(v)
  BY <1>2, KeepsSpares, GrowsLands
<1> QED
  BY <1>1, <1>3

\* PutMemory, ApproveMemory
LEMMA ChangeMemoryLands ==
  ASSUME IInv, NEW no
  PROVE  Lands(NotifyAll(World, "memory", 0, no))
<1> DEFINE v == NotifyAll(World, "memory", 0, no)
<1>1. Sound(Continuous, v) /\ Grows(World, v) /\ Keeps(World, v)
  BY NotifyAllSound DEF IInv
<1> HIDE DEF v
<1>2. Lands(v)
  BY <1>1, KeepsSpares, GrowsLands
<1> QED
  BY <1>2 DEF v

\* A system, an agent or a goal that is not stopped is paused or resumed.
LEMMA SystemRuledLands ==
  ASSUME IInv, system \in {"running", "paused"}, NEW s \in {"running", "paused"}
  PROVE  Lands([World EXCEPT !.system = s])
<1> DEFINE v == [World EXCEPT !.system = s]
<1>1. World \in Worlds
  BY DEF IInv, Sound
<1>2. /\ v \in Worlds /\ v.task = task /\ v.mail = mail /\ v.trigger = trigger
      /\ v.control = control /\ v.agents = agents /\ v.system = s
  <2>1. s \in SystemStates
    BY DEF SystemStates
  <2>2. v \in Worlds
    BY <1>1, <2>1, FieldWritten
  <2>3. /\ v.task = World.task /\ v.mail = World.mail /\ v.trigger = World.trigger
        /\ v.control = World.control /\ v.agents = World.agents /\ v.system = s
    BY <1>1, FieldKept
  <2> HIDE DEF v
  <2> QED
    BY <2>2, <2>3, WorldIs
<1> HIDE DEF v
<1>3. Obeyed(Continuous, v)
  BY <1>2, WorldIs DEF IInv, Sound, Obeyed, Stopping
<1>4. Lands(v)
  BY <1>2, <1>3, RuledLands
<1> QED
  BY <1>4 DEF v

\* The control of one agent, but for a stop.
LEMMA AgentRuledLands ==
  ASSUME IInv, NEW a \in Agents, agents[a] # "stopped", NEW s \in {"active", "paused"}
  PROVE  Lands([World EXCEPT !.agents[a] = s])
<1> DEFINE A == [agents EXCEPT ![a] = s]
           v == [World EXCEPT !.agents = A]
<1>1. World \in Worlds /\ agents \in [Agents -> ControlStates]
  BY WorldIs, WorldFields DEF IInv, Sound
<1>2. [World EXCEPT !.agents[a] = s] = v
  BY WorldIs
<1>3. A \in [Agents -> ControlStates] /\ \A b \in Agents : A[b] = "stopped" <=> agents[b] = "stopped"
  BY <1>1 DEF ControlStates
<1> HIDE DEF A
<1>4. /\ v \in Worlds /\ v.task = task /\ v.mail = mail /\ v.trigger = trigger
      /\ v.control = control /\ v.system = system /\ v.agents = A
  BY <1>1, <1>3, WorldIs DEF Worlds
<1> HIDE DEF v
<1>5. \A t \in DOMAIN task : task[t].agent \in Agents
  BY <1>1, WorldIs, WorldFields, TaskRowTypes
<1>6. Obeyed(Continuous, v)
  BY <1>3, <1>4, <1>5, WorldIs DEF IInv, Sound, Obeyed
<1>7. Lands(v)
  BY <1>4, <1>6, RuledLands
<1> QED
  BY <1>2, <1>7

\* The control of the goal, but for a stop.
LEMMA ControlRuledLands ==
  ASSUME IInv, control # "stopped", NEW s \in {"active", "paused"}
  PROVE  Lands([World EXCEPT !.control = s])
<1> DEFINE v == [World EXCEPT !.control = s]
<1>1. World \in Worlds
  BY DEF IInv, Sound
<1>2. /\ v \in Worlds /\ v.task = task /\ v.mail = mail /\ v.trigger = trigger
      /\ v.control = s /\ v.agents = agents /\ v.system = system
  BY <1>1, WorldIs DEF Worlds, ControlStates
<1> HIDE DEF v
<1>3. Obeyed(Continuous, v)
  BY <1>2, WorldIs DEF IInv, Sound, Obeyed
<1>4. Lands(v)
  BY <1>2, <1>3, RuledLands
<1> QED
  BY <1>4 DEF v

-----------------------------------------------------------------------------
(* Stops *)

\* The tasks are rewritten row by row.
LEMMA TasksRewritten ==
  ASSUME NEW w \in Worlds, NEW f, f = [t \in DOMAIN w.task |-> f[t]],
         \A t \in DOMAIN w.task : f[t] \in TaskRows
  PROVE  LET v == [w EXCEPT !.task = Table(f)] IN
         /\ v \in Worlds /\ v.mail = w.mail /\ v.trigger = w.trigger /\ v.system = w.system
         /\ v.control = w.control /\ v.agents = w.agents /\ v.refused = w.refused
         /\ DOMAIN v.task = DOMAIN w.task /\ \A t \in DOMAIN w.task : v.task[t] = f[t]
<1> DEFINE n == Len(w.task)
           T == Table(f)
<1>1. n \in Nat /\ DOMAIN w.task = 1..n
  BY WorldFields
<1> HIDE DEF n
<1>2. DOMAIN f = 1..n /\ f = [t \in 1..n |-> f[t]] /\ \A t \in 1..n : f[t] \in TaskRows
  BY <1>1
<1>3. /\ << >> \o f \in Seq(TaskRows) /\ DOMAIN (<< >> \o f) = 1..n
      /\ \A t \in 1..n : (<< >> \o f)[t] = f[t]
  BY <1>1, <1>2, TableRows
<1>4. T \in Seq(TaskRows) /\ DOMAIN T = DOMAIN w.task /\ \A t \in DOMAIN w.task : T[t] = f[t]
  BY <1>1, <1>3 DEF Table
<1> HIDE DEF T
<1>5. LET v == [w EXCEPT !.task = T] IN
      /\ v \in Worlds /\ v.mail = w.mail /\ v.trigger = w.trigger /\ v.system = w.system
      /\ v.control = w.control /\ v.agents = w.agents /\ v.refused = w.refused /\ v.task = T
  BY <1>4, FieldWritten, FieldKept
<1> QED
  BY <1>4, <1>5 DEF T

\* The tasks of S are told to stop, and with a root its system.
LEMMA MarkedWorld ==
  ASSUME NEW w \in Worlds, NEW S
  PROVE  LET v == Marked(w, S) IN
         /\ v \in Worlds /\ v.mail = w.mail /\ v.trigger = w.trigger
         /\ v.control = w.control /\ v.agents = w.agents
         /\ v.system = IF \E t \in S : w.task[t].parent = 0 THEN "stopping" ELSE w.system
         /\ DOMAIN v.task = DOMAIN w.task
         /\ \A t \in DOMAIN w.task :
              /\ v.task[t].agent = w.task[t].agent /\ v.task[t].parent = w.task[t].parent
              /\ v.task[t].state = w.task[t].state
              /\ v.task[t].stopped <=> t \in S \/ w.task[t].stopped
<1> DEFINE row(t) == IF t \in S THEN [w.task[t] EXCEPT !.stopped = TRUE] ELSE w.task[t]
           f == [t \in DOMAIN w.task |-> row(t)]
           s == IF \E t \in S : w.task[t].parent = 0 THEN "stopping" ELSE w.system
           u == [w EXCEPT !.task = Table(f)]
           v == Marked(w, S)
<1>1. ASSUME NEW t \in DOMAIN w.task
      PROVE  /\ row(t) \in TaskRows /\ row(t).agent = w.task[t].agent /\ row(t).parent = w.task[t].parent
             /\ row(t).state = w.task[t].state /\ (row(t).stopped <=> t \in S \/ w.task[t].stopped)
  <2>1. w.task[t] \in TaskRows
    BY WorldFields
  <2>2. CASE t \in S
    <3> DEFINE r == w.task[t]
               k == [r EXCEPT !.stopped = TRUE]
    <3>1. r \in TaskRows /\ row(t) = k
      BY <2>1, <2>2
    <3> HIDE DEF r, row
    <3>2. k \in TaskRows /\ k.agent = r.agent /\ k.parent = r.parent /\ k.state = r.state /\ k.stopped = TRUE
      BY <3>1 DEF TaskRows
    <3> HIDE DEF k
    <3> QED
      BY <2>2, <3>1, <3>2 DEF r
  <2>3. CASE t \notin S
    BY <2>1, <2>3
  <2> QED
    BY <2>2, <2>3
<1>2. s \in SystemStates
  BY WorldFields DEF SystemStates
<1>3. v = [u EXCEPT !.system = s]
  BY DEF Marked, Worlds
<1> HIDE DEF row, v, s
<1>4. f = [t \in DOMAIN w.task |-> f[t]] /\ \A t \in DOMAIN w.task : f[t] \in TaskRows /\ f[t] = row(t)
  BY <1>1
<1> HIDE DEF f
<1>5. /\ u \in Worlds /\ u.mail = w.mail /\ u.trigger = w.trigger
      /\ u.control = w.control /\ u.agents = w.agents
      /\ DOMAIN u.task = DOMAIN w.task /\ \A t \in DOMAIN w.task : u.task[t] = row(t)
  BY <1>4, TasksRewritten
<1> HIDE DEF u
<1>6. /\ v \in Worlds /\ v.mail = w.mail /\ v.trigger = w.trigger
      /\ v.control = w.control /\ v.agents = w.agents /\ v.system = s /\ v.task = u.task
  BY <1>2, <1>3, <1>5, FieldWritten, FieldKept
<1> QED
  BY <1>1, <1>5, <1>6 DEF v, s

\* A world in which nothing but the stops and the way tasks run is new is sound if
\* the stops are obeyed.
LEMMA MarkedSound ==
  ASSUME NEW w, Sound(Continuous, w), NEW v \in Worlds, v.mail = w.mail, v.trigger = w.trigger,
         DOMAIN v.task = DOMAIN w.task,
         \A t \in DOMAIN w.task :
           /\ v.task[t].agent = w.task[t].agent /\ v.task[t].parent = w.task[t].parent
           /\ v.task[t].state = w.task[t].state,
         Obeyed(Continuous, v)
  PROVE  Sound(Continuous, v)
<1>1. Lineal(v.task) /\ OneLive(v.task)
  BY DEF Sound, Lineal, OneLive
<1>2. Housed(v.mail, v.task)
  BY DEF Sound, Housed
<1>3. Standing(Continuous, v.trigger, v.task)
  BY DEF Sound, Standing
<1> QED
  BY <1>1, <1>2, <1>3 DEF Sound

\* stopTasks, once the stops that led to it are written.
LEMMA StopTasksSound ==
  ASSUME IInv, NEW w \in Worlds, w.task = task, w.mail = mail, w.trigger = trigger,
         NEW S \in SUBSET DOMAIN task, Obeyed(Continuous, Marked(w, S)), NEW no
  PROVE  LET v == StopTasks(w, S, no) IN
         /\ Sound(Continuous, v) /\ Spares(World, v) /\ v.control = w.control
         /\ Stopping(w.system) => Stopping(v.system)
         /\ DOMAIN v.task = DOMAIN task
         /\ \A t \in DOMAIN task : v.task[t].state \in LiveStates /\ t \in S => v.task[t].stopped
         /\ \A t \in DOMAIN task : v.task[t].state \in LiveStates => task[t].state \in LiveStates
<1> DEFINE m == Marked(w, S)
           T == {t \in S : ~Held(w, t)}
           v == TerminateAll(m, T, "canceled", no)
<1>1. StopTasks(w, S, no) = v
  BY DEF StopTasks
<1>2. /\ m \in Worlds /\ m.mail = mail /\ m.trigger = trigger /\ m.control = w.control
      /\ m.system = IF \E t \in S : task[t].parent = 0 THEN "stopping" ELSE w.system
      /\ DOMAIN m.task = DOMAIN task
      /\ \A t \in DOMAIN task :
           /\ m.task[t].agent = task[t].agent /\ m.task[t].parent = task[t].parent
           /\ m.task[t].state = task[t].state
           /\ m.task[t].stopped <=> t \in S \/ task[t].stopped
  BY MarkedWorld
<1>3. Obeyed(Continuous, m)
  OBVIOUS
<1> HIDE DEF m
<1>4. Sound(Continuous, m)
  BY <1>2, <1>3, WorldIs, MarkedSound DEF IInv
<1>5. "canceled" \in Bad /\ T \in SUBSET DOMAIN m.task
  BY <1>2 DEF Bad
<1>6. \A t \in T : MayEnd(m, t, "canceled")
  BY <1>2, <1>5, StatesApart DEF MayEnd, Stopping
<1> HIDE DEF T
<1>7. Sound(Continuous, v) /\ Grows(m, v) /\ Keeps(m, v) /\ DOMAIN v.task = DOMAIN m.task
  BY <1>4, <1>5, <1>6, TerminateAllSound DEF IInv
<1> HIDE DEF v
<1>8. Spares(World, v)
  BY <1>2, <1>7, KeepsSpares, WorldIs DEF Spares
<1>9. v.control = w.control /\ (Stopping(w.system) => Stopping(v.system))
  BY <1>2, <1>7 DEF Grows, Stopping
<1>10. \A t \in DOMAIN task : /\ v.task[t].state \in LiveStates /\ t \in S => v.task[t].stopped
                              /\ v.task[t].state \in LiveStates => task[t].state \in LiveStates
  BY <1>2, <1>7 DEF Grows, Later
<1> QED
  BY <1>1, <1>2, <1>7, <1>8, <1>9, <1>10

\* The end of a stop of a continuous goal, whose live tasks were all told.
LEMMA GoalStoppedSound ==
  ASSUME NEW w, Sound(Continuous, w),
         \A t \in DOMAIN w.task : w.task[t].state \in LiveStates => w.task[t].stopped
  PROVE  LET v == GoalStopped(w) IN
         /\ Sound(Continuous, v) /\ v.task = w.task /\ v.mail = w.mail
         /\ Continuous => \A x \in Triggers : v.trigger[x].state # "active"
<1> DEFINE v == GoalStopped(w)
<1>1. CASE ~Continuous
  <2>1. v = w
    BY <1>1 DEF GoalStopped
  <2> HIDE DEF v
  <2> QED
    BY <1>1, <2>1 DEF v
<1>2. CASE Continuous
  <2> DEFINE k == Closes(w, Triggers, "canceled")
             s == Drained(w)
             A == [a \in Agents |-> "stopped"]
  <2>1. v = [k EXCEPT !.control = "stopped", !.agents = A, !.system = s]
    BY <1>2 DEF GoalStopped
  <2>2. Sound(Continuous, k)
    BY ClosesSound
  <2>3. /\ k \in Worlds /\ k.task = w.task /\ k.mail = w.mail
        /\ \A x \in Triggers : k.trigger[x].state # "active"
    BY ClosesWorld DEF Sound
  <2>4. s \in SystemStates /\ Stopping(s)
    BY DrainedSystem
  <2>5. A \in [Agents -> ControlStates]
    BY DEF ControlStates
  <2> HIDE DEF v, k, s, A
  <2>6. /\ v \in Worlds /\ v.task = w.task /\ v.mail = w.mail /\ v.trigger = k.trigger
        /\ v.control = "stopped" /\ v.agents = A /\ v.system = s
    BY <2>1, <2>3, <2>4, <2>5 DEF Worlds, ControlStates
  <2>7. Obeyed(Continuous, v)
    BY <2>4, <2>6 DEF Obeyed, Stopping
  <2>8. Sound(Continuous, v)
    BY <2>2, <2>3, <2>6, <2>7, RuledSound
  <2> QED
    BY <2>3, <2>6, <2>8 DEF v
<1> QED
  BY <1>1, <1>2

\* StopSystem: the stops are written before the tasks end, so their ends obey them.
LEMMA StopGoalLands ==
  ASSUME IInv, control # "stopped", NEW no
  PROVE  Lands(GoalStopped(StopTasks([World EXCEPT !.system = "stopping", !.control = "stopped"],
                                     {t \in DOMAIN task : Live(World, t)}, no)))
<1> DEFINE w == [World EXCEPT !.system = "stopping", !.control = "stopped"]
           S == {t \in DOMAIN task : Live(World, t)}
           u == StopTasks(w, S, no)
           v == GoalStopped(u)
<1>1. World \in Worlds
  BY DEF IInv, Sound
<1>2. /\ w \in Worlds /\ w.task = task /\ w.mail = mail /\ w.trigger = trigger
      /\ w.control = "stopped" /\ w.system = "stopping" /\ w.agents = agents
  BY <1>1, WorldIs DEF Worlds, SystemStates, ControlStates
<1> HIDE DEF w
<1>3. S \in SUBSET DOMAIN task /\ \A t \in DOMAIN task : task[t].state \in LiveStates <=> t \in S
  BY WorldIs DEF Live
<1> HIDE DEF S
<1>4. Obeyed(Continuous, Marked(w, S))
  <2> DEFINE m == Marked(w, S)
  <2>1. /\ m.control = "stopped" /\ m.system = "stopping" /\ DOMAIN m.task = DOMAIN task
        /\ \A t \in DOMAIN task : m.task[t].state = task[t].state /\ (m.task[t].stopped <=> t \in S \/ task[t].stopped)
    BY <1>2, MarkedWorld
  <2> HIDE DEF m
  <2>2. Obeyed(Continuous, m)
    BY <1>3, <2>1 DEF Obeyed, Stopping
  <2> QED
    BY <2>2 DEF m
<1>5. /\ Sound(Continuous, u) /\ Spares(World, u) /\ DOMAIN u.task = DOMAIN task
      /\ \A t \in DOMAIN u.task : u.task[t].state \in LiveStates => u.task[t].stopped
  BY <1>2, <1>3, <1>4, StopTasksSound
<1> HIDE DEF u
<1>6. /\ Sound(Continuous, v) /\ v.task = u.task /\ v.mail = u.mail
      /\ Continuous => \A x \in Triggers : v.trigger[x].state # "active"
  BY <1>5, GoalStoppedSound
<1> HIDE DEF v
<1>7. Lands(v)
  BY <1>5, <1>6 DEF Lands, Spares
<1> QED
  BY <1>7 DEF v, u, w, S

\* Those an agent has delegated to, and so on down, have somebody they report to.
LEMMA SelectedHasParent ==
  ASSUME Lineal(task), NEW a, a # Operator, NEW t \in Selected(a), \A u \in DOMAIN task : task[u].parent \in Nat
  PROVE  t \in DOMAIN task /\ task[t].parent # 0
<1> DEFINE S == {u \in DOMAIN task : task[u].parent # 0}
<1>1. t \in DOMAIN task /\ S \in SUBSET DOMAIN task
  BY DEF Selected
<1>2. \A u \in DOMAIN task : task[u].agent = a \/ task[u].parent \in S => u \in S
  <2> SUFFICES ASSUME NEW u \in DOMAIN task, task[u].parent = 0
               PROVE  task[u].agent # a /\ task[u].parent \notin S
    OBVIOUS
  <2>1. task[u].agent = Operator
    BY DEF Lineal
  <2>2. 0 \in DOMAIN task => task[0].parent < 0 /\ task[0].parent \in Nat
    BY DEF Lineal
  <2> QED
    BY <2>1, <2>2
<1> HIDE DEF S
<1>3. t \in S
  BY <1>1, <1>2 DEF Selected
<1> QED
  BY <1>3 DEF S

\* All the live tasks are told, or all those of the agent.
LEMMA StopAgentLands ==
  ASSUME IInv, control # "stopped", system \in {"running", "paused"}, NEW a \in Agents, NEW no
  PROVE  LET w == [World EXCEPT !.agents[a] = "stopped"]
             L == {t \in DOMAIN task : Live(World, t)}
             S == {t \in Selected(a) : Live(World, t)}
         IN /\ Continuous /\ a = Operator => Lands(GoalStopped(StopTasks(w, L, no)))
            /\ ~(Continuous /\ a = Operator) => Lands(StopTasks(w, S, no))
<1> DEFINE A == [agents EXCEPT ![a] = "stopped"]
           w == [World EXCEPT !.agents[a] = "stopped"]
           L == {t \in DOMAIN task : Live(World, t)}
           S == {t \in Selected(a) : Live(World, t)}
<1>1. /\ World \in Worlds /\ agents \in [Agents -> ControlStates]
      /\ \A t \in DOMAIN task : task[t].parent \in Nat /\ task[t].agent \in Agents
  BY WorldIs, WorldFields, TaskRowTypes DEF IInv, Sound
<1>2. w = [World EXCEPT !.agents = A]
  BY WorldIs
<1>3. A \in [Agents -> ControlStates] /\ \A b \in Agents : A[b] = "stopped" => b = a \/ agents[b] = "stopped"
  BY <1>1 DEF ControlStates
<1> HIDE DEF A, w
<1>4. /\ w \in Worlds /\ w.task = task /\ w.mail = mail /\ w.trigger = trigger
      /\ w.control = control /\ w.system = system /\ w.agents = A
  BY <1>1, <1>2, <1>3, WorldIs DEF Worlds
<1>5. L \in SUBSET DOMAIN task /\ \A t \in DOMAIN task : task[t].state \in LiveStates <=> t \in L
  BY WorldIs DEF Live
<1>6. S \in SUBSET DOMAIN task /\ \A t \in DOMAIN task : task[t].state \in LiveStates /\ task[t].agent = a => t \in S
  BY WorldIs DEF Live, Selected
<1>7. \A M : LET m == Marked(w, M) IN
        /\ m.control = control /\ m.agents = A
        /\ m.system = IF \E t \in M : task[t].parent = 0 THEN "stopping" ELSE system
        /\ DOMAIN m.task = DOMAIN task
        /\ \A t \in DOMAIN task : /\ m.task[t].agent = task[t].agent /\ m.task[t].parent = task[t].parent
                                  /\ m.task[t].state = task[t].state
                                  /\ m.task[t].stopped <=> t \in M \/ task[t].stopped
  BY <1>4, MarkedWorld
<1>8. /\ Obeyed(Continuous, World) /\ Lineal(task) /\ ~Stopping(system) /\ system # "inactive"
  BY WorldIs DEF IInv, Sound, Stopping
<1>9. CASE Continuous /\ a = Operator
  <2> DEFINE u == StopTasks(w, L, no)
             v == GoalStopped(u)
             m == Marked(w, L)
  <2>1. Obeyed(Continuous, m)
    <3>1. /\ m.control = control
          /\ m.system = IF \E t \in L : task[t].parent = 0 THEN "stopping" ELSE system
          /\ DOMAIN m.task = DOMAIN task
          /\ \A t \in DOMAIN task : /\ m.task[t].parent = task[t].parent
                                    /\ m.task[t].state = task[t].state
                                    /\ m.task[t].stopped <=> t \in L \/ task[t].stopped
      BY <1>7
    <3> HIDE DEF m, L
    <3> QED
      BY <1>5, <1>8, <3>1 DEF Obeyed, Stopping
  <2> HIDE DEF L
  <2>2. /\ Sound(Continuous, u) /\ Spares(World, u) /\ DOMAIN u.task = DOMAIN task
        /\ \A t \in DOMAIN u.task : u.task[t].state \in LiveStates => u.task[t].stopped
    BY <1>4, <1>5, <2>1, StopTasksSound
  <2> HIDE DEF u
  <2>3. /\ Sound(Continuous, v) /\ v.task = u.task /\ v.mail = u.mail
        /\ Continuous => \A x \in Triggers : v.trigger[x].state # "active"
    BY <2>2, GoalStoppedSound
  <2> HIDE DEF v
  <2>4. Lands(v)
    BY <2>2, <2>3 DEF Lands, Spares
  <2> QED
    BY <1>9, <2>4 DEF v, u, w, L
<1>10. CASE ~(Continuous /\ a = Operator)
  <2> DEFINE v == StopTasks(w, S, no)
             m == Marked(w, S)
  <2>1. Continuous => \A t \in S : task[t].parent # 0
    BY <1>1, <1>8, <1>10, SelectedHasParent
  <2>2. Obeyed(Continuous, m)
    <3>1. /\ m.control = control /\ m.agents = A
          /\ m.system = IF \E t \in S : task[t].parent = 0 THEN "stopping" ELSE system
          /\ DOMAIN m.task = DOMAIN task
          /\ \A t \in DOMAIN task : /\ m.task[t].agent = task[t].agent /\ m.task[t].parent = task[t].parent
                                    /\ m.task[t].state = task[t].state
                                    /\ m.task[t].stopped <=> t \in S \/ task[t].stopped
      BY <1>7
    <3> HIDE DEF m, S
    <3>2. ~Continuous => Obeyed(Continuous, m)
      BY <3>1 DEF Obeyed
    <3>3. Continuous => Obeyed(Continuous, m)
      <4> SUFFICES ASSUME Continuous PROVE Obeyed(Continuous, m)
        OBVIOUS
      <4>1. m.system = system /\ m.control # "stopped"
        BY <2>1, <3>1
      <4> SUFFICES ASSUME NEW t \in DOMAIN task, task[t].state \in LiveStates
                   PROVE  /\ A[task[t].agent] = "stopped" => m.task[t].stopped
                          /\ ~(m.task[t].stopped /\ task[t].parent = 0)
        BY <1>8, <3>1, <4>1 DEF Obeyed
      <4>2. /\ agents[task[t].agent] = "stopped" => task[t].stopped
            /\ ~(task[t].stopped /\ task[t].parent = 0)
        BY <1>8, WorldIs DEF Obeyed
      <4> QED
        BY <1>1, <1>3, <1>6, <2>1, <3>1, <4>2
    <3> QED
      BY <3>2, <3>3
  <2> HIDE DEF S
  <2>3. Sound(Continuous, v) /\ Spares(World, v) /\ v.control = control
    BY <1>4, <1>6, <2>2, StopTasksSound
  <2> HIDE DEF v
  <2>4. Lands(v)
    BY <2>3 DEF Lands
  <2> QED
    BY <1>10, <2>4 DEF v, w, S
<1> QED
  BY <1>9, <1>10

-----------------------------------------------------------------------------
(* Crashes *)

\* The leases are returned and the tasks that ran are queued.
LEMMA RequeuedSound ==
  ASSUME IInv
  PROVE  LET v == Requeued IN
         /\ Sound(Continuous, v) /\ Grows(World, v) /\ DOMAIN v.task = DOMAIN task
         /\ \A j \in DOMAIN mail : /\ v.mail[j].kind = mail[j].kind /\ v.mail[j].task = mail[j].task
                                   /\ mail[j].state # "leased" => v.mail[j].state = mail[j].state
<1> DEFINE back(e) == IF e.state # "leased" THEN e
                      ELSE [e EXCEPT !.state = IF task[e.task].state = "waiting" THEN "acked" ELSE "pending"]
           requeued(row) == IF row.state = "running" THEN [row EXCEPT !.state = "queued"] ELSE row
           f == [j \in DOMAIN World.mail |-> back(mail[j])]
           g == [t \in DOMAIN World.task |-> requeued(task[t])]
           u == [World EXCEPT !.mail = Table(f)]
           k == [u EXCEPT !.task = Table(g)]
           v == Requeued
<1>1. /\ World \in Worlds /\ Sound(Continuous, World)
      /\ \A j \in DOMAIN mail : mail[j] \in EventRows
      /\ \A t \in DOMAIN task : task[t] \in TaskRows
  BY WorldIs, WorldFields DEF IInv, Sound
<1>2. ASSUME NEW j \in DOMAIN mail
      PROVE  /\ back(mail[j]) \in EventRows /\ back(mail[j]).kind = mail[j].kind
             /\ back(mail[j]).task = mail[j].task /\ back(mail[j]).trigger = mail[j].trigger
             /\ back(mail[j]).due = mail[j].due /\ back(mail[j]).at = mail[j].at
             /\ mail[j].state # "leased" => back(mail[j]).state = mail[j].state
             /\ mail[j].state = "leased" => back(mail[j]).state \in {"acked", "pending"}
  <2>1. CASE mail[j].state = "leased"
    <3> DEFINE e == mail[j]
               s == IF task[e.task].state = "waiting" THEN "acked" ELSE "pending"
               r == [e EXCEPT !.state = s]
    <3>1. /\ back(mail[j]) = r /\ s \in {"acked", "pending"} /\ e \in EventRows
          /\ s \in {"pending", "leased", "acked", "dead"}
      BY <1>1, <2>1
    <3> HIDE DEF e, s, back
    <3>2. /\ r \in EventRows /\ r.state = s /\ r.task = e.task /\ r.kind = e.kind
          /\ r.trigger = e.trigger /\ r.due = e.due /\ r.at = e.at
      BY <3>1, EventStateWritten
    <3> HIDE DEF r
    <3> QED
      BY <2>1, <3>1, <3>2 DEF e
  <2>2. CASE mail[j].state # "leased"
    BY <1>1, <2>2
  <2> QED
    BY <2>1, <2>2
<1>3. ASSUME NEW t \in DOMAIN task
      PROVE  /\ requeued(task[t]) \in TaskRows /\ requeued(task[t]).agent = task[t].agent
             /\ requeued(task[t]).parent = task[t].parent /\ requeued(task[t]).stopped = task[t].stopped
             /\ requeued(task[t]).state \in LiveStates <=> task[t].state \in LiveStates
             /\ task[t].state \notin LiveStates => requeued(task[t]).state = task[t].state
  <2>1. CASE task[t].state = "running"
    <3> DEFINE row == task[t]
               r == [row EXCEPT !.state = "queued"]
    <3>1. requeued(task[t]) = r /\ row \in TaskRows
      BY <1>1, <2>1
    <3> HIDE DEF row, requeued
    <3>2. r \in TaskRows
      BY <3>1 DEF TaskRows, TaskStates, LiveStates
    <3>3. r.agent = row.agent /\ r.parent = row.parent /\ r.stopped = row.stopped /\ r.state = "queued"
      BY <3>1 DEF TaskRows
    <3> HIDE DEF r
    <3> QED
      BY <2>1, <3>1, <3>2, <3>3, StatesApart DEF row
  <2>2. CASE task[t].state # "running"
    BY <1>1, <2>2
  <2> QED
    BY <2>1, <2>2
<1>4. v = k
  <2>1. /\ f = [j \in DOMAIN mail |-> back(mail[j])] /\ g = [t \in DOMAIN task |-> requeued(task[t])]
    BY WorldIs
  <2> HIDE DEF f, g
  <2>2. k = [World EXCEPT !.mail = Table(f), !.task = Table(g)]
    BY DEF World
  <2> QED
    BY <2>1, <2>2 DEF Requeued
<1> HIDE DEF back, requeued, v
<1>5. /\ f = [j \in DOMAIN World.mail |-> f[j]] /\ g = [t \in DOMAIN World.task |-> g[t]]
      /\ \A j \in DOMAIN World.mail : f[j] \in EventRows /\ f[j] = back(mail[j])
      /\ \A t \in DOMAIN World.task : g[t] \in TaskRows /\ g[t] = requeued(task[t])
  BY <1>2, <1>3, WorldIs
<1> HIDE DEF f, g
<1>6. /\ u \in Worlds /\ u.task = task /\ u.trigger = trigger /\ u.system = system
      /\ u.control = control /\ u.agents = agents
      /\ DOMAIN u.mail = DOMAIN mail /\ \A j \in DOMAIN mail : u.mail[j] = back(mail[j])
  BY <1>1, <1>5, WorldIs, MailRewritten
<1> HIDE DEF u
<1>7. /\ k \in Worlds /\ k.mail = u.mail /\ k.trigger = trigger /\ k.system = system
      /\ k.control = control /\ k.agents = agents
      /\ DOMAIN k.task = DOMAIN task /\ \A t \in DOMAIN task : k.task[t] = requeued(task[t])
  <2>1. g = [t \in DOMAIN u.task |-> g[t]] /\ \A t \in DOMAIN u.task : g[t] \in TaskRows
    BY <1>5, <1>6, WorldIs
  <2> QED
    BY <1>5, <1>6, <2>1, WorldIs, TasksRewritten
<1> HIDE DEF k
<1>8. Fewer(task, k.task) /\ SameEvents(mail, k.mail)
  BY <1>2, <1>3, <1>6, <1>7 DEF Fewer, Later, SameEvents
<1>9. Housed(k.mail, k.task) /\ OneLease(k.mail)
  <2>1. Housed(mail, task)
    BY WorldIs DEF IInv, Sound
  <2>2. \A t \in DOMAIN task : k.task[t].state = "completed" => task[t].state = "completed"
    BY <1>3, <1>7, StatesApart
  <2>3. \A j \in DOMAIN mail : /\ k.mail[j].task = mail[j].task /\ k.mail[j].state # "leased"
                               /\ k.mail[j].state = "pending" => mail[j].state \in {"pending", "leased"}
    BY <1>2, <1>6, <1>7
  <2> QED
    BY <1>6, <1>7, <2>1, <2>2, <2>3 DEF Housed, OneLease
<1>10. Standing(Continuous, k.trigger, k.task)
  <2>1. Standing(Continuous, trigger, task)
    BY WorldIs DEF IInv, Sound
  <2>2. \A t \in DOMAIN task : /\ task[t].state \in LiveStates => k.task[t].state \in LiveStates
                               /\ task[t].state = "completed" => k.task[t].state = "completed"
    BY <1>3, <1>7, StatesApart
  <2> QED
    BY <1>7, <2>1, <2>2 DEF Standing
<1>11. Obeyed(Continuous, k)
  <2>1. Obeyed(Continuous, World)
    BY DEF IInv, Sound
  <2> QED
    BY <1>3, <1>7, <2>1, WorldIs DEF Obeyed
<1>12. Sound(Continuous, k)
  BY <1>1, <1>7, <1>8, <1>9, <1>10, <1>11, WorldIs, FadesReflexive, CalmStep
<1>13. Grows(World, k)
  BY <1>7, <1>8, WorldIs DEF Grows, Fewer, SameEvents
<1> QED
  BY <1>2, <1>4, <1>6, <1>7, <1>12, <1>13 DEF v

\* RecoverExecutions: a lost task fails; the system stops when nothing is live.
LEMMA RecoveredLands ==
  ASSUME IInv, NEW lost \in SUBSET DOMAIN task, NEW no
  PROVE  Lands(Recovered(lost, no))
<1> DEFINE w == Requeued
           u == TerminateAll(w, lost, "failed", no)
           over == \/ 1 \in lost /\ ~Continuous
                   \/ /\ u.system \in {"running", "stopping"}
                      /\ ~Continuous \/ control = "stopped"
                      /\ \A t \in DOMAIN task : ~Live(u, t)
           v == [u EXCEPT !.system = "stopped"]
           k == Recovered(lost, no)
<1>1. k = IF over THEN v ELSE u
  BY DEF Recovered
<1>2. /\ Sound(Continuous, w) /\ Grows(World, w) /\ DOMAIN w.task = DOMAIN task
      /\ \A j \in DOMAIN mail : /\ w.mail[j].kind = mail[j].kind /\ w.mail[j].task = mail[j].task
                                /\ mail[j].state # "leased" => w.mail[j].state = mail[j].state
  BY RequeuedSound
<1> HIDE DEF w, k
<1>3. "failed" \in Bad /\ lost \in SUBSET DOMAIN w.task /\ \A t \in lost : MayEnd(w, t, "failed")
  BY <1>2 DEF Bad, MayEnd
<1>4. Sound(Continuous, u) /\ Grows(w, u) /\ Keeps(w, u) /\ DOMAIN u.task = DOMAIN task
  BY <1>2, <1>3, TerminateAllSound DEF IInv
<1> HIDE DEF u
<1>5. Grows(World, u)
  BY <1>2, <1>4, GrowsTransitive
<1>6. Spares(World, u)
  <2>1. Spares(w, u)
    BY <1>4, KeepsSpares
  <2>2. DOMAIN mail \subseteq DOMAIN w.mail
    BY <1>2, WorldIs DEF Grows
  <2> QED
    BY <1>2, <2>1, <2>2, WorldIs DEF Spares
<1>7. CASE ~over
  <2>1. Lands(u)
    BY <1>4, <1>5, <1>6, GrowsLands
  <2> QED
    BY <1>1, <1>7, <2>1 DEF k
<1>8. CASE over
  <2>1. u \in Worlds
    BY <1>4 DEF Sound
  <2>2. /\ v \in Worlds /\ v.task = u.task /\ v.mail = u.mail /\ v.trigger = u.trigger
        /\ v.control = u.control /\ v.system = "stopped" /\ v.agents = u.agents
    BY <2>1 DEF Worlds, SystemStates
  <2> HIDE DEF v
  <2>3. Continuous => \A t \in DOMAIN u.task : u.task[t].state \notin LiveStates
    BY <1>4, <1>8 DEF Live
  <2>4. Obeyed(Continuous, v)
    BY <2>2, <2>3 DEF Obeyed
  <2>5. Sound(Continuous, v)
    BY <1>4, <2>2, <2>4, RuledSound
  <2>6. Grows(World, v) /\ Spares(World, v)
    BY <1>5, <1>6, <2>2 DEF Grows, Spares, Stopping
  <2>7. Lands(v)
    BY <2>5, <2>6, GrowsLands
  <2> QED
    BY <1>1, <1>8, <2>7 DEF k
<1> QED
  BY <1>7, <1>8

-----------------------------------------------------------------------------
(* The whole *)

\* The transaction that leaves v behind commits.
LEMMA Committed ==
  ASSUME IInv, NEW v, Lands(v), Becomes(v), scenario' = scenario, now' = now
  PROVE  IInv'
<1> DEFINE k == [system |-> v.system, control |-> v.control, agents |-> v.agents, task |-> v.task,
                 mail |-> v.mail, trigger |-> v.trigger, refused |-> {}]
<1>1. v \in Worlds /\ Sound(Continuous, v)
  BY DEF Lands, Sound
<1>2. /\ k \in Worlds /\ k.task = v.task /\ k.mail = v.mail /\ k.trigger = v.trigger
      /\ k.system = v.system /\ k.control = v.control /\ k.agents = v.agents
  BY <1>1 DEF Worlds
<1>3. World' = k
  BY DEF World, Becomes
<1>4. Obeyed(Continuous, k)
  BY <1>1, <1>2 DEF Sound, Obeyed
<1> HIDE DEF k
<1>5. Sound(Continuous, k)
  BY <1>1, <1>2, <1>4, RuledSound
<1>6. Continuous' = Continuous
  BY DEF Continuous
<1>7. Sound(Continuous, World)'
  BY <1>3, <1>5, <1>6
<1>8. Silenced'
  BY <1>6 DEF Lands, Becomes, Silenced
<1> QED
  BY <1>7, <1>8 DEF IInv

\* Every step but the passing of time is a transaction that commits such a world.
Commit == \E v : Lands(v) /\ Becomes(v)

\* The tools.
LEMMA WorkCommits ==
  ASSUME IInv, NEW t \in DOMAIN task, Work(t)
  PROVE  Commit /\ scenario' = scenario /\ now' = now
<1>1. CASE CreateOwn(t)
  BY <1>1, CreateOwnLands DEF CreateOwn, Commit, counts
<1>2. CASE CancelOwn(t)
  BY <1>2, CancelOwnLands DEF CancelOwn, Commit, counts
<1>3. CASE Wait(t)
  BY <1>3, WaitLands DEF Wait, Commit, counts
<1>4. CASE \E a \in Agents : Delegate(t, a)
  <2>1. PICK a \in Agents : Delegate(t, a)
    BY <1>4
  <2>2. CanUse(t) /\ MayDelegate(t, a) /\ Becomes(Delegated(t, a)) /\ scenario' = scenario /\ now' = now
    BY <2>1 DEF Delegate
  <2> QED
    BY <2>2, DelegateLands DEF Commit
<1> QED
  BY <1>1, <1>2, <1>3, <1>4 DEF Work

\* The end of an activation.
LEMMA FinishCommits ==
  ASSUME IInv, NEW t \in DOMAIN task, NEW ok \in BOOLEAN, Finish(t, ok)
  PROVE  Commit /\ scenario' = scenario /\ now' = now
<1> DEFINE j == CHOOSE i \in Leased(World) : mail[i].task = t
<1>1. j \in Leased(World) /\ mail[j].task = t
  BY WorldIs DEF Finish, Held
<1>2. PICK no \in Refusable : Becomes(Swept(Finished(t, ok, j, no)))
  BY DEF Finish, Commits
<1>3. scenario' = scenario /\ now' = now
  BY DEF Finish
<1> HIDE DEF j
<1>4. Lands(Swept(Finished(t, ok, j, no)))
  BY <1>1, FinishLands
<1> QED
  BY <1>2, <1>3, <1>4 DEF Commit

\* The commands.
LEMMA CommandCommits ==
  ASSUME IInv,
         \/ \E a \in Agents : AddInput(a) \/ CreateTrigger(a) \/ StopAgent(a)
         \/ \E x \in Triggers : CancelTrigger(x)
         \/ ChangeMemory \/ Pause \/ Resume \/ StopGoal
  PROVE  Commit /\ scenario' = scenario /\ now' = now
<1>1. ASSUME NEW a \in Agents, AddInput(a) PROVE Commit /\ scenario' = scenario /\ now' = now
  <2>1. PICK t \in Addressed(a) :
          /\ CanWake(World, t)
          /\ Becomes(Post(Woken(World, t), Event(Heir(World, t), "input", 0, NoTrigger, 0)))
    BY <1>1 DEF AddInput
  <2>2. t \in DOMAIN task
    BY DEF Addressed
  <2> QED
    BY <1>1, <2>1, <2>2, AddInputLands DEF AddInput, OnlyCommand, Commit
<1>2. ASSUME NEW a \in Agents, CreateTrigger(a) PROVE Commit /\ scenario' = scenario /\ now' = now
  BY <1>2, CreateTriggerLands DEF CreateTrigger, OnlyCommand, Commit
<1>3. ASSUME NEW a \in Agents, StopAgent(a) PROVE Commit /\ scenario' = scenario /\ now' = now
  <2> DEFINE w == [World EXCEPT !.agents[a] = "stopped"]
             L == {t \in DOMAIN task : Live(World, t)}
             S == {t \in Selected(a) : Live(World, t)}
             v(no) == IF Continuous /\ a = Operator THEN GoalStopped(StopTasks(w, L, no)) ELSE StopTasks(w, S, no)
  <2>1. PICK no \in Refusable : Becomes(v(no))
    BY <1>3 DEF StopAgent, Commits
  <2>2. control # "stopped" /\ system \in {"running", "paused"} /\ scenario' = scenario /\ now' = now
    BY <1>3 DEF StopAgent, OnlyCommand
  <2>3. Lands(v(no))
    BY <2>2, StopAgentLands
  <2> HIDE DEF v
  <2> QED
    BY <2>1, <2>2, <2>3 DEF Commit
<1>4. ASSUME NEW x \in Triggers, CancelTrigger(x) PROVE Commit /\ scenario' = scenario /\ now' = now
  BY <1>4, CancelTriggerLands DEF CancelTrigger, OnlyCommand, Commit
<1>5. CASE ChangeMemory
  BY <1>5, ChangeMemoryLands DEF ChangeMemory, Commits, OnlyCommand, Commit
<1>6. CASE Pause
  <2>1. CASE system = "running" /\ Becomes([World EXCEPT !.system = "paused"])
    BY <1>6, <2>1, SystemRuledLands DEF Pause, OnlyCommand, Commit
  <2>2. CASE \E a \in Agents : agents[a] = "active" /\ Becomes([World EXCEPT !.agents[a] = "paused"])
    BY <1>6, <2>2, AgentRuledLands DEF Pause, OnlyCommand, Commit
  <2>3. CASE control = "active" /\ Becomes([World EXCEPT !.control = "paused"])
    BY <1>6, <2>3, ControlRuledLands DEF Pause, OnlyCommand, Commit
  <2> QED
    BY <1>6, <2>1, <2>2, <2>3 DEF Pause
<1>7. CASE Resume
  <2>1. CASE system = "paused" /\ Becomes([World EXCEPT !.system = "running"])
    BY <1>7, <2>1, SystemRuledLands DEF Resume, counts, Commit
  <2>2. CASE \E a \in Agents : agents[a] = "paused" /\ Becomes([World EXCEPT !.agents[a] = "active"])
    BY <1>7, <2>2, AgentRuledLands DEF Resume, counts, Commit
  <2>3. CASE control = "paused" /\ Becomes([World EXCEPT !.control = "active"])
    BY <1>7, <2>3, ControlRuledLands DEF Resume, counts, Commit
  <2> QED
    BY <1>7, <2>1, <2>2, <2>3 DEF Resume
<1>8. CASE StopGoal
  <2> DEFINE v(no) == GoalStopped(StopTasks([World EXCEPT !.system = "stopping", !.control = "stopped"],
                                            {t \in DOMAIN task : Live(World, t)}, no))
  <2>1. PICK no \in Refusable : Becomes(v(no))
    BY <1>8 DEF StopGoal, Commits
  <2>2. control # "stopped" /\ scenario' = scenario /\ now' = now
    BY <1>8 DEF StopGoal, OnlyCommand
  <2>3. Lands(v(no))
    BY <2>2, StopGoalLands
  <2> HIDE DEF v
  <2> QED
    BY <2>1, <2>2, <2>3 DEF Commit
<1> QED
  BY <1>1, <1>2, <1>3, <1>4, <1>5, <1>6, <1>7, <1>8

\* A step commits a transaction, or only lets time pass.
LEMMA StepKinds ==
  ASSUME IInv, [Next]_vars
  PROVE  \/ Commit /\ scenario' = scenario /\ now' = now
         \/ UNCHANGED <<ruled, scenario>> /\ now' \in Nat
<1>1. CASE Claim
  BY <1>1, ClaimLands DEF Claim, Commits, Commit, counts
<1>2. CASE Tick
  BY <1>2 DEF Tick, counts, IInv
<1>3. CASE Crash
  <2>1. PICK no \in Refusable, lost \in SUBSET {t \in DOMAIN task : task[t].state = "running"} :
          Becomes(Recovered(lost, no))
    BY <1>3 DEF Crash, Commits
  <2>2. Lands(Recovered(lost, no))
    BY RecoveredLands
  <2> QED
    BY <1>3, <2>1, <2>2 DEF Crash, Commit
<1>4. CASE \E t \in DOMAIN task : Work(t) \/ \E ok \in BOOLEAN : Finish(t, ok)
  BY <1>4, WorkCommits, FinishCommits
<1>5. CASE UNCHANGED vars
  BY <1>5 DEF vars, counts, IInv
<1> QED
  BY <1>1, <1>2, <1>3, <1>4, <1>5, CommandCommits DEF Next

\* StartSystem has just committed: one task, one event, no trigger.
LEMMA Starts == Init => IInv
<1> SUFFICES ASSUME Init PROVE IInv
  OBVIOUS
<1> DEFINE r == Task(Operator, 0, 1, Lifetime)
           e == Event(1, "ready", 0, NoTrigger, 0)
<1>1. /\ Operator \in Agents /\ Lifetime \in Nat /\ now = 0 /\ scenario \in Scenarios
      /\ system = "running" /\ control = "active" /\ agents = [a \in Agents |-> "active"]
      /\ task = <<r>> /\ mail = <<e>> /\ trigger = [x \in Triggers |-> Unused]
  BY WakeupsAssumption DEF Init
<1>2. r \in TaskRows /\ r.agent = Operator /\ r.parent = 0 /\ r.state = "queued" /\ ~r.stopped
  BY <1>1, TaskMade
<1>3. e \in EventRows /\ e.task = 1 /\ e.trigger = NoTrigger /\ e.state = "pending"
  <2>1. /\ 0 \in Nat /\ 1 \in Nat /\ NoTrigger \in Triggers \cup {NoTrigger} /\ now \in Nat
        /\ "ready" \in {"ready", "continue", "result"} \cup Carried
    BY <1>1
  <2>2. e \in EventRows
    BY <2>1, EventMade
  <2> QED
    BY <2>2 DEF Event
<1> HIDE DEF r, e
<1>4. /\ task \in Seq(TaskRows) /\ DOMAIN task = {1} /\ task[1] = r
      /\ mail \in Seq(EventRows) /\ DOMAIN mail = {1} /\ mail[1] = e
  BY <1>1, <1>2, <1>3
<1>5. Unused \in TriggerRows /\ Unused.state = "none" /\ Unused.kind = "at" /\ Unused.left = 0 /\ Unused.budget = 0
  BY DEF Unused, TriggerRows
<1>6. trigger \in [Triggers -> TriggerRows]
  BY <1>1, <1>5
<1>7. agents \in [Agents -> ControlStates]
  BY <1>1 DEF ControlStates
<1>8. World \in Worlds
  BY <1>1, <1>4, <1>6, <1>7 DEF World, Worlds, SystemStates, ControlStates
<1>9. Lineal(task) /\ OneLive(task)
  BY <1>2, <1>4 DEF Lineal, OneLive
<1>10. Housed(mail, task) /\ OneLease(mail)
  BY <1>2, <1>3, <1>4 DEF Housed, OneLease
<1>11. \A x \in Triggers : FiredIn(mail, x) = {}
  BY <1>3, <1>4, WakeupsAssumption DEF FiredIn
<1>12. Spent(mail, trigger)
  <2>1. Cardinality({}) = 0
    BY FS_EmptySet
  <2> QED
    BY <1>1, <1>5, <1>11, <2>1 DEF Spent
<1>13. InTime(mail, trigger) /\ Standing(Continuous, trigger, task)
  BY <1>1, <1>5 DEF InTime, Standing
<1>14. Obeyed(Continuous, World)
  BY <1>1, <1>2, <1>4, WorldIs DEF Obeyed, Stopping
<1>15. Sound(Continuous, World)
  BY <1>8, <1>9, <1>10, <1>12, <1>13, <1>14, WorldIs DEF Sound
<1> QED
  BY <1>1, <1>15 DEF IInv, Silenced

\* The induction step.
LEMMA Inductive == IInv /\ [Next]_vars => IInv'
<1> SUFFICES ASSUME IInv, [Next]_vars PROVE IInv'
  OBVIOUS
<1>1. CASE Commit /\ scenario' = scenario /\ now' = now
  BY <1>1, Committed DEF Commit
<1>2. CASE UNCHANGED <<ruled, scenario>> /\ now' \in Nat
  <2>1. World' = World /\ Continuous' = Continuous
    BY <1>2 DEF World, ruled, Continuous
  <2>2. Silenced'
    BY <1>2 DEF Silenced, IInv, ruled, Continuous
  <2> QED
    BY <1>2, <2>1, <2>2 DEF IInv
<1> QED
  BY <1>1, <1>2, StepKinds

\* The invariant that carries the six properties holds throughout.
THEOREM Invariant == Spec => []IInv
BY Starts, Inductive, PTL DEF Spec

\* OneTaskPerAgent: no agent works on two tasks at once.
THEOREM OneTaskPerAgentHolds == Spec => []OneTaskPerAgent
<1>1. IInv => OneTaskPerAgent
  <2> SUFFICES ASSUME IInv, NEW a \in Agents PROVE Cardinality(LiveOf(World, a)) <= 1
    BY DEF OneTaskPerAgent
  <2>1. \A t, u \in LiveOf(World, a) : t = u
    BY DEF IInv, Sound, OneLive, LiveOf, Live
  <2>2. LiveOf(World, a) = {} \/ \E t : LiveOf(World, a) = {t}
    BY <2>1
  <2> QED
    BY <2>2, FS_EmptySet, FS_Singleton
<1> QED
  BY <1>1, Invariant, PTL

\* AllowanceKept: what a trigger has posted and what it has left make up its budget.
THEOREM AllowanceKeptHolds == Spec => []AllowanceKept
<1>1. IInv => AllowanceKept
  BY WorldIs DEF IInv, Sound, Spent, FiredIn, Fired, AllowanceKept
<1> QED
  BY <1>1, Invariant, PTL

\* Coalesced: no two events of a schedule are for occurrences missed together.
THEOREM CoalescedHolds == Spec => []Coalesced
<1>1. IInv => Coalesced
  BY WorldIs DEF IInv, Sound, InTime, FiredIn, Fired, Coalesced
<1> QED
  BY <1>1, Invariant, PTL

\* FailedNotRetried: an active trigger has a task that it may wake.
THEOREM FailedNotRetriedHolds == Spec => []FailedNotRetried
<1>1. IInv => FailedNotRetried
  BY WorldIs DEF IInv, Sound, Standing, FailedNotRetried, Active, Live
<1> QED
  BY <1>1, Invariant, PTL

\* StopSilences: a stopped goal makes no task, and none of its triggers fires.
THEOREM StopSilencesHolds == Spec => StopSilences
<1> DEFINE Step == control = "stopped" =>
                     /\ Len(task') = Len(task)
                     /\ \A j \in DOMAIN mail' \ DOMAIN mail : mail'[j].trigger = NoTrigger
                     /\ Continuous => \A x \in Triggers : trigger'[x].state # "active"
<1>1. IInv /\ IInv' /\ [Next]_vars => Step
  <2> SUFFICES ASSUME IInv, IInv', [Next]_vars, control = "stopped" PROVE Step
    OBVIOUS
  <2>1. CASE Commit
    <3>1. PICK v : Lands(v) /\ Becomes(v)
      BY <2>1 DEF Commit
    <3>2. /\ v.control = "stopped" /\ DOMAIN v.task = DOMAIN task /\ v \in Worlds
          /\ \A j \in DOMAIN v.mail \ DOMAIN mail : v.mail[j].trigger = NoTrigger
          /\ Continuous => \A x \in Triggers : v.trigger[x].state # "active"
      BY <3>1 DEF Lands, Sound
    <3>3. task' = v.task /\ mail' = v.mail /\ trigger' = v.trigger
      BY <3>1 DEF Becomes
    <3>4. Len(v.task) = Len(task)
      <4>1. DOMAIN task = 1..Len(task) /\ Len(task) \in Nat
        BY WorldIs, WorldFields DEF IInv, Sound
      <4>2. DOMAIN v.task = 1..Len(v.task) /\ Len(v.task) \in Nat
        BY <3>2, WorldFields
      <4> QED
        BY <3>2, <4>1, <4>2
    <3> QED
      BY <3>2, <3>3, <3>4
  <2>2. CASE UNCHANGED <<ruled, scenario>>
    BY <2>2 DEF ruled, IInv, Silenced
  <2> QED
    BY <2>1, <2>2, StepKinds
<1> QED
  BY <1>1, Invariant, PTL DEF Spec, StopSilences

\* CarriedNotLost: an input or a wakeup dies only with a task that ends badly.
THEOREM CarriedNotLostHolds == Spec => CarriedNotLost
<1> DEFINE Step == \A j \in DOMAIN mail : mail[j].kind \in Carried /\ mail[j].state = "pending" =>
                     mail'[j].state # "dead" \/ task'[mail[j].task].state \in {"failed", "rejected", "canceled"}
<1>1. IInv /\ [Next]_vars => Step
  <2> SUFFICES ASSUME IInv, [Next]_vars PROVE Step
    OBVIOUS
  <2>1. CASE Commit
    <3>1. PICK v : Spares(World, v) /\ task' = v.task /\ mail' = v.mail
      BY <2>1 DEF Commit, Lands, Becomes
    <3> QED
      BY <3>1, WorldIs DEF Spares, Bad
  <2>2. CASE UNCHANGED <<ruled, scenario>>
    BY <2>2 DEF ruled
  <2> QED
    BY <2>1, <2>2, StepKinds
<1> QED
  BY <1>1, Invariant, PTL DEF Spec, CarriedNotLost
====
