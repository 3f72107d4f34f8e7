--------------------------- MODULE WorkflowEffects ---------------------------
(***************************************************************************)
(* What the operators of module Workflow do to a world (the rows one       *)
(* transaction has read and written so far), for every value of the        *)
(* constants: the facts that the proofs about the workflow rest on.        *)
(***************************************************************************)
EXTENDS Workflow, DataTheorems

SystemStates == {"inactive", "running", "paused", "stopping", "stopped"}
TaskStates == {"none"} \union LiveStates \union EndStates
CallStates == {"none", "running", "unknown"} \union Waiting \union EndStates
AgentStates == {"active", "paused", "stopped"}
Deliveries ==
  [task : Tasks, kind : Kinds, from : Tasks \union {NoTask},
   state : {"pending", "leased", "acked", "dead"}, attempts : 0..MaxDeliveries,
   applied : BOOLEAN, copies : Nat, due : BOOLEAN]

Worlds ==
  [system : SystemStates, goals : [Goals -> TaskStates], agents : [Agents -> AgentStates],
   tasks : [Tasks -> TaskStates], calls : [Tasks -> CallStates], mail : Seq(Deliveries),
   stopped : [Tasks -> BOOLEAN]]

\* The states of tasks, goals and calls are disjoint sets of words.
LEMMA StatesApart ==
  /\ LiveStates \subseteq TaskStates /\ EndStates \subseteq TaskStates
  /\ EndStates \subseteq CallStates /\ Waiting \subseteq CallStates
  /\ LiveStates \intersect EndStates = {} /\ "none" \notin LiveStates /\ "none" \notin EndStates
  /\ EndStates \intersect Waiting = {} /\ "none" \notin Waiting
  BY DEF TaskStates, CallStates, LiveStates, EndStates, Waiting

\* The state of the store is a world.
LEMMA WorldType ==
  ASSUME TypeOK
  PROVE  /\ World \in Worlds /\ World.mail = mail /\ World.tasks = taskState
         /\ World.system = systemState /\ World.stopped = stopped /\ World.calls = callState
         /\ World.goals = goalState /\ World.agents = agentState
  BY DEF TypeOK, World, Worlds, SystemStates, TaskStates, CallStates, AgentStates, Deliveries

\* A mailbox is a function on an initial segment of the numbers.
LEMMA MailType ==
  ASSUME NEW m \in Seq(Deliveries)
  PROVE  /\ Len(m) \in Nat /\ DOMAIN m = 1..Len(m)
         /\ m \in [1..Len(m) -> Deliveries] /\ \A j \in DOMAIN m : m[j] \in Deliveries
  BY LenProperties

\* Reading an input, and leasing a delivery, leave a delivery behind.
LEMMA DeliveryEdits ==
  ASSUME NEW d \in Deliveries
  PROVE  /\ [d EXCEPT !.state = "acked", !.applied = TRUE, !.copies = @ + 1] \in Deliveries
         /\ \A n \in Nat : d.attempts < MaxDeliveries =>
              [d EXCEPT !.state = "leased", !.applied = TRUE, !.attempts = @ + 1, !.copies = n] \in Deliveries
<1>1. d.copies \in Nat /\ d.attempts \in 0..MaxDeliveries
  BY DEF Deliveries
<1>2. d.copies + 1 \in Nat /\ (d.attempts < MaxDeliveries => d.attempts + 1 \in 0..MaxDeliveries)
  BY <1>1 DEF MaxDeliveries
<1> DEFINE c == d.copies + 1
           k == d.attempts + 1
<1> HIDE DEF c, k
<1>3. c \in Nat => [d EXCEPT !.state = "acked", !.applied = TRUE, !.copies = c] \in Deliveries
  BY DEF Deliveries
<1>4. \A n \in Nat : k \in 0..MaxDeliveries =>
        [d EXCEPT !.state = "leased", !.applied = TRUE, !.attempts = k, !.copies = n] \in Deliveries
  BY DEF Deliveries
<1> QED
  BY <1>2, <1>3, <1>4 DEF c, k

-----------------------------------------------------------------------------
(* Appending to a mailbox *)

\* An event for a task is a well-formed, pending delivery.
LEMMA EventType ==
  ASSUME NEW t \in Tasks, NEW kind \in Kinds, NEW from \in Tasks \union {NoTask}
  PROVE  /\ Event(t, kind, from) \in Deliveries
         /\ Event(t, kind, from).task = t /\ Event(t, kind, from).kind = kind
         /\ Event(t, kind, from).from = from /\ Event(t, kind, from).state = "pending"
         /\ ~Event(t, kind, from).applied /\ Event(t, kind, from).copies = 0
         /\ Event(t, kind, from).due
  BY DEF Event, Deliveries, MaxDeliveries

\* Appending one event keeps every other delivery in its place.
LEMMA AppendMail ==
  ASSUME NEW m \in Seq(Deliveries), NEW e \in Deliveries
  PROVE  /\ Append(m, e) \in Seq(Deliveries)
         /\ DOMAIN Append(m, e) = DOMAIN m \union {Len(m) + 1} /\ Len(m) + 1 \notin DOMAIN m
         /\ Append(m, e)[Len(m) + 1] = e
         /\ \A j \in DOMAIN m : Append(m, e)[j] = m[j]
<1>1. /\ Append(m, e) \in Seq(Deliveries) /\ Len(Append(m, e)) = Len(m) + 1
      /\ \A j \in 1..Len(m) : Append(m, e)[j] = m[j]
      /\ Append(m, e)[Len(m) + 1] = e
  OBVIOUS
<1>2. DOMAIN m = 1..Len(m) /\ Len(m) \in Nat /\ DOMAIN Append(m, e) = 1..(Len(m) + 1)
  BY <1>1, LenProperties
<1> QED
  BY <1>1, <1>2

\* emitEvent changes nothing but the mailbox.
LEMMA EmitWorld ==
  ASSUME NEW w \in Worlds, NEW t \in Tasks, NEW kind \in Kinds, NEW from \in Tasks \union {NoTask}
  PROVE  LET v == Emit(w, t, kind, from) IN
         /\ v \in Worlds /\ v.mail = Append(w.mail, Event(t, kind, from))
         /\ v.system = w.system /\ v.goals = w.goals /\ v.agents = w.agents
         /\ v.tasks = w.tasks /\ v.calls = w.calls /\ v.stopped = w.stopped
<1>1. Event(t, kind, from) \in Deliveries
  BY EventType
<1>2. w.mail \in Seq(Deliveries)
  BY DEF Worlds
<1>3. Append(w.mail, Event(t, kind, from)) \in Seq(Deliveries)
  BY <1>1, <1>2, AppendMail
<1> QED
  BY <1>3 DEF Emit, Worlds

-----------------------------------------------------------------------------
(* Ending tasks *)

\* The mailbox after the pending deliveries of the tasks gone died.
Buried(m, gone) ==
  [j \in DOMAIN m |-> IF m[j].task \in gone /\ m[j].state = "pending"
                      THEN [m[j] EXCEPT !.state = "dead"] ELSE m[j]]

\* Burying keeps every delivery in its place, and every lease.
LEMMA BuriedMail ==
  ASSUME NEW m \in Seq(Deliveries), NEW gone
  PROVE  /\ Buried(m, gone) \in Seq(Deliveries)
         /\ DOMAIN Buried(m, gone) = DOMAIN m /\ Len(Buried(m, gone)) = Len(m)
<1>1. /\ Len(m) \in Nat /\ DOMAIN m = 1..Len(m) /\ \A j \in DOMAIN m : m[j] \in Deliveries
  BY MailType
<1>2. \A j \in DOMAIN m : [m[j] EXCEPT !.state = "dead"] \in Deliveries
  BY <1>1 DEF Deliveries
<1>3. Buried(m, gone) \in [1..Len(m) -> Deliveries]
  BY <1>1, <1>2 DEF Buried
<1> QED
  BY <1>1, <1>3, SeqFromFunction

\* terminateTask without its results, for the tasks in the domain of E.
LEMMA ClosedWorld ==
  ASSUME NEW w \in Worlds, NEW E, DOMAIN E \subseteq Tasks, \A t \in DOMAIN E : E[t] \in EndStates
  PROVE  LET v == Closed(w, E) IN
         /\ v \in Worlds /\ v.stopped = w.stopped /\ v.mail = Buried(w.mail, DOMAIN E)
         /\ \A t \in Tasks : v.tasks[t] = IF t \in DOMAIN E THEN E[t] ELSE w.tasks[t]
         /\ \A t \in Tasks : v.calls[t] = IF t \in DOMAIN E /\ w.calls[t] \in Waiting THEN E[t] ELSE w.calls[t]
         /\ v.system = IF \A t \in DOMAIN E : ~Root(t) THEN w.system
                       ELSE IF w.system \in {"stopping", "stopped"} THEN Drained(w.mail) ELSE "inactive"
         /\ \A g \in Goals : v.goals[g] = "none" => w.goals[g] = "none"
<1> DEFINE over == {t \in DOMAIN E : Root(t)}
           goals == {GoalOf[t] : t \in over}
           tasks == [t \in Tasks |-> IF t \in DOMAIN E THEN E[t] ELSE w.tasks[t]]
           calls == [t \in Tasks |-> IF t \in DOMAIN E /\ w.calls[t] \in Waiting THEN E[t] ELSE w.calls[t]]
           ended(g) == E[CHOOSE t \in over : GoalOf[t] = g]
           goal == [g \in Goals |-> IF g \in goals THEN ended(g) ELSE w.goals[g]]
           agents == [a \in Agents |-> IF \E g \in goals : a \in Team(g) THEN "stopped" ELSE w.agents[a]]
           system == IF over = {} THEN w.system
                     ELSE IF w.system \in {"stopping", "stopped"} THEN Drained(w.mail) ELSE "inactive"
<1>1. w.mail \in Seq(Deliveries)
  BY DEF Worlds
<1>2. tasks \in [Tasks -> TaskStates]
  BY StatesApart DEF Worlds
<1>3. calls \in [Tasks -> CallStates]
  BY StatesApart DEF Worlds
<1>4. \A g \in goals : ended(g) \in EndStates
  OBVIOUS
<1>5. goal \in [Goals -> TaskStates] /\ \A g \in Goals : goal[g] = "none" => w.goals[g] = "none"
  BY <1>4, StatesApart DEF Worlds
<1>6. agents \in [Agents -> AgentStates]
  BY DEF Worlds, AgentStates
<1>7. system \in SystemStates
  BY DEF Worlds, SystemStates, Drained
<1>8. /\ Closed(w, E).tasks = tasks /\ Closed(w, E).calls = calls
      /\ Closed(w, E).mail = Buried(w.mail, DOMAIN E)
      /\ Closed(w, E).goals = goal /\ Closed(w, E).agents = agents /\ Closed(w, E).system = system
      /\ Closed(w, E).stopped = w.stopped
  BY DEF Closed, Worlds, Buried
<1>9. Closed(w, E) \in Worlds
  <2> DEFINE buried == Buried(w.mail, DOMAIN E)
  <2>1. Closed(w, E) = [w EXCEPT !.tasks = tasks, !.calls = calls, !.mail = buried,
                                 !.goals = goal, !.agents = agents, !.system = system]
    BY DEF Closed, Worlds, Buried
  <2>2. buried \in Seq(Deliveries)
    BY <1>1, BuriedMail
  <2> HIDE DEF tasks, calls, goal, agents, system, buried
  <2> QED
    BY <2>1, <2>2, <1>2, <1>3, <1>5, <1>6, <1>7 DEF Worlds
<1> QED
  BY <1>5, <1>8, <1>9

\* The results that the ended tasks post: one for each task to be reported.
LEMMA ResultsWorld ==
  ASSUME NEW w \in Worlds, NEW gone \in SUBSET Tasks
  PROVE  LET v == Results(w, gone)
             new == DOMAIN v.mail \ DOMAIN w.mail IN
         /\ v \in Worlds /\ v.stopped = w.stopped /\ v.system = w.system
         /\ v.tasks = w.tasks /\ v.calls = w.calls /\ v.goals = w.goals /\ v.agents = w.agents
         /\ DOMAIN w.mail \subseteq DOMAIN v.mail /\ Len(w.mail) <= Len(v.mail)
         /\ \A j \in DOMAIN w.mail : v.mail[j] = w.mail[j]
         /\ \A j \in new : \E c \in Reporters(w, gone) : v.mail[j] = Event(ParentOf[c], "result", c)
         /\ \A j, k \in new : v.mail[j].from = v.mail[k].from => j = k
         /\ \A c \in Reporters(w, gone) : \E j \in new : v.mail[j] = Event(ParentOf[c], "result", c)
<1> DEFINE S == Reporters(w, gone)
           told == SetToSeq(S)
           posted == [k \in DOMAIN told |-> Event(ParentOf[told[k]], "result", told[k])]
           n == Cardinality(S)
           v == Results(w, gone)
<1>1. S \subseteq Tasks /\ \A c \in S : ParentOf[c] \in Tasks
  BY WorkflowAssumption DEF Reporters, Root
<1>2. IsFiniteSet(S)
  BY <1>1, WorkflowAssumption, FS_Subset
<1>3. /\ n \in Nat /\ told \in [1..n -> S] /\ DOMAIN told = 1..n
      /\ \A j, k \in 1..n : told[j] = told[k] => j = k
      /\ \A x \in S : \E k \in 1..n : told[k] = x
  BY <1>2, Listing
<1>4. \A k \in 1..n : posted[k] \in Deliveries /\ posted[k].from = told[k]
  <2> TAKE k \in 1..n
  <2>1. told[k] \in Tasks /\ ParentOf[told[k]] \in Tasks
    BY <1>1, <1>3
  <2>2. "result" \in Kinds
    BY DEF Kinds
  <2> QED
    BY <1>3, <2>1, <2>2, EventType
<1>5. posted \in Seq(Deliveries) /\ Len(posted) = n /\ DOMAIN posted = 1..n
  <2>1. posted \in [1..n -> Deliveries]
    BY <1>3, <1>4
  <2> HIDE DEF posted, n
  <2> QED
    BY <1>3, <2>1, SeqFromFunction
<1>6. /\ w.mail \in Seq(Deliveries) /\ Len(w.mail) \in Nat /\ DOMAIN w.mail = 1..Len(w.mail)
  BY MailType DEF Worlds
<1> DEFINE m == w.mail \o posted
<1>7. /\ m \in Seq(Deliveries) /\ DOMAIN m = 1..(Len(w.mail) + n) /\ Len(m) = Len(w.mail) + n
      /\ \A i \in 1..(Len(w.mail) + n) : m[i] = IF i <= Len(w.mail) THEN w.mail[i] ELSE posted[i - Len(w.mail)]
  <2> HIDE DEF posted, n
  <2>1. /\ m \in Seq(Deliveries) /\ Len(m) = Len(w.mail) + Len(posted)
        /\ \A i \in 1..(Len(w.mail) + Len(posted)) :
             m[i] = IF i <= Len(w.mail) THEN w.mail[i] ELSE posted[i - Len(w.mail)]
    BY <1>5, <1>6, ConcatProperties
  <2>2. DOMAIN m = 1..Len(m)
    BY <2>1, LenProperties
  <2> QED
    BY <1>5, <2>1, <2>2
<1>8. /\ v.mail = m /\ v.stopped = w.stopped /\ v.system = w.system
      /\ v.tasks = w.tasks /\ v.calls = w.calls /\ v.goals = w.goals /\ v.agents = w.agents
  BY DEF Results, Worlds
<1>9. v \in Worlds
  <2>1. v = [w EXCEPT !.mail = m]
    BY DEF Results, Worlds
  <2> HIDE DEF m, v
  <2> QED
    BY <1>7, <2>1 DEF Worlds
<1>10. \A j \in DOMAIN m \ DOMAIN w.mail : /\ j - Len(w.mail) \in 1..n /\ m[j] = posted[j - Len(w.mail)]
                                           /\ m[j].from = told[j - Len(w.mail)]
  BY <1>3, <1>4, <1>6, <1>7
<1>11. \A j \in DOMAIN m \ DOMAIN w.mail : \E c \in S : m[j] = Event(ParentOf[c], "result", c)
  BY <1>3, <1>10
<1>12. \A j, k \in DOMAIN m \ DOMAIN w.mail : m[j].from = m[k].from => j = k
  <2> TAKE j, k \in DOMAIN m \ DOMAIN w.mail
  <2> HAVE m[j].from = m[k].from
  <2>1. j - Len(w.mail) = k - Len(w.mail)
    <3> HIDE DEF m, posted, told, n
    <3>1. /\ j - Len(w.mail) \in 1..n /\ told[j - Len(w.mail)] = m[j].from
          /\ k - Len(w.mail) \in 1..n /\ told[k - Len(w.mail)] = m[k].from
      BY <1>10
    <3> QED
      BY <1>3, <3>1
  <2>2. j \in Int /\ k \in Int
    BY <1>7
  <2> QED
    BY <2>1, <2>2, <1>6
<1>13. \A c \in S : \E j \in DOMAIN m \ DOMAIN w.mail : m[j] = Event(ParentOf[c], "result", c)
  <2> TAKE c \in S
  <2>1. PICK k \in 1..n : told[k] = c
    BY <1>3
  <2>2. Len(w.mail) + k \in DOMAIN m \ DOMAIN w.mail /\ m[Len(w.mail) + k] = posted[k]
    BY <1>3, <1>6, <1>7
  <2> QED
    BY <2>1, <2>2, <1>3
<1> HIDE DEF m, posted, told, n
<1>14. DOMAIN w.mail \subseteq DOMAIN m /\ Len(w.mail) <= Len(m) /\ \A j \in DOMAIN w.mail : m[j] = w.mail[j]
  BY <1>3, <1>6, <1>7
<1> QED
  BY <1>8, <1>9, <1>11, <1>12, <1>13, <1>14

\* terminateTask for the tasks of B led from world w to world v: the tasks
\* gone have ended, those not of B because a result could not be delivered.
Ends(w, B, v, gone) ==
  /\ DOMAIN B \subseteq gone /\ gone \subseteq Living(w)
  /\ v \in Worlds /\ v.stopped = w.stopped
  /\ \A t \in Tasks : v.tasks[t] = IF t \notin gone THEN w.tasks[t]
                                   ELSE IF t \in DOMAIN B THEN B[t] ELSE "rejected"
  /\ \A t \in gone \ DOMAIN B : ~w.stopped[t]
  /\ \A t \in Tasks : v.calls[t] = IF t \in gone /\ w.calls[t] \in Waiting THEN v.tasks[t] ELSE w.calls[t]
  /\ v.system = IF \A t \in gone : ~Root(t) THEN w.system
                ELSE IF w.system \in {"stopping", "stopped"} THEN Drained(w.mail) ELSE "inactive"
  /\ \A g \in Goals : v.goals[g] = "none" => w.goals[g] = "none"
  /\ DOMAIN w.mail \subseteq DOMAIN v.mail /\ Len(w.mail) <= Len(v.mail)
  /\ \A j \in DOMAIN w.mail :
       v.mail[j] = IF w.mail[j].task \in gone /\ w.mail[j].state = "pending"
                   THEN [w.mail[j] EXCEPT !.state = "dead"] ELSE w.mail[j]
  /\ \A j \in DOMAIN v.mail \ DOMAIN w.mail :
       \E c \in gone : ~Root(c) /\ ParentOf[c] \in Living(w) \ gone /\ v.mail[j] = Event(ParentOf[c], "result", c)
  /\ \A j, k \in DOMAIN v.mail \ DOMAIN w.mail : v.mail[j].from = v.mail[k].from => j = k
  /\ \A c \in gone : ~Root(c) /\ ParentOf[c] \in Living(w) \ gone /\ ~w.stopped[ParentOf[c]] =>
       \E j \in DOMAIN v.mail \ DOMAIN w.mail : v.mail[j] = Event(ParentOf[c], "result", c)

\* Every world that terminateTask can lead to is of that form.
LEMMA EndingsEnd ==
  ASSUME NEW w \in Worlds, NEW B, DOMAIN B \subseteq Living(w), \A t \in DOMAIN B : B[t] \in EndStates,
         NEW v \in Endings(w, B)
  PROVE  \E gone \in SUBSET Tasks : Ends(w, B, v, gone)
<1>1. PICK R \in Refusals(w, B) : v = Results(Closed(w, Rejecting(B, R)), DOMAIN B \union R)
  BY DEF Endings
<1> DEFINE gone == DOMAIN B \union R
           E == Rejecting(B, R)
           u == Closed(w, E)
<1>2. R \subseteq Living(w) /\ R \intersect DOMAIN B = {} /\ \A p \in R : ~w.stopped[p]
  BY <1>1 DEF Refusals
<1>3. gone \subseteq Living(w) /\ gone \subseteq Tasks
  BY <1>2 DEF Living
<1>4. /\ DOMAIN E = gone /\ \A t \in gone : E[t] = (IF t \in DOMAIN B THEN B[t] ELSE "rejected")
      /\ \A t \in gone : E[t] \in EndStates
  <2>1. "rejected" \in EndStates
    BY DEF EndStates
  <2> QED
    BY <2>1 DEF Rejecting
<1> HIDE DEF E, gone
<1>5. /\ u \in Worlds /\ u.stopped = w.stopped /\ u.mail = Buried(w.mail, gone)
      /\ \A t \in Tasks : u.tasks[t] = IF t \in gone THEN E[t] ELSE w.tasks[t]
      /\ \A t \in Tasks : u.calls[t] = IF t \in gone /\ w.calls[t] \in Waiting THEN E[t] ELSE w.calls[t]
      /\ u.system = IF \A t \in gone : ~Root(t) THEN w.system
                    ELSE IF w.system \in {"stopping", "stopped"} THEN Drained(w.mail) ELSE "inactive"
      /\ \A g \in Goals : u.goals[g] = "none" => w.goals[g] = "none"
  BY <1>3, <1>4, ClosedWorld
<1>6. /\ DOMAIN u.mail = DOMAIN w.mail /\ Len(u.mail) = Len(w.mail)
      /\ \A j \in DOMAIN w.mail :
           u.mail[j] = IF w.mail[j].task \in gone /\ w.mail[j].state = "pending"
                       THEN [w.mail[j] EXCEPT !.state = "dead"] ELSE w.mail[j]
  <2>1. w.mail \in Seq(Deliveries)
    BY DEF Worlds
  <2>2. DOMAIN u.mail = DOMAIN w.mail /\ Len(u.mail) = Len(w.mail)
    BY <1>5, <2>1, BuriedMail
  <2> QED
    BY <1>5, <2>2 DEF Buried
<1>7. Living(u) = Living(w) \ gone
  <2>1. \A t \in gone : E[t] \notin LiveStates
    BY <1>4, StatesApart
  <2> QED
    BY <1>3, <1>5, <2>1 DEF Living
<1>8. \A c : c \in Reporters(u, gone) <=>
        c \in gone /\ ~Root(c) /\ ParentOf[c] \in Living(w) \ gone /\ ~w.stopped[ParentOf[c]]
  BY <1>5, <1>7 DEF Reporters
<1> HIDE DEF u
<1>9. v = Results(u, gone)
  BY <1>1 DEF u, E, gone
<1>10. /\ v \in Worlds /\ v.stopped = u.stopped /\ v.system = u.system
       /\ v.tasks = u.tasks /\ v.calls = u.calls /\ v.goals = u.goals
       /\ DOMAIN u.mail \subseteq DOMAIN v.mail /\ Len(u.mail) <= Len(v.mail)
       /\ \A j \in DOMAIN u.mail : v.mail[j] = u.mail[j]
       /\ \A j \in DOMAIN v.mail \ DOMAIN u.mail : \E c \in Reporters(u, gone) : v.mail[j] = Event(ParentOf[c], "result", c)
       /\ \A j, k \in DOMAIN v.mail \ DOMAIN u.mail : v.mail[j].from = v.mail[k].from => j = k
       /\ \A c \in Reporters(u, gone) : \E j \in DOMAIN v.mail \ DOMAIN u.mail : v.mail[j] = Event(ParentOf[c], "result", c)
  BY <1>3, <1>5, <1>9, ResultsWorld
<1>11. DOMAIN B \subseteq gone /\ gone \subseteq Living(w) /\ \A t \in gone \ DOMAIN B : ~w.stopped[t]
  BY <1>2, <1>3 DEF gone
<1>12. \A t \in Tasks : v.tasks[t] = IF t \notin gone THEN w.tasks[t]
                                     ELSE IF t \in DOMAIN B THEN B[t] ELSE "rejected"
  BY <1>4, <1>5, <1>10
<1>13. \A t \in Tasks : v.calls[t] = IF t \in gone /\ w.calls[t] \in Waiting THEN v.tasks[t] ELSE w.calls[t]
  BY <1>4, <1>5, <1>10
<1>14. /\ \A j \in DOMAIN v.mail \ DOMAIN w.mail :
            \E c \in gone : ~Root(c) /\ ParentOf[c] \in Living(w) \ gone /\ v.mail[j] = Event(ParentOf[c], "result", c)
       /\ \A c \in gone : ~Root(c) /\ ParentOf[c] \in Living(w) \ gone /\ ~w.stopped[ParentOf[c]] =>
            \E j \in DOMAIN v.mail \ DOMAIN w.mail : v.mail[j] = Event(ParentOf[c], "result", c)
  BY <1>6, <1>8, <1>10
<1>15. Ends(w, B, v, gone)
  BY <1>5, <1>6, <1>10, <1>11, <1>12, <1>13, <1>14 DEF Ends
<1> QED
  BY <1>3, <1>15

-----------------------------------------------------------------------------
(* Scheduling *)

\* What claim does to candidate j when it passes it over.
Passed(i, j, d) ==
  \/ d = mail[j]
  \/ j < i /\ j \in Candidates /\ (Doomed(j) \/ j \in Strays) /\ d = [mail[j] EXCEPT !.state = "dead"]
  \/ j < i /\ j \in Notices /\ d = [mail[j] EXCEPT !.state = "acked", !.applied = TRUE]

\* Claim changes nothing but the candidates before the delivery it leases.
LEMMA SortedWorld ==
  ASSUME TypeOK, NEW i \in Int
  PROVE  LET v == Sorted(i) IN
         /\ v \in Worlds /\ v.system = systemState /\ v.goals = goalState /\ v.agents = agentState
         /\ v.tasks = taskState /\ v.calls = callState /\ v.stopped = stopped
         /\ DOMAIN v.mail = DOMAIN mail /\ Len(v.mail) = Len(mail)
         /\ \A j \in DOMAIN mail : Passed(i, j, v.mail[j])
<1> DEFINE m == [j \in DOMAIN mail |->
             IF j \notin Candidates \/ j >= i THEN mail[j]
             ELSE IF Doomed(j) \/ j \in Strays THEN [mail[j] EXCEPT !.state = "dead"]
             ELSE IF j \in Notices THEN [mail[j] EXCEPT !.state = "acked", !.applied = TRUE] ELSE mail[j]]
<1>1. mail \in Seq(Deliveries)
  BY DEF TypeOK, Deliveries
<1>2. DOMAIN mail = 1..Len(mail) /\ Len(mail) \in Nat /\ \A j \in DOMAIN mail : mail[j] \in Deliveries
  BY <1>1, MailType
<1>3. \A j \in DOMAIN mail : m[j] \in Deliveries
  BY <1>2 DEF Deliveries
<1>4. m \in [1..Len(mail) -> Deliveries]
  <2>1. DOMAIN m = DOMAIN mail
    OBVIOUS
  <2> QED
    BY <1>2, <1>3, <2>1
<1>5. m \in Seq(Deliveries) /\ DOMAIN m = DOMAIN mail /\ Len(m) = Len(mail)
  <2> HIDE DEF m
  <2> QED
    BY <1>2, <1>4, SeqFromFunction
<1>6. Sorted(i) = [World EXCEPT !.mail = m]
  BY DEF Sorted, World
<1>7. \A j \in DOMAIN mail : Passed(i, j, m[j])
  <2> TAKE j \in DOMAIN mail
  <2>1. CASE j \notin Candidates \/ j >= i
    BY <2>1 DEF Passed
  <2>2. CASE j \in Candidates /\ ~(j >= i)
    <3>1. j \in Nat
      BY <1>2
    <3>2. j < i
      BY <2>2, <3>1
    <3> QED
      BY <2>2, <3>2 DEF Passed
  <2> QED
    BY <2>1, <2>2
<1> HIDE DEF m
<1>8. World \in Worlds
  BY WorldType
<1> QED
  BY <1>5, <1>6, <1>7, <1>8, WorldType DEF Worlds

\* Claim ends living tasks only, never as completed; a live task whose delivery
\* it finds doomed or is denied to deliver is among them.
LEMMA CasualtiesDie ==
  ASSUME TypeOK, NEW i \in Int
  PROVE  /\ DOMAIN Casualties(i) \subseteq Living(Sorted(i)) /\ Living(Sorted(i)) = {t \in Tasks : Live(t)}
         /\ \A t \in DOMAIN Casualties(i) : Casualties(i)[t] \in {"failed", "rejected", "canceled"}
         /\ \A j \in Candidates : j < i /\ ((Doomed(j) /\ Live(mail[j].task)) \/ j \in Deliverable) =>
              mail[j].task \in DOMAIN Casualties(i)
<1> DEFINE before == {j \in Candidates : j < i}
           fatal == {j \in before : Doomed(j) /\ Live(mail[j].task)} \union (before \intersect Deliverable)
<1>1. DOMAIN Casualties(i) = Lapsed \union {mail[j].task : j \in fatal}
  BY DEF Casualties
<1>2. \A t \in DOMAIN Casualties(i) : Casualties(i)[t] \in {"failed", "rejected", "canceled"}
  BY DEF Casualties
<1>3. Living(Sorted(i)) = {t \in Tasks : Live(t)}
  BY SortedWorld DEF Living, Live
<1>4. Lapsed \subseteq {t \in Tasks : Live(t)}
  BY DEF Lapsed, Live, LiveStates
<1>5. \A j \in fatal : mail[j].task \in Tasks /\ Live(mail[j].task)
  <2>1. \A j \in DOMAIN mail : mail[j].task \in Tasks
    BY MailType DEF TypeOK, Deliveries
  <2>2. \A j \in Deliverable : ~Doomed(j)
    BY DEF Deliverable
  <2> QED
    BY <2>1, <2>2 DEF Candidates, Doomed
<1>6. \A j \in Candidates : j < i /\ ((Doomed(j) /\ Live(mail[j].task)) \/ j \in Deliverable) =>
        mail[j].task \in DOMAIN Casualties(i)
  BY <1>1
<1> QED
  BY <1>1, <1>2, <1>3, <1>4, <1>5, <1>6

\* The inputs that go into the conversation with delivery i.
Joins(m, i) ==
  {j \in DOMAIN m :
     /\ m[j].state = "pending" /\ m[j].task = mail[i].task /\ m[j].kind = "input" /\ ~m[j].applied
     /\ Resumes(i) \/ (callState[mail[i].task] = "awaiting_worker" /\ sent[mail[i].task] = 0)
     /\ j # i \/ mail[i].kind # "result" \/ mail[i].applied}

\* Leasing delivery i changes it and the inputs that are read with it.
LEMMA LeasesWorld ==
  ASSUME NEW w \in Worlds, NEW i \in DOMAIN w.mail, mail[i].task \in Tasks, w.mail[i].attempts < MaxDeliveries
  PROVE  LET v == Leases(w, i)
             result == mail[i].kind = "result" /\ ~mail[i].applied IN
         /\ v \in Worlds /\ v.system = w.system /\ v.goals = w.goals /\ v.agents = w.agents
         /\ v.stopped = w.stopped
         /\ v.tasks = [w.tasks EXCEPT ![mail[i].task] = "running"]
         /\ v.calls = [w.calls EXCEPT ![mail[i].task] = IF Resumes(i) THEN "awaiting_worker" ELSE @]
         /\ DOMAIN v.mail = DOMAIN w.mail /\ Len(v.mail) = Len(w.mail)
         /\ \A j \in DOMAIN w.mail \ {i} :
              v.mail[j] = IF j \in Joins(w.mail, i)
                          THEN [w.mail[j] EXCEPT !.state = "acked", !.applied = TRUE, !.copies = @ + 1]
                          ELSE w.mail[j]
         /\ v.mail[i] = [w.mail[i] EXCEPT !.state = "leased", !.applied = TRUE, !.attempts = @ + 1,
                                          !.copies = IF i \in Joins(w.mail, i) \/ result THEN @ + 1 ELSE @]
<1> DEFINE t == mail[i].task
           result == mail[i].kind = "result" /\ ~mail[i].applied
           fresh == callState[t] = "awaiting_worker" /\ sent[t] = 0
           heard == IF Resumes(i) \/ fresh THEN Heard(w.mail, t, IF result THEN i ELSE 0) ELSE w.mail
           m == [heard EXCEPT ![i].state = "leased", ![i].attempts = @ + 1, ![i].applied = TRUE,
                              ![i].copies = IF result THEN @ + 1 ELSE @]
           tasks == [w.tasks EXCEPT ![t] = "running"]
           calls == [w.calls EXCEPT ![t] = IF Resumes(i) THEN "awaiting_worker" ELSE @]
<1>1. /\ w.mail \in Seq(Deliveries) /\ DOMAIN w.mail = 1..Len(w.mail) /\ Len(w.mail) \in Nat
      /\ \A j \in DOMAIN w.mail : w.mail[j] \in Deliveries
  <2>1. w.mail \in Seq(Deliveries)
    BY DEF Worlds
  <2> QED
    BY <2>1, MailType
<1>2. DOMAIN heard = DOMAIN w.mail
  BY DEF Heard
<1> DEFINE read(j) == [w.mail[j] EXCEPT !.state = "acked", !.applied = TRUE, !.copies = @ + 1]
           x == IF result THEN i ELSE 0
<1>3. \A j \in DOMAIN w.mail : heard[j] = IF j \in Joins(w.mail, i) THEN read(j) ELSE w.mail[j]
  <2> TAKE j \in DOMAIN w.mail
  <2>1. /\ j \in Joins(w.mail, i) => Resumes(i) \/ fresh
        /\ j \in Joins(w.mail, i) <=>
             (Resumes(i) \/ fresh) /\ j \in Pending(w.mail, t) \ {x} /\ w.mail[j].kind = "input" /\ ~w.mail[j].applied
    <3>1. j # 0
      BY <1>1
    <3>2. j \notin {x} <=> j # i \/ ~result
      BY <3>1
    <3>3. (Resumes(i) \/ fresh) <=> (Resumes(i) \/ (callState[mail[i].task] = "awaiting_worker" /\ sent[mail[i].task] = 0))
      OBVIOUS
    <3>4. j \in Pending(w.mail, t) <=> w.mail[j].state = "pending" /\ w.mail[j].task = t
      BY DEF Pending
    <3> HIDE DEF x
    <3> QED
      BY <3>2, <3>3, <3>4 DEF Joins
  <2>2. CASE Resumes(i) \/ fresh
    <3>1. heard[j] = IF j \in Pending(w.mail, t) \ {x} /\ w.mail[j].kind = "input" /\ ~w.mail[j].applied
                     THEN read(j) ELSE w.mail[j]
      BY <2>2 DEF Heard
    <3> HIDE DEF read, x, heard, fresh, t
    <3> QED
      BY <2>1, <2>2, <3>1
  <2>3. CASE ~(Resumes(i) \/ fresh)
    BY <2>1, <2>3
  <2> QED
    BY <2>2, <2>3
<1>4. \A j \in DOMAIN w.mail : heard[j] \in Deliveries
  <2> HIDE DEF heard
  <2>1. \A j \in DOMAIN w.mail : read(j) \in Deliveries
    BY <1>1, DeliveryEdits
  <2> HIDE DEF read
  <2> QED
    BY <1>1, <1>3, <2>1
<1> HIDE DEF heard, result
<1>5. DOMAIN m = DOMAIN w.mail /\ \A j \in DOMAIN w.mail \ {i} : m[j] = heard[j]
  BY <1>2
<1>6. m[i] = [heard[i] EXCEPT !.state = "leased", !.attempts = @ + 1, !.applied = TRUE,
                              !.copies = IF result THEN @ + 1 ELSE @]
  BY <1>2, <1>4 DEF Deliveries
<1>7. i \in Joins(w.mail, i) => ~result
  BY DEF Joins, result
<1>8. m[i] = [w.mail[i] EXCEPT !.state = "leased", !.applied = TRUE, !.attempts = @ + 1,
                               !.copies = IF i \in Joins(w.mail, i) \/ result THEN @ + 1 ELSE @]
  <2>1. w.mail[i] \in Deliveries
    BY <1>1
  <2>2. CASE i \in Joins(w.mail, i)
    BY <1>3, <1>6, <1>7, <2>1, <2>2, ZenonT(30) DEF Deliveries
  <2>3. CASE i \notin Joins(w.mail, i)
    BY <1>3, <1>6, <2>1, <2>3 DEF Deliveries
  <2> QED
    BY <2>2, <2>3
<1>9. m[i] \in Deliveries
  <2>1. w.mail[i] \in Deliveries /\ w.mail[i].copies \in Nat
    BY <1>1 DEF Deliveries
  <2> DEFINE n == IF i \in Joins(w.mail, i) \/ result THEN w.mail[i].copies + 1 ELSE w.mail[i].copies
  <2>2. n \in Nat
    BY <2>1
  <2>3. m[i] = [w.mail[i] EXCEPT !.state = "leased", !.applied = TRUE, !.attempts = @ + 1, !.copies = n]
    BY <1>8
  <2> HIDE DEF n, m
  <2> QED
    BY <2>1, <2>2, <2>3, DeliveryEdits, ZenonT(30)
<1> HIDE DEF m
<1>10. m \in Seq(Deliveries) /\ Len(m) = Len(w.mail)
  <2>1. m \in [1..Len(w.mail) -> Deliveries]
    <3>1. \A j \in DOMAIN w.mail : m[j] \in Deliveries
      BY <1>4, <1>5, <1>9
    <3>2. m = [j \in DOMAIN m |-> m[j]]
      BY <1>2 DEF m
    <3> QED
      BY <1>1, <1>5, <3>1, <3>2
  <2> QED
    BY <1>1, <2>1, SeqFromFunction
<1>11. tasks \in [Tasks -> TaskStates] /\ calls \in [Tasks -> CallStates]
  BY DEF Worlds, TaskStates, LiveStates, CallStates, Waiting
<1>12. Leases(w, i) = [w EXCEPT !.tasks = tasks, !.calls = calls, !.mail = m]
  BY DEF Leases, Worlds, m, heard, result
<1> HIDE DEF tasks, calls
<1>13. /\ Leases(w, i) \in Worlds /\ Leases(w, i).mail = m /\ Leases(w, i).tasks = tasks /\ Leases(w, i).calls = calls
       /\ Leases(w, i).system = w.system /\ Leases(w, i).goals = w.goals /\ Leases(w, i).agents = w.agents
       /\ Leases(w, i).stopped = w.stopped
  BY <1>10, <1>11, <1>12 DEF Worlds
<1> QED
  BY <1>3, <1>5, <1>8, <1>10, <1>13 DEF tasks, calls, result
-----------------------------------------------------------------------------
(* The end of a transaction *)

\* What the rest of the state may be.
RestType ==
  /\ current \in Goals \union {NoGoal}
  /\ goalControl \in [Goals -> {"active", "paused", "stopped"}]
  /\ expired \in [Goals -> BOOLEAN]
  /\ awaits \in [Tasks -> Tasks \union {NoTask}]
  /\ turn \in [Tasks -> 0..MaxTurns]
  /\ sent \in [Tasks -> 0..MaxAttempts]
  /\ decision \in [Tasks -> {"none"} \union Decisions]
  /\ receipt \in [Tasks -> {"none", "running", "completed", "unknown"}]
  /\ activation \in [Agents -> [stage : Stages, task : Tasks \union {NoTask}, turn : Nat,
                                mail : Nat, canceled : BOOLEAN]]
  /\ revoked \subseteq Tasks /\ closing \in BOOLEAN /\ broken \in BOOLEAN
  /\ faults \in 0..MaxFaults /\ inputs \in 0..MaxInputs

\* The type invariant speaks of the store and of the rest.
LEMMA TypeParts == TypeOK <=> World \in Worlds /\ RestType
<1>1. TypeOK => World \in Worlds /\ RestType
  BY WorldType DEF TypeOK, RestType
<1>2. ASSUME World \in Worlds, RestType PROVE TypeOK
  <2>1. /\ systemState \in SystemStates /\ goalState \in [Goals -> TaskStates] /\ agentState \in [Agents -> AgentStates]
        /\ taskState \in [Tasks -> TaskStates] /\ callState \in [Tasks -> CallStates] /\ mail \in Seq(Deliveries)
        /\ stopped \in [Tasks -> BOOLEAN]
    BY <1>2 DEF World, Worlds
  <2> QED
    BY <1>2, <2>1 DEF RestType, TypeOK, SystemStates, TaskStates, CallStates, AgentStates, Deliveries
<1> QED
  BY <1>1, <1>2

\* After a step it speaks of the store and the rest that the step left.
LEMMA TypePartsNext == World' \in Worlds /\ RestType' => TypeOK'
<1> SUFFICES ASSUME World' \in Worlds, RestType' PROVE TypeOK'
  OBVIOUS
<1>1. /\ systemState' \in SystemStates /\ goalState' \in [Goals -> TaskStates] /\ agentState' \in [Agents -> AgentStates]
      /\ taskState' \in [Tasks -> TaskStates] /\ callState' \in [Tasks -> CallStates] /\ mail' \in Seq(Deliveries)
      /\ stopped' \in [Tasks -> BOOLEAN]
  BY DEF World, Worlds
<1> QED
  BY <1>1 DEF RestType, TypeOK, SystemStates, TaskStates, CallStates, AgentStates, Deliveries

\* A transaction that commits leaves the store as the world it has written.
LEMMA BecomesWorld ==
  ASSUME NEW w \in Worlds, Becomes(w), stopped' = w.stopped
  PROVE  World' = w
  BY DEF Becomes, World, Worlds

\* The sweep, the halt of a canceled root and the settlement of a recovery
\* change the state of the system and nothing else.
LEMMA SystemOnly ==
  ASSUME NEW w \in Worlds, NEW s \in SystemStates
  PROVE  LET v == [w EXCEPT !.system = s] IN
         /\ v \in Worlds /\ v.system = s /\ v.mail = w.mail /\ v.tasks = w.tasks /\ v.calls = w.calls
         /\ v.goals = w.goals /\ v.agents = w.agents /\ v.stopped = w.stopped
  BY DEF Worlds

\* sweepStopping.
LEMMA SweptWorld ==
  ASSUME NEW w \in Worlds
  PROVE  LET v == Swept(w) IN
         /\ v \in Worlds /\ v.mail = w.mail /\ v.tasks = w.tasks /\ v.calls = w.calls
         /\ v.goals = w.goals /\ v.agents = w.agents /\ v.stopped = w.stopped
         /\ v.system = IF w.system = "stopping" THEN Drained(w.mail) ELSE w.system
<1>1. Drained(w.mail) \in SystemStates
  BY DEF Drained, SystemStates
<1>2. CASE w.system = "stopping"
  BY <1>1, <1>2, SystemOnly DEF Swept
<1>3. CASE w.system # "stopping"
  BY <1>3 DEF Swept
<1> QED
  BY <1>2, <1>3

\* finishDelivery of a canceled root.
LEMMA HaltsWorld ==
  ASSUME NEW w \in Worlds, NEW a, NEW t
  PROVE  LET v == Halts(w, a, t) IN
         /\ v \in Worlds /\ v.mail = w.mail /\ v.tasks = w.tasks /\ v.calls = w.calls
         /\ v.goals = w.goals /\ v.agents = w.agents /\ v.stopped = w.stopped
         /\ v.system = IF Root(t) /\ Halting(a, t) THEN Drained(w.mail) ELSE w.system
<1>1. Drained(w.mail) \in SystemStates
  BY DEF Drained, SystemStates
<1>2. CASE Root(t) /\ Halting(a, t)
  BY <1>1, <1>2, SystemOnly DEF Halts
<1>3. CASE ~(Root(t) /\ Halting(a, t))
  BY <1>3 DEF Halts
<1> QED
  BY <1>2, <1>3

\* Ending tasks takes no lease away and gives none.
LEMMA EndsKeepsLeases ==
  ASSUME NEW w \in Worlds, NEW B, NEW v, NEW gone \in SUBSET Tasks, Ends(w, B, v, gone)
  PROVE  Leased(v.mail) = Leased(w.mail) /\ Drained(v.mail) = Drained(w.mail)
<1>1. \A j \in DOMAIN w.mail : v.mail[j].state = "leased" <=> w.mail[j].state = "leased"
  <2> TAKE j \in DOMAIN w.mail
  <2>1. w.mail[j] \in Deliveries
    BY MailType DEF Worlds
  <2>2. [w.mail[j] EXCEPT !.state = "dead"].state = "dead"
    BY <2>1 DEF Deliveries
  <2>3. v.mail[j] = w.mail[j] \/ (w.mail[j].state = "pending" /\ v.mail[j] = [w.mail[j] EXCEPT !.state = "dead"])
    BY DEF Ends
  <2> QED
    BY <2>2, <2>3
<1>2. \A j \in DOMAIN v.mail \ DOMAIN w.mail : v.mail[j].state = "pending"
  <2> TAKE j \in DOMAIN v.mail \ DOMAIN w.mail
  <2>1. PICK c \in gone : v.mail[j] = Event(ParentOf[c], "result", c)
    BY DEF Ends
  <2> QED
    BY <2>1 DEF Event
<1>3. DOMAIN w.mail \subseteq DOMAIN v.mail
  BY DEF Ends
<1>4. Leased(v.mail) = Leased(w.mail)
  BY <1>1, <1>2, <1>3 DEF Leased
<1> QED
  BY <1>4 DEF Drained
-----------------------------------------------------------------------------
(* One step that ends tasks *)

\* What ending the tasks gone makes of the delivery d: e.
Old(d, e, gone) ==
  \/ e = d /\ (d.state = "pending" => d.task \notin gone)
  \/ d.state = "pending" /\ d.task \in gone /\ e = [d EXCEPT !.state = "dead"]

\* Mailbox n extends the mailbox by the results of the tasks gone: no task has
\* two, and only a parent that has ended or was stopped is not told.
Posted(n, gone) ==
  LET new == DOMAIN n \ DOMAIN mail IN
  /\ DOMAIN mail \subseteq DOMAIN n
  /\ \A j \in new : \E c \in gone : /\ ~Root(c) /\ ParentOf[c] \in Tasks \ gone /\ Live(ParentOf[c])
                                    /\ n[j] = Event(ParentOf[c], "result", c)
  /\ \A j, k \in new : n[j].from = n[k].from => j = k
  /\ \A c \in gone : ~Root(c) /\ ParentOf[c] \notin gone /\ Live(ParentOf[c]) /\ ~stopped'[ParentOf[c]] =>
       \E j \in new : n[j] = Event(ParentOf[c], "result", c)

\* The step ends exactly the live tasks gone.
Over(gone) ==
  /\ \A t \in gone : t \in Tasks /\ Live(t) /\ taskState'[t] \in EndStates
  /\ \A t \in Tasks : Live(t)' <=> Live(t) /\ t \notin gone
  /\ Posted(mail', gone)

\* The calls of the other tasks wait on, no call begins to wait, and no goal
\* is forgotten.
Kept(gone) ==
  /\ \A t \in Tasks :
       /\ callState'[t] \in Waiting => callState'[t] = callState[t]
       /\ t \notin gone /\ callState[t] \in Waiting => callState'[t] = callState[t]
  /\ \A g \in Goals : goalState'[g] = "none" => goalState[g] = "none"

\* What claim, before delivery i, and the ends of the tasks gone make of
\* delivery j.
Sifted(i, j, e, gone) ==
  \/ Old(mail[j], e, gone)
  \/ /\ mail[j].state = "pending" /\ e = [mail[j] EXCEPT !.state = "dead"]
     /\ ~Live(mail[j].task) \/ j \in Strays
  \/ j \in Notices /\ e = [mail[j] EXCEPT !.state = "acked", !.applied = TRUE]

\* The state r of the system after tasks ended in state s, given mailbox m.
SystemEnds(gone, s, r, m) ==
  \/ r = s /\ \A t \in gone : ~Root(t)
  \/ s \in {"stopping", "stopped"} /\ r = Drained(m)
  \/ (\E t \in gone : Root(t)) /\ s \notin {"stopping", "stopped"} /\ r \in {"inactive", Drained(m)}

\* What Ends says of the deliveries, task by task.
LEMMA EndsMail ==
  ASSUME NEW w \in Worlds, NEW B, NEW v, NEW gone \in SUBSET Tasks, Ends(w, B, v, gone)
  PROVE  \A j \in DOMAIN w.mail : Old(w.mail[j], v.mail[j], gone)
  BY DEF Ends, Old

\* The results that Ends posts.
LEMMA EndsPosted ==
  ASSUME NEW w \in Worlds, NEW B, NEW v, NEW gone \in SUBSET Tasks, Ends(w, B, v, gone),
         Living(w) = {t \in Tasks : Live(t)}, DOMAIN w.mail = DOMAIN mail, w.stopped = stopped'
  PROVE  /\ Posted(v.mail, gone) /\ \A t \in gone : t \in Tasks /\ Live(t)
<1>1. gone \subseteq Living(w) /\ \A t \in gone : t \in Tasks /\ Live(t)
  BY DEF Ends
<1>2. \A c \in gone : ~Root(c) => ParentOf[c] \in Tasks
  BY WorkflowAssumption DEF Root
<1>3. \A c \in gone : ~Root(c) => (ParentOf[c] \in Living(w) \ gone <=> Live(ParentOf[c]) /\ ParentOf[c] \notin gone)
  BY <1>2
<1>4. DOMAIN mail \subseteq DOMAIN v.mail
  BY DEF Ends
<1>5. \A j \in DOMAIN v.mail \ DOMAIN mail :
        \E c \in gone : /\ ~Root(c) /\ ParentOf[c] \in Tasks \ gone /\ Live(ParentOf[c])
                        /\ v.mail[j] = Event(ParentOf[c], "result", c)
  BY <1>2, <1>3 DEF Ends
<1>6. \A j, k \in DOMAIN v.mail \ DOMAIN mail : v.mail[j].from = v.mail[k].from => j = k
  BY DEF Ends
<1>7. \A c \in gone : ~Root(c) /\ ParentOf[c] \notin gone /\ Live(ParentOf[c]) /\ ~stopped'[ParentOf[c]] =>
        \E j \in DOMAIN v.mail \ DOMAIN mail : v.mail[j] = Event(ParentOf[c], "result", c)
  BY <1>2, <1>3 DEF Ends
<1> QED
  BY <1>1, <1>4, <1>5, <1>6, <1>7 DEF Posted

\* A step that commits the world v, but for the state of the system.
LEMMA EndsOver ==
  ASSUME NEW w \in Worlds, NEW B, \A t \in DOMAIN B : B[t] \in EndStates,
         NEW v, NEW gone \in SUBSET Tasks, Ends(w, B, v, gone),
         Living(w) = {t \in Tasks : Live(t)}, DOMAIN w.mail = DOMAIN mail, w.stopped = stopped',
         taskState' = v.tasks, mail' = v.mail
  PROVE  Over(gone)
<1>1. Posted(mail', gone) /\ \A t \in gone : t \in Tasks /\ Live(t)
  BY EndsPosted
<1>2. \A t \in gone : taskState'[t] \in EndStates
  <2>1. "rejected" \in EndStates
    BY DEF EndStates
  <2> QED
    BY <1>1, <2>1 DEF Ends
<1>3. \A t \in Tasks : Live(t)' <=> Live(t) /\ t \notin gone
  <2> TAKE t \in Tasks
  <2>1. CASE t \in gone
    BY <1>2, <2>1, StatesApart DEF Live
  <2>2. CASE t \notin gone
    <3>1. taskState'[t] = w.tasks[t]
      BY <2>2 DEF Ends
    <3>2. Live(t) <=> w.tasks[t] \in LiveStates
      BY DEF Living
    <3> QED
      BY <2>2, <3>1, <3>2 DEF Live
  <2> QED
    BY <2>1, <2>2
<1> QED
  BY <1>1, <1>2, <1>3 DEF Over

\* The state of the system after the tasks ended, and after the sweep.
LEMMA EndsSystem ==
  ASSUME NEW w \in Worlds, NEW B, NEW v, NEW gone \in SUBSET Tasks, Ends(w, B, v, gone)
  PROVE  /\ SystemEnds(gone, w.system, v.system, v.mail)
         /\ SystemEnds(gone, w.system, Swept(v).system, v.mail)
<1>1. Drained(v.mail) = Drained(w.mail) /\ v \in Worlds
  <2>1. Drained(v.mail) = Drained(w.mail)
    BY EndsKeepsLeases
  <2> QED
    BY <2>1 DEF Ends
<1>2. v.system = IF \A t \in gone : ~Root(t) THEN w.system
                 ELSE IF w.system \in {"stopping", "stopped"} THEN Drained(v.mail) ELSE "inactive"
  BY <1>1 DEF Ends
<1>3. Swept(v).system = IF v.system = "stopping" THEN Drained(v.mail) ELSE v.system
  BY <1>1, SweptWorld
<1>4. SystemEnds(gone, w.system, v.system, v.mail)
  BY <1>2 DEF SystemEnds
<1>5. SystemEnds(gone, w.system, Swept(v).system, v.mail)
  <2>1. CASE v.system = "stopping"
    <3>1. w.system \in {"stopping", "stopped"}
      BY <1>2, <2>1
    <3> QED
      BY <1>3, <2>1, <3>1 DEF SystemEnds
  <2>2. CASE v.system # "stopping"
    BY <1>3, <1>4, <2>2
  <2> QED
    BY <2>1, <2>2
<1> QED
  BY <1>4, <1>5
\* The calls and goals after a step that ends tasks.
LEMMA EndsKept ==
  ASSUME NEW w \in Worlds, NEW B, \A t \in DOMAIN B : B[t] \in EndStates,
         NEW v, NEW gone \in SUBSET Tasks, Ends(w, B, v, gone),
         \A t \in Tasks : w.calls[t] \in Waiting \/ callState[t] \in Waiting => w.calls[t] = callState[t],
         w.goals = goalState, callState' = v.calls, goalState' = v.goals
  PROVE  Kept(gone)
<1>1. "rejected" \in EndStates
  BY DEF EndStates
<1>2. \A t \in gone : v.tasks[t] \in EndStates /\ v.tasks[t] \notin Waiting
  BY <1>1, StatesApart DEF Ends
<1>3. \A t \in Tasks : callState'[t] \in Waiting => callState'[t] = callState[t]
  BY <1>2 DEF Ends
<1>4. \A t \in Tasks : t \notin gone /\ callState[t] \in Waiting => callState'[t] = callState[t]
  BY DEF Ends
<1>5. \A g \in Goals : goalState'[g] = "none" => goalState[g] = "none"
  BY DEF Ends
<1> QED
  BY <1>3, <1>4, <1>5 DEF Kept

\* Every delivery before and after claim's sorting and the ends of its casualties.
LEMMA SiftedMail ==
  ASSUME TypeOK, NEW i \in Int, NEW v, NEW gone \in SUBSET Tasks,
         Ends(Sorted(i), Casualties(i), v, gone)
  PROVE  \A j \in DOMAIN mail : Sifted(i, j, v.mail[j], gone)
<1>1. DOMAIN Casualties(i) \subseteq gone
  BY DEF Ends
<1>2. Sorted(i) \in Worlds /\ DOMAIN Sorted(i).mail = DOMAIN mail /\ \A j \in DOMAIN mail : Passed(i, j, Sorted(i).mail[j])
  BY SortedWorld
<1> TAKE j \in DOMAIN mail
<1> DEFINE d == Sorted(i).mail[j]
<1>3. Old(d, v.mail[j], gone)
  BY <1>2, EndsMail
<1>4. Passed(i, j, d)
  BY <1>2
<1>5. mail[j] \in Deliveries
  BY MailType DEF TypeOK, Deliveries
<1> HIDE DEF d
<1>6. CASE d = mail[j]
  BY <1>3, <1>6 DEF Sifted
<1>7. CASE j < i /\ j \in Candidates /\ (Doomed(j) \/ j \in Strays) /\ d = [mail[j] EXCEPT !.state = "dead"]
  <2>1. v.mail[j] = d
    <3>1. d.state # "pending"
      BY <1>5, <1>7 DEF Deliveries
    <3> QED
      BY <3>1, <1>3 DEF Old
  <2>2. mail[j].state = "pending"
    BY <1>7 DEF Candidates
  <2>3. Doomed(j) /\ Live(mail[j].task) => mail[j].task \in gone
    BY <1>1, <1>7, CasualtiesDie
  <2> QED
    BY <1>7, <2>1, <2>2, <2>3 DEF Sifted, Old
<1>8. CASE j < i /\ j \in Notices /\ d = [mail[j] EXCEPT !.state = "acked", !.applied = TRUE]
  <2>1. d.state # "pending"
    BY <1>5, <1>8 DEF Deliveries
  <2>2. v.mail[j] = d
    BY <2>1, <1>3 DEF Old
  <2> QED
    BY <1>8, <2>2 DEF Sifted
<1> QED
  BY <1>4, <1>6, <1>7, <1>8 DEF Passed

\* A pass of the scheduler that delivers nothing.
LEMMA ClaimNoneStep ==
  ASSUME TypeOK, ClaimNone
  PROVE  /\ World' \in Worlds /\ stopped' = stopped
         /\ \E gone \in SUBSET Tasks :
              /\ Over(gone) /\ Kept(gone) /\ SystemEnds(gone, systemState, systemState', mail')
              /\ \A t \in Tasks : IF t \in gone THEN taskState'[t] \in {"failed", "rejected", "canceled"}
                                  ELSE taskState'[t] = taskState[t]
              /\ \A j \in DOMAIN mail : Sifted(Len(mail) + 1, j, mail'[j], gone)
<1> DEFINE i == Len(mail) + 1
           w == Sorted(i)
           B == Casualties(i)
<1>1. i \in Int
  BY MailType DEF TypeOK, Deliveries
<1>2. PICK v \in Endings(w, B) : Becomes(Swept(v))
  BY DEF ClaimNone
<1>3. /\ w \in Worlds /\ w.system = systemState /\ w.goals = goalState /\ w.tasks = taskState
      /\ w.calls = callState /\ w.stopped = stopped /\ DOMAIN w.mail = DOMAIN mail
  BY <1>1, SortedWorld
<1>4. /\ DOMAIN B \subseteq Living(w) /\ Living(w) = {t \in Tasks : Live(t)}
      /\ \A t \in DOMAIN B : B[t] \in {"failed", "rejected", "canceled"}
  BY <1>1, CasualtiesDie
<1> HIDE DEF i
<1>5. \A t \in DOMAIN B : B[t] \in EndStates
  BY <1>4 DEF EndStates
<1> HIDE DEF w, B
<1>6. PICK gone \in SUBSET Tasks : Ends(w, B, v, gone)
  BY <1>2, <1>3, <1>4, <1>5, EndingsEnd
<1>7. stopped' = stopped /\ v \in Worlds /\ v.stopped = stopped
  BY <1>3, <1>6 DEF ClaimNone, taskVars, Ends
<1>8. /\ Swept(v) \in Worlds /\ Swept(v).stopped = stopped
      /\ mail' = v.mail /\ taskState' = v.tasks /\ callState' = v.calls /\ goalState' = v.goals
      /\ systemState' = Swept(v).system
  BY <1>2, <1>7, SweptWorld DEF Becomes
<1>9. World' \in Worlds
  BY <1>2, <1>7, <1>8, BecomesWorld
<1>10. Over(gone)
  BY <1>3, <1>4, <1>5, <1>6, <1>7, <1>8, EndsOver
<1>11. Kept(gone)
  BY <1>3, <1>5, <1>6, <1>8, EndsKept
<1>12. SystemEnds(gone, systemState, systemState', mail')
  BY <1>3, <1>6, <1>8, EndsSystem
<1>13. \A t \in Tasks : IF t \in gone THEN taskState'[t] \in {"failed", "rejected", "canceled"}
                        ELSE taskState'[t] = taskState[t]
  BY <1>3, <1>4, <1>6, <1>8 DEF Ends
<1>14. \A j \in DOMAIN mail : Sifted(i, j, mail'[j], gone)
  BY <1>1, <1>6, <1>8, SiftedMail DEF w, B
<1> QED
  BY <1>7, <1>9, <1>10, <1>11, <1>12, <1>13, <1>14 DEF i
\* finishDelivery sets the state of the activation's delivery.
LEMMA DeliveredWorld ==
  ASSUME TypeOK, NEW a \in Agents, NEW s \in {"pending", "leased", "acked", "dead"}
  PROVE  LET w == Delivered(a, s)
             k == activation[a].mail IN
         /\ w \in Worlds /\ w.system = systemState /\ w.goals = goalState /\ w.agents = agentState
         /\ w.tasks = taskState /\ w.calls = callState /\ w.stopped = stopped
         /\ DOMAIN w.mail = DOMAIN mail /\ Len(w.mail) = Len(mail)
         /\ \A j \in DOMAIN mail : w.mail[j] = IF j = k THEN [mail[j] EXCEPT !.state = s] ELSE mail[j]
<1> DEFINE k == activation[a].mail
           m == [mail EXCEPT ![k].state = s]
<1>1. mail \in Seq(Deliveries)
  BY DEF TypeOK, Deliveries
<1>2. Len(mail) \in Nat /\ DOMAIN mail = 1..Len(mail) /\ \A j \in DOMAIN mail : mail[j] \in Deliveries
  BY <1>1, MailType
<1>3. DOMAIN m = DOMAIN mail /\ \A j \in DOMAIN mail : m[j] = IF j = k THEN [mail[j] EXCEPT !.state = s] ELSE mail[j]
  BY <1>2
<1>4. \A j \in DOMAIN mail : m[j] \in Deliveries
  <2>1. \A d \in Deliveries : [d EXCEPT !.state = s] \in Deliveries
    BY DEF Deliveries
  <2> HIDE DEF m
  <2> QED
    BY <1>2, <1>3, <2>1
<1>5. m \in [1..Len(mail) -> Deliveries]
  BY <1>2, <1>4
<1> HIDE DEF m
<1>6. m \in Seq(Deliveries) /\ Len(m) = Len(mail)
  BY <1>2, <1>5, SeqFromFunction
<1>7. World \in Worlds
  BY WorldType
<1>8. Delivered(a, s) = [World EXCEPT !.mail = m]
  BY DEF Delivered, World, m
<1> QED
  BY <1>3, <1>6, <1>7, <1>8, WorldType DEF Worlds

\* An activation's task ends with it.
LEMMA FinishTaskStep ==
  ASSUME TypeOK, NEW a \in Agents, NEW t \in Tasks, FinishTask(a, t)
  PROVE  LET k == activation[a].mail
             s == IF activation[a].stage = "done" THEN "acked" ELSE "dead" IN
         /\ World' \in Worlds /\ stopped' = stopped /\ Live(t)
         /\ \E gone \in SUBSET Tasks :
              /\ t \in gone /\ Over(gone) /\ Kept(gone) /\ SystemEnds(gone, systemState, systemState', mail')
              /\ \A u \in Tasks : taskState'[u] = IF u = t THEN Verdict(a, t)
                                                  ELSE IF u \in gone THEN "rejected" ELSE taskState[u]
              /\ \A j \in DOMAIN mail : IF j = k THEN mail'[j] = [mail[j] EXCEPT !.state = s]
                                        ELSE Old(mail[j], mail'[j], gone)
<1> DEFINE k == activation[a].mail
           s == IF activation[a].stage = "done" THEN "acked" ELSE "dead"
           w == Delivered(a, s)
           B == Ending(t, Verdict(a, t))
<1>1. PICK v \in Endings(w, B) : Becomes(Swept(Halts(v, a, t)))
  BY DEF FinishTask
<1>2. /\ w \in Worlds /\ w.system = systemState /\ w.goals = goalState
      /\ w.tasks = taskState /\ w.calls = callState /\ w.stopped = stopped
      /\ DOMAIN w.mail = DOMAIN mail
      /\ \A j \in DOMAIN mail : w.mail[j] = IF j = k THEN [mail[j] EXCEPT !.state = s] ELSE mail[j]
  BY DeliveredWorld
<1>3. Live(t)
  BY DEF FinishTask, Concluding, Stale
<1>4. Living(w) = {u \in Tasks : Live(u)} /\ DOMAIN B = {t} /\ B[t] = Verdict(a, t) /\ Verdict(a, t) \in EndStates
  BY <1>2 DEF Living, Live, Ending, Verdict, EndStates
<1>5. s \notin {"pending", "leased"}
  OBVIOUS
<1> HIDE DEF w, B, s
<1>6. PICK gone \in SUBSET Tasks : Ends(w, B, v, gone)
  BY <1>1, <1>2, <1>3, <1>4, EndingsEnd
<1>7. stopped' = stopped /\ v \in Worlds /\ v.stopped = stopped
  BY <1>2, <1>6 DEF FinishTask, taskVars, Ends
<1>8. /\ Halts(v, a, t) \in Worlds /\ Halts(v, a, t).mail = v.mail /\ Halts(v, a, t).stopped = stopped
      /\ Halts(v, a, t).system = IF Root(t) /\ Halting(a, t) THEN Drained(v.mail) ELSE v.system
      /\ Halts(v, a, t).tasks = v.tasks /\ Halts(v, a, t).calls = v.calls /\ Halts(v, a, t).goals = v.goals
  BY <1>7, HaltsWorld
<1>9. /\ Swept(Halts(v, a, t)) \in Worlds /\ Swept(Halts(v, a, t)).stopped = stopped
      /\ mail' = v.mail /\ taskState' = v.tasks /\ callState' = v.calls /\ goalState' = v.goals
      /\ systemState' = IF Halts(v, a, t).system = "stopping" THEN Drained(v.mail) ELSE Halts(v, a, t).system
  <2> DEFINE u == Halts(v, a, t)
  <2> HIDE DEF u
  <2>1. /\ Swept(u) \in Worlds /\ Swept(u).stopped = u.stopped /\ Swept(u).mail = u.mail
        /\ Swept(u).tasks = u.tasks /\ Swept(u).calls = u.calls /\ Swept(u).goals = u.goals
        /\ Swept(u).system = IF u.system = "stopping" THEN Drained(u.mail) ELSE u.system
    BY <1>8, SweptWorld DEF u
  <2> QED
    BY <1>1, <1>8, <2>1 DEF Becomes, u
<1>10. World' \in Worlds
  BY <1>1, <1>7, <1>9, BecomesWorld
<1>11. Over(gone)
  BY <1>2, <1>4, <1>6, <1>7, <1>9, EndsOver
<1>12. Kept(gone)
  BY <1>2, <1>4, <1>6, <1>9, EndsKept
<1>13. t \in gone
  BY <1>4, <1>6 DEF Ends
<1>14. SystemEnds(gone, systemState, systemState', mail')
  <2>1. /\ SystemEnds(gone, systemState, v.system, v.mail)
        /\ SystemEnds(gone, systemState, Swept(v).system, v.mail)
        /\ Swept(v).system = IF v.system = "stopping" THEN Drained(v.mail) ELSE v.system
    BY <1>2, <1>6, <1>7, EndsSystem, SweptWorld
  <2>2. CASE Root(t) /\ Halting(a, t)
    <3>1. systemState' = Drained(mail')
      BY <1>8, <1>9, <2>2
    <3> QED
      BY <1>13, <2>2, <3>1 DEF SystemEnds
  <2>3. CASE ~(Root(t) /\ Halting(a, t))
    <3>1. systemState' = Swept(v).system
      BY <1>8, <1>9, <2>1, <2>3
    <3> QED
      BY <1>9, <2>1, <3>1
  <2> QED
    BY <2>2, <2>3
<1>15. \A u \in Tasks : taskState'[u] = IF u = t THEN Verdict(a, t)
                                        ELSE IF u \in gone THEN "rejected" ELSE taskState[u]
  BY <1>2, <1>4, <1>6, <1>9, <1>13 DEF Ends
<1>16. \A j \in DOMAIN mail : IF j = k THEN mail'[j] = [mail[j] EXCEPT !.state = s] ELSE Old(mail[j], mail'[j], gone)
  <2> TAKE j \in DOMAIN mail
  <2>1. Old(w.mail[j], mail'[j], gone)
    BY <1>2, <1>6, <1>9, EndsMail
  <2>2. CASE j = k
    <3>1. mail[j] \in Deliveries /\ w.mail[j] = [mail[j] EXCEPT !.state = s]
      BY <1>2, <2>2, MailType DEF TypeOK, Deliveries
    <3>2. w.mail[j].state # "pending"
      BY <1>5, <3>1 DEF Deliveries
    <3> QED
      BY <2>1, <2>2, <3>1, <3>2 DEF Old
  <2>3. CASE j # k
    BY <1>2, <2>1, <2>3
  <2> QED
    BY <2>2, <2>3
<1> QED
  BY <1>3, <1>7, <1>10, <1>11, <1>12, <1>13, <1>14, <1>15, <1>16 DEF s
\* stopTasks: the live tasks S are stopped, from world w on.
LEMMA StopStep ==
  ASSUME TypeOK, NEW w \in Worlds, w.goals = goalState, w.tasks = taskState, w.calls = callState,
         w.mail = mail, w.stopped = stopped, NEW S \in SUBSET {t \in Tasks : Live(t)},
         NEW v \in StopTasks(w, S), Becomes(v), stopped' = v.stopped
  PROVE  /\ World' \in Worlds /\ \A t \in Tasks : stopped'[t] <=> stopped[t] \/ t \in S
         /\ \E gone \in SUBSET Tasks :
              /\ Over(gone) /\ Kept(gone)
              /\ SystemEnds(gone, IF \E t \in S : Root(t) THEN "stopping" ELSE w.system, systemState', mail')
              /\ \A t \in Tasks : IF t \in gone THEN taskState'[t] \in {"canceled", "rejected"}
                                  ELSE taskState'[t] = taskState[t]
              /\ \A j \in DOMAIN mail : Old(mail[j], mail'[j], gone)
<1> DEFINE marks == [t \in Tasks |-> w.stopped[t] \/ t \in S]
           s == IF \E t \in S : Root(t) THEN "stopping" ELSE w.system
           u == [w EXCEPT !.stopped = marks, !.system = s]
           held == {mail[j].task : j \in Leased(mail)}
           B == [t \in S \ held |-> "canceled"]
<1>1. marks \in [Tasks -> BOOLEAN] /\ s \in SystemStates
  BY DEF Worlds, SystemStates
<1>2. StopTasks(w, S) = Endings(u, B)
  BY DEF StopTasks, Worlds
<1>3. DOMAIN B \subseteq Tasks /\ DOMAIN B \subseteq S /\ (\A t \in DOMAIN B : B[t] = "canceled") /\ "canceled" \in EndStates
  BY DEF EndStates
<1> HIDE DEF marks, s, B
<1>4. /\ u \in Worlds /\ u.stopped = marks /\ u.system = s /\ u.goals = goalState /\ u.tasks = taskState
      /\ u.calls = callState /\ u.mail = mail
  BY <1>1 DEF Worlds
<1> HIDE DEF u
<1>5. Living(u) = {t \in Tasks : Live(t)}
  BY <1>4 DEF Living, Live
<1>6. PICK gone \in SUBSET Tasks : Ends(u, B, v, gone)
  BY <1>2, <1>3, <1>4, <1>5, EndingsEnd
<1>7. v \in Worlds /\ v.stopped = marks
  BY <1>4, <1>6 DEF Ends
<1>8. /\ mail' = v.mail /\ taskState' = v.tasks /\ callState' = v.calls /\ goalState' = v.goals
      /\ systemState' = v.system
  BY DEF Becomes
<1>9. World' \in Worlds
  BY <1>7, BecomesWorld
<1>10. \A t \in Tasks : stopped'[t] <=> stopped[t] \/ t \in S
  BY <1>7 DEF marks
<1>11. Over(gone)
  BY <1>3, <1>4, <1>5, <1>6, <1>7, <1>8, EndsOver
<1>12. Kept(gone)
  BY <1>3, <1>4, <1>6, <1>8, EndsKept
<1>13. SystemEnds(gone, s, systemState', mail')
  BY <1>4, <1>6, <1>8, EndsSystem
<1>14. \A t \in Tasks : IF t \in gone THEN taskState'[t] \in {"canceled", "rejected"}
                        ELSE taskState'[t] = taskState[t]
  BY <1>3, <1>4, <1>6, <1>8 DEF Ends
<1>15. \A j \in DOMAIN mail : Old(mail[j], mail'[j], gone)
  BY <1>4, <1>6, <1>8, EndsMail
<1> QED
  BY <1>9, <1>10, <1>11, <1>12, <1>13, <1>14, <1>15 DEF s

\* A lease goes back to its mailbox, or is done when its task had fallen asleep.
LEMMA ReturnedDelivery ==
  ASSUME TypeOK, NEW j \in DOMAIN mail
  PROVE  /\ Returned(j) \in Deliveries /\ Returned(j).state # "leased"
         /\ Returned(j).task = mail[j].task
         /\ Returned(j) = [mail[j] EXCEPT !.state = Returned(j).state]
         /\ Returned(j).state # mail[j].state =>
              /\ mail[j].state \in {"pending", "leased"}
              /\ \/ mail[j].state = "leased" /\ Returned(j).state = "pending"
                 \/ mail[j].applied /\ taskState[mail[j].task] = "waiting" /\ Returned(j).state = "acked"
<1>1. mail[j] \in Deliveries
  BY MailType DEF TypeOK, Deliveries
<1> DEFINE back == IF mail[j].state = "leased" THEN [mail[j] EXCEPT !.state = "pending"] ELSE mail[j]
           asleep == back.state = "pending" /\ back.applied /\ taskState[mail[j].task] = "waiting" /\ receipt[mail[j].task] = "completed"
<1>2. Returned(j) = IF asleep THEN [back EXCEPT !.state = "acked"] ELSE back
  BY DEF Returned
<1>3. /\ back \in Deliveries /\ back.state # "leased" /\ back.task = mail[j].task /\ back.applied = mail[j].applied
      /\ back = [mail[j] EXCEPT !.state = back.state]
      /\ back.state # mail[j].state => mail[j].state = "leased" /\ back.state = "pending"
  BY <1>1 DEF Deliveries
<1> HIDE DEF back
<1>4. asleep => /\ [back EXCEPT !.state = "acked"] \in Deliveries
                /\ [back EXCEPT !.state = "acked"] = [mail[j] EXCEPT !.state = "acked"]
                /\ mail[j].state \in {"pending", "leased"}
  BY <1>1, <1>3 DEF Deliveries
<1>5. CASE asleep
  <2>1. Returned(j) = [mail[j] EXCEPT !.state = "acked"]
    BY <1>2, <1>4, <1>5
  <2>2. Returned(j).state = "acked" /\ Returned(j).task = mail[j].task /\ Returned(j) \in Deliveries
    BY <1>1, <1>2, <1>4, <1>5, <2>1 DEF Deliveries
  <2> QED
    BY <1>3, <1>4, <1>5, <2>1, <2>2
<1>6. CASE ~asleep
  BY <1>2, <1>3, <1>6
<1> QED
  BY <1>5, <1>6

\* RecoverExecutions ends the tasks whose outcome is unknown.
LEMMA RecoverStep ==
  ASSUME TypeOK, Recover
  PROVE  /\ World' \in Worlds /\ stopped' = stopped
         /\ \E gone \in SUBSET Tasks :
              /\ Over(gone) /\ Kept(gone)
              /\ \/ SystemEnds(gone, systemState, systemState', mail')
                 \/ systemState' = "stopped" /\ ((\E t \in gone : Root(t)) \/ \A t \in Tasks : ~Live(t)')
              /\ \A t \in Tasks : IF t \in gone THEN taskState'[t] \in {"failed", "rejected"}
                                  ELSE taskState'[t] = IF taskState[t] = "running" THEN "queued" ELSE taskState[t]
              /\ Leased(mail') = {}
              /\ \A j \in DOMAIN mail : Old(Returned(j), mail'[j], gone)
<1> DEFINE calls == [t \in Tasks |-> IF callState[t] = "running" THEN "unknown" ELSE callState[t]]
           tasks == [t \in Tasks |-> IF taskState[t] = "running" THEN "queued" ELSE taskState[t]]
           m == [j \in DOMAIN mail |-> Returned(j)]
           w == [World EXCEPT !.calls = calls, !.tasks = tasks, !.mail = m]
           lost == {t \in Living(w) : w.calls[t] \in {"unknown", "failed", "canceled", "rejected"}
                                      \/ Unresolved[t] = "unknown"}
           B == [t \in lost |-> "failed"]
           settled(v) == [v EXCEPT !.system =
             IF \/ \E t \in lost : Root(t)
                \/ @ \in {"running", "stopping"} /\ Living(v) = {}
             THEN "stopped" ELSE @]
<1>1. calls \in [Tasks -> CallStates] /\ tasks \in [Tasks -> TaskStates]
  BY WorldType DEF CallStates, TaskStates, LiveStates, Worlds
<1>2. m \in Seq(Deliveries) /\ DOMAIN m = DOMAIN mail /\ \A j \in DOMAIN mail : m[j] = Returned(j)
  <2>1. Len(mail) \in Nat /\ DOMAIN mail = 1..Len(mail)
    BY MailType DEF TypeOK, Deliveries
  <2>2. m \in [1..Len(mail) -> Deliveries]
    BY <2>1, ReturnedDelivery
  <2> HIDE DEF m
  <2>3. m \in Seq(Deliveries)
    BY <2>1, <2>2, SeqFromFunction
  <2> QED
    BY <2>3 DEF m
<1>3. PICK v \in Endings(w, B) : Becomes(settled(v))
  BY DEF Recover, World
<1>4. \A t \in Tasks : calls[t] \in Waiting \/ callState[t] \in Waiting => calls[t] = callState[t]
  BY DEF Waiting
<1>5. \A t \in Tasks : tasks[t] \in LiveStates <=> Live(t)
  BY DEF Live, LiveStates
<1>6. Leased(m) = {}
  BY <1>2, ReturnedDelivery DEF Leased
<1> HIDE DEF m
<1>7. /\ w \in Worlds /\ w.calls = calls /\ w.tasks = tasks /\ w.mail = m /\ w.stopped = stopped
      /\ w.goals = goalState /\ w.system = systemState
  <2> HIDE DEF calls, tasks
  <2> QED
    BY <1>1, <1>2, WorldType DEF Worlds
<1>8. DOMAIN B \subseteq Living(w) /\ DOMAIN B = lost /\ \A t \in DOMAIN B : B[t] = "failed" /\ B[t] \in EndStates
  BY DEF EndStates
<1> HIDE DEF w, B, lost, settled
<1>9. PICK gone \in SUBSET Tasks : Ends(w, B, v, gone)
  BY <1>3, <1>7, <1>8, EndingsEnd
<1>10. stopped' = stopped /\ v \in Worlds /\ v.stopped = stopped
  BY <1>7, <1>9 DEF Recover, Ends
<1> DEFINE s == IF (\E t \in lost : Root(t)) \/ (v.system \in {"running", "stopping"} /\ Living(v) = {})
                THEN "stopped" ELSE v.system
<1>11. s \in SystemStates
  BY <1>10 DEF SystemStates, Worlds
<1>12. settled(v) = [v EXCEPT !.system = s]
  BY <1>10 DEF settled, Worlds
<1> HIDE DEF s
<1>13. /\ settled(v) \in Worlds /\ settled(v).stopped = stopped
       /\ mail' = v.mail /\ taskState' = v.tasks /\ callState' = v.calls /\ goalState' = v.goals
       /\ systemState' = s
  BY <1>3, <1>10, <1>11, <1>12, SystemOnly DEF Becomes
<1>14. World' \in Worlds
  BY <1>3, <1>10, <1>13, BecomesWorld
<1>15. Living(w) = {t \in Tasks : Live(t)}
  BY <1>5, <1>7 DEF Living
<1>16. Over(gone)
  BY <1>2, <1>7, <1>8, <1>9, <1>10, <1>13, <1>15, EndsOver
<1>17. Kept(gone)
  BY <1>4, <1>7, <1>8, <1>9, <1>13, EndsKept
<1>18. \/ SystemEnds(gone, systemState, systemState', mail')
       \/ systemState' = "stopped" /\ ((\E t \in gone : Root(t)) \/ \A t \in Tasks : ~Live(t)')
  <2>1. SystemEnds(gone, systemState, v.system, mail')
    BY <1>7, <1>9, <1>13, EndsSystem
  <2>2. lost \subseteq gone
    BY <1>8, <1>9 DEF Ends
  <2>3. Living(v) = {t \in Tasks : Live(t)'}
    BY <1>13 DEF Living, Live
  <2> QED
    BY <1>13, <2>1, <2>2, <2>3 DEF s
<1>19. \A t \in Tasks : IF t \in gone THEN taskState'[t] \in {"failed", "rejected"}
                        ELSE taskState'[t] = IF taskState[t] = "running" THEN "queued" ELSE taskState[t]
  BY <1>7, <1>8, <1>9, <1>13 DEF Ends
<1>20. Leased(mail') = {}
  BY <1>6, <1>7, <1>9, <1>13, EndsKeepsLeases
<1>21. \A j \in DOMAIN mail : Old(Returned(j), mail'[j], gone)
  BY <1>2, <1>7, <1>9, <1>13, EndsMail
<1> QED
  BY <1>10, <1>14, <1>16, <1>17, <1>18, <1>19, <1>20, <1>21
\* The task's current call was not dispatched yet.
Unasked(t) == callState[t] = "awaiting_worker" /\ sent[t] = 0

\* With delivery i the task reads its inputs.
Gathers(i) == Resumes(i) \/ Unasked(mail[i].task)

\* Delivery j is an input that the task reads with delivery i.
Read(i, j) ==
  /\ Gathers(i)
  /\ mail[j].state = "pending" /\ mail[j].task = mail[i].task /\ mail[j].kind = "input" /\ ~mail[j].applied

\* Delivery i is read when it is leased: as a result, or with the inputs.
Takes(i) ==
  ~mail[i].applied /\ (mail[i].kind = "result" \/ (mail[i].kind = "input" /\ Gathers(i)))

\* Claim leased delivery i of task t and ended the tasks gone.
ClaimEnds(i, t, gone) ==
  /\ t \notin gone /\ DOMAIN Casualties(i) \subseteq gone
  /\ Over(gone) /\ SystemEnds(gone, systemState, systemState', mail')
  /\ \A g \in Goals : goalState'[g] = "none" => goalState[g] = "none"
  /\ \A u \in Tasks :
       /\ u # t /\ callState'[u] \in Waiting => callState'[u] = callState[u]
       /\ u # t /\ u \notin gone /\ callState[u] \in Waiting => callState'[u] = callState[u]
  /\ callState'[t] = IF Resumes(i) THEN "awaiting_worker" ELSE callState[t]
  /\ taskState'[t] = "running"
  /\ \A u \in Tasks \ {t} : IF u \in gone THEN taskState'[u] \in {"failed", "rejected", "canceled"}
                            ELSE taskState'[u] = taskState[u]
  /\ mail'[i] = [mail[i] EXCEPT !.state = "leased", !.applied = TRUE, !.attempts = @ + 1,
                                !.copies = IF Takes(i) THEN @ + 1 ELSE @]
  /\ \A j \in DOMAIN mail \ {i} :
       \/ ~Read(i, j) /\ Sifted(i, j, mail'[j], gone)
       \/ Read(i, j) /\ mail'[j] = [mail[j] EXCEPT !.state = "acked", !.applied = TRUE, !.copies = @ + 1]

\* A pass of the scheduler that leases delivery i.
LEMMA ClaimStep ==
  ASSUME TypeOK, NEW i \in DOMAIN mail, NEW t \in Tasks, t = mail[i].task, Claim(i)
  PROVE  /\ World' \in Worlds /\ stopped' = stopped /\ i \in Deliverable
         /\ \E gone \in SUBSET Tasks : ClaimEnds(i, t, gone)
<1> DEFINE w == Sorted(i)
           B == Casualties(i)
<1>1. i \in Int /\ mail \in Seq(Deliveries) /\ mail[i] \in Deliveries
  <2>1. mail \in Seq(Deliveries)
    BY DEF TypeOK, Deliveries
  <2> QED
    BY <2>1, MailType
<1>2. i \in Deliverable /\ i \in Candidates /\ ~Doomed(i) /\ Runnable(i) /\ stopped' = stopped
  BY DEF Claim, Deliverable
<1>3. mail[i].attempts < MaxDeliveries /\ mail[i].state = "pending"
  BY <1>1, <1>2 DEF Doomed, Candidates, Deliveries, MaxDeliveries
<1>4. PICK v \in Endings(w, B) : v.tasks[t] \in LiveStates /\ Becomes(Swept(Leases(v, i)))
  BY DEF Claim
<1>5. /\ w \in Worlds /\ w.system = systemState /\ w.goals = goalState /\ w.tasks = taskState
      /\ w.calls = callState /\ w.stopped = stopped /\ DOMAIN w.mail = DOMAIN mail
      /\ \A j \in DOMAIN mail : Passed(i, j, w.mail[j])
  BY <1>1, SortedWorld
<1>6. /\ DOMAIN B \subseteq Living(w) /\ Living(w) = {u \in Tasks : Live(u)}
      /\ \A u \in DOMAIN B : B[u] \in {"failed", "rejected", "canceled"}
  BY <1>1, CasualtiesDie
<1>7. \A u \in DOMAIN B : B[u] \in EndStates
  BY <1>6 DEF EndStates
<1> HIDE DEF w, B
<1>8. PICK gone \in SUBSET Tasks : Ends(w, B, v, gone)
  BY <1>4, <1>5, <1>6, <1>7, EndingsEnd
<1>9. /\ v \in Worlds /\ v.stopped = stopped /\ DOMAIN B \subseteq gone
      /\ \A u \in Tasks : IF u \in gone THEN v.tasks[u] \in {"failed", "rejected", "canceled"}
                          ELSE v.tasks[u] = taskState[u]
      /\ DOMAIN mail \subseteq DOMAIN v.mail
  BY <1>5, <1>6, <1>8 DEF Ends
<1>10. t \notin gone
  <2>1. \A s \in {"failed", "rejected", "canceled"} : s \notin LiveStates
    BY DEF LiveStates
  <2> QED
    BY <1>1, <1>4, <1>9, <2>1
<1>11. v.mail[i] = mail[i]
  <2>1. w.mail[i] = mail[i]
    <3>1. Passed(i, i, w.mail[i]) /\ ~(i < i)
      BY <1>1, <1>5
    <3> QED
      BY <3>1 DEF Passed
  <2>2. Old(w.mail[i], v.mail[i], gone)
    BY <1>5, <1>8, EndsMail
  <2> QED
    BY <1>10, <2>1, <2>2 DEF Old
<1>12. \A j \in DOMAIN mail : Sifted(i, j, v.mail[j], gone)
  BY <1>1, <1>8, SiftedMail DEF w, B
<1> DEFINE x == Leases(v, i)
           J == Joins(v.mail, i)
<1>13. /\ x \in Worlds /\ x.system = v.system /\ x.goals = v.goals /\ x.stopped = v.stopped
       /\ x.tasks = [v.tasks EXCEPT ![t] = "running"]
       /\ x.calls = [v.calls EXCEPT ![t] = IF Resumes(i) THEN "awaiting_worker" ELSE @]
       /\ DOMAIN x.mail = DOMAIN v.mail
       /\ \A j \in DOMAIN v.mail \ {i} :
            x.mail[j] = IF j \in J THEN [v.mail[j] EXCEPT !.state = "acked", !.applied = TRUE, !.copies = @ + 1]
                        ELSE v.mail[j]
       /\ x.mail[i] = [v.mail[i] EXCEPT !.state = "leased", !.applied = TRUE, !.attempts = @ + 1,
                        !.copies = IF i \in J \/ (mail[i].kind = "result" /\ ~mail[i].applied) THEN @ + 1 ELSE @]
  <2>1. v.mail[i].attempts < MaxDeliveries /\ i \in DOMAIN v.mail /\ mail[i].task \in Tasks /\ v \in Worlds
    BY <1>1, <1>3, <1>9, <1>11
  <2> QED
    BY <2>1, LeasesWorld
<1> HIDE DEF x, J
<1>14. /\ mail' = x.mail /\ taskState' = x.tasks /\ callState' = x.calls /\ goalState' = x.goals
       /\ systemState' = Swept(x).system /\ Swept(x) \in Worlds /\ Swept(x).stopped = stopped
  BY <1>4, <1>9, <1>13, SweptWorld DEF Becomes, x
<1>15. World' \in Worlds
  BY <1>2, <1>4, <1>14, BecomesWorld DEF x
<1>16. taskState'[t] = "running" /\ \A u \in Tasks \ {t} : taskState'[u] = v.tasks[u]
  BY <1>1, <1>9, <1>13, <1>14 DEF Worlds
<1>17. /\ callState'[t] = IF Resumes(i) THEN "awaiting_worker" ELSE v.calls[t]
       /\ \A u \in Tasks \ {t} : callState'[u] = v.calls[u]
  BY <1>1, <1>9, <1>13, <1>14 DEF Worlds
<1>18. \A u \in Tasks : v.calls[u] = IF u \in gone /\ callState[u] \in Waiting THEN v.tasks[u] ELSE callState[u]
  BY <1>5, <1>8 DEF Ends
<1>19. \A s \in {"failed", "rejected", "canceled"} : s \notin Waiting /\ s \in EndStates
  BY DEF Waiting, EndStates
<1>20. \A j \in J : v.mail[j].kind = "input" /\ v.mail[j].state = "pending" /\ v.mail[j].task = t /\ ~v.mail[j].applied
  BY DEF J, Joins
<1>21. Posted(v.mail, gone) /\ \A u \in gone : u \in Tasks /\ Live(u)
  BY <1>2, <1>5, <1>6, <1>8, EndsPosted
<1>22. \A j \in DOMAIN v.mail \ DOMAIN mail : mail'[j] = v.mail[j]
  <2> TAKE j \in DOMAIN v.mail \ DOMAIN mail
  <2>1. v.mail[j].kind = "result"
    <3>1. PICK c \in gone : v.mail[j] = Event(ParentOf[c], "result", c)
      BY <1>21 DEF Posted
    <3> QED
      BY <3>1 DEF Event
  <2> QED
    BY <1>13, <1>14, <1>20, <2>1
<1>23. Posted(mail', gone)
  <2>1. DOMAIN mail' = DOMAIN v.mail
    BY <1>13, <1>14
  <2> QED
    BY <1>21, <1>22, <2>1 DEF Posted
<1>24. Over(gone)
  <2>1. \A u \in gone : taskState'[u] \in EndStates
    BY <1>9, <1>10, <1>16, <1>19
  <2>2. ASSUME NEW u \in Tasks PROVE Live(u)' <=> Live(u) /\ u \notin gone
    <3>1. CASE u = t
      <4>1. Live(t)
        BY <1>2 DEF Doomed
      <4>2. taskState'[t] \in LiveStates
        BY <1>16 DEF LiveStates
      <4> QED
        BY <1>10, <3>1, <4>1, <4>2 DEF Live
    <3>2. CASE u # t /\ u \in gone
      BY <2>1, <3>2, StatesApart DEF Live
    <3>3. CASE u # t /\ u \notin gone
      BY <1>9, <1>16, <3>3 DEF Live
    <3> QED
      BY <3>1, <3>2, <3>3
  <2> QED
    BY <1>21, <1>23, <2>1, <2>2 DEF Over
<1>25. SystemEnds(gone, systemState, systemState', mail')
  <2>1. systemState = "running"
    BY <1>2 DEF Runnable
  <2>2. v.system = IF \A u \in gone : ~Root(u) THEN systemState ELSE "inactive"
    BY <1>5, <1>8, <2>1 DEF Ends
  <2>3. systemState' = v.system
    BY <1>13, <1>14, <2>1, <2>2, SweptWorld
  <2> QED
    BY <2>1, <2>2, <2>3 DEF SystemEnds
<1>26. \A g \in Goals : goalState'[g] = "none" => goalState[g] = "none"
  BY <1>5, <1>8, <1>13, <1>14 DEF Ends
<1>27. \A u \in Tasks : /\ u # t /\ callState'[u] \in Waiting => callState'[u] = callState[u]
                        /\ u # t /\ u \notin gone /\ callState[u] \in Waiting => callState'[u] = callState[u]
  BY <1>9, <1>17, <1>18, <1>19
<1>28. callState'[t] = IF Resumes(i) THEN "awaiting_worker" ELSE callState[t]
  BY <1>1, <1>10, <1>17, <1>18
<1>29. \A u \in Tasks \ {t} : IF u \in gone THEN taskState'[u] \in {"failed", "rejected", "canceled"}
                              ELSE taskState'[u] = taskState[u]
  BY <1>9, <1>16
<1>30. i \in J \/ (mail[i].kind = "result" /\ ~mail[i].applied) <=> Takes(i)
  <2>1. i \in J <=> /\ ~mail[i].applied /\ mail[i].kind = "input" /\ Gathers(i)
    BY <1>3, <1>9, <1>11 DEF J, Joins, Gathers, Unasked
  <2> QED
    BY <2>1 DEF Takes
<1>31. mail'[i] = [mail[i] EXCEPT !.state = "leased", !.applied = TRUE, !.attempts = @ + 1,
                                  !.copies = IF Takes(i) THEN @ + 1 ELSE @]
  BY <1>11, <1>13, <1>14, <1>30
<1>32. \A j \in DOMAIN mail \ {i} :
         \/ ~Read(i, j) /\ Sifted(i, j, mail'[j], gone)
         \/ Read(i, j) /\ mail'[j] = [mail[j] EXCEPT !.state = "acked", !.applied = TRUE, !.copies = @ + 1]
  <2> TAKE j \in DOMAIN mail \ {i}
  <2>1. mail[j] \in Deliveries
    BY <1>1, MailType
  <2>2. Sifted(i, j, v.mail[j], gone)
    BY <1>12
  <2>3. v.mail[j] = mail[j] \/ v.mail[j] = [mail[j] EXCEPT !.state = "dead"]
        \/ (j \in Notices /\ v.mail[j] = [mail[j] EXCEPT !.state = "acked", !.applied = TRUE])
    BY <2>2 DEF Sifted, Old
  <2>4. j \in Notices => ~Read(i, j)
    BY DEF Notices, Read
  <2>5. CASE v.mail[j] = mail[j]
    <3>1. j \in J <=> Read(i, j)
      BY <1>9, <2>5 DEF J, Joins, Read, Gathers, Unasked
    <3>2. mail'[j] = IF j \in J THEN [mail[j] EXCEPT !.state = "acked", !.applied = TRUE, !.copies = @ + 1]
                     ELSE mail[j]
      BY <1>9, <1>13, <1>14, <2>5
    <3> QED
      BY <2>2, <2>5, <3>1, <3>2
  <2>6. CASE v.mail[j] = [mail[j] EXCEPT !.state = "dead"]
    <3>1. v.mail[j].state # "pending"
      BY <2>1, <2>6 DEF Deliveries
    <3>2. j \notin J
      BY <1>20, <3>1
    <3>3. mail'[j] = v.mail[j]
      BY <1>9, <1>13, <1>14, <3>2
    <3>4. ~Read(i, j)
      <4> SUFFICES ASSUME Read(i, j) PROVE FALSE
        OBVIOUS
      <4>1. mail[j].state = "pending" /\ mail[j].task = t /\ mail[j].kind = "input"
        BY DEF Read
      <4>2. Live(t) /\ j \notin Strays /\ j \notin Notices
        BY <1>2, <4>1 DEF Doomed, Strays, Stray, Notices
      <4>3. v.mail[j] = mail[j]
        BY <1>10, <2>2, <4>1, <4>2 DEF Sifted, Old
      <4> QED
        BY <3>1, <4>1, <4>3
    <3> QED
      BY <2>2, <3>3, <3>4
  <2>7. CASE j \in Notices /\ v.mail[j] = [mail[j] EXCEPT !.state = "acked", !.applied = TRUE]
    <3>1. v.mail[j].state # "pending"
      BY <2>1, <2>7 DEF Deliveries
    <3>2. j \notin J
      BY <1>20, <3>1
    <3>3. mail'[j] = v.mail[j]
      BY <1>9, <1>13, <1>14, <3>2
    <3> QED
      BY <2>2, <2>4, <2>7, <3>3
  <2> QED
    BY <2>3, <2>5, <2>6, <2>7
<1>33. ClaimEnds(i, t, gone)
  BY <1>1, <1>9, <1>10, <1>16, <1>23, <1>24, <1>25, <1>26, <1>27, <1>28, <1>29, <1>31, <1>32 DEF B, ClaimEnds
<1> QED
  BY <1>2, <1>15, <1>33
-----------------------------------------------------------------------------
(* The steps that post one event or hand one delivery back *)

\* After the step the goal's mailbox and its live tasks leave room for an event.
RoomFor(g) ==
  Cardinality({j \in DOMAIN mail : GoalOf[mail[j].task] = g})
    + Cardinality({u \in Tasks : Live(u)' /\ GoalOf[u] = g}) < MaxEvents

\* An event for t was posted, and there was room for it.
Post(t, kind) ==
  /\ mail' = Append(mail, Event(t, kind, NoTask)) /\ RoomFor(GoalOf[t])

\* emitEvent found room before its event was posted.
LEMMA RoomFound ==
  ASSUME NEW w \in Worlds, NEW t \in Tasks, CanEmit(w, t), taskState' = w.tasks,
         DOMAIN w.mail = DOMAIN mail, \A j \in DOMAIN mail : w.mail[j].task = mail[j].task
  PROVE  RoomFor(GoalOf[t])
<1>1. {j \in DOMAIN w.mail : GoalOf[w.mail[j].task] = GoalOf[t]} = {j \in DOMAIN mail : GoalOf[mail[j].task] = GoalOf[t]}
  OBVIOUS
<1>2. {u \in Living(w) : GoalOf[u] = GoalOf[t]} = {u \in Tasks : Live(u)' /\ GoalOf[u] = GoalOf[t]}
  BY DEF Living, Live
<1> QED
  BY <1>1, <1>2 DEF CanEmit, HasRoom, RoomFor

\* StartSystem creates the root, queues it and posts its first event.
LEMMA StartStep ==
  ASSUME TypeOK, NEW t \in Tasks, Start(t)
  PROVE  /\ World' \in Worlds /\ stopped' = stopped
         /\ systemState' = "running" /\ goalState' = [goalState EXCEPT ![GoalOf[t]] = "queued"]
         /\ taskState' = [taskState EXCEPT ![t] = "queued"]
         /\ callState' = [callState EXCEPT ![t] = "awaiting_worker"]
         /\ Post(t, "ready")
<1> DEFINE goals == [goalState EXCEPT ![GoalOf[t]] = "queued"]
           agents == [agentState EXCEPT ![Operator] = "active"]
           tasks == [taskState EXCEPT ![t] = "queued"]
           calls == [callState EXCEPT ![t] = "awaiting_worker"]
           w == [World EXCEPT !.system = "running", !.goals = goals, !.agents = agents,
                              !.tasks = tasks, !.calls = calls]
<1>1. World \in Worlds
  BY WorldType
<1>2. /\ goals \in [Goals -> TaskStates] /\ agents \in [Agents -> AgentStates]
      /\ tasks \in [Tasks -> TaskStates] /\ calls \in [Tasks -> CallStates]
  BY <1>1, WorldType DEF Worlds, TaskStates, LiveStates, AgentStates, CallStates, Waiting
<1>3. CanEmit(w, t) /\ Becomes(Emit(w, t, "ready", NoTask)) /\ stopped' = stopped
  <2>1. w = [World EXCEPT !.system = "running", !.goals[GoalOf[t]] = "queued", !.agents[Operator] = "active",
                          !.tasks[t] = "queued", !.calls[t] = "awaiting_worker"]
    BY DEF World
  <2> QED
    BY <2>1 DEF Start
<1> HIDE DEF goals, agents, tasks, calls
<1>4. /\ w \in Worlds /\ w.system = "running" /\ w.goals = goals /\ w.agents = agents
      /\ w.tasks = tasks /\ w.calls = calls /\ w.mail = mail /\ w.stopped = stopped
  BY <1>1, <1>2, WorldType DEF Worlds, SystemStates
<1> HIDE DEF w
<1> DEFINE v == Emit(w, t, "ready", NoTask)
<1>5. /\ v \in Worlds /\ v.mail = Append(mail, Event(t, "ready", NoTask))
      /\ v.system = "running" /\ v.goals = goals /\ v.tasks = tasks /\ v.calls = calls /\ v.stopped = stopped
  <2>1. "ready" \in Kinds /\ NoTask \in Tasks \union {NoTask}
    BY DEF Kinds
  <2> QED
    BY <1>4, <2>1, EmitWorld
<1>6. World' \in Worlds
  BY <1>3, <1>5, BecomesWorld
<1>7. /\ systemState' = "running" /\ goalState' = goals /\ taskState' = tasks /\ callState' = calls
      /\ mail' = Append(mail, Event(t, "ready", NoTask))
  BY <1>3, <1>5 DEF Becomes
<1>8. RoomFor(GoalOf[t])
  BY <1>3, <1>4, <1>7, RoomFound
<1> QED
  BY <1>3, <1>6, <1>7, <1>8 DEF Post, goals, tasks, calls

\* AddInput posts an input and does nothing else.
LEMMA AddInputStep ==
  ASSUME TypeOK, NEW t \in Tasks, AddInput(t)
  PROVE  /\ World' \in Worlds /\ stopped' = stopped /\ Live(t)
         /\ UNCHANGED <<systemState, goalState, agentState, taskState, callState>>
         /\ Post(t, "input")
<1>1. World \in Worlds
  BY WorldType
<1>2. CanEmit(World, t) /\ Becomes(Emit(World, t, "input", NoTask)) /\ stopped' = stopped
  BY DEF AddInput, taskVars
<1> DEFINE v == Emit(World, t, "input", NoTask)
<1>3. /\ v \in Worlds /\ v.mail = Append(mail, Event(t, "input", NoTask)) /\ v.system = systemState
      /\ v.goals = goalState /\ v.agents = agentState /\ v.tasks = taskState /\ v.calls = callState /\ v.stopped = stopped
  <2>1. "input" \in Kinds /\ NoTask \in Tasks \union {NoTask}
    BY DEF Kinds
  <2> QED
    BY <1>1, WorldType, <2>1, EmitWorld
<1>4. World' \in Worlds
  BY <1>2, <1>3, BecomesWorld
<1>5. /\ systemState' = systemState /\ goalState' = goalState /\ agentState' = agentState
      /\ taskState' = taskState /\ callState' = callState /\ mail' = Append(mail, Event(t, "input", NoTask))
  BY <1>2, <1>3 DEF Becomes
<1>6. RoomFor(GoalOf[t])
  BY <1>1, <1>2, <1>5, WorldType, RoomFound
<1> QED
  BY <1>2, <1>4, <1>5, <1>6 DEF Post, AddInput

\* Delegation creates the child c, wakes it and puts its parent t to sleep.
LEMMA DelegateStep ==
  ASSUME TypeOK, NEW a \in Agents, NEW t \in Tasks, NEW c \in Tasks, Delegate(a, t, c)
  PROVE  /\ World' \in Worlds /\ stopped' = stopped /\ c # t
         /\ UNCHANGED <<systemState, goalState, agentState>>
         /\ taskState' = [taskState EXCEPT ![c] = "queued", ![t] = "waiting"]
         /\ callState' = [callState EXCEPT ![c] = "awaiting_worker"]
         /\ Post(c, "ready")
<1> DEFINE first == [taskState EXCEPT ![c] = "queued"]
           tasks == [first EXCEPT ![t] = "waiting"]
           calls == [callState EXCEPT ![c] = "awaiting_worker"]
           w == [World EXCEPT !.tasks = first, !.calls = calls]
<1>1. World \in Worlds
  BY WorldType
<1>2. first \in [Tasks -> TaskStates] /\ tasks \in [Tasks -> TaskStates] /\ calls \in [Tasks -> CallStates]
  BY <1>1, WorldType DEF Worlds, TaskStates, LiveStates, CallStates, Waiting
<1>3. Live(t) /\ taskState[c] = "none" /\ stopped' = stopped
  BY DEF Delegate, MayUseTool, OnlyTool
<1>4. c # t
  BY <1>3, StatesApart DEF Live
<1>5. w = [World EXCEPT !.tasks[c] = "queued", !.calls[c] = "awaiting_worker"]
  BY DEF World
<1>6. CanEmit(w, c) /\ Becomes([Emit(w, c, "ready", NoTask) EXCEPT !.tasks[t] = "waiting"])
  BY <1>5 DEF Delegate
<1> HIDE DEF first, calls
<1>7. w \in Worlds /\ w.tasks = first /\ w.calls = calls /\ w.mail = mail /\ w.stopped = stopped
      /\ w.system = systemState /\ w.goals = goalState /\ w.agents = agentState
  BY <1>1, <1>2, WorldType DEF Worlds
<1> HIDE DEF w
<1> DEFINE v == Emit(w, c, "ready", NoTask)
           u == [v EXCEPT !.tasks = tasks]
<1>8. /\ v \in Worlds /\ v.mail = Append(mail, Event(c, "ready", NoTask)) /\ v.system = systemState
      /\ v.goals = goalState /\ v.agents = agentState /\ v.tasks = first /\ v.calls = calls /\ v.stopped = stopped
  <2>1. "ready" \in Kinds /\ NoTask \in Tasks \union {NoTask}
    BY DEF Kinds
  <2> QED
    BY <1>7, <2>1, EmitWorld
<1>9. Becomes(u)
  <2>1. u = [v EXCEPT !.tasks[t] = "waiting"]
    BY <1>8 DEF Worlds
  <2> QED
    BY <1>6, <2>1
<1> HIDE DEF v, tasks
<1>10. /\ u \in Worlds /\ u.tasks = tasks /\ u.mail = v.mail /\ u.system = v.system
       /\ u.goals = v.goals /\ u.agents = v.agents /\ u.calls = v.calls /\ u.stopped = v.stopped
  BY <1>2, <1>8 DEF Worlds
<1>11. World' \in Worlds
  BY <1>3, <1>8, <1>9, <1>10, BecomesWorld
<1>12. /\ systemState' = systemState /\ goalState' = goalState /\ agentState' = agentState /\ taskState' = tasks
       /\ callState' = calls /\ mail' = Append(mail, Event(c, "ready", NoTask))
  BY <1>8, <1>9, <1>10 DEF Becomes
<1>13. tasks = [taskState EXCEPT ![c] = "queued", ![t] = "waiting"]
  BY DEF tasks, first
<1>14. RoomFor(GoalOf[c])
  <2>1. Living(w) = {x \in Tasks : Live(x)'}
    <3>1. \A x \in Tasks : first[x] \in LiveStates <=> tasks[x] \in LiveStates
      BY <1>3, <1>4, <1>2 DEF first, tasks, Live, LiveStates
    <3> QED
      BY <1>7, <1>12, <3>1 DEF Living, Live
  <2>2. {x \in Living(w) : GoalOf[x] = GoalOf[c]} = {x \in Tasks : Live(x)' /\ GoalOf[x] = GoalOf[c]}
    BY <2>1
  <2> QED
    BY <1>6, <1>7, <2>2 DEF RoomFor, CanEmit, HasRoom
<1> QED
  BY <1>3, <1>4, <1>11, <1>12, <1>13, <1>14 DEF Post, calls
\* The activation's delivery gets state s, the other deliveries stay.
Hands(a, s) ==
  /\ DOMAIN mail \subseteq DOMAIN mail'
  /\ \A j \in DOMAIN mail : mail'[j] = IF j = activation[a].mail THEN [mail[j] EXCEPT !.state = s] ELSE mail[j]

\* The activation of an ended task lets its lease die.
LEMMA FinishStaleStep ==
  ASSUME TypeOK, NEW a \in Agents, NEW t \in Tasks, FinishStale(a, t)
  PROVE  /\ World' \in Worlds /\ stopped' = stopped
         /\ UNCHANGED <<goalState, taskState, callState>>
         /\ systemState' = IF systemState = "stopping" THEN Drained(mail') ELSE systemState
         /\ Hands(a, "dead") /\ DOMAIN mail' = DOMAIN mail
<1> DEFINE w == Delivered(a, "dead")
<1>1. /\ w \in Worlds /\ w.system = systemState /\ w.goals = goalState /\ w.agents = agentState
      /\ w.tasks = taskState /\ w.calls = callState /\ w.stopped = stopped /\ DOMAIN w.mail = DOMAIN mail
      /\ \A j \in DOMAIN mail : w.mail[j] = IF j = activation[a].mail THEN [mail[j] EXCEPT !.state = "dead"] ELSE mail[j]
  BY DeliveredWorld
<1>2. Becomes(Swept(w)) /\ stopped' = stopped
  BY DEF FinishStale, taskVars
<1> HIDE DEF w
<1>3. /\ Swept(w) \in Worlds /\ Swept(w).stopped = stopped
      /\ mail' = w.mail /\ taskState' = taskState /\ callState' = callState /\ goalState' = goalState
      /\ systemState' = IF systemState = "stopping" THEN Drained(mail') ELSE systemState
  BY <1>1, <1>2, SweptWorld DEF Becomes
<1>4. World' \in Worlds
  BY <1>2, <1>3, BecomesWorld
<1> QED
  BY <1>1, <1>2, <1>3, <1>4 DEF Hands

\* The shutdown gives the delivery back.
LEMMA FinishPreservedStep ==
  ASSUME TypeOK, NEW a \in Agents, NEW t \in Tasks, FinishPreserved(a, t)
  PROVE  /\ World' \in Worlds /\ stopped' = stopped
         /\ UNCHANGED <<systemState, goalState, callState>>
         /\ taskState' = [taskState EXCEPT ![t] = IF @ = "waiting" THEN @ ELSE "queued"]
         /\ Hands(a, "pending") /\ DOMAIN mail' = DOMAIN mail
<1> DEFINE w == Delivered(a, "pending")
           tasks == [taskState EXCEPT ![t] = IF @ = "waiting" THEN @ ELSE "queued"]
           v == [w EXCEPT !.tasks = tasks]
<1>1. /\ w \in Worlds /\ w.system = systemState /\ w.goals = goalState /\ w.agents = agentState
      /\ w.tasks = taskState /\ w.calls = callState /\ w.stopped = stopped /\ DOMAIN w.mail = DOMAIN mail
      /\ \A j \in DOMAIN mail : w.mail[j] = IF j = activation[a].mail THEN [mail[j] EXCEPT !.state = "pending"] ELSE mail[j]
  BY DeliveredWorld
<1>2. tasks \in [Tasks -> TaskStates]
  BY <1>1 DEF Worlds, TaskStates, LiveStates
<1> HIDE DEF w
<1>3. v = [w EXCEPT !.tasks[t] = IF @ = "waiting" THEN @ ELSE "queued"]
  BY <1>1 DEF Worlds
<1>4. Becomes(v) /\ stopped' = stopped
  BY <1>3 DEF FinishPreserved, taskVars, w
<1> HIDE DEF tasks
<1>5. /\ v \in Worlds /\ v.tasks = tasks /\ v.mail = w.mail /\ v.system = systemState
      /\ v.goals = goalState /\ v.calls = callState /\ v.stopped = stopped
  BY <1>1, <1>2 DEF Worlds
<1>6. World' \in Worlds
  BY <1>4, <1>5, BecomesWorld
<1> QED
  BY <1>1, <1>4, <1>5, <1>6 DEF Hands, Becomes, tasks

\* The delivery is tried again later.
LEMMA FinishRetryStep ==
  ASSUME TypeOK, NEW a \in Agents, NEW t \in Tasks, FinishRetry(a, t)
  PROVE  /\ World' \in Worlds /\ stopped' = stopped
         /\ UNCHANGED <<systemState, goalState>>
         /\ taskState' = [taskState EXCEPT ![t] = "queued"]
         /\ callState' = [callState EXCEPT ![t] = "awaiting_worker"]
         /\ DOMAIN mail' = DOMAIN mail
         /\ \A j \in DOMAIN mail : mail'[j] = IF j = activation[a].mail
                                              THEN [mail[j] EXCEPT !.state = "pending", !.due = FALSE] ELSE mail[j]
<1> DEFINE k == activation[a].mail
           w == Delivered(a, "pending")
           tasks == [taskState EXCEPT ![t] = "queued"]
           calls == [callState EXCEPT ![t] = "awaiting_worker"]
           m == [w.mail EXCEPT ![k].due = FALSE]
           v == [w EXCEPT !.tasks = tasks, !.calls = calls, !.mail = m]
<1>1. /\ w \in Worlds /\ w.system = systemState /\ w.goals = goalState /\ w.agents = agentState
      /\ w.tasks = taskState /\ w.calls = callState /\ w.stopped = stopped
      /\ DOMAIN w.mail = DOMAIN mail /\ Len(w.mail) = Len(mail)
      /\ \A j \in DOMAIN mail : w.mail[j] = IF j = k THEN [mail[j] EXCEPT !.state = "pending"] ELSE mail[j]
  BY DeliveredWorld
<1>2. tasks \in [Tasks -> TaskStates] /\ calls \in [Tasks -> CallStates]
  BY <1>1 DEF Worlds, TaskStates, LiveStates, CallStates, Waiting
<1> HIDE DEF w
<1>3. /\ w.mail \in Seq(Deliveries) /\ Len(w.mail) \in Nat /\ DOMAIN w.mail = 1..Len(w.mail)
      /\ \A j \in DOMAIN w.mail : w.mail[j] \in Deliveries
  <2>1. w.mail \in Seq(Deliveries)
    BY <1>1 DEF Worlds
  <2> QED
    BY <2>1, MailType
<1>4. DOMAIN m = DOMAIN w.mail
      /\ \A j \in DOMAIN w.mail : m[j] = IF j = k THEN [w.mail[j] EXCEPT !.due = FALSE] ELSE w.mail[j]
  BY <1>3
<1>5. \A d \in Deliveries : [d EXCEPT !.due = FALSE] \in Deliveries
  BY ONLY DEF Deliveries
<1>6. m \in [1..Len(w.mail) -> Deliveries]
  BY <1>3, <1>4, <1>5
<1> HIDE DEF m
<1>7. m \in Seq(Deliveries)
  BY <1>3, <1>6, SeqFromFunction
<1>8. v = [w EXCEPT !.tasks[t] = "queued", !.calls[t] = "awaiting_worker", !.mail[k].due = FALSE]
  BY <1>1 DEF Worlds, m
<1>9. Becomes(v) /\ stopped' = stopped
  BY <1>8 DEF FinishRetry, taskVars, w
<1> HIDE DEF tasks, calls
<1>10. /\ v \in Worlds /\ v.tasks = tasks /\ v.calls = calls /\ v.mail = m /\ v.system = systemState
       /\ v.goals = goalState /\ v.stopped = stopped
  BY <1>1, <1>2, <1>7 DEF Worlds
<1>11. World' \in Worlds
  BY <1>9, <1>10, BecomesWorld
<1>12. \A j \in DOMAIN mail : m[j] = IF j = k THEN [mail[j] EXCEPT !.state = "pending", !.due = FALSE] ELSE mail[j]
  BY <1>1, <1>4
<1> QED
  BY <1>1, <1>4, <1>9, <1>10, <1>11, <1>12 DEF Becomes, tasks, calls

\* A task that sleeps acknowledges the delivery.
LEMMA FinishWaitingStep ==
  ASSUME TypeOK, NEW a \in Agents, NEW t \in Tasks, FinishWaiting(a, t)
  PROVE  /\ World' \in Worlds /\ stopped' = stopped
         /\ UNCHANGED <<systemState, goalState, taskState, callState>>
         /\ Hands(a, "acked") /\ DOMAIN mail' = DOMAIN mail
<1> DEFINE w == Delivered(a, "acked")
<1>1. /\ w \in Worlds /\ w.system = systemState /\ w.goals = goalState /\ w.agents = agentState
      /\ w.tasks = taskState /\ w.calls = callState /\ w.stopped = stopped /\ DOMAIN w.mail = DOMAIN mail
      /\ \A j \in DOMAIN mail : w.mail[j] = IF j = activation[a].mail THEN [mail[j] EXCEPT !.state = "acked"] ELSE mail[j]
  BY DeliveredWorld
<1>2. Becomes(w) /\ stopped' = stopped
  BY DEF FinishWaiting, taskVars
<1> HIDE DEF w
<1>3. World' \in Worlds
  BY <1>1, <1>2, BecomesWorld
<1> QED
  BY <1>1, <1>2, <1>3 DEF Hands, Becomes

\* The task goes on: it is queued again, with a new delivery if it has none.
LEMMA FinishContinueStep ==
  ASSUME TypeOK, NEW a \in Agents, NEW t \in Tasks, FinishContinue(a, t)
  PROVE  /\ World' \in Worlds /\ stopped' = stopped
         /\ UNCHANGED <<systemState, goalState>>
         /\ taskState' = [taskState EXCEPT ![t] = "queued"]
         /\ callState' = [callState EXCEPT ![t] = "awaiting_worker"]
         /\ Hands(a, "acked")
         /\ \/ ~NeedsContinuation(t) /\ DOMAIN mail' = DOMAIN mail
            \/ /\ NeedsContinuation(t) /\ RoomFor(GoalOf[t])
               /\ DOMAIN mail' = DOMAIN mail \union {Len(mail) + 1} /\ Len(mail) + 1 \notin DOMAIN mail
               /\ mail'[Len(mail) + 1] = Event(t, "continue", NoTask)
<1> DEFINE d == Delivered(a, "acked")
           tasks == [taskState EXCEPT ![t] = "queued"]
           calls == [callState EXCEPT ![t] = "awaiting_worker"]
           w == [d EXCEPT !.tasks = tasks, !.calls = calls]
           v == Emit(w, t, "continue", NoTask)
<1>1. /\ d \in Worlds /\ d.system = systemState /\ d.goals = goalState /\ d.agents = agentState
      /\ d.tasks = taskState /\ d.calls = callState /\ d.stopped = stopped
      /\ DOMAIN d.mail = DOMAIN mail /\ Len(d.mail) = Len(mail)
      /\ \A j \in DOMAIN mail : d.mail[j] = IF j = activation[a].mail THEN [mail[j] EXCEPT !.state = "acked"] ELSE mail[j]
  BY DeliveredWorld
<1>2. tasks \in [Tasks -> TaskStates] /\ calls \in [Tasks -> CallStates]
  BY <1>1 DEF Worlds, TaskStates, LiveStates, CallStates, Waiting
<1> HIDE DEF d
<1>3. w = [d EXCEPT !.tasks[t] = "queued", !.calls[t] = "awaiting_worker"]
  BY <1>1 DEF Worlds
<1>4. /\ IF NeedsContinuation(t) THEN CanEmit(w, t) /\ Becomes(v) ELSE Becomes(w)
      /\ stopped' = stopped
  BY <1>3 DEF FinishContinue, d
<1> HIDE DEF tasks, calls
<1>5. /\ w \in Worlds /\ w.tasks = tasks /\ w.calls = calls /\ w.mail = d.mail /\ w.system = systemState
      /\ w.goals = goalState /\ w.stopped = stopped /\ w.mail \in Seq(Deliveries)
  BY <1>1, <1>2 DEF Worlds
<1> HIDE DEF w
<1>6. "continue" \in Kinds /\ NoTask \in Tasks \union {NoTask}
  BY DEF Kinds
<1>7. /\ v \in Worlds /\ v.tasks = tasks /\ v.calls = calls /\ v.mail = Append(d.mail, Event(t, "continue", NoTask))
      /\ v.system = systemState /\ v.goals = goalState /\ v.stopped = stopped
  BY <1>5, <1>6, EmitWorld
<1> HIDE DEF v
<1>8. CASE ~NeedsContinuation(t)
  <2>1. World' \in Worlds
    BY <1>4, <1>5, <1>8, BecomesWorld
  <2>2. Hands(a, "acked") /\ DOMAIN mail' = DOMAIN mail
    BY <1>1, <1>4, <1>5, <1>8 DEF Becomes, Hands
  <2> QED
    BY <1>4, <1>5, <1>8, <2>1, <2>2 DEF Becomes, tasks, calls
<1>9. CASE NeedsContinuation(t)
  <2>1. World' \in Worlds
    BY <1>4, <1>7, <1>9, BecomesWorld
  <2>2. taskState' = tasks /\ mail' = Append(d.mail, Event(t, "continue", NoTask))
    BY <1>4, <1>7, <1>9 DEF Becomes
  <2>3. Event(t, "continue", NoTask) \in Deliveries
    BY <1>6, EventType
  <2>4. /\ DOMAIN mail' = DOMAIN d.mail \union {Len(d.mail) + 1} /\ Len(d.mail) + 1 \notin DOMAIN d.mail
        /\ mail'[Len(d.mail) + 1] = Event(t, "continue", NoTask)
        /\ \A j \in DOMAIN d.mail : mail'[j] = d.mail[j]
    BY <1>5, <2>2, <2>3, AppendMail
  <2>5. Hands(a, "acked")
    BY <1>1, <2>4 DEF Hands
  <2>6. \A j \in DOMAIN mail : w.mail[j].task = mail[j].task
    <3>1. \A j \in DOMAIN mail : mail[j] \in Deliveries
      BY MailType DEF TypeOK, Deliveries
    <3>2. \A e \in Deliveries : [e EXCEPT !.state = "acked"].task = e.task
      BY ONLY DEF Deliveries
    <3> QED
      BY <1>1, <1>5, <3>1, <3>2, ZenonT(30)
  <2>7. RoomFor(GoalOf[t])
    BY <1>1, <1>4, <1>5, <1>9, <2>2, <2>6, RoomFound
  <2> QED
    BY <1>1, <1>4, <1>7, <1>9, <2>1, <2>4, <2>5, <2>7 DEF Becomes, tasks, calls
<1> QED
  BY <1>8, <1>9

=============================================================================
