---------------------------- MODULE WorkflowMail ----------------------------
(***************************************************************************)
(* Theorems about the mailboxes of the workflow, for every value of the    *)
(* constants: no input is lost, nothing is read twice, and no live task    *)
(* waits for a delivery that is not to come.                               *)
(*                                                                         *)
(* Two more layers of invariants: ReadInv, what is applied and in which    *)
(* order, and WakeInv, what a task that does not run waits for.  That a    *)
(* step keeps them is proved by its kind: Calm steps lease and return      *)
(* nothing; Claim leases; Finish and Recovers return leases.  About says   *)
(* what all kinds have in common.                                          *)
(***************************************************************************)
EXTENDS WorkflowProofs

-----------------------------------------------------------------------------
(* Inputs *)

\* An unread input of a live task stays pending until it is read, unless the
\* task fails, is rejected or is canceled.
LEMMA InputNotLostStep ==
  ASSUME TypeInv, LeaseInv, [Next]_vars, NEW j \in DOMAIN mail, NEW t \in Tasks, t = mail[j].task,
         mail[j].kind = "input", mail[j].state = "pending", ~mail[j].applied, Live(t)
  PROVE  mail'[j].applied \/ mail'[j].state = "pending" \/ taskState'[t] \in {"failed", "rejected", "canceled"}
<1> DEFINE Goal1 == mail'[j].applied \/ mail'[j].state = "pending" \/ taskState'[t] \in {"failed", "rejected", "canceled"}
<1>0. TypeOK /\ mail[j] \in Deliveries /\ j \in Nat /\ taskState \in [Tasks -> TaskStates]
  BY MailFacts, TypeFacts DEF TypeInv
<1>1. mail'[j] = mail[j] => Goal1
  OBVIOUS
<1>2. CASE Quiet
  BY <1>1, <1>2 DEF Quiet
<1>3. ASSUME NEW a \in Agents, NEW u \in Tasks, Wait(a, u) \/ FinishFails(a, u) PROVE Goal1
  BY <1>1, <1>3 DEF Wait, FinishFails, ruled
<1>4. ASSUME NEW a \in Agents, NEW u \in Tasks, Progress(a, u) PROVE Goal1
  BY <1>0, <1>1, <1>4, ProgressStep, AppendedMail DEF Kinds
<1>5. ASSUME NEW a \in Agents, NEW u \in Tasks, NEW c \in Tasks, Delegate(a, u, c) PROVE Goal1
  BY <1>0, <1>1, <1>5, DelegateStep, AppendedMail DEF Post, Kinds
<1>6. ASSUME NEW a \in Agents, NEW u \in Tasks, Finish(a, u) PROVE Goal1
  <2>1. activation[a].mail # j
    BY <1>6, LeaseFacts DEF Finish, FinishStale, FinishPreserved, FinishRetry, FinishWaiting, FinishContinue, FinishTask, Finishing, Leased
  <2>2. CASE FinishStale(a, u)
    BY <1>0, <1>1, <2>1, <2>2, FinishStaleStep DEF Hands
  <2>3. CASE FinishPreserved(a, u)
    BY <1>0, <1>1, <2>1, <2>3, FinishPreservedStep DEF Hands
  <2>4. CASE FinishRetry(a, u)
    BY <1>0, <1>1, <2>1, <2>4, FinishRetryStep
  <2>5. CASE FinishWaiting(a, u)
    BY <1>0, <1>1, <2>1, <2>5, FinishWaitingStep DEF Hands
  <2>6. CASE FinishContinue(a, u)
    BY <1>0, <1>1, <2>1, <2>6, FinishContinueStep DEF Hands
  <2>7. CASE FinishTask(a, u)
    <3>1. PICK gone \in SUBSET Tasks :
            /\ Over(gone)
            /\ \A x \in Tasks : taskState'[x] = IF x = u THEN Verdict(a, u) ELSE IF x \in gone THEN "rejected" ELSE taskState[x]
            /\ \A n \in DOMAIN mail :
                 IF n = activation[a].mail
                 THEN mail'[n] = [mail[n] EXCEPT !.state = IF activation[a].stage = "done" THEN "acked" ELSE "dead"]
                 ELSE Old(mail[n], mail'[n], gone)
      BY <1>0, <2>7, FinishTaskStep
    <3>2. mail'[j] = mail[j] \/ t \in gone
      BY <2>1, <3>1 DEF Old
    <3>3. CASE t \in gone /\ t = u
      <4>1. j \in Unread(t)
        BY DEF Unread, Pending
      <4>2. Succeeds(a, t) => Continuable(t)
        BY <2>7, <3>3, <4>1 DEF FinishTask, Continuable
      <4> QED
        BY <3>1, <3>3, <4>2 DEF Verdict
    <3>4. CASE t \in gone /\ t # u
      BY <3>1, <3>4
    <3> QED
      BY <1>1, <3>2, <3>3, <3>4
  <2> QED
    BY <1>6, <2>2, <2>3, <2>4, <2>5, <2>6, <2>7 DEF Finish
<1>7. ASSUME NEW u \in Tasks, Start(u) PROVE Goal1
  BY <1>0, <1>1, <1>7, StartStep, AppendedMail DEF Post, Kinds
<1>8. ASSUME NEW u \in Tasks, AddInput(u) PROVE Goal1
  BY <1>0, <1>1, <1>8, AddInputStep, AppendedMail DEF Post, Kinds
<1>9. ASSUME NEW i, NEW gone \in SUBSET Tasks, Sifted(i, j, mail'[j], gone),
             t \in gone => taskState'[t] \in {"failed", "rejected", "canceled"}
      PROVE  Goal1
  <2>1. j \notin Notices /\ j \notin Strays
    BY DEF Notices, Strays, Stray
  <2> QED
    BY <1>1, <1>9, <2>1 DEF Sifted, Old
<1>10. CASE ClaimNone
  <2>1. PICK gone \in SUBSET Tasks :
          /\ \A x \in Tasks : IF x \in gone THEN taskState'[x] \in {"failed", "rejected", "canceled"}
                              ELSE taskState'[x] = taskState[x]
          /\ \A n \in DOMAIN mail : Sifted(Len(mail) + 1, n, mail'[n], gone)
    BY <1>0, <1>10, ClaimNoneStep
  <2> QED
    BY <1>9, <2>1
<1>11. ASSUME NEW i \in DOMAIN mail, Claim(i) PROVE Goal1
  <2>1. PICK u \in Tasks : u = mail[i].task
    BY MailFacts
  <2>2. PICK gone \in SUBSET Tasks : ClaimEnds(i, u, gone)
    BY <1>0, <1>11, <2>1, ClaimStep
  <2>3. CASE j = i
    BY <1>0, <2>1, <2>2, <2>3, ClaimMail
  <2>4. CASE j # i /\ Read(i, j)
    <3>1. mail'[j] = [mail[j] EXCEPT !.state = "acked", !.applied = TRUE, !.copies = @ + 1]
      BY <2>2, <2>4 DEF ClaimEnds
    <3> QED
      BY <1>0, <3>1, Edits
  <2>5. CASE j # i /\ ~Read(i, j)
    <3>1. Sifted(i, j, mail'[j], gone) /\ (t \in gone => taskState'[t] \in {"failed", "rejected", "canceled"})
      BY <2>2, <2>5 DEF ClaimEnds
    <3> QED
      BY <1>9, <3>1
  <2> QED
    BY <2>3, <2>4, <2>5
<1>12. ASSUME NEW i \in DOMAIN mail, BackoffEnds(i) PROVE Goal1
  <2>1. mail'[j] = IF j = i THEN [mail[j] EXCEPT !.due = TRUE] ELSE mail[j]
    BY <1>0, <1>12, BackoffStep
  <2> QED
    BY <1>0, <1>1, <2>1, Edits
<1>13. ASSUME NEW w, NEW S, StopsFrom(w, S) PROVE Goal1
  <2>1. PICK gone \in SUBSET Tasks :
          /\ \A x \in Tasks : IF x \in gone THEN taskState'[x] \in {"canceled", "rejected"} ELSE taskState'[x] = taskState[x]
          /\ \A n \in DOMAIN mail : Old(mail[n], mail'[n], gone)
    BY <1>13, StopsFromStep
  <2> QED
    BY <1>1, <2>1 DEF Old
<1>14. CASE Recovers
  <2>1. PICK gone \in SUBSET Tasks :
          /\ \A x \in Tasks : IF x \in gone THEN taskState'[x] \in {"failed", "rejected"}
                              ELSE taskState'[x] = IF taskState[x] = "running" THEN "queued" ELSE taskState[x]
          /\ \A n \in DOMAIN mail : Old(Returned(n), mail'[n], gone)
    BY <1>0, <1>14, RecoverStep DEF Recovers
  <2>2. Returned(j).task = t /\ Returned(j).state = "pending"
    BY <1>0, ReturnedDelivery
  <2> QED
    BY <2>1, <2>2 DEF Old
<1> QED
  BY <1>2, <1>3, <1>4, <1>5, <1>6, <1>7, <1>8, <1>10, <1>11, <1>12, <1>13, <1>14, LoudKinds DEF Stops

\* An accepted input is read before its task completes, or dies with a task that
\* fails, is rejected or is canceled.
THEOREM InputsAreRead == Spec => InputNotLost
<1>1. TypeInv /\ LeaseInv /\ [Next]_vars =>
        [\A j \in DOMAIN mail : LET t == mail[j].task IN
           mail[j].kind = "input" /\ mail[j].state = "pending" /\ ~mail[j].applied /\ Live(t) =>
             mail'[j].applied \/ mail'[j].state = "pending" \/ taskState'[t] \in {"failed", "rejected", "canceled"}]_vars
  BY MailFacts, InputNotLostStep
<1> QED
  BY <1>1, LeaseInvAlways, PTL DEF Spec, InputNotLost

-----------------------------------------------------------------------------
(* What a step does to the tasks and deliveries it is not about *)

\* A worker carries task t.
Worked(t) == \E a \in Agents : activation[a].stage # "idle" /\ activation[a].task = t

\* Task t stays in its state, and its next call is only asked by its worker.
Idles(t) ==
  /\ taskState'[t] = taskState[t]
  /\ Unasked(t) /\ ~Unasked(t)' => Worked(t)

\* Task t falls asleep in a tool, perhaps on a child.
Sleeps(t) ==
  /\ Worked(t) /\ Live(t) /\ taskState'[t] = "waiting"
  /\ awaits'[t] = NoTask \/ \E c \in Tasks : awaits'[t] = c /\ ParentOf[c] = t /\ taskState'[c] \in LiveStates

\* Task t is created, with a delivery to wake it.
Begins(t) ==
  /\ taskState[t] = "none" /\ taskState'[t] = "queued" /\ Unasked(t)'
  /\ awaits'[t] \in {awaits[t], NoTask}
  /\ \E j \in Pending(mail', t) : mail'[j].kind # "progress"

\* Delivery j stays what it is; if it was pending it is lost only with its task,
\* as a notice, as the wakeup of a task that has fallen asleep again, or
\* because the task does not wait for that result.
Fate(j, gone) ==
  /\ mail'[j].copies = mail[j].copies /\ (mail[j].due => mail'[j].due)
  /\ \/ mail'[j].applied = mail[j].applied
     \/ mail[j].kind = "progress" /\ mail'[j].state = "acked"
  /\ mail[j].state = "pending" =>
       \/ mail'[j].state = "pending"
       \/ mail[j].task \in gone \/ ~Live(mail[j].task) \/ mail[j].kind = "progress"
       \/ mail[j].applied /\ taskState[mail[j].task] = "waiting"
       \/ mail[j].kind = "result" /\ ~mail[j].applied /\ mail'[j].state = "dead" /\ ~mail'[j].applied

\* The parents of the ended tasks are told.
Told(gone) ==
  \A c \in gone : ~Root(c) /\ ParentOf[c] \notin gone /\ Live(ParentOf[c]) /\ ~stopped'[ParentOf[c]] =>
    \E j \in Pending(mail', ParentOf[c]) : mail'[j].kind = "result" /\ mail'[j].from = c /\ ~mail'[j].applied

\* The step ends the tasks gone; else it is only about the tasks of T and the
\* deliveries of D.
About(gone, T, D) ==
  /\ \E S : KeepsMail(S) /\ Leased(mail) \ D \subseteq S
  /\ Told(gone) /\ \A t \in gone : t \in Tasks /\ Live(t) /\ ~Live(t)'
  /\ \A t \in Tasks : Live(t) /\ t \notin gone => Live(t)'
  /\ \A t \in Tasks \ (gone \union T) : Idles(t)
  /\ \A t \in Tasks \ T : awaits'[t] = awaits[t]
  /\ \A j \in DOMAIN mail \ D : Fate(j, gone)
  /\ \A t \in Tasks : stopped[t] => stopped'[t]

\* Ends and sorting deal such fates.
LEMMA SiftedFate ==
  ASSUME TypeInv, NEW j \in DOMAIN mail, NEW i, NEW gone, Sifted(i, j, mail'[j], gone) \/ Old(mail[j], mail'[j], gone)
  PROVE  Fate(j, gone)
<1>1. mail[j] \in Deliveries
  BY MailFacts
<1>2. mail'[j].copies = mail[j].copies /\ mail'[j].due = mail[j].due
  BY SiftedDelivery
<1>3. CASE mail'[j] = mail[j]
  BY <1>3 DEF Fate
<1>4. CASE /\ mail[j].state = "pending" /\ mail'[j] = [mail[j] EXCEPT !.state = "dead"]
           /\ mail[j].task \in gone \/ ~Live(mail[j].task) \/ j \in Strays
  <2>1. mail'[j].applied = mail[j].applied /\ mail'[j].state = "dead"
    BY <1>1, <1>4, Edits
  <2>2. j \in Strays => mail[j].kind = "result" /\ ~mail[j].applied
    BY DEF Strays, Stray
  <2> QED
    BY <1>2, <1>4, <2>1, <2>2 DEF Fate
<1>5. CASE j \in Notices /\ mail'[j] = [mail[j] EXCEPT !.state = "acked", !.applied = TRUE]
  <2>1. mail[j].kind = "progress" /\ mail'[j].state = "acked"
    BY <1>1, <1>5, Edits DEF Notices
  <2> QED
    BY <1>2, <2>1 DEF Fate
<1> QED
  BY <1>3, <1>4, <1>5 DEF Sifted, Old

\* Whoever has to be told of an end gets a pending, unread result.
LEMMA PostedTold ==
  ASSUME NEW gone \in SUBSET Tasks, Over(gone)
  PROVE  Told(gone)
<1> SUFFICES ASSUME NEW c \in gone, ~Root(c), ParentOf[c] \notin gone, Live(ParentOf[c]), ~stopped'[ParentOf[c]]
             PROVE  \E j \in Pending(mail', ParentOf[c]) : mail'[j].kind = "result" /\ mail'[j].from = c /\ ~mail'[j].applied
  BY DEF Told
<1>1. PICK j \in DOMAIN mail' \ DOMAIN mail : mail'[j] = Event(ParentOf[c], "result", c)
  BY DEF Over, Posted
<1> QED
  BY <1>1 DEF Pending, Event

\* A step that ends tasks is about nothing else, but for T and D.
LEMMA AboutEnds ==
  ASSUME TypeInv, NEW gone \in SUBSET Tasks, Over(gone), NEW T, NEW D, NEW S, KeepsMail(S), Leased(mail) \ D \subseteq S,
         NEW i, \A j \in DOMAIN mail \ D : Sifted(i, j, mail'[j], gone) \/ Old(mail[j], mail'[j], gone),
         \A t \in Tasks \ (gone \union T) :
           /\ taskState'[t] = taskState[t] /\ sent'[t] = sent[t]
           /\ callState[t] \in Waiting => callState'[t] = callState[t],
         \A t \in Tasks \ T : awaits'[t] = awaits[t], \A t \in Tasks : stopped[t] => stopped'[t]
  PROVE  About(gone, T, D)
<1>1. /\ \A t \in gone : t \in Tasks /\ Live(t) /\ ~Live(t)'
      /\ \A t \in Tasks : Live(t) /\ t \notin gone => Live(t)'
  BY DEF Over
<1>2. \A t \in Tasks \ (gone \union T) : Idles(t)
  BY DEF Idles, Unasked, Waiting
<1>3. \A j \in DOMAIN mail \ D : Fate(j, gone)
  BY SiftedFate
<1> QED
  BY <1>1, <1>2, <1>3, PostedTold DEF About

\* A step that ends nothing is about T, if it only adds deliveries.
LEMMA AboutNothing ==
  ASSUME TypeInv, NEW T, KeepsMail(Leased(mail)), \A j \in DOMAIN mail : Fate(j, {}),
         \A t \in Tasks \ T : Idles(t) /\ awaits'[t] = awaits[t], \A t \in T : taskState'[t] \in LiveStates,
         stopped' = stopped
  PROVE  About({}, T, {})
<1>1. \A t \in Tasks : Live(t) => Live(t)'
  BY DEF Idles, Live
<1> QED
  BY <1>1 DEF About, Told

\* No worker is added, and those that go on keep their tasks.
NoNewWorkers ==
  \A b \in Agents : activation'[b].stage # "idle" =>
    activation[b].stage # "idle" /\ activation'[b].task = activation[b].task

\* A step that leases and returns nothing: it may end the tasks gone, put tasks
\* of T to sleep, and create tasks of T.
Calm(gone, T) ==
  /\ About(gone, T, {}) /\ KeepsMail(Leased(mail)) /\ NoNewWorkers
  /\ \A t \in T : t \in Tasks /\ t \notin gone /\ (Sleeps(t) \/ Begins(t))

\* The steps of workers and users that end nothing are calm.
LEMMA CalmWork ==
  ASSUME TypeInv, LeaseInv
  PROVE  /\ Quiet => Calm({}, {})
         /\ \A a \in Agents, t \in Tasks : Wait(a, t) => Calm({}, {t})
         /\ \A a \in Agents, t \in Tasks : Progress(a, t) => Calm({}, {})
         /\ \A a \in Agents, t, c \in Tasks : Delegate(a, t, c) => Calm({}, {t, c})
         /\ \A a \in Agents, t \in Tasks : FinishFails(a, t) => Calm({}, {})
         /\ \A t \in Tasks : Start(t) => Calm({}, {t})
         /\ \A t \in Tasks : AddInput(t) => Calm({}, {})
<1>0. TypeOK /\ activation \in [Agents -> Slots] /\ "done" \in Stages /\ taskState \in [Tasks -> TaskStates]
      /\ awaits \in [Tasks -> Tasks \union {NoTask}] /\ NoTask \notin Tasks
  BY TypeFacts, WorkflowAssumption DEF TypeInv, Stages
<1>1. mail' = mail => KeepsMail(Leased(mail)) /\ \A j \in DOMAIN mail : Fate(j, {})
  BY DEF KeepsMail, Same, Leased, Fate
<1>2. SameLeases => NoNewWorkers
  BY DEF SameLeases, NoNewWorkers
<1>3. UNCHANGED <<taskState, awaits, callState, sent>> => \A t \in Tasks : Idles(t) /\ awaits'[t] = awaits[t]
  BY DEF Idles, Unasked
<1>4. ASSUME NEW u \in Tasks, NEW kind \in Kinds, NEW from \in Tasks \union {NoTask},
             mail' = Append(mail, Event(u, kind, from))
      PROVE  /\ KeepsMail(Leased(mail)) /\ \A j \in DOMAIN mail : Fate(j, {})
             /\ kind # "progress" => \E j \in Pending(mail', u) : mail'[j].kind # "progress"
  <2>1. /\ KeepsMail(Leased(mail)) /\ \A j \in DOMAIN mail : mail'[j] = mail[j]
        /\ Len(mail) + 1 \in DOMAIN mail' /\ mail'[Len(mail) + 1] = Event(u, kind, from)
    BY <1>4, AppendedMail
  <2>2. Event(u, kind, from).state = "pending" /\ Event(u, kind, from).task = u /\ Event(u, kind, from).kind = kind
    BY DEF Event
  <2> QED
    BY <2>1, <2>2 DEF Fate, Pending
<1>5. ASSUME Quiet PROVE Calm({}, {})
  <2>1. \A t \in Tasks : Idles(t) /\ awaits'[t] = awaits[t]
    BY <1>5 DEF Quiet, Idles, Worked
  <2> QED
    BY <1>1, <1>2, <1>5, <2>1, AboutNothing DEF Calm, Quiet
<1>6. ASSUME NEW a \in Agents, NEW t \in Tasks, Wait(a, t) PROVE Calm({}, {t})
  <2>1. SameLeases
    BY <1>0, <1>6, GoesOn DEF Wait, MayUseTool, At
  <2>2. /\ taskState' = [taskState EXCEPT ![t] = "waiting"] /\ awaits' = [awaits EXCEPT ![t] = NoTask]
        /\ Live(t) /\ UNCHANGED <<mail, stopped, callState, sent>> /\ Worked(t)
    BY <1>6 DEF Wait, MayUseTool, OnlyTool, At, Worked
  <2>3. Sleeps(t)
    BY <1>0, <2>2 DEF Sleeps
  <2>4. \A u \in Tasks \ {t} : Idles(u) /\ awaits'[u] = awaits[u]
    BY <1>0, <2>2 DEF Idles, Unasked
  <2>5. \A u \in {t} : taskState'[u] \in LiveStates
    BY <1>0, <2>2 DEF LiveStates
  <2> QED
    BY <1>1, <1>2, <2>1, <2>2, <2>3, <2>4, <2>5, AboutNothing DEF Calm
<1>7. ASSUME NEW a \in Agents, NEW t \in Tasks, Progress(a, t) PROVE Calm({}, {})
  <2>1. SameLeases
    BY <1>0, <1>7, GoesOn DEF Progress, MayUseTool, At
  <2>2. mail' = Append(mail, Event(ParentOf[t], "progress", t)) /\ ParentOf[t] \in Tasks
    BY <1>0, <1>7, ProgressStep
  <2>3. KeepsMail(Leased(mail)) /\ \A j \in DOMAIN mail : Fate(j, {})
    BY <1>4, <2>2 DEF Kinds
  <2>4. stopped' = stopped /\ \A u \in Tasks : Idles(u) /\ awaits'[u] = awaits[u]
    BY <1>3, <1>7 DEF Progress, OnlyTool
  <2> QED
    BY <1>2, <2>1, <2>3, <2>4, AboutNothing DEF Calm
<1>8. ASSUME NEW a \in Agents, NEW t \in Tasks, NEW c \in Tasks, Delegate(a, t, c) PROVE Calm({}, {t, c})
  <2>1. SameLeases
    BY <1>0, <1>8, GoesOn DEF Delegate, MayUseTool, At
  <2>2. /\ taskState' = [taskState EXCEPT ![c] = "queued", ![t] = "waiting"] /\ c # t
        /\ callState' = [callState EXCEPT ![c] = "awaiting_worker"]
        /\ mail' = Append(mail, Event(c, "ready", NoTask))
    BY <1>0, <1>8, DelegateStep DEF Post
  <2>3. KeepsMail(Leased(mail)) /\ (\A j \in DOMAIN mail : Fate(j, {})) /\ \E j \in Pending(mail', c) : mail'[j].kind # "progress"
    BY <1>4, <2>2 DEF Kinds
  <2>4. /\ Live(t) /\ taskState[c] = "none" /\ UNCHANGED <<stopped, sent>> /\ Worked(t) /\ ParentOf[c] = t
        /\ awaits' = [awaits EXCEPT ![t] = c]
    BY <1>8 DEF Delegate, MayUseTool, OnlyTool, At, Worked
  <2>5. sent[c] = 0 /\ callState \in [Tasks -> CallStates]
    BY <2>4, TypeFacts DEF TypeInv, Born
  <2>6. Sleeps(t)
    BY <1>0, <2>2, <2>4 DEF Sleeps, LiveStates
  <2>7. Begins(c)
    BY <1>0, <2>2, <2>3, <2>4, <2>5 DEF Begins, Unasked
  <2>8. \A u \in Tasks \ {t, c} : Idles(u) /\ awaits'[u] = awaits[u]
    BY <1>0, <2>2, <2>4, <2>5 DEF Idles, Unasked
  <2>9. \A u \in {t, c} : taskState'[u] \in LiveStates
    BY <1>0, <2>2 DEF LiveStates
  <2> QED
    BY <1>2, <2>1, <2>3, <2>4, <2>6, <2>7, <2>8, <2>9, AboutNothing DEF Calm
<1>9. ASSUME NEW a \in Agents, NEW t \in Tasks, FinishFails(a, t) PROVE Calm({}, {})
  <2>1. /\ UNCHANGED <<mail, taskState, awaits, callState, sent, stopped>> /\ activation' = [activation EXCEPT ![a] = Idle]
    BY <1>9 DEF FinishFails, Finishing, ruled, taskVars
  <2>2. NoNewWorkers
    BY <1>0, <2>1 DEF NoNewWorkers, Idle
  <2> QED
    BY <1>1, <1>3, <2>1, <2>2, AboutNothing DEF Calm
<1>10. ASSUME NEW t \in Tasks, Start(t) PROVE Calm({}, {t})
  <2>1. /\ taskState' = [taskState EXCEPT ![t] = "queued"] /\ callState' = [callState EXCEPT ![t] = "awaiting_worker"]
        /\ mail' = Append(mail, Event(t, "ready", NoTask)) /\ stopped' = stopped
    BY <1>0, <1>10, StartStep DEF Post
  <2>2. KeepsMail(Leased(mail)) /\ (\A j \in DOMAIN mail : Fate(j, {})) /\ \E j \in Pending(mail', t) : mail'[j].kind # "progress"
    BY <1>4, <2>1 DEF Kinds
  <2>3. taskState[t] = "none" /\ Prepares(t) /\ UNCHANGED activation /\ callState \in [Tasks -> CallStates]
        /\ sent \in [Tasks -> 0..MaxAttempts]
    BY <1>10, TypeFacts DEF Start, daemonVars, TypeInv, Born
  <2>4. Begins(t)
    BY <1>0, <2>1, <2>2, <2>3 DEF Begins, Unasked, Prepares
  <2>5. \A u \in Tasks \ {t} : Idles(u) /\ awaits'[u] = awaits[u]
    BY <1>0, <2>1, <2>3 DEF Idles, Unasked, Prepares
  <2>7. \A u \in {t} : taskState'[u] \in LiveStates
    BY <1>0, <2>1 DEF LiveStates
  <2>6. NoNewWorkers
    BY <2>3 DEF NoNewWorkers
  <2> QED
    BY <2>1, <2>2, <2>4, <2>5, <2>6, <2>7, AboutNothing DEF Calm
<1>11. ASSUME NEW t \in Tasks, AddInput(t) PROVE Calm({}, {})
  <2>1. mail' = Append(mail, Event(t, "input", NoTask)) /\ UNCHANGED <<stopped, taskState, callState>>
    BY <1>0, <1>11, AddInputStep DEF Post
  <2>2. KeepsMail(Leased(mail)) /\ \A j \in DOMAIN mail : Fate(j, {})
    BY <1>4, <2>1 DEF Kinds
  <2>3. NoNewWorkers /\ \A u \in Tasks : Idles(u) /\ awaits'[u] = awaits[u]
    BY <1>3, <1>11, <2>1 DEF AddInput, taskVars, NoNewWorkers
  <2> QED
    BY <2>1, <2>2, <2>3, AboutNothing DEF Calm
<1> QED
  BY <1>5, <1>6, <1>7, <1>8, <1>9, <1>10, <1>11

\* So are a pass of the scheduler that delivers nothing, backoffs and stops.
LEMMA CalmEnds ==
  ASSUME TypeInv, LeaseInv, ClaimNone \/ (\E i \in DOMAIN mail : BackoffEnds(i)) \/ Stops
  PROVE  \E gone \in SUBSET Tasks : Calm(gone, {})
<1>0. TypeOK
  BY DEF TypeInv
<1>1. UNCHANGED activation => NoNewWorkers
  BY DEF NoNewWorkers
<1>2. CASE ClaimNone
  <2>1. PICK gone \in SUBSET Tasks :
          /\ Over(gone) /\ Kept(gone)
          /\ \A t \in Tasks : IF t \in gone THEN taskState'[t] \in {"failed", "rejected", "canceled"}
                              ELSE taskState'[t] = taskState[t]
          /\ \A j \in DOMAIN mail : Sifted(Len(mail) + 1, j, mail'[j], gone)
    BY <1>0, <1>2, ClaimNoneStep
  <2>2. KeepsMail(Leased(mail))
    BY <2>1, EndedMail
  <2>3. UNCHANGED <<awaits, sent, stopped, activation>>
    BY <1>2 DEF ClaimNone, taskVars, daemonVars
  <2>4. \A t \in Tasks \ (gone \union {}) :
          /\ taskState'[t] = taskState[t] /\ sent'[t] = sent[t]
          /\ callState[t] \in Waiting => callState'[t] = callState[t]
    BY <2>1, <2>3 DEF Kept
  <2>5. About(gone, {}, {})
    BY <2>1, <2>2, <2>3, <2>4, AboutEnds
  <2> QED
    BY <1>1, <2>2, <2>3, <2>5 DEF Calm
<1>3. ASSUME NEW i \in DOMAIN mail, BackoffEnds(i) PROVE Calm({}, {})
  <2>1. /\ \A j \in DOMAIN mail : mail'[j] = IF j = i THEN [mail[j] EXCEPT !.due = TRUE] ELSE mail[j]
        /\ UNCHANGED <<stopped, taskState, callState>> /\ mail[i].state = "pending" /\ mail[i] \in Deliveries
    BY <1>0, <1>3, BackoffStep, MailFacts
  <2>2. KeepsMail(Leased(mail))
    BY <1>3, BackoffMail
  <2>3. \A j \in DOMAIN mail : Fate(j, {})
    <3>1. mail'[i] = [mail[i] EXCEPT !.due = TRUE]
      BY <2>1
    <3>2. mail'[i].state = mail[i].state /\ mail'[i].copies = mail[i].copies /\ mail'[i].applied = mail[i].applied /\ mail'[i].due
      BY <2>1, <3>1, Edits
    <3> QED
      BY <2>1, <3>2 DEF Fate
  <2>4. \A t \in Tasks : Idles(t) /\ awaits'[t] = awaits[t]
    BY <1>3, <2>1 DEF BackoffEnds, taskVars, Idles, Unasked
  <2>5. NoNewWorkers
    BY <1>1, <1>3 DEF BackoffEnds, daemonVars
  <2> QED
    BY <2>1, <2>2, <2>3, <2>4, <2>5, AboutNothing DEF Calm
<1>4. ASSUME NEW w \in Worlds, NEW U \in SUBSET {t \in Tasks : Live(t)}, StopsFrom(w, U)
      PROVE  \E gone \in SUBSET Tasks : Calm(gone, {})
  <2>1. /\ \A t \in Tasks : stopped'[t] <=> stopped[t] \/ t \in U
        /\ \E gone \in SUBSET Tasks :
             /\ Over(gone) /\ Kept(gone)
             /\ \A t \in Tasks : IF t \in gone THEN taskState'[t] \in {"canceled", "rejected"}
                                 ELSE taskState'[t] = taskState[t]
             /\ \A j \in DOMAIN mail : Old(mail[j], mail'[j], gone)
    BY <1>4, StopsFromStep
  <2>2. PICK gone \in SUBSET Tasks :
             /\ Over(gone) /\ Kept(gone)
             /\ \A t \in Tasks : IF t \in gone THEN taskState'[t] \in {"canceled", "rejected"}
                                 ELSE taskState'[t] = taskState[t]
             /\ \A j \in DOMAIN mail : Old(mail[j], mail'[j], gone)
    BY <2>1
  <2>3. KeepsMail(Leased(mail))
    BY <2>2, EndedMail
  <2>4. UNCHANGED <<awaits, sent, activation>>
    BY <1>4 DEF StopsFrom, OnlyControl
  <2>5. \A t \in Tasks \ (gone \union {}) :
          /\ taskState'[t] = taskState[t] /\ sent'[t] = sent[t]
          /\ callState[t] \in Waiting => callState'[t] = callState[t]
    BY <2>2, <2>4 DEF Kept
  <2>6. About(gone, {}, {})
    BY <2>1, <2>2, <2>3, <2>4, <2>5, AboutEnds
  <2> QED
    BY <1>1, <2>3, <2>4, <2>6 DEF Calm
<1> QED
  BY <1>2, <1>3, <1>4 DEF Stops

\* A claim is about the task it resumes, its delivery and the inputs read with it.
LEMMA ClaimAbout ==
  ASSUME TypeInv, LeaseInv, NEW i \in DOMAIN mail, Claim(i), NEW t \in Tasks, t = mail[i].task
  PROVE  \E gone \in SUBSET Tasks :
           /\ ClaimEnds(i, t, gone) /\ KeepsMail(Leased(mail) \union {i})
           /\ About(gone, {t}, {i} \union {j \in DOMAIN mail : Read(i, j)})
<1> DEFINE D == {i} \union {j \in DOMAIN mail : Read(i, j)}
<1>1. PICK gone \in SUBSET Tasks : ClaimEnds(i, t, gone)
  BY ClaimStep DEF TypeInv
<1>2. /\ mail[i].state = "pending" /\ stopped' = stopped
      /\ \A u \in Tasks \ {t} : sent'[u] = sent[u] /\ awaits'[u] = awaits[u]
  BY ClaimFacts, ZenonT(30)
<1>3. KeepsMail(Leased(mail) \union {i})
  BY <1>1, <1>2, ClaimMail
<1>4. \A j \in DOMAIN mail \ D : Sifted(i, j, mail'[j], gone)
  BY <1>1 DEF ClaimEnds
<1>5. \A u \in Tasks \ (gone \union {t}) :
        /\ taskState'[u] = taskState[u] /\ sent'[u] = sent[u]
        /\ callState[u] \in Waiting => callState'[u] = callState[u]
  BY <1>1, <1>2 DEF ClaimEnds
<1>6. Over(gone) /\ Leased(mail) \ D \subseteq Leased(mail) \union {i}
  BY <1>1 DEF ClaimEnds
<1>7. \A u \in Tasks : stopped[u] => stopped'[u]
  BY <1>2
<1> HIDE DEF D
<1>8. About(gone, {t}, D)
  BY <1>2, <1>3, <1>4, <1>5, <1>6, <1>7, AboutEnds
<1> QED
  BY <1>1, <1>3, <1>8 DEF D

\* What finishDelivery makes of its live task t and of the delivery k: the task
\* ends, sleeps on, is to be delivered again, or goes on.
Outcome(t, k) ==
  \/ ~Live(t)' /\ awaits'[t] = awaits[t]
  \/ taskState[t] = "waiting" /\ taskState'[t] = "waiting" /\ awaits'[t] = awaits[t]
  \/ /\ taskState'[t] = "queued" /\ awaits'[t] = awaits[t]
     /\ mail'[k].state = "pending" /\ (mail'[k].due = mail[k].due \/ Unasked(t)')
  \/ /\ taskState'[t] = "queued" /\ awaits'[t] = NoTask /\ Unasked(t)'
     /\ \E j \in Pending(mail', t) : mail'[j].kind # "progress"

\* finishDelivery is about the task and the delivery of its activation.
LEMMA FinishAbout ==
  ASSUME TypeInv, LeaseInv, NEW a \in Agents, NEW t \in Tasks, Finish(a, t)
  PROVE  /\ activation[a].mail \in Leased(mail) /\ mail[activation[a].mail].task = t
         /\ activation[a].task = t /\ activation' = [activation EXCEPT ![a] = Idle]
         /\ KeepsMail(Leased(mail) \ {activation[a].mail})
         /\ LET k == activation[a].mail IN mail'[k].applied = mail[k].applied /\ mail'[k].copies = mail[k].copies
         /\ Outcome(t, activation[a].mail)
         /\ \E gone \in SUBSET Tasks : About(gone, {t}, {activation[a].mail})
<1> DEFINE k == activation[a].mail
<1>0. TypeOK /\ taskState \in [Tasks -> TaskStates] /\ callState \in [Tasks -> CallStates]
  BY TypeFacts DEF TypeInv
<1>1. Finishing(a, t)
  BY DEF Finish, FinishStale, FinishPreserved, FinishRetry, FinishWaiting, FinishContinue, FinishTask
<1>2. /\ k \in Leased(mail) /\ mail[k].task = t /\ activation[a].task = t /\ activation' = [activation EXCEPT ![a] = Idle]
      /\ k \in DOMAIN mail /\ mail[k] \in Deliveries /\ mail[k].state = "leased"
      /\ Live(t) => activation[a].turn = turn[t]
  BY <1>1, LeaseFacts, MailFacts DEF Finishing, Leased
<1>3. /\ KeepsMail(Leased(mail) \ {k})
      /\ mail'[k].applied = mail[k].applied /\ mail'[k].copies = mail[k].copies
  BY <1>2, FinishMail
<1>4. /\ \A u \in Tasks \ {t} : sent'[u] = sent[u] /\ awaits'[u] = awaits[u]
      /\ stopped' = stopped /\ \A u \in Tasks : stopped[u] => stopped'[u]
  BY FinishTasks
<1>5. ASSUME \A j \in DOMAIN mail \ {k} : mail'[j] = mail[j],
             \A u \in Tasks \ {t} : taskState'[u] = taskState[u] /\ callState'[u] = callState[u],
             Live(t) => taskState'[t] \in LiveStates
      PROVE  About({}, {t}, {k})
  <2>1. \A j \in DOMAIN mail \ {k} : Fate(j, {})
    BY <1>5 DEF Fate
  <2>2. \A u \in Tasks \ ({} \union {t}) : Idles(u)
    BY <1>4, <1>5 DEF Idles, Unasked
  <2>3. \E S : KeepsMail(S) /\ Leased(mail) \ {k} \subseteq S
    BY <1>3
  <2>4. \A u \in Tasks : Live(u) => Live(u)'
    BY <1>5 DEF Live
  <2> HIDE DEF k
  <2> QED
    BY <1>4, <2>1, <2>2, <2>3, <2>4 DEF About, Told
<1>6. CASE FinishStale(a, t)
  <2>1. UNCHANGED <<taskState, callState>> /\ Hands(a, "dead")
    BY <1>0, <1>6, FinishStaleStep
  <2>2. ~Live(t) /\ awaits' = awaits
    BY <1>2, <1>6 DEF FinishStale, Stale, taskVars
  <2>3. About({}, {t}, {k})
    BY <1>5, <2>1, <2>2 DEF Hands
  <2>4. Outcome(t, k)
    BY <2>1, <2>2 DEF Outcome, Live
  <2> QED
    BY <1>2, <1>3, <2>3, <2>4
<1>7. CASE FinishPreserved(a, t)
  <2>1. callState' = callState /\ taskState' = [taskState EXCEPT ![t] = IF @ = "waiting" THEN @ ELSE "queued"] /\ Hands(a, "pending")
    BY <1>0, <1>7, FinishPreservedStep
  <2>2. awaits' = awaits
    BY <1>7 DEF FinishPreserved, taskVars
  <2>3. About({}, {t}, {k})
    BY <1>0, <1>5, <2>1 DEF Hands, LiveStates
  <2>4. mail'[k] = [mail[k] EXCEPT !.state = "pending"]
    BY <1>2, <2>1 DEF Hands
  <2>5. mail'[k].state = "pending" /\ mail'[k].due = mail[k].due
    BY <1>2, <2>4, Edits
  <2>6. Outcome(t, k)
    BY <1>0, <2>1, <2>2, <2>5 DEF Outcome
  <2> QED
    BY <1>2, <1>3, <2>3, <2>6
<1>8. CASE FinishRetry(a, t)
  <2>1. /\ taskState' = [taskState EXCEPT ![t] = "queued"] /\ callState' = [callState EXCEPT ![t] = "awaiting_worker"]
        /\ \A j \in DOMAIN mail : mail'[j] = IF j = k THEN [mail[j] EXCEPT !.state = "pending", !.due = FALSE] ELSE mail[j]
    BY <1>0, <1>8, FinishRetryStep
  <2>2. awaits' = awaits /\ sent' = sent /\ sent[t] = 0
    BY <1>8 DEF FinishRetry, taskVars, Retried
  <2>3. About({}, {t}, {k})
    BY <1>0, <1>5, <2>1 DEF LiveStates
  <2>4. mail'[k] = [mail[k] EXCEPT !.state = "pending", !.due = FALSE]
    BY <1>2, <2>1
  <2>5. mail'[k].state = "pending"
    BY <1>2, <2>4, Edits
  <2>6. Outcome(t, k)
    BY <1>0, <2>1, <2>2, <2>5 DEF Outcome, Unasked
  <2> QED
    BY <1>2, <1>3, <2>3, <2>6
<1>9. CASE FinishWaiting(a, t)
  <2>1. UNCHANGED <<taskState, callState>> /\ Hands(a, "acked")
    BY <1>0, <1>9, FinishWaitingStep
  <2>2. awaits' = awaits /\ taskState[t] = "waiting"
    BY <1>9 DEF FinishWaiting, taskVars
  <2>3. About({}, {t}, {k})
    BY <1>5, <2>1, <2>2 DEF Hands, LiveStates
  <2>4. Outcome(t, k)
    BY <2>1, <2>2 DEF Outcome
  <2> QED
    BY <1>2, <1>3, <2>3, <2>4
<1>10. CASE FinishContinue(a, t)
  <2>1. /\ taskState' = [taskState EXCEPT ![t] = "queued"] /\ callState' = [callState EXCEPT ![t] = "awaiting_worker"]
        /\ Hands(a, "acked")
        /\ \/ ~NeedsContinuation(t) /\ DOMAIN mail' = DOMAIN mail
           \/ /\ NeedsContinuation(t) /\ RoomFor(GoalOf[t])
              /\ DOMAIN mail' = DOMAIN mail \union {Len(mail) + 1} /\ Len(mail) + 1 \notin DOMAIN mail
              /\ mail'[Len(mail) + 1] = Event(t, "continue", NoTask)
    BY <1>0, <1>10, FinishContinueStep
  <2>2. awaits'[t] = NoTask /\ sent'[t] = 0
    BY <1>10, TypeFacts DEF FinishContinue, Prepares
  <2>3. About({}, {t}, {k})
    BY <1>0, <1>5, <2>1 DEF Hands, LiveStates
  <2>4. \E j \in Pending(mail', t) : mail'[j].kind # "progress"
    <3>1. CASE ~NeedsContinuation(t)
      <4>1. PICK j \in Pending(mail, t) : mail[j].kind # "progress"
        BY <3>1 DEF NeedsContinuation
      <4>2. j # k /\ j \in DOMAIN mail
        BY <1>2, <4>1 DEF Pending
      <4>3. mail'[j] = mail[j] /\ j \in DOMAIN mail'
        BY <2>1, <4>2 DEF Hands
      <4> QED
        BY <4>1, <4>3 DEF Pending
    <3>2. CASE NeedsContinuation(t)
      <4>1. Len(mail) + 1 \in DOMAIN mail' /\ mail'[Len(mail) + 1] = Event(t, "continue", NoTask)
        BY <2>1, <3>2
      <4> QED
        BY <4>1 DEF Event, Pending
    <3> QED
      BY <3>1, <3>2
  <2>5. Outcome(t, k)
    BY <1>0, <2>1, <2>2, <2>4 DEF Outcome, Unasked
  <2> QED
    BY <1>2, <1>3, <2>3, <2>5
<1>11. CASE FinishTask(a, t)
  <2>1. PICK gone \in SUBSET Tasks :
          /\ t \in gone /\ Over(gone) /\ Kept(gone) /\ SystemEnds(gone, systemState, systemState', mail')
          /\ \A u \in Tasks : taskState'[u] = IF u = t THEN Verdict(a, t) ELSE IF u \in gone THEN "rejected" ELSE taskState[u]
          /\ \A j \in DOMAIN mail :
               IF j = k THEN mail'[j] = [mail[j] EXCEPT !.state = IF activation[a].stage = "done" THEN "acked" ELSE "dead"]
               ELSE Old(mail[j], mail'[j], gone)
    BY <1>0, <1>11, FinishTaskStep
  <2>2. ~Live(t)' /\ awaits' = awaits
    BY <1>11, <2>1 DEF FinishTask, taskVars, Over
  <2>3. \A u \in Tasks \ (gone \union {t}) :
          /\ taskState'[u] = taskState[u] /\ sent'[u] = sent[u]
          /\ callState[u] \in Waiting => callState'[u] = callState[u]
    BY <1>4, <2>1 DEF Kept
  <2>4. \A j \in DOMAIN mail \ {k} : Old(mail[j], mail'[j], gone)
    BY <2>1
  <2>5. About(gone, {t}, {k})
    <3> HIDE DEF k
    <3> QED
      BY <1>3, <1>4, <2>1, <2>3, <2>4, AboutEnds
  <2>6. Outcome(t, k)
    BY <2>2 DEF Outcome
  <2> QED
    BY <1>2, <1>3, <2>5, <2>6
<1> QED
  BY <1>6, <1>7, <1>8, <1>9, <1>10, <1>11 DEF Finish

\* A restart is about the tasks that ran, which are queued again, and the leases,
\* which go back to their mailboxes unless their task has fallen asleep.
LEMMA RecoverAbout ==
  ASSUME TypeInv, LeaseInv, Recovers
  PROVE  /\ KeepsMail({}) /\ activation' = [a \in Agents |-> Idle]
         /\ \A j \in DOMAIN mail : mail'[j].applied = mail[j].applied /\ mail'[j].copies = mail[j].copies
                                   /\ mail'[j].due = mail[j].due
         /\ \E gone \in SUBSET Tasks :
              /\ About(gone, {t \in Tasks : taskState[t] = "running"}, Leased(mail))
              /\ \A t \in Tasks \ gone : taskState[t] = "running" => taskState'[t] = "queued" /\ awaits'[t] = awaits[t]
              /\ \A j \in Leased(mail) : /\ mail[j].task \notin gone /\ taskState[mail[j].task] # "waiting"
                                         => mail'[j].state = "pending"
         /\ awaits' = awaits /\ \A t \in Tasks : taskState'[t] # "running"
<1> DEFINE T == {t \in Tasks : taskState[t] = "running"}
<1>0. TypeOK
  BY DEF TypeInv
<1>1. PICK gone \in SUBSET Tasks :
        /\ Over(gone) /\ Kept(gone)
        /\ \A t \in Tasks : IF t \in gone THEN taskState'[t] \in {"failed", "rejected"}
                            ELSE taskState'[t] = IF taskState[t] = "running" THEN "queued" ELSE taskState[t]
        /\ Leased(mail') = {}
        /\ \A j \in DOMAIN mail : Old(Returned(j), mail'[j], gone)
  BY <1>0, RecoverStep DEF Recovers
<1>2. /\ KeepsMail({})
      /\ \A j \in DOMAIN mail : mail'[j].applied = mail[j].applied /\ mail'[j].copies = mail[j].copies
                                /\ mail'[j].due = mail[j].due
  BY <1>1, RecoverMail
<1>3. /\ UNCHANGED <<awaits, sent, stopped>> /\ activation' = [a \in Agents |-> Idle]
  BY DEF Recovers, Recover
<1>4. ASSUME NEW j \in DOMAIN mail, mail[j].state \in {"pending", "leased"}, mail[j].task \notin gone,
             mail[j].state = "leased" => taskState[mail[j].task] # "waiting",
             mail[j].applied => taskState[mail[j].task] # "waiting"
      PROVE  mail'[j].state = "pending"
  <2>1. Returned(j).task = mail[j].task /\ Returned(j).state = "pending"
    BY <1>0, <1>4, ReturnedDelivery
  <2> QED
    BY <1>1, <1>4, <2>1 DEF Old
<1>5. \A j \in DOMAIN mail \ Leased(mail) : Fate(j, gone)
  BY <1>2, <1>4 DEF Fate, Leased
<1>6. \A t \in Tasks \ (gone \union T) : Idles(t)
  BY <1>1, <1>3 DEF Idles, Unasked, Kept, Waiting
<1>7. /\ \A t \in gone : t \in Tasks /\ Live(t) /\ ~Live(t)'
      /\ \A t \in Tasks : Live(t) /\ t \notin gone => Live(t)'
  BY <1>1 DEF Over
<1>8. About(gone, T, Leased(mail))
  <2>1. \E S : KeepsMail(S) /\ Leased(mail) \ Leased(mail) \subseteq S
    BY <1>2
  <2> HIDE DEF T
  <2> QED
    BY <1>1, <1>3, <1>5, <1>6, <1>7, <2>1, PostedTold DEF About
<1>9. \A j \in Leased(mail) : mail[j].task \notin gone /\ taskState[mail[j].task] # "waiting" => mail'[j].state = "pending"
  BY <1>4 DEF Leased
<1> QED
  BY <1>1, <1>2, <1>3, <1>8, <1>9

\* Every step is calm, a claim, the end of an activation, or a restart.
LEMMA MailKinds ==
  ASSUME TypeInv, LeaseInv, [Next]_vars
  PROVE  \/ \E gone, T \in SUBSET Tasks : Calm(gone, T)
         \/ \E i \in DOMAIN mail : Claim(i)
         \/ \E a \in Agents, t \in Tasks : Finish(a, t)
         \/ Recovers
<1> DEFINE Quietly == \E gone, T \in SUBSET Tasks : Calm(gone, T)
<1>1. CASE Quiet
  <2>1. Calm({}, {})
    BY <1>1, CalmWork
  <2> QED
    BY <2>1
<1>2. ASSUME NEW a \in Agents, NEW t \in Tasks, Wait(a, t) \/ Progress(a, t) \/ FinishFails(a, t) PROVE Quietly
  <2>1. Calm({}, {}) \/ Calm({}, {t})
    BY <1>2, CalmWork
  <2> QED
    BY <2>1
<1>3. ASSUME NEW a \in Agents, NEW t \in Tasks, NEW c \in Tasks, Delegate(a, t, c) PROVE Quietly
  <2>1. Calm({}, {t, c})
    BY <1>3, CalmWork
  <2> QED
    BY <2>1
<1>4. ASSUME NEW t \in Tasks, Start(t) \/ AddInput(t) PROVE Quietly
  <2>1. Calm({}, {}) \/ Calm({}, {t})
    BY <1>4, CalmWork
  <2> QED
    BY <2>1
<1>5. CASE ClaimNone \/ (\E i \in DOMAIN mail : BackoffEnds(i)) \/ Stops
  BY <1>5, CalmEnds
<1> QED
  BY <1>1, <1>2, <1>3, <1>4, <1>5, LoudKinds

-----------------------------------------------------------------------------
(* Nothing is read twice *)

\* A worker's task is not queued.
Working ==
  \A a \in Agents : activation[a].stage # "idle" /\ Live(activation[a].task) => taskState[activation[a].task] # "queued"

\* A task that runs has its lease.
Held(t) == taskState[t] = "running" => \E j \in Leased(mail) : mail[j].task = t

\* A leased delivery was due and is applied, and it is no notice.
Marked == \A j \in Leased(mail) : mail[j].applied /\ mail[j].kind # "progress" /\ mail[j].due

\* Deliveries are applied in order: before one that is to come again there is no
\* input that its task has not read.
InOrder ==
  \A i \in Outstanding(mail) : mail[i].applied =>
    \A j \in DOMAIN mail : j < i /\ mail[j].state = "pending" /\ mail[j].task = mail[i].task /\ mail[j].kind = "input"
                           => mail[j].applied

\* A queued task whose next call was asked before waits for the delivery it was
\* asked with.
Again(t) ==
  taskState[t] = "queued" /\ ~Unasked(t) =>
    \E j \in Pending(mail, t) : mail[j].applied /\ mail[j].due /\ mail[j].kind # "progress"

ReadInv == Working /\ Marked /\ InOrder /\ ReadOnce /\ \A t \in Tasks : Held(t) /\ Again(t)

\* A pending delivery that the step is not about stays, or it is a result that
\* its task does not wait for.
LEMMA StaysPending ==
  ASSUME NEW gone, NEW T, NEW D, About(gone, T, D), NEW t \in Tasks, t \notin gone, Live(t),
         NEW j \in Pending(mail, t), j \notin D, mail[j].kind # "progress", mail[j].applied => taskState[t] # "waiting"
  PROVE  /\ mail'[j].kind = mail[j].kind /\ mail'[j].from = mail[j].from /\ mail'[j].applied = mail[j].applied
         /\ mail[j].due => mail'[j].due
         /\ \/ j \in Pending(mail', t)
            \/ mail[j].kind = "result" /\ ~mail[j].applied /\ TurnedAway(t)'
<1>1. j \in DOMAIN mail /\ mail[j].state = "pending" /\ mail[j].task = t
  BY DEF Pending
<1>2. Fate(j, gone) /\ j \in DOMAIN mail' /\ Same(mail[j], mail'[j])
  BY <1>1 DEF About, KeepsMail
<1>3. mail'[j].kind = mail[j].kind /\ mail'[j].from = mail[j].from /\ mail'[j].task = t
  BY <1>1, <1>2 DEF Same
<1>4. \/ mail'[j].state = "pending"
      \/ mail[j].kind = "result" /\ ~mail[j].applied /\ mail'[j].state = "dead" /\ ~mail'[j].applied
  BY <1>1, <1>2 DEF Fate
<1>5. mail'[j].applied = mail[j].applied /\ (mail[j].due => mail'[j].due)
  BY <1>2 DEF Fate
<1>6. CASE mail'[j].state = "pending"
  BY <1>2, <1>3, <1>5, <1>6 DEF Pending
<1>7. CASE mail[j].kind = "result" /\ ~mail[j].applied /\ mail'[j].state = "dead" /\ ~mail'[j].applied
  BY <1>2, <1>3, <1>5, <1>7 DEF TurnedAway
<1> QED
  BY <1>4, <1>6, <1>7

\* A queued task that the step is not about keeps its delivery.
LEMMA AgainStays ==
  ASSUME Working, NEW gone, NEW T, NEW D, About(gone, T, D), NEW t \in Tasks \ T, Again(t),
         \A j \in D : mail[j].state = "pending" => mail[j].task # t
  PROVE  Again(t)'
<1> SUFFICES ASSUME taskState'[t] = "queued", ~Unasked(t)'
             PROVE  \E j \in Pending(mail', t) : mail'[j].applied /\ mail'[j].due /\ mail'[j].kind # "progress"
  BY DEF Again
<1>1. t \notin gone
  BY DEF About, Live, LiveStates
<1>2. Idles(t)
  BY <1>1 DEF About
<1>3. taskState[t] = "queued" /\ Live(t)
  BY <1>2 DEF Idles, Live, LiveStates
<1>4. ~Unasked(t)
  BY <1>2, <1>3 DEF Idles, Worked, Working
<1>5. PICK j \in Pending(mail, t) : mail[j].applied /\ mail[j].due /\ mail[j].kind # "progress"
  BY <1>3, <1>4 DEF Again
<1>6. j \notin D
  BY <1>5 DEF Pending
<1>7. j \in Pending(mail', t) /\ mail'[j].applied /\ mail'[j].due /\ mail'[j].kind # "progress"
  BY <1>1, <1>3, <1>5, <1>6, StaysPending
<1> QED
  BY <1>7

\* A running task that the step is not about keeps its lease.
LEMMA HeldStays ==
  ASSUME NEW gone, NEW T, NEW D, About(gone, T, D), NEW t \in Tasks \ T, Held(t),
         \A j \in D : mail[j].state = "leased" => mail[j].task # t
  PROVE  Held(t)'
<1> SUFFICES ASSUME taskState'[t] = "running" PROVE \E j \in Leased(mail') : mail'[j].task = t
  BY DEF Held
<1>1. t \notin gone
  BY DEF About, Live, LiveStates
<1>2. taskState[t] = "running"
  BY <1>1 DEF About, Idles
<1>3. PICK j \in Leased(mail) : mail[j].task = t
  BY <1>2 DEF Held
<1>4. j \notin D /\ j \in DOMAIN mail
  BY <1>3 DEF Leased
<1>5. j \in Leased(mail') /\ Same(mail[j], mail'[j])
  BY <1>4 DEF About, KeepsMail
<1> QED
  BY <1>3, <1>5 DEF Same

\* Deliveries that the step is not about stay read or unread, and marked.
LEMMA MarksStay ==
  ASSUME TypeInv, Marked, ReadOnce, NEW gone, NEW T, NEW D, About(gone, T, D),
         \A j \in D : /\ mail'[j].state = "leased" => mail'[j].applied /\ mail'[j].kind # "progress" /\ mail'[j].due
                      /\ mail'[j].kind \in {"input", "result"} => mail'[j].copies = IF mail'[j].applied THEN 1 ELSE 0,
         \A j \in DOMAIN mail \ D : mail'[j].state = "leased" => mail[j].state = "leased"
  PROVE  Marked' /\ ReadOnce'
<1>1. /\ DOMAIN mail \subseteq DOMAIN mail' /\ \A j \in DOMAIN mail : Same(mail[j], mail'[j])
      /\ \A j \in DOMAIN mail' \ DOMAIN mail :
           mail'[j].state = "pending" /\ ~mail'[j].applied /\ mail'[j].copies = 0
  BY DEF About, KeepsMail
<1>2. \A j \in DOMAIN mail \ D : Fate(j, gone)
  BY DEF About
<1>3. ASSUME NEW j \in DOMAIN mail', mail'[j].state = "leased"
      PROVE  mail'[j].applied /\ mail'[j].kind # "progress" /\ mail'[j].due
  <2>1. j \in DOMAIN mail
    BY <1>1, <1>3
  <2>2. CASE j \notin D
    <3>1. mail[j].applied /\ mail[j].kind # "progress" /\ mail[j].due
      BY <1>3, <2>1, <2>2 DEF Marked, Leased
    <3> QED
      BY <1>1, <1>2, <2>1, <2>2, <3>1 DEF Same, Fate
  <2> QED
    BY <1>3, <2>2
<1>4. ASSUME NEW j \in DOMAIN mail', mail'[j].kind \in {"input", "result"}
      PROVE  mail'[j].copies = IF mail'[j].applied THEN 1 ELSE 0
  <2>1. CASE j \notin DOMAIN mail
    BY <1>1, <2>1
  <2>2. CASE j \in D
    BY <1>4, <2>2
  <2>3. CASE j \in DOMAIN mail \ D
    <3>1. mail[j].kind \in {"input", "result"} /\ mail[j].kind # "progress"
      BY <1>1, <1>4, <2>3 DEF Same
    <3>2. mail'[j].copies = mail[j].copies /\ mail'[j].applied = mail[j].applied
      BY <1>2, <2>3, <3>1 DEF Fate
    <3> QED
      BY <2>3, <3>1, <3>2 DEF ReadOnce
  <2> QED
    BY <2>1, <2>2, <2>3
<1> QED
  BY <1>3, <1>4 DEF Marked, ReadOnce, Leased

\* The order stays, unless a delivery is applied that waited.
LEMMA OrderStays ==
  ASSUME TypeInv, TypeInv', Marked, InOrder, NEW gone, NEW T, NEW D, About(gone, T, D), D \subseteq Leased(mail),
         \A j \in D : mail'[j].applied = mail[j].applied,
         \A j \in DOMAIN mail \ D : mail'[j].state = "leased" <=> mail[j].state = "leased"
  PROVE  InOrder'
<1> SUFFICES ASSUME NEW i \in Outstanding(mail'), mail'[i].applied, NEW j \in DOMAIN mail', j < i,
                    mail'[j].state = "pending", mail'[j].task = mail'[i].task, mail'[j].kind = "input"
             PROVE  mail'[j].applied
  BY DEF InOrder
<1>1. /\ DOMAIN mail \subseteq DOMAIN mail' /\ \A k \in DOMAIN mail : Same(mail[k], mail'[k])
      /\ \A k \in DOMAIN mail' \ DOMAIN mail : ~mail'[k].applied
  BY DEF About, KeepsMail
<1>2. \A k \in DOMAIN mail \ D : Fate(k, gone)
  BY DEF About
<1>3. /\ DOMAIN mail = 1..Len(mail) /\ Len(mail) \in Nat
      /\ \A k \in DOMAIN mail' : k \in Nat /\ k >= 1
  <2>1. mail' \in Seq(Deliveries)
    BY DEF TypeInv, TypeOK, Deliveries
  <2> QED
    BY <2>1, MailFacts
<1>4. i \in DOMAIN mail /\ mail'[i].state \in {"pending", "leased"}
  BY <1>1 DEF Outstanding
<1>5. mail[i].applied /\ mail[i].state \in {"pending", "leased"}
  <2>1. CASE i \in D
    BY <2>1 DEF Leased
  <2>2. CASE i \notin D
    <3>1. mail[i].applied
      BY <1>2, <1>4, <2>2 DEF Fate
    <3>2. mail[i] \in Deliveries
      BY <1>4, MailFacts
    <3>3. mail[i].state \in {"pending", "leased", "acked", "dead"}
      BY <3>2 DEF Deliveries
    <3>4. mail[i].state \in {"acked", "dead"} => mail'[i].state = mail[i].state
      BY <1>1, <1>4 DEF Same
    <3> QED
      BY <1>4, <3>1, <3>3, <3>4
  <2> QED
    BY <2>1, <2>2
<1>6. j \in DOMAIN mail
  BY <1>3, <1>4
<1>7. mail[j].task = mail[i].task /\ mail[j].kind = "input"
  BY <1>1, <1>4, <1>6 DEF Same
<1>8. CASE j \in D
  <2>1. mail[j].applied
    BY <1>8 DEF Marked
  <2> QED
    BY <1>1, <1>6, <2>1 DEF Same
<1>9. CASE j \notin D
  <2>1. mail[j] \in Deliveries
    BY <1>6, MailFacts
  <2>2. mail[j].state \in {"pending", "leased", "acked", "dead"}
    BY <2>1 DEF Deliveries
  <2>3. mail[j].state = "pending"
    BY <1>1, <1>6, <1>9, <2>2 DEF Same
  <2>4. i \in Outstanding(mail)
    BY <1>4, <1>5 DEF Outstanding
  <2>5. mail[j].applied
    BY <1>5, <1>6, <1>7, <2>3, <2>4 DEF InOrder
  <2> QED
    BY <1>1, <1>6, <2>5 DEF Same
<1> QED
  BY <1>8, <1>9

\* A calm step keeps the reading order.
LEMMA ReadCalm ==
  ASSUME TypeInv, TypeInv', LeaseInv, ReadInv, NEW gone \in SUBSET Tasks, NEW T \in SUBSET Tasks, Calm(gone, T)
  PROVE  ReadInv'
<1>1. /\ About(gone, T, {}) /\ KeepsMail(Leased(mail)) /\ NoNewWorkers
      /\ \A t \in T : t \notin gone /\ (Sleeps(t) \/ Begins(t))
  BY DEF Calm
<1>2. /\ Working /\ Marked /\ InOrder /\ ReadOnce /\ \A t \in Tasks : Held(t) /\ Again(t)
  BY DEF ReadInv
<1>3. \A j \in DOMAIN mail : mail'[j].state = "leased" <=> mail[j].state = "leased"
  BY <1>1 DEF KeepsMail, Leased
<1>4. Marked' /\ ReadOnce'
  BY <1>1, <1>2, <1>3, MarksStay
<1>5. InOrder'
  BY <1>1, <1>2, <1>3, OrderStays
<1>6. ASSUME NEW t \in Tasks PROVE Held(t)' /\ Again(t)'
  <2>1. CASE t \in T
    <3>1. Sleeps(t) \/ Begins(t)
      BY <1>1, <2>1
    <3>2. CASE Sleeps(t)
      BY <3>2 DEF Sleeps, Held, Again
    <3>3. CASE Begins(t)
      BY <3>3 DEF Begins, Held, Again, Unasked
    <3> QED
      BY <3>1, <3>2, <3>3
  <2>2. CASE t \notin T
    <3>1. Again(t)'
      BY <1>1, <1>2, <2>2, AgainStays
    <3>2. Held(t)'
      BY <1>1, <1>2, <2>2, HeldStays
    <3> QED
      BY <3>1, <3>2
  <2> QED
    BY <2>1, <2>2
<1>7. Working'
  <2> SUFFICES ASSUME NEW a \in Agents, activation'[a].stage # "idle", Live(activation[a].task)'
               PROVE  taskState'[activation'[a].task] # "queued"
    BY DEF Working
  <2>1. PICK t \in Tasks : activation[a].stage # "idle" /\ activation[a].task = t /\ activation'[a].task = t /\ taskState[t] # "none"
    BY <1>1, LeaseFacts DEF NoNewWorkers
  <2>2. taskState'[t] \in LiveStates /\ t \notin gone
    BY <1>1, <2>1 DEF Live, About
  <2>3. CASE t \in T
    BY <1>1, <2>1, <2>3 DEF Sleeps, Begins
  <2>4. CASE t \notin T
    <3>1. taskState'[t] = taskState[t]
      BY <1>1, <2>2, <2>4 DEF About, Idles
    <3>2. Live(t)
      BY <2>2, <3>1 DEF Live
    <3>3. taskState[t] # "queued"
      BY <1>2, <2>1, <3>2 DEF Working
    <3> QED
      BY <2>1, <3>1, <3>3
  <2> QED
    BY <2>3, <2>4
<1> QED
  BY <1>4, <1>5, <1>6, <1>7 DEF ReadInv

\* The end of an activation keeps the reading order: a task that is queued again
\* waits for the delivery it had.
LEMMA ReadFinish ==
  ASSUME TypeInv, TypeInv', LeaseInv, ReadInv, NEW a \in Agents, NEW t \in Tasks, Finish(a, t)
  PROVE  ReadInv'
<1> DEFINE k == activation[a].mail
<1>1. /\ k \in Leased(mail) /\ mail[k].task = t /\ activation[a].task = t
      /\ activation' = [activation EXCEPT ![a] = Idle] /\ KeepsMail(Leased(mail) \ {k})
      /\ mail'[k].applied = mail[k].applied /\ mail'[k].copies = mail[k].copies /\ Outcome(t, k)
  BY FinishAbout
<1>2. PICK gone \in SUBSET Tasks : About(gone, {t}, {k})
  BY FinishAbout
<1>3. /\ Working /\ Marked /\ InOrder /\ ReadOnce /\ \A u \in Tasks : Held(u) /\ Again(u)
  BY DEF ReadInv
<1>4. /\ mail[k].state = "leased" /\ mail[k].applied /\ mail[k].due /\ mail[k].kind # "progress" /\ k \in DOMAIN mail
  BY <1>1, <1>3 DEF Marked, Leased
<1>5. /\ \A j \in DOMAIN mail \ {k} : mail'[j].state = "leased" <=> mail[j].state = "leased"
      /\ mail'[k].state # "leased" /\ Same(mail[k], mail'[k]) /\ k \in DOMAIN mail'
  BY <1>1, <1>4 DEF KeepsMail, Leased
<1>0. activation \in [Agents -> Slots]
  BY TypeFacts
<1> HIDE DEF k
<1>6. \A j \in {k} : /\ mail'[j].state = "leased" => mail'[j].applied /\ mail'[j].kind # "progress" /\ mail'[j].due
                     /\ mail'[j].kind \in {"input", "result"} => mail'[j].copies = IF mail'[j].applied THEN 1 ELSE 0
  BY <1>1, <1>3, <1>4, <1>5 DEF Same, ReadOnce
<1>7. Marked' /\ ReadOnce'
  BY <1>2, <1>3, <1>5, <1>6, MarksStay
<1>8. InOrder'
  <2>1. {k} \subseteq Leased(mail) /\ \A j \in {k} : mail'[j].applied = mail[j].applied
    BY <1>1
  <2> QED
    BY <1>2, <1>3, <1>5, <2>1, OrderStays
<1>9. Held(t)' /\ Again(t)'
  <2>1. taskState'[t] # "running"
    BY <1>1 DEF Outcome, Live, LiveStates
  <2>2. ASSUME taskState'[t] = "queued", ~Unasked(t)' PROVE \E j \in Pending(mail', t) : mail'[j].applied /\ mail'[j].due /\ mail'[j].kind # "progress"
    <3>1. mail'[k].state = "pending" /\ mail'[k].due = mail[k].due
      BY <1>1, <2>2 DEF Outcome, Live, LiveStates
    <3>2. k \in Pending(mail', t)
      BY <1>1, <1>5, <3>1 DEF Pending, Same
    <3> QED
      BY <1>1, <1>4, <1>5, <3>1, <3>2 DEF Same
  <2> QED
    BY <2>1, <2>2 DEF Held, Again
<1>10. ASSUME NEW u \in Tasks \ {t} PROVE Held(u)' /\ Again(u)'
  <2>1. \A j \in {k} : mail[j].task # u
    BY <1>1
  <2>2. Again(u)'
    BY <1>2, <1>3, <2>1, AgainStays
  <2>3. Held(u)'
    BY <1>2, <1>3, <2>1, HeldStays
  <2> QED
    BY <2>2, <2>3
<1>11. Working'
  <2> SUFFICES ASSUME NEW b \in Agents, activation'[b].stage # "idle", Live(activation[b].task)'
               PROVE  taskState'[activation'[b].task] # "queued"
    BY DEF Working
  <2>1. b # a /\ activation'[b] = activation[b]
    BY <1>0, <1>1 DEF Idle
  <2>2. PICK u \in Tasks : activation[b].stage # "idle" /\ activation[b].task = u /\ activation'[b].task = u /\ AgentOf[u] = b
    BY <2>1, LeaseFacts
  <2>3. u # t
    <3>1. activation[a].stage # "idle"
      BY DEF Finish, FinishStale, FinishPreserved, FinishRetry, FinishWaiting, FinishContinue, FinishTask, Finishing
    <3>2. AgentOf[t] = a
      BY <1>1, <3>1, LeaseFacts
    <3> QED
      BY <2>1, <2>2, <3>2
  <2>4. taskState'[u] \in LiveStates /\ u \notin gone
    BY <1>2, <2>2 DEF Live, About
  <2>5. taskState'[u] = taskState[u]
    BY <1>2, <2>3, <2>4 DEF About, Idles
  <2>6. Live(u)
    BY <2>4, <2>5 DEF Live
  <2> QED
    BY <1>3, <2>2, <2>5, <2>6 DEF Working
<1> QED
  BY <1>7, <1>8, <1>9, <1>10, <1>11 DEF ReadInv

\* So does a restart: what ran is queued, and its delivery comes again.
LEMMA ReadRecovers ==
  ASSUME TypeInv, TypeInv', LeaseInv, ReadInv, Recovers
  PROVE  ReadInv'
<1> DEFINE T == {t \in Tasks : taskState[t] = "running"}
<1>1. /\ KeepsMail({}) /\ activation' = [a \in Agents |-> Idle]
      /\ \A j \in DOMAIN mail : mail'[j].applied = mail[j].applied /\ mail'[j].copies = mail[j].copies
                                /\ mail'[j].due = mail[j].due
      /\ \A t \in Tasks : taskState'[t] # "running"
  BY RecoverAbout
<1>2. PICK gone \in SUBSET Tasks :
        /\ About(gone, T, Leased(mail))
        /\ \A j \in Leased(mail) : /\ mail[j].task \notin gone /\ taskState[mail[j].task] # "waiting"
                                   => mail'[j].state = "pending"
  BY RecoverAbout
<1>3. /\ Working /\ Marked /\ InOrder /\ ReadOnce /\ \A u \in Tasks : Held(u) /\ Again(u)
  BY DEF ReadInv
<1>4. /\ \A j \in DOMAIN mail : mail'[j].state # "leased" /\ Same(mail[j], mail'[j]) /\ j \in DOMAIN mail'
      /\ \A j \in DOMAIN mail \ Leased(mail) : mail[j].state # "leased"
      /\ \A j \in Leased(mail) : j \in DOMAIN mail /\ mail[j].state = "leased"
  BY <1>1 DEF KeepsMail, Leased
<1>5. \A j \in Leased(mail) :
        /\ mail'[j].state = "leased" => mail'[j].applied /\ mail'[j].kind # "progress" /\ mail'[j].due
        /\ mail'[j].kind \in {"input", "result"} => mail'[j].copies = IF mail'[j].applied THEN 1 ELSE 0
  BY <1>1, <1>3, <1>4 DEF Same, ReadOnce
<1>6. Marked' /\ ReadOnce'
  <2> HIDE DEF T
  <2> QED
    BY <1>2, <1>3, <1>4, <1>5, MarksStay
<1>7. InOrder'
  <2> HIDE DEF T
  <2> QED
    BY <1>1, <1>2, <1>3, <1>4, OrderStays
<1>8. ASSUME NEW t \in T PROVE Again(t)'
  <2> SUFFICES ASSUME taskState'[t] = "queued"
               PROVE  \E j \in Pending(mail', t) : mail'[j].applied /\ mail'[j].due /\ mail'[j].kind # "progress"
    BY DEF Again
  <2>1. PICK j \in Leased(mail) : mail[j].task = t
    BY <1>3 DEF Held
  <2>2. t \notin gone
    BY <1>2 DEF About, Live, LiveStates
  <2>3. mail'[j].state = "pending"
    BY <1>2, <2>1, <2>2
  <2>4. mail'[j].applied /\ mail'[j].due /\ mail'[j].kind # "progress" /\ j \in Pending(mail', t)
    BY <1>1, <1>3, <1>4, <2>1, <2>3 DEF Marked, Same, Pending
  <2> QED
    BY <2>4
<1>9. ASSUME NEW t \in Tasks \ T PROVE Again(t)'
  <2>1. \A j \in Leased(mail) : mail[j].state = "pending" => mail[j].task # t
    BY <1>4
  <2> HIDE DEF T
  <2> QED
    BY <1>2, <1>3, <2>1, AgainStays
<1>10. \A t \in Tasks : Held(t)'
  BY <1>1 DEF Held
<1>11. Working'
  BY <1>1 DEF Working, Idle
<1> QED
  BY <1>6, <1>7, <1>8, <1>9, <1>10, <1>11 DEF ReadInv

\* If a claim does not gather the inputs for an unread delivery i, that is no
\* input, and a later delivery of the task, applied before, is to come again.
LEMMA AskedBefore ==
  ASSUME TypeInv, LeaseInv, ReadInv, NEW i \in DOMAIN mail, NEW t \in Tasks, t = mail[i].task, Claim(i),
         NEW gone \in SUBSET Tasks, ClaimEnds(i, t, gone), ~Gathers(i), ~mail[i].applied
  PROVE  mail[i].kind # "input" /\ \E j \in Outstanding(mail) : mail[j].applied /\ mail[j].task = t /\ i < j
<1>1. /\ TypeOK /\ i \in Candidates /\ ~Doomed(i) /\ Runnable(i) /\ mail[i].state = "pending" /\ mail[i].kind # "progress" /\ Live(t)
      /\ \A j \in Leased(mail) : AgentOf[mail[j].task] # AgentOf[t]
  BY ClaimFacts DEF Deliverable
<1>2. i \in Nat /\ \A j \in DOMAIN mail : j \in Nat
  BY MailFacts
<1>3. taskState[t] # "waiting"
  BY <1>1 DEF Gathers, Resumes, Runnable
<1>4. taskState[t] # "running"
  BY <1>1 DEF ReadInv, Held
<1>5. taskState[t] = "queued" /\ ~Unasked(t)
  BY <1>1, <1>3, <1>4 DEF Live, LiveStates, Gathers
<1>6. PICK j \in Pending(mail, t) : mail[j].applied /\ mail[j].due /\ mail[j].kind # "progress"
  BY <1>5 DEF ReadInv, Again
<1>7. j \in DOMAIN mail /\ mail[j].task = t /\ mail[j].state = "pending" /\ j \in Outstanding(mail)
  BY <1>6 DEF Pending, Outstanding
<1>8. j \in Candidates
  BY <1>1, <1>6, <1>7 DEF Candidates
<1>9. ~(j < i)
  <2> SUFFICES ASSUME j < i PROVE FALSE
    OBVIOUS
  <2>1. t \notin DOMAIN Casualties(i)
    BY DEF ClaimEnds
  <2>2. ~Doomed(j) /\ j \notin Deliverable
    BY <1>1, <1>2, <1>7, <1>8, <2>1, CasualtiesDie
  <2>3. Runnable(j)
    BY <1>1, <1>3, <1>7 DEF Runnable
  <2>4. j \notin Notices /\ j \notin Strays
    BY <1>6 DEF Notices, Strays, Stray
  <2> QED
    BY <1>8, <2>2, <2>3, <2>4 DEF Deliverable
<1>10. i < j
  BY <1>2, <1>6, <1>7, <1>9
<1>11. mail[i].kind # "input"
  BY <1>1, <1>6, <1>7, <1>10 DEF ReadInv, InOrder
<1> QED
  BY <1>6, <1>7, <1>10, <1>11

\* After a claim the inputs before an applied delivery are read.
LEMMA OrderClaim ==
  ASSUME TypeInv, TypeInv', LeaseInv, ReadInv, NEW i \in DOMAIN mail, NEW t \in Tasks, t = mail[i].task, Claim(i),
         NEW gone \in SUBSET Tasks, ClaimEnds(i, t, gone), KeepsMail(Leased(mail) \union {i}),
         About(gone, {t}, {i} \union {j \in DOMAIN mail : Read(i, j)})
  PROVE  InOrder'
<1> SUFFICES ASSUME NEW n \in Outstanding(mail'), mail'[n].applied, NEW j \in DOMAIN mail', j < n,
                    mail'[j].state = "pending", mail'[j].task = mail'[n].task, mail'[j].kind = "input"
             PROVE  mail'[j].applied
  BY DEF InOrder
<1>0. mail' \in Seq(Deliveries)
  BY DEF TypeInv, TypeOK, Deliveries
<1>1. n \in DOMAIN mail /\ j \in DOMAIN mail /\ n \in Nat /\ j \in Nat
  <2>1. n \in DOMAIN mail /\ n \in DOMAIN mail'
    BY DEF KeepsMail, Outstanding
  <2> QED
    BY <1>0, <2>1, MailFacts
<1>2. Same(mail[n], mail'[n]) /\ Same(mail[j], mail'[j]) /\ mail[n] \in Deliveries /\ mail[j] \in Deliveries
  BY <1>1, MailFacts DEF KeepsMail
<1>3. mail[j].task = mail[n].task /\ mail[j].kind = "input"
  BY <1>2 DEF Same
<1>4. n \in Outstanding(mail)
  <2>1. mail[n].state \in {"pending", "leased", "acked", "dead"}
    BY <1>2 DEF Deliveries
  <2> QED
    BY <1>1, <1>2, <2>1 DEF Outstanding, Same
<1>5. mail[j].state = "pending" /\ j # i
  <2>1. mail[j].state \in {"pending", "leased", "acked", "dead"}
    BY <1>2 DEF Deliveries
  <2>2. j \notin Leased(mail) /\ j # i
    BY DEF KeepsMail, Leased
  <2> QED
    BY <1>1, <1>2, <2>1, <2>2 DEF Leased, Same
<1>6. ~Read(i, j)
  <2> SUFFICES ASSUME Read(i, j) PROVE FALSE
    OBVIOUS
  <2>1. mail'[j] = [mail[j] EXCEPT !.state = "acked", !.applied = TRUE, !.copies = @ + 1]
    BY <1>1, <1>5 DEF ClaimEnds
  <2>2. mail'[j].state = "acked"
    BY <1>2, <2>1, Edits
  <2> QED
    BY <2>2
<1>7. CASE mail[n].applied
  <2>1. mail[j].applied
    BY <1>1, <1>3, <1>4, <1>5, <1>7 DEF ReadInv, InOrder
  <2> QED
    BY <1>2, <2>1 DEF Same
<1>8. CASE n # i /\ ~mail[n].applied
  <2>1. mail'[n].state # "acked"
    BY DEF Outstanding
  <2>2. ~Read(i, n)
    <3> SUFFICES ASSUME Read(i, n) PROVE FALSE
      OBVIOUS
    <3>1. mail'[n] = [mail[n] EXCEPT !.state = "acked", !.applied = TRUE, !.copies = @ + 1]
      BY <1>1, <1>8 DEF ClaimEnds
    <3> QED
      BY <1>2, <2>1, <3>1, Edits
  <2>3. Fate(n, gone)
    BY <1>1, <1>8, <2>2 DEF About
  <2> QED
    BY <1>8, <2>1, <2>3 DEF Fate
<1>9. CASE n = i /\ ~mail[n].applied
  <2>1. CASE Gathers(i)
    BY <1>2, <1>3, <1>5, <1>6, <1>9, <2>1 DEF Read, Same
  <2>2. CASE ~Gathers(i)
    <3>1. PICK l \in Outstanding(mail) : mail[l].applied /\ mail[l].task = t /\ i < l
      BY <1>9, <2>2, AskedBefore
    <3>2. j < l /\ l \in DOMAIN mail
      <4>1. l \in DOMAIN mail
        BY DEF Outstanding
      <4>2. l \in Nat
        BY <4>1, MailFacts
      <4> QED
        BY <1>1, <1>9, <3>1, <4>1, <4>2
    <3>3. mail[j].applied
      BY <1>1, <1>3, <1>5, <1>9, <3>1, <3>2 DEF ReadInv, InOrder
    <3> QED
      BY <1>2, <3>3 DEF Same
  <2> QED
    BY <2>1, <2>2
<1> QED
  BY <1>7, <1>8, <1>9

\* A claim keeps the reading order: what it leases unread it reads, with all
\* inputs that wait.
LEMMA ReadClaim ==
  ASSUME TypeInv, TypeInv', LeaseInv, ReadInv, NEW i \in DOMAIN mail, Claim(i)
  PROVE  ReadInv'
<1>1. PICK t \in Tasks : t = mail[i].task
  BY MailFacts
<1> DEFINE D == {i} \union {j \in DOMAIN mail : Read(i, j)}
<1>2. PICK gone \in SUBSET Tasks : ClaimEnds(i, t, gone) /\ KeepsMail(Leased(mail) \union {i}) /\ About(gone, {t}, D)
  BY <1>1, ClaimAbout
<1>3. /\ mail[i].state = "pending" /\ mail[i].due /\ mail[i].kind # "progress"
      /\ activation' = [activation EXCEPT ![AgentOf[t]] =
           [stage |-> "start", task |-> t, turn |-> turn'[t], mail |-> i, canceled |-> FALSE]]
  BY <1>1, ClaimFacts
<1>4. /\ mail'[i].applied /\ mail'[i].due = mail[i].due
      /\ mail'[i].copies = IF Takes(i) THEN mail[i].copies + 1 ELSE mail[i].copies
  BY <1>1, <1>2, <1>3, ClaimMail
<1>5. /\ Working /\ Marked /\ InOrder /\ ReadOnce /\ \A u \in Tasks : Held(u) /\ Again(u)
  BY DEF ReadInv
<1>6. InOrder'
  BY <1>1, <1>2, OrderClaim
<1>7. Same(mail[i], mail'[i]) /\ i \in Leased(mail') /\ i \in DOMAIN mail'
  BY <1>2 DEF KeepsMail
<1>8. mail'[i].kind \in {"input", "result"} => mail'[i].copies = 1
  <2> SUFFICES ASSUME mail[i].kind \in {"input", "result"} PROVE mail'[i].copies = 1
    BY <1>7 DEF Same
  <2>1. CASE mail[i].applied
    <3>1. mail[i].copies = 1 /\ ~Takes(i)
      BY <1>5, <2>1 DEF ReadOnce, Takes
    <3> QED
      BY <1>4, <3>1
  <2>2. CASE ~mail[i].applied
    <3>1. mail[i].copies = 0
      BY <1>5, <2>2 DEF ReadOnce
    <3>2. mail[i].kind = "input" => Gathers(i)
      BY <1>1, <1>2, <2>2, AskedBefore
    <3>3. Takes(i)
      BY <2>2, <3>2 DEF Takes
    <3> QED
      BY <1>4, <3>1, <3>3
  <2> QED
    BY <2>1, <2>2
<1>9. ASSUME NEW j \in DOMAIN mail, j # i, Read(i, j)
      PROVE  mail'[j].state = "acked" /\ mail'[j].applied /\ mail'[j].copies = 1
  <2>1. mail'[j] = [mail[j] EXCEPT !.state = "acked", !.applied = TRUE, !.copies = @ + 1] /\ mail[j] \in Deliveries
    BY <1>2, <1>9, MailFacts DEF ClaimEnds
  <2>2. mail[j].copies = 0
    BY <1>5, <1>9 DEF ReadOnce, Read
  <2>3. mail'[j].state = "acked" /\ mail'[j].applied /\ mail'[j].copies = mail[j].copies + 1
    BY <2>1, Edits
  <2> QED
    BY <2>2, <2>3
<1>10. \A j \in D : /\ mail'[j].state = "leased" => mail'[j].applied /\ mail'[j].kind # "progress" /\ mail'[j].due
                    /\ mail'[j].kind \in {"input", "result"} => mail'[j].copies = IF mail'[j].applied THEN 1 ELSE 0
  BY <1>3, <1>4, <1>7, <1>8, <1>9 DEF Same
<1>11. \A j \in DOMAIN mail \ D : mail'[j].state = "leased" => mail[j].state = "leased"
  BY <1>2 DEF KeepsMail, Leased
<1>12. \A j \in D : mail[j].task = t /\ mail[j].state = "pending"
  BY <1>1, <1>3 DEF Read
<1> HIDE DEF D
<1>13. Marked' /\ ReadOnce'
  BY <1>2, <1>5, <1>10, <1>11, MarksStay
<1>14. ASSUME NEW u \in Tasks \ {t} PROVE Held(u)' /\ Again(u)'
  <2>1. Again(u)'
    BY <1>2, <1>5, <1>12, AgainStays
  <2>2. Held(u)'
    BY <1>2, <1>5, <1>12, HeldStays
  <2> QED
    BY <2>1, <2>2
<1>15. taskState'[t] = "running"
  BY <1>2 DEF ClaimEnds
<1>16. Held(t)' /\ Again(t)'
  <2>1. mail'[i].task = t
    BY <1>1, <1>7 DEF Same
  <2> QED
    BY <1>7, <1>15, <2>1 DEF Held, Again
<1>17. Working'
  <2> SUFFICES ASSUME NEW b \in Agents, activation'[b].stage # "idle", Live(activation[b].task)'
               PROVE  taskState'[activation'[b].task] # "queued"
    BY DEF Working
  <2>0. activation \in [Agents -> Slots]
    BY TypeFacts
  <2>1. CASE b = AgentOf[t]
    <3>1. activation'[b].task = t
      BY <1>3, <2>0, <2>1
    <3> QED
      BY <1>15, <3>1
  <2>2. CASE b # AgentOf[t]
    <3>1. activation'[b] = activation[b]
      BY <1>3, <2>0, <2>2
    <3>2. PICK u \in Tasks : activation[b].stage # "idle" /\ activation[b].task = u /\ activation'[b].task = u /\ AgentOf[u] = b
      BY <3>1, LeaseFacts
    <3>3. taskState'[u] \in LiveStates /\ u \notin gone /\ u # t
      BY <1>2, <2>2, <3>2 DEF Live, About
    <3>4. taskState'[u] = taskState[u]
      BY <1>2, <3>3 DEF About, Idles
    <3>5. Live(u)
      BY <3>3, <3>4 DEF Live
    <3> QED
      BY <1>5, <3>2, <3>4, <3>5 DEF Working
  <2> QED
    BY <2>1, <2>2
<1> QED
  BY <1>5, <1>6, <1>13, <1>14, <1>16, <1>17 DEF ReadInv

\* The reading order is an invariant.
LEMMA ReadInvNext == TypeInv /\ LeaseInv /\ ReadInv /\ [Next]_vars => ReadInv'
<1> SUFFICES ASSUME TypeInv, LeaseInv, ReadInv, [Next]_vars PROVE ReadInv'
  OBVIOUS
<1>1. TypeInv'
  BY TypeInvNext
<1>2. ASSUME NEW gone \in SUBSET Tasks, NEW T \in SUBSET Tasks, Calm(gone, T) PROVE ReadInv'
  BY <1>1, <1>2, ReadCalm
<1>3. ASSUME NEW i \in DOMAIN mail, Claim(i) PROVE ReadInv'
  BY <1>1, <1>3, ReadClaim
<1>4. ASSUME NEW a \in Agents, NEW t \in Tasks, Finish(a, t) PROVE ReadInv'
  BY <1>1, <1>4, ReadFinish
<1>5. CASE Recovers
  BY <1>1, <1>5, ReadRecovers
<1> QED
  BY <1>2, <1>3, <1>4, <1>5, MailKinds

LEMMA ReadInvAlways == Spec => [](TypeInv /\ LeaseInv /\ ReadInv)
<1>1. Init => ReadInv
  BY DEF Init, ReadInv, Working, Marked, InOrder, ReadOnce, Held, Again, Idle, Leased, Outstanding
<1> QED
  BY <1>1, LeaseInvAlways, ReadInvNext, PTL DEF Spec

\* An input or a result enters its task's conversation exactly once: what was
\* applied is not read again when it is delivered again after a failure of its
\* worker, a shutdown or a restart.
THEOREM NothingReadTwice == Spec => []ReadOnce
<1>1. ReadInv => ReadOnce
  BY DEF ReadInv
<1> QED
  BY <1>1, ReadInvAlways, PTL

-----------------------------------------------------------------------------
(* No task is forgotten *)

\* A queued task has a delivery to come.
Comes(t) ==
  taskState[t] = "queued" /\ ~TurnedAway(t) => \E j \in Pending(mail, t) : mail[j].kind # "progress"

\* A task that waits for a child will be told of its end.
Replies(t) ==
  taskState[t] = "waiting" /\ awaits[t] # NoTask /\ ~TurnedAway(t) /\ ~stopped[t] =>
    \/ Live(awaits[t])
    \/ \E j \in Pending(mail, t) : mail[j].kind = "result" /\ mail[j].from = awaits[t] /\ ~mail[j].applied

\* A task awaits its own children only.
Delegated(t) == awaits[t] # NoTask => awaits[t] \in Tasks /\ ParentOf[awaits[t]] = t

WakeInv == \A t \in Tasks : Comes(t) /\ Replies(t) /\ Delegated(t)

\* A result that was thrown away stays so.
LEMMA TurnedAwayStays ==
  ASSUME NEW S, KeepsMail(S), NEW t, TurnedAway(t)
  PROVE  TurnedAway(t)'
<1>1. PICK j \in DOMAIN mail : mail[j].task = t /\ mail[j].kind = "result" /\ mail[j].state = "dead" /\ ~mail[j].applied
  BY DEF TurnedAway
<1>2. j \in DOMAIN mail' /\ mail'[j] = mail[j]
  BY <1>1 DEF KeepsMail, Same
<1> QED
  BY <1>1, <1>2 DEF TurnedAway

\* A queued task that the step is not about keeps its delivery.
LEMMA ComesStays ==
  ASSUME NEW gone, NEW T, NEW D, About(gone, T, D), NEW t \in Tasks \ T, Comes(t),
         \A j \in D : mail[j].state = "pending" => mail[j].task # t
  PROVE  Comes(t)'
<1> SUFFICES ASSUME taskState'[t] = "queued", ~TurnedAway(t)'
             PROVE  \E j \in Pending(mail', t) : mail'[j].kind # "progress"
  BY DEF Comes
<1>1. t \notin gone
  BY DEF About, Live, LiveStates
<1>2. taskState[t] = "queued" /\ Live(t)
  BY <1>1 DEF About, Idles, Live, LiveStates
<1>3. ~TurnedAway(t)
  BY TurnedAwayStays DEF About
<1>4. PICK j \in Pending(mail, t) : mail[j].kind # "progress"
  BY <1>2, <1>3 DEF Comes
<1>5. j \notin D
  BY <1>4 DEF Pending
<1>6. mail'[j].kind = mail[j].kind /\ j \in Pending(mail', t)
  BY <1>1, <1>2, <1>4, <1>5, StaysPending
<1> QED
  BY <1>4, <1>6

\* A task that goes on waiting for its child has the child alive, or is told.
LEMMA RepliesStay ==
  ASSUME NEW gone, NEW T, NEW D, About(gone, T, D), NEW t \in Tasks, Replies(t), Delegated(t),
         taskState'[t] = "waiting" => taskState[t] = "waiting" /\ awaits'[t] = awaits[t],
         \A j \in D : mail[j].state = "pending" => mail[j].task # t
  PROVE  Replies(t)'
<1> SUFFICES ASSUME taskState'[t] = "waiting", awaits'[t] # NoTask, ~TurnedAway(t)', ~stopped'[t]
             PROVE  \/ taskState'[awaits'[t]] \in LiveStates
                    \/ \E j \in Pending(mail', t) : /\ mail'[j].kind = "result" /\ mail'[j].from = awaits'[t]
                                                    /\ ~mail'[j].applied
  BY DEF Replies, Live
<1>1. t \notin gone
  BY DEF About, Live, LiveStates
<1>2. taskState[t] = "waiting" /\ awaits'[t] = awaits[t] /\ Live(t) /\ ~stopped[t]
  BY DEF About, Live, LiveStates
<1>3. ~TurnedAway(t)
  BY TurnedAwayStays DEF About
<1>4. PICK c \in Tasks : c = awaits[t] /\ ParentOf[c] = t
  BY <1>2 DEF Delegated
<1>5. CASE Live(c) /\ c \notin gone
  <2>1. Live(c)'
    BY <1>5 DEF About
  <2> QED
    BY <1>2, <1>4, <2>1 DEF Live
<1>6. CASE c \in gone
  <2>1. ~Root(c)
    BY <1>4, WorkflowAssumption DEF Root
  <2>2. \E j \in Pending(mail', t) : mail'[j].kind = "result" /\ mail'[j].from = c /\ ~mail'[j].applied
    BY <1>1, <1>2, <1>4, <1>6, <2>1 DEF About, Told
  <2> QED
    BY <1>2, <1>4, <2>2
<1>7. CASE ~Live(c)
  <2>1. PICK j \in Pending(mail, t) : mail[j].kind = "result" /\ mail[j].from = c /\ ~mail[j].applied
    BY <1>2, <1>3, <1>4, <1>7 DEF Replies
  <2>2. j \notin D
    BY <2>1 DEF Pending
  <2>3. /\ mail'[j].kind = mail[j].kind /\ mail'[j].from = mail[j].from /\ mail'[j].applied = mail[j].applied
        /\ j \in Pending(mail', t)
    BY <1>1, <1>2, <2>1, <2>2, StaysPending
  <2> QED
    BY <1>2, <1>4, <2>1, <2>3
<1> QED
  BY <1>5, <1>6, <1>7

\* So a step keeps the wakeups of the tasks it is not about.
LEMMA OthersWake ==
  ASSUME WakeInv, NEW gone, NEW T, NEW D, About(gone, T, D), NEW t \in Tasks \ T,
         \A j \in D : mail[j].state = "pending" => mail[j].task # t
  PROVE  Comes(t)' /\ Replies(t)' /\ Delegated(t)'
<1>1. Comes(t) /\ Replies(t) /\ Delegated(t)
  BY DEF WakeInv
<1>2. awaits'[t] = awaits[t]
  BY DEF About
<1>3. taskState'[t] = "waiting" => taskState[t] = "waiting"
  BY DEF About, Idles, Live, LiveStates
<1>4. Comes(t)'
  BY <1>1, ComesStays
<1>5. Replies(t)'
  BY <1>1, <1>2, <1>3, RepliesStay
<1>6. Delegated(t)'
  BY <1>1, <1>2 DEF Delegated
<1> QED
  BY <1>4, <1>5, <1>6

\* Every step keeps the wakeups of all tasks.
LEMMA WakeInvNext == TypeInv /\ LeaseInv /\ ReadInv /\ WakeInv /\ [Next]_vars => WakeInv'
<1> SUFFICES ASSUME TypeInv, LeaseInv, ReadInv, WakeInv, [Next]_vars PROVE WakeInv'
  OBVIOUS
<1> DEFINE Wakes(t) == Comes(t)' /\ Replies(t)' /\ Delegated(t)'
<1>0. /\ \A t \in Tasks : Comes(t) /\ Replies(t) /\ Delegated(t) /\ Held(t)
      /\ \A j \in Leased(mail) : mail[j].kind # "progress" /\ j \in DOMAIN mail /\ mail[j].state = "leased"
      /\ NoTask \notin Tasks
  BY WorkflowAssumption DEF WakeInv, ReadInv, Marked, Leased
<1>1. ASSUME NEW gone \in SUBSET Tasks, NEW T \in SUBSET Tasks, Calm(gone, T) PROVE \A t \in Tasks : Wakes(t)
  <2>1. About(gone, T, {}) /\ \A t \in T : Sleeps(t) \/ Begins(t)
    BY <1>1 DEF Calm
  <2>2. ASSUME NEW t \in Tasks \ T PROVE Wakes(t)
    BY <2>1, OthersWake
  <2>3. ASSUME NEW t \in Tasks, Sleeps(t) PROVE Wakes(t)
    <3>1. taskState'[t] = "waiting"
      BY <2>3 DEF Sleeps
    <3>2. CASE awaits'[t] = NoTask
      BY <3>1, <3>2 DEF Comes, Replies, Delegated
    <3>3. ASSUME NEW c \in Tasks, awaits'[t] = c, ParentOf[c] = t, taskState'[c] \in LiveStates PROVE Wakes(t)
      BY <3>1, <3>3 DEF Comes, Replies, Delegated, Live
    <3> QED
      BY <2>3, <3>2, <3>3 DEF Sleeps
  <2>4. ASSUME NEW t \in Tasks, Begins(t) PROVE Wakes(t)
    <3>1. taskState'[t] = "queued" /\ awaits'[t] \in {awaits[t], NoTask} /\ \E j \in Pending(mail', t) : mail'[j].kind # "progress"
      BY <2>4 DEF Begins
    <3> QED
      BY <1>0, <3>1 DEF Comes, Replies, Delegated
  <2> QED
    BY <2>1, <2>2, <2>3, <2>4
<1>2. ASSUME NEW i \in DOMAIN mail, Claim(i) PROVE \A t \in Tasks : Wakes(t)
  <2>1. PICK t \in Tasks : t = mail[i].task
    BY MailFacts
  <2> DEFINE D == {i} \union {j \in DOMAIN mail : Read(i, j)}
  <2>2. PICK gone \in SUBSET Tasks : ClaimEnds(i, t, gone) /\ About(gone, {t}, D)
    BY <1>2, <2>1, ClaimAbout
  <2>3. \A j \in D : mail[j].task = t
    BY <2>1 DEF Read
  <2>4. ASSUME NEW u \in Tasks \ {t} PROVE Wakes(u)
    <3> HIDE DEF D
    <3> QED
      BY <2>2, <2>3, OthersWake
  <2>5. taskState'[t] = "running"
    BY <2>2 DEF ClaimEnds
  <2>6. awaits'[t] \in {awaits[t], NoTask}
    <3>1. awaits \in [Tasks -> Tasks \union {NoTask}]
      BY TypeFacts
    <3>2. IF Resumes(i) THEN Prepares(t) ELSE KeepsCall
      BY <1>2, <2>1, ClaimFacts
    <3> QED
      BY <3>1, <3>2 DEF Prepares, KeepsCall
  <2>7. Wakes(t)
    BY <1>0, <2>5, <2>6 DEF Comes, Replies, Delegated
  <2> QED
    BY <2>4, <2>7
<1>3. ASSUME NEW a \in Agents, NEW t \in Tasks, Finish(a, t) PROVE \A u \in Tasks : Wakes(u)
  <2> DEFINE k == activation[a].mail
  <2>1. k \in Leased(mail) /\ mail[k].task = t /\ KeepsMail(Leased(mail) \ {k}) /\ Outcome(t, k)
    BY <1>3, FinishAbout
  <2>2. PICK gone \in SUBSET Tasks : About(gone, {t}, {k})
    BY <1>3, FinishAbout
  <2> HIDE DEF k
  <2>3. ASSUME NEW u \in Tasks \ {t} PROVE Wakes(u)
    BY <2>1, <2>2, OthersWake
  <2>4. Comes(t)'
    <3> SUFFICES ASSUME taskState'[t] = "queued" PROVE \E j \in Pending(mail', t) : mail'[j].kind # "progress"
      BY DEF Comes
    <3>1. \/ mail'[k].state = "pending" \/ \E j \in Pending(mail', t) : mail'[j].kind # "progress"
      BY <2>1 DEF Outcome, Live, LiveStates
    <3>2. CASE mail'[k].state = "pending"
      <4>1. k \in Pending(mail', t) /\ mail'[k].kind # "progress"
        BY <1>0, <2>1, <3>2 DEF KeepsMail, Same, Pending
      <4> QED
        BY <4>1
    <3> QED
      BY <3>1, <3>2
  <2>5. Replies(t)'
    <3>1. taskState'[t] = "waiting" => taskState[t] = "waiting" /\ awaits'[t] = awaits[t]
      BY <2>1 DEF Outcome, Live, LiveStates
    <3>2. \A j \in {k} : mail[j].state = "pending" => mail[j].task # t
      BY <1>0, <2>1
    <3> QED
      BY <1>0, <2>2, <3>1, <3>2, RepliesStay
  <2>6. Delegated(t)'
    <3>1. awaits'[t] \in {awaits[t], NoTask}
      BY <2>1 DEF Outcome
    <3> QED
      BY <1>0, <3>1 DEF Delegated
  <2> QED
    BY <2>3, <2>4, <2>5, <2>6
<1>4. ASSUME Recovers PROVE \A t \in Tasks : Wakes(t)
  <2> DEFINE T == {t \in Tasks : taskState[t] = "running"}
  <2>1. KeepsMail({}) /\ awaits' = awaits
    BY <1>4, RecoverAbout
  <2>2. PICK gone \in SUBSET Tasks :
          /\ About(gone, T, Leased(mail))
          /\ \A t \in Tasks \ gone : taskState[t] = "running" => taskState'[t] = "queued"
          /\ \A j \in Leased(mail) : /\ mail[j].task \notin gone /\ taskState[mail[j].task] # "waiting"
                                     => mail'[j].state = "pending"
    BY <1>4, RecoverAbout
  <2>3. ASSUME NEW t \in Tasks \ T PROVE Wakes(t)
    <3>1. \A j \in Leased(mail) : mail[j].state = "pending" => mail[j].task # t
      BY <1>0
    <3> HIDE DEF T
    <3> QED
      BY <2>2, <3>1, OthersWake
  <2>4. ASSUME NEW t \in T PROVE Wakes(t)
    <3>1. CASE t \in gone
      <4>1. taskState'[t] \notin LiveStates
        BY <2>2, <3>1 DEF About, Live
      <4> QED
        BY <1>0, <2>1, <4>1 DEF Comes, Replies, Delegated, LiveStates
    <3>2. CASE t \notin gone
      <4>1. PICK j \in Leased(mail) : mail[j].task = t
        BY <1>0 DEF Held
      <4>2. mail'[j].state = "pending"
        BY <2>2, <3>2, <4>1
      <4>3. j \in Pending(mail', t) /\ mail'[j].kind # "progress"
        BY <1>0, <2>1, <4>1, <4>2 DEF KeepsMail, Same, Pending
      <4>4. taskState'[t] = "queued"
        BY <2>2, <3>2
      <4> QED
        BY <1>0, <2>1, <4>3, <4>4 DEF Comes, Replies, Delegated
    <3> QED
      BY <3>1, <3>2
  <2> QED
    BY <2>3, <2>4
<1>5. \A t \in Tasks : Wakes(t)
  <2> HIDE DEF Wakes
  <2> QED
    BY <1>1, <1>2, <1>3, <1>4, MailKinds
<1> QED
  BY <1>5 DEF WakeInv

\* No wakeup is lost: a live task that was not stopped has a delivery to come, a
\* lease, or a child that will report, unless a result was thrown away that it
\* did not wait for.
THEOREM NoTaskForgotten == Spec => []NoForgottenTask
<1>1. Init => WakeInv
  BY DEF Init, WakeInv, Comes, Replies, Delegated
<1>2. ASSUME ReadInv, WakeInv PROVE NoForgottenTask
  <2> SUFFICES ASSUME NEW t \in Tasks, Live(t), ~stopped[t], ~TurnedAway(t) PROVE Wakeable(t)
    BY DEF NoForgottenTask
  <2>1. Held(t) /\ Comes(t) /\ Replies(t)
    BY <1>2 DEF ReadInv, WakeInv
  <2>2. CASE taskState[t] = "queued"
    <3>1. \E j \in Outstanding(mail) : mail[j].task = t /\ mail[j].kind # "progress"
      BY <2>1, <2>2 DEF Comes, Pending, Outstanding
    <3> QED
      BY <2>2, <3>1 DEF Wakeable
  <2>3. CASE taskState[t] = "running"
    BY <2>1, <2>3 DEF Held, Wakeable
  <2>4. CASE taskState[t] = "waiting"
    <3>1. awaits[t] # NoTask => \/ Live(awaits[t])
                                \/ \E j \in Pending(mail, t) : mail[j].kind = "result" /\ mail[j].from = awaits[t]
      BY <2>1, <2>4 DEF Replies
    <3> QED
      BY <2>4, <3>1 DEF Wakeable
  <2> QED
    BY <2>2, <2>3, <2>4 DEF Live, LiveStates
<1> QED
  BY <1>1, <1>2, ReadInvAlways, WakeInvNext, PTL DEF Spec

=============================================================================
