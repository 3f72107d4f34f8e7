---------------------------- MODULE BrokerProofs ----------------------------
(***************************************************************************)
(* Theorems about the model broker, for every set of calls, quota groups   *)
(* and accounts and every limit.                                           *)
(*                                                                         *)
(* The invariants depend on each other: a reserved counter stays           *)
(* non-negative (TypeOK) because it is the sum of what is held             *)
(* (LedgerBalanced), which needs that a settled attempt was held at its    *)
(* call's reservation (Reservations) and was the only live one             *)
(* (AttemptsConsistent).  IInv is their conjunction.                       *)
(***************************************************************************)
EXTENDS Broker, DataTheorems

\* A held attempt keeps the reservation of its call, a settled one at least that.
Reservations ==
  \A x \in Attempts :
    /\ attemptState[x] \in {"running", "unknown"} => attemptTokens[x] = reservation[x[1]]
    /\ attemptState[x] = "known" => attemptTokens[x] >= reservation[x[1]]

\* What the stage of a call says about its attempts and its usage.
CallStages ==
  \A c \in Calls :
    /\ callState[c] \in {"none", "awaiting_worker"} => attempts[c] = 0
    /\ callState[c] = "running" => attempts[c] # 0
    /\ callState[c] \in Waiting => attempts[c] < MaxAttempts
    /\ callState[c] \in {"none", "running"} \cup Waiting => callUsed[c] = 0

IInv ==
  /\ TypeOK /\ AttemptsConsistent /\ Reservations /\ CallStages
  /\ LedgerBalanced /\ BudgetRespected /\ ConcurrencyRespected

-----------------------------------------------------------------------------
(* Types *)

\* The group's refilled credit is a natural number of credit units.
LEMMA RefillType ==
  ASSUME TypeOK, NEW g \in Groups
  PROVE  Effective(g) \in Nat /\ Effective(g) >= updated[g] /\ Effective(g) >= now /\ Refilled(g) \in Nat
<1>1. now \in Nat /\ updated[g] \in Nat /\ credit[g] \in Nat
  BY DEF TypeOK, QuotasTyped
<1>2. Effective(g) \in Nat /\ Effective(g) >= updated[g] /\ Effective(g) >= now
  BY <1>1 DEF Effective, Greatest
<1>3. \A m, n \in Nat : m * n \in Nat
  OBVIOUS
<1>4. BurstRequests[g] * CreditUnit \in Nat
  BY <1>3, BrokerAssumption
<1>5. (Effective(g) - updated[g]) * Refill[g] \in Nat
  <2>1. Effective(g) - updated[g] \in Nat
    BY <1>1, <1>2
  <2> QED
    BY <2>1, <1>3, BrokerAssumption
<1>6. credit[g] + (Effective(g) - updated[g]) * Refill[g] \in Nat
  BY <1>1, <1>5
<1>7. \A m, n \in Nat : Least(m, n) \in Nat
  BY DEF Least
<1>8. Refilled(g) \in Nat
  BY <1>4, <1>6, <1>7 DEF Refilled
<1> QED
  BY <1>2, <1>8

\* There are finitely many attempts: three per call.
LEMMA AttemptsFinite == IsFiniteSet(Attempts)
<1>1. IsFiniteSet(1..MaxAttempts)
  <2>1. 1 \in Int /\ MaxAttempts \in Int
    BY DEF MaxAttempts
  <2> QED
    BY <2>1, FS_Interval
<1> QED
  BY <1>1, FS_Product, BrokerAssumption DEF Attempts

\* Bookkeeping of a scan: it only rejects queued calls, or dispatches the caller's.
LEMMA ScanEffect ==
  ASSUME TypeOK, NEW c \in Calls, NEW visited \in SUBSET Queued, NEW denied \in SUBSET Queued,
         NEW dispatched \in BOOLEAN,
         dispatched => c \in Queued /\ \A g \in GroupsOf[c] : Refilled(g) >= CreditUnit,
         Scan(c, visited, dispatched, denied)
  PROVE  /\ callState' \in [Calls -> {"none", "running"} \cup Waiting \cup Final]
         /\ credit' \in [Groups -> Nat] /\ updated' \in [Groups -> Nat]
         /\ \A d \in Calls : \/ callState'[d] = callState[d]
                             \/ callState[d] = "queued" /\ callState'[d] = "rejected"
                             \/ dispatched /\ d = c /\ callState'[d] = "running"
<1> DEFINE rejects == {d \in visited : ~Fit(d)} \cup denied
           touched == UNION {GroupsOf[d] : d \in visited \ {e \in visited : ~Fit(e)}}
           spent(g) == IF dispatched /\ g \in GroupsOf[c] THEN CreditUnit ELSE 0
<1>1. callState' = [d \in Calls |->
           IF d \in rejects THEN "rejected" ELSE IF dispatched /\ d = c THEN "running" ELSE callState[d]]
  BY DEF Scan
<1>2. credit' = [g \in Groups |-> IF g \in touched THEN Refilled(g) - spent(g) ELSE credit[g]]
  BY DEF Scan
<1>3. updated' = [g \in Groups |-> IF g \in touched THEN Effective(g) ELSE updated[g]]
  BY DEF Scan
<1>4. \A d \in rejects : d \in Calls /\ callState[d] = "queued"
  BY DEF Queued
<1>5. callState \in [Calls -> {"none", "running"} \cup Waiting \cup Final]
  BY DEF TypeOK, CallsTyped
<1>6. \A g \in Groups : Refilled(g) - spent(g) \in Nat
  <2> TAKE g \in Groups
  <2>1. Refilled(g) \in Nat /\ CreditUnit \in Nat
    BY RefillType, BrokerAssumption
  <2>2. spent(g) \in Nat /\ spent(g) <= Refilled(g)
    BY <2>1
  <2> HIDE DEF spent
  <2> QED
    BY <2>1, <2>2
<1>7. credit' \in [Groups -> Nat]
  <2> HIDE DEF spent, touched
  <2> QED
    BY <1>2, <1>6 DEF TypeOK, QuotasTyped
<1>8. updated' \in [Groups -> Nat]
  <2> HIDE DEF touched
  <2> QED
    BY <1>3, RefillType DEF TypeOK, QuotasTyped
<1> HIDE DEF rejects
<1>9. callState' \in [Calls -> {"none", "running"} \cup Waiting \cup Final]
  BY <1>1, <1>5 DEF Final
<1> QED
  BY <1>1, <1>4, <1>7, <1>8, <1>9

\* A step that leaves a group of columns alone keeps their types.
LEMMA UnchangedTypes ==
  /\ CallsTyped /\ UNCHANGED callVars => CallsTyped'
  /\ AttemptsTyped /\ UNCHANGED attemptVars => AttemptsTyped'
  /\ MoneyTyped /\ UNCHANGED moneyVars => MoneyTyped'
  /\ QuotasTyped /\ UNCHANGED quotaVars => QuotasTyped'
<1>1. CallsTyped /\ UNCHANGED callVars => CallsTyped'
  BY DEF CallsTyped, callVars
<1>2. AttemptsTyped /\ UNCHANGED attemptVars => AttemptsTyped'
  BY DEF AttemptsTyped, attemptVars
<1>3. MoneyTyped /\ UNCHANGED moneyVars => MoneyTyped'
  BY DEF MoneyTyped, moneyVars
<1>4. QuotasTyped /\ UNCHANGED quotaVars => QuotasTyped'
  BY DEF QuotasTyped, quotaVars
<1> QED
  BY <1>1, <1>2, <1>3, <1>4

\* Control commands, ends of tasks and the clock keep every type.
LEMMA ControlTypes ==
  ASSUME TypeOK
  PROVE  /\ \A s \in Systems : Pause(s) \/ Resume(s) \/ Stop(s) \/ Stopped(s) \/ Finish(s) => TypeOK'
         /\ \A c \in Calls : EndTask(c) => TypeOK'
         /\ Tick \/ SetBack => TypeOK'
<1> USE DEF TypeOK
<1>1. ASSUME NEW s \in Systems, Pause(s) \/ Resume(s) \/ Stopped(s) PROVE TypeOK'
  BY <1>1, UnchangedTypes DEF Pause, Resume, Stopped
<1>2. ASSUME NEW s \in Systems, Stop(s) PROVE TypeOK'
  <2>1. CallsTyped'
    BY <1>2 DEF Stop, CallsTyped, Final
  <2> QED
    BY <1>2, <2>1, UnchangedTypes DEF Stop
<1>3. ASSUME NEW s \in Systems, Finish(s) PROVE TypeOK'
  <2>1. CallsTyped'
    BY <1>3 DEF Finish, CallsTyped
  <2> QED
    BY <1>3, <2>1, UnchangedTypes DEF Finish
<1>4. ASSUME NEW c \in Calls, EndTask(c) PROVE TypeOK'
  <2>1. CallsTyped'
    BY <1>4 DEF EndTask, CallsTyped, Final
  <2> QED
    BY <1>4, <2>1, UnchangedTypes DEF EndTask
<1>5. ASSUME Tick \/ SetBack PROVE TypeOK'
  <2>1. now' \in Nat
    BY <1>5, BrokerAssumption DEF Tick, SetBack
  <2> QED
    BY <1>5, <2>1, UnchangedTypes DEF Tick, SetBack
<1> QED
  BY <1>1, <1>2, <1>3, <1>4, <1>5

\* Preparing and claiming a call keep every type.
LEMMA CallTypes ==
  ASSUME TypeOK, NEW c \in Calls, NEW r \in Sizes
  PROVE  Start(c, r) \/ Prepare(c, r) \/ Claim(c, r) => TypeOK'
<1> USE DEF TypeOK
<1>1. ASSUME Insert(c, r) PROVE CallsTyped'
  <2>1. r \in Nat /\ now + TaskLife \in Nat
    BY BrokerAssumption
  <2>2. sequence' \in [Calls -> Nat]
    <3>1. IsFiniteSet({d \in Calls : callState[d] # "none"})
      BY FS_Subset, BrokerAssumption
    <3>2. 1 + Cardinality({d \in Calls : callState[d] # "none"}) \in Nat
      BY <3>1, FS_CardinalityType
    <3> QED
      BY <1>1, <3>2 DEF Insert, CallsTyped
  <2>3. waitDeadline' \in [Calls -> Nat]
    <3>1. PICK w \in Waits(c) : waitDeadline' = [waitDeadline EXCEPT ![c] = Least(now + TaskLife, now + w)]
      BY <1>1 DEF Insert
    <3>2. Least(now + TaskLife, now + w) \in Nat
      <4>1. w \in Nat
        BY BrokerAssumption DEF Waits
      <4> QED
        BY <4>1, <2>1 DEF Least
    <3> QED
      BY <3>1, <3>2 DEF CallsTyped
  <2> QED
    BY <1>1, <2>1, <2>2, <2>3 DEF Insert, CallsTyped, Waiting
<1>2. ASSUME Start(c, r) PROVE TypeOK'
  <2>1. Insert(c, r)
    BY <1>2 DEF Start
  <2> QED
    BY <1>1, <1>2, <2>1, UnchangedTypes DEF Start, Insert
<1>3. ASSUME Prepare(c, r) PROVE TypeOK'
  <2>1. Insert(c, r)
    BY <1>3 DEF Prepare
  <2> QED
    BY <1>1, <1>3, <2>1, UnchangedTypes DEF Prepare, Insert
<1>4. ASSUME Claim(c, r) PROVE TypeOK'
  <2>1. reservation' \in [Calls -> Nat]
    BY <1>4, BrokerAssumption DEF Claim, CallsTyped
  <2>2. CallsTyped'
    BY <1>4, <2>1 DEF Claim, CallsTyped
  <2> QED
    BY <1>4, <2>2, UnchangedTypes DEF Claim
<1> QED
  BY <1>2, <1>3, <1>4

\* Queueing, withdrawing and losing a call keep every type.
LEMMA WithdrawTypes ==
  ASSUME TypeOK, NEW c \in Calls
  PROVE  /\ \A again \in BOOLEAN : Release(c, again) => TypeOK'
         /\ Queue(c) \/ StorageFails(c) \/ Leave(c) \/ CancelQueued(c) \/ SettleFails(c) => TypeOK'
<1> USE DEF TypeOK
<1>1. ASSUME NEW again \in BOOLEAN, Release(c, again) PROVE TypeOK'
  <2>1. CallsTyped'
    BY <1>1 DEF Release, CallsTyped, Final, Waiting
  <2> QED
    BY <1>1, <2>1, UnchangedTypes DEF Release
<1>2. ASSUME Queue(c) PROVE TypeOK'
  <2>1. CallsTyped'
    BY <1>2 DEF Queue, CallsTyped, Waiting
  <2> QED
    BY <1>2, <2>1, UnchangedTypes DEF Queue
<1>3. ASSUME CancelQueued(c) PROVE TypeOK'
  <2>1. CallsTyped'
    BY <1>3 DEF CancelQueued, CallsTyped, Final
  <2> QED
    BY <1>3, <2>1, UnchangedTypes DEF CancelQueued
<1>4. ASSUME StorageFails(c) \/ Leave(c) \/ SettleFails(c) PROVE TypeOK'
  BY <1>4, UnchangedTypes DEF StorageFails, Leave, SettleFails
<1> QED
  BY <1>1, <1>2, <1>3, <1>4

-----------------------------------------------------------------------------
(* Steps that touch no attempt *)

\* Everything but a dispatch, a settlement and a recovery: the ledgers stand
\* still, and calls only move between preparation, queue and withdrawal.
Quiet ==
  /\ UNCHANGED <<attempts, attemptState, attemptTokens, callUsed, used, reserved>>
  /\ \A c \in Calls : reservation'[c] = reservation[c] \/ attempts[c] = 0
  /\ \A c \in Calls :
       \/ callState'[c] = callState[c]
       \/ /\ callState[c] \in Waiting \cup {"none"}
          /\ \/ callState'[c] \in Final \ {"unknown"}
             \/ callState'[c] \in Waiting /\ attempts[c] = 0
  \* a call that enters the queue found room in every group
  /\ \A c \in Calls : callState[c] = "none" /\ callState'[c] \in Waiting =>
       /\ \A g \in GroupsOf[c] : QueueLength(g) < QueueCapacity[g]
       /\ \A d \in Calls \ {c} : callState'[d] = callState[d]

\* An attempt that was dispatched belongs to a call with attempts.
LEMMA DispatchedAttempt ==
  ASSUME TypeOK, AttemptsConsistent, NEW x \in Attempts, attemptState[x] # "none"
  PROVE  /\ x[1] \in Calls /\ x[2] \in 1..MaxAttempts /\ x = <<x[1], x[2]>>
         /\ x[2] <= attempts[x[1]] /\ attempts[x[1]] # 0
<1>1. x[1] \in Calls /\ x[2] \in 1..MaxAttempts /\ x = <<x[1], x[2]>>
  BY DEF Attempts
<1>2. ~(x[2] > attempts[x[1]])
  BY <1>1 DEF AttemptsConsistent
<1>3. attempts[x[1]] \in Nat /\ x[2] \in Nat /\ x[2] >= 1
  BY <1>1 DEF TypeOK, AttemptsTyped, MaxAttempts
<1> QED
  BY <1>1, <1>2, <1>3

\* What is overrun does not change when no attempt changes.
LEMMA OverrunSame ==
  ASSUME TypeOK, AttemptsConsistent,
         UNCHANGED attemptTokens,
         \A x \in Attempts : (attemptState'[x] = "known") <=> (attemptState[x] = "known"),
         \A c \in Calls : reservation'[c] = reservation[c] \/ attempts[c] = 0
  PROVE  \A a \in Accounts : Overrun(a)' = Overrun(a)
<1> DEFINE over == [x \in Attempts |-> attemptTokens[x] - reservation[x[1]]]
           overNext == [x \in Attempts |-> attemptTokens'[x] - reservation'[x[1]]]
<1> SUFFICES ASSUME NEW a \in Accounts PROVE Overrun(a)' = Overrun(a)
  OBVIOUS
<1>1. \A x \in Attempts : attemptState[x] = "known" => reservation'[x[1]] = reservation[x[1]]
  BY DispatchedAttempt
<1>2. Overruns(a)' = Overruns(a)
  BY <1>1 DEF Overruns
<1>3. \A x \in Overruns(a) : over[x] = overNext[x]
  BY <1>1 DEF Overruns
<1>4. Weight(Overruns(a), over) = Weight(Overruns(a), overNext)
  BY <1>3, WeightSame
<1> QED
  BY <1>2, <1>4 DEF Overrun

\* The ledgers and the attempts stay consistent in a quiet step.
LEMMA QuietKeeps ==
  ASSUME IInv, Quiet, TypeOK'
  PROVE  IInv'
<1> USE DEF IInv, Quiet
<1>1. AttemptsConsistent'
  BY DEF AttemptsConsistent, Waiting, Final
<1>2. Reservations'
  <2> SUFFICES ASSUME NEW x \in Attempts, attemptState[x] # "none"
               PROVE  reservation'[x[1]] = reservation[x[1]]
    BY DEF Reservations
  <2> QED
    BY DispatchedAttempt
<1>3. CallStages'
  BY DEF CallStages, Waiting, Final, MaxAttempts
<1>4. LedgerBalanced'
  BY DEF LedgerBalanced, Held
<1>5. BudgetRespected'
  BY OverrunSame DEF BudgetRespected
<1>6. ConcurrencyRespected'
  BY DEF ConcurrencyRespected, InFlight, Dispatched
<1> QED
  BY <1>1, <1>2, <1>3, <1>4, <1>5, <1>6

\* Which steps are quiet.
LEMMA QuietSteps ==
  ASSUME IInv
  PROVE  /\ \A c \in Calls, r \in Sizes : Start(c, r) \/ Prepare(c, r) \/ Claim(c, r) => Quiet
         /\ \A c \in Calls, again \in BOOLEAN : Release(c, again) => Quiet
         /\ \A c \in Calls : Queue(c) \/ StorageFails(c) \/ Leave(c) \/ CancelQueued(c)
                              \/ SettleFails(c) \/ EndTask(c) => Quiet
         /\ \A s \in Systems : Pause(s) \/ Resume(s) \/ Stop(s) \/ Stopped(s) \/ Finish(s) => Quiet
         /\ Tick \/ SetBack => Quiet
<1> USE DEF Quiet, callVars, attemptVars, moneyVars, quotaVars
<1>1. CallsTyped /\ AttemptsTyped /\ CallStages
  BY DEF IInv, TypeOK
<1>2. ASSUME NEW c \in Calls, NEW r \in Sizes, Insert(c, r)
      PROVE  Quiet
  BY <1>1, <1>2 DEF Insert, CallsTyped, CallStages, Waiting
<1>3. ASSUME NEW c \in Calls, NEW r \in Sizes, Start(c, r) \/ Prepare(c, r)
      PROVE  Quiet
  BY <1>2, <1>3 DEF Start, Prepare
<1>4. ASSUME NEW c \in Calls, NEW r \in Sizes, Claim(c, r)
      PROVE  Quiet
  BY <1>1, <1>4 DEF Claim, CallsTyped, Waiting
<1>5. ASSUME NEW c \in Calls, NEW again \in BOOLEAN, Release(c, again)
      PROVE  Quiet
  BY <1>1, <1>5 DEF Release, CallsTyped, Waiting, Final
<1>6. ASSUME NEW c \in Calls, Queue(c)
      PROVE  Quiet
  BY <1>1, <1>6 DEF Queue, CallsTyped, CallStages, Waiting
<1>7. ASSUME NEW c \in Calls, StorageFails(c) \/ Leave(c) \/ SettleFails(c)
      PROVE  Quiet
  BY <1>7 DEF StorageFails, Leave, SettleFails, Waiting
<1>8. ASSUME NEW c \in Calls, CancelQueued(c)
      PROVE  Quiet
  BY <1>1, <1>8 DEF CancelQueued, CallsTyped, Waiting, Final
<1>9. ASSUME NEW c \in Calls, EndTask(c)
      PROVE  Quiet
  BY <1>1, <1>9 DEF EndTask, CallsTyped, Waiting, Final
<1>10. ASSUME NEW s \in Systems, Pause(s) \/ Resume(s) \/ Stopped(s) \/ Finish(s)
       PROVE  Quiet
  BY <1>10 DEF Pause, Resume, Stopped, Finish, Waiting
<1>11. ASSUME NEW s \in Systems, Stop(s)
       PROVE  Quiet
  BY <1>1, <1>11 DEF Stop, CallsTyped, Waiting, Final
<1>12. ASSUME Tick \/ SetBack
       PROVE  Quiet
  BY <1>12 DEF Tick, SetBack, Waiting
<1> QED
  BY <1>3, <1>4, <1>5, <1>6, <1>7, <1>8, <1>9, <1>10, <1>11, <1>12

-----------------------------------------------------------------------------
(* Admission *)

\* A scan that dispatches nothing is quiet.
LEMMA SweepStep ==
  ASSUME IInv, NEW c \in Calls, Admit(c), Deny(c) \/ Sweep(c)
  PROVE  TypeOK' /\ Quiet
<1>1. PICK visited \in SUBSET Queued, denied \in SUBSET Queued : Scan(c, visited, FALSE, denied)
  <2>1. CASE Deny(c)
    <3>1. Scan(c, Visited(Admissible \ {c}), FALSE, {c}) /\ c \in Queued
      BY <2>1 DEF Deny, IsNext, Admissible
    <3>2. Visited(Admissible \ {c}) \in SUBSET Queued /\ {c} \in SUBSET Queued
      BY <3>1 DEF Visited, Candidates
    <3> QED
      BY <3>1, <3>2
  <2>2. CASE Sweep(c)
    <3>1. Scan(c, Visited(Admissible), FALSE, {})
      BY <2>2 DEF Sweep
    <3>2. Visited(Admissible) \in SUBSET Queued /\ {} \in SUBSET Queued
      BY DEF Visited, Candidates
    <3> QED
      BY <3>1, <3>2
  <2> QED
    BY <2>1, <2>2
<1>2. /\ callState' \in [Calls -> {"none", "running"} \cup Waiting \cup Final]
      /\ credit' \in [Groups -> Nat] /\ updated' \in [Groups -> Nat]
      /\ \A d \in Calls : callState'[d] = callState[d] \/ (callState[d] = "queued" /\ callState'[d] = "rejected")
  BY <1>1, ScanEffect DEF IInv
<1>3. UNCHANGED <<attemptVars, moneyVars, cooldown, session, broken>>
  BY DEF Deny, Sweep
<1>4. UNCHANGED <<now, systemState, authorised, sequence, reservation, deadline, waitDeadline, callUsed>>
  BY DEF Admit
<1>5. TypeOK'
  <2>1. CallsTyped'
    BY <1>2, <1>4 DEF IInv, TypeOK, CallsTyped
  <2>2. QuotasTyped'
    BY <1>2, <1>3 DEF IInv, TypeOK, QuotasTyped
  <2> QED
    BY <1>3, <1>4, <2>1, <2>2, UnchangedTypes DEF IInv, TypeOK
<1>6. Quiet
  BY <1>2, <1>3, <1>4 DEF Quiet, attemptVars, moneyVars, Waiting, Final
<1> QED
  BY <1>5, <1>6

\* The attempt a dispatch inserts, and what the scan does to the other calls.
LEMMA DispatchFacts ==
  ASSUME IInv, NEW c \in Calls, Admit(c), Dispatch(c)
  PROVE  /\ callState[c] = "queued" /\ attempts[c] \in 0..(MaxAttempts - 1)
         /\ <<c, attempts[c] + 1>> \in Attempts
         /\ attemptState[<<c, attempts[c] + 1>>] = "none"
         /\ callState' \in [Calls -> {"none", "running"} \cup Waiting \cup Final]
         /\ credit' \in [Groups -> Nat] /\ updated' \in [Groups -> Nat]
         /\ callState'[c] = "running"
         /\ \A d \in Calls \ {c} :
              callState'[d] = callState[d] \/ (callState[d] = "queued" /\ callState'[d] = "rejected")
<1>1. c \in Queued /\ Fit(c) /\ \A g \in GroupsOf[c] : GroupAllows(g, c)
  BY DEF Dispatch, IsNext, Admissible
<1>2. callState[c] = "queued" /\ attempts[c] \in 0..(MaxAttempts - 1)
  BY <1>1 DEF Queued, IInv, CallStages, Waiting, TypeOK, AttemptsTyped, MaxAttempts
<1>3. attempts[c] + 1 \in 1..MaxAttempts /\ attempts[c] + 1 > attempts[c]
  BY <1>2 DEF MaxAttempts
<1>4. attemptState[<<c, attempts[c] + 1>>] = "none"
  BY <1>3 DEF IInv, AttemptsConsistent
<1>5. Visited({c}) \in SUBSET Queued /\ Scan(c, Visited({c}), TRUE, {})
  BY DEF Visited, Candidates, Dispatch
<1>6. \A g \in GroupsOf[c] : Refilled(g) >= CreditUnit
  BY <1>1 DEF GroupAllows
<1>7. /\ callState' \in [Calls -> {"none", "running"} \cup Waiting \cup Final]
      /\ credit' \in [Groups -> Nat] /\ updated' \in [Groups -> Nat]
      /\ \A d \in Calls : \/ callState'[d] = callState[d]
                          \/ callState[d] = "queued" /\ callState'[d] = "rejected"
                          \/ d = c /\ callState'[d] = "running"
  <2>1. {} \in SUBSET Queued /\ TRUE \in BOOLEAN
    OBVIOUS
  <2> QED
    BY <1>1, <1>5, <1>6, <2>1, ScanEffect DEF IInv
<1>8. callState'[c] = "running"
  <2>1. c \notin {d \in Visited({c}) : ~Fit(d)} \cup {}
    BY <1>1
  <2> QED
    BY <1>5, <2>1 DEF Scan
<1> QED
  BY <1>2, <1>3, <1>4, <1>7, <1>8 DEF Attempts

\* A dispatch keeps the types.
LEMMA DispatchTypes ==
  ASSUME IInv, NEW c \in Calls, Admit(c), Dispatch(c)
  PROVE  TypeOK'
<1> DEFINE x == <<c, attempts[c] + 1>>
<1>1. TypeOK
  BY DEF IInv
<1>2. CallsTyped'
  BY <1>1, DispatchFacts DEF Admit, TypeOK, CallsTyped
<1>3. QuotasTyped'
  BY <1>1, DispatchFacts DEF Dispatch, TypeOK, QuotasTyped
<1>4. MoneyTyped'
  <2>1. reservation[c] \in Nat
    BY <1>1 DEF TypeOK, CallsTyped
  <2>2. \A a \in Accounts : reserved[a] \in Nat /\ reserved[a] + reservation[c] \in Nat
    BY <1>1, <2>1 DEF TypeOK, MoneyTyped
  <2>3. reserved' = [a \in Accounts |-> IF a \in Charged[c] THEN reserved[a] + reservation[c] ELSE reserved[a]]
    BY DEF Dispatch
  <2>4. reserved' \in [Accounts -> Nat]
    BY <2>2, <2>3
  <2> QED
    BY <1>1, <2>4 DEF Dispatch, TypeOK, MoneyTyped
<1>5. AttemptsTyped'
  <2>1. PICK t \in DispatchTimes(c) : attemptAt' = [attemptAt EXCEPT ![x] = t]
    BY DEF Dispatch
  <2>2. t \in Nat
    BY <1>1, RefillType, BrokerAssumption DEF DispatchTimes
  <2>3. attempts' \in [Calls -> 0..MaxAttempts]
    <3>1. attempts[c] + 1 \in 0..MaxAttempts
      <4>1. attempts[c] \in 0..(MaxAttempts - 1)
        BY DispatchFacts
      <4> QED
        BY <4>1 DEF MaxAttempts
    <3>2. attempts' = [attempts EXCEPT ![c] = @ + 1]
      BY DEF Dispatch
    <3> QED
      BY <1>1, <3>1, <3>2 DEF TypeOK, AttemptsTyped
  <2>4. attemptState' \in [Attempts -> {"none", "running", "known", "unknown"}]
    BY <1>1 DEF Dispatch, TypeOK, AttemptsTyped
  <2>5. attemptTokens' \in [Attempts -> Nat] /\ attemptAt' \in [Attempts -> Nat]
    BY <1>1, <2>1, <2>2 DEF Dispatch, TypeOK, AttemptsTyped, CallsTyped
  <2>6. lastAdmission' \in [Systems -> Nat]
    <3>1. IsFiniteSet({y \in Attempts : attemptState[y] # "none"})
      BY AttemptsFinite, FS_Subset
    <3>2. 1 + Cardinality({y \in Attempts : attemptState[y] # "none"}) \in Nat
      BY <3>1, FS_CardinalityType
    <3> QED
      BY <1>1, <3>2 DEF Dispatch, TypeOK, AttemptsTyped
  <2> QED
    BY <2>3, <2>4, <2>5, <2>6 DEF AttemptsTyped
<1> QED
  BY <1>1, <1>2, <1>3, <1>4, <1>5 DEF TypeOK, Admit, Dispatch

\* A dispatch adds its attempt to what its accounts hold, and to nothing else.
LEMMA DispatchKeeps ==
  ASSUME IInv, NEW c \in Calls, Admit(c), Dispatch(c)
  PROVE  IInv'
<1> DEFINE x == <<c, attempts[c] + 1>>
<1>1. TypeOK /\ TypeOK'
  BY DispatchTypes DEF IInv
<1>2. /\ x \in Attempts /\ attemptState[x] = "none"
      /\ callState[c] = "queued" /\ callState'[c] = "running"
      /\ attempts[c] \in 0..(MaxAttempts - 1)
  BY DispatchFacts
<1>3. \A d \in Calls \ {c} :
        callState'[d] = callState[d] \/ (callState[d] = "queued" /\ callState'[d] = "rejected")
  BY DispatchFacts
<1>4. /\ attempts' = [attempts EXCEPT ![c] = attempts[c] + 1]
      /\ attemptState' = [attemptState EXCEPT ![x] = "running"]
      /\ attemptTokens' = [attemptTokens EXCEPT ![x] = reservation[c]]
      /\ reserved' = [a \in Accounts |-> IF a \in Charged[c] THEN reserved[a] + reservation[c] ELSE reserved[a]]
      /\ UNCHANGED <<used, callUsed, reservation>>
  BY DEF Dispatch, Admit
<1>5. /\ \A y \in Attempts \ {x} : attemptState'[y] = attemptState[y] /\ attemptTokens'[y] = attemptTokens[y]
      /\ attemptState'[x] = "running" /\ attemptTokens'[x] = reservation[c]
      /\ \A d \in Calls \ {c} : attempts'[d] = attempts[d]
      /\ attempts'[c] = attempts[c] + 1
  BY <1>1, <1>2, <1>4 DEF TypeOK, AttemptsTyped
<1>6. AttemptsConsistent'
  <2> SUFFICES ASSUME NEW d \in Calls, NEW n \in 1..MaxAttempts
               PROVE  /\ attemptState'[<<d, n>>] = "none" <=> n > attempts'[d]
                      /\ attemptState'[<<d, n>>] = "running" <=> (callState'[d] = "running" /\ n = attempts'[d])
                      /\ attemptState'[<<d, n>>] = "unknown" <=> (callState'[d] = "unknown" /\ n = attempts'[d])
    BY DEF AttemptsConsistent
  <2>0. <<d, n>> \in Attempts
    BY DEF Attempts
  <2>1. /\ attemptState[<<d, n>>] = "none" <=> n > attempts[d]
        /\ attemptState[<<d, n>>] = "running" <=> (callState[d] = "running" /\ n = attempts[d])
        /\ attemptState[<<d, n>>] = "unknown" <=> (callState[d] = "unknown" /\ n = attempts[d])
    BY DEF IInv, AttemptsConsistent
  <2>2. CASE d # c
    BY <2>0, <2>1, <2>2, <1>3, <1>5
  <2>3. CASE d = c /\ n = attempts[c] + 1
    BY <2>3, <1>2, <1>5 DEF MaxAttempts
  <2>4. CASE d = c /\ n # attempts[c] + 1
    <3>1. <<d, n>> # x
      BY <2>4
    <3>2. attemptState'[<<d, n>>] = attemptState[<<d, n>>]
      BY <2>0, <3>1, <1>5
    <3>3. n \in Nat /\ attempts[c] \in Nat
      BY <1>2 DEF MaxAttempts
    <3> HIDE DEF x
    <3> QED
      BY <2>1, <2>4, <3>2, <3>3, <1>2, <1>5
  <2> QED
    BY <2>2, <2>3, <2>4
<1>7. Reservations'
  <2>1. x[1] = c
    OBVIOUS
  <2> HIDE DEF x
  <2> QED
    BY <1>2, <1>4, <1>5, <2>1 DEF IInv, Reservations
<1>8. CallStages'
  <2> SUFFICES ASSUME NEW d \in Calls
               PROVE  /\ callState'[d] \in {"none", "awaiting_worker"} => attempts'[d] = 0
                      /\ callState'[d] = "running" => attempts'[d] # 0
                      /\ callState'[d] \in Waiting => attempts'[d] < MaxAttempts
                      /\ callState'[d] \in {"none", "running"} \cup Waiting => callUsed'[d] = 0
    BY DEF CallStages
  <2> HIDE DEF x
  <2> QED
    BY <1>2, <1>3, <1>4, <1>5 DEF IInv, CallStages, Waiting
<1>9. \A a \in Accounts : /\ IsFiniteSet(Held(a)) /\ x \notin Held(a)
                          /\ Held(a)' = IF a \in Charged[c] THEN Held(a) \cup {x} ELSE Held(a)
  <2> TAKE a \in Accounts
  <2>1. IsFiniteSet(Held(a))
    BY AttemptsFinite, FS_Subset DEF Held
  <2>2. x[1] = c
    OBVIOUS
  <2> HIDE DEF x
  <2> QED
    BY <2>1, <2>2, <1>2, <1>5 DEF Held
<1>10. LedgerBalanced'
  <2> SUFFICES ASSUME NEW a \in Accounts
               PROVE  /\ reserved'[a] = Weight(Held(a)', attemptTokens')
                      /\ used'[a] = Weight({d \in Calls : a \in Charged[d]}, callUsed')
    BY DEF LedgerBalanced
  <2>1. reserved[a] = Weight(Held(a), attemptTokens) /\ used[a] = Weight({d \in Calls : a \in Charged[d]}, callUsed)
    BY DEF IInv, LedgerBalanced
  <2>2. Weight(Held(a), attemptTokens) = Weight(Held(a), attemptTokens')
    <3>1. \A y \in Held(a) : attemptTokens[y] = attemptTokens'[y]
      BY <1>5, <1>9 DEF Held
    <3> QED
      BY <3>1, WeightSame
  <2>3. Weight(Held(a) \cup {x}, attemptTokens') = Weight(Held(a), attemptTokens') + reservation[c]
    <3>1. \A y \in Held(a) \cup {x} : attemptTokens'[y] \in Nat
      BY <1>1, <1>2 DEF Held, TypeOK, AttemptsTyped
    <3>2. IsFiniteSet(Held(a)) /\ x \notin Held(a) /\ attemptTokens'[x] = reservation[c]
      BY <1>5, <1>9
    <3> HIDE DEF x
    <3>3. Weight(Held(a) \cup {x}, attemptTokens') = Weight(Held(a), attemptTokens') + attemptTokens'[x]
      BY <3>1, <3>2, WeightAdd
    <3> QED
      BY <3>2, <3>3
  <2> HIDE DEF x
  <2> QED
    BY <2>1, <2>2, <2>3, <1>4, <1>9
<1>11. BudgetRespected'
  <2>1. \A y \in Attempts : (attemptState'[y] = "known") <=> (attemptState[y] = "known")
    BY <1>2, <1>5
  <2>2. \A a \in Accounts : Overrun(a)' = Overrun(a) /\ Overrun(a) \in Nat
    <3> SUFFICES ASSUME NEW a \in Accounts PROVE Overrun(a)' = Overrun(a) /\ Overrun(a) \in Nat
      OBVIOUS
    <3> DEFINE over == [y \in Attempts |-> attemptTokens[y] - reservation[y[1]]]
               overNext == [y \in Attempts |-> attemptTokens'[y] - reservation'[y[1]]]
    <3>1. Overruns(a)' = Overruns(a)
      BY <1>2, <1>4, <1>5, <2>1 DEF Overruns
    <3>2. \A y \in Overruns(a) : over[y] = overNext[y]
      BY <1>2, <1>4, <1>5 DEF Overruns
    <3>3. IsFiniteSet(Overruns(a))
      BY AttemptsFinite, FS_Subset DEF Overruns
    <3>4. \A y \in Overruns(a) : over[y] \in Nat
      BY <1>1 DEF Overruns, TypeOK, AttemptsTyped, CallsTyped, Attempts
    <3>5. Weight(Overruns(a), over) = Weight(Overruns(a), overNext)
      BY <3>2, WeightSame
    <3>6. Weight(Overruns(a), over) \in Nat
      BY <3>3, <3>4, WeightType
    <3> QED
      BY <3>1, <3>5, <3>6 DEF Overrun
  <2>3. \A a \in Charged[c] : reservation[c] <= Limit[a] - used[a] - reserved[a]
    BY DEF Dispatch, IsNext, Admissible, Fit, Remaining
  <2> SUFFICES ASSUME NEW a \in Accounts PROVE used'[a] + reserved'[a] <= Limit[a] + Overrun(a)'
    BY DEF BudgetRespected
  <2>4. /\ used[a] \in Nat /\ reserved[a] \in Nat /\ reservation[c] \in Nat /\ Limit[a] \in Nat
        /\ used[a] + reserved[a] <= Limit[a] + Overrun(a)
    BY <1>1, BrokerAssumption DEF IInv, BudgetRespected, TypeOK, MoneyTyped, CallsTyped
  <2> QED
    BY <1>4, <2>2, <2>3, <2>4
<1>12. ConcurrencyRespected'
  <2> SUFFICES ASSUME NEW g \in Groups PROVE Cardinality(InFlight(g)') <= MaxConcurrent[g]
    BY DEF ConcurrencyRespected
  <2>1. IsFiniteSet(InFlight(g)) /\ Cardinality(InFlight(g)) <= MaxConcurrent[g] /\ x \notin InFlight(g)
    BY <1>2, AttemptsFinite, FS_Subset DEF InFlight, Dispatched, IInv, ConcurrencyRespected
  <2>2. x[1] = c
    OBVIOUS
  <2> HIDE DEF x
  <2>3. CASE g \in GroupsOf[c]
    <3>1. InFlight(g)' = InFlight(g) \cup {x}
      BY <1>2, <1>5, <2>2, <2>3 DEF InFlight, Dispatched
    <3>2. Cardinality(InFlight(g)) < MaxConcurrent[g]
      BY <2>3 DEF Dispatch, IsNext, Admissible, GroupAllows
    <3>3. Cardinality(InFlight(g) \cup {x}) = Cardinality(InFlight(g)) + 1
      BY <2>1, FS_AddElement
    <3>4. Cardinality(InFlight(g)) \in Nat /\ MaxConcurrent[g] \in Nat
      BY <2>1, FS_CardinalityType, BrokerAssumption
    <3> QED
      BY <3>1, <3>2, <3>3, <3>4
  <2>4. CASE g \notin GroupsOf[c]
    <3>1. InFlight(g)' = InFlight(g)
      BY <1>2, <1>5, <2>2, <2>4 DEF InFlight, Dispatched
    <3> QED
      BY <2>1, <3>1
  <2> QED
    BY <2>3, <2>4
<1> QED
  BY <1>1, <1>6, <1>7, <1>8, <1>10, <1>11, <1>12 DEF IInv

-----------------------------------------------------------------------------
(* Settlement *)

\* The one attempt that is in flight for a running call.
LEMMA LiveAttempt ==
  ASSUME IInv, NEW c \in Calls, callState[c] = "running"
  PROVE  /\ attempts[c] \in 1..MaxAttempts /\ <<c, attempts[c]>> \in Attempts
         /\ attemptState[<<c, attempts[c]>>] = "running"
         /\ attemptTokens[<<c, attempts[c]>>] = reservation[c]
         /\ reservation[c] \in Nat /\ callUsed[c] = 0
<1>1. attempts[c] \in 1..MaxAttempts
  BY DEF IInv, CallStages, TypeOK, AttemptsTyped, MaxAttempts
<1>2. <<c, attempts[c]>> \in Attempts
  BY <1>1 DEF Attempts
<1>3. attemptState[<<c, attempts[c]>>] = "running"
  BY <1>1 DEF IInv, AttemptsConsistent
<1>4. reservation[c] \in Nat /\ callUsed[c] = 0
  BY DEF IInv, TypeOK, CallsTyped, CallStages
<1>5. <<c, attempts[c]>>[1] = c
  OBVIOUS
<1> QED
  BY <1>1, <1>2, <1>3, <1>4, <1>5 DEF IInv, Reservations

\* The attempt's row of a settlement, whatever its outcome: only the live attempt
\* of the running call changes, and not back to running.
SettlesAttempt(c, outcome, state) ==
  /\ callState[c] = "running"
  /\ attemptState' = [attemptState EXCEPT ![<<c, attempts[c]>>] = state]
  /\ callState' = [callState EXCEPT ![c] = outcome]
  /\ UNCHANGED <<attempts, reservation>>

LEMMA SettledAttempt ==
  ASSUME IInv, NEW c \in Calls, NEW outcome, NEW state \in {"known", "unknown"},
         SettlesAttempt(c, outcome, state),
         outcome \in {"completed", "failed", "queued", "unknown"},
         outcome = "unknown" <=> state = "unknown",
         outcome = "queued" => attempts[c] < MaxAttempts
  PROVE  AttemptsConsistent' /\ ConcurrencyRespected'
<1> DEFINE x == <<c, attempts[c]>>
<1>1. x \in Attempts /\ attemptState[x] = "running" /\ attempts[c] \in 1..MaxAttempts
  BY LiveAttempt DEF SettlesAttempt
<1>2. /\ \A y \in Attempts \ {x} : attemptState'[y] = attemptState[y]
      /\ attemptState'[x] = state
      /\ callState'[c] = outcome /\ \A d \in Calls \ {c} : callState'[d] = callState[d]
      /\ attempts' = attempts
  BY <1>1 DEF SettlesAttempt, IInv, TypeOK, AttemptsTyped, CallsTyped
<1>3. AttemptsConsistent'
  <2> SUFFICES ASSUME NEW d \in Calls, NEW n \in 1..MaxAttempts
               PROVE  /\ attemptState'[<<d, n>>] = "none" <=> n > attempts'[d]
                      /\ attemptState'[<<d, n>>] = "running" <=> (callState'[d] = "running" /\ n = attempts'[d])
                      /\ attemptState'[<<d, n>>] = "unknown" <=> (callState'[d] = "unknown" /\ n = attempts'[d])
    BY DEF AttemptsConsistent
  <2>0. <<d, n>> \in Attempts /\ callState[c] = "running"
    BY DEF Attempts, SettlesAttempt
  <2>1. /\ attemptState[<<d, n>>] = "none" <=> n > attempts[d]
        /\ attemptState[<<d, n>>] = "running" <=> (callState[d] = "running" /\ n = attempts[d])
        /\ attemptState[<<d, n>>] = "unknown" <=> (callState[d] = "unknown" /\ n = attempts[d])
    BY DEF IInv, AttemptsConsistent
  <2>2. CASE d # c
    BY <2>0, <2>1, <2>2, <1>2
  <2>3. CASE d = c /\ n = attempts[c]
    BY <2>1, <2>3, <1>1, <1>2
  <2>4. CASE d = c /\ n # attempts[c]
    <3>1. <<d, n>> # x
      BY <2>4
    <3>2. attemptState'[<<d, n>>] = attemptState[<<d, n>>]
      BY <2>0, <3>1, <1>2
    <3> HIDE DEF x
    <3> QED
      BY <2>0, <2>1, <2>4, <3>2, <1>2
  <2> QED
    BY <2>2, <2>3, <2>4
<1>4. ConcurrencyRespected'
  <2> SUFFICES ASSUME NEW g \in Groups PROVE Cardinality(InFlight(g)') <= MaxConcurrent[g]
    BY DEF ConcurrencyRespected
  <2>1. InFlight(g)' \subseteq InFlight(g)
    <3> HIDE DEF x
    <3> QED
      BY <1>1, <1>2 DEF InFlight, Dispatched
  <2>2. IsFiniteSet(InFlight(g)) /\ Cardinality(InFlight(g)) <= MaxConcurrent[g]
    BY AttemptsFinite, FS_Subset DEF InFlight, Dispatched, IInv, ConcurrencyRespected
  <2>3. Cardinality(InFlight(g)') <= Cardinality(InFlight(g)) /\ IsFiniteSet(InFlight(g)')
    BY <2>1, <2>2, FS_Subset
  <2>4. Cardinality(InFlight(g)) \in Nat /\ Cardinality(InFlight(g)') \in Nat /\ MaxConcurrent[g] \in Nat
    BY <2>2, <2>3, FS_CardinalityType, BrokerAssumption
  <2> QED
    BY <2>2, <2>3, <2>4
<1> QED
  BY <1>3, <1>4

\* An ambiguous outcome releases nothing: what was in flight is held as unknown.
LEMMA UnknownKeeps ==
  ASSUME IInv, NEW c \in Calls, Settle(c), SettleUnknown(c)
  PROVE  IInv'
<1> DEFINE x == <<c, attempts[c]>>
<1>1. /\ UNCHANGED <<attemptTokens, callUsed, moneyVars, waitDeadline, cooldown, reservation, attempts>>
      /\ callState[c] = "running"
  BY DEF SettleUnknown, Settle
<1>2. SettlesAttempt(c, "unknown", "unknown")
  BY <1>1 DEF SettlesAttempt, SettleUnknown
<1>3. AttemptsConsistent' /\ ConcurrencyRespected'
  BY <1>2, SettledAttempt
<1>4. x \in Attempts /\ attemptState[x] = "running" /\ attemptTokens[x] = reservation[c]
  BY <1>1, LiveAttempt
<1>5. /\ \A y \in Attempts \ {x} : attemptState'[y] = attemptState[y]
      /\ attemptState'[x] = "unknown"
      /\ callState'[c] = "unknown" /\ \A d \in Calls \ {c} : callState'[d] = callState[d]
  BY <1>4 DEF SettleUnknown, IInv, TypeOK, AttemptsTyped, CallsTyped
<1>6. TypeOK'
  <2>1. CallsTyped'
    BY DEF SettleUnknown, Settle, IInv, TypeOK, CallsTyped, Final
  <2>2. AttemptsTyped'
    BY DEF SettleUnknown, Settle, IInv, TypeOK, AttemptsTyped
  <2>3. MoneyTyped' /\ QuotasTyped'
    BY UnchangedTypes DEF SettleUnknown, Settle, IInv, TypeOK, quotaVars
  <2> QED
    BY <2>1, <2>2, <2>3 DEF Settle, IInv, TypeOK
<1> HIDE DEF x
<1>7. Reservations'
  BY <1>1, <1>4, <1>5 DEF IInv, Reservations
<1>8. CallStages'
  BY <1>1, <1>5 DEF IInv, CallStages, Waiting
<1>9. LedgerBalanced'
  <2>1. \A a \in Accounts : Held(a)' = Held(a)
    BY <1>4, <1>5 DEF Held
  <2> QED
    BY <1>1, <2>1 DEF IInv, LedgerBalanced, moneyVars
<1>10. BudgetRespected'
  <2>1. \A y \in Attempts : (attemptState'[y] = "known") <=> (attemptState[y] = "known")
    BY <1>4, <1>5
  <2>2. \A a \in Accounts : Overrun(a)' = Overrun(a)
    BY <1>1, <2>1, OverrunSame DEF IInv
  <2> QED
    BY <1>1, <2>2 DEF IInv, BudgetRespected, moneyVars
<1> QED
  BY <1>3, <1>6, <1>7, <1>8, <1>9, <1>10 DEF IInv

\* A known outcome gives back exactly the call's reservation and charges exactly
\* the reported usage; what exceeds the reservation is counted as overrun.
LEMMA KnownLedger ==
  ASSUME IInv, NEW c \in Calls, NEW actual \in Nat, callState[c] = "running",
         Known(c, actual), UNCHANGED <<attempts, reservation>>
  PROVE  MoneyTyped' /\ LedgerBalanced' /\ BudgetRespected'
<1> DEFINE x == <<c, attempts[c]>>
           r == reservation[c]
<1>1. /\ x \in Attempts /\ attemptState[x] = "running" /\ attemptTokens[x] = r /\ r \in Nat
      /\ callUsed[c] = 0
  BY LiveAttempt
<1>2. /\ attemptState' = [attemptState EXCEPT ![x] = "known"]
      /\ attemptTokens' = [attemptTokens EXCEPT ![x] = Greatest(attemptTokens[x], actual)]
      /\ callUsed' = [callUsed EXCEPT ![c] = callUsed[c] + actual]
      /\ reserved' = [a \in Accounts |-> IF a \in Charged[c] THEN reserved[a] - r ELSE reserved[a]]
      /\ used' = [a \in Accounts |-> IF a \in Charged[c] THEN used[a] + actual ELSE used[a]]
  BY DEF Known
<1>3. /\ \A y \in Attempts \ {x} : attemptState'[y] = attemptState[y] /\ attemptTokens'[y] = attemptTokens[y]
      /\ attemptState'[x] = "known" /\ attemptTokens'[x] = Greatest(r, actual)
      /\ callUsed'[c] = callUsed[c] + actual /\ \A d \in Calls \ {c} : callUsed'[d] = callUsed[d]
  BY <1>1, <1>2 DEF IInv, TypeOK, AttemptsTyped, CallsTyped
<1>4. Greatest(r, actual) \in Nat
  BY <1>1 DEF Greatest
<1>5. x[1] = c
  OBVIOUS
<1>6. /\ \A y \in Attempts : attemptTokens[y] \in Nat /\ attemptTokens'[y] \in Nat /\ reservation[y[1]] \in Nat
      /\ \A d \in Calls : callUsed[d] \in Nat
  BY <1>1, <1>3, <1>4 DEF IInv, TypeOK, AttemptsTyped, CallsTyped, Attempts
<1>7. \A a \in Accounts : used[a] \in Nat /\ reserved[a] \in Nat /\ Limit[a] \in Nat
  BY BrokerAssumption DEF IInv, TypeOK, MoneyTyped
<1> HIDE DEF x, r
<1>8. \A a \in Accounts : /\ IsFiniteSet(Held(a)) /\ Held(a) \subseteq Attempts
                          /\ Held(a)' = Held(a) \ {x}
                          /\ (x \in Held(a)) <=> (a \in Charged[c])
  BY <1>1, <1>3, <1>5, AttemptsFinite, FS_Subset DEF Held
<1>9. \A a \in Accounts : reserved'[a] = Weight(Held(a)', attemptTokens')
  <2> SUFFICES ASSUME NEW a \in Accounts PROVE reserved'[a] = Weight(Held(a)', attemptTokens')
    OBVIOUS
  <2>1. reserved[a] = Weight(Held(a), attemptTokens)
    BY DEF IInv, LedgerBalanced
  <2>2. Weight(Held(a) \ {x}, attemptTokens) = Weight(Held(a) \ {x}, attemptTokens')
    <3>1. \A y \in Held(a) \ {x} : attemptTokens[y] = attemptTokens'[y]
      BY <1>3, <1>8
    <3> QED
      BY <3>1, WeightSame
  <2>3. CASE a \in Charged[c]
    <3>1. x \in Held(a) /\ IsFiniteSet(Held(a)) /\ \A y \in Held(a) : attemptTokens[y] \in Nat
      BY <2>3, <1>6, <1>8
    <3>2. Weight(Held(a) \ {x}, attemptTokens) = Weight(Held(a), attemptTokens) - attemptTokens[x]
      BY <3>1, WeightRemove
    <3> QED
      BY <2>1, <2>2, <2>3, <3>2, <1>1, <1>2, <1>8
  <2>4. CASE a \notin Charged[c]
    <3>1. Held(a) \ {x} = Held(a)
      BY <2>4, <1>8
    <3> QED
      BY <2>1, <2>2, <2>4, <3>1, <1>2, <1>8
  <2> QED
    BY <2>3, <2>4
<1>10. \A a \in Accounts : used'[a] = Weight({d \in Calls : a \in Charged[d]}, callUsed')
  <2> SUFFICES ASSUME NEW a \in Accounts
               PROVE  used'[a] = Weight({d \in Calls : a \in Charged[d]}, callUsed')
    OBVIOUS
  <2> DEFINE payers == {d \in Calls : a \in Charged[d]}
  <2>1. used[a] = Weight(payers, callUsed)
    BY DEF IInv, LedgerBalanced
  <2>2. IsFiniteSet(payers)
    BY BrokerAssumption, FS_Subset
  <2>3. CASE a \in Charged[c]
    <3>1. c \in payers /\ (\A d \in payers : callUsed[d] \in Nat)
          /\ callUsed'[c] = callUsed[c] + actual /\ (\A d \in payers \ {c} : callUsed'[d] = callUsed[d])
      BY <2>3, <1>3, <1>6
    <3> HIDE DEF payers
    <3>2. Weight(payers, callUsed') = Weight(payers, callUsed) + actual
      BY <2>2, <3>1, WeightUpdate
    <3> QED
      BY <2>1, <2>3, <3>2, <1>2 DEF payers
  <2>4. CASE a \notin Charged[c]
    <3>1. \A d \in payers : callUsed[d] = callUsed'[d]
      BY <2>4, <1>3
    <3>2. Weight(payers, callUsed) = Weight(payers, callUsed')
      BY <3>1, WeightSame
    <3> QED
      BY <2>1, <2>4, <3>2, <1>2
  <2> QED
    BY <2>3, <2>4
<1>11. MoneyTyped'
  <2>1. \A a \in Accounts : reserved'[a] \in Nat
    <3> SUFFICES ASSUME NEW a \in Accounts PROVE Weight(Held(a)', attemptTokens') \in Nat
      BY <1>9
    <3>1. IsFiniteSet(Held(a)') /\ \A y \in Held(a)' : attemptTokens'[y] \in Nat
      BY <1>6, <1>8, FS_Subset
    <3> QED
      BY <3>1, WeightType
  <2>2. \A a \in Accounts : used'[a] \in Nat
    BY <1>2, <1>7
  <2> QED
    BY <1>2, <2>1, <2>2 DEF MoneyTyped
<1>12. BudgetRespected'
  <2> SUFFICES ASSUME NEW a \in Accounts PROVE used'[a] + reserved'[a] <= Limit[a] + Overrun(a)'
    BY DEF BudgetRespected
  <2> DEFINE over == [y \in Attempts |-> attemptTokens[y] - reservation[y[1]]]
             overNext == [y \in Attempts |-> attemptTokens'[y] - reservation'[y[1]]]
  <2>1. IsFiniteSet(Overruns(a)) /\ Overruns(a) \subseteq Attempts /\ x \notin Overruns(a)
    BY <1>1, AttemptsFinite, FS_Subset DEF Overruns
  <2>2. \A y \in Overruns(a) : over[y] = overNext[y] /\ over[y] \in Nat
    BY <1>3, <1>6, <2>1 DEF Overruns
  <2>3. Overrun(a) = Weight(Overruns(a), overNext) /\ Overrun(a) \in Nat
    <3> HIDE DEF overNext
    <3>1. Weight(Overruns(a), over) = Weight(Overruns(a), overNext)
      BY <2>2, WeightSame
    <3>2. Weight(Overruns(a), over) \in Nat
      BY <2>1, <2>2, WeightType
    <3> QED
      BY <3>1, <3>2 DEF Overrun
  <2>4. used[a] + reserved[a] <= Limit[a] + Overrun(a)
    BY DEF IInv, BudgetRespected
  <2>5. Overrun(a)' = Weight(Overruns(a)', overNext)
    BY DEF Overrun
  <2>6. CASE a \in Charged[c] /\ actual > r
    <3>1. Greatest(r, actual) = actual
      BY <2>6, <1>1 DEF Greatest
    <3>2. Overruns(a)' = Overruns(a) \cup {x}
      BY <2>6, <3>1, <1>1, <1>3, <1>5 DEF Overruns, r
    <3>3. overNext[x] = actual - r /\ actual - r \in Nat
      BY <2>6, <3>1, <1>1, <1>3, <1>5 DEF r
    <3>4. \A y \in Overruns(a) \cup {x} : overNext[y] \in Nat
      BY <2>2, <3>3
    <3> HIDE DEF overNext
    <3>5. Weight(Overruns(a) \cup {x}, overNext) = Weight(Overruns(a), overNext) + overNext[x]
      BY <2>1, <3>4, WeightAdd
    <3>6. Overrun(a)' = Overrun(a) + (actual - r)
      BY <2>3, <2>5, <3>2, <3>3, <3>5
    <3>7. used'[a] = used[a] + actual /\ reserved'[a] = reserved[a] - r
      BY <2>6, <1>2
    <3> QED
      BY <2>3, <2>4, <3>6, <3>7, <1>1, <1>7
  <2>7. CASE ~(a \in Charged[c] /\ actual > r)
    <3>1. a \in Charged[c] => Greatest(r, actual) = r
      BY <2>7, <1>1 DEF Greatest
    <3>2. Overruns(a)' = Overruns(a)
      BY <2>7, <3>1, <1>1, <1>3, <1>5 DEF Overruns, r
    <3>3. Overrun(a)' = Overrun(a)
      BY <2>3, <2>5, <3>2
    <3>4. used'[a] + reserved'[a] <= used[a] + reserved[a]
      BY <2>7, <1>1, <1>2, <1>7
    <3>5. used'[a] + reserved'[a] \in Nat
      BY <1>11 DEF MoneyTyped
    <3> QED
      BY <2>3, <2>4, <3>3, <3>4, <3>5, <1>7
  <2> QED
    BY <2>6, <2>7
<1> QED
  BY <1>9, <1>10, <1>11, <1>12 DEF LedgerBalanced

\* An outcome that is known, throttled answers included, keeps the invariant.
LEMMA KnownKeeps ==
  ASSUME IInv, NEW c \in Calls, Settle(c), NEW actual \in Nat, Known(c, actual),
         NEW outcome \in {"completed", "failed", "queued"},
         outcome = "queued" => attempts[c] < MaxAttempts /\ actual = 0,
         callState' = [callState EXCEPT ![c] = outcome],
         waitDeadline' \in [Calls -> Nat], cooldown' \in [Groups -> Nat]
  PROVE  IInv'
<1> DEFINE x == <<c, attempts[c]>>
<1>1. /\ callState[c] = "running"
      /\ UNCHANGED <<now, systemState, authorised, sequence, reservation, deadline, attempts,
                     attemptAt, lastAdmission, credit, updated, broken>>
      /\ session' = [session EXCEPT ![c] = "polling"]
  BY DEF Settle
<1>2. SettlesAttempt(c, outcome, "known")
  BY <1>1 DEF SettlesAttempt, Known
<1>3. AttemptsConsistent' /\ ConcurrencyRespected'
  BY <1>2, SettledAttempt
<1>4. MoneyTyped' /\ LedgerBalanced' /\ BudgetRespected'
  BY <1>1, KnownLedger
<1>5. /\ x \in Attempts /\ attemptState[x] = "running" /\ attemptTokens[x] = reservation[c]
      /\ reservation[c] \in Nat /\ callUsed[c] = 0 /\ attempts[c] \in 1..MaxAttempts
  BY <1>1, LiveAttempt
<1>6. /\ attemptState' = [attemptState EXCEPT ![x] = "known"]
      /\ attemptTokens' = [attemptTokens EXCEPT ![x] = Greatest(attemptTokens[x], actual)]
      /\ callUsed' = [callUsed EXCEPT ![c] = callUsed[c] + actual]
  BY DEF Known
<1>7. Greatest(attemptTokens[x], actual) \in Nat /\ Greatest(attemptTokens[x], actual) >= reservation[c]
  BY <1>5 DEF Greatest
<1>8. TypeOK'
  <2> HIDE DEF x
  <2>1. CallsTyped'
    BY <1>1, <1>5, <1>6 DEF IInv, TypeOK, CallsTyped, Final, Waiting
  <2>2. AttemptsTyped'
    BY <1>1, <1>6, <1>7 DEF IInv, TypeOK, AttemptsTyped
  <2>3. QuotasTyped'
    BY <1>1 DEF IInv, TypeOK, QuotasTyped
  <2> QED
    BY <1>1, <1>4, <2>1, <2>2, <2>3 DEF IInv, TypeOK
<1>9. Reservations'
  <2>1. x[1] = c
    OBVIOUS
  <2>2. /\ \A y \in Attempts \ {x} : attemptState'[y] = attemptState[y] /\ attemptTokens'[y] = attemptTokens[y]
        /\ attemptState'[x] = "known" /\ attemptTokens'[x] >= reservation[c]
    BY <1>5, <1>6, <1>7 DEF IInv, TypeOK, AttemptsTyped
  <2> HIDE DEF x
  <2> QED
    BY <1>1, <2>1, <2>2 DEF IInv, Reservations
<1>10. CallStages'
  <2> SUFFICES ASSUME NEW d \in Calls
               PROVE  /\ callState'[d] \in {"none", "awaiting_worker"} => attempts'[d] = 0
                      /\ callState'[d] = "running" => attempts'[d] # 0
                      /\ callState'[d] \in Waiting => attempts'[d] < MaxAttempts
                      /\ callState'[d] \in {"none", "running"} \cup Waiting => callUsed'[d] = 0
    BY DEF CallStages
  <2>1. CASE d = c
    <3>1. callState'[c] = outcome /\ callUsed'[c] = actual /\ attempts'[c] = attempts[c]
      BY <1>1, <1>5, <1>6 DEF IInv, TypeOK, CallsTyped
    <3> QED
      BY <2>1, <3>1 DEF Waiting
  <2>2. CASE d # c
    <3>1. callState'[d] = callState[d] /\ callUsed'[d] = callUsed[d] /\ attempts'[d] = attempts[d]
      BY <1>1, <1>6, <2>2 DEF IInv, TypeOK, CallsTyped
    <3> QED
      BY <3>1 DEF IInv, CallStages
  <2> QED
    BY <2>1, <2>2
<1> QED
  BY <1>3, <1>4, <1>8, <1>9, <1>10 DEF IInv

\* Every settlement keeps the invariant.
LEMMA SettleKeeps ==
  ASSUME IInv, NEW c \in Calls, Settle(c)
  PROVE  IInv'
<1>1. TypeOK /\ CallsTyped /\ QuotasTyped
  BY DEF IInv, TypeOK
<1>2. CASE \E actual \in Actuals, outcome \in {"completed", "failed"} : SettleKnown(c, actual, outcome)
  <2>1. PICK actual \in Actuals, outcome \in {"completed", "failed"} : SettleKnown(c, actual, outcome)
    BY <1>2
  <2>2. /\ actual \in Nat /\ Known(c, actual) /\ callState' = [callState EXCEPT ![c] = outcome]
        /\ waitDeadline' \in [Calls -> Nat] /\ cooldown' \in [Groups -> Nat]
    BY <1>1, <2>1, BrokerAssumption DEF SettleKnown, CallsTyped, QuotasTyped
  <2> QED
    BY <2>2, KnownKeeps
<1>3. CASE \E delay \in Delays : SettleThrottled(c, delay)
  <2>1. PICK delay \in Delays : SettleThrottled(c, delay)
    BY <1>3
  <2>2. cooldown' \in [Groups -> Nat]
    <3>1. \A g \in Groups : Greatest(cooldown[g], now + delay) \in Nat
      BY <1>1, BrokerAssumption DEF Greatest, QuotasTyped, TypeOK
    <3> QED
      BY <1>1, <2>1, <3>1 DEF SettleThrottled, QuotasTyped
  <2>3. CASE CanRetry(c)
    <3>1. PICK w \in Waits(c) : waitDeadline' = [waitDeadline EXCEPT ![c] = Least(deadline[c], now + w)]
      BY <2>1, <2>3 DEF SettleThrottled
    <3>2. Least(deadline[c], now + w) \in Nat
      <4>1. w \in Nat /\ deadline[c] \in Nat /\ now \in Nat
        BY <1>1, BrokerAssumption DEF Waits, CallsTyped, TypeOK
      <4> QED
        BY <4>1 DEF Least
    <3>3. waitDeadline' \in [Calls -> Nat]
      BY <1>1, <3>1, <3>2 DEF CallsTyped
    <3>4. Known(c, 0) /\ callState' = [callState EXCEPT ![c] = "queued"] /\ attempts[c] < MaxAttempts
      BY <2>1, <2>3 DEF SettleThrottled, CanRetry
    <3> QED
      BY <2>2, <3>3, <3>4, KnownKeeps
  <2>4. CASE ~CanRetry(c)
    <3>1. Known(c, 0) /\ callState' = [callState EXCEPT ![c] = "failed"] /\ waitDeadline' \in [Calls -> Nat]
      BY <1>1, <2>1, <2>4 DEF SettleThrottled, CallsTyped
    <3> QED
      BY <2>2, <3>1, KnownKeeps
  <2> QED
    BY <2>3, <2>4
<1>4. CASE SettleUnknown(c)
  BY <1>4, UnknownKeeps
<1> QED
  BY <1>2, <1>3, <1>4 DEF Settle

-----------------------------------------------------------------------------
(* Recovery, initial state, and the theorems *)

\* A restart turns what was in flight into unknown outcomes and releases nothing.
LEMMA RestartKeeps ==
  ASSUME IInv, NEW lost \in SUBSET Systems, Restart(lost)
  PROVE  IInv'
<1>1. /\ session' = [c \in Calls |-> "none"] /\ broken' = FALSE
      /\ systemState' = [s \in Systems |-> IF s \in lost THEN "stopped" ELSE systemState[s]]
      /\ authorised' = [c \in Calls |-> authorised[c] /\ ~(SystemOf[c] \in lost /\ callState[c] # "none")]
      /\ UNCHANGED <<now, sequence, reservation, deadline, waitDeadline, callUsed,
                     attempts, attemptAt, attemptTokens, lastAdmission, moneyVars, quotaVars>>
  BY DEF Restart, Recover
<1>2. /\ attemptState' = [x \in Attempts |-> IF attemptState[x] = "running" THEN "unknown" ELSE attemptState[x]]
      /\ callState' = [c \in Calls |-> IF callState[c] = "running" THEN "unknown" ELSE callState[c]]
  BY DEF Restart
<1>3. TypeOK'
  <2>1. CallsTyped'
    <3>1. authorised' \in [Calls -> BOOLEAN]
      BY <1>1 DEF IInv, TypeOK, CallsTyped
    <3> QED
      BY <1>1, <1>2, <3>1 DEF IInv, TypeOK, CallsTyped, Final
  <2>2. AttemptsTyped'
    BY <1>1, <1>2 DEF IInv, TypeOK, AttemptsTyped
  <2>3. MoneyTyped' /\ QuotasTyped'
    BY <1>1, UnchangedTypes DEF IInv, TypeOK
  <2> QED
    BY <1>1, <2>1, <2>2, <2>3 DEF IInv, TypeOK
<1>4. AttemptsConsistent'
  <2> SUFFICES ASSUME NEW d \in Calls, NEW n \in 1..MaxAttempts
               PROVE  /\ attemptState'[<<d, n>>] = "none" <=> n > attempts'[d]
                      /\ attemptState'[<<d, n>>] = "running" <=> (callState'[d] = "running" /\ n = attempts'[d])
                      /\ attemptState'[<<d, n>>] = "unknown" <=> (callState'[d] = "unknown" /\ n = attempts'[d])
    BY DEF AttemptsConsistent
  <2>1. <<d, n>> \in Attempts
    BY DEF Attempts
  <2>2. /\ attemptState[<<d, n>>] = "none" <=> n > attempts[d]
        /\ attemptState[<<d, n>>] = "running" <=> (callState[d] = "running" /\ n = attempts[d])
        /\ attemptState[<<d, n>>] = "unknown" <=> (callState[d] = "unknown" /\ n = attempts[d])
    BY DEF IInv, AttemptsConsistent
  <2> QED
    BY <1>1, <1>2, <2>1, <2>2
<1>5. Reservations'
  BY <1>1, <1>2 DEF IInv, Reservations
<1>6. CallStages'
  BY <1>1, <1>2 DEF IInv, CallStages, Waiting
<1>7. LedgerBalanced'
  <2>1. \A a \in Accounts : Held(a)' = Held(a)
    BY <1>2 DEF Held
  <2> QED
    BY <1>1, <2>1 DEF IInv, LedgerBalanced, moneyVars
<1>8. BudgetRespected'
  <2>1. \A y \in Attempts : (attemptState'[y] = "known") <=> (attemptState[y] = "known")
    BY <1>2
  <2>2. \A a \in Accounts : Overrun(a)' = Overrun(a)
    BY <1>1, <2>1, OverrunSame DEF IInv
  <2> QED
    BY <1>1, <2>2 DEF IInv, BudgetRespected, moneyVars
<1>9. ConcurrencyRespected'
  <2> SUFFICES ASSUME NEW g \in Groups PROVE Cardinality(InFlight(g)') <= MaxConcurrent[g]
    BY DEF ConcurrencyRespected
  <2>1. InFlight(g)' = {}
    BY <1>2 DEF InFlight, Dispatched
  <2> QED
    BY <2>1, FS_EmptySet, BrokerAssumption
<1> QED
  BY <1>3, <1>4, <1>5, <1>6, <1>7, <1>8, <1>9 DEF IInv

LEMMA InitHolds == Init => IInv
<1> SUFFICES ASSUME Init PROVE IInv
  OBVIOUS
<1> USE DEF Init
<1>1. TypeOK
  <2>1. \A g \in Groups : BurstRequests[g] * CreditUnit \in Nat
    BY BrokerAssumption
  <2>2. CallsTyped
    BY DEF CallsTyped
  <2>3. AttemptsTyped
    BY DEF AttemptsTyped, MaxAttempts
  <2>4. MoneyTyped
    BY DEF MoneyTyped
  <2>5. QuotasTyped
    BY <2>1 DEF QuotasTyped
  <2> QED
    BY <2>2, <2>3, <2>4, <2>5 DEF TypeOK
<1>2. AttemptsConsistent
  BY DEF AttemptsConsistent, Attempts, MaxAttempts
<1>3. Reservations
  BY DEF Reservations
<1>4. CallStages
  BY DEF CallStages, Waiting, MaxAttempts
<1>5. \A a \in Accounts : Held(a) = {} /\ Overruns(a) = {}
  BY DEF Held, Overruns
<1>6. LedgerBalanced
  <2>1. \A a \in Accounts : Weight({c \in Calls : a \in Charged[c]}, callUsed) = 0
    BY WeightZero
  <2> QED
    BY <1>5, <2>1, WeightEmpty DEF LedgerBalanced
<1>7. BudgetRespected
  <2>1. \A a \in Accounts : Overrun(a) = 0
    BY <1>5, WeightEmpty DEF Overrun
  <2> QED
    BY <2>1, BrokerAssumption DEF BudgetRespected
<1>8. ConcurrencyRespected
  <2>1. \A g \in Groups : InFlight(g) = {}
    BY DEF InFlight, Dispatched
  <2>2. \A g \in Groups : Cardinality(InFlight(g)) = 0 /\ MaxConcurrent[g] \in Nat
    BY <2>1, FS_EmptySet, BrokerAssumption
  <2> QED
    BY <2>2 DEF ConcurrencyRespected
<1> QED
  BY <1>1, <1>2, <1>3, <1>4, <1>6, <1>7, <1>8 DEF IInv

\* Every step is quiet, a dispatch, a settlement or a restart.
LEMMA StepKinds ==
  ASSUME IInv, [Next]_vars
  PROVE  \/ Quiet /\ TypeOK'
         \/ \E c \in Calls : Admit(c) /\ Dispatch(c)
         \/ \E c \in Calls : Settle(c)
         \/ \E lost \in SUBSET Systems : Restart(lost)
<1>0. TypeOK
  BY DEF IInv
<1>1. ASSUME NEW c \in Calls, NEW r \in Sizes, Start(c, r) \/ Prepare(c, r) \/ Claim(c, r)
      PROVE  Quiet /\ TypeOK'
  BY <1>0, <1>1, CallTypes, QuietSteps
<1>2. ASSUME NEW c \in Calls, Admit(c)
      PROVE  (Quiet /\ TypeOK') \/ (Admit(c) /\ Dispatch(c))
  BY <1>2, SweepStep DEF Admit
<1>3. ASSUME NEW c \in Calls, Queue(c) \/ StorageFails(c) \/ SettleFails(c) \/ Leave(c) \/ CancelQueued(c)
      PROVE  Quiet /\ TypeOK'
  BY <1>0, <1>3, WithdrawTypes, QuietSteps
<1>4. ASSUME NEW c \in Calls, NEW again \in BOOLEAN, Release(c, again)
      PROVE  Quiet /\ TypeOK'
  BY <1>0, <1>4, WithdrawTypes, QuietSteps
<1>5. ASSUME NEW c \in Calls, EndTask(c)
      PROVE  Quiet /\ TypeOK'
  BY <1>0, <1>5, ControlTypes, QuietSteps
<1>6. ASSUME NEW s \in Systems, Pause(s) \/ Resume(s) \/ Stop(s) \/ Stopped(s) \/ Finish(s)
      PROVE  Quiet /\ TypeOK'
  BY <1>0, <1>6, ControlTypes, QuietSteps
<1>7. ASSUME Tick \/ SetBack
      PROVE  Quiet /\ TypeOK'
  BY <1>0, <1>7, ControlTypes, QuietSteps
<1>8. ASSUME UNCHANGED vars
      PROVE  Quiet /\ TypeOK'
  <2>1. Quiet
    BY <1>8 DEF vars, Quiet, callVars, attemptVars, moneyVars, Waiting
  <2>2. TypeOK'
    BY <1>0, <1>8, UnchangedTypes DEF vars, TypeOK
  <2> QED
    BY <2>1, <2>2
<1> QED
  BY <1>1, <1>2, <1>3, <1>4, <1>5, <1>6, <1>7, <1>8 DEF Next, Broker

\* Every step keeps the invariant.
LEMMA NextKeeps == IInv /\ [Next]_vars => IInv'
<1> SUFFICES ASSUME IInv, [Next]_vars PROVE IInv'
  OBVIOUS
<1>1. CASE Quiet /\ TypeOK'
  BY <1>1, QuietKeeps
<1>2. CASE \E c \in Calls : Admit(c) /\ Dispatch(c)
  BY <1>2, DispatchKeeps
<1>3. CASE \E c \in Calls : Settle(c)
  BY <1>3, SettleKeeps
<1>4. CASE \E lost \in SUBSET Systems : Restart(lost)
  BY <1>4, RestartKeeps
<1> QED
  BY <1>1, <1>2, <1>3, <1>4, StepKinds

\* The inductive invariant holds in every reachable state.
LEMMA Inductive == Spec => []IInv
<1> QED
  BY InitHolds, NextKeeps, PTL DEF Spec

\* Token counters never leave their domains, whatever the order of admissions,
\* settlements, stops, restarts and clock changes.
THEOREM TypesCorrect == Spec => []TypeOK
<1>1. IInv => TypeOK
  BY DEF IInv
<1> QED
  BY <1>1, Inductive, PTL

\* The three ledgers always agree with the rows in model_attempts and model_calls.
THEOREM LedgerCorrect == Spec => []LedgerBalanced
<1>1. IInv => LedgerBalanced
  BY DEF IInv
<1> QED
  BY <1>1, Inductive, PTL

\* No budget is exceeded but by usage reported above a reservation.
THEOREM BudgetCorrect == Spec => []BudgetRespected
<1>1. IInv => BudgetRespected
  BY DEF IInv
<1> QED
  BY <1>1, Inductive, PTL

\* No quota group exceeds max_concurrent.
THEOREM ConcurrencyCorrect == Spec => []ConcurrencyRespected
<1>1. IInv => ConcurrencyRespected
  BY DEF IInv
<1> QED
  BY <1>1, Inductive, PTL

\* Calls and their attempts agree; only a call's last attempt is live or unknown.
THEOREM AttemptsCorrect == Spec => []AttemptsConsistent
<1>1. IInv => AttemptsConsistent
  BY DEF IInv
<1> QED
  BY <1>1, Inductive, PTL

\* The outcome of a call is written once.
THEOREM OutcomesStay == Spec => OutcomeFinal
<1>1. IInv /\ [Next]_vars => [\A c \in Calls : callState[c] \in Final => callState'[c] = callState[c]]_vars
  <2> SUFFICES ASSUME IInv, [Next]_vars, NEW c \in Calls, callState[c] \in Final
               PROVE  callState'[c] = callState[c]
    OBVIOUS
  <2>0. callState \in [Calls -> {"none", "running"} \cup Waiting \cup Final]
    BY DEF IInv, TypeOK, CallsTyped
  <2>1. CASE Quiet
    BY <2>1 DEF Quiet, Waiting, Final
  <2>2. CASE \E d \in Calls : Admit(d) /\ Dispatch(d)
    <3>1. PICK d \in Calls : Admit(d) /\ Dispatch(d)
      BY <2>2
    <3>2. callState[d] = "queued" /\ \A e \in Calls \ {d} :
            callState'[e] = callState[e] \/ (callState[e] = "queued" /\ callState'[e] = "rejected")
      BY <3>1, DispatchFacts
    <3> QED
      BY <3>2 DEF Final
  <2>3. CASE \E d \in Calls : Settle(d)
    <3>1. PICK d \in Calls : Settle(d)
      BY <2>3
    <3>2. callState[d] = "running" /\ \E o : callState' = [callState EXCEPT ![d] = o]
      BY <3>1 DEF Settle, SettleKnown, SettleThrottled, SettleUnknown
    <3> QED
      BY <2>0, <3>2 DEF Final
  <2>4. CASE \E lost \in SUBSET Systems : Restart(lost)
    BY <2>0, <2>4 DEF Restart, Final
  <2> QED
    BY <2>1, <2>2, <2>3, <2>4, StepKinds
<1> QED
  BY <1>1, Inductive, PTL DEF Spec, OutcomeFinal

\* The attempt counter of a call only moves when that call is dispatched.
LEMMA OnlyDispatch ==
  ASSUME IInv, [Next]_vars, NEW c \in Calls, Dispatches(c)
  PROVE  Admit(c) /\ Dispatch(c)
<1>0. attempts \in [Calls -> 0..MaxAttempts] /\ attempts'[c] # attempts[c]
  BY DEF IInv, TypeOK, AttemptsTyped, MaxAttempts, Dispatches
<1>1. ~Quiet
  BY <1>0 DEF Quiet
<1>2. \A d \in Calls : ~Settle(d)
  BY <1>0 DEF Settle
<1>3. \A lost \in SUBSET Systems : ~Restart(lost)
  BY <1>0 DEF Restart, Recover
<1>4. PICK d \in Calls : Admit(d) /\ Dispatch(d)
  BY <1>1, <1>2, <1>3, StepKinds
<1>5. d = c
  BY <1>0, <1>4 DEF Dispatch
<1> QED
  BY <1>4, <1>5

\* Only explicit throttles are retried, and nothing was used or is still held.
THEOREM RetriesSafe == Spec => OnlyThrottledRetried
<1>1. IInv /\ [Next]_vars =>
        [\A c \in Calls : Dispatches(c) /\ attempts[c] > 0 =>
           attemptState[<<c, attempts[c]>>] = "known" /\ callUsed[c] = 0]_vars
  <2> SUFFICES ASSUME IInv, [Next]_vars, NEW c \in Calls, Dispatches(c), attempts[c] > 0
               PROVE  attemptState[<<c, attempts[c]>>] = "known" /\ callUsed[c] = 0
    OBVIOUS
  <2>0. attempts \in [Calls -> 0..MaxAttempts] /\ attempts[c] \in Nat
    BY DEF IInv, TypeOK, AttemptsTyped, MaxAttempts
  <2>4. callState[c] = "queued"
    BY OnlyDispatch, DispatchFacts
  <2>5. attempts[c] \in 1..MaxAttempts /\ <<c, attempts[c]>> \in Attempts
    BY <2>0 DEF MaxAttempts, Attempts
  <2>6. attemptState[<<c, attempts[c]>>] \notin {"none", "running", "unknown"}
    BY <2>0, <2>4, <2>5 DEF IInv, AttemptsConsistent
  <2> QED
    BY <2>4, <2>5, <2>6 DEF IInv, TypeOK, AttemptsTyped, CallStages, Waiting
<1> QED
  BY <1>1, Inductive, PTL DEF Spec, OnlyThrottledRetried

\* The calls that count against the capacity of a group's queue.
InQueue(g) == {c \in Calls : g \in GroupsOf[c] /\ callState[c] \in Waiting}

\* If one call at most enters the queue of a group, and only when there is room,
\* the queue stays within its capacity.
LEMMA QueueStep ==
  ASSUME QueueBounded, NEW c \in Calls, NEW g \in Groups,
         InQueue(g)' \subseteq InQueue(g) \cup {c},
         ~(InQueue(g)' \subseteq InQueue(g)) => QueueLength(g) < QueueCapacity[g]
  PROVE  QueueLength(g)' <= QueueCapacity[g]
<1>1. QueueLength(g) = Cardinality(InQueue(g)) /\ QueueLength(g)' = Cardinality(InQueue(g)')
  BY DEF QueueLength, InQueue
<1>2. IsFiniteSet(InQueue(g)) /\ QueueCapacity[g] \in Nat
  BY FS_Subset, BrokerAssumption DEF InQueue
<1>3. Cardinality(InQueue(g)) \in Nat /\ Cardinality(InQueue(g)) <= QueueCapacity[g]
  BY <1>1, <1>2, FS_CardinalityType DEF QueueBounded
<1>4. CASE InQueue(g)' \subseteq InQueue(g)
  <2>1. IsFiniteSet(InQueue(g)') /\ Cardinality(InQueue(g)') <= Cardinality(InQueue(g))
    BY <1>2, <1>4, FS_Subset
  <2>2. Cardinality(InQueue(g)') \in Nat
    BY <2>1, FS_CardinalityType
  <2> QED
    BY <2>1, <2>2, <1>1, <1>2, <1>3
<1>5. CASE ~(InQueue(g)' \subseteq InQueue(g))
  <2>1. /\ IsFiniteSet(InQueue(g) \cup {c})
        /\ Cardinality(InQueue(g) \cup {c}) = IF c \in InQueue(g) THEN Cardinality(InQueue(g)) ELSE Cardinality(InQueue(g)) + 1
    BY <1>2, FS_AddElement
  <2>2. IsFiniteSet(InQueue(g)') /\ Cardinality(InQueue(g)') <= Cardinality(InQueue(g) \cup {c})
    BY <2>1, FS_Subset
  <2>3. Cardinality(InQueue(g)') \in Nat
    BY <2>2, FS_CardinalityType
  <2> QED
    BY <2>1, <2>2, <2>3, <1>1, <1>2, <1>3, <1>5
<1> QED
  BY <1>4, <1>5

\* Prepared, restarted and throttled calls together never overfill a queue.
THEOREM QueueCorrect == Spec => []QueueBounded
<1>1. Init => QueueBounded
  <2> SUFFICES ASSUME Init PROVE QueueBounded
    OBVIOUS
  <2>1. \A g \in Groups : {c \in Calls : g \in GroupsOf[c] /\ callState[c] \in Waiting} = {}
    BY DEF Init, Waiting
  <2>2. \A g \in Groups : QueueLength(g) = 0 /\ QueueCapacity[g] \in Nat
    BY <2>1, FS_EmptySet, BrokerAssumption DEF QueueLength
  <2> QED
    BY <2>2 DEF QueueBounded
<1>2. IInv /\ QueueBounded /\ [Next]_vars => QueueBounded'
  <2> SUFFICES ASSUME IInv, QueueBounded, [Next]_vars, NEW g \in Groups
               PROVE  QueueLength(g)' <= QueueCapacity[g]
    BY DEF QueueBounded
  <2>0. callState \in [Calls -> {"none", "running"} \cup Waiting \cup Final]
    BY DEF IInv, TypeOK, CallsTyped
  <2>1. ASSUME InQueue(g)' \subseteq InQueue(g) PROVE QueueLength(g)' <= QueueCapacity[g]
    <3>1. CASE Calls = {}
      <4>1. QueueLength(g)' = QueueLength(g)
        BY <3>1 DEF QueueLength
      <4> QED
        BY <4>1 DEF QueueBounded
    <3>2. CASE Calls # {}
      <4>1. PICK c \in Calls : TRUE
        BY <3>2
      <4> QED
        BY <2>1, <4>1, QueueStep
    <3> QED
      BY <3>1, <3>2
  <2>2. CASE Quiet /\ \A c \in Calls : ~(callState[c] = "none" /\ callState'[c] \in Waiting)
    <3>1. InQueue(g)' \subseteq InQueue(g)
      BY <2>2 DEF InQueue, Quiet, Waiting, Final
    <3> QED
      BY <2>1, <3>1
  <2>3. CASE Quiet /\ \E c \in Calls : callState[c] = "none" /\ callState'[c] \in Waiting
    <3>1. PICK c \in Calls : callState[c] = "none" /\ callState'[c] \in Waiting
      BY <2>3
    <3>2. /\ \A h \in GroupsOf[c] : QueueLength(h) < QueueCapacity[h]
          /\ \A d \in Calls \ {c} : callState'[d] = callState[d]
      BY <2>3, <3>1 DEF Quiet
    <3>3. InQueue(g)' \subseteq InQueue(g) \cup {c}
      BY <3>2 DEF InQueue
    <3>4. g \notin GroupsOf[c] => InQueue(g)' \subseteq InQueue(g)
      BY <3>2 DEF InQueue
    <3> QED
      BY <3>2, <3>3, <3>4, QueueStep
  <2>4. CASE \E d \in Calls : Admit(d) /\ Dispatch(d)
    <3>1. PICK d \in Calls : Admit(d) /\ Dispatch(d)
      BY <2>4
    <3>2. /\ callState'[d] = "running"
          /\ \A e \in Calls \ {d} :
               callState'[e] = callState[e] \/ (callState[e] = "queued" /\ callState'[e] = "rejected")
      BY <3>1, DispatchFacts
    <3>3. InQueue(g)' \subseteq InQueue(g)
      BY <3>2 DEF InQueue, Waiting
    <3> QED
      BY <2>1, <3>3
  <2>5. CASE \E d \in Calls : Settle(d)
    <3>1. PICK d \in Calls : Settle(d)
      BY <2>5
    <3>2. PICK o : callState' = [callState EXCEPT ![d] = o]
      BY <3>1 DEF Settle, SettleKnown, SettleThrottled, SettleUnknown
    <3>3. \A e \in Calls \ {d} : callState'[e] = callState[e]
      BY <2>0, <3>2
    <3>4. InQueue(g)' \subseteq InQueue(g) \cup {d}
      BY <3>3 DEF InQueue
    <3>5. ~(InQueue(g)' \subseteq InQueue(g)) => g \in GroupsOf[d] /\ callState'[d] \in Waiting
      BY <3>3 DEF InQueue
    <3>6. callState'[d] \in Waiting => CanRetry(d)
      BY <2>0, <3>1 DEF Settle, SettleKnown, SettleThrottled, SettleUnknown, Waiting
    <3>7. CanRetry(d) => \A h \in GroupsOf[d] : QueueLength(h) < QueueCapacity[h]
      BY DEF CanRetry
    <3> QED
      BY <3>4, <3>5, <3>6, <3>7, QueueStep
  <2>6. CASE \E lost \in SUBSET Systems : Restart(lost)
    <3>1. \A c \in Calls : callState'[c] = IF callState[c] = "running" THEN "unknown" ELSE callState[c]
      BY <2>0, <2>6 DEF Restart
    <3>2. InQueue(g)' \subseteq InQueue(g)
      BY <3>1 DEF InQueue, Waiting
    <3> QED
      BY <2>1, <3>2
  <2> QED
    BY <2>2, <2>3, <2>4, <2>5, <2>6, StepKinds
<1> QED
  BY <1>1, <1>2, Inductive, PTL DEF Spec

-----------------------------------------------------------------------------
(* Round robin *)

\* No call of a system that was admitted longer ago was ready when a call is
\* dispatched: a ready call that comes before the dispatched one has fewer calls
\* before it, so the scan reaches it first.
THEOREM RoundRobin == Spec => NoLeapfrog
<1>1. IInv /\ [Next]_vars =>
        [\A c, d \in Calls : Dispatches(c) /\ d \in Admissible =>
           lastAdmission[SystemOf[c]] <= lastAdmission[SystemOf[d]]]_vars
  <2> SUFFICES ASSUME IInv, [Next]_vars, NEW c \in Calls, NEW d \in Calls, Dispatches(c), d \in Admissible,
                      ~(lastAdmission[SystemOf[c]] <= lastAdmission[SystemOf[d]])
               PROVE  FALSE
    OBVIOUS
  <2>1. c \in Candidates /\ \A e \in Admissible \cap Candidates : ~Before(e, c)
    BY OnlyDispatch DEF Dispatch, IsNext
  <2>2. \A e \in Calls : lastAdmission[SystemOf[e]] \in Nat /\ sequence[e] \in Nat
    BY BrokerAssumption DEF IInv, TypeOK, AttemptsTyped, CallsTyped
  <2>3. lastAdmission[SystemOf[d]] < lastAdmission[SystemOf[c]]
    BY <2>2
  <2>4. \A e \in Calls : Before(e, d) => Before(e, c)
    BY <2>2, <2>3 DEF Before
  <2>5. {e \in Queued : Before(e, d)} \subseteq {e \in Queued : Before(e, c)}
    BY <2>4 DEF Queued
  <2>6. IsFiniteSet({e \in Queued : Before(e, c)})
    BY FS_Subset, BrokerAssumption DEF Queued
  <2>7. Cardinality({e \in Queued : Before(e, d)}) < ScanLimit
    <3>1. /\ IsFiniteSet({e \in Queued : Before(e, d)})
          /\ Cardinality({e \in Queued : Before(e, d)}) <= Cardinality({e \in Queued : Before(e, c)})
      BY <2>5, <2>6, FS_Subset
    <3>2. Cardinality({e \in Queued : Before(e, c)}) < ScanLimit
      BY <2>1 DEF Candidates
    <3>3. Cardinality({e \in Queued : Before(e, d)}) \in Nat /\ Cardinality({e \in Queued : Before(e, c)}) \in Nat
      BY <3>1, <2>6, FS_CardinalityType
    <3> QED
      BY <3>1, <3>2, <3>3, BrokerAssumption
  <2>8. d \in Candidates
    BY <2>7 DEF Candidates, Admissible
  <2> QED
    BY <2>1, <2>3, <2>8 DEF Before
<1> QED
  BY <1>1, Inductive, PTL DEF Spec, NoLeapfrog

-----------------------------------------------------------------------------
(* Rates: what moves the clock and the credit of a group *)

\* Outside admission no quota moves but a cooldown, and only a wall clock that
\* may be set back is set back.
LEMMA QuotasStand ==
  ASSUME TypeOK, [Next]_vars, \A c \in Calls : ~Admit(c)
  PROVE  UNCHANGED <<attemptAt, credit, updated>> /\ (MaxSkew = 0 => now' >= now)
<1> USE DEF callVars, attemptVars, moneyVars, quotaVars
<1> DEFINE Still == UNCHANGED <<attemptAt, credit, updated>> /\ (MaxSkew = 0 => now' >= now)
<1>0. now \in Nat
  BY DEF TypeOK
<1>1. ASSUME NEW c \in Calls, NEW r \in Sizes, Start(c, r) \/ Prepare(c, r) \/ Claim(c, r)
      PROVE  Still
  BY <1>0, <1>1 DEF Start, Prepare, Claim, Insert
<1>2. ASSUME NEW c \in Calls, NEW again \in BOOLEAN, Release(c, again) \/ EndTask(c)
      PROVE  Still
  BY <1>0, <1>2 DEF Release, EndTask
<1>3. ASSUME NEW c \in Calls, Queue(c) \/ StorageFails(c) \/ SettleFails(c) \/ Leave(c) \/ CancelQueued(c)
      PROVE  Still
  BY <1>0, <1>3 DEF Queue, StorageFails, SettleFails, Leave, CancelQueued
<1>4. ASSUME NEW c \in Calls, Settle(c)
      PROVE  Still
  BY <1>0, <1>4 DEF Settle
<1>5. ASSUME NEW s \in Systems, Pause(s) \/ Resume(s) \/ Stop(s) \/ Stopped(s) \/ Finish(s)
      PROVE  Still
  <2>1. UNCHANGED <<attemptAt, credit, updated, now>>
    BY <1>5 DEF Pause, Resume, Stop, Stopped, Finish
  <2> QED
    BY <1>0, <2>1
<1>6. ASSUME NEW lost \in SUBSET Systems, Restart(lost)
      PROVE  Still
  BY <1>0, <1>6 DEF Restart, Recover
<1>7. ASSUME Tick
      PROVE  Still
  BY <1>0, <1>7 DEF Tick
<1>8. ASSUME SetBack
      PROVE  Still
  BY <1>0, <1>8 DEF SetBack
<1>9. ASSUME UNCHANGED vars
      PROVE  Still
  BY <1>0, <1>9 DEF vars
<1> HIDE DEF Still
<1>10. Still
  BY <1>1, <1>2, <1>3, <1>4, <1>5, <1>6, <1>7, <1>8, <1>9 DEF Next, Broker
<1> QED
  BY <1>10 DEF Still

\* The refilled credit is within the burst, and no more than what time refilled.
LEMMA RefillBound ==
  ASSUME TypeOK, NEW g \in Groups
  PROVE  /\ Refilled(g) <= BurstRequests[g] * CreditUnit
         /\ Refilled(g) <= credit[g] + (Effective(g) - updated[g]) * Refill[g]
<1>1. credit[g] \in Nat /\ Effective(g) - updated[g] \in Nat
  BY RefillType DEF TypeOK, QuotasTyped
<1>2. \A m, n \in Nat : m * n \in Nat
  OBVIOUS
<1>3. BurstRequests[g] * CreditUnit \in Nat /\ (Effective(g) - updated[g]) * Refill[g] \in Nat
  BY <1>1, <1>2, BrokerAssumption
<1>4. \A m, n \in Nat : Least(m, n) <= m /\ Least(m, n) <= n
  BY DEF Least
<1>5. credit[g] + (Effective(g) - updated[g]) * Refill[g] \in Nat
  BY <1>1, <1>3
<1> QED
  BY <1>3, <1>4, <1>5 DEF Refilled

\* The group's bucket is refilled at its own clock, which catches up.
Refreshed(g) == updated'[g] = Effective(g) /\ credit'[g] = Refilled(g)

\* No request of a group leaves, and its bucket stands still or is refilled.
Standing(g) ==
  /\ Dispatched(g)' = Dispatched(g)
  /\ \A x \in Dispatched(g) : attemptAt'[x] = attemptAt[x] /\ reservation'[x[1]] = reservation[x[1]]
  /\ (updated'[g] = updated[g] /\ credit'[g] = credit[g]) \/ Refreshed(g)

\* One request of call c leaves at time t: its groups' buckets are refilled and pay for it.
Sends(c, t) ==
  LET x == <<c, attempts[c] + 1>> IN
  /\ x \in Attempts /\ attemptState[x] = "none"
  /\ attemptAt'[x] = t /\ reservation'[c] = reservation[c]
  /\ t \in {Effective(g) : g \in GroupsOf[c]} /\ \A g \in GroupsOf[c] : Effective(g) <= t
  /\ \A g \in GroupsOf[c] :
       /\ GroupAllows(g, c)
       /\ updated'[g] = Effective(g) /\ credit'[g] = Refilled(g) - CreditUnit
       /\ Dispatched(g)' = Dispatched(g) \cup {x}
       /\ \A y \in Dispatched(g) : attemptAt'[y] = attemptAt[y] /\ reservation'[y[1]] = reservation[y[1]]
  /\ \A g \in Groups \ GroupsOf[c] : Standing(g)
  /\ now' = now

\* A scan that sends nothing leaves every bucket alone or refills it.
LEMMA SweepQuotas ==
  ASSUME NEW c \in Calls, NEW visited, NEW denied, Scan(c, visited, FALSE, denied),
         NEW g \in Groups, Refilled(g) \in Nat
  PROVE  (updated'[g] = updated[g] /\ credit'[g] = credit[g]) \/ Refreshed(g)
<1> DEFINE touched == UNION {GroupsOf[d] : d \in visited \ {e \in visited : ~Fit(e)}}
<1>1. /\ credit'[g] = IF g \in touched THEN Refilled(g) - 0 ELSE credit[g]
      /\ updated'[g] = IF g \in touched THEN Effective(g) ELSE updated[g]
  BY DEF Scan
<1> HIDE DEF touched
<1> QED
  BY <1>1 DEF Refreshed

\* The call that is dispatched is itself visited, so its groups are refilled.
LEMMA DispatchSends ==
  ASSUME IInv, NEW c \in Calls, Admit(c), Dispatch(c)
  PROVE  \E t \in Nat : Sends(c, t)
<1> DEFINE x == <<c, attempts[c] + 1>>
           touched == UNION {GroupsOf[d] : d \in Visited({c}) \ {e \in Visited({c}) : ~Fit(e)}}
           spent(g) == IF TRUE /\ g \in GroupsOf[c] THEN CreditUnit ELSE 0
<1>1. PICK t \in DispatchTimes(c) : attemptAt' = [attemptAt EXCEPT ![x] = t]
  BY DEF Dispatch
<1>2. /\ t \in {Effective(g) : g \in GroupsOf[c]} /\ \A g \in GroupsOf[c] : Effective(g) <= t
  BY DEF DispatchTimes
<1>3. GroupsOf[c] \subseteq Groups /\ t \in Nat
  BY <1>2, RefillType, BrokerAssumption DEF IInv
<1>4. /\ x \in Attempts /\ attemptState[x] = "none" /\ x[1] = c
      /\ attemptState' = [attemptState EXCEPT ![x] = "running"]
  BY DispatchFacts DEF Dispatch
<1>5. now' = now /\ reservation' = reservation
  BY DEF Admit
<1>6. attemptState \in [Attempts -> {"none", "running", "known", "unknown"}] /\ attemptAt \in [Attempts -> Nat]
  BY DEF IInv, TypeOK, AttemptsTyped
<1>7. /\ attemptAt'[x] = t /\ \A y \in Attempts \ {x} : attemptAt'[y] = attemptAt[y]
      /\ attemptState'[x] = "running" /\ \A y \in Attempts \ {x} : attemptState'[y] = attemptState[y]
  <2> HIDE DEF x
  <2> QED
    BY <1>1, <1>4, <1>6
<1>8. \A g \in Groups : Dispatched(g)' = IF g \in GroupsOf[c] THEN Dispatched(g) \cup {x} ELSE Dispatched(g)
  <2> HIDE DEF x
  <2> QED
    BY <1>4, <1>7 DEF Dispatched
<1>9. \A g \in Groups : \A y \in Dispatched(g) : attemptAt'[y] = attemptAt[y] /\ reservation'[y[1]] = reservation[y[1]]
  <2> HIDE DEF x
  <2> QED
    BY <1>4, <1>5, <1>7 DEF Dispatched
<1>10. \A g \in Groups : /\ credit'[g] = IF g \in touched THEN Refilled(g) - spent(g) ELSE credit[g]
                         /\ updated'[g] = IF g \in touched THEN Effective(g) ELSE updated[g]
  BY DEF Dispatch, Scan
<1>11. GroupsOf[c] \subseteq touched
  <2>1. c \in Candidates /\ Fit(c)
    BY DEF Dispatch, IsNext, Admissible
  <2>2. lastAdmission[SystemOf[c]] \in Nat /\ sequence[c] \in Nat
    BY BrokerAssumption DEF IInv, TypeOK, AttemptsTyped, CallsTyped
  <2>3. ~Before(c, c)
    BY <2>2 DEF Before
  <2>4. c \in Visited({c})
    BY <2>1, <2>3 DEF Visited
  <2> QED
    BY <2>1, <2>4
<1>12. \A g \in GroupsOf[c] : GroupAllows(g, c)
  BY DEF Dispatch, IsNext, Admissible
<1>13. \A g \in GroupsOf[c] : updated'[g] = Effective(g) /\ credit'[g] = Refilled(g) - CreditUnit
  <2> HIDE DEF touched
  <2> QED
    BY <1>3, <1>10, <1>11
<1>14. \A g \in Groups \ GroupsOf[c] : (updated'[g] = updated[g] /\ credit'[g] = credit[g]) \/ Refreshed(g)
  <2> TAKE g \in Groups \ GroupsOf[c]
  <2>1. Refilled(g) \in Nat /\ spent(g) = 0
    BY RefillType DEF IInv
  <2> HIDE DEF touched, spent
  <2> QED
    BY <1>10, <2>1 DEF Refreshed
<1>15. \A g \in Groups \ GroupsOf[c] : Standing(g)
  BY <1>8, <1>9, <1>14 DEF Standing
<1>16. Sends(c, t)
  <2> HIDE DEF touched, spent
  <2> QED
    BY <1>2, <1>3, <1>4, <1>5, <1>7, <1>8, <1>9, <1>12, <1>13, <1>15 DEF Sends
<1> QED
  BY <1>3, <1>16

\* Every step lets every group stand, or sends one request.
LEMMA RateSteps ==
  ASSUME IInv, [Next]_vars
  PROVE  \/ (\A g \in Groups : Standing(g)) /\ (MaxSkew = 0 => now' >= now)
         \/ \E c \in Calls, t \in Nat : Sends(c, t)
<1>1. ASSUME NEW c \in Calls, Admit(c), Dispatch(c)
      PROVE  \E d \in Calls, t \in Nat : Sends(d, t)
  BY <1>1, DispatchSends
<1>2. ASSUME NEW c \in Calls, Admit(c), Deny(c) \/ Sweep(c)
      PROVE  (\A g \in Groups : Standing(g)) /\ now' >= now
  <2>1. UNCHANGED <<attemptAt, attemptState, reservation, now>>
    BY <1>2 DEF Admit, Deny, Sweep, attemptVars
  <2>2. PICK visited, denied : Scan(c, visited, FALSE, denied)
    BY <1>2 DEF Deny, Sweep
  <2>3. \A g \in Groups : (updated'[g] = updated[g] /\ credit'[g] = credit[g]) \/ Refreshed(g)
    BY <2>2, SweepQuotas, RefillType DEF IInv
  <2>4. \A g \in Groups : Standing(g)
    BY <2>1, <2>3 DEF Standing, Dispatched
  <2> QED
    BY <2>1, <2>4 DEF IInv, TypeOK
<1>3. ASSUME \A c \in Calls : ~Admit(c)
      PROVE  (\A g \in Groups : Standing(g)) /\ (MaxSkew = 0 => now' >= now)
  <2>1. UNCHANGED <<attemptAt, credit, updated>> /\ (MaxSkew = 0 => now' >= now)
    BY <1>3, QuotasStand DEF IInv
  <2>2. /\ \A x \in Attempts : (attemptState'[x] # "none") <=> (attemptState[x] # "none")
        /\ \A x \in Attempts : attemptState[x] # "none" => reservation'[x[1]] = reservation[x[1]]
    <3>1. CASE Quiet
      <4>1. UNCHANGED attemptState /\ \A c \in Calls : reservation'[c] = reservation[c] \/ attempts[c] = 0
        BY <3>1 DEF Quiet
      <4> QED
        BY <4>1, DispatchedAttempt DEF IInv
    <3>2. CASE \E c \in Calls : Settle(c)
      <4>1. PICK c \in Calls : Settle(c)
        BY <3>2
      <4>2. PICK state \in {"known", "unknown"} : attemptState' = [attemptState EXCEPT ![<<c, attempts[c]>>] = state]
        BY <4>1 DEF Settle, SettleKnown, SettleThrottled, SettleUnknown, Known
      <4>3. reservation' = reservation /\ callState[c] = "running"
        BY <4>1 DEF Settle
      <4>4. <<c, attempts[c]>> \in Attempts /\ attemptState[<<c, attempts[c]>>] = "running"
        BY <4>3, LiveAttempt
      <4>5. attemptState \in [Attempts -> {"none", "running", "known", "unknown"}]
        BY DEF IInv, TypeOK, AttemptsTyped
      <4>6. \A x \in Attempts : attemptState'[x] = IF x = <<c, attempts[c]>> THEN state ELSE attemptState[x]
        BY <4>2, <4>5
      <4> QED
        BY <4>3, <4>4, <4>6
    <3>3. CASE \E lost \in SUBSET Systems : Restart(lost)
      <4>1. /\ reservation' = reservation
            /\ \A x \in Attempts : attemptState'[x] = IF attemptState[x] = "running" THEN "unknown" ELSE attemptState[x]
        BY <3>3 DEF Restart, Recover
      <4> QED
        BY <4>1
    <3> QED
      BY <1>3, <3>1, <3>2, <3>3, StepKinds
  <2>3. \A g \in Groups : Dispatched(g)' = Dispatched(g)
    BY <2>2 DEF Dispatched
  <2> QED
    BY <2>1, <2>2, <2>3 DEF Standing, Dispatched
<1> QED
  <2>1. CASE \E c \in Calls : Admit(c)
    <3>1. PICK c \in Calls : Admit(c) /\ (Dispatch(c) \/ Deny(c) \/ Sweep(c))
      BY <2>1 DEF Admit
    <3> QED
      BY <3>1, <1>1, <1>2
  <2> QED
    BY <2>1, <1>3

-----------------------------------------------------------------------------
(* Tokens per minute *)

Estimates == [x \in Attempts |-> reservation[x[1]]]

\* TokenRateRespected at every time, not only at those of a dispatch.
TokenLaw == \A g \in Groups : \A t \in Int : Weight(InWindow(g, t), Estimates) <= TokensPerMinute[g]

\* Sums of reservations over a group's dispatches are natural numbers.
LEMMA EstimatesType ==
  ASSUME TypeOK, NEW S, S \subseteq Attempts
  PROVE  IsFiniteSet(S) /\ (\A x \in S : Estimates[x] \in Nat) /\ Weight(S, Estimates) \in Nat
<1>1. IsFiniteSet(S)
  BY AttemptsFinite, FS_Subset
<1>2. \A x \in S : Estimates[x] \in Nat
  <2>1. \A x \in S : x[1] \in Calls /\ Estimates[x] = reservation[x[1]]
    BY DEF Attempts, Estimates
  <2> QED
    BY <2>1 DEF TypeOK, CallsTyped
<1> QED
  BY <1>1, <1>2, WeightType

\* A group that stands has the same windows as before.
LEMMA StandingWindows ==
  ASSUME NEW g \in Groups, NEW t \in Int,
         \A x \in Dispatched(g) : attemptAt'[x] = attemptAt[x] /\ reservation'[x[1]] = reservation[x[1]]
  PROVE  /\ {x \in Dispatched(g) : attemptAt'[x] <= t /\ attemptAt'[x] > t - Window} = InWindow(g, t)
         /\ Weight(InWindow(g, t), Estimates') = Weight(InWindow(g, t), Estimates)
<1>1. {x \in Dispatched(g) : attemptAt'[x] <= t /\ attemptAt'[x] > t - Window} = InWindow(g, t)
  BY DEF InWindow
<1>2. \A x \in InWindow(g, t) : Estimates'[x] = Estimates[x]
  BY DEF InWindow, Dispatched, Estimates
<1> QED
  BY <1>1, <1>2, WeightSame

\* A dispatch that falls into a window left room for everything already in it:
\* admission counts from the group's clock, and the dispatch is not recorded
\* before it, so what is in the window was counted, at its reservation or more.
LEMMA WindowHasRoom ==
  ASSUME IInv, NEW c \in Calls, NEW g \in Groups, NEW at \in Nat, NEW t \in Int,
         GroupAllows(g, c), Effective(g) <= at, at <= t
  PROVE  Weight(InWindow(g, t), Estimates) + reservation[c] <= TokensPerMinute[g]
<1> DEFINE W == {x \in Dispatched(g) : attemptAt[x] > Effective(g) - Window}
<1>0. TypeOK
  BY DEF IInv
<1>1. W \subseteq Attempts /\ InWindow(g, t) \subseteq W
  <2>1. Effective(g) \in Nat /\ Window \in Nat
    BY <1>0, RefillType, BrokerAssumption
  <2>2. \A x \in Attempts : attemptAt[x] \in Nat
    BY <1>0 DEF TypeOK, AttemptsTyped
  <2> QED
    BY <2>1, <2>2 DEF InWindow, Dispatched
<1>2. \A x \in W : Estimates[x] <= attemptTokens[x] /\ attemptTokens[x] \in Nat
  <2>1. \A x \in W : attemptState[x] \in {"running", "unknown", "known"} /\ Estimates[x] = reservation[x[1]]
    BY <1>0, <1>1 DEF Dispatched, TypeOK, AttemptsTyped, Estimates
  <2>2. \A x \in W : attemptTokens[x] \in Nat
    BY <1>0, <1>1 DEF TypeOK, AttemptsTyped
  <2>3. \A x \in W : Estimates[x] \in Nat
    BY <1>0, <1>1, EstimatesType
  <2> HIDE DEF W
  <2> QED
    BY <1>1, <2>1, <2>2, <2>3 DEF IInv, Reservations
<1>3. IsFiniteSet(W) /\ \A x \in W : Estimates[x] \in Nat
  BY <1>0, <1>1, EstimatesType
<1>4. Weight(InWindow(g, t), Estimates) <= Weight(W, attemptTokens)
  <2> HIDE DEF W
  <2> QED
    BY <1>1, <1>2, <1>3, WeightMonotone
<1>5. Weight(W, attemptTokens) + reservation[c] <= TokensPerMinute[g]
  BY DEF GroupAllows, WindowTokens
<1>6. Weight(W, attemptTokens) \in Nat /\ Weight(InWindow(g, t), Estimates) \in Nat
  <2>1. InWindow(g, t) \subseteq Attempts
    BY <1>1
  <2> HIDE DEF W
  <2> QED
    BY <1>0, <1>2, <1>3, <2>1, WeightType, EstimatesType
<1> HIDE DEF W
<1> QED
  BY <1>0, <1>4, <1>5, <1>6, BrokerAssumption DEF TypeOK, CallsTyped

\* No minute gets more reserved tokens than the quota, by any interleaving of
\* admissions, settlements, restarts and clock changes.
THEOREM TokenRateCorrect == Spec => []TokenRateRespected
<1>1. Init => TokenLaw
  <2> SUFFICES ASSUME Init, NEW g \in Groups, NEW t \in Int
               PROVE  Weight(InWindow(g, t), Estimates) <= TokensPerMinute[g]
    BY DEF TokenLaw
  <2>1. InWindow(g, t) = {}
    BY DEF Init, InWindow, Dispatched
  <2> QED
    BY <2>1, WeightEmpty, BrokerAssumption
<1>2. IInv /\ IInv' /\ TokenLaw /\ [Next]_vars => TokenLaw'
  <2> SUFFICES ASSUME IInv, IInv', TokenLaw, [Next]_vars, NEW g \in Groups, NEW t \in Int
               PROVE  Weight(InWindow(g, t)', Estimates') <= TokensPerMinute[g]
    BY DEF TokenLaw
  <2>0. TypeOK /\ Weight(InWindow(g, t), Estimates) <= TokensPerMinute[g]
    BY DEF TokenLaw, IInv
  <2>1. ASSUME Standing(g)
        PROVE  Weight(InWindow(g, t)', Estimates') <= TokensPerMinute[g]
    <3>1. InWindow(g, t)' = {x \in Dispatched(g) : attemptAt'[x] <= t /\ attemptAt'[x] > t - Window}
      BY <2>1 DEF InWindow, Standing
    <3> QED
      BY <2>0, <2>1, <3>1, StandingWindows DEF Standing
  <2>2. ASSUME NEW c \in Calls, NEW at \in Nat, Sends(c, at), g \in GroupsOf[c]
        PROVE  Weight(InWindow(g, t)', Estimates') <= TokensPerMinute[g]
    <3> DEFINE x == <<c, attempts[c] + 1>>
    <3>1. /\ x \in Attempts /\ x \notin Dispatched(g) /\ x[1] = c
          /\ attemptAt'[x] = at /\ reservation'[c] = reservation[c]
          /\ Effective(g) <= at /\ GroupAllows(g, c)
          /\ Dispatched(g)' = Dispatched(g) \cup {x}
          /\ \A y \in Dispatched(g) : attemptAt'[y] = attemptAt[y] /\ reservation'[y[1]] = reservation[y[1]]
      BY <2>2 DEF Sends, Dispatched
    <3>2. Weight(InWindow(g, t), Estimates') = Weight(InWindow(g, t), Estimates)
      BY <3>1, StandingWindows
    <3>3. InWindow(g, t)' = IF at <= t /\ at > t - Window THEN InWindow(g, t) \cup {x} ELSE InWindow(g, t)
      <4> HIDE DEF x
      <4> QED
        BY <3>1 DEF InWindow
    <3>4. CASE at <= t /\ at > t - Window
      <4>1. InWindow(g, t)' = InWindow(g, t) \cup {x} /\ InWindow(g, t) \cup {x} \subseteq Attempts
        BY <3>1, <3>3, <3>4 DEF InWindow, Dispatched
      <4>2. \A y \in InWindow(g, t) \cup {x} : Estimates'[y] \in Nat
        <5>1. \A y \in Attempts : Estimates'[y] = reservation'[y[1]] /\ y[1] \in Calls
          BY DEF Estimates, Attempts
        <5>2. reservation' \in [Calls -> Nat]
          BY DEF IInv, TypeOK, CallsTyped
        <5> HIDE DEF x
        <5> QED
          BY <4>1, <5>1, <5>2
      <4>3. Estimates'[x] = reservation[c]
        <5> HIDE DEF x
        <5> QED
          BY <3>1 DEF Estimates
      <4>4. IsFiniteSet(InWindow(g, t)) /\ x \notin InWindow(g, t)
        <5>1. InWindow(g, t) \subseteq Attempts
          BY <4>1
        <5> QED
          BY <2>0, <3>1, <5>1, EstimatesType DEF InWindow
      <4>5. Weight(InWindow(g, t) \cup {x}, Estimates') = Weight(InWindow(g, t), Estimates') + Estimates'[x]
        <5> HIDE DEF x
        <5> QED
          BY <4>2, <4>4, WeightAdd
      <4>6. Weight(InWindow(g, t), Estimates) + reservation[c] <= TokensPerMinute[g]
        BY <3>1, <3>4, WindowHasRoom
      <4> HIDE DEF x
      <4> QED
        BY <3>2, <4>1, <4>3, <4>5, <4>6
    <3>5. CASE ~(at <= t /\ at > t - Window)
      BY <2>0, <3>2, <3>3, <3>5
    <3> QED
      BY <3>4, <3>5
  <2>3. ASSUME NEW c \in Calls, NEW at \in Nat, Sends(c, at), g \notin GroupsOf[c]
        PROVE  Standing(g)
    BY <2>3 DEF Sends
  <2> QED
    BY <2>1, <2>2, <2>3, RateSteps
<1>3. IInv /\ TokenLaw => TokenRateRespected
  <2> SUFFICES ASSUME IInv, TokenLaw, NEW g \in Groups, NEW x \in Dispatched(g)
               PROVE  Weight(InWindow(g, attemptAt[x]), Estimates) <= TokensPerMinute[g]
    BY DEF TokenRateRespected, Estimates
  <2>1. attemptAt[x] \in Int
    BY DEF IInv, TypeOK, AttemptsTyped, Dispatched
  <2> QED
    BY <2>1 DEF TokenLaw
<1> QED
  BY <1>1, <1>2, <1>3, Inductive, PTL DEF Spec

-----------------------------------------------------------------------------
(* Requests per minute *)

Burst(g) == BurstRequests[g] * CreditUnit

\* The dispatches on the group's own clock since time t, or between two times.
Since(g, t) == {z \in OwnTime(g) : attemptAt[z] >= t}
Between(g, t, u) == {z \in OwnTime(g) : attemptAt[z] \in t..u}

\* The bucket of a group is what was refilled less what was spent, since the
\* beginning and since every dispatch at the group's own clock.
BucketLaw(g) ==
  /\ credit[g] <= Burst(g) /\ (MaxSkew = 0 => updated[g] <= now)
  /\ CreditUnit * Cardinality(Dispatched(g)) + credit[g] <= Burst(g) + updated[g] * Refill[g]
  /\ \A x \in OwnTime(g) :
       /\ attemptAt[x] <= updated[g]
       /\ CreditUnit * Cardinality(Since(g, attemptAt[x])) + credit[g]
            <= Burst(g) + (updated[g] - attemptAt[x]) * Refill[g]
       /\ \A y \in OwnTime(g) : attemptAt[x] <= attemptAt[y] =>
            CreditUnit * Cardinality(Between(g, attemptAt[x], attemptAt[y]))
              <= Burst(g) + (attemptAt[y] - attemptAt[x]) * Refill[g]

\* Refilling over two intervals is refilling over their union.
LEMMA RefillSplits ==
  ASSUME NEW a \in Nat, NEW b \in Nat, NEW c \in Nat, NEW r \in Nat, a <= b, b <= c
  PROVE  /\ (b - a) * r \in Nat /\ (c - b) * r \in Nat /\ (c - a) * r \in Nat
         /\ (c - a) * r = (c - b) * r + (b - a) * r
<1>1. PICK m \in Nat : m = b - a
  OBVIOUS
<1>2. PICK n \in Nat : n = c - b
  OBVIOUS
<1>3. c - a = n + m
  BY <1>1, <1>2
<1>4. (n + m) * r = n * r + m * r
  OBVIOUS
<1>5. \A i, j \in Nat : i * j \in Nat
  OBVIOUS
<1> QED
  BY <1>1, <1>2, <1>3, <1>4, <1>5

\* One more dispatch costs one more request.
LEMMA OneMore == \A n \in Nat : CreditUnit * n \in Nat /\ CreditUnit * (n + 1) = CreditUnit * n + CreditUnit
<1> TAKE n \in Nat
<1>1. CreditUnit \in Nat
  BY BrokerAssumption
<1>2. \A m \in Nat : m * n \in Nat /\ m * (n + 1) = m * n + m
  OBVIOUS
<1> QED
  BY <1>1, <1>2

\* The numbers of a group, and what a refill adds to its credit.
LEMMA BucketNumbers ==
  ASSUME TypeOK, NEW g \in Groups
  PROVE  /\ credit[g] \in Nat /\ updated[g] \in Nat /\ Effective(g) \in Nat /\ Refill[g] \in Nat
         /\ CreditUnit \in Nat \ {0} /\ Burst(g) \in Nat /\ updated[g] <= Effective(g)
         /\ Refilled(g) \in Nat /\ Refilled(g) <= Burst(g)
         /\ (Effective(g) - updated[g]) * Refill[g] \in Nat
         /\ Refilled(g) <= credit[g] + (Effective(g) - updated[g]) * Refill[g]
         /\ updated[g] * Refill[g] \in Nat
         /\ Effective(g) * Refill[g] = updated[g] * Refill[g] + (Effective(g) - updated[g]) * Refill[g]
         /\ IsFiniteSet(Dispatched(g)) /\ Cardinality(Dispatched(g)) \in Nat
         /\ \A x \in OwnTime(g) : attemptAt[x] \in Nat
<1>1. /\ credit[g] \in Nat /\ updated[g] \in Nat /\ Effective(g) \in Nat /\ Refill[g] \in Nat
      /\ CreditUnit \in Nat \ {0} /\ updated[g] <= Effective(g) /\ Refilled(g) \in Nat
  BY RefillType, BrokerAssumption DEF TypeOK, QuotasTyped
<1>2. Burst(g) \in Nat
  <2>1. \A m, n \in Nat : m * n \in Nat
    OBVIOUS
  <2> QED
    BY <2>1, BrokerAssumption DEF Burst
<1>3. /\ (updated[g] - 0) * Refill[g] \in Nat /\ (Effective(g) - updated[g]) * Refill[g] \in Nat
      /\ (Effective(g) - 0) * Refill[g] = (Effective(g) - updated[g]) * Refill[g] + (updated[g] - 0) * Refill[g]
  <2>1. 0 \in Nat /\ 0 <= updated[g]
    BY <1>1
  <2> QED
    BY <1>1, <2>1, RefillSplits
<1>4. updated[g] - 0 = updated[g] /\ Effective(g) - 0 = Effective(g)
  BY <1>1
<1>5. IsFiniteSet(Dispatched(g)) /\ Cardinality(Dispatched(g)) \in Nat
  BY AttemptsFinite, FS_Subset, FS_CardinalityType DEF Dispatched
<1>6. \A x \in OwnTime(g) : attemptAt[x] \in Nat
  BY DEF TypeOK, AttemptsTyped, OwnTime, Dispatched
<1>7. Effective(g) * Refill[g] = updated[g] * Refill[g] + (Effective(g) - updated[g]) * Refill[g]
  <2>1. updated[g] * Refill[g] \in Nat
    BY <1>3, <1>4
  <2> QED
    BY <1>3, <1>4, <2>1
<1> QED
  BY <1>1, <1>2, <1>3, <1>4, <1>5, <1>6, <1>7, RefillBound DEF Burst

\* What is counted since a time, or between two times, is finite.
LEMMA SinceFinite ==
  ASSUME NEW g \in Groups, NEW t, NEW u
  PROVE  /\ IsFiniteSet(Since(g, t)) /\ Cardinality(Since(g, t)) \in Nat
         /\ IsFiniteSet(Between(g, t, u)) /\ Cardinality(Between(g, t, u)) \in Nat
  BY AttemptsFinite, FS_Subset, FS_CardinalityType DEF Since, Between, OwnTime, Dispatched

\* The bucket of a group none of whose requests leaves.
LEMMA StandingBucket ==
  ASSUME TypeOK, NEW g \in Groups, BucketLaw(g), Standing(g), now' \in Nat, MaxSkew = 0 => now' >= now
  PROVE  BucketLaw(g)'
<1>0. now \in Nat
  BY DEF TypeOK
<1> DEFINE gain == (Effective(g) - updated[g]) * Refill[g]
<1>1. /\ OwnTime(g)' = OwnTime(g) /\ Dispatched(g)' = Dispatched(g)
      /\ \A x \in OwnTime(g) : attemptAt'[x] = attemptAt[x] /\ attemptAt[x] \in Nat
  BY BucketNumbers DEF Standing, OwnTime
<1>2. /\ \A t : Since(g, t)' = Since(g, t)
      /\ \A t, u : Between(g, t, u)' = Between(g, t, u)
  BY <1>1 DEF Since, Between
<1>3. CASE updated'[g] = updated[g] /\ credit'[g] = credit[g]
  <2>1. MaxSkew = 0 => updated[g] <= now'
    BY <1>0, BucketNumbers DEF BucketLaw
  <2> QED
    BY <1>1, <1>2, <1>3, <2>1 DEF BucketLaw, Burst
<1>4. CASE Refreshed(g)
  <2>1. /\ updated[g] \in Nat /\ Effective(g) \in Nat /\ updated[g] <= Effective(g) /\ gain \in Nat
        /\ credit[g] \in Nat /\ Refilled(g) \in Nat /\ Refilled(g) <= Burst(g) /\ Refilled(g) <= credit[g] + gain
        /\ Effective(g) * Refill[g] = updated[g] * Refill[g] + gain /\ updated[g] * Refill[g] \in Nat
        /\ Burst(g) \in Nat /\ Refill[g] \in Nat
    BY BucketNumbers
  <2>2. updated'[g] = Effective(g) /\ credit'[g] = Refilled(g)
    BY <1>4 DEF Refreshed
  <2>3. MaxSkew = 0 => Effective(g) <= now'
    BY <1>0, <2>1 DEF BucketLaw, Effective, Greatest
  <2>4. CreditUnit * Cardinality(Dispatched(g)) + Refilled(g) <= Burst(g) + Effective(g) * Refill[g]
    <3>1. CreditUnit * Cardinality(Dispatched(g)) \in Nat
      BY OneMore, BucketNumbers
    <3>2. CreditUnit * Cardinality(Dispatched(g)) + credit[g] <= Burst(g) + updated[g] * Refill[g]
      BY DEF BucketLaw
    <3> HIDE DEF gain
    <3> QED
      BY <2>1, <3>1, <3>2
  <2>5. ASSUME NEW x \in OwnTime(g)
        PROVE  /\ attemptAt[x] <= Effective(g)
               /\ CreditUnit * Cardinality(Since(g, attemptAt[x])) + Refilled(g)
                    <= Burst(g) + (Effective(g) - attemptAt[x]) * Refill[g]
    <3>1. attemptAt[x] \in Nat /\ attemptAt[x] <= updated[g]
      BY <1>1 DEF BucketLaw
    <3>2. /\ (updated[g] - attemptAt[x]) * Refill[g] \in Nat
          /\ (Effective(g) - attemptAt[x]) * Refill[g] = gain + (updated[g] - attemptAt[x]) * Refill[g]
      BY <2>1, <3>1, RefillSplits
    <3>3. CreditUnit * Cardinality(Since(g, attemptAt[x])) \in Nat
      BY OneMore, SinceFinite
    <3>4. CreditUnit * Cardinality(Since(g, attemptAt[x])) + credit[g] <= Burst(g) + (updated[g] - attemptAt[x]) * Refill[g]
      BY DEF BucketLaw
    <3> HIDE DEF gain
    <3> QED
      BY <2>1, <3>1, <3>2, <3>3, <3>4
  <2> HIDE DEF gain
  <2> QED
    BY <1>1, <1>2, <2>1, <2>2, <2>3, <2>4, <2>5 DEF BucketLaw, Burst
<1> QED
  BY <1>3, <1>4 DEF Standing

\* The bucket of a group that pays for a request.  The request counts at the
\* group's own clock, or not at all, and no earlier than any counted before it.
LEMMA SendingBucket ==
  ASSUME TypeOK, TypeOK', NEW g \in Groups, BucketLaw(g), NEW c \in Calls, NEW t \in Nat,
         Sends(c, t), g \in GroupsOf[c], \A h \in Groups : MaxSkew = 0 => updated[h] <= now
  PROVE  BucketLaw(g)'
<1> DEFINE x == <<c, attempts[c] + 1>>
           gain == (Effective(g) - updated[g]) * Refill[g]
           R(y) == (updated[g] - attemptAt[y]) * Refill[g]
<1>1. /\ x \in Attempts /\ x \notin Dispatched(g) /\ x[1] = c /\ attemptAt'[x] = t /\ now' = now
      /\ GroupAllows(g, c) /\ updated'[g] = Effective(g) /\ credit'[g] = Refilled(g) - CreditUnit
      /\ Dispatched(g)' = Dispatched(g) \cup {x}
      /\ \A y \in Dispatched(g) : attemptAt'[y] = attemptAt[y]
  BY DEF Sends, Dispatched
<1>2. /\ updated[g] \in Nat /\ Effective(g) \in Nat /\ updated[g] <= Effective(g) /\ gain \in Nat
      /\ credit[g] \in Nat /\ Refilled(g) \in Nat /\ Refilled(g) <= Burst(g) /\ Refilled(g) <= credit[g] + gain
      /\ Effective(g) * Refill[g] = updated[g] * Refill[g] + gain /\ updated[g] * Refill[g] \in Nat
      /\ Burst(g) \in Nat /\ Refill[g] \in Nat /\ CreditUnit \in Nat
      /\ \A y \in OwnTime(g) : attemptAt[y] \in Nat
  BY BucketNumbers
<1>3. MaxSkew = 0 => \A h \in Groups : Effective(h) = now
  BY DEF Effective, Greatest, TypeOK, QuotasTyped
<1>4. MaxSkew = 0 \/ GroupsOf[c] = {g} => t = Effective(g)
  BY <1>3, BrokerAssumption DEF Sends
<1>5. MaxSkew = 0 => Effective(g) <= now'
  BY <1>1, <1>3 DEF TypeOK
<1>6. Refilled(g) - CreditUnit <= Burst(g)
  BY <1>2
<1>7. CreditUnit * Cardinality(Dispatched(g)') + credit'[g] <= Burst(g) + updated'[g] * Refill[g]
  <2>1. Cardinality(Dispatched(g)') = Cardinality(Dispatched(g)) + 1 /\ Cardinality(Dispatched(g)) \in Nat
    <3> HIDE DEF x
    <3> QED
      BY <1>1, BucketNumbers, FS_AddElement, ZenonT(30)
  <2>2. /\ CreditUnit * Cardinality(Dispatched(g)) \in Nat
        /\ CreditUnit * Cardinality(Dispatched(g)') = CreditUnit * Cardinality(Dispatched(g)) + CreditUnit
    BY <2>1, OneMore
  <2>3. CreditUnit * Cardinality(Dispatched(g)) + credit[g] <= Burst(g) + updated[g] * Refill[g]
    BY DEF BucketLaw
  <2> HIDE DEF gain
  <2> QED
    BY <1>1, <1>2, <2>2, <2>3
<1>8. ASSUME NEW y \in OwnTime(g)
      PROVE  /\ attemptAt[y] \in Nat /\ attemptAt[y] <= updated[g] /\ R(y) \in Nat
             /\ (Effective(g) - attemptAt[y]) * Refill[g] = gain + R(y)
             /\ CreditUnit * Cardinality(Since(g, attemptAt[y])) + credit[g] <= Burst(g) + R(y)
             /\ attemptAt'[y] = attemptAt[y]
  <2>1. attemptAt[y] \in Nat /\ attemptAt[y] <= updated[g] /\ y \in Dispatched(g)
    BY <1>2 DEF BucketLaw, OwnTime
  <2>2. R(y) \in Nat /\ (Effective(g) - attemptAt[y]) * Refill[g] = gain + R(y)
    BY <1>2, <2>1, RefillSplits
  <2> HIDE DEF x, gain
  <2> QED
    BY <1>1, <2>1, <2>2 DEF BucketLaw
<1>9. CASE ~(MaxSkew = 0 \/ GroupsOf[c] = {g})
  <2>1. OwnTime(g)' = OwnTime(g)
    <3> HIDE DEF x
    <3> QED
      BY <1>1, <1>9 DEF OwnTime
  <2>2. /\ \A s : Since(g, s)' = Since(g, s)
        /\ \A s, u : Between(g, s, u)' = Between(g, s, u)
    BY <2>1, <1>8 DEF Since, Between
  <2>3. ASSUME NEW y \in OwnTime(g)
        PROVE  /\ attemptAt[y] <= Effective(g)
               /\ CreditUnit * Cardinality(Since(g, attemptAt[y])) + (Refilled(g) - CreditUnit)
                    <= Burst(g) + (Effective(g) - attemptAt[y]) * Refill[g]
    <3>1. CreditUnit * Cardinality(Since(g, attemptAt[y])) \in Nat
      BY OneMore, SinceFinite
    <3>2. /\ attemptAt[y] \in Nat /\ attemptAt[y] <= updated[g] /\ R(y) \in Nat
          /\ (Effective(g) - attemptAt[y]) * Refill[g] = gain + R(y)
          /\ CreditUnit * Cardinality(Since(g, attemptAt[y])) + credit[g] <= Burst(g) + R(y)
      BY <1>8
    <3> HIDE DEF gain, R
    <3> QED
      BY <1>2, <3>1, <3>2
  <2> HIDE DEF x, gain, R
  <2> QED
    BY <1>1, <1>5, <1>6, <1>7, <1>8, <2>1, <2>2, <2>3 DEF BucketLaw, Burst
<1>10. CASE MaxSkew = 0 \/ GroupsOf[c] = {g}
  <2>1. OwnTime(g)' = OwnTime(g) \cup {x} /\ x \notin OwnTime(g) /\ t = Effective(g)
    <3>1. x \notin OwnTime(g) /\ t = Effective(g)
      BY <1>1, <1>4, <1>10 DEF OwnTime
    <3> HIDE DEF x
    <3> QED
      BY <1>1, <1>10, <3>1 DEF OwnTime
  <2>2. ASSUME NEW s \in Nat, s <= Effective(g)
        PROVE  Since(g, s)' = Since(g, s) \cup {x} /\ x \notin Since(g, s)
    <3> HIDE DEF x
    <3> QED
      BY <1>1, <1>2, <1>8, <2>1, <2>2, ZenonT(30) DEF Since
  <2>3. ASSUME NEW s \in Nat, s <= Effective(g)
        PROVE  /\ CreditUnit * Cardinality(Since(g, s)) \in Nat
               /\ CreditUnit * Cardinality(Since(g, s)') = CreditUnit * Cardinality(Since(g, s)) + CreditUnit
    <3>1. Cardinality(Since(g, s)) \in Nat /\ Cardinality(Since(g, s)') = Cardinality(Since(g, s)) + 1
      <4>1. Since(g, s)' = Since(g, s) \cup {x} /\ x \notin Since(g, s)
        BY <2>2, <2>3
      <4>2. IsFiniteSet(Since(g, s)) /\ Cardinality(Since(g, s)) \in Nat
        BY SinceFinite
      <4> HIDE DEF x
      <4> QED
        BY <4>1, <4>2, FS_AddElement
    <3> QED
      BY <3>1, OneMore
  <2>4. ASSUME NEW y \in OwnTime(g), NEW s \in Nat, s = attemptAt[y]
        PROVE  /\ s <= Effective(g)
               /\ CreditUnit * Cardinality(Since(g, s)') + (Refilled(g) - CreditUnit)
                    <= Burst(g) + (Effective(g) - s) * Refill[g]
    <3>1. /\ s <= updated[g] /\ R(y) \in Nat /\ (Effective(g) - s) * Refill[g] = gain + R(y)
          /\ CreditUnit * Cardinality(Since(g, s)) + credit[g] <= Burst(g) + R(y)
      BY <1>8, <2>4
    <3> HIDE DEF gain, R, x
    <3>2. s <= Effective(g)
      BY <1>2, <3>1
    <3>3. /\ CreditUnit * Cardinality(Since(g, s)) \in Nat
          /\ CreditUnit * Cardinality(Since(g, s)') = CreditUnit * Cardinality(Since(g, s)) + CreditUnit
      BY <2>3, <3>2
    <3> QED
      BY <1>2, <3>1, <3>2, <3>3
  \* the request itself: another one at the same time is of a bucket just refilled
  <2>5. CreditUnit * Cardinality(Since(g, t)') + (Refilled(g) - CreditUnit) <= Burst(g)
    <3>1. CASE Since(g, t) = {}
      <4>1. CreditUnit * 0 = 0
        BY <1>2
      <4>2. CreditUnit * Cardinality(Since(g, t)') = CreditUnit * Cardinality(Since(g, t)) + CreditUnit
        BY <1>2, <2>1, <2>3
      <4>3. Cardinality(Since(g, t)) = 0
        BY <3>1, FS_EmptySet
      <4> HIDE DEF gain, R, x
      <4> QED
        BY <1>2, <4>1, <4>2, <4>3
    <3>2. CASE Since(g, t) # {}
      <4>1. PICK w \in OwnTime(g) : attemptAt[w] >= t
        BY <3>2 DEF Since
      <4>2. t = attemptAt[w]
        <5>1. attemptAt[w] \in Nat /\ attemptAt[w] <= updated[g]
          BY <1>8
        <5>2. t = Effective(g) /\ updated[g] <= Effective(g) /\ updated[g] \in Nat
          BY <1>2, <2>1
        <5> QED
          BY <4>1, <5>1, <5>2
      <4>3. CreditUnit * Cardinality(Since(g, t)') + (Refilled(g) - CreditUnit) <= Burst(g) + (Effective(g) - t) * Refill[g]
        BY <2>4, <4>2
      <4>4. (Effective(g) - t) * Refill[g] = 0
        BY <1>2, <2>1
      <4> HIDE DEF gain, R, x
      <4> QED
        BY <1>2, <4>3, <4>4
    <3> QED
      BY <3>1, <3>2
  <2>6. ASSUME NEW y \in OwnTime(g)', NEW s \in Nat, s = attemptAt'[y]
        PROVE  /\ s <= Effective(g)
               /\ CreditUnit * Cardinality(Since(g, s)') + (Refilled(g) - CreditUnit)
                    <= Burst(g) + (Effective(g) - s) * Refill[g]
    <3>1. CASE y = x
      <4>1. s = t /\ (Effective(g) - t) * Refill[g] = 0
        BY <1>1, <1>2, <2>1, <2>6, <3>1
      <4> HIDE DEF gain, R, x
      <4> QED
        BY <1>2, <2>1, <2>5, <4>1
    <3>2. CASE y # x
      <4>1. y \in OwnTime(g) /\ s = attemptAt[y]
        BY <1>8, <2>1, <2>6, <3>2
      <4> QED
        BY <2>4, <4>1
    <3> QED
      BY <3>1, <3>2
  <2>7. ASSUME NEW y \in OwnTime(g)', NEW z \in OwnTime(g)', NEW s \in Nat, NEW u \in Nat,
               s = attemptAt'[y], u = attemptAt'[z], s <= u
        PROVE  CreditUnit * Cardinality(Between(g, s, u)') <= Burst(g) + (u - s) * Refill[g]
    <3>1. CASE u = Effective(g)
      <4>1. \A w \in OwnTime(g)' : attemptAt'[w] \in Nat /\ attemptAt'[w] <= Effective(g)
        <5>1. \A w \in OwnTime(g)' : attemptAt'[w] \in Nat
          BY DEF TypeOK, AttemptsTyped, OwnTime, Dispatched
        <5> QED
          BY <2>6, <5>1
      <4>2. Between(g, s, u)' = Since(g, s)'
        <5> HIDE DEF gain, R, x
        <5> QED
          BY <3>1, <4>1 DEF Between, Since
      <4>3. CreditUnit * Cardinality(Since(g, s)') + (Refilled(g) - CreditUnit) <= Burst(g) + (u - s) * Refill[g]
        BY <2>6, <2>7, <3>1
      <4>4. Refilled(g) - CreditUnit \in Nat
        BY <1>1, <1>2 DEF GroupAllows
      <4>5. CreditUnit * Cardinality(Since(g, s)') \in Nat /\ (u - s) * Refill[g] \in Nat
        <5>1. s <= Effective(g)
          BY <2>6, <2>7
        <5>2. Cardinality(Since(g, s)') \in Nat
          <6>1. Since(g, s)' = Since(g, s) \cup {x} /\ IsFiniteSet(Since(g, s))
            BY <2>2, <5>1, SinceFinite
          <6> HIDE DEF x
          <6> QED
            BY <6>1, FS_AddElement, FS_CardinalityType
        <5>3. u - s \in Nat
          BY <2>7
        <5>4. \A m, n \in Nat : m * n \in Nat
          OBVIOUS
        <5> QED
          BY <1>2, <5>2, <5>3, <5>4
      <4> HIDE DEF gain, R, x
      <4> QED
        BY <1>2, <4>2, <4>3, <4>4, <4>5
    <3>2. CASE u # Effective(g)
      <4>1. u < Effective(g) /\ s < Effective(g)
        <5>1. u <= Effective(g) /\ Effective(g) \in Nat
          BY <1>2, <2>6, <2>7
        <5> QED
          BY <2>7, <3>2, <5>1
      <4>2. y \in OwnTime(g) /\ z \in OwnTime(g)
        BY <1>1, <2>1, <2>7, <4>1
      <4>3. s = attemptAt[y] /\ u = attemptAt[z]
        BY <1>8, <2>7, <4>2
      <4>4. Between(g, s, u)' = Between(g, s, u)
        <5> HIDE DEF gain, R, x
        <5> QED
          BY <1>1, <1>2, <1>8, <2>1, <4>1 DEF Between
      <4> HIDE DEF gain, R, x
      <4> QED
        BY <2>7, <4>2, <4>3, <4>4 DEF BucketLaw
    <3> QED
      BY <3>1, <3>2
  <2>8. \A y \in OwnTime(g)' : attemptAt'[y] \in Nat
    BY DEF TypeOK, AttemptsTyped, OwnTime, Dispatched
  <2> HIDE DEF gain, R, x
  <2>9. ASSUME NEW y \in OwnTime(g)'
        PROVE  /\ attemptAt'[y] <= updated'[g]
               /\ CreditUnit * Cardinality(Since(g, attemptAt[y])') + credit'[g]
                    <= Burst(g) + (updated'[g] - attemptAt'[y]) * Refill[g]
               /\ \A z \in OwnTime(g)' : attemptAt'[y] <= attemptAt'[z] =>
                    CreditUnit * Cardinality(Between(g, attemptAt[y], attemptAt[z])')
                      <= Burst(g) + (attemptAt'[z] - attemptAt'[y]) * Refill[g]
    <3>1. attemptAt'[y] <= updated'[g]
      BY <1>1, <2>6, <2>8
    <3>2. CreditUnit * Cardinality(Since(g, attemptAt[y])') + credit'[g]
            <= Burst(g) + (updated'[g] - attemptAt'[y]) * Refill[g]
      <4>1. PICK s \in Nat : s = attemptAt'[y]
        BY <2>8
      <4>2. Since(g, attemptAt[y])' = Since(g, s)'
        BY <4>1 DEF Since
      <4> QED
        BY <1>1, <2>6, <4>1, <4>2
    <3>3. ASSUME NEW z \in OwnTime(g)', attemptAt'[y] <= attemptAt'[z]
          PROVE  CreditUnit * Cardinality(Between(g, attemptAt[y], attemptAt[z])')
                   <= Burst(g) + (attemptAt'[z] - attemptAt'[y]) * Refill[g]
      <4>1. PICK s \in Nat, u \in Nat : s = attemptAt'[y] /\ u = attemptAt'[z]
        BY <2>8
      <4>2. Between(g, attemptAt[y], attemptAt[z])' = Between(g, s, u)'
        BY <4>1 DEF Between
      <4> QED
        BY <2>7, <3>3, <4>1, <4>2
    <3> QED
      BY <3>1, <3>2, <3>3
  <2> QED
    BY <1>1, <1>5, <1>6, <1>7, <2>9 DEF BucketLaw, Burst
<1> QED
  BY <1>9, <1>10

\* The request-rate bucket bounds every dispatch, for every set of groups shared
\* by calls and every clock that is set back.
THEOREM RequestRateCorrect == Spec => []RequestRateRespected
<1> DEFINE Buckets == \A g \in Groups : BucketLaw(g)
<1>1. Init => Buckets
  <2> SUFFICES ASSUME Init, NEW g \in Groups PROVE BucketLaw(g)
    OBVIOUS
  <2>1. Dispatched(g) = {} /\ OwnTime(g) = {}
    BY DEF Init, Dispatched, OwnTime
  <2>2. Cardinality(Dispatched(g)) = 0
    BY <2>1, FS_EmptySet
  <2>3. TypeOK
    BY InitHolds DEF IInv
  <2>4. Burst(g) \in Nat /\ updated[g] * Refill[g] \in Nat /\ CreditUnit * 0 = 0
    BY <2>3, BucketNumbers
  <2>5. credit[g] = Burst(g) /\ updated[g] <= now
    BY DEF Init, Burst
  <2> QED
    BY <2>1, <2>2, <2>4, <2>5 DEF BucketLaw
<1>2. IInv /\ IInv' /\ Buckets /\ [Next]_vars => Buckets'
  <2> SUFFICES ASSUME IInv, IInv', Buckets, [Next]_vars, NEW g \in Groups
               PROVE  BucketLaw(g)'
    OBVIOUS
  <2>1. TypeOK /\ TypeOK' /\ now' \in Nat
    BY DEF IInv, TypeOK
  <2>2. BucketLaw(g) /\ \A h \in Groups : MaxSkew = 0 => updated[h] <= now
    BY DEF BucketLaw
  <2>3. CASE (\A h \in Groups : Standing(h)) /\ (MaxSkew = 0 => now' >= now)
    BY <2>1, <2>2, <2>3, StandingBucket
  <2>4. ASSUME NEW c \in Calls, NEW t \in Nat, Sends(c, t), g \in GroupsOf[c]
        PROVE  BucketLaw(g)'
    BY <2>1, <2>2, <2>4, SendingBucket
  <2>5. ASSUME NEW c \in Calls, NEW t \in Nat, Sends(c, t), g \notin GroupsOf[c]
        PROVE  BucketLaw(g)'
    <3>1. Standing(g) /\ now' >= now
      BY <2>1, <2>5 DEF Sends, TypeOK
    <3> QED
      BY <2>1, <2>2, <3>1, StandingBucket
  <2> QED
    BY <2>3, <2>4, <2>5, RateSteps
<1>3. Buckets => RequestRateRespected
  BY DEF BucketLaw, Burst, Between, RequestRateRespected
<1> HIDE DEF Buckets
<1> QED
  BY <1>1, <1>2, <1>3, Inductive, PTL DEF Spec

=============================================================================
