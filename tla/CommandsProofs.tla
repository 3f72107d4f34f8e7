--------------------------- MODULE CommandsProofs ---------------------------
(***************************************************************************)
(* Theorems about the control API's mutations, for every number of         *)
(* clients, keys, systems, memories and tools, and every scenario.         *)
(*                                                                         *)
(* The step relation is seen three times: as what it does to the systems   *)
(* (Moves), to the memory (MemoryStep) and to the local tools              *)
(* (LearningStep, of RecordProofs).  The heart of the argument is Asked:   *)
(* a request on its way still carries what its author read, and when the   *)
(* revision it names is still the current one, what the author read is     *)
(* still what it would replace.                                            *)
(***************************************************************************)
EXTENDS Commands, RecordProofs

SystemStates == {"none", "inactive", "running", "paused", "stopping", "stopped"}
Rows == [state: SystemStates, revision: Nat, digest: Definitions,
         budget: Nat, used: Nat, reserved: Nat, over: Nat, stamp: Nat]
MemoryOps == {"memory.put", "memory.approve", "memory.delete"}

SystemsOK ==
  /\ system \in [Systems -> Rows]
  /\ cfg \in Definitions
  /\ scenario \in Scenarios
  /\ \A s \in Systems : system[s].state = "none" => system[s].revision = 0

\* A request is a record of these fields.
Formed(r) ==
  r = [client |-> r.client, key |-> r.key,
       body |-> Body(r.body.op, r.body.on, r.body.expected, r.body.arg),
       saw |-> r.saw, attempt |-> r.attempt]

\* What its author read of a system, or of a memory, at the revision it names.
SawSystem(r) ==
  LET s == r.body.on IN
  /\ s \in Systems /\ r.body.expected \in Nat /\ r.body.expected <= system[s].revision
  /\ r.body.expected = system[s].revision => r.saw = system[s].stamp

SawMemory(r) ==
  LET i == r.body.on IN
  /\ i \in Ids /\ r.body.expected \in Nat /\ r.body.expected <= heads[i].revision
  /\ r.body.expected = heads[i].revision /\ Exists(i) => r.saw = Content(i)

Asked(r) ==
  /\ Formed(r) /\ r.client \in Clients /\ r.key \in Keys
  /\ r.body.op \in {"create", "revise"} => r.body.arg \in Budgets
  /\ r.body.op = "regrant" => r.body.arg \in Versions \cup {0}
  /\ r.body.op = "memory.put" => r.body.arg \in Owners
  /\ r.body.op = "tool.propose" => r.body.arg \in DOMAIN Kinds
  /\ r.body.op = "learning.approve" => r.body.arg \in Allowances
  /\ r.body.op \in {"revise", "regrant"} => SawSystem(r)
  /\ r.body.op \in MemoryOps /\ r.body.on # New => SawMemory(r)

RequestsOK ==
  /\ \A r \in inflight : Asked(r)
  /\ DOMAIN waiting = Clients /\ \A c \in Clients : waiting[c] # Idle => Asked(waiting[c])

\* A receipt is kept of every effect, and of nothing else.
ReceiptsOK ==
  /\ DOMAIN receipts = Keys
  /\ \E S : effects \in Seq(S)
  /\ \A k \in Keys : receipts[k] = <<>> => ~Promise!Done(k)
  /\ \A k \in Keys : receipts[k] # <<>> =>
       \E i \in DOMAIN effects :
         effects[i] = [key |-> k, body |-> receipts[k][1].body, answer |-> receipts[k][1].answer]

IInv == SystemsOK /\ MemoryOK /\ IInvLearning /\ RequestsOK /\ ReceiptsOK

-----------------------------------------------------------------------------
(* What a step does to the systems.                                        *)

Moves(s) ==
  \/ \E state \in SystemStates \ {"none"} : s \in Created /\ system'[s] = [system[s] EXCEPT !.state = state]
  \/ system'[s] = system[s]
  \/ Remaining(s) /\ system'[s] = [system[s] EXCEPT !.reserved = @ + 1]
  \/ \E n, excess \in Nat :
       /\ system[s].reserved > 0 /\ excess >= n - 1
       /\ system'[s] = [system[s] EXCEPT !.reserved = @ - 1, !.used = @ + n, !.over = @ + excess]
  \/ \E b \in Nat :
       /\ s \notin Created
       /\ system'[s] = [state |-> "inactive", revision |-> 1, digest |-> cfg, budget |-> b,
                        used |-> 0, reserved |-> 0, over |-> 0, stamp |-> Len(effects) + 1]
  \/ \E r \in inflight \ inflight', b \in Nat :
       /\ s \in Created /\ r.body.op \in {"revise", "regrant"} /\ r.body.on = s
       /\ r.body.expected = system[s].revision /\ b >= Spent(s)
       /\ system'[s] = [system[s] EXCEPT !.revision = @ + 1, !.digest = cfg, !.budget = b,
                                         !.over = 0, !.stamp = Len(effects) + 1]

SystemView == system' = [s \in Systems |-> system'[s]] /\ \A s \in Systems : Moves(s)

\* A revision, with the body's budget or the present one.
LEMMA ReviseMoves ==
  ASSUME IInv, NEW r \in inflight, r \notin inflight', NEW s \in Created, r.body.on = s,
         r.body.op \in {"revise", "regrant"},
         NEW b \in Nat, b >= Spent(s), r.body.expected = system[s].revision,
         system' = [system EXCEPT ![s].revision = @ + 1, ![s].digest = cfg,
                      ![s].budget = b, ![s].over = 0, ![s].stamp = Len(effects) + 1]
  PROVE  SystemView
<1>1. s \in Systems
  BY DEF Created
<1>2. system' = [u \in Systems |-> system'[u]]
  BY DEF IInv, SystemsOK
<1>3. \A u \in Systems \ {s} : system'[u] = system[u]
  BY DEF IInv, SystemsOK
<1>4. system'[s] = [system[s] EXCEPT !.revision = @ + 1, !.digest = cfg, !.budget = b,
                                     !.over = 0, !.stamp = Len(effects) + 1]
  BY <1>1 DEF IInv, SystemsOK
<1>5. Moves(s)
  BY <1>4 DEF Moves
<1>6. \A u \in Systems \ {s} : Moves(u)
  BY <1>3 DEF Moves
<1> QED
  BY <1>2, <1>5, <1>6 DEF SystemView

\* A change of one system's state.
LEMMA StateMoves ==
  ASSUME IInv, NEW s \in Created, NEW state \in SystemStates \ {"none"},
         system' = [system EXCEPT ![s].state = state]
  PROVE  SystemView
<1>1. s \in Systems
  BY DEF Created
<1>2. system' = [u \in Systems |-> system'[u]] /\ \A u \in Systems \ {s} : system'[u] = system[u]
  BY DEF IInv, SystemsOK
<1>3. system'[s] = [system[s] EXCEPT !.state = state]
  BY <1>1 DEF IInv, SystemsOK
<1> QED
  BY <1>2, <1>3 DEF SystemView, Moves

\* An accepted command on a system.
LEMMA CommandMoves ==
  ASSUME IInv, NEW r \in inflight, r \notin inflight', SystemCommand(r)
  PROVE  SystemView
<1>0. Asked(r) /\ Formed(r)
  BY DEF IInv, RequestsOK, Asked
<1>1. CASE r.body.op = "create" /\ CreateSystem(r)
  <2> DEFINE s == FreshSystem
  <2>1. s \in Systems /\ s \notin Created
    <3>1. \E t \in Systems \ Created : TRUE
      BY <1>1 DEF CreateSystem, Created
    <3> QED
      BY <3>1 DEF FreshSystem
  <2>2. r.body.arg \in Nat
    BY <1>0, <1>1, CommandsAssumption DEF Asked
  <2>3. system' = [system EXCEPT ![s] = [state |-> "inactive", revision |-> 1, digest |-> cfg,
                     budget |-> r.body.arg, used |-> 0, reserved |-> 0, over |-> 0, stamp |-> Len(effects) + 1]]
    BY <1>1 DEF CreateSystem
  <2> HIDE DEF s
  <2>4. system' = [u \in Systems |-> system'[u]] /\ \A u \in Systems \ {s} : system'[u] = system[u]
    BY <2>3 DEF IInv, SystemsOK
  <2>5. system'[s] = [state |-> "inactive", revision |-> 1, digest |-> cfg, budget |-> r.body.arg,
                      used |-> 0, reserved |-> 0, over |-> 0, stamp |-> Len(effects) + 1]
    BY <2>1, <2>3 DEF IInv, SystemsOK
  <2> QED
    BY <2>1, <2>2, <2>4, <2>5 DEF SystemView, Moves
<1>2. ASSUME NEW s \in Created, r.body.on = s, r.body.op = "revise", ReviseSystem(r, s)
      PROVE  SystemView
  <2>1. r.body.arg \in Nat
    BY <1>0, <1>2, CommandsAssumption DEF Asked
  <2> QED
    BY <1>2, <2>1, ReviseMoves DEF ReviseSystem
<1>3. ASSUME NEW s \in Created, r.body.on = s, r.body.op = "regrant", Regrant(r, s)
      PROVE  SystemView
  <2>1. PICK b : b = system[s].budget
    OBVIOUS
  <2>2. [r EXCEPT !.body.arg = b].body.arg = b /\ [r EXCEPT !.body.arg = b].body.expected = r.body.expected
    BY <1>0 DEF Formed, Body
  <2>3. ReviseSystem([r EXCEPT !.body.arg = b], s)
    BY <1>3, <2>1 DEF Regrant
  <2>4. b \in Nat
    BY <2>1 DEF IInv, SystemsOK, Created, Rows
  <2> QED
    BY <1>3, <2>2, <2>3, <2>4, ReviseMoves DEF ReviseSystem
<1>4. ASSUME NEW s \in Created, StartSystem(r, s) \/ PauseOrResume(r, s) \/ StopSystem(s)
      PROVE  SystemView
  <2>1. PICK state \in SystemStates \ {"none"} : system' = [system EXCEPT ![s].state = state]
    BY <1>4 DEF StartSystem, PauseOrResume, StopSystem, SystemStates, IInv, SystemsOK, Created
  <2> QED
    BY <2>1, StateMoves
<1> QED
  BY <1>1, <1>2, <1>3, <1>4 DEF SystemCommand

\* Every step moves each system in one of these ways.
LEMMA SystemMoves ==
  ASSUME IInv, [Next]_vars
  PROVE  SystemView
<1>1. CASE UNCHANGED system
  BY <1>1 DEF SystemView, Moves, IInv, SystemsOK
<1>2. ASSUME NEW r \in inflight, Execute(r)
      PROVE  SystemView
  <2>1. r \notin inflight'
    BY <1>2 DEF Execute, Answer
  <2>2. CASE SystemCommand(r)
    BY <2>1, <2>2, CommandMoves
  <2>3. CASE MemoryCommand(r) \/ ToolCommand(r)
    BY <2>3, <1>1 DEF MemoryCommand, ToolCommand
  <2> QED
    BY <1>2, <2>2, <2>3 DEF Execute
<1>3. ASSUME NEW s \in Created, Admit(s)
      PROVE  SystemView
  <2>1. s \in Systems /\ Remaining(s) /\ system' = [system EXCEPT ![s].reserved = @ + 1]
    BY <1>3 DEF Admit, Created
  <2>2. system' = [u \in Systems |-> system'[u]] /\ \A u \in Systems \ {s} : system'[u] = system[u]
    BY <2>1 DEF IInv, SystemsOK
  <2>3. system'[s] = [system[s] EXCEPT !.reserved = @ + 1]
    BY <2>1 DEF IInv, SystemsOK
  <2> QED
    BY <2>1, <2>2, <2>3 DEF SystemView, Moves
<1>9. ASSUME NEW s \in Created, NEW n \in Usages, Settle(s, n)
      PROVE  SystemView
  <2>1. n \in Nat
    BY CommandsAssumption
  <2>2. PICK excess \in Nat : excess = IF n > 1 THEN n - 1 ELSE 0
    BY <2>1
  <2>3. /\ s \in Systems /\ system[s].reserved > 0 /\ excess >= n - 1
        /\ system' = [system EXCEPT ![s].reserved = @ - 1, ![s].used = @ + n, ![s].over = @ + excess]
    BY <1>9, <2>1, <2>2 DEF Settle, Created
  <2>4. system' = [u \in Systems |-> system'[u]] /\ \A u \in Systems \ {s} : system'[u] = system[u]
    BY <2>3 DEF IInv, SystemsOK
  <2>5. system'[s] = [system[s] EXCEPT !.reserved = @ - 1, !.used = @ + n, !.over = @ + excess]
    BY <2>3 DEF IInv, SystemsOK
  <2> QED
    BY <2>1, <2>3, <2>4, <2>5 DEF SystemView, Moves
<1>4. ASSUME NEW s \in Created, Finish(s)
      PROVE  SystemView
  <2>1. PICK state \in SystemStates \ {"none"} : system' = [system EXCEPT ![s].state = state]
    BY <1>4 DEF Finish, SystemStates, IInv, SystemsOK, Created
  <2> QED
    BY <2>1, StateMoves
<1>5. CASE UNCHANGED vars
  BY <1>1, <1>5 DEF vars
<1>6. CASE \E c \in Clients : (\E k \in Keys : \E body \in Askable : Ask(c, k, body)) \/ Retry(c) \/ GiveUp(c)
  BY <1>1, <1>6 DEF Ask, Retry, GiveUp
<1>7. CASE \E r \in inflight : Replay(r) \/ Refuse(r)
  BY <1>1, <1>7 DEF Replay, Refuse
<1>8. CASE \/ \E a \in Agents : AgentTool(a)
           \/ AgentLearns \/ Scheduler \/ Restart
           \/ \E t \in Tasks : NewTask(t)
           \/ \E v \in Versions : Evaluates(v)
  BY <1>1, <1>8 DEF AgentTool, AgentLearns, Scheduler, Restart, NewTask, Evaluates
<1> QED
  BY <1>2, <1>3, <1>4, <1>5, <1>6, <1>7, <1>8, <1>9 DEF Next

-----------------------------------------------------------------------------
(* What a step does to the memory.                                         *)

AdminPuts(r, i, n) ==
  /\ r.body.op = "memory.put" /\ r.body.arg \in Owners
  /\ r.body.on = New => heads[i] = NoHead
  /\ r.body.on # New => i = r.body.on /\ SawMemory(r)
  /\ \E admin \in BOOLEAN : admin = TRUE /\ Put(i, r.body.arg, r.body.expected, Administrator, admin, n)
  /\ UNCHANGED <<now, read, reviewed>>

Approves(r, i) ==
  /\ r.body.op = "memory.approve" /\ r.body.on = i /\ SawMemory(r)
  /\ Approve(i, r.body.expected) /\ reviewed' = reviewed \cup {r.saw}
  /\ UNCHANGED <<now, read>>

Deletes(r, i) ==
  /\ r.body.op = "memory.delete" /\ r.body.on = i
  /\ Delete(i, r.body.expected) /\ UNCHANGED <<now, read, reviewed>>

MemoryStep ==
  \/ UNCHANGED memoryVars
  \/ \E r \in inflight \ inflight', i \in Ids :
       /\ \/ \E n \in Retentions : AdminPuts(r, i, n)
          \/ Approves(r, i) \/ Deletes(r, i)
       /\ effects' # effects
  \/ \E a \in Agents, owner \in Owners :
       Search(a, owner) \/ \E i \in Ids, n \in Retentions : AgentPut(a, i, owner, n)
  \/ Pump \/ Tick

\* A sequence is not the longer one.
LEMMA Longer ==
  ASSUME NEW S, NEW s \in Seq(S), NEW e
  PROVE  Append(s, e) # s
<1>1. s \in Seq(S \cup {e}) /\ e \in S \cup {e}
  OBVIOUS
<1>2. Len(Append(s, e)) = Len(s) + 1 /\ Len(s) \in Nat
  BY <1>1
<1> QED
  BY <1>2

\* An accepted command on a memory.
LEMMA CommandMemory ==
  ASSUME IInv, NEW r \in inflight, Execute(r), MemoryCommand(r)
  PROVE  MemoryStep
<1>1. r \notin inflight' /\ UNCHANGED <<now, read>> /\ effects' # effects
  <2>1. r \notin inflight' /\ UNCHANGED <<now, read>> /\ effects' = Append(effects, Outcome(r, Result(r)))
    BY DEF Execute, Answer
  <2>2. PICK S : effects \in Seq(S)
    BY DEF IInv, ReceiptsOK
  <2>3. PICK e : e = Outcome(r, Result(r))
    OBVIOUS
  <2> QED
    BY <2>1, <2>2, <2>3, Longer
<1>2. /\ r.body.op = "memory.put" => r.body.arg \in Owners
      /\ r.body.op \in MemoryOps /\ r.body.on # New => SawMemory(r)
  BY DEF IInv, RequestsOK, Asked
<1>3. New \notin Ids
  BY CommandsAssumption
<1>4. ASSUME NEW i \in Ids, NEW n \in Retentions, r.body.op = "memory.put",
             r.body.on = New => \E j \in Ids : heads[j] = NoHead,
             i = IF r.body.on = New THEN FreshId ELSE r.body.on,
             Put(i, r.body.arg, r.body.expected, Administrator, TRUE, n), UNCHANGED reviewed
      PROVE  AdminPuts(r, i, n)
  <2>1. r.body.on = New => heads[i] = NoHead
    BY <1>4 DEF FreshId
  <2>2. r.body.on # New => i = r.body.on /\ SawMemory(r)
    BY <1>2, <1>4 DEF MemoryOps
  <2>3. PICK admin \in BOOLEAN : admin = TRUE
    OBVIOUS
  <2>4. Put(i, r.body.arg, r.body.expected, Administrator, admin, n)
    BY <1>4, <2>3
  <2> QED
    BY <1>1, <1>2, <1>4, <2>1, <2>2, <2>3, <2>4 DEF AdminPuts
<1>5. ASSUME NEW i \in Ids, r.body.op = "memory.approve", i = r.body.on,
             Approve(i, r.body.expected), reviewed' = reviewed \cup {r.saw}
      PROVE  Approves(r, i)
  BY <1>1, <1>2, <1>3, <1>5 DEF Approves, MemoryOps
<1>6. ASSUME NEW i \in Ids, r.body.op = "memory.delete", i = r.body.on,
             Delete(i, r.body.expected), UNCHANGED reviewed
      PROVE  Deletes(r, i)
  BY <1>1, <1>6 DEF Deletes
<1> QED
  BY <1>1, <1>4, <1>5, <1>6 DEF MemoryCommand, MemoryStep

\* Every step is one of these for the memory.
LEMMA MemorySteps ==
  ASSUME IInv, [Next]_vars
  PROVE  MemoryStep
<1>1. CASE UNCHANGED memoryVars
  BY <1>1 DEF MemoryStep
<1>2. ASSUME NEW r \in inflight, Execute(r)
      PROVE  MemoryStep
  <2>1. CASE SystemCommand(r) \/ ToolCommand(r)
    BY <1>1, <1>2, <2>1 DEF SystemCommand, ToolCommand, Execute, Answer, memoryVars
  <2> QED
    BY <1>2, <2>1, CommandMemory DEF Execute
<1>3. ASSUME NEW a \in Agents, AgentTool(a)
      PROVE  MemoryStep
  <2>1. a \in Owners /\ Shared \in Owners
    BY DEF Owners
  <2> QED
    BY <1>3, <2>1 DEF AgentTool, MemoryStep
<1>4. CASE Scheduler
  BY <1>1, <1>4 DEF Scheduler, MemoryStep
<1>5. CASE UNCHANGED vars
  BY <1>1, <1>5 DEF vars
<1>6. CASE \E c \in Clients : (\E k \in Keys : \E body \in Askable : Ask(c, k, body)) \/ Retry(c) \/ GiveUp(c)
  BY <1>1, <1>6 DEF Ask, Retry, GiveUp
<1>7. CASE \E r \in inflight : Replay(r) \/ Refuse(r)
  BY <1>1, <1>7 DEF Replay, Refuse, Answer, memoryVars
<1>8. CASE \/ \E s \in Created : Admit(s) \/ Finish(s) \/ \E n \in Usages : Settle(s, n)
           \/ AgentLearns \/ Restart
           \/ \E t \in Tasks : NewTask(t)
           \/ \E v \in Versions : Evaluates(v)
  BY <1>1, <1>8 DEF Admit, Settle, Finish, AgentLearns, Restart, NewTask, Evaluates
<1> QED
  BY <1>2, <1>3, <1>4, <1>5, <1>6, <1>7, <1>8 DEF Next

\* What an administrator's put does.
LEMMA AdminPutEffect ==
  ASSUME StoreOK, NEW r, NEW i \in Ids, NEW n \in Retentions, AdminPuts(r, i, n)
  PROVE  /\ StoreOK' /\ \A j \in Ids : Steady(j)
         /\ now' = now /\ read' = read /\ reviewed' = reviewed
         /\ Writes(i, Administrator)
         /\ heads[i] # NoHead => /\ i = r.body.on /\ SawMemory(r)
                                 /\ Exists(i) /\ heads[i].revision = r.body.expected
<1>1. now' = now /\ read' = read /\ reviewed' = reviewed
  BY DEF AdminPuts
<1>2. PICK expected : expected = r.body.expected
  OBVIOUS
<1>3. PICK owner \in Owners, admin \in BOOLEAN : Put(i, owner, expected, Administrator, admin, n)
  BY <1>2 DEF AdminPuts
<1>4. PICK by \in Agents \cup {Administrator} : by = Administrator
  OBVIOUS
<1>5. Put(i, owner, expected, by, admin, n)
  BY <1>3, <1>4
<1>6. StoreOK' /\ \A j \in Ids : Steady(j)
  BY <1>1, <1>5, PutEffect
<1>7. Writes(i, by)
  BY <1>1, <1>5, PutEffect
<1>8. heads[i] # NoHead => Exists(i) /\ heads[i].revision = r.body.expected
  BY <1>2, <1>3 DEF Put, MayUpdate
<1>9. heads[i] # NoHead => i = r.body.on /\ SawMemory(r)
  BY DEF AdminPuts
<1> QED
  BY <1>1, <1>4, <1>6, <1>7, <1>8, <1>9

\* Every step keeps the memory sound, and each readable revision what it was.
LEMMA MemoryKeeps ==
  ASSUME IInv, MemoryStep
  PROVE  MemoryOK' /\ \A i \in Ids : Steady(i)
<1>0. StoreOK /\ MemoryOK
  BY DEF IInv, MemoryOK
<1>1. CASE UNCHANGED memoryVars
  <2>1. UNCHANGED <<heads, rows, now, writes, author, read>>
    BY <1>1 DEF memoryVars
  <2>2. \A i \in Ids : Content(i)' = Content(i) /\ (Exists(i)' <=> Exists(i))
    BY <2>1 DEF Content, Exists
  <2>3. StoreOK'
    BY <1>0, <2>1 DEF StoreOK
  <2>4. \A i \in Ids : Steady(i)
    BY <1>0, <2>1, <2>2 DEF Steady, StoreOK
  <2> QED
    BY <1>0, <2>1, <2>3, <2>4, ReadKept DEF MemoryOK
<1>2. ASSUME StoreOK', read' = read, \A i \in Ids : Steady(i)
      PROVE  MemoryOK'
  BY <1>0, <1>2, ReadKept DEF MemoryOK
<1>3. ASSUME NEW r \in inflight, NEW i \in Ids, NEW n \in Retentions, AdminPuts(r, i, n)
      PROVE  StoreOK' /\ read' = read /\ \A j \in Ids : Steady(j)
  BY <1>0, <1>3, AdminPutEffect
<1>4. ASSUME NEW r \in inflight, NEW i \in Ids, Approves(r, i)
      PROVE  StoreOK' /\ read' = read /\ \A j \in Ids : Steady(j)
  <2>1. PICK expected : Approve(i, expected)
    BY <1>4 DEF Approves
  <2>2. now' = now /\ read' = read
    BY <1>4 DEF Approves
  <2> QED
    BY <1>0, <2>1, <2>2, ApproveEffect
<1>5. ASSUME NEW r \in inflight, NEW i \in Ids, Deletes(r, i)
      PROVE  StoreOK' /\ read' = read /\ \A j \in Ids : Steady(j)
  <2>1. PICK expected : Delete(i, expected)
    BY <1>5 DEF Deletes
  <2>2. now' = now /\ read' = read
    BY <1>5 DEF Deletes
  <2> QED
    BY <1>0, <2>1, <2>2, DeleteEffect
<1>6. ASSUME NEW a \in Agents, NEW owner \in Owners, Search(a, owner)
      PROVE  MemoryOK' /\ \A j \in Ids : Steady(j)
  <2>1. MemoryOK' /\ \A j \in Ids : Steady(j) /\ Content(j)' = Content(j)
    BY <1>0, <1>6, SearchEffect
  <2> QED
    BY <2>1
<1>7. ASSUME NEW a \in Agents, NEW owner \in Owners, NEW i \in Ids, NEW n \in Retentions, AgentPut(a, i, owner, n)
      PROVE  MemoryOK' /\ \A j \in Ids : Steady(j)
  BY <1>0, <1>7, AgentPutEffect, Zenon
<1>8. CASE Pump
  <2>1. read' = read
    BY <1>8 DEF Pump
  <2> QED
    BY <1>0, <1>2, <1>8, <2>1, PumpEffect
<1>9. CASE Tick
  <2>1. read' = read
    BY <1>9 DEF Tick
  <2> QED
    BY <1>0, <1>2, <1>9, <2>1, TickEffect
<1> QED
  BY <1>1, <1>2, <1>3, <1>4, <1>5, <1>6, <1>7, <1>8, <1>9 DEF MemoryStep

-----------------------------------------------------------------------------
(* What a step does to the local tools.                                    *)

\* Every step is one of an operation on the local tools, or none.
LEMMA LearningSteps ==
  ASSUME IInv, [Next]_vars
  PROVE  LearningStep \/ UNCHANGED learningVars
<1>0. now \in Nat
  BY DEF IInv, MemoryOK, StoreOK
<1>1. CASE UNCHANGED learningVars
  BY <1>1
<1>2. ASSUME NEW r \in inflight, Execute(r)
      PROVE  LearningStep \/ UNCHANGED learningVars
  <2>0. /\ r.body.op = "regrant" => r.body.arg \in Versions \cup {0}
        /\ r.body.op = "tool.propose" => Kinds[r.body.arg] \in {"skill", "executable"}
        /\ r.body.op = "learning.approve" => r.body.arg \in Allowances
    BY <1>2 DEF IInv, RequestsOK, Asked, Kinds
  <2>1. CASE SystemCommand(r)
    <3>1. r.body.op = "regrant" => Pins(r.body.arg) \in SUBSET Versions
      BY <2>0 DEF Pins
    <3>2. UNCHANGED learningVars \/ (\E pins \in SUBSET Versions : Grant(pins, now)) \/ \E T : EndTasks(T)
      BY <2>1, <3>1 DEF SystemCommand, Regrant
    <3> QED
      BY <3>2 DEF LearningStep
  <2>2. CASE MemoryCommand(r)
    BY <2>2 DEF MemoryCommand
  <2>3. CASE ToolCommand(r)
    <3>1. PICK v \in Versions :
            \/ \E kind \in {"skill", "executable"} : Propose(v, r.body.expected, kind)
            \/ \E t \in Tasks, notify \in BOOLEAN : Queues(v, t, notify)
            \/ \E a \in Allowances, n \in Lifetimes : ApproveLearning(v, a, n, Binding, now)
            \/ ChangeDraftState(v) \/ Revoke(v)
      BY <2>0, <2>3 DEF ToolCommand
    <3>2. ASSUME NEW t \in Tasks, NEW notify \in BOOLEAN, Queues(v, t, notify)
          PROVE  LearningStep
      BY <3>2 DEF Queues, LearningStep
    <3>3. ASSUME NEW a \in Allowances, NEW n \in Lifetimes, ApproveLearning(v, a, n, Binding, now)
          PROVE  LearningStep
      BY <1>0, <3>3 DEF LearningStep
    <3> QED
      BY <3>1, <3>2, <3>3 DEF LearningStep
  <2> QED
    BY <1>2, <2>1, <2>2, <2>3 DEF Execute
<1>3. CASE AgentLearns
  <2>1. \A k \in DOMAIN Kinds : Kinds[k] \in {"skill", "executable"}
    BY DEF Kinds
  <2>2. \/ \E v \in Versions, k \in DOMAIN Kinds : Propose(v, Cardinality(Drafted), Kinds[k])
        \/ \E v \in Versions, t \in LiveTasks : Evaluate(v, t, TRUE, Binding, now)
        \/ \E t \in Tasks : Dispatch(t, now)
        \/ \E t \in LiveTasks : EndTasks({t})
    BY <1>3 DEF AgentLearns, Queues
  <2> QED
    BY <2>1, <2>2 DEF LearningStep
<1>4. ASSUME NEW t \in Tasks, NewTask(t)
      PROVE  LearningStep
  BY <1>4 DEF NewTask, LearningStep
<1>5. ASSUME NEW v \in Versions, Evaluates(v)
      PROVE  LearningStep
  <2>1. \/ ClaimBuild(v, Binding, Goes, now) \/ SkillPasses(v, Binding, Goes, now) \/ WorkEnds(v)
        \/ \E ok, refused : CompleteBuild(v, ok, refused, Binding, Goes, now)
    BY <1>5 DEF Evaluates
  <2> QED
    BY <2>1 DEF LearningStep
<1>6. CASE Scheduler
  BY <1>6 DEF Scheduler, LearningStep
<1>7. CASE Restart
  BY <1>7 DEF Restart, LearningStep
<1>8. CASE \E s \in Created : Admit(s) \/ Finish(s) \/ \E n \in Usages : Settle(s, n)
  BY <1>8 DEF Admit, Settle, Finish, LearningStep
<1>9. CASE UNCHANGED vars
  BY <1>9 DEF vars
<1>10. CASE \E c \in Clients : (\E k \in Keys : \E body \in Askable : Ask(c, k, body)) \/ Retry(c) \/ GiveUp(c)
  BY <1>10 DEF Ask, Retry, GiveUp
<1>11. CASE \/ \E r \in inflight : Replay(r) \/ Refuse(r)
            \/ \E a \in Agents : AgentTool(a)
  BY <1>11 DEF Replay, Refuse, AgentTool
<1> QED
  BY <1>2, <1>3, <1>4, <1>5, <1>6, <1>7, <1>8, <1>9, <1>10, <1>11 DEF Next

-----------------------------------------------------------------------------
(* The invariant.                                                          *)

\* Systems keep their types, and their revisions only grow.
LEMMA SystemsKeep ==
  ASSUME IInv, [Next]_vars
  PROVE  /\ SystemsOK'
         /\ \A s \in Systems :
              /\ system[s].revision <= system'[s].revision
              /\ system'[s].revision = system[s].revision => system'[s].stamp = system[s].stamp
<1>1. system' = [s \in Systems |-> system'[s]] /\ \A s \in Systems : Moves(s)
  BY SystemMoves DEF SystemView
<1>2. Len(effects) \in Nat
  <2>1. PICK S : effects \in Seq(S)
    BY DEF IInv, ReceiptsOK
  <2> QED
    BY <2>1
<1>3. cfg' \in Definitions /\ scenario' \in Scenarios
  BY DEF IInv, SystemsOK, Next, vars, commandVars, Ask, Retry, GiveUp, Replay, Execute, Refuse, Answer,
         Admit, Settle, Finish, AgentTool, AgentLearns, NewTask, Evaluates, Scheduler, Restart
<1>4. ASSUME NEW s \in Systems
      PROVE  /\ system'[s] \in Rows
             /\ system[s].revision <= system'[s].revision
             /\ system'[s].revision = system[s].revision => system'[s].stamp = system[s].stamp
             /\ system'[s].state = "none" => system'[s].revision = 0
  <2> DEFINE P == /\ system'[s] \in Rows
                  /\ system[s].revision <= system'[s].revision
                  /\ system'[s].revision = system[s].revision => system'[s].stamp = system[s].stamp
                  /\ system'[s].state = "none" => system'[s].revision = 0
  <2>0. /\ system[s] \in Rows
        /\ cfg \in Definitions /\ "inactive" \in SystemStates
        /\ system[s].state = "none" => system[s].revision = 0
    BY DEF IInv, SystemsOK, SystemStates
  <2>1. ASSUME NEW state \in SystemStates \ {"none"}, system'[s] = [system[s] EXCEPT !.state = state]
        PROVE  P
    BY <2>0, <2>1 DEF Rows
  <2>2. ASSUME system'[s] = system[s]
        PROVE  P
    BY <2>0, <2>2 DEF Rows
  <2>3. ASSUME system'[s] = [system[s] EXCEPT !.reserved = @ + 1]
        PROVE  P
    BY <2>0, <2>3 DEF Rows
  <2>7. ASSUME NEW n \in Nat, NEW excess \in Nat, system[s].reserved > 0,
               system'[s] = [system[s] EXCEPT !.reserved = @ - 1, !.used = @ + n, !.over = @ + excess]
        PROVE  P
    <3>1. system'[s] = [state |-> system[s].state, revision |-> system[s].revision, digest |-> system[s].digest,
                        budget |-> system[s].budget, used |-> system[s].used + n,
                        reserved |-> system[s].reserved - 1, over |-> system[s].over + excess,
                        stamp |-> system[s].stamp]
      BY <2>0, <2>7 DEF Rows
    <3>2. system[s].used + n \in Nat /\ system[s].reserved - 1 \in Nat /\ system[s].over + excess \in Nat
      BY <2>0, <2>7 DEF Rows
    <3> QED
      BY <2>0, <3>1, <3>2 DEF Rows
  <2>4. ASSUME NEW b \in Nat, s \notin Created,
               system'[s] = [state |-> "inactive", revision |-> 1, digest |-> cfg, budget |-> b,
                        used |-> 0, reserved |-> 0, over |-> 0, stamp |-> Len(effects) + 1]
        PROVE  P
    <3>1. system[s].revision = 0
      BY <2>0, <2>4 DEF Created
    <3> QED
      BY <1>2, <2>0, <2>4, <3>1 DEF Rows
  <2>5. ASSUME NEW b \in Nat, s \in Created,
               system'[s] = [system[s] EXCEPT !.revision = @ + 1, !.digest = cfg, !.budget = b,
                                         !.over = 0, !.stamp = Len(effects) + 1]
        PROVE  P
    <3>1. system'[s] = [state |-> system[s].state, revision |-> system[s].revision + 1, digest |-> cfg,
                        budget |-> b, used |-> system[s].used,
                        reserved |-> system[s].reserved, over |-> 0, stamp |-> Len(effects) + 1]
      BY <2>0, <2>5 DEF Rows
    <3>2. system[s].state # "none" /\ system[s].state \in SystemStates
      BY <2>0, <2>5 DEF Created, Rows
    <3> QED
      BY <1>2, <2>0, <3>1, <3>2 DEF Rows
  <2> HIDE DEF P
  <2>6. Moves(s)
    BY <1>1
  <2>8. P
    BY <2>1, <2>2, <2>3, <2>4, <2>5, <2>6, <2>7 DEF Moves
  <2> QED
    BY <2>8 DEF P
<1>5. SystemsOK'
  BY <1>1, <1>3, <1>4 DEF SystemsOK
<1> QED
  BY <1>4, <1>5

\* What a request carries stays what it would replace, whatever happens meanwhile.
LEMMA AskedKept ==
  ASSUME IInv, [Next]_vars, NEW r, Asked(r)
  PROVE  Asked(r)'
<1>1. \A s \in Systems :
        /\ system[s].revision <= system'[s].revision
        /\ system'[s].revision = system[s].revision => system'[s].stamp = system[s].stamp
        /\ system[s].revision \in Nat /\ system'[s].revision \in Nat
  BY SystemsKeep DEF IInv, SystemsOK, Rows
<1>2. \A i \in Ids : Steady(i) /\ heads[i].revision \in Nat /\ heads'[i].revision \in Nat
  <2>1. MemoryOK' /\ \A i \in Ids : Steady(i)
    BY MemorySteps, MemoryKeeps
  <2> QED
    BY <2>1 DEF IInv, MemoryOK, StoreOK
<1>3. SawSystem(r) => SawSystem(r)'
  <2>1. SUFFICES ASSUME SawSystem(r) PROVE SawSystem(r)'
    OBVIOUS
  <2> QED
    BY <1>1, <2>1 DEF SawSystem
<1>4. SawMemory(r) => SawMemory(r)'
  <2>1. SUFFICES ASSUME SawMemory(r) PROVE SawMemory(r)'
    OBVIOUS
  <2> QED
    BY <1>2, <2>1 DEF SawMemory, Steady
<1> QED
  BY <1>3, <1>4 DEF Asked, Formed

\* A client asks for what it can read now.
LEMMA AskAsked ==
  ASSUME IInv, NEW c \in Clients, NEW key \in Keys, NEW body \in Askable, NEW attempt,
         NEW r, r = [client |-> c, key |-> key, body |-> body, saw |-> Saw(body), attempt |-> attempt]
  PROVE  Asked(r)
<1>1. body \in Possible
  BY DEF Askable
<1>2. \A s \in Created : s \in Systems /\ system[s].revision \in Nat /\ system[s].revision <= system[s].revision
  BY DEF Created, IInv, SystemsOK, Rows
<1>3. \A i \in Ids : heads[i].revision \in Nat /\ heads[i].owner \in Owners /\ i \notin Systems
  BY CommandsAssumption DEF IInv, MemoryOK, StoreOK
<1>4. PICK op, on, expected, arg :
        /\ body = Body(op, on, expected, arg)
        /\ op \in {"create", "revise"} => arg \in Budgets
        /\ op = "regrant" => arg \in Versions \cup {0}
        /\ op = "memory.put" => arg \in Owners
        /\ op = "tool.propose" => arg \in DOMAIN Kinds
        /\ op = "learning.approve" => arg \in Allowances
        /\ op \in {"revise", "regrant"} => on \in Created /\ expected = system[on].revision
        /\ op \in MemoryOps /\ on # New => on \in Ids /\ expected = heads[on].revision
  <2> DEFINE Is(op, on, expected, arg) ==
        /\ body = Body(op, on, expected, arg)
        /\ op \in {"create", "revise"} => arg \in Budgets
        /\ op = "regrant" => arg \in Versions \cup {0}
        /\ op = "memory.put" => arg \in Owners
        /\ op = "tool.propose" => arg \in DOMAIN Kinds
        /\ op = "learning.approve" => arg \in Allowances
        /\ op \in {"revise", "regrant"} => on \in Created /\ expected = system[on].revision
        /\ op \in MemoryOps /\ on # New => on \in Ids /\ expected = heads[on].revision
  <2>1. ASSUME NEW b \in Budgets, body = Body("create", New, 0, b)
        PROVE  \E op, on, expected, arg : Is(op, on, expected, arg)
    <3>1. Is("create", New, 0, b)
      BY <2>1 DEF MemoryOps
    <3> HIDE DEF Is
    <3> QED
      BY <3>1
  <2>2. ASSUME NEW s \in Created,
               \/ \E b \in Budgets : body = Body("revise", s, system[s].revision, b)
               \/ \E v \in Versions \cup {0} : body = Body("regrant", s, system[s].revision, v)
        PROVE  \E op, on, expected, arg : Is(op, on, expected, arg)
    <3>1. PICK n : n = system[s].revision
      OBVIOUS
    <3>2. \/ \E b \in Budgets : Is("revise", s, n, b)
          \/ \E v \in Versions \cup {0} : Is("regrant", s, n, v)
      BY <2>2, <3>1 DEF MemoryOps
    <3> HIDE DEF Is
    <3> QED
      BY <3>2
  <2>3. ASSUME NEW s \in Created, NEW op \in {"start", "stop", "pause", "resume"}, NEW n, body = Body(op, s, n, 0)
        PROVE  \E on, expected, arg : Is(op, on, expected, arg)
    <3>1. Is(op, s, n, 0)
      BY <2>3 DEF MemoryOps
    <3> HIDE DEF Is
    <3> QED
      BY <3>1
  <2>4. ASSUME NEW o \in Owners, body = Body("memory.put", New, 0, o)
        PROVE  \E op, on, expected, arg : Is(op, on, expected, arg)
    <3>1. Is("memory.put", New, 0, o)
      BY <2>4 DEF MemoryOps
    <3> HIDE DEF Is
    <3> QED
      BY <3>1
  <2>5. ASSUME NEW i \in Ids,
               \/ body = Body("memory.put", i, heads[i].revision, heads[i].owner)
               \/ body = Body("memory.approve", i, heads[i].revision, 0)
               \/ body = Body("memory.delete", i, heads[i].revision, 0)
        PROVE  \E op, on, expected, arg : Is(op, on, expected, arg)
    <3>1. PICK n, o : n = heads[i].revision /\ o = heads[i].owner
      OBVIOUS
    <3>2. Is("memory.put", i, n, o) \/ Is("memory.approve", i, n, 0) \/ Is("memory.delete", i, n, 0)
      BY <1>3, <2>5, <3>1 DEF MemoryOps
    <3> HIDE DEF Is
    <3> QED
      BY <3>2
  <2>6. ASSUME NEW v, NEW n, NEW k \in DOMAIN Kinds, body = Body("tool.propose", v, n, k)
        PROVE  \E op, on, expected, arg : Is(op, on, expected, arg)
    <3>1. Is("tool.propose", v, n, k)
      BY <2>6 DEF MemoryOps
    <3> HIDE DEF Is
    <3> QED
      BY <3>1
  <2>7. ASSUME NEW v, NEW op \in {"learning.evaluate", "tool.disable", "tool.revoke"}, body = Body(op, v, 0, 0)
        PROVE  \E on, expected, arg : Is(op, on, expected, arg)
    <3>1. Is(op, v, 0, 0)
      BY <2>7 DEF MemoryOps
    <3> HIDE DEF Is
    <3> QED
      BY <3>1
  <2>8. ASSUME NEW v, NEW n \in Allowances, body = Body("learning.approve", v, 0, n)
        PROVE  \E op, on, expected, arg : Is(op, on, expected, arg)
    <3>1. Is("learning.approve", v, 0, n)
      BY <2>8 DEF MemoryOps
    <3> HIDE DEF Is
    <3> QED
      BY <3>1
  <2>9. \/ \E b \in Budgets : body = Body("create", New, 0, b)
        \/ \E s \in Created :
             \/ \E b \in Budgets : body = Body("revise", s, system[s].revision, b)
             \/ \E v \in Versions \cup {0} : body = Body("regrant", s, system[s].revision, v)
        \/ \E s \in Created, op \in {"start", "stop", "pause", "resume"} : \E n : body = Body(op, s, n, 0)
        \/ \E o \in Owners : body = Body("memory.put", New, 0, o)
        \/ \E i \in Ids : \/ body = Body("memory.put", i, heads[i].revision, heads[i].owner)
                          \/ body = Body("memory.approve", i, heads[i].revision, 0)
                          \/ body = Body("memory.delete", i, heads[i].revision, 0)
        \/ \E k \in DOMAIN Kinds : \E v, n : body = Body("tool.propose", v, n, k)
        \/ \E op \in {"learning.evaluate", "tool.disable", "tool.revoke"} : \E v : body = Body(op, v, 0, 0)
        \/ \E n \in Allowances : \E v : body = Body("learning.approve", v, 0, n)
    <3>1. \/ body \in OnNew \/ (\E s \in Created : body \in OnSystem(s))
          \/ (\E v \in Drafted : body \in OnTool(v)) \/ \E i \in Ids : Exists(i) /\ body \in OnMemory(i)
      BY <1>1 DEF Possible
    <3>2. CASE body \in OnNew
      BY <3>2 DEF OnNew
    <3>3. ASSUME NEW s \in Created, body \in OnSystem(s)
          PROVE  \/ \E b \in Budgets : body = Body("revise", s, system[s].revision, b)
                 \/ \E v \in Versions \cup {0} : body = Body("regrant", s, system[s].revision, v)
                 \/ \E op \in {"start", "stop", "pause", "resume"} : \E n : body = Body(op, s, n, 0)
      BY <3>3 DEF OnSystem
    <3>4. ASSUME NEW v \in Drafted, body \in OnTool(v)
          PROVE  \/ \E op \in {"learning.evaluate", "tool.disable", "tool.revoke"} : body = Body(op, v, 0, 0)
                 \/ \E n \in Allowances : body = Body("learning.approve", v, 0, n)
      BY <3>4 DEF OnTool
    <3>5. ASSUME NEW i \in Ids, body \in OnMemory(i)
          PROVE  \/ body = Body("memory.put", i, heads[i].revision, heads[i].owner)
                 \/ body = Body("memory.approve", i, heads[i].revision, 0)
                 \/ body = Body("memory.delete", i, heads[i].revision, 0)
      BY <3>5 DEF OnMemory
    <3> QED
      BY <3>1, <3>2, <3>3, <3>4, <3>5
  <2> HIDE DEF Is
  <2>10. \E op, on, expected, arg : Is(op, on, expected, arg)
    BY <2>1, <2>2, <2>3, <2>4, <2>5, <2>6, <2>7, <2>8, <2>9
  <2> QED
    BY <2>10 DEF Is
<1>5. Formed(r) /\ r.body = body /\ body.op = op /\ body.on = on /\ body.expected = expected /\ body.arg = arg
  BY <1>4 DEF Formed, Body
<1>6. op \in {"revise", "regrant"} => SawSystem(r)
  BY <1>2, <1>4, <1>5 DEF SawSystem, Saw
<1>7. op \in MemoryOps /\ on # New => SawMemory(r)
  BY <1>3, <1>4, <1>5 DEF SawMemory, Saw
<1> QED
  BY <1>4, <1>5, <1>6, <1>7 DEF Asked

\* Requests on their way, and awaited, are what somebody asked.
LEMMA RequestsKeep ==
  ASSUME IInv, [Next]_vars
  PROVE  RequestsOK'
<1>0. RequestsOK
  BY DEF IInv
<1>1. SUFFICES /\ \A r \in inflight' : Asked(r)
               /\ DOMAIN waiting' = Clients /\ \A c \in Clients : waiting'[c] # Idle => Asked(waiting'[c])
  BY AskedKept DEF RequestsOK
<1>2. CASE inflight' \subseteq inflight /\ waiting' = waiting
  BY <1>0, <1>2 DEF RequestsOK
<1>3. ASSUME NEW c \in Clients, NEW r, Asked(r), inflight' \subseteq inflight \cup {r},
             waiting' = [waiting EXCEPT ![c] = r]
      PROVE  /\ \A q \in inflight' : Asked(q)
             /\ DOMAIN waiting' = Clients /\ \A d \in Clients : waiting'[d] # Idle => Asked(waiting'[d])
  BY <1>0, <1>3 DEF RequestsOK
<1>4. ASSUME NEW c \in Clients, inflight' \subseteq inflight, waiting' = [waiting EXCEPT ![c] = Idle]
      PROVE  /\ \A q \in inflight' : Asked(q)
             /\ DOMAIN waiting' = Clients /\ \A d \in Clients : waiting'[d] # Idle => Asked(waiting'[d])
  BY <1>0, <1>4 DEF RequestsOK
<1>5. ASSUME NEW c \in Clients, NEW k \in Keys, NEW body \in Askable, Ask(c, k, body)
      PROVE  /\ \A q \in inflight' : Asked(q)
             /\ DOMAIN waiting' = Clients /\ \A d \in Clients : waiting'[d] # Idle => Asked(waiting'[d])
  <2>1. PICK r : r = [client |-> c, key |-> k, body |-> body, saw |-> Saw(body), attempt |-> 1]
    OBVIOUS
  <2>2. waiting' = [waiting EXCEPT ![c] = r] /\ inflight' = inflight \cup {r}
    BY <1>5, <2>1 DEF Ask
  <2>3. Asked(r)
    BY <2>1, AskAsked
  <2> QED
    BY <1>3, <2>2, <2>3
<1>6. ASSUME NEW c \in Clients, Retry(c)
      PROVE  /\ \A q \in inflight' : Asked(q)
             /\ DOMAIN waiting' = Clients /\ \A d \in Clients : waiting'[d] # Idle => Asked(waiting'[d])
  <2>1. PICK w, r : w = waiting[c] /\ r = [w EXCEPT !.attempt = @ + 1]
    OBVIOUS
  <2>2. waiting' = [waiting EXCEPT ![c] = r] /\ inflight' = inflight \cup {r} /\ Asked(w)
    BY <1>0, <1>6, <2>1 DEF Retry, RequestsOK
  <2>3. Formed(r) /\ r.client = w.client /\ r.key = w.key /\ r.body = w.body /\ r.saw = w.saw
    BY <2>1, <2>2 DEF Asked, Formed
  <2>4. Asked(r)
    BY <2>2, <2>3 DEF Asked, SawSystem, SawMemory
  <2> QED
    BY <1>3, <2>2, <2>4
<1>7. ASSUME NEW c \in Clients, GiveUp(c)
      PROVE  /\ \A q \in inflight' : Asked(q)
             /\ DOMAIN waiting' = Clients /\ \A d \in Clients : waiting'[d] # Idle => Asked(waiting'[d])
  BY <1>4, <1>7 DEF GiveUp
<1>8. ASSUME NEW r \in inflight, NEW outcome, Answer(r, outcome)
      PROVE  /\ \A q \in inflight' : Asked(q)
             /\ DOMAIN waiting' = Clients /\ \A d \in Clients : waiting'[d] # Idle => Asked(waiting'[d])
  <2>1. r.client \in Clients
    BY <1>0 DEF RequestsOK, Asked
  <2> QED
    BY <1>2, <1>4, <1>8, <2>1 DEF Answer
<1>9. CASE \E r \in inflight : Replay(r) \/ Execute(r) \/ Refuse(r)
  <2>1. PICK r \in inflight : \E outcome : Answer(r, outcome)
    BY <1>9 DEF Replay, Execute, Refuse
  <2> QED
    BY <1>8, <2>1
<1>10. CASE \/ \E s \in Created : Admit(s) \/ Finish(s) \/ \E n \in Usages : Settle(s, n)
            \/ \E a \in Agents : AgentTool(a)
            \/ AgentLearns \/ Scheduler \/ Restart
            \/ \E t \in Tasks : NewTask(t)
            \/ \E v \in Versions : Evaluates(v)
            \/ UNCHANGED vars
  BY <1>2, <1>10 DEF Admit, Settle, Finish, AgentTool, AgentLearns, Scheduler, Restart, NewTask, Evaluates,
                     vars, commandVars
<1> QED
  BY <1>5, <1>6, <1>7, <1>9, <1>10 DEF Next

\* An accepted command: its effect is new, and its receipt is of that effect.
LEMMA ExecuteReceipts ==
  ASSUME IInv, NEW r \in inflight, Execute(r)
  PROVE  /\ ReceiptsOK'
         /\ ~Promise!Done(r.key)
         /\ \E o : /\ o.key = r.key /\ effects' = Append(effects, o) /\ o = effects'[Len(effects) + 1]
                   /\ Len(effects) + 1 \in DOMAIN effects'
                   /\ heard' = heard \/ heard' = heard \cup {o}
<1>0. ReceiptsOK /\ r.key \in Keys
  BY DEF IInv, RequestsOK, Asked
<1>1. PICK answer, o : answer = Result(r) /\ o = [key |-> r.key, body |-> r.body, answer |-> answer]
  OBVIOUS
<1>2. /\ receipts[r.key] = <<>>
      /\ receipts' = [receipts EXCEPT ![r.key] = <<[body |-> r.body, answer |-> answer]>>]
      /\ effects' = Append(effects, o)
      /\ heard' = heard \/ heard' = heard \cup {o}
  BY <1>1 DEF Execute, Outcome, Answer
<1>3. PICK S : effects \in Seq(S)
  BY <1>0 DEF ReceiptsOK
<1>4. /\ effects \in Seq(S \cup {o}) /\ effects' \in Seq(S \cup {o})
      /\ Len(effects) \in Nat /\ DOMAIN effects = 1 .. Len(effects)
      /\ DOMAIN effects' = 1 .. Len(effects) + 1 /\ effects'[Len(effects) + 1] = o
      /\ \A i \in DOMAIN effects : effects'[i] = effects[i]
  <2>1. effects \in Seq(S \cup {o}) /\ o \in S \cup {o} /\ Len(effects) \in Nat
    BY <1>3
  <2> QED
    BY <1>2, <2>1
<1>5. ~Promise!Done(r.key)
  BY <1>0, <1>2 DEF ReceiptsOK
<1>6. ReceiptsOK'
  <2>1. DOMAIN receipts' = Keys
    BY <1>0, <1>2 DEF ReceiptsOK
  <2>2. \E T : effects' \in Seq(T)
    BY <1>4
  <2>3. receipts'[r.key] = <<[body |-> r.body, answer |-> answer]>>
        /\ \A k \in Keys \ {r.key} : receipts'[k] = receipts[k]
    BY <1>0, <1>2 DEF ReceiptsOK
  <2>4. ASSUME NEW k \in Keys, receipts'[k] = <<>>
        PROVE  ~Promise!Done(k)'
    <3>1. k # r.key
      BY <2>3, <2>4
    <3>2. receipts[k] = <<>>
      BY <2>3, <2>4, <3>1
    <3>3. \A i \in DOMAIN effects : effects[i].key # k
      BY <1>0, <3>2 DEF ReceiptsOK, Promise!Done
    <3>4. o.key # k
      BY <1>1, <3>1
    <3>5. \A i \in DOMAIN effects' : effects'[i].key # k
      BY <1>4, <3>3, <3>4
    <3> QED
      BY <3>5 DEF Promise!Done
  <2>5. ASSUME NEW k \in Keys, receipts'[k] # <<>>
        PROVE  \E i \in DOMAIN effects' :
                 effects'[i] = [key |-> k, body |-> receipts'[k][1].body, answer |-> receipts'[k][1].answer]
    <3>1. CASE k = r.key
      <4>1. receipts'[k][1] = [body |-> r.body, answer |-> answer]
        BY <2>3, <3>1
      <4>2. effects'[Len(effects) + 1] = [key |-> k, body |-> receipts'[k][1].body, answer |-> receipts'[k][1].answer]
        BY <1>1, <1>4, <3>1, <4>1
      <4> QED
        BY <1>4, <4>2
    <3>2. CASE k # r.key
      <4>1. receipts'[k] = receipts[k] /\ receipts[k] # <<>>
        BY <2>3, <2>5, <3>2
      <4>2. PICK i \in DOMAIN effects :
              effects[i] = [key |-> k, body |-> receipts[k][1].body, answer |-> receipts[k][1].answer]
        BY <1>0, <4>1 DEF ReceiptsOK
      <4> QED
        BY <1>4, <4>1, <4>2
    <3> QED
      BY <3>1, <3>2
  <2> QED
    BY <2>1, <2>2, <2>4, <2>5 DEF ReceiptsOK
<1> QED
  BY <1>1, <1>2, <1>4, <1>5, <1>6

\* Every step keeps the receipts true, and implements the promise or stutters.
LEMMA Promises ==
  ASSUME IInv, [Next]_vars
  PROVE  ReceiptsOK' /\ [Promise!Next]_<<effects, heard>>
<1>1. CASE UNCHANGED <<receipts, effects, heard>>
  <2>1. ReceiptsOK'
    BY <1>1 DEF IInv, ReceiptsOK, Promise!Done
  <2> QED
    BY <1>1, <2>1
<1>2. ASSUME NEW r \in inflight, Execute(r)
      PROVE  ReceiptsOK' /\ [Promise!Next]_<<effects, heard>>
  <2>1. PICK o : /\ ~Promise!Done(o.key) /\ effects' = Append(effects, o) /\ o = effects'[Len(effects) + 1]
                 /\ Len(effects) + 1 \in DOMAIN effects'
                 /\ heard' = heard \/ heard' = heard \cup {o}
    BY <1>2, ExecuteReceipts
  <2>2. Promise!Apply(effects'[Len(effects) + 1])
    BY <2>1 DEF Promise!Apply
  <2>3. Promise!Next
    BY <2>1, <2>2 DEF Promise!Next
  <2> QED
    BY <1>2, <2>3, ExecuteReceipts
<1>3. ASSUME NEW r \in inflight, Replay(r)
      PROVE  ReceiptsOK' /\ [Promise!Next]_<<effects, heard>>
  <2>0. r.key \in Keys /\ ReceiptsOK
    BY DEF IInv, RequestsOK, Asked
  <2>1. receipts[r.key] # <<>> /\ UNCHANGED <<receipts, effects>>
    BY <1>3 DEF Replay
  <2>2. ReceiptsOK'
    BY <2>0, <2>1 DEF ReceiptsOK, Promise!Done
  <2>3. PICK i \in DOMAIN effects :
          effects[i] = [key |-> r.key, body |-> receipts[r.key][1].body, answer |-> receipts[r.key][1].answer]
    BY <2>0, <2>1 DEF ReceiptsOK
  <2>4. heard' = heard \/ heard' = heard \cup {effects[i]}
    <3>1. heard' = heard \/ heard' = heard \cup IF receipts[r.key][1].body = r.body
                                    THEN {Outcome(r, receipts[r.key][1].answer)} ELSE {}
      BY <1>3 DEF Replay, Answer
    <3>2. receipts[r.key][1].body = r.body => Outcome(r, receipts[r.key][1].answer) = effects[i]
      BY <2>3 DEF Outcome
    <3> QED
      BY <3>1, <3>2
  <2>5. CASE heard' = heard
    BY <2>1, <2>2, <2>5
  <2>6. CASE heard' = heard \cup {effects[i]}
    <3>1. Promise!Acknowledge(effects[i])
      BY <2>1, <2>6 DEF Promise!Acknowledge
    <3> QED
      BY <2>2, <3>1 DEF Promise!Next
  <2> QED
    BY <2>4, <2>5, <2>6
<1>4. ASSUME NEW r \in inflight, Refuse(r)
      PROVE  ReceiptsOK' /\ [Promise!Next]_<<effects, heard>>
  <2>1. heard' = heard \/ heard' = heard \cup {}
    BY <1>4 DEF Refuse, Answer
  <2> QED
    BY <1>1, <1>4, <2>1 DEF Refuse
<1>5. CASE \/ \E c \in Clients : (\E k \in Keys : \E body \in Askable : Ask(c, k, body)) \/ Retry(c) \/ GiveUp(c)
           \/ \E s \in Created : Admit(s) \/ Finish(s) \/ \E n \in Usages : Settle(s, n)
           \/ \E a \in Agents : AgentTool(a)
           \/ AgentLearns \/ Scheduler \/ Restart
           \/ \E t \in Tasks : NewTask(t)
           \/ \E v \in Versions : Evaluates(v)
           \/ UNCHANGED vars
  BY <1>1, <1>5 DEF Ask, Retry, GiveUp, Admit, Settle, Finish, AgentTool, AgentLearns, Scheduler, Restart,
                    NewTask, Evaluates, vars, commandVars
<1> QED
  BY <1>2, <1>3, <1>4, <1>5 DEF Next

\* The initial states satisfy the invariant.
LEMMA Starts == Init => IInv
<1>1. SUFFICES ASSUME Init PROVE IInv
  OBVIOUS
<1>2. SystemsOK
  <2>1. ExistingBudget \in Nat
    BY CommandsAssumption
  <2>2. (CHOOSE d \in Definitions : TRUE) \in Definitions
    BY <1>1 DEF Init
  <2>3. PICK state \in {"inactive", "running"} :
          system = [s \in Systems |-> IF s \in Existing
                    THEN [Uncreated EXCEPT !.state = state, !.revision = 1, !.budget = ExistingBudget]
                    ELSE Uncreated]
    BY <1>1 DEF Init
  <2>4. Uncreated \in Rows
    BY <2>2 DEF Uncreated, SystemStates, Rows
  <2>5. ASSUME NEW s \in Systems
        PROVE  /\ system[s] \in Rows
               /\ system[s].state = "none" => system[s].revision = 0
    <3>1. CASE s \in Existing
      <4>1. system[s] = [Uncreated EXCEPT !.state = state, !.revision = 1, !.budget = ExistingBudget]
        BY <2>3, <3>1
      <4>2. system[s] = [state |-> state, revision |-> 1, digest |-> Uncreated.digest,
                         budget |-> ExistingBudget, used |-> 0, reserved |-> 0, over |-> 0, stamp |-> 0]
        BY <4>1 DEF Uncreated
      <4>3. Uncreated.digest \in Definitions
        BY <2>4 DEF Rows
      <4>4. state \in SystemStates /\ state # "none"
        BY <2>3 DEF SystemStates
      <4> QED
        BY <2>1, <4>2, <4>3, <4>4 DEF Rows
    <3>2. CASE s \notin Existing
      <4>1. system[s] = Uncreated
        BY <2>3, <3>2
      <4> QED
        BY <2>4, <4>1 DEF Uncreated
    <3> QED
      BY <3>1, <3>2
  <2>6. cfg \in Definitions /\ scenario \in Scenarios /\ system = [s \in Systems |-> system[s]]
    BY <1>1, <2>3 DEF Init
  <2> QED
    BY <2>5, <2>6 DEF SystemsOK
<1>3. MemoryOK
  BY <1>1, MemoryStarts DEF Init
<1>4. IInvLearning
  <2>1. scenario \in Scenarios /\ LearningInit(scenario.learned)
    BY <1>1 DEF Init
  <2>2. PICK n \in Nat : n = scenario.learned
    BY <2>1, CommandsAssumption
  <2>3. LearningInit(n)
    BY <2>1, <2>2
  <2> QED
    BY <2>3, LearningStarts
<1>5. RequestsOK
  BY <1>1 DEF Init, RequestsOK
<1>6. ReceiptsOK
  <2>1. effects \in Seq({}) /\ DOMAIN effects = {}
    BY <1>1 DEF Init
  <2> QED
    BY <1>1, <2>1 DEF Init, ReceiptsOK, Promise!Done
<1> QED
  BY <1>2, <1>3, <1>4, <1>5, <1>6 DEF IInv

\* Every step keeps the invariant.
LEMMA Keeps == IInv /\ [Next]_vars => IInv'
<1>1. SUFFICES ASSUME IInv, [Next]_vars PROVE IInv'
  OBVIOUS
<1>2. SystemsOK' /\ RequestsOK' /\ ReceiptsOK'
  BY <1>1, SystemsKeep, RequestsKeep, Promises
<1>3. MemoryOK'
  BY <1>1, MemorySteps, MemoryKeeps
<1>4. IInvLearning'
  BY <1>1, LearningSteps, LearningKeeps DEF IInv
<1> QED
  BY <1>2, <1>3, <1>4 DEF IInv

\* The invariant holds in every reachable state.
LEMMA Invariant == Spec => []IInv
BY Starts, Keeps, PTL DEF Spec

-----------------------------------------------------------------------------
(* The theorems.                                                           *)

\* Store.command, with its receipts, retries, lost answers and restarts, does
\* what Once promises: a key takes effect at most once.
THEOREM Implements == Spec => OncePerKey
<1>1. Init => Promise!Init
  BY DEF Init, Promise!Init
<1>2. IInv /\ [Next]_vars => [Promise!Next]_<<effects, heard>>
  BY Promises
<1> QED
  BY <1>1, <1>2, Invariant, PTL DEF Spec, OncePerKey, Promise!Spec

\* A finite approval admits as many distinct tasks as it grants: uses and what
\* is left add up, and no task is dispatched without its use.
THEOREM UsesAddUp == Spec => []UsesKept
BY Invariant, PTL DEF IInv, IInvLearning

\* No version is approved, or ready to be, once it was rejected or disabled.
THEOREM DisabledInert == Spec => []DisabledStaysInert
BY Invariant, PTL DEF IInv, IInvLearning

\* A revision covers what is used and reserved, and only a provider's report beyond a
\* reservation takes the two past it afterwards, however late it comes.
THEOREM BudgetKept == Spec => []BudgetCovers
<1>1. Init => BudgetCovers
  <2>1. SUFFICES ASSUME Init, NEW s \in Created PROVE Spent(s) <= system[s].budget + system[s].over
    BY DEF BudgetCovers
  <2>2. SystemsOK
    BY <2>1, Starts DEF IInv
  <2>3. PICK state \in {"inactive", "running"} :
          system = [u \in Systems |-> IF u \in Existing
                    THEN [Uncreated EXCEPT !.state = state, !.revision = 1, !.budget = ExistingBudget]
                    ELSE Uncreated]
    BY <2>1 DEF Init
  <2>4. system[s].used = 0 /\ system[s].reserved = 0
    BY <2>1, <2>3 DEF Created, Uncreated
  <2>5. system[s].budget \in Nat /\ system[s].over \in Nat
    BY <2>1, <2>2 DEF SystemsOK, Rows, Created
  <2> QED
    BY <2>4, <2>5 DEF Spent
<1>2. IInv /\ BudgetCovers /\ [Next]_vars => BudgetCovers'
  <2>1. SUFFICES ASSUME IInv, BudgetCovers, [Next]_vars, NEW s \in Created'
                 PROVE  Spent(s)' <= system'[s].budget + system'[s].over
    BY DEF BudgetCovers
  <2>2. s \in Systems /\ Moves(s)
    BY <2>1, SystemMoves DEF SystemView, Created
  <2>3. /\ system[s] \in Rows
        /\ s \in Created => Spent(s) <= system[s].budget + system[s].over
    BY <2>1, <2>2 DEF BudgetCovers, IInv, SystemsOK
  <2> DEFINE P == Spent(s)' <= system'[s].budget + system'[s].over
  <2>4. ASSUME s \in Created, NEW state, system'[s] = [system[s] EXCEPT !.state = state]
        PROVE  P
    BY <2>3, <2>4 DEF Rows, Spent
  <2>5. ASSUME system'[s] = system[s]
        PROVE  P
    BY <2>1, <2>2, <2>3, <2>5 DEF Created, Spent
  <2>6. ASSUME Remaining(s), system'[s] = [system[s] EXCEPT !.reserved = @ + 1]
        PROVE  P
    BY <2>3, <2>6 DEF Rows, Spent, Remaining
  <2>7. ASSUME NEW b \in Nat,
               system'[s] = [state |-> "inactive", revision |-> 1, digest |-> cfg, budget |-> b,
                             used |-> 0, reserved |-> 0, over |-> 0, stamp |-> Len(effects) + 1]
        PROVE  P
    BY <2>7 DEF Spent
  <2>8. ASSUME NEW b \in Nat, b >= Spent(s),
               system'[s] = [system[s] EXCEPT !.revision = @ + 1, !.digest = cfg, !.budget = b,
                                              !.over = 0, !.stamp = Len(effects) + 1]
        PROVE  P
    <3>1. /\ system'[s].used = system[s].used /\ system'[s].reserved = system[s].reserved
          /\ system'[s].budget = b /\ system'[s].over = 0
      BY <2>3, <2>8 DEF Rows
    <3> QED
      BY <2>3, <2>8, <3>1 DEF Spent, Rows
  <2>9. ASSUME NEW n \in Nat, NEW excess \in Nat, system[s].reserved > 0, excess >= n - 1,
               system'[s] = [system[s] EXCEPT !.reserved = @ - 1, !.used = @ + n, !.over = @ + excess]
        PROVE  P
    <3>1. s \in Created
      <4>1. system'[s].state = system[s].state
        BY <2>3, <2>9 DEF Rows
      <4> QED
        BY <2>1, <2>2, <4>1 DEF Created
    <3>2. /\ system'[s].used = system[s].used + n /\ system'[s].reserved = system[s].reserved - 1
          /\ system'[s].budget = system[s].budget /\ system'[s].over = system[s].over + excess
      BY <2>3, <2>9 DEF Rows
    <3> QED
      BY <2>3, <2>9, <3>1, <3>2 DEF Spent, Rows
  <2> HIDE DEF P
  <2>10. P
    BY <2>2, <2>4, <2>5, <2>6, <2>7, <2>8, <2>9 DEF Moves
  <2> QED
    BY <2>10 DEF P
<1> QED
  BY <1>1, <1>2, Invariant, PTL DEF Spec

-----------------------------------------------------------------------------
(* What agents find, and who replaces what.                                *)

\* What was found before under the same head was reviewed, and is as it was.
LEMMA FoundKept ==
  ASSUME StoreOK, SharedReviewed, NEW i \in Ids, i \in Found(Shared)', heads'[i] = heads[i],
         now \in Nat, now' \in Nat, now <= now', Content(i)' = Content(i),
         \A m \in 1 .. writes : author'[m] = author[m], reviewed \subseteq reviewed'
  PROVE  author'[Content(i)'] = Administrator \/ Content(i)' \in reviewed'
<1>1. i \in Found(Shared) /\ Content(i) # 0
  BY DEF Found, StoreOK
<1>2. Content(i) \in 1 .. writes
  BY <1>1, ContentStored DEF StoreOK
<1> QED
  BY <1>1, <1>2 DEF SharedReviewed

\* No step lets agents find what nobody has reviewed.
LEMMA ReviewedStep ==
  ASSUME IInv, MemoryStep, SharedReviewed, NEW i \in Ids, i \in Found(Shared)'
  PROVE  author'[Content(i)'] = Administrator \/ Content(i)' \in reviewed'
<1> DEFINE Goal == author'[Content(i)'] = Administrator \/ Content(i)' \in reviewed'
<1>0. StoreOK /\ MemoryOK /\ now \in Nat /\ now <= now /\ MemoryOK' /\ StoreOK' /\ now' \in Nat /\ Steady(i)
  BY MemoryKeeps DEF IInv, MemoryOK, StoreOK
<1>a. Exists(i)' /\ heads'[i].state = "active" /\ heads'[i].owner = Shared /\ heads'[i].expires > now'
  BY DEF Found, Exists
<1>1. CASE UNCHANGED memoryVars
  <2>1. UNCHANGED <<heads, rows, now, author, reviewed>> /\ Content(i)' = Content(i)
    BY <1>1 DEF memoryVars, Content
  <2> QED
    BY <1>0, <2>1, FoundKept
<1>2. ASSUME NEW r \in inflight, NEW j \in Ids, NEW n \in Retentions, AdminPuts(r, j, n)
      PROVE  Goal
  <2>6. Writes(j, Administrator) /\ now' = now /\ reviewed' = reviewed
    BY <1>0, <1>2, AdminPutEffect
  <2>7. CASE i = j
    BY <2>6, <2>7 DEF Writes
  <2>8. CASE i # j
    BY <1>0, <2>6, <2>8, FoundKept DEF Writes
  <2> QED
    BY <2>7, <2>8
<1>3. ASSUME NEW r \in inflight, NEW j \in Ids, Approves(r, j)
      PROVE  Goal
  <2>1. PICK expected : expected = r.body.expected /\ Approve(j, expected)
    BY <1>3 DEF Approves
  <2>2. now' = now /\ reviewed' = reviewed \cup {r.saw} /\ SawMemory(r) /\ r.body.on = j /\ author' = author
    BY <1>3, <2>1 DEF Approves, Approve
  <2>3. /\ Exists(j) /\ heads[j].revision = expected
        /\ \A k \in Ids : Content(k)' = Content(k) /\ (k # j => heads'[k] = heads[k])
    BY <1>0, <2>1, <2>2, ApproveEffect
  <2>4. CASE i = j
    BY <2>1, <2>2, <2>3, <2>4 DEF SawMemory
  <2>5. CASE i # j
    BY <1>0, <2>2, <2>3, <2>5, FoundKept
  <2> QED
    BY <2>4, <2>5
<1>4. ASSUME NEW r \in inflight, NEW j \in Ids, Deletes(r, j)
      PROVE  Goal
  <2>1. PICK expected : Delete(j, expected)
    BY <1>4 DEF Deletes
  <2>2. now' = now /\ reviewed' = reviewed /\ author' = author
    BY <1>4, <2>1 DEF Deletes, Delete
  <2>3. heads'[j].state = "deleted" /\ \A k \in Ids \ {j} : heads'[k] = heads[k]
    BY <1>0, <2>1, <2>2, DeleteEffect
  <2>4. i # j /\ heads'[i] = heads[i]
    BY <1>a, <2>3
  <2>5. Content(i)' = Content(i)
    BY <1>0, <1>a, <2>4 DEF Steady
  <2> QED
    BY <1>0, <2>2, <2>4, <2>5, FoundKept
<1>5. ASSUME NEW a \in Agents, NEW owner \in Owners, Search(a, owner)
      PROVE  Goal
  <2>1. UNCHANGED <<heads, rows, now, author, reviewed>>
    BY <1>5 DEF Search
  <2>2. Content(i)' = Content(i)
    BY <2>1 DEF Content
  <2> QED
    BY <1>0, <2>1, <2>2, FoundKept
<1>6. ASSUME NEW a \in Agents, NEW owner \in Owners, NEW j \in Ids, NEW n \in Retentions, AgentPut(a, j, owner, n)
      PROVE  Goal
  <2>1. /\ now' = now /\ reviewed' = reviewed
        /\ heads'[j].owner = owner /\ (owner = Shared => heads'[j].state = "pending")
        /\ Writes(j, a)
    BY <1>0, <1>6, AgentPutEffect, Zenon
  <2>2. i # j
    BY <1>a, <2>1
  <2> QED
    BY <1>0, <2>1, <2>2, FoundKept DEF Writes
<1>7. CASE Pump
  <2>1. now' = now /\ reviewed' = reviewed /\ author' = author
    BY <1>7 DEF Pump
  <2>2. heads'[i] = heads[i]
    BY <1>0, <1>7, <1>a DEF Pump, StoreOK
  <2>3. Content(i)' = Content(i)
    BY <1>0, <1>a, <2>2 DEF Steady
  <2> QED
    BY <1>0, <2>1, <2>2, <2>3, FoundKept
<1>8. CASE Tick
  <2>1. UNCHANGED <<heads, author, reviewed>>
    BY <1>8 DEF Tick
  <2>2. now <= now' /\ Content(i)' = Content(i)
    BY <1>0, <1>8, TickEffect
  <2> QED
    BY <1>0, <2>1, <2>2, FoundKept
<1> QED
  BY <1>1, <1>2, <1>3, <1>4, <1>5, <1>6, <1>7, <1>8 DEF MemoryStep

\* What agents find in the shared memory is the administrator's, or was approved
\* by an administrator who had read exactly that content.
THEOREM Reviewed == Spec => []SharedReviewed
<1>1. Init => SharedReviewed
  BY DEF Init, MemoryInit, SharedReviewed, Found, NoHead
<1>2. IInv /\ SharedReviewed /\ [Next]_vars => SharedReviewed'
  <2>1. SUFFICES ASSUME IInv, SharedReviewed, [Next]_vars, NEW i \in Found(Shared)'
                 PROVE  author'[Content(i)'] = Administrator \/ Content(i)' \in reviewed'
    BY DEF SharedReviewed
  <2>2. i \in Ids /\ MemoryStep
    BY <2>1, MemorySteps DEF Found
  <2> QED
    BY <2>1, <2>2, ReviewedStep
<1> QED
  BY <1>1, <1>2, Invariant, PTL DEF Spec

\* A shared entry in force stands until a command or its retention ends it: the
\* agents' tools and the scheduler leave it alone.
LEMMA StandsStep ==
  ASSUME IInv, MemoryStep, NEW i \in Found(Shared)
  PROVE  \/ i \in Found(Shared)' /\ Content(i)' = Content(i)
         \/ effects' # effects
         \/ heads[i].expires <= now'
<1> DEFINE Goal == \/ i \in Found(Shared)' /\ Content(i)' = Content(i)
                   \/ effects' # effects
                   \/ heads[i].expires <= now'
<1>0. /\ StoreOK /\ MemoryOK /\ i \in Ids /\ Steady(i) /\ now \in Nat /\ now' \in Nat
      /\ heads[i].expires \in Nat
  BY MemoryKeeps DEF IInv, MemoryOK, StoreOK, Found
<1>1. heads[i].owner = Shared /\ heads[i].state = "active" /\ heads[i].expires > now /\ Content(i) # 0
  BY DEF Found
<1>2. ASSUME heads'[i] = heads[i], Content(i)' = Content(i)
      PROVE  Goal
  BY <1>0, <1>1, <1>2 DEF Found
<1>3. CASE UNCHANGED memoryVars
  BY <1>2, <1>3 DEF memoryVars, Content
<1>4. ASSUME NEW a \in Agents, NEW owner \in Owners, Search(a, owner)
      PROVE  Goal
  <2>1. UNCHANGED <<heads, rows>>
    BY <1>4 DEF Search
  <2> QED
    BY <1>2, <2>1 DEF Content
<1>5. ASSUME NEW a \in Agents, NEW owner \in Owners, NEW j \in Ids, NEW n \in Retentions, AgentPut(a, j, owner, n)
      PROVE  Goal
  <2>1. /\ Writes(j, a)
        /\ heads[j] = NoHead \/ MayUpdate(j, owner, heads[j].revision, FALSE)
    BY <1>0, <1>5, AgentPutEffect, Zenon
  <2>2. i # j
    BY <1>1, <2>1 DEF NoHead, MayUpdate
  <2> QED
    BY <1>0, <1>2, <2>1, <2>2 DEF Writes
<1>6. CASE Pump
  <2>1. heads'[i] = heads[i] /\ now' = now
    BY <1>0, <1>1, <1>6, PumpEffect DEF Pump
  <2>2. Exists(i)'
    BY <1>1, <2>1 DEF Exists
  <2> QED
    BY <1>0, <1>2, <2>1, <2>2 DEF Steady
<1>7. CASE Tick
  <2>1. heads' = heads
    BY <1>7 DEF Tick
  <2>2. Content(i)' = Content(i)
    BY <1>0, <1>7, TickEffect
  <2> QED
    BY <1>2, <2>1, <2>2
<1> QED
  BY <1>3, <1>4, <1>5, <1>6, <1>7 DEF MemoryStep

\* No agent's proposal hides or replaces a shared entry in force.
THEOREM Stands == Spec => SharedStands
<1>1. IInv /\ [Next]_vars =>
        [\A i \in Found(Shared) :
           \/ i \in Found(Shared)' /\ Content(i)' = Content(i)
           \/ effects' # effects
           \/ heads[i].expires <= now']_vars
  BY MemorySteps, StandsStep
<1> QED
  BY <1>1, Invariant, PTL DEF Spec, SharedStands

\* Whoever writes a new revision of a memory had read the one it replaces.
LEMMA NoBlindMemory ==
  ASSUME IInv, MemoryStep, NEW i \in Ids, heads[i].state \in States, heads'[i].revision # heads[i].revision
  PROVE  \/ \E r \in inflight \ inflight' : r.body.on = i /\ r.saw = Content(i)
         \/ \E a \in Agents : read[a][i].content = Content(i) /\ author'[writes'] = a
<1> DEFINE Goal == \/ \E r \in inflight \ inflight' : r.body.on = i /\ r.saw = Content(i)
                   \/ \E a \in Agents : read[a][i].content = Content(i) /\ author'[writes'] = a
<1>0. StoreOK /\ MemoryOK /\ heads[i] # NoHead
  BY DEF IInv, MemoryOK, NoHead, States
<1>1. ASSUME NEW r \in inflight \ inflight', NEW j \in Ids, NEW n \in Retentions, AdminPuts(r, j, n)
      PROVE  Goal
  <2>1. i = j
    BY <1>0, <1>1, AdminPutEffect DEF Writes
  <2>2. i = r.body.on /\ SawMemory(r) /\ Exists(i) /\ heads[i].revision = r.body.expected
    BY <1>0, <1>1, <2>1, AdminPutEffect
  <2> QED
    BY <2>2 DEF SawMemory
<1>2. ASSUME NEW r \in inflight \ inflight', NEW j \in Ids, Approves(r, j) \/ Deletes(r, j)
      PROVE  FALSE
  BY <1>0, <1>2, SMTT(20) DEF Approves, Deletes, Approve, Delete, StoreOK
<1>3. ASSUME NEW a \in Agents, NEW owner \in Owners, NEW j \in Ids, NEW n \in Retentions, AgentPut(a, j, owner, n)
      PROVE  Goal
  <2>1. /\ Writes(j, a)
        /\ read[a][j].revision = heads[j].revision
        /\ heads[j] = NoHead \/ MayUpdate(j, owner, heads[j].revision, FALSE)
    BY <1>0, <1>3, AgentPutEffect, Zenon
  <2>2. i = j
    BY <2>1 DEF Writes
  <2>3. Exists(i)
    BY <1>0, <2>1, <2>2 DEF MayUpdate
  <2>4. read[a][i].content = Content(i)
    BY <1>0, <2>1, <2>2, <2>3 DEF MemoryOK, ReadOK
  <2> QED
    BY <2>1, <2>4 DEF Writes
<1>4. ASSUME UNCHANGED memoryVars \/ Tick \/ \E a \in Agents, owner \in Owners : Search(a, owner)
      PROVE  FALSE
  BY <1>4 DEF memoryVars, Tick, Search
<1>5. ASSUME Pump
      PROVE  FALSE
  BY <1>0, <1>5 DEF Pump, StoreOK
<1> QED
  BY <1>1, <1>2, <1>3, <1>4, <1>5 DEF MemoryStep

\* Whoever writes a new revision of a system had read the one it replaces.
LEMMA NoBlindSystem ==
  ASSUME IInv, SystemView, NEW s \in Created, system'[s].stamp # system[s].stamp
  PROVE  \E r \in inflight \ inflight' : r.body.on = s /\ r.saw = system[s].stamp
<1>1. /\ s \in Systems /\ Moves(s)
      /\ system[s] \in Rows
  BY DEF SystemView, Created, IInv, SystemsOK
<1>2. ASSUME NEW r \in inflight \ inflight', r.body.op \in {"revise", "regrant"}, r.body.on = s,
             r.body.expected = system[s].revision
      PROVE  r.body.on = s /\ r.saw = system[s].stamp
  <2>1. SawSystem(r)
    BY <1>2 DEF IInv, RequestsOK, Asked
  <2> QED
    BY <1>2, <2>1 DEF SawSystem
<1>3. ASSUME NEW state, system'[s] = [system[s] EXCEPT !.state = state]
      PROVE  FALSE
  BY <1>1, <1>3
<1>4. ASSUME system'[s] = [system[s] EXCEPT !.reserved = @ + 1]
      PROVE  FALSE
  BY <1>1, <1>4 DEF Rows
<1>5. ASSUME NEW n, NEW excess,
             system'[s] = [system[s] EXCEPT !.reserved = @ - 1, !.used = @ + n, !.over = @ + excess]
      PROVE  FALSE
  BY <1>1, <1>5 DEF Rows
<1> QED
  BY <1>1, <1>2, <1>3, <1>4, <1>5 DEF Moves

\* Nobody overwrites what it has not read, however late its command arrives.
THEOREM NoBlind == Spec => NoBlindOverwrite
<1>1. IInv /\ [Next]_vars =>
        [/\ \A s \in Created : system'[s].stamp # system[s].stamp =>
              \E r \in inflight \ inflight' : r.body.on = s /\ r.saw = system[s].stamp
         /\ \A i \in Ids : heads[i].state \in States /\ heads'[i].revision # heads[i].revision =>
              \/ \E r \in inflight \ inflight' : r.body.on = i /\ r.saw = Content(i)
              \/ \E a \in Agents : read[a][i].content = Content(i) /\ author'[writes'] = a]_vars
  <2>1. SUFFICES ASSUME IInv, [Next]_vars
                 PROVE  /\ \A s \in Created : system'[s].stamp # system[s].stamp =>
                             \E r \in inflight \ inflight' : r.body.on = s /\ r.saw = system[s].stamp
                        /\ \A i \in Ids : heads[i].state \in States /\ heads'[i].revision # heads[i].revision =>
                             \/ \E r \in inflight \ inflight' : r.body.on = i /\ r.saw = Content(i)
                             \/ \E a \in Agents : read[a][i].content = Content(i) /\ author'[writes'] = a
    OBVIOUS
  <2>2. MemoryStep /\ SystemView
    BY <2>1, MemorySteps, SystemMoves
  <2> QED
    BY <2>1, <2>2, NoBlindMemory, NoBlindSystem
<1> QED
  BY <1>1, Invariant, PTL DEF Spec, NoBlindOverwrite
=============================================================================
