------------------------------ MODULE Memory ------------------------------
(***************************************************************************)
(* The memory of one system: heads that select a revision, the stored      *)
(* revisions, their retention, and who may see them (state/knowledge.go,   *)
(* the memory commands of state/commands.go).  Administrators and agents   *)
(* write the same heads: an administrator through a command that may       *)
(* arrive long after the read it was written from (module Commands), an    *)
(* agent through a tool call of its task.                                  *)
(*                                                                         *)
(* An owner stands for a scope and its owner_id: Shared for "system", an   *)
(* agent for "agent" and "task".  A content is its number in the order of  *)
(* writing.  Text, evidence, artifacts and paging are left out.            *)
(***************************************************************************)
EXTENDS Integers, FiniteSets

CONSTANTS
  Ids,          \* memory identities, never used again
  Agents, Shared, Administrator,
  MaxRevision,  \* 32 in putMemory
  Retentions,   \* retention_seconds, in ticks
  MaxNow, MaxWrites   \* bounds of the model: the clock, contents written

ASSUME MemoryAssumption ==
  /\ IsFiniteSet(Ids) /\ IsFiniteSet(Agents)
  /\ Shared \notin Agents /\ Administrator \notin Agents
  /\ MaxRevision \in Nat \ {0} /\ Retentions \subseteq Nat \ {0}
  /\ MaxNow \in Nat /\ MaxWrites \in Nat

VARIABLES
  heads,   \* memory_heads
  rows,    \* memory_revisions: <<id, revision, content>>
  now,     \* the clock the retention is measured against
  writes,  \* contents written so far
  author,  \* who wrote a content (memory_revisions.author)
  read,    \* per agent and identity, the revision and content it last saw
  reviewed \* contents an administrator had read when it asked to approve them

memoryVars == <<heads, rows, now, writes, author, read, reviewed>>

Owners == Agents \cup {Shared}
States == {"active", "pending", "deleted"}
NoHead == [owner |-> Shared, revision |-> 0, state |-> "absent", expires |-> 0]
Nothing == [revision |-> 0, content |-> 0]

MemoryInit ==
  /\ heads = [i \in Ids |-> NoHead]
  /\ rows = {}
  /\ now = 0
  /\ writes = 0
  /\ author = [n \in 1 .. MaxWrites |-> Administrator]
  /\ read = [a \in Agents |-> [i \in Ids |-> Nothing]]
  /\ reviewed = {}

Exists(i) == heads[i].state \in {"active", "pending"} /\ heads[i].expires > now

\* The content a head selects, 0 when its revision row is gone.
Content(i) ==
  LET stored == {r \in rows : r.id = i /\ r.revision = heads[i].revision}
  IN IF stored = {} THEN 0 ELSE (CHOOSE r \in stored : TRUE).content

\* searchMemory: what a search by an agent in the given scope can return.
Found(owner) ==
  {i \in Ids : heads[i].owner = owner /\ heads[i].state = "active"
               /\ heads[i].expires > now /\ Content(i) # 0}

----------------------------------------------------------------------------
(* putMemory.  The caller names no identity for a new entry; for an update *)
(* it names the revision it has seen.                                      *)

\* Mutant: an agent may overwrite a shared entry like one of its own.
MayUpdate_AnyScope(i, owner, expected, admin) ==
  /\ Exists(i) /\ heads[i].owner = owner
  /\ heads[i].revision = expected
  /\ expected < MaxRevision

MayUpdate(i, owner, expected, admin) ==
  /\ admin \/ owner # Shared
  /\ Exists(i) /\ heads[i].owner = owner
  /\ heads[i].revision = expected
  /\ expected < MaxRevision

\* Mutant: every entry is active at once.
StateOf_Active(owner, admin) == "active"

StateOf(owner, admin) == IF ~admin /\ owner = Shared THEN "pending" ELSE "active"

Store(i, owner, by, admin, retention) ==
  LET revision == heads[i].revision + 1 IN
  /\ writes < MaxWrites
  /\ writes' = writes + 1
  /\ author' = [author EXCEPT ![writes + 1] = by]
  /\ heads' = [heads EXCEPT ![i] =
       [owner |-> owner, revision |-> revision, state |-> StateOf(owner, admin),
        expires |-> now + retention]]
  /\ rows' = rows \cup {[id |-> i, revision |-> revision, content |-> writes + 1]}

Put(i, owner, expected, by, admin, retention) ==
  /\ \/ expected = 0 /\ heads[i] = NoHead
     \/ expected > 0 /\ MayUpdate(i, owner, expected, admin)
  /\ Store(i, owner, by, admin, retention)

\* ChangeMemoryState, action "approve".
MayApprove(i, expected) ==
  /\ Exists(i) /\ heads[i].revision = expected
  /\ heads[i].owner = Shared /\ heads[i].state = "pending"

Approve(i, expected) ==
  /\ MayApprove(i, expected)
  /\ heads' = [heads EXCEPT ![i].state = "active"]
  /\ UNCHANGED <<rows, writes, author>>

\* ChangeMemoryState, action "delete".
MayDelete(i, expected) == Exists(i) /\ heads[i].revision = expected

Delete(i, expected) ==
  /\ MayDelete(i, expected)
  /\ heads' = [heads EXCEPT ![i].state = "deleted"]
  /\ rows' = {r \in rows : r.id # i}
  /\ UNCHANGED <<writes, author>>

----------------------------------------------------------------------------
(* The memory tools of an agent (knowledgeTool), and the scheduler's pump. *)

\* runtime.memory.search: the agent reads its own entries or the shared ones.
Search(a, owner) ==
  /\ owner \in {a, Shared}
  /\ read' = [read EXCEPT ![a] = [i \in Ids |->
       IF i \in Found(owner) THEN [revision |-> heads[i].revision, content |-> Content(i)]
       ELSE @[i]]]
  /\ UNCHANGED <<heads, rows, now, writes, author, reviewed>>

\* runtime.memory.put: an update names the revision the agent has read.
AgentPut(a, i, owner, retention) ==
  /\ owner \in {a, Shared}
  /\ Put(i, owner, read[a][i].revision, a, FALSE, retention)
  /\ read' = [read EXCEPT ![a][i] = [revision |-> @.revision + 1, content |-> writes + 1]]
  /\ UNCHANGED <<now, reviewed>>

\* pumpWakeups: revisions of expired or deleted heads go, then the heads.
Pump ==
  /\ rows' = {r \in rows : heads[r.id].expires > now /\ heads[r.id].state # "deleted"}
  /\ heads' = [i \in Ids |-> IF heads[i].state # "absent" /\ heads[i].expires <= now
                             THEN [heads[i] EXCEPT !.state = "deleted"] ELSE heads[i]]
  /\ UNCHANGED <<now, writes, author, read, reviewed>>

Tick ==
  /\ now < MaxNow
  /\ now' = now + 1
  /\ UNCHANGED <<heads, rows, writes, author, read, reviewed>>

----------------------------------------------------------------------------
(* Properties.                                                             *)

\* What agents find in the shared memory was written by the administrator, or
\* written by an agent and approved by an administrator who had read it.
SharedReviewed ==
  \A i \in Found(Shared) : author[Content(i)] = Administrator \/ Content(i) \in reviewed
============================================================================
