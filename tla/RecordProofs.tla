---------------------------- MODULE RecordProofs ----------------------------
(***************************************************************************)
(* What the operations on memory and on local tools do to their records,   *)
(* for any number of identities, versions, agents, tasks and writes.       *)
(* CommandsProofs uses these lemmas for the theorems about the commands    *)
(* that call the operations.                                               *)
(***************************************************************************)
EXTENDS Memory, Learning, FiniteSetTheorems, TLAPS

\* The heads, and the revisions stored for them: one content for each.
StoreOK ==
  /\ now \in Nat /\ writes \in 0 .. MaxWrites
  /\ heads \in [Ids -> [owner: Owners, revision: Nat, state: States \cup {"absent"}, expires: Nat]]
  /\ author \in [1 .. MaxWrites -> Agents \cup {Administrator}]
  /\ \A r \in rows : /\ r.id \in Ids /\ r.revision \in Nat /\ r.content \in 1 .. writes
                     /\ r.revision <= heads[r.id].revision
  /\ \A r, q \in rows : r.id = q.id /\ r.revision = q.revision => r.content = q.content

\* An agent that has read the current revision has read its content.
ReadOK ==
  /\ read \in [Agents -> [Ids -> [revision: Nat, content: Nat]]]
  /\ \A a \in Agents, i \in Ids :
       /\ read[a][i].revision <= heads[i].revision
       /\ Exists(i) /\ read[a][i].revision = heads[i].revision => read[a][i].content = Content(i)

MemoryOK == StoreOK /\ ReadOK

\* A revision that can still be read is the one there was: what a step removes
\* it never brings back under the same number.
Steady(i) ==
  /\ heads[i].revision <= heads'[i].revision
  /\ heads'[i].revision = heads[i].revision /\ Exists(i)' => Exists(i) /\ Content(i)' = Content(i)

\* The content of a head is that of its stored revision, or 0.
LEMMA ContentStored ==
  ASSUME StoreOK, NEW i \in Ids
  PROVE  /\ Content(i) \in 0 .. writes
         /\ \A r \in rows : r.id = i /\ r.revision = heads[i].revision => Content(i) = r.content
<1> DEFINE stored == {r \in rows : r.id = i /\ r.revision = heads[i].revision}
<1>1. CASE stored = {}
  BY <1>1 DEF Content, StoreOK
<1>2. CASE stored # {}
  <2>1. PICK q \in stored : q = CHOOSE r \in stored : TRUE
    BY <1>2
  <2>2. Content(i) = q.content
    BY <1>2, <2>1 DEF Content
  <2> QED
    BY <2>2 DEF StoreOK
<1> QED
  BY <1>1, <1>2

\* The content of a head depends on its revision and on the rows of its identity.
LEMMA ContentSame ==
  ASSUME NEW i \in Ids, heads'[i].revision = heads[i].revision,
         \A r : r.id = i => (r \in rows' <=> r \in rows)
  PROVE  Content(i)' = Content(i)
<1> DEFINE Of(stored) == IF stored = {} THEN 0 ELSE (CHOOSE r \in stored : TRUE).content
           before == {r \in rows : r.id = i /\ r.revision = heads[i].revision}
           after == {r \in rows' : r.id = i /\ r.revision = heads'[i].revision}
<1>1. before = after
  OBVIOUS
<1>2. Content(i) = Of(before) /\ Content(i)' = Of(after)
  BY DEF Content
<1> HIDE DEF Of, before, after
<1> QED
  BY <1>1, <1>2

\* The step writes a new content under i, by the given author, and no other.
Writes(i, by) ==
  /\ author'[writes'] = by /\ \A m \in 1 .. writes : author'[m] = author[m]
  /\ Content(i)' = writes'
  /\ \A j \in Ids \ {i} : heads'[j] = heads[j] /\ Content(j)' = Content(j)

\* putMemory stores one new revision of one head, and nothing else changes.
LEMMA PutEffect ==
  ASSUME StoreOK, NEW i \in Ids, NEW owner \in Owners, NEW expected, NEW admin \in BOOLEAN,
         NEW by \in Agents \cup {Administrator}, NEW n \in Retentions,
         Put(i, owner, expected, by, admin, n), now' = now
  PROVE  /\ StoreOK'
         /\ writes' = writes + 1 /\ writes' \in 1 .. MaxWrites
         /\ Writes(i, by)
         /\ heads'[i] = [owner |-> owner, revision |-> heads[i].revision + 1,
                         state |-> StateOf(owner, admin), expires |-> now + n]
         /\ \A j \in Ids : Steady(j)
<1> DEFINE row == [id |-> i, revision |-> heads[i].revision + 1, content |-> writes + 1]
<1>1. /\ writes < MaxWrites /\ writes' = writes + 1
      /\ author' = [author EXCEPT ![writes + 1] = by]
      /\ heads' = [heads EXCEPT ![i] = [owner |-> owner, revision |-> heads[i].revision + 1,
                     state |-> StateOf(owner, admin), expires |-> now + n]]
      /\ rows' = rows \cup {row}
  BY DEF Put, Store
<1>2. n \in Nat /\ MaxWrites \in Nat /\ writes \in Nat /\ now \in Nat
  BY MemoryAssumption DEF StoreOK
<1>3. heads[i].revision \in Nat /\ row.revision > heads[i].revision
  BY DEF StoreOK
<1>4. \A r \in rows : r.id = i => r.revision < row.revision
  BY <1>3 DEF StoreOK
<1>5. StoreOK'
  <2>1. StateOf(owner, admin) \in States
    BY DEF StateOf, States
  <2>2. heads' \in [Ids -> [owner: Owners, revision: Nat, state: States \cup {"absent"}, expires: Nat]]
    BY <1>1, <1>2, <1>3, <2>1 DEF StoreOK
  <2>3. author' \in [1 .. MaxWrites -> Agents \cup {Administrator}]
    BY <1>1, <1>2 DEF StoreOK
  <2>4. \A j \in Ids : heads[j].revision <= heads'[j].revision
    BY <1>1, <1>3 DEF StoreOK
  <2>5. \A r \in rows' : /\ r.id \in Ids /\ r.revision \in Nat /\ r.content \in 1 .. writes'
                         /\ r.revision <= heads'[r.id].revision
    <3>1. SUFFICES ASSUME NEW r \in rows'
                   PROVE  /\ r.id \in Ids /\ r.revision \in Nat /\ r.content \in 1 .. writes'
                          /\ r.revision <= heads'[r.id].revision
      OBVIOUS
    <3>2. CASE r \in rows
      <4>1. r.id \in Ids /\ r.revision \in Nat /\ r.content \in 1 .. writes /\ r.revision <= heads[r.id].revision
        BY <3>2 DEF StoreOK
      <4>2. heads[r.id].revision \in Nat /\ heads'[r.id].revision \in Nat
        BY <4>1, <2>2 DEF StoreOK
      <4> QED
        BY <4>1, <4>2, <1>1, <1>2, <2>4
    <3>3. CASE r = row
      BY <3>3, <1>1, <1>2, <1>3 DEF StoreOK
    <3> QED
      BY <1>1, <3>2, <3>3
  <2>6. \A r, q \in rows' : r.id = q.id /\ r.revision = q.revision => r.content = q.content
    <3>1. \A r \in rows : ~(r.id = row.id /\ r.revision = row.revision)
      <4> HIDE DEF row
      <4>1. SUFFICES ASSUME NEW r \in rows, r.id = row.id, r.revision = row.revision PROVE FALSE
        OBVIOUS
      <4>2. row.id = i
        BY DEF row
      <4>3. r.revision \in Nat /\ r.revision < row.revision
        BY <4>1, <4>2, <1>4 DEF StoreOK
      <4> QED
        BY <4>1, <4>3
    <3> HIDE DEF row
    <3> QED
      BY <1>1, <3>1 DEF StoreOK
  <2> QED
    BY <1>1, <1>2, <2>2, <2>3, <2>5, <2>6 DEF StoreOK
<1>6. Content(i)' = writes'
  <2>1. row \in rows' /\ row.id = i /\ row.revision = heads'[i].revision /\ row.content = writes'
    BY <1>1 DEF StoreOK
  <2> DEFINE stored == {r \in rows' : r.id = i /\ r.revision = heads'[i].revision}
  <2>2. row \in stored
    BY <2>1
  <2>3. \A r \in stored : r.content = writes'
    BY <2>1, <1>5 DEF StoreOK
  <2>4. Content(i)' = (CHOOSE r \in stored : TRUE).content
    BY <2>2 DEF Content
  <2> HIDE DEF row, stored
  <2> QED
    BY <2>2, <2>3, <2>4
<1>7. \A j \in Ids \ {i} : heads'[j] = heads[j] /\ Content(j)' = Content(j)
  <2>1. \A j \in Ids \ {i} : heads'[j] = heads[j]
    BY <1>1 DEF StoreOK
  <2>2. \A j \in Ids \ {i} : \A r : r.id = j => (r \in rows' <=> r \in rows)
    BY <1>1
  <2> QED
    BY <2>1, <2>2, ContentSame
<1>8. \A j \in Ids : Steady(j)
  <2>1. \A j \in Ids \ {i} : Steady(j)
    BY <1>7, <1>5 DEF Steady, Exists, StoreOK
  <2>2. heads'[i].revision = heads[i].revision + 1
    BY <1>1 DEF StoreOK
  <2>3. Steady(i)
    BY <2>2, <1>3 DEF Steady
  <2> QED
    BY <2>1, <2>3
<1>9. author'[writes'] = by /\ \A m \in 1 .. writes : author'[m] = author[m]
  BY <1>1, <1>2 DEF StoreOK
<1>10. Writes(i, by)
  BY <1>6, <1>7, <1>9 DEF Writes
<1> QED
  BY <1>1, <1>2, <1>5, <1>8, <1>10 DEF StoreOK

\* Approving a head changes its state alone.
LEMMA ApproveEffect ==
  ASSUME StoreOK, NEW i \in Ids, NEW expected, Approve(i, expected), now' = now
  PROVE  /\ StoreOK' /\ Exists(i) /\ heads[i].revision = expected
         /\ heads'[i] = [heads[i] EXCEPT !.state = "active"]
         /\ \A j \in Ids : Content(j)' = Content(j) /\ Steady(j) /\ (j # i => heads'[j] = heads[j])
<1>1. /\ Exists(i) /\ heads[i].revision = expected
      /\ heads' = [heads EXCEPT ![i].state = "active"]
      /\ rows' = rows /\ writes' = writes /\ author' = author
  BY DEF Approve, MayApprove
<1>2. heads' \in [Ids -> [owner: Owners, revision: Nat, state: States \cup {"absent"}, expires: Nat]]
  BY <1>1 DEF StoreOK, States
<1>3. \A j \in Ids : heads'[j].revision = heads[j].revision /\ heads'[j].expires = heads[j].expires
  BY <1>1 DEF StoreOK
<1>4. StoreOK'
  <2>1. \A r \in rows : heads'[r.id].revision = heads[r.id].revision
    BY <1>3 DEF StoreOK
  <2> QED
    BY <1>1, <1>2, <2>1 DEF StoreOK
<1>5. \A j \in Ids : Content(j)' = Content(j)
  BY <1>1, <1>3, ContentSame
<1>6. \A j \in Ids \ {i} : heads'[j] = heads[j]
  BY <1>1 DEF StoreOK
<1>7. \A j \in Ids : Exists(j)' => Exists(j)
  BY <1>1, <1>6 DEF Exists
<1>8. \A j \in Ids : Steady(j)
  BY <1>3, <1>5, <1>7 DEF Steady, StoreOK
<1> QED
  BY <1>1, <1>4, <1>5, <1>6, <1>8 DEF StoreOK

\* Rows go only with heads that can no longer be read: deletion and the pump.
LEMMA EraseEffect ==
  ASSUME StoreOK, now' = now, writes' = writes, author' = author, rows' \subseteq rows,
         DOMAIN heads' = Ids, heads' = [j \in Ids |-> heads'[j]],
         \A j \in Ids : \/ heads'[j] = heads[j] \/ heads'[j] = [heads[j] EXCEPT !.state = "deleted"],
         \A j \in Ids : Exists(j)' => \A r \in rows : r.id = j => r \in rows'
  PROVE  StoreOK' /\ \A j \in Ids : Steady(j)
<1>1. ASSUME NEW j \in Ids
      PROVE  heads'[j] \in [owner: Owners, revision: Nat, state: States \cup {"absent"}, expires: Nat]
  <2>1. heads[j] \in [owner: Owners, revision: Nat, state: States \cup {"absent"}, expires: Nat]
    BY DEF StoreOK
  <2>2. CASE heads'[j] = heads[j]
    BY <2>1, <2>2
  <2>3. CASE heads'[j] = [heads[j] EXCEPT !.state = "deleted"]
    BY <2>1, <2>3 DEF States
  <2> QED
    BY <2>2, <2>3
<1>2. \A j \in Ids : heads'[j].revision = heads[j].revision /\ heads'[j].expires = heads[j].expires
  BY DEF StoreOK
<1>3. StoreOK'
  <2>1. heads' \in [Ids -> [owner: Owners, revision: Nat, state: States \cup {"absent"}, expires: Nat]]
    BY <1>1
  <2>2. \A r \in rows : heads'[r.id].revision = heads[r.id].revision
    BY <1>2 DEF StoreOK
  <2> QED
    BY <2>1, <2>2 DEF StoreOK
<1>4. \A j \in Ids : Exists(j)' => Exists(j)
  BY DEF Exists, StoreOK
<1>5. \A j \in Ids : Exists(j)' => Content(j)' = Content(j)
  BY <1>2, ContentSame
<1> QED
  BY <1>2, <1>3, <1>4, <1>5 DEF Steady, StoreOK

\* Deleting a head removes its rows with it.
LEMMA DeleteEffect ==
  ASSUME StoreOK, NEW i \in Ids, NEW expected, Delete(i, expected), now' = now
  PROVE  StoreOK' /\ (\A j \in Ids : Steady(j)) /\ heads'[i].state = "deleted"
         /\ \A j \in Ids \ {i} : heads'[j] = heads[j]
<1>1. /\ heads' = [heads EXCEPT ![i].state = "deleted"]
      /\ rows' = {r \in rows : r.id # i} /\ writes' = writes /\ author' = author
  BY DEF Delete
<1>2. /\ DOMAIN heads' = Ids /\ heads' = [j \in Ids |-> heads'[j]]
      /\ heads'[i] = [heads[i] EXCEPT !.state = "deleted"] /\ \A j \in Ids \ {i} : heads'[j] = heads[j]
  BY <1>1 DEF StoreOK
<1>3. heads'[i].state = "deleted"
  BY <1>2 DEF StoreOK
<1>4. \A j \in Ids : Exists(j)' => \A r \in rows : r.id = j => r \in rows'
  BY <1>1, <1>3 DEF Exists
<1> QED
  BY <1>1, <1>2, <1>3, <1>4, EraseEffect

\* The pump erases what has expired and leaves every other head alone.
LEMMA PumpEffect ==
  ASSUME StoreOK, Pump
  PROVE  StoreOK' /\ (\A j \in Ids : Steady(j)) /\ \A j \in Ids : heads[j].expires > now => heads'[j] = heads[j]
<1>1. /\ rows' = {r \in rows : heads[r.id].expires > now /\ heads[r.id].state # "deleted"}
      /\ heads' = [i \in Ids |-> IF heads[i].state # "absent" /\ heads[i].expires <= now
                                 THEN [heads[i] EXCEPT !.state = "deleted"] ELSE heads[i]]
      /\ now' = now /\ writes' = writes /\ author' = author
  BY DEF Pump
<1>2. /\ DOMAIN heads' = Ids /\ heads' = [j \in Ids |-> heads'[j]]
      /\ \A j \in Ids : heads'[j] = heads[j] \/ heads'[j] = [heads[j] EXCEPT !.state = "deleted"]
  BY <1>1
<1>3. \A j \in Ids : heads[j].expires > now => heads'[j] = heads[j]
  BY <1>1 DEF StoreOK
<1>4. \A j \in Ids : heads'[j].expires = heads[j].expires
  BY <1>2 DEF StoreOK
<1>5. \A j \in Ids : Exists(j)' => heads[j].expires > now /\ heads[j].state # "deleted"
  BY <1>1, <1>3, <1>4 DEF Exists
<1>6. \A j \in Ids : Exists(j)' => \A r \in rows : r.id = j => r \in rows'
  BY <1>1, <1>5
<1>7. rows' \subseteq rows
  BY <1>1
<1> QED
  BY <1>1, <1>2, <1>3, <1>6, <1>7, EraseEffect

\* Time only takes from what can be read.
LEMMA TickEffect ==
  ASSUME StoreOK, Tick
  PROVE  StoreOK' /\ now <= now' /\ \A j \in Ids : Steady(j) /\ Content(j)' = Content(j)
<1>1. now' = now + 1 /\ UNCHANGED <<heads, rows, writes, author>>
  BY DEF Tick
<1>2. StoreOK' /\ now \in Nat
  BY <1>1 DEF StoreOK
<1>3. \A j \in Ids : Content(j)' = Content(j)
  BY <1>1 DEF Content
<1>4. \A j \in Ids : Exists(j)' => Exists(j)
  BY <1>1, <1>2 DEF Exists, StoreOK
<1> QED
  BY <1>1, <1>2, <1>3, <1>4 DEF Steady, StoreOK

\* What agents have read stays true of the revisions that can still be read.
LEMMA ReadKept ==
  ASSUME MemoryOK, StoreOK', \A j \in Ids : Steady(j), read' = read
  PROVE  ReadOK'
<1>1. SUFFICES ASSUME NEW a \in Agents, NEW i \in Ids
               PROVE  /\ read[a][i].revision <= heads'[i].revision
                      /\ Exists(i)' /\ read[a][i].revision = heads'[i].revision
                           => read[a][i].content = Content(i)'
  BY DEF MemoryOK, ReadOK
<1>2. read[a][i].revision \in Nat /\ heads[i].revision \in Nat /\ heads'[i].revision \in Nat
  BY DEF MemoryOK, ReadOK, StoreOK
<1>3. read[a][i].revision <= heads[i].revision /\ heads[i].revision <= heads'[i].revision
  BY DEF MemoryOK, ReadOK, Steady
<1>4. CASE heads'[i].revision = heads[i].revision
  BY <1>3, <1>4 DEF MemoryOK, ReadOK, Steady
<1>5. CASE heads'[i].revision # heads[i].revision
  BY <1>2, <1>3, <1>5
<1> QED
  BY <1>4, <1>5

\* A search tells an agent the current revision and content of what it finds.
LEMMA SearchEffect ==
  ASSUME MemoryOK, NEW a \in Agents, NEW owner \in Owners, Search(a, owner)
  PROVE  MemoryOK' /\ \A j \in Ids : Steady(j) /\ Content(j)' = Content(j)
<1>1. /\ read' = [read EXCEPT ![a] = [i \in Ids |->
           IF i \in Found(owner) THEN [revision |-> heads[i].revision, content |-> Content(i)] ELSE @[i]]]
      /\ UNCHANGED <<heads, rows, now, writes, author>>
  BY DEF Search
<1>2. StoreOK' /\ \A j \in Ids : Content(j)' = Content(j) /\ (Exists(j)' <=> Exists(j))
  BY <1>1 DEF MemoryOK, StoreOK, Content, Exists
<1>3. \A j \in Ids : Content(j) \in Nat /\ heads[j].revision \in Nat
  <2>1. \A j \in Ids : Content(j) \in 0 .. writes
    BY ContentStored DEF MemoryOK
  <2> QED
    BY <2>1 DEF MemoryOK, StoreOK
<1>4. read' \in [Agents -> [Ids -> [revision: Nat, content: Nat]]]
  BY <1>1, <1>3 DEF MemoryOK, ReadOK
<1>5. \A b \in Agents, j \in Ids :
        read'[b][j] = read[b][j] \/ read'[b][j] = [revision |-> heads[j].revision, content |-> Content(j)]
  BY <1>1 DEF MemoryOK, ReadOK
<1>6. ReadOK'
  <2>1. SUFFICES ASSUME NEW b \in Agents, NEW j \in Ids
                 PROVE  /\ read'[b][j].revision <= heads'[j].revision
                        /\ Exists(j)' /\ read'[b][j].revision = heads'[j].revision
                             => read'[b][j].content = Content(j)'
    BY <1>4 DEF ReadOK
  <2>2. CASE read'[b][j] = read[b][j]
    BY <2>2, <1>1, <1>2 DEF MemoryOK, ReadOK
  <2>3. CASE read'[b][j] = [revision |-> heads[j].revision, content |-> Content(j)]
    BY <2>3, <1>1, <1>2, <1>3
  <2> QED
    BY <1>5, <2>2, <2>3
<1>7. \A j \in Ids : Steady(j)
  BY <1>1, <1>2, <1>3 DEF Steady
<1> QED
  BY <1>2, <1>6, <1>7 DEF MemoryOK

\* An agent that writes an entry knows the revision and the content it wrote.
LEMMA AgentPutEffect ==
  ASSUME MemoryOK, NEW a \in Agents, NEW i \in Ids, NEW owner \in Owners, NEW n \in Retentions,
         AgentPut(a, i, owner, n)
  PROVE  /\ MemoryOK' /\ now' = now /\ reviewed' = reviewed
         /\ heads'[i].owner = owner /\ (owner = Shared => heads'[i].state = "pending")
         /\ Writes(i, a)
         /\ \A j \in Ids : Steady(j)
         /\ read[a][i].revision = heads[i].revision
         /\ heads[i] = NoHead \/ MayUpdate(i, owner, heads[i].revision, FALSE)
<1>1. /\ Put(i, owner, read[a][i].revision, a, FALSE, n)
      /\ read' = [read EXCEPT ![a][i] = [revision |-> @.revision + 1, content |-> writes + 1]]
      /\ now' = now /\ reviewed' = reviewed
  BY DEF AgentPut
<1>2. /\ StoreOK' /\ writes' = writes + 1 /\ Content(i)' = writes'
      /\ heads'[i].revision = heads[i].revision + 1
      /\ heads'[i].owner = owner /\ (owner = Shared => heads'[i].state = "pending")
      /\ Writes(i, a)
      /\ \A j \in Ids : Steady(j)
  <2>0. PICK seen, admin : seen = read[a][i].revision /\ admin = FALSE
    OBVIOUS
  <2>1. /\ a \in Agents \cup {Administrator} /\ admin \in BOOLEAN /\ StoreOK
        /\ Put(i, owner, seen, a, admin, n)
    BY <1>1, <2>0 DEF MemoryOK
  <2>2. owner \in Owners /\ n \in Retentions /\ i \in Ids /\ now' = now
    BY <1>1
  <2>3. /\ StoreOK'
         /\ writes' = writes + 1 /\ writes' \in 1 .. MaxWrites
         /\ Writes(i, a)
         /\ heads'[i] = [owner |-> owner, revision |-> heads[i].revision + 1,
                         state |-> StateOf(owner, admin), expires |-> now + n]
         /\ \A j \in Ids : Steady(j)
    BY <2>1, <2>2, PutEffect, Zenon
  <2>4. owner = Shared => StateOf(owner, admin) = "pending"
    BY <2>0 DEF StateOf
  <2> QED
    BY <2>3, <2>4 DEF Writes
<1>3. /\ read[a][i].revision = heads[i].revision
      /\ heads[i] = NoHead \/ MayUpdate(i, owner, heads[i].revision, FALSE)
  <2>1. heads[i] = NoHead => heads[i].revision = 0
    BY DEF NoHead
  <2> QED
    BY <1>1, <2>1 DEF Put, MayUpdate
<1>4. writes \in Nat /\ read[a][i].revision \in Nat
  BY DEF MemoryOK, StoreOK, ReadOK
<1>5. read' \in [Agents -> [Ids -> [revision: Nat, content: Nat]]]
  BY <1>1, <1>4 DEF MemoryOK, ReadOK
<1>6. ReadOK'
  <2>1. SUFFICES ASSUME NEW b \in Agents, NEW j \in Ids
                 PROVE  /\ read'[b][j].revision <= heads'[j].revision
                        /\ Exists(j)' /\ read'[b][j].revision = heads'[j].revision
                             => read'[b][j].content = Content(j)'
    BY <1>5 DEF ReadOK
  <2>2. CASE b = a /\ j = i
    <3>1. read'[a][i] = [revision |-> read[a][i].revision + 1, content |-> writes + 1]
      BY <1>1 DEF MemoryOK, ReadOK
    <3> QED
      BY <2>2, <3>1, <1>2, <1>3, <1>4
  <2>3. CASE ~(b = a /\ j = i)
    <3>1. read'[b][j] = read[b][j]
      BY <2>3, <1>1 DEF MemoryOK, ReadOK
    <3>2. /\ heads[j].revision \in Nat /\ heads'[j].revision \in Nat /\ read[b][j].revision \in Nat
          /\ read[b][j].revision <= heads[j].revision /\ heads[j].revision <= heads'[j].revision
      BY <1>2 DEF MemoryOK, StoreOK, ReadOK, Steady
    <3>3. CASE heads'[j].revision = heads[j].revision
      BY <3>1, <3>2, <3>3, <1>2 DEF MemoryOK, ReadOK, Steady
    <3>4. CASE heads'[j].revision # heads[j].revision
      BY <3>1, <3>2, <3>4
    <3> QED
      BY <3>3, <3>4
  <2> QED
    BY <2>2, <2>3
<1> QED
  BY <1>1, <1>2, <1>3, <1>6 DEF MemoryOK

\* The memory starts empty.
LEMMA MemoryStarts == MemoryInit => MemoryOK
BY MemoryAssumption DEF MemoryInit, MemoryOK, StoreOK, ReadOK, NoHead, Nothing, Owners, States, Exists

-----------------------------------------------------------------------------
(* Local tools.  The two properties need each other's data only through    *)
(* LearningOK: a version has an approval only once its evaluation was      *)
(* approved, so that the approval starts from no use at all.               *)

Fields == {"state", "origin", "notify", "at", "work", "passed"}

LearningOK ==
  /\ drafts \in [Versions -> [kind: {"skill", "executable"}, state: {"none", "draft", "disabled"}]]
  /\ DOMAIN evaluations = Versions /\ \A v \in Versions : DOMAIN evaluations[v] = Fields
  /\ approvals \in [Versions -> [granted: Nat, left: Nat, expires: Nat]]
  /\ tasks \in [Tasks -> [state: {"none", "live", "ended"}, pins: SUBSET Versions]]
  /\ grants \subseteq Versions
  /\ \A v \in Versions : evaluations[v].state \notin {"active", "disabled"} => approvals[v].granted = 0

IInvLearning == LearningOK /\ UsesKept /\ DisabledStaysInert

\* One operation, by whomever and whenever.
LearningStep ==
  \/ \E v \in Versions, kind \in {"skill", "executable"} : \E expected : Propose(v, expected, kind)
  \/ \E v \in Versions : ChangeDraftState(v) \/ Revoke(v) \/ WorkEnds(v)
  \/ \E pins \in SUBSET Versions : \E time : Grant(pins, time)
  \/ \E v \in Versions : \E t, notify, at, time : Evaluate(v, t, notify, at, time)
  \/ \E v \in Versions : \E at, runs, time : ClaimBuild(v, at, runs, time) \/ SkillPasses(v, at, runs, time)
  \/ \E v \in Versions : \E ok, refused, at, runs, time : CompleteBuild(v, ok, refused, at, runs, time)
  \/ \E refused, at, runs, time : PumpLearning(refused, at, runs, time)
  \/ \E v \in Versions, n \in Allowances, m \in Lifetimes, time \in Nat : \E at : ApproveLearning(v, n, m, at, time)
  \/ \E t \in Tasks : \E pins, time : BeginTask(t, pins, time)
  \/ \E T : EndTasks(T)
  \/ \E t, time : Dispatch(t, time)
  \/ Interrupted

UsersOf(v) == {t \in Tasks : <<v, t>> \in uses}

\* An evaluation whose state does not become "active" or ready leaves approvals be.
LEMMA EvaluationsMove ==
  ASSUME IInvLearning, DOMAIN evaluations' = Versions,
         \A v \in Versions : DOMAIN evaluations'[v] = Fields,
         \A v \in Versions :
           \/ evaluations'[v].state = evaluations[v].state
           \/ /\ evaluations[v].state \notin {"active", "disabled"}
              /\ evaluations'[v].state \in {"pending_approval", "active"} => drafts[v].state = "draft"
              /\ evaluations'[v].state # "active"
           \/ evaluations'[v].state = "disabled",
         tasks' \in [Tasks -> [state: {"none", "live", "ended"}, pins: SUBSET Versions]],
         UNCHANGED <<drafts, approvals, revoked, grants, uses, sent>>
  PROVE  IInvLearning'
<1>1. LearningOK'
  BY DEF IInvLearning, LearningOK
<1>2. UsesKept'
  BY DEF IInvLearning, UsesKept
<1>3. DisabledStaysInert'
  BY DEF IInvLearning, DisabledStaysInert
<1> QED
  BY <1>1, <1>2, <1>3 DEF IInvLearning

\* The first approval of a version starts from no use.
LEMMA ApproveKeeps ==
  ASSUME IInvLearning, NEW v \in Versions, NEW n \in Allowances, NEW m \in Lifetimes, NEW at, NEW time \in Nat,
         ApproveLearning(v, n, m, at, time)
  PROVE  IInvLearning'
<1>1. /\ evaluations[v].state = "pending_approval" /\ drafts[v].state = "draft"
      /\ approvals' = [approvals EXCEPT ![v] = [granted |-> n, left |-> n, expires |-> time + m]]
      /\ evaluations' = [evaluations EXCEPT ![v].state = "active"]
      /\ UNCHANGED <<drafts, revoked, grants, tasks, uses, sent>>
  BY DEF ApproveLearning
<1>2. n \in Nat /\ m \in Nat
  BY LearningAssumption
<1>3. LearningOK'
  BY <1>1, <1>2 DEF IInvLearning, LearningOK, Fields
<1>4. Cardinality(UsersOf(v)) = 0
  <2>1. approvals[v].granted = 0 /\ approvals[v].left \in Nat
    BY <1>1 DEF IInvLearning, LearningOK
  <2>2. Cardinality(UsersOf(v)) \in Nat
    BY FS_Subset, FS_CardinalityType, LearningAssumption DEF UsersOf
  <2>3. Cardinality(UsersOf(v)) + approvals[v].left = 0
    BY <2>1 DEF IInvLearning, UsesKept, UsersOf
  <2> QED
    BY <2>1, <2>2, <2>3
<1>5. UsesKept'
  <2>1. \A u \in Versions : Cardinality(UsersOf(u)) + approvals'[u].left = approvals'[u].granted
    <3>1. SUFFICES ASSUME NEW u \in Versions
                   PROVE  Cardinality(UsersOf(u)) + approvals'[u].left = approvals'[u].granted
      OBVIOUS
    <3>2. CASE u = v
      BY <3>2, <1>1, <1>2, <1>4 DEF IInvLearning, LearningOK
    <3>3. CASE u # v
      BY <3>3, <1>1 DEF IInvLearning, LearningOK, UsesKept, UsersOf
    <3> QED
      BY <3>2, <3>3
  <2> QED
    BY <1>1, <2>1 DEF IInvLearning, UsesKept, UsersOf
<1>6. DisabledStaysInert'
  BY <1>1 DEF IInvLearning, LearningOK, DisabledStaysInert
<1> QED
  BY <1>3, <1>5, <1>6 DEF IInvLearning

\* A dispatch takes a use of exactly the pins its task has not used before.
LEMMA DispatchKeeps ==
  ASSUME IInvLearning, NEW t, NEW time, Dispatch(t, time)
  PROVE  IInvLearning'
<1> USE DEF IInvLearning
<1>0. t \in Tasks /\ tasks[t].pins \subseteq Versions
  BY DEF Dispatch, LiveTasks, LearningOK
<1>1. CASE ~(Authorized(tasks[t].pins, time) /\ \A v \in Pending(t) : approvals[v].left > 0)
  <2>1. /\ tasks' = [tasks EXCEPT ![t].state = "ended"]
        /\ UNCHANGED <<drafts, evaluations, approvals, revoked, grants, uses, sent>>
    BY <1>1 DEF Dispatch
  <2>2. LearningOK'
    BY <2>1, ZenonT(30) DEF LearningOK
  <2> QED
    BY <2>1, <2>2 DEF UsesKept, DisabledStaysInert
<1>2. CASE Authorized(tasks[t].pins, time) /\ \A v \in Pending(t) : approvals[v].left > 0
  <2>1. /\ approvals' = [v \in Versions |-> IF v \in Pending(t) THEN [approvals[v] EXCEPT !.left = @ - 1] ELSE approvals[v]]
        /\ uses' = uses \cup (Pending(t) \X {t})
        /\ sent' = sent \cup (tasks[t].pins \X {t})
        /\ \A v \in Pending(t) : approvals[v].left > 0
        /\ UNCHANGED <<drafts, evaluations, revoked, grants, tasks>>
    BY <1>2 DEF Dispatch
  <2>2. \A v \in Versions : approvals[v].left \in Nat /\ approvals[v].granted \in Nat
    BY DEF LearningOK
  <2>3. \A v \in Versions :
          /\ approvals'[v] \in [granted: Nat, left: Nat, expires: Nat]
          /\ approvals'[v].granted = approvals[v].granted
          /\ approvals'[v].left = approvals[v].left - IF v \in Pending(t) THEN 1 ELSE 0
    BY <2>1, <2>2 DEF LearningOK
  <2>4. LearningOK'
    <3>1. approvals' \in [Versions -> [granted: Nat, left: Nat, expires: Nat]]
      BY <2>1, <2>3
    <3> QED
      BY <2>1, <2>3, <3>1 DEF LearningOK
  <2>5. sent' \subseteq uses'
    BY <1>0, <2>1 DEF UsesKept, Pending
  <2>6. ASSUME NEW v \in Versions
        PROVE  Cardinality(UsersOf(v)') + approvals'[v].left = approvals'[v].granted
    <3>1. Cardinality(UsersOf(v)) + approvals[v].left = approvals[v].granted
      BY DEF UsesKept, UsersOf
    <3>2. IsFiniteSet(UsersOf(v))
      BY FS_Subset, LearningAssumption DEF UsersOf
    <3>3. CASE v \in Pending(t)
      <4>1. UsersOf(v)' = UsersOf(v) \cup {t} /\ t \notin UsersOf(v)
        BY <1>0, <2>1, <3>3 DEF UsersOf, Pending
      <4>2. Cardinality(UsersOf(v)') = Cardinality(UsersOf(v)) + 1
        BY <4>1, <3>2, FS_AddElement
      <4>3. Cardinality(UsersOf(v)) \in Nat
        BY <3>2, FS_CardinalityType
      <4> QED
        BY <2>2, <2>3, <3>1, <3>3, <4>2, <4>3
    <3>4. CASE v \notin Pending(t)
      <4>1. UsersOf(v)' = UsersOf(v)
        BY <2>1, <3>4 DEF UsersOf
      <4> QED
        BY <2>2, <2>3, <3>1, <3>4, <4>1
    <3> QED
      BY <3>3, <3>4
  <2>7. UsesKept'
    BY <2>5, <2>6 DEF UsesKept, UsersOf
  <2>8. DisabledStaysInert'
    BY <2>1 DEF DisabledStaysInert
  <2> QED
    BY <2>4, <2>7, <2>8
<1> QED
  BY <1>1, <1>2

\* Every operation keeps the invariant, and so does a step of something else.
LEMMA LearningKeeps ==
  ASSUME IInvLearning, LearningStep \/ UNCHANGED learningVars
  PROVE  IInvLearning'
<1>1. CASE UNCHANGED learningVars
  BY <1>1 DEF learningVars, IInvLearning, LearningOK, UsesKept, DisabledStaysInert
<1>2. ASSUME NEW v \in Versions, NEW expected, NEW kind \in {"skill", "executable"}, Propose(v, expected, kind)
      PROVE  IInvLearning'
  <2>1. drafts' = [drafts EXCEPT ![v] = [kind |-> kind, state |-> "draft"]]
    BY <1>2 DEF Propose
  <2>2. UNCHANGED <<evaluations, approvals, revoked, grants, tasks, uses, sent>>
    BY <1>2 DEF Propose
  <2> QED
    BY <2>1, <2>2 DEF IInvLearning, LearningOK, UsesKept, DisabledStaysInert
<1>3. ASSUME NEW v \in Versions, ChangeDraftState(v)
      PROVE  IInvLearning'
  <2>1. /\ drafts' = [drafts EXCEPT ![v].state = "disabled"]
        /\ evaluations' = [evaluations EXCEPT ![v].state =
             IF @ \in {"none", "queued", "evaluating"} THEN @ ELSE "disabled"]
        /\ UNCHANGED <<approvals, revoked, grants, tasks, uses, sent>>
    BY <1>3 DEF ChangeDraftState
  <2>2. LearningOK'
    BY <2>1 DEF IInvLearning, LearningOK, Fields
  <2>3. DisabledStaysInert'
    BY <2>1 DEF IInvLearning, LearningOK, Fields, DisabledStaysInert
  <2> QED
    BY <2>1, <2>2, <2>3 DEF IInvLearning, UsesKept
<1>4. ASSUME NEW v \in Versions, Revoke(v)
      PROVE  IInvLearning'
  BY <1>4 DEF Revoke, IInvLearning, LearningOK, UsesKept, DisabledStaysInert
<1>5. ASSUME NEW pins \in SUBSET Versions, NEW time, Grant(pins, time)
      PROVE  IInvLearning'
  BY <1>5 DEF Grant, IInvLearning, LearningOK, UsesKept, DisabledStaysInert
<1>6. ASSUME NEW v \in Versions, NEW t, NEW notify, NEW at, NEW time, Evaluate(v, t, notify, at, time)
      PROVE  IInvLearning'
  <2>1. /\ evaluations[v].state = "none"
        /\ evaluations' = [evaluations EXCEPT ![v] =
             [state |-> IF drafts[v].kind = "skill" THEN "evaluating" ELSE "queued",
              origin |-> t, notify |-> notify, at |-> at, work |-> "queued", passed |-> FALSE]]
        /\ UNCHANGED <<drafts, approvals, revoked, grants, tasks, uses, sent>>
    BY <1>6 DEF Evaluate
  <2> QED
    BY <2>1, EvaluationsMove DEF IInvLearning, LearningOK, Fields
<1>7. ASSUME NEW v \in Versions, NEW at, NEW runs, NEW time, ClaimBuild(v, at, runs, time)
      PROVE  IInvLearning'
  <2>1. /\ evaluations[v].state = "queued"
        /\ evaluations' = [evaluations EXCEPT ![v].state = "evaluating", ![v].work = "running"]
        /\ UNCHANGED <<drafts, approvals, revoked, grants, tasks, uses, sent>>
    BY <1>7 DEF ClaimBuild
  <2> QED
    BY <2>1, EvaluationsMove DEF IInvLearning, LearningOK, Fields
<1>8. ASSUME NEW v \in Versions, NEW at, NEW runs, NEW time, SkillPasses(v, at, runs, time)
      PROVE  IInvLearning'
  <2>1. /\ evaluations' = [evaluations EXCEPT ![v].work = "over", ![v].passed = TRUE]
        /\ UNCHANGED <<drafts, approvals, revoked, grants, tasks, uses, sent>>
    BY <1>8 DEF SkillPasses
  <2> QED
    BY <2>1, EvaluationsMove DEF IInvLearning, LearningOK, Fields
<1>9. ASSUME NEW v \in Versions, WorkEnds(v)
      PROVE  IInvLearning'
  <2>1. /\ evaluations' = [evaluations EXCEPT ![v].work = "over"]
        /\ UNCHANGED <<drafts, approvals, revoked, grants, tasks, uses, sent>>
    BY <1>9 DEF WorkEnds
  <2> QED
    BY <2>1, EvaluationsMove DEF IInvLearning, LearningOK, Fields
<1>10. ASSUME NEW v \in Versions, NEW ok, NEW refused, NEW at, NEW runs, NEW time,
              CompleteBuild(v, ok, refused, at, runs, time)
       PROVE  IInvLearning'
  <2>1. evaluations[v].state = "evaluating"
    BY <1>10 DEF CompleteBuild
  <2>2. evaluations' = [u \in Versions |-> IF u \notin {v} THEN evaluations[u]
          ELSE [evaluations[u] EXCEPT !.work = "over",
                  !.state = IF u \in {u0 \in {v} : Completes(u0, ok, at, runs, time)} THEN "pending_approval" ELSE "failed"]]
    BY <1>10 DEF CompleteBuild, FinishEvaluations
  <2>3. /\ tasks' = [t \in Tasks |->
             IF t \in refused /\ t \in LiveTasks /\ \E u \in {v} : evaluations[u].notify /\ evaluations[u].origin = t
             THEN [tasks[t] EXCEPT !.state = "ended"] ELSE tasks[t]]
        /\ UNCHANGED <<drafts, approvals, revoked, grants, uses, sent>>
    BY <1>10 DEF CompleteBuild, FinishEvaluations
  <2>4. Completes(v, ok, at, runs, time) => drafts[v].state = "draft"
    BY DEF Completes, Eligible
  <2>5. tasks' \in [Tasks -> [state: {"none", "live", "ended"}, pins: SUBSET Versions]]
    BY <2>3 DEF IInvLearning, LearningOK
  <2>6. \A u \in Versions :
          /\ DOMAIN evaluations'[u] = Fields
          /\ \/ evaluations'[u] = evaluations[u]
             \/ /\ evaluations[u].state = "evaluating"
                /\ \/ evaluations'[u].state = "pending_approval" /\ drafts[u].state = "draft"
                   \/ evaluations'[u].state = "failed"
    BY <2>1, <2>2, <2>4 DEF IInvLearning, LearningOK, Fields
  <2>7. DOMAIN evaluations' = Versions
    BY <2>2
  <2> QED
    BY <2>3, <2>5, <2>6, <2>7, EvaluationsMove
<1>11. ASSUME NEW refused, NEW at, NEW runs, NEW time, PumpLearning(refused, at, runs, time)
       PROVE  IInvLearning'
  <2> DEFINE over == {v \in Versions : evaluations[v].state \in {"queued", "evaluating"} /\ evaluations[v].work = "over"}
  <2>1. /\ DOMAIN evaluations' = Versions
        /\ \A v \in Versions : \/ v \notin over /\ evaluations'[v] = evaluations[v]
                               \/ \E passes \in BOOLEAN :
                                    /\ v \in over /\ (passes => Eligible(v, at, runs, time))
                                    /\ evaluations'[v] = [evaluations[v] EXCEPT !.work = "over",
                                         !.state = IF passes THEN "pending_approval" ELSE "failed"]
    BY <1>11 DEF PumpLearning, FinishEvaluations
  <2>2. \A v \in Versions :
          /\ DOMAIN evaluations'[v] = Fields
          /\ \/ evaluations'[v] = evaluations[v]
             \/ /\ evaluations[v].state \in {"queued", "evaluating"}
                /\ \/ evaluations'[v].state = "pending_approval" /\ drafts[v].state = "draft"
                   \/ evaluations'[v].state = "failed"
    <3>1. SUFFICES ASSUME NEW v \in Versions
                   PROVE  /\ DOMAIN evaluations'[v] = Fields
                          /\ \/ evaluations'[v] = evaluations[v]
                             \/ /\ evaluations[v].state \in {"queued", "evaluating"}
                                /\ \/ evaluations'[v].state = "pending_approval" /\ drafts[v].state = "draft"
                                   \/ evaluations'[v].state = "failed"
      OBVIOUS
    <3>2. DOMAIN evaluations[v] = Fields
      BY DEF IInvLearning, LearningOK
    <3>3. CASE v \notin over /\ evaluations'[v] = evaluations[v]
      BY <3>2, <3>3
    <3>4. ASSUME NEW passes \in BOOLEAN, v \in over, passes => Eligible(v, at, runs, time),
                 evaluations'[v] = [evaluations[v] EXCEPT !.work = "over",
                                     !.state = IF passes THEN "pending_approval" ELSE "failed"]
          PROVE  /\ DOMAIN evaluations'[v] = Fields
                 /\ evaluations[v].state \in {"queued", "evaluating"}
                 /\ \/ evaluations'[v].state = "pending_approval" /\ drafts[v].state = "draft"
                    \/ evaluations'[v].state = "failed"
      BY <3>2, <3>4 DEF Eligible, Fields
    <3> QED
      BY <2>1, <3>3, <3>4
  <2>3. /\ tasks' = [t \in Tasks |->
             IF t \in refused /\ t \in LiveTasks /\ \E u \in over : evaluations[u].notify /\ evaluations[u].origin = t
             THEN [tasks[t] EXCEPT !.state = "ended"] ELSE tasks[t]]
        /\ UNCHANGED <<drafts, approvals, revoked, grants, uses, sent>>
    BY <1>11 DEF PumpLearning, FinishEvaluations
  <2>4. tasks' \in [Tasks -> [state: {"none", "live", "ended"}, pins: SUBSET Versions]]
    BY <2>3 DEF IInvLearning, LearningOK
  <2> QED
    BY <2>1, <2>2, <2>3, <2>4, EvaluationsMove
<1>12. ASSUME NEW t \in Tasks, NEW pins, NEW time, BeginTask(t, pins, time)
       PROVE  IInvLearning'
  <2>1. /\ pins \subseteq grants /\ tasks' = [tasks EXCEPT ![t] = [state |-> "live", pins |-> pins]]
        /\ UNCHANGED <<drafts, evaluations, approvals, revoked, grants, uses, sent>>
    BY <1>12 DEF BeginTask
  <2> QED
    BY <2>1 DEF IInvLearning, LearningOK, UsesKept, DisabledStaysInert
<1>13. ASSUME NEW T, EndTasks(T)
       PROVE  IInvLearning'
  <2>1. /\ tasks' = [t \in Tasks |-> IF t \in T /\ t \in LiveTasks THEN [tasks[t] EXCEPT !.state = "ended"] ELSE tasks[t]]
        /\ UNCHANGED <<drafts, evaluations, approvals, revoked, grants, uses, sent>>
    BY <1>13 DEF EndTasks
  <2> QED
    BY <2>1 DEF IInvLearning, LearningOK, UsesKept, DisabledStaysInert
<1>14. CASE Interrupted
  <2>1. /\ evaluations' = [v \in Versions |-> IF evaluations[v].work = "running"
                              THEN [evaluations[v] EXCEPT !.work = "over"] ELSE evaluations[v]]
        /\ UNCHANGED <<drafts, approvals, revoked, grants, tasks, uses, sent>>
    BY <1>14 DEF Interrupted
  <2> QED
    BY <2>1, EvaluationsMove DEF IInvLearning, LearningOK, Fields
<1> QED
  BY <1>1, <1>2, <1>3, <1>4, <1>5, <1>6, <1>7, <1>8, <1>9, <1>10, <1>11, <1>12, <1>13, <1>14,
     ApproveKeeps, DispatchKeeps DEF LearningStep

\* What an earlier process may have approved satisfies the invariant.
LEMMA LearningStarts ==
  ASSUME NEW n \in Nat, LearningInit(n)
  PROVE  IInvLearning
<1> DEFINE before == {v \in Versions : v = 1 /\ n > 0}
<1>1. /\ drafts = [v \in Versions |-> IF v \in before THEN [NoDraft EXCEPT !.state = "draft"] ELSE NoDraft]
      /\ evaluations = [v \in Versions |-> IF v \in before
           THEN [NoEvaluation EXCEPT !.state = "active", !.work = "over", !.passed = TRUE] ELSE NoEvaluation]
      /\ approvals = [v \in Versions |-> IF v \in before
           THEN [granted |-> n, left |-> n, expires |-> 1] ELSE NoApproval]
      /\ grants = before /\ uses = {} /\ sent = {}
      /\ tasks = [t \in Tasks |-> Absent]
  BY DEF LearningInit
<1>2. /\ \A v \in Versions : v \in before => drafts[v].state = "draft"
      /\ \A v \in Versions : v \notin before => evaluations[v].state = "none"
      /\ \A v \in Versions : v \in before => evaluations[v].state = "active"
      /\ \A v \in Versions : DOMAIN evaluations[v] = Fields
  BY <1>1 DEF NoDraft, NoEvaluation, Fields
<1>3. drafts \in [Versions -> [kind: {"skill", "executable"}, state: {"none", "draft", "disabled"}]]
  BY <1>1 DEF NoDraft
<1>4. /\ approvals \in [Versions -> [granted: Nat, left: Nat, expires: Nat]]
      /\ \A v \in Versions : approvals[v].left = approvals[v].granted
      /\ \A v \in Versions : v \notin before => approvals[v].granted = 0
  BY <1>1 DEF NoApproval
<1>5. tasks \in [Tasks -> [state: {"none", "live", "ended"}, pins: SUBSET Versions]]
  BY <1>1 DEF Absent
<1>6. LearningOK
  BY <1>1, <1>2, <1>3, <1>4, <1>5 DEF LearningOK
<1>7. UsesKept
  <2>1. \A v \in Versions : {t \in Tasks : <<v, t>> \in uses} = {}
    BY <1>1
  <2> QED
    BY <1>1, <1>4, <2>1, FS_EmptySet DEF UsesKept
<1>8. DisabledStaysInert
  BY <1>2 DEF DisabledStaysInert
<1> QED
  BY <1>6, <1>7, <1>8 DEF IInvLearning

=============================================================================
