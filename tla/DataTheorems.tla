--------------------------- MODULE DataTheorems ---------------------------
(***************************************************************************)
(* Facts about data that the proofs about the components share.            *)
(*                                                                         *)
(* Sums of module Weights: a row is added to or taken from a sum, a column *)
(* changes at rows outside the sum, or one sum bounds another.  Sequences: *)
(* a table is rewritten, one row of it changes, a row is added.  And       *)
(* induction: over the numbers, and over the rounds of a loop.             *)
(***************************************************************************)
EXTENDS Weights, Sequences, SequencesExt,
        TLAPS, FiniteSetTheorems, SequenceTheorems, NaturalsInduction, WellFoundedInduction

\* One row stands for exactly as many units as it has tokens.
LEMMA UnitsOfSize ==
  ASSUME NEW x, NEW f, f[x] \in Nat
  PROVE  /\ IsFiniteSet(UnitsOf(x, f))
         /\ Cardinality(UnitsOf(x, f)) = f[x]
<1>1. IsFiniteSet({x}) /\ Cardinality({x}) = 1
  BY FS_Singleton
<1>2. IsFiniteSet(1..f[x]) /\ Cardinality(1..f[x]) = f[x]
  BY FS_Interval
<1>3. /\ IsFiniteSet({x} \X (1..f[x]))
      /\ Cardinality({x} \X (1..f[x])) = Cardinality({x}) * Cardinality(1..f[x])
  BY <1>1, <1>2, FS_Product
<1>4. 1 * f[x] = f[x]
  OBVIOUS
<1> QED
  BY <1>1, <1>2, <1>3, <1>4 DEF UnitsOf

\* The tokens of finitely many rows are finitely many: a SUM is a natural number.
LEMMA WeightType ==
  ASSUME NEW S, IsFiniteSet(S), NEW f, \A x \in S : f[x] \in Nat
  PROVE  IsFiniteSet(Units(S, f)) /\ Weight(S, f) \in Nat
<1> DEFINE Parts == {UnitsOf(x, f) : x \in S}
           h == [x \in S |-> UnitsOf(x, f)]
<1>1. h \in Surjection(S, Parts)
  BY DEF Surjection
<1>2. IsFiniteSet(Parts)
  BY <1>1, FS_Surjection
<1>3. \A T \in Parts : IsFiniteSet(T)
  BY UnitsOfSize
<1>4. IsFiniteSet(UNION Parts)
  BY <1>2, <1>3, FS_UNION
<1> QED
  BY <1>4, FS_CardinalityType DEF Units, Weight

\* A sum over no rows is zero: a fresh ledger.
LEMMA WeightEmpty == \A f : Weight({}, f) = 0
<1>1. \A f : Units({}, f) = {}
  BY DEF Units
<1> QED
  BY <1>1, FS_EmptySet DEF Weight

\* Rows without tokens do not count.
LEMMA WeightZero ==
  ASSUME NEW S, NEW f, \A x \in S : f[x] = 0
  PROVE  Weight(S, f) = 0
<1>1. \A x \in S : UnitsOf(x, f) = {}
  BY DEF UnitsOf
<1>2. Units(S, f) = {}
  BY <1>1 DEF Units
<1> QED
  BY <1>2, FS_EmptySet DEF Weight

\* A new row adds its tokens: an admission that inserts an attempt.
LEMMA WeightAdd ==
  ASSUME NEW S, IsFiniteSet(S), NEW x, x \notin S,
         NEW f, \A y \in S \cup {x} : f[y] \in Nat
  PROVE  Weight(S \cup {x}, f) = Weight(S, f) + f[x]
<1>1. Units(S \cup {x}, f) = Units(S, f) \cup UnitsOf(x, f)
  BY DEF Units
<1>2. Units(S, f) \cap UnitsOf(x, f) = {}
  BY DEF Units, UnitsOf
<1>3. IsFiniteSet(Units(S, f)) /\ Weight(S, f) \in Nat
  BY WeightType
<1>4. IsFiniteSet(UnitsOf(x, f)) /\ Cardinality(UnitsOf(x, f)) = f[x]
  BY UnitsOfSize
<1>5. Cardinality(Units(S, f)) \in Nat /\ f[x] \in Nat
  BY <1>3 DEF Weight
<1>6. Cardinality(Units(S, f) \cup UnitsOf(x, f)) = Cardinality(Units(S, f)) + Cardinality(UnitsOf(x, f))
  <2>1. Cardinality(Units(S, f) \cup UnitsOf(x, f))
          = Cardinality(Units(S, f)) + Cardinality(UnitsOf(x, f)) - Cardinality(Units(S, f) \cap UnitsOf(x, f))
    BY <1>3, <1>4, FS_Union
  <2>2. Cardinality(Units(S, f) \cap UnitsOf(x, f)) = 0
    BY <1>2, FS_EmptySet
  <2> QED
    BY <2>1, <2>2, <1>4, <1>5
<1>7. Cardinality(Units(S \cup {x}, f)) = Cardinality(Units(S, f)) + f[x]
  BY <1>1, <1>4, <1>6
<1> QED
  BY <1>7 DEF Weight

\* A row that leaves takes its tokens with it: a settlement.
LEMMA WeightRemove ==
  ASSUME NEW S, IsFiniteSet(S), NEW x \in S, NEW f, \A y \in S : f[y] \in Nat
  PROVE  Weight(S \ {x}, f) = Weight(S, f) - f[x]
<1>1. IsFiniteSet(S \ {x}) /\ (S \ {x}) \cup {x} = S
  BY FS_RemoveElement
<1>2. Weight(S, f) = Weight(S \ {x}, f) + f[x]
  BY <1>1, WeightAdd
<1>3. Weight(S \ {x}, f) \in Nat
  BY <1>1, WeightType
<1> QED
  BY <1>2, <1>3

\* A sum only depends on the column at its own rows.
LEMMA WeightSame ==
  ASSUME NEW S, NEW f, NEW g, \A x \in S : f[x] = g[x]
  PROVE  Weight(S, f) = Weight(S, g)
<1>1. Units(S, f) = Units(S, g)
  BY DEF Units, UnitsOf
<1> QED
  BY <1>1 DEF Weight

\* More rows, or more tokens per row, never make a sum smaller.
LEMMA WeightMonotone ==
  ASSUME NEW S, NEW T, IsFiniteSet(T), S \subseteq T,
         NEW f, NEW g, \A x \in T : f[x] \in Nat /\ g[x] \in Nat,
         \A x \in S : f[x] <= g[x]
  PROVE  Weight(S, f) <= Weight(T, g)
<1>1. Units(S, f) \subseteq Units(T, g)
  <2>1. \A x \in S : UnitsOf(x, f) \subseteq UnitsOf(x, g)
    BY DEF UnitsOf
  <2> QED
    BY <2>1 DEF Units
<1>2. IsFiniteSet(Units(T, g))
  BY WeightType
<1> QED
  BY <1>1, <1>2, FS_Subset DEF Weight

\* One row of the column grows by d: usage is added to a call's total.
LEMMA WeightUpdate ==
  ASSUME NEW S, IsFiniteSet(S), NEW x \in S, NEW d \in Nat, NEW f, NEW g,
         \A y \in S : f[y] \in Nat, g[x] = f[x] + d, \A y \in S \ {x} : g[y] = f[y]
  PROVE  Weight(S, g) = Weight(S, f) + d
<1>1. \A y \in S : g[y] \in Nat
  OBVIOUS
<1>2. Weight(S \ {x}, f) = Weight(S, f) - f[x] /\ Weight(S \ {x}, g) = Weight(S, g) - g[x]
  BY <1>1, WeightRemove
<1>3. Weight(S \ {x}, f) = Weight(S \ {x}, g)
  BY WeightSame
<1>4. Weight(S, f) \in Nat /\ Weight(S, g) \in Nat
  BY <1>1, WeightType
<1> QED
  BY <1>2, <1>3, <1>4

\* A function on 1..n with values in a set is a sequence over the set.
LEMMA SeqFromFunction ==
  ASSUME NEW S, NEW n \in Nat, NEW f \in [1..n -> S]
  PROVE  f \in Seq(S) /\ Len(f) = n /\ DOMAIN f = 1..n
<1>1. f \in Seq(S)
  BY SeqDef
<1>2. Len(f) \in Nat /\ DOMAIN f = 1..Len(f)
  BY <1>1, LenProperties
<1>3. 1..Len(f) = 1..n
  BY <1>2
<1>4. Len(f) = n
  BY <1>2, <1>3
<1> QED
  BY <1>1, <1>2, <1>4

\* SetToSeq lists every element of a finite set exactly once.
LEMMA Listing ==
  ASSUME NEW S, IsFiniteSet(S)
  PROVE  /\ Cardinality(S) \in Nat /\ SetToSeq(S) \in [1..Cardinality(S) -> S]
         /\ DOMAIN SetToSeq(S) = 1..Cardinality(S)
         /\ \A j, k \in DOMAIN SetToSeq(S) : SetToSeq(S)[j] = SetToSeq(S)[k] => j = k
         /\ \A x \in S : \E k \in DOMAIN SetToSeq(S) : SetToSeq(S)[k] = x
<1> DEFINE n == Cardinality(S)
           Listed(f) == f \in [1..n -> S] /\ IsInjective(f)
<1>1. n \in Nat /\ ExistsBijection(1..n, S)
  BY FS_CardinalityType
<1>2. PICK f \in Bijection(1..n, S) : TRUE
  BY <1>1 DEF ExistsBijection
<1>3. f \in [1..n -> S] /\ IsInjective(f)
  BY <1>2 DEF Bijection, Injection, IsInjective
<1>4. SetToSeq(S) \in [1..n -> S] /\ IsInjective(SetToSeq(S))
  <2>1. SetToSeq(S) = CHOOSE f1 \in [1..n -> S] : IsInjective(f1)
    BY DEF SetToSeq
  <2> QED
    BY <1>3, <2>1
<1>5. SetToSeq(S) \in Injection(1..n, S)
  BY <1>4 DEF Injection, IsInjective
<1>6. IsFiniteSet(1..n) /\ Cardinality(1..n) = n
  BY <1>1, FS_Interval
<1>7. SetToSeq(S) \in Surjection(1..n, S)
  BY <1>5, <1>6, FS_Injection
<1> QED
  BY <1>1, <1>4, <1>7 DEF IsInjective, Surjection

-----------------------------------------------------------------------------
(* Tables: sequences of rows *)

\* A table rewritten row by row is a table of the same length.
LEMMA TableRows ==
  ASSUME NEW S, NEW n \in Nat, NEW f, DOMAIN f = 1..n, f = [i \in 1..n |-> f[i]],
         \A i \in 1..n : f[i] \in S
  PROVE  /\ << >> \o f \in Seq(S) /\ Len(<< >> \o f) = n /\ DOMAIN (<< >> \o f) = 1..n
         /\ \A i \in 1..n : (<< >> \o f)[i] = f[i]
<1>1. f \in [1..n -> S]
  OBVIOUS
<1>2. f \in Seq(S) /\ Len(f) = n
  BY <1>1, SeqFromFunction
<1>3. << >> \o f = f
  BY <1>2, ConcatEmptySeq
<1> QED
  BY <1>2, <1>3

\* One row of a table changes.
LEMMA RowChanged ==
  ASSUME NEW S, NEW s \in Seq(S), NEW i \in DOMAIN s, NEW r \in S
  PROVE  /\ [s EXCEPT ![i] = r] \in Seq(S)
         /\ Len([s EXCEPT ![i] = r]) = Len(s) /\ DOMAIN [s EXCEPT ![i] = r] = DOMAIN s
         /\ \A k \in DOMAIN s : [s EXCEPT ![i] = r][k] = IF k = i THEN r ELSE s[k]
<1>1. Len(s) \in Nat /\ DOMAIN s = 1..Len(s) /\ s \in [1..Len(s) -> S]
  BY LenProperties
<1>2. [s EXCEPT ![i] = r] \in [1..Len(s) -> S]
  BY <1>1
<1>3. [s EXCEPT ![i] = r] \in Seq(S) /\ Len([s EXCEPT ![i] = r]) = Len(s)
  BY <1>1, <1>2, SeqFromFunction
<1> QED
  BY <1>1, <1>3

\* A row is added to a table.
LEMMA RowAdded ==
  ASSUME NEW S, NEW s \in Seq(S), NEW r \in S
  PROVE  /\ Append(s, r) \in Seq(S) /\ Len(Append(s, r)) = Len(s) + 1
         /\ Len(s) \in Nat /\ DOMAIN s = 1..Len(s) /\ DOMAIN Append(s, r) = 1..(Len(s) + 1)
         /\ DOMAIN Append(s, r) = DOMAIN s \cup {Len(s) + 1} /\ Len(s) + 1 \notin DOMAIN s
         /\ Append(s, r)[Len(s) + 1] = r /\ \A k \in DOMAIN s : Append(s, r)[k] = s[k]
<1>1. /\ Append(s, r) \in Seq(S) /\ Len(Append(s, r)) = Len(s) + 1
      /\ \A k \in 1..Len(s) : Append(s, r)[k] = s[k]
      /\ Append(s, r)[Len(s) + 1] = r
  OBVIOUS
<1>2. DOMAIN s = 1..Len(s) /\ Len(s) \in Nat /\ DOMAIN Append(s, r) = 1..(Len(s) + 1)
  BY <1>1, LenProperties
<1> QED
  BY <1>1, <1>2

-----------------------------------------------------------------------------
(* Induction *)

\* A set of numbers with 0 and every successor has all of them: otherwise the
\* least number outside it would have a predecessor in it.
LEMMA Counting ==
  ASSUME NEW T \in SUBSET Nat, 0 \in T, \A n \in T : n + 1 \in T
  PROVE  T = Nat
<1>1. IsWellFoundedOn(OpToRel(<, Nat), Nat)
  BY NatLessThanWellFounded
<1>2. ASSUME Nat \ T # {} PROVE FALSE
  <2>1. PICK m \in Nat \ T : \A y \in Nat \ T : <<y, m>> \notin OpToRel(<, Nat)
    BY <1>1, <1>2, WFMin
  <2>2. m \in Nat /\ m \notin T /\ m # 0
    OBVIOUS
  <2>3. m - 1 \in Nat /\ m = (m - 1) + 1
    BY <2>2
  <2>4. <<m - 1, m>> \in OpToRel(<, Nat)
    BY <2>2, <2>3 DEF OpToRel
  <2>5. m - 1 \in T
    BY <2>1, <2>3, <2>4
  <2> QED
    BY <2>2, <2>3, <2>5
<1> QED
  BY <1>2

\* What holds before a loop and is kept by each of its n rounds holds after every round.
LEMMA Rounds ==
  ASSUME NEW n \in Nat, NEW T, 0 \in T, \A i \in 1..n : i - 1 \in T => i \in T
  PROVE  \A i \in 0..n : i \in T
<1> DEFINE U == {i \in Nat : i <= n => i \in T}
<1>1. 0 \in U
  OBVIOUS
<1>2. ASSUME NEW i \in U PROVE i + 1 \in U
  <2>1. i \in Nat /\ i + 1 \in Nat /\ (i + 1) - 1 = i
    OBVIOUS
  <2>2. CASE i + 1 <= n
    <3>1. i <= n /\ i + 1 \in 1..n
      BY <2>1, <2>2
    <3>2. i \in T
      BY <3>1
    <3> QED
      BY <2>1, <3>1, <3>2
  <2>3. CASE ~(i + 1 <= n)
    BY <2>1, <2>3
  <2> QED
    BY <2>2, <2>3
<1>3. U = Nat
  <2> HIDE DEF U
  <2>1. U \in SUBSET Nat
    BY DEF U
  <2> QED
    BY <2>1, <1>1, <1>2, Counting
<1> QED
  BY <1>3

=============================================================================
