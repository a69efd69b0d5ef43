--------------------------- MODULE RetentionProofs ---------------------------
(***************************************************************************)
(* Theorems about Retention, for every calendar and every policy.          *)
(***************************************************************************)
EXTENDS Retention, FiniteSetTheorems, TLAPS

\* Every variable keeps its type: PolicySpec => []PolicyTypeOK.
THEOREM TypeCorrect == PolicySpec => []PolicyTypeOK
<1>1. PolicyInit => PolicyTypeOK
  BY CalendarAssumption DEF PolicyInit, PolicyTypeOK, Taken
<1>2. PolicyTypeOK /\ [PolicyNext]_policyVars => PolicyTypeOK'
  <2> SUFFICES ASSUME PolicyTypeOK, [PolicyNext]_policyVars PROVE PolicyTypeOK'
    OBVIOUS
  <2> USE CalendarAssumption DEF PolicyTypeOK, Taken
  <2>1. CASE Pass
    BY <2>1 DEF Pass
  <2>2. CASE Take
    <3>1. created' \in Seq(0..Horizon) /\ Len(created') = Len(created) + 1
      BY <2>2 DEF Take
    <3>2. Len(created) \in Nat
      OBVIOUS
    <3>3. 1..Len(created) \cup {Len(created) + 1} \subseteq 1..(Len(created) + 1)
      BY <3>2
    <3>4. remaining' \subseteq 1..(Len(created) + 1)
      BY <2>2, <3>3 DEF Take
    <3> QED
      BY <2>2, <3>1, <3>4 DEF Take
  <2>3. CASE ApplyRetention
    BY <2>3 DEF ApplyRetention
  <2>4. CASE UNCHANGED policyVars
    BY <2>4 DEF policyVars
  <2> QED
    BY <2>1, <2>2, <2>3, <2>4 DEF PolicyNext
<1> QED
  BY <1>1, <1>2, PTL DEF PolicySpec

\* A selection never contains the newest of the backups it selects from, for
\* any combination of rules.
LEMMA SelectionSparesNewest ==
    ASSUME PolicyTypeOK, NEW S \in SUBSET Taken, NEW b \in S, \A c \in S : c <= b
    PROVE  b \notin ToDelete(S)
<1>1. \A c \in S : c \in Int
  BY DEF Taken
<1>2. NewestOf(S) = b
  <2>1. \A c \in S : (\A e \in S : e <= c) => c = b
    BY <1>1
  <2> QED
    BY <2>1 DEF NewestOf
<1> QED
  BY <1>2 DEF ToDelete, Keep

\* "The newest backup is never removed": whatever the policy, and however often
\* it is applied, the last backup taken has not been deleted.
THEOREM NewestStays == PolicySpec => []NewestIsStored
<1>1. PolicyInit => NewestIsStored
  BY DEF PolicyInit, NewestIsStored
<1>2. PolicyTypeOK /\ NewestIsStored /\ [PolicyNext]_policyVars => NewestIsStored'
  <2> SUFFICES ASSUME PolicyTypeOK, NewestIsStored, [PolicyNext]_policyVars PROVE NewestIsStored'
    OBVIOUS
  <2> USE DEF NewestIsStored
  <2>1. CASE Pass
    BY <2>1 DEF Pass
  <2>2. CASE Take
    <3>1. Len(created') = Len(created) + 1
      BY <2>2 DEF Take, PolicyTypeOK
    <3> QED
      BY <2>2, <3>1 DEF Take
  <2>3. CASE ApplyRetention
    <3>1. created # <<>> => Len(created) \notin ToDelete(remaining)
      <4> SUFFICES ASSUME created # <<>> PROVE Len(created) \notin ToDelete(remaining)
        OBVIOUS
      <4>1. \A c \in remaining : c <= Len(created)
        BY DEF PolicyTypeOK, Taken
      <4> QED
        BY <4>1, SelectionSparesNewest DEF PolicyTypeOK
    <3> QED
      BY <2>3, <3>1 DEF ApplyRetention
  <2>4. CASE UNCHANGED policyVars
    BY <2>4 DEF policyVars
  <2> QED
    BY <2>1, <2>2, <2>3, <2>4 DEF PolicyNext
<1> QED
  BY <1>1, <1>2, TypeCorrect, PTL DEF PolicySpec

----------------------------------------------------------------------------
(* What the loop of keep_newest_per_bucket keeps *)

\* Induction, in the form of a least counterexample.
LEMMA LeastNumber ==
    ASSUME NEW T, T \subseteq Nat, T # {}
    PROVE  \E x \in T : \A y \in T : x <= y
<1> DEFINE Less == {p \in Nat \X Nat : p[1] < p[2]}
<1>1. IsWellFoundedOn(Less, Nat)
  BY NatLessThanWellFounded DEF OpToRel
<1>2. PICK x \in T : \A y \in T : <<y, x>> \notin Less
  <2> HIDE DEF Less
  <2> QED BY <1>1, WFMin
<1>3. \A y \in T : ~(y < x)
  BY <1>2
<1> QED BY <1>3

\* The state of the loop after the i newest backups.
Start == [seen |-> {}, keep |-> {}]
IsLoop(after, n, S, limit, bucket) ==
    after = [i \in 0 .. n |-> IF i = 0 THEN Start
                              ELSE Visit(after[i - 1], NewestFirst(i), S, limit, bucket)]

\* The function that the definition of the loop names exists.
LEMMA LoopExists ==
    ASSUME NEW n \in Nat, NEW S, NEW limit, NEW bucket
    PROVE  \E after : IsLoop(after, n, S, limit, bucket)
<1> DEFINE Bad == {m \in 0 .. n : ~ \E after : IsLoop(after, m, S, limit, bucket)}
<1> SUFFICES ASSUME Bad # {} PROVE FALSE
  OBVIOUS
<1>1. PICK m \in Bad : \A k \in Bad : m <= k
  <2>1. Bad \subseteq Nat
    OBVIOUS
  <2> HIDE DEF Bad
  <2> QED BY <2>1, LeastNumber
<1>2. m # 0
  <2>1. IsLoop([i \in 0 .. 0 |-> Start], 0, S, limit, bucket)
    BY DEF IsLoop
  <2> QED BY <2>1
<1>3. PICK before : IsLoop(before, m - 1, S, limit, bucket)
  BY <1>1, <1>2
<1> DEFINE after == [i \in 0 .. m |-> IF i = m THEN Visit(before[m - 1], NewestFirst(m), S, limit, bucket)
                                       ELSE before[i]]
<1>4. ASSUME NEW i \in 0 .. m
      PROVE  after[i] = IF i = 0 THEN Start ELSE Visit(after[i - 1], NewestFirst(i), S, limit, bucket)
  <2>1. CASE i = m
    BY <1>2, <2>1
  <2>2. CASE i # m
    <3>1. i \in 0 .. m - 1 /\ (i # 0 => i - 1 \in 0 .. m - 1 /\ i - 1 # m)
      BY <2>2
    <3>2. before[i] = IF i = 0 THEN Start ELSE Visit(before[i - 1], NewestFirst(i), S, limit, bucket)
      BY <1>3, <3>1 DEF IsLoop
    <3> QED BY <2>2, <3>1, <3>2
  <2> QED BY <2>1, <2>2
<1>5. IsLoop(after, m, S, limit, bucket)
  BY <1>4 DEF IsLoop
<1> QED BY <1>1, <1>5

\* The image of a finite set under a function is finite.
LEMMA ImageFinite ==
    ASSUME NEW S, IsFiniteSet(S), NEW f
    PROVE  IsFiniteSet({f[s] : s \in S}) /\ Cardinality({f[s] : s \in S}) \in Nat
<1> DEFINE T == {f[s] : s \in S}  g == [s \in S |-> f[s]]
<1>1. g \in Surjection(S, T)
  BY DEF Surjection
<1>2. IsFiniteSet(T)
  BY <1>1, FS_Surjection
<1> QED BY <1>2, FS_CardinalityType

NewerBuckets(b, S, bucket) == {bucket[c] : c \in {c \in S : c > b}}
KeptAbove(b, S, limit, bucket) == {c \in S : c > b /\ RuleKeeps(c, S, limit, bucket)}

\* What the loop knows once it has passed every backup above b.
Passed(acc, b, S, limit, bucket) ==
    /\ acc.keep = KeptAbove(b, S, limit, bucket)
    /\ acc.seen = {bucket[c] : c \in KeptAbove(b, S, limit, bucket)}
    /\ Cardinality(acc.seen) < limit => acc.seen = NewerBuckets(b, S, bucket)

\* Visiting one more backup, the next older one.
LEMMA VisitPasses ==
    ASSUME NEW n \in Nat, NEW S \in SUBSET (1 .. n), NEW limit \in Nat, NEW bucket,
           NEW b \in 1 .. n, NEW acc, Passed(acc, b, S, limit, bucket)
    PROVE  Passed(Visit(acc, b, S, limit, bucket), b - 1, S, limit, bucket)
<1> DEFINE Above == {c \in S : c > b}  D == NewerBuckets(b, S, bucket)
           K == KeptAbove(b, S, limit, bucket)
           new == Visit(acc, b, S, limit, bucket)
<1>1. IsFiniteSet(Above) /\ IsFiniteSet(D) /\ Cardinality(D) \in Nat
  <2>1. IsFiniteSet(Above)
    <3>1. IsFiniteSet(1 .. n)
      BY FS_Interval
    <3>2. Above \in SUBSET (1 .. n)
      OBVIOUS
    <3> HIDE DEF Above
    <3> QED BY <3>1, <3>2, FS_Subset
  <2> QED BY <2>1, ImageFinite DEF NewerBuckets
<1>2. /\ acc.keep = K /\ acc.seen = {bucket[c] : c \in K}
      /\ Cardinality(acc.seen) < limit => acc.seen = D
  BY DEF Passed
<1>3. acc.seen \subseteq D
  BY <1>2 DEF KeptAbove, NewerBuckets
<1>4. Cardinality(acc.seen) <= Cardinality(D) /\ Cardinality(acc.seen) \in Nat
  BY <1>1, <1>3, FS_Subset, FS_CardinalityType
<1>5. /\ b \notin S => KeptAbove(b - 1, S, limit, bucket) = K
      /\ b \in S /\ ~RuleKeeps(b, S, limit, bucket) => KeptAbove(b - 1, S, limit, bucket) = K
      /\ b \in S /\ RuleKeeps(b, S, limit, bucket) => KeptAbove(b - 1, S, limit, bucket) = K \cup {b}
  <2>1. \A c \in S : c > b - 1 <=> c > b \/ c = b
    OBVIOUS
  <2> QED BY <2>1 DEF KeptAbove
<1>6. /\ b \notin S => NewerBuckets(b - 1, S, bucket) = D
      /\ b \in S => NewerBuckets(b - 1, S, bucket) = D \cup {bucket[b]}
  <2>1. \A c \in S : c > b - 1 <=> c > b \/ c = b
    OBVIOUS
  <2> QED BY <2>1 DEF NewerBuckets
<1>7. RuleKeeps(b, S, limit, bucket) <=> (bucket[b] \notin D /\ Cardinality(D) < limit)
  <2>1. (\A c \in S : bucket[c] = bucket[b] => c <= b) <=> bucket[b] \notin D
    BY DEF NewerBuckets
  <2> QED BY <2>1 DEF RuleKeeps, NewerBuckets
<1>8. CASE b \notin S
  BY <1>2, <1>5, <1>6, <1>8 DEF Visit, Passed
<1>9. CASE b \in S /\ bucket[b] \in acc.seen
  <2>1. new = acc /\ bucket[b] \in D
    BY <1>3, <1>9 DEF Visit
  <2>2. D \cup {bucket[b]} = D
    BY <2>1
  <2> QED BY <1>2, <1>5, <1>6, <1>7, <1>9, <2>1, <2>2 DEF Passed
<1>10. CASE b \in S /\ Cardinality(acc.seen) >= limit
  <2>1. new = acc /\ ~(Cardinality(acc.seen) < limit)
    BY <1>4, <1>10 DEF Visit
  <2>2. ~RuleKeeps(b, S, limit, bucket)
    BY <1>1, <1>4, <1>7, <1>10
  <2> QED BY <1>2, <1>5, <1>10, <2>1, <2>2 DEF Passed
<1>11. CASE b \in S /\ bucket[b] \notin acc.seen /\ Cardinality(acc.seen) < limit
  <2>1. new = [seen |-> acc.seen \cup {bucket[b]}, keep |-> acc.keep \cup {b}]
    BY <1>4, <1>11 DEF Visit
  <2>2. acc.seen = D /\ RuleKeeps(b, S, limit, bucket)
    BY <1>2, <1>7, <1>11
  <2>3. {bucket[c] : c \in K \cup {b}} = {bucket[c] : c \in K} \cup {bucket[b]}
    OBVIOUS
  <2> QED BY <1>2, <1>5, <1>6, <1>11, <2>1, <2>2, <2>3 DEF Passed
<1> QED BY <1>4, <1>8, <1>9, <1>10, <1>11

\* The loop passes every backup and keeps what the rule keeps.
LEMMA LoopPasses ==
    ASSUME PolicyTypeOK, NEW S \in SUBSET Taken, NEW limit \in Nat, NEW bucket
    PROVE  /\ KeepNewestPerBucket(S, limit, bucket) = {b \in S : RuleKeeps(b, S, limit, bucket)}
           /\ \A b \in 0 .. Len(created) : \E acc : Passed(acc, b, S, limit, bucket)
<1> DEFINE n == Len(created)
           after == CHOOSE f : f = [i \in 0 .. n |-> IF i = 0 THEN [seen |-> {}, keep |-> {}]
                       ELSE Visit(f[i - 1], NewestFirst(i), S, limit, bucket)]
           Bad == {m \in 0 .. n : ~Passed(after[m], n - m, S, limit, bucket)}
<1>1. n \in Nat /\ S \in SUBSET (1 .. n)
  BY DEF PolicyTypeOK, Taken
<1>2. KeepNewestPerBucket(S, limit, bucket) = after[n].keep
  BY DEF KeepNewestPerBucket
<1>3. /\ after[0] = Start
      /\ \A i \in 1 .. n : after[i] = Visit(after[i - 1], n + 1 - i, S, limit, bucket)
  <2> HIDE DEF after
  <2>1. IsLoop(after, n, S, limit, bucket)
    <3>1. \E f : f = [i \in 0 .. n |-> IF i = 0 THEN [seen |-> {}, keep |-> {}]
                        ELSE Visit(f[i - 1], NewestFirst(i), S, limit, bucket)]
      <4>1. PICK f : IsLoop(f, n, S, limit, bucket)
        BY <1>1, LoopExists
      <4> QED BY <4>1, Zenon DEF IsLoop, Start
    <3>2. after = [i \in 0 .. n |-> IF i = 0 THEN [seen |-> {}, keep |-> {}]
                        ELSE Visit(after[i - 1], NewestFirst(i), S, limit, bucket)]
      BY <3>1, Zenon DEF after
    <3> QED BY <3>2 DEF IsLoop, Start
  <2>2. after[0] = Start
    BY <1>1, <2>1 DEF IsLoop
  <2>3. ASSUME NEW i \in 1 .. n PROVE after[i] = Visit(after[i - 1], n + 1 - i, S, limit, bucket)
    BY <1>1, <2>1 DEF IsLoop, NewestFirst
  <2> QED BY <2>2, <2>3
<1> HIDE DEF after
<1>4. Bad = {}
  <2> SUFFICES ASSUME Bad # {} PROVE FALSE
    OBVIOUS
  <2>1. PICK m \in Bad : \A k \in Bad : m <= k
    <3>1. Bad \subseteq Nat
      BY <1>1
    <3> HIDE DEF Bad
    <3> QED BY <3>1, LeastNumber
  <2>2. m # 0
    <3>1. KeptAbove(n, S, limit, bucket) = {} /\ NewerBuckets(n, S, bucket) = {}
      <4>1. \A c \in S : ~(c > n)
        BY <1>1
      <4> QED BY <4>1 DEF KeptAbove, NewerBuckets
    <3>2. Passed(after[0], n, S, limit, bucket)
      BY <1>3, <3>1 DEF Passed, Start
    <3> QED BY <1>1, <3>2
  <2>3. m - 1 \in 0 .. n /\ m - 1 \notin Bad
    BY <1>1, <2>1, <2>2
  <2>4. Passed(after[m - 1], n + 1 - m, S, limit, bucket)
    <3>1. n - (m - 1) = n + 1 - m
      BY <1>1, <2>1
    <3> QED BY <2>3, <3>1
  <2>5. n + 1 - m \in 1 .. n /\ (n + 1 - m) - 1 = n - m /\ m \in 1 .. n
    BY <1>1, <2>1, <2>2
  <2>6. Passed(after[m], n - m, S, limit, bucket)
    BY <1>1, <1>3, <2>4, <2>5, VisitPasses
  <2> QED BY <2>1, <2>6
<1>5. \A m \in 0 .. n : Passed(after[m], n - m, S, limit, bucket)
  BY <1>4
<1>6. KeepNewestPerBucket(S, limit, bucket) = {b \in S : RuleKeeps(b, S, limit, bucket)}
  <2>1. Passed(after[n], 0, S, limit, bucket)
    BY <1>1, <1>5
  <2>2. after[n].keep = KeptAbove(0, S, limit, bucket)
    BY <2>1 DEF Passed
  <2>3. \A c \in S : c > 0
    BY <1>1
  <2> QED BY <1>2, <2>2, <2>3 DEF KeptAbove
<1>7. ASSUME NEW b \in 0 .. n PROVE \E acc : Passed(acc, b, S, limit, bucket)
  <2>1. n - b \in 0 .. n /\ n - (n - b) = b
    BY <1>1
  <2> QED BY <1>5, <2>1
<1> QED BY <1>6, <1>7

----------------------------------------------------------------------------
(* What the rules say of fewer and of more backups *)

LEMMA FiniteAbove ==
    ASSUME NEW n \in Nat, NEW S \in SUBSET (1 .. n), NEW b, NEW bucket
    PROVE  /\ IsFiniteSet(NewerBuckets(b, S, bucket))
           /\ Cardinality(NewerBuckets(b, S, bucket)) \in Nat
<1> DEFINE Above == {c \in S : c > b}
<1>1. IsFiniteSet(1 .. n)
  BY FS_Interval
<1>2. Above \in SUBSET (1 .. n)
  OBVIOUS
<1> HIDE DEF Above
<1>3. IsFiniteSet(Above)
  BY <1>1, <1>2, FS_Subset
<1>4. NewerBuckets(b, S, bucket) = {bucket[c] : c \in Above}
  BY DEF NewerBuckets, Above
<1> DEFINE D == {bucket[c] : c \in Above}
<1>5. IsFiniteSet(D) /\ Cardinality(D) \in Nat
  BY <1>3, ImageFinite
<1>6. NewerBuckets(b, S, bucket) = D
  BY <1>4
<1> HIDE DEF D
<1> QED BY <1>5, <1>6

\* The rule in terms of the buckets of the newer backups.
LEMMA RuleByBuckets ==
    ASSUME NEW n \in Nat, NEW S \in SUBSET (1 .. n), NEW b \in 1 .. n, NEW limit, NEW bucket
    PROVE  RuleKeeps(b, S, limit, bucket)
             <=> bucket[b] \notin NewerBuckets(b, S, bucket)
                 /\ Cardinality(NewerBuckets(b, S, bucket)) < limit
<1>1. \A c \in S : c <= b <=> ~(c > b)
  OBVIOUS
<1>2. (\A c \in S : bucket[c] = bucket[b] => c <= b) <=> bucket[b] \notin NewerBuckets(b, S, bucket)
  BY <1>1 DEF NewerBuckets
<1> QED BY <1>2 DEF RuleKeeps, NewerBuckets

\* What a rule keeps of many backups it keeps of fewer.
LEMMA RuleShrinks ==
    ASSUME NEW n \in Nat, NEW S \in SUBSET (1 .. n), NEW T \in SUBSET S, NEW b \in T,
           NEW limit \in Nat, NEW bucket, RuleKeeps(b, S, limit, bucket)
    PROVE  RuleKeeps(b, T, limit, bucket)
<1> DEFINE N(X) == NewerBuckets(b, X, bucket)
<1>1. N(T) \subseteq N(S)
  BY DEF NewerBuckets
<1>2. b \in 1 .. n /\ T \in SUBSET (1 .. n)
  OBVIOUS
<1>3. IsFiniteSet(N(S)) /\ Cardinality(N(S)) \in Nat /\ Cardinality(N(T)) \in Nat
  BY <1>2, FiniteAbove
<1>4. bucket[b] \notin N(S) /\ Cardinality(N(S)) < limit
  BY <1>2, RuleByBuckets
<1>5. Cardinality(N(T)) <= Cardinality(N(S))
  <2> HIDE DEF N
  <2> QED BY <1>1, <1>3, FS_Subset
<1>6. Cardinality(N(T)) < limit
  <2> HIDE DEF N
  <2> QED BY <1>3, <1>4, <1>5
<1> QED BY <1>1, <1>2, <1>4, <1>6, RuleByBuckets

\* Backups that hold all that the rule keeps of the whole history lose nothing:
\* what the rule keeps of them it keeps of the whole history.
LEMMA RuleAgrees ==
    ASSUME PolicyTypeOK, NEW S \in SUBSET Taken, NEW T \in SUBSET S, NEW b \in T,
           NEW limit \in Nat, NEW bucket,
           \A c \in S : RuleKeeps(c, S, limit, bucket) => c \in T,
           RuleKeeps(b, T, limit, bucket)
    PROVE  RuleKeeps(b, S, limit, bucket)
<1> DEFINE N(X) == NewerBuckets(b, X, bucket)
           E == {bucket[d] : d \in KeptAbove(b, S, limit, bucket)}
<1>1. /\ Len(created) \in Nat /\ S \in SUBSET (1 .. Len(created)) /\ T \in SUBSET (1 .. Len(created))
      /\ b \in 1 .. Len(created) /\ b \in 0 .. Len(created)
  BY DEF Taken, PolicyTypeOK
<1>2. E \subseteq N(T) /\ N(T) \subseteq N(S)
  BY DEF KeptAbove, NewerBuckets
<1>3. bucket[b] \notin N(T) /\ Cardinality(N(T)) < limit
  BY <1>1, RuleByBuckets
<1>4. IsFiniteSet(N(T)) /\ Cardinality(N(T)) \in Nat
  BY <1>1, FiniteAbove
<1>5. PICK acc : Passed(acc, b, S, limit, bucket)
  BY <1>1, LoopPasses
<1>6. acc.seen = E /\ (Cardinality(E) < limit => E = N(S))
  BY <1>5 DEF Passed
<1>7. Cardinality(E) < limit
  <2> HIDE DEF N, E
  <2>1. IsFiniteSet(E) /\ Cardinality(E) <= Cardinality(N(T))
    BY <1>2, <1>4, FS_Subset
  <2>2. Cardinality(E) \in Nat
    BY <2>1, FS_CardinalityType
  <2> QED BY <1>3, <1>4, <2>1, <2>2
<1>8. N(S) = N(T)
  <2> HIDE DEF N, E
  <2> QED BY <1>2, <1>6, <1>7
<1> QED BY <1>1, <1>3, <1>8, RuleByBuckets

----------------------------------------------------------------------------
(* The selection *)

LEMMA NewestExists ==
    ASSUME PolicyTypeOK, NEW S \in SUBSET Taken, S # {}
    PROVE  NewestOf(S) \in S /\ \A c \in S : c <= NewestOf(S)
<1> DEFINE n == Len(created)  T == {n - c : c \in S}
<1>1. n \in Nat /\ S \in SUBSET (1 .. n)
  BY DEF PolicyTypeOK, Taken
<1>2. T \subseteq Nat /\ T # {}
  <2>1. \A c \in S : n - c \in Nat
    BY <1>1
  <2>2. PICK c \in S : TRUE
    OBVIOUS
  <2>3. n - c \in T
    OBVIOUS
  <2> QED BY <2>1, <2>3
<1>3. PICK x \in T : \A y \in T : x <= y
  <2> HIDE DEF T
  <2> QED BY <1>2, LeastNumber
<1>4. PICK b \in S : x = n - b
  OBVIOUS
<1>5. ASSUME NEW c \in S PROVE c <= b
  <2>1. n - b <= n - c
    BY <1>3, <1>4
  <2> QED BY <1>1, <2>1
<1>6. \E s \in S : \A c \in S : c <= s
  BY <1>5
<1> HIDE DEF T
<1> QED BY <1>6, Zenon DEF NewestOf

\* What is left after the selection is what survives.
LEMMA KeepsSurvivors ==
    ASSUME PolicyTypeOK, NEW S \in SUBSET Taken
    PROVE  ToDelete(S) = {b \in S : ~Survives(b, S)}
<1>1. CASE S = {}
  BY <1>1 DEF ToDelete
<1>2. CASE NoPolicy
  BY <1>2 DEF ToDelete, Survives
<1>3. CASE S # {} /\ ~NoPolicy
  <2>1. policy.daily \in Nat /\ policy.weekly \in Nat /\ policy.monthly \in Nat
    BY PolicyAssumption DEF PolicyTypeOK
  <2>2. /\ KeepNewestPerBucket(S, policy.daily, Day) = {b \in S : RuleKeeps(b, S, policy.daily, Day)}
        /\ KeepNewestPerBucket(S, policy.weekly, Week) = {b \in S : RuleKeeps(b, S, policy.weekly, Week)}
        /\ KeepNewestPerBucket(S, policy.monthly, Month) = {b \in S : RuleKeeps(b, S, policy.monthly, Month)}
    BY <2>1, LoopPasses
  <2>3. ASSUME NEW b \in S PROVE b = NewestOf(S) <=> \A c \in S : c <= b
    <3>1. NewestOf(S) \in S /\ \A c \in S : c <= NewestOf(S)
      BY <1>3, NewestExists
    <3>2. \A c \in S : c \in Int
      BY DEF Taken
    <3> QED BY <3>1, <3>2
  <2>4. ASSUME NEW b \in S PROVE b \in Keep(S) <=> Survives(b, S)
    <3>1. b \in {NewestOf(S)} <=> \A c \in S : c <= b
      BY <2>3
    <3> QED BY <1>3, <2>2, <3>1 DEF Keep, Survives
  <2> QED BY <1>3, <2>4 DEF ToDelete
<1> QED BY <1>1, <1>2, <1>3

\* The loops over the sorted list delete exactly the backups that no rule of the
\* policy keeps, as the rules are stated: newest of its day, week or month, among
\* the first so many that hold one, or young enough.
THEOREM SelectionIsTheRules == PolicySpec => []DeletesWhatNoRuleKeeps
<1>1. PolicyTypeOK => DeletesWhatNoRuleKeeps
  BY KeepsSurvivors DEF DeletesWhatNoRuleKeeps, PolicyTypeOK
<1> QED BY <1>1, TypeCorrect, PTL

----------------------------------------------------------------------------
(* Retention applied again and again *)

\* Only the buckets of the backups at hand count for a rule.
LEMMA RuleReadsOwnBuckets ==
    ASSUME NEW S, NEW b \in S, NEW limit, NEW bk1, NEW bk2, \A c \in S : bk1[c] = bk2[c]
    PROVE  RuleKeeps(b, S, limit, bk1) <=> RuleKeeps(b, S, limit, bk2)
<1>1. {bk1[c] : c \in {c \in S : c > b}} = {bk2[c] : c \in {c \in S : c > b}}
  OBVIOUS
<1>2. (\A c \in S : bk1[c] = bk1[b] => c <= b) <=> (\A c \in S : bk2[c] = bk2[b] => c <= b)
  OBVIOUS
<1> QED BY <1>1, <1>2 DEF RuleKeeps

LEMMA SurvivesShrinks ==
    ASSUME PolicyTypeOK, NEW S \in SUBSET Taken, NEW T \in SUBSET S, NEW b \in T, Survives(b, S)
    PROVE  Survives(b, T)
<1>1. policy.daily \in Nat /\ policy.weekly \in Nat /\ policy.monthly \in Nat
  BY PolicyAssumption DEF PolicyTypeOK
<1>2. Len(created) \in Nat /\ S \in SUBSET (1 .. Len(created))
  BY DEF PolicyTypeOK, Taken
<1>3. /\ RuleKeeps(b, S, policy.daily, Day) => RuleKeeps(b, T, policy.daily, Day)
      /\ RuleKeeps(b, S, policy.weekly, Week) => RuleKeeps(b, T, policy.weekly, Week)
      /\ RuleKeeps(b, S, policy.monthly, Month) => RuleKeeps(b, T, policy.monthly, Month)
  BY <1>1, <1>2, RuleShrinks
<1>4. (\A c \in S : c <= b) => (\A c \in T : c <= b)
  OBVIOUS
<1> QED BY <1>3, <1>4 DEF Survives

\* Every backup of the whole history that the rules keep today is still there.
KeptStored == \A b \in Taken : Survives(b, Taken) => b \in remaining

\* A backup that the rules do not keep today they do not keep tomorrow, and not
\* after another backup.
LEMMA SurvivalIsLost ==
    ASSUME PolicyTypeOK, PolicyTypeOK', Pass \/ Take, NEW b \in Taken, Survives(b, Taken)'
    PROVE  Survives(b, Taken)
<1>1. policy' = policy /\ policy.daily \in Nat /\ policy.weekly \in Nat /\ policy.monthly \in Nat
  BY PolicyAssumption DEF PolicyTypeOK, Pass, Take
<1>2. /\ Len(created') \in Nat /\ Len(created) \in Nat
      /\ Taken = 1 .. Len(created) /\ Taken' = 1 .. Len(created') /\ Taken \in SUBSET Taken'
      /\ \A c \in Taken : created'[c] = created[c]
  BY DEF PolicyTypeOK, Pass, Take, Taken
<1>3. /\ \A c \in Taken : Day'[c] = Day[c]
      /\ \A c \in Taken : Week'[c] = Week[c]
      /\ \A c \in Taken : Month'[c] = Month[c]
  <2>1. \A c \in Taken : Day'[c] = Day[c]
    BY <1>2 DEF Day
  <2> QED BY <1>2, <2>1 DEF Week, Month
<1>4. ASSUME NEW limit \in Nat, NEW bk1, NEW bk2, \A c \in Taken : bk1[c] = bk2[c],
             RuleKeeps(b, Taken', limit, bk1)
      PROVE  RuleKeeps(b, Taken, limit, bk2)
  <2>1. RuleKeeps(b, Taken, limit, bk1)
    BY <1>2, <1>4, RuleShrinks
  <2> QED BY <1>4, <2>1, RuleReadsOwnBuckets
<1>5. /\ RuleKeeps(b, Taken', policy.daily, Day') => RuleKeeps(b, Taken, policy.daily, Day)
      /\ RuleKeeps(b, Taken', policy.weekly, Week') => RuleKeeps(b, Taken, policy.weekly, Week)
      /\ RuleKeeps(b, Taken', policy.monthly, Month') => RuleKeeps(b, Taken, policy.monthly, Month)
  BY <1>1, <1>3, <1>4
<1>6. Young(b)' => Young(b)
  <2>1. /\ created'[b] = created[b] /\ created[b] \in Int /\ now \in Int /\ now' \in Int /\ now <= now'
    <3>1. created[b] \in 0 .. Horizon /\ Horizon \in Nat
      BY CalendarAssumption DEF PolicyTypeOK, Taken
    <3>2. now \in Int /\ now <= now' /\ now' \in Int
      BY CalendarAssumption DEF PolicyTypeOK, Pass, Take
    <3> QED BY <1>2, <3>1, <3>2
  <2>2. policy.days * TicksPerDay \in Int
    BY <1>1, PolicyAssumption, CalendarAssumption DEF PolicyTypeOK
  <2> DEFINE span == policy.days * TicksPerDay
  <2>3. created[b] >= now' - span => created[b] >= now - span
    <3> HIDE DEF span
    <3>1. span \in Int
      BY <2>2 DEF span
    <3> QED BY <2>1, <3>1
  <2> QED BY <1>1, <2>1, <2>3 DEF Young
<1>7. (NoPolicy)' => NoPolicy
  BY <1>1 DEF NoPolicy
<1>8. (\A c \in Taken' : c <= b) => (\A c \in Taken : c <= b)
  BY <1>2
<1> QED BY <1>1, <1>5, <1>6, <1>7, <1>8 DEF Survives

THEOREM KeptStoredAlways == PolicySpec => []KeptStored
<1>1. PolicyInit => KeptStored
  BY DEF PolicyInit, KeptStored, Taken
<1>2. PolicyTypeOK /\ PolicyTypeOK' /\ KeptStored /\ [PolicyNext]_policyVars => KeptStored'
  <2> SUFFICES ASSUME PolicyTypeOK, PolicyTypeOK', KeptStored, [PolicyNext]_policyVars PROVE KeptStored'
    OBVIOUS
  <2>1. CASE Pass
    <3>1. Taken' = Taken /\ remaining' = remaining
      BY <2>1 DEF Pass, Taken
    <3> QED BY <2>1, <3>1, SurvivalIsLost DEF KeptStored
  <2>2. CASE Take
    <3>1. Taken' = Taken \cup {Len(created) + 1} /\ remaining' = remaining \cup {Len(created) + 1}
      BY <2>2 DEF Take, Taken, PolicyTypeOK
    <3> QED BY <2>2, <3>1, SurvivalIsLost DEF KeptStored
  <2>3. CASE ApplyRetention
    <3>1. /\ now' = now /\ created' = created /\ policy' = policy
          /\ remaining' = remaining \ ToDelete(remaining)
      BY <2>3 DEF ApplyRetention
    <3>2. Taken' = Taken
      BY <3>1 DEF Taken
    <3>3. ASSUME NEW b \in Taken, Survives(b, Taken)' PROVE b \in remaining'
      <4>1. Survives(b, Taken)
        BY <3>1, <3>2, <3>3 DEF Survives, NoPolicy, Young, Month, Week, Day
      <4>2. b \in remaining /\ remaining \in SUBSET Taken
        BY <4>1 DEF KeptStored, PolicyTypeOK
      <4>3. Survives(b, remaining)
        BY <4>1, <4>2, SurvivesShrinks
      <4> QED BY <3>1, <4>2, <4>3, KeepsSurvivors
    <3> QED BY <3>2, <3>3 DEF KeptStored
  <2>4. CASE UNCHANGED policyVars
    BY <2>4 DEF policyVars, KeptStored, Taken, Survives, NoPolicy, Young, Month, Week, Day
  <2> QED BY <2>1, <2>2, <2>3, <2>4 DEF PolicyNext
<1> QED BY <1>1, <1>2, TypeCorrect, PTL DEF PolicySpec

\* However often and whenever retention has been applied, what it leaves now is
\* what one application to the whole history would leave: for every calendar and
\* every policy, no application removes a daily, weekly or monthly backup that a
\* later one counts on.
THEOREM EarlierRunsDoNoHarm == PolicySpec => []EarlierRunsLoseNothing
<1>1. PolicyTypeOK /\ KeptStored => EarlierRunsLoseNothing
  <2> SUFFICES ASSUME PolicyTypeOK, KeptStored PROVE EarlierRunsLoseNothing
    OBVIOUS
  <2>1. remaining \in SUBSET Taken /\ Taken \in SUBSET Taken
    BY DEF PolicyTypeOK
  <2>2. remaining \ ToDelete(remaining) = {b \in remaining : Survives(b, remaining)}
    BY <2>1, KeepsSurvivors
  <2>3. Taken \ ToDelete(Taken) = {b \in Taken : Survives(b, Taken)}
    BY <2>1, KeepsSurvivors
  <2>4. ASSUME NEW b \in Taken, Survives(b, Taken) PROVE b \in remaining /\ Survives(b, remaining)
    <3>1. b \in remaining
      BY <2>4 DEF KeptStored
    <3> QED BY <2>1, <2>4, <3>1, SurvivesShrinks
  <2>5. ASSUME NEW b \in remaining, Survives(b, remaining) PROVE Survives(b, Taken)
    <3>1. /\ policy.daily \in Nat /\ policy.weekly \in Nat /\ policy.monthly \in Nat
          /\ b \in Taken
      BY <2>1, PolicyAssumption DEF PolicyTypeOK
    <3>2. ASSUME NEW c \in Taken,
                 \/ RuleKeeps(c, Taken, policy.daily, Day)
                 \/ RuleKeeps(c, Taken, policy.weekly, Week)
                 \/ RuleKeeps(c, Taken, policy.monthly, Month)
          PROVE  c \in remaining
      BY <3>2 DEF KeptStored, Survives
    <3>3. /\ RuleKeeps(b, remaining, policy.daily, Day) => RuleKeeps(b, Taken, policy.daily, Day)
          /\ RuleKeeps(b, remaining, policy.weekly, Week) => RuleKeeps(b, Taken, policy.weekly, Week)
          /\ RuleKeeps(b, remaining, policy.monthly, Month) => RuleKeeps(b, Taken, policy.monthly, Month)
      BY <2>1, <3>1, <3>2, RuleAgrees
    <3>4. (\A c \in remaining : c <= b) => (\A c \in Taken : c <= b)
      <4>1. Len(created) \in Taken /\ \A c \in Taken : c <= Len(created)
        BY <3>1 DEF Taken, PolicyTypeOK
      <4>2. Len(created) \in remaining
        BY <4>1 DEF KeptStored, Survives
      <4>3. Len(created) \in Int /\ b \in Int /\ \A c \in Taken : c \in Int
        BY <3>1 DEF Taken, PolicyTypeOK
      <4> QED BY <4>1, <4>2, <4>3
    <3> QED BY <2>5, <3>3, <3>4 DEF Survives
  <2>6. {b \in remaining : Survives(b, remaining)} = {b \in Taken : Survives(b, Taken)}
    BY <2>1, <2>4, <2>5
  <2> QED BY <2>2, <2>3, <2>6 DEF EarlierRunsLoseNothing
<1> QED BY <1>1, TypeCorrect, KeptStoredAlways, PTL

=============================================================================
