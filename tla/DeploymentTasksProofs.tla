------------------------ MODULE DeploymentTasksProofs ------------------------
(***************************************************************************)
(* Proofs about DeploymentTasks for any set of callers, tasks, resources   *)
(* and requests and any number of download slots.  The dispatch loop works *)
(* on a list with two recursive functions (Without, FailedUpTo); what they *)
(* compute is proved by the least counterexample, a consequence of the     *)
(* well-foundedness of < on the naturals.                                  *)
(***************************************************************************)
EXTENDS DeploymentTasks, FiniteSetTheorems, SequenceTheorems, WellFoundedInduction, TLAPS

-----------------------------------------------------------------------------
(* Recursion over the naturals.                                            *)

\* Every set of naturals has a least element.
LEMMA LeastNatural ==
    ASSUME NEW T \in SUBSET Nat, T # {}
    PROVE  \E x \in T : \A y \in T : x <= y
  <1> DEFINE R == OpToRel(<, Nat)
  <1>1. IsWellFoundedOn(R, Nat)
    BY NatLessThanWellFounded
  <1>2. PICK x \in T : \A y \in T : <<y, x>> \notin R
    <2> HIDE DEF R
    <2> QED BY <1>1, WFMin
  <1>3. \A y \in T : ~(y < x)
    BY <1>2 DEF OpToRel
  <1> QED BY <1>3

\* Induction on 0 .. n: a set that holds 0 and grows by one holds all of it.
LEMMA IndexInduction ==
    ASSUME NEW n \in Nat, NEW T, 0 \in T, \A i \in 1 .. n : i - 1 \in T => i \in T
    PROVE  \A i \in 0 .. n : i \in T
  <1> DEFINE Rest == {i \in 0 .. n : i \notin T}
  <1> SUFFICES ASSUME Rest # {} PROVE FALSE
    OBVIOUS
  <1>1. PICK m \in Rest : \A k \in Rest : m <= k
    <2> Rest \in SUBSET Nat
      OBVIOUS
    <2> HIDE DEF Rest
    <2> QED BY LeastNatural
  <1>2. m \in 1 .. n /\ m \notin T /\ m - 1 \in 0 .. n /\ ~(m <= m - 1)
    OBVIOUS
  <1>3. m - 1 \notin Rest
    <2> HIDE DEF Rest
    <2> QED BY <1>1, <1>2
  <1> QED BY <1>2, <1>3

\* Some function f with f[0] = a goes on by f[i] = step[i][f[i - 1]] up to n.
Recursion(n, V, a, step) ==
    \E f \in [0 .. n -> V] : f[0] = a /\ \A i \in 1 .. n : f[i] = step[i][f[i - 1]]

\* A function that is defined by recursion on 0 .. n exists.
LEMMA RecursionExists ==
    ASSUME NEW n \in Nat, NEW V, NEW a \in V, NEW step \in [1 .. n -> [V -> V]]
    PROVE  Recursion(n, V, a, step)
  <1> DEFINE Good(m, f) == f[0] = a /\ \A i \in 1 .. m : f[i] = step[i][f[i - 1]]
             T == {m \in 0 .. n : \E f \in [0 .. m -> V] : Good(m, f)}
  <1>1. 0 \in T
    <2> DEFINE f == [i \in 0 .. 0 |-> a]
    <2>1. f \in [0 .. 0 -> V] /\ Good(0, f)
      OBVIOUS
    <2>2. \E h \in [0 .. 0 -> V] : Good(0, h)
      <3> HIDE DEF f, Good
      <3> QED BY <2>1
    <2> QED BY <2>2
  <1>2. ASSUME NEW m \in 1 .. n, m - 1 \in T
        PROVE  m \in T
    <2>1. PICK g \in [0 .. (m - 1) -> V] : Good(m - 1, g)
      BY <1>2
    <2> DEFINE f == [i \in 0 .. m |-> IF i = m THEN step[m][g[m - 1]] ELSE g[i]]
    <2>2. g[m - 1] \in V /\ step[m][g[m - 1]] \in V
      OBVIOUS
    <2>3. f \in [0 .. m -> V] /\ f[0] = a
      BY <2>1, <2>2
    <2>4. ASSUME NEW i \in 1 .. m PROVE f[i] = step[i][f[i - 1]]
      <3>1. f[i - 1] = g[i - 1]
        OBVIOUS
      <3>2. CASE i = m
        <4>1. f[m] = step[m][g[m - 1]]
          OBVIOUS
        <4> QED BY <4>1, <3>1, <3>2
      <3>3. CASE i # m
        <4>1. i \in 1 .. (m - 1) /\ f[i] = g[i]
          BY <3>3
        <4> QED BY <4>1, <3>1, <2>1
      <3> QED BY <3>2, <3>3
    <2>5. m \in 0 .. n
      OBVIOUS
    <2> QED BY <2>3, <2>4, <2>5
  <1>3. \A i \in 0 .. n : i \in T
    <2> HIDE DEF T
    <2> QED BY <1>1, <1>2, IndexInduction
  <1> QED BY <1>3 DEF Recursion

\* What every value of a recursively defined function belongs to.
LEMMA RecursionTyped ==
    ASSUME NEW n \in Nat, NEW V, NEW f, f[0] \in V,
           \A i \in 1 .. n : f[i - 1] \in V => f[i] \in V
    PROVE  \A i \in 0 .. n : f[i] \in V
  <1> DEFINE T == {i \in 0 .. n : f[i] \in V}
  <1>1. 0 \in T /\ \A i \in 1 .. n : i - 1 \in T => i \in T
    OBVIOUS
  <1>2. \A i \in 0 .. n : i \in T
    <2> HIDE DEF T
    <2> QED BY <1>1, IndexInduction
  <1> QED BY <1>2

-----------------------------------------------------------------------------
(* Without: the list without some tasks.                                   *)

\* How a list w that holds what is not in ts of the first n elements of q lies
\* in q: place says where each of its elements comes from.
Embeds(place, w, q, n, ts) ==
    /\ place \in [1 .. Len(w) -> 1 .. n]
    /\ \A k \in 1 .. Len(w) : w[k] = q[place[k]] /\ w[k] \notin ts
    /\ \A k, l \in 1 .. Len(w) : k < l => place[k] < place[l]

Covers(w, q, n, ts) ==
    \A j \in 1 .. n : q[j] \notin ts => \E k \in 1 .. Len(w) : w[k] = q[j]

\* The lists that Without(q, ts) passes through.
Passes(kept, q, ts) ==
    /\ kept[0] = <<>>
    /\ \A i \in 1 .. Len(q) :
         kept[i] = IF q[i] \in ts THEN kept[i - 1] ELSE Append(kept[i - 1], q[i])

WithoutIsComputed(q, ts, S) ==
    \E kept \in [0 .. Len(q) -> Seq(S)] : Passes(kept, q, ts) /\ Without(q, ts) = kept[Len(q)]

LEMMA WithoutEquation ==
    ASSUME NEW S, NEW q \in Seq(S), NEW ts
    PROVE  WithoutIsComputed(q, ts, S)
  <1> DEFINE Body(f) == [i \in 0 .. Len(q) |->
                           IF i = 0 THEN <<>>
                           ELSE IF q[i] \in ts THEN f[i - 1] ELSE Append(f[i - 1], q[i])]
             kept == CHOOSE f : f = Body(f)
             step == [i \in 1 .. Len(q) |-> [w \in Seq(S) |->
                        IF q[i] \in ts THEN w ELSE Append(w, q[i])]]
  <1>1. Without(q, ts) = kept[Len(q)]
    BY DEF Without
  <1>2. Len(q) \in Nat /\ <<>> \in Seq(S) /\ \A i \in 1 .. Len(q) : q[i] \in S
    BY LenProperties, ElementOfSeq, EmptySeq
  <1>3. step \in [1 .. Len(q) -> [Seq(S) -> Seq(S)]]
    <2>1. ASSUME NEW i \in 1 .. Len(q), NEW w \in Seq(S)
          PROVE  (IF q[i] \in ts THEN w ELSE Append(w, q[i])) \in Seq(S)
      BY <1>2, AppendProperties
    <2> QED BY <2>1
  <1>4. PICK f \in [0 .. Len(q) -> Seq(S)] :
             f[0] = <<>> /\ \A i \in 1 .. Len(q) : f[i] = step[i][f[i - 1]]
    <2>1. Recursion(Len(q), Seq(S), <<>>, step)
      <3> HIDE DEF step
      <3> QED BY <1>2, <1>3, RecursionExists
    <2> HIDE DEF step
    <2> QED BY <2>1 DEF Recursion
  <1>5. ASSUME NEW i \in 1 .. Len(q)
        PROVE  f[i] = IF q[i] \in ts THEN f[i - 1] ELSE Append(f[i - 1], q[i])
    <2>1. i - 1 \in 0 .. Len(q)
      BY <1>2
    <2>2. step[i][f[i - 1]] = IF q[i] \in ts THEN f[i - 1] ELSE Append(f[i - 1], q[i])
      BY <2>1
    <2> QED BY <2>2, <1>4
  <1>6. f = Body(f)
    <2>1. ASSUME NEW i \in 0 .. Len(q) PROVE f[i] = Body(f)[i]
      <3> HIDE DEF step
      <3>1. i = 0 \/ i \in 1 .. Len(q)
        BY <1>2
      <3> QED BY <3>1, <1>4, <1>5
    <2> HIDE DEF step
    <2>2. Body(f) = [i \in 0 .. Len(q) |-> Body(f)[i]] /\ f = [i \in 0 .. Len(q) |-> f[i]]
      OBVIOUS
    <2> QED BY <2>1, <2>2
  <1>7. kept = Body(kept)
    <2> HIDE DEF Body
    <2> QED BY <1>6
  <1>8. kept[0] = <<>> /\ DOMAIN kept = 0 .. Len(q) /\ kept = [i \in 0 .. Len(q) |-> kept[i]]
    <2> HIDE DEF kept
    <2> QED BY <1>2, <1>7
  <1>9. ASSUME NEW i \in 1 .. Len(q)
        PROVE  kept[i] = IF q[i] \in ts THEN kept[i - 1] ELSE Append(kept[i - 1], q[i])
    <2> HIDE DEF kept
    <2>1. i \in 0 .. Len(q) /\ i # 0
      BY <1>2
    <2> QED BY <1>7, <2>1
  <1>10. \A i \in 0 .. Len(q) : kept[i] \in Seq(S)
    <2> HIDE DEF kept
    <2>1. kept[0] \in Seq(S)
      BY <1>2, <1>8
    <2>2. ASSUME NEW i \in 1 .. Len(q), kept[i - 1] \in Seq(S) PROVE kept[i] \in Seq(S)
      <3> HIDE DEF kept
      <3>1. kept[i] = kept[i - 1] \/ kept[i] = Append(kept[i - 1], q[i])
        BY <1>9
      <3>2. Append(kept[i - 1], q[i]) \in Seq(S)
        BY <2>2, <1>2, AppendProperties
      <3> QED BY <2>2, <3>1, <3>2
    <2> QED BY <2>1, <2>2, <1>2, RecursionTyped
  <1>11. kept \in [0 .. Len(q) -> Seq(S)]
    <2> HIDE DEF kept
    <2> QED BY <1>8, <1>10
  <1> HIDE DEF kept
  <1> QED BY <1>1, <1>8, <1>9, <1>11 DEF WithoutIsComputed, Passes

\* One more element of the list is looked at.
LEMMA EmbedsNext ==
    ASSUME NEW S, NEW q \in Seq(S), NEW ts, NEW i \in 1 .. Len(q), NEW w \in Seq(S),
           NEW place, Embeds(place, w, q, i - 1, ts), Covers(w, q, i - 1, ts),
           NEW w1, w1 = IF q[i] \in ts THEN w ELSE Append(w, q[i])
    PROVE  (\E place1 : Embeds(place1, w1, q, i, ts)) /\ Covers(w1, q, i, ts)
  <1>1. Len(q) \in Nat /\ Len(w) \in Nat /\ q[i] \in S
    BY LenProperties, ElementOfSeq
  <1>2. CASE q[i] \in ts
    <2>1. w1 = w
      BY <1>2
    <2>2. Embeds(place, w1, q, i, ts)
      BY <2>1, <1>1 DEF Embeds
    <2>3. Covers(w1, q, i, ts)
      <3>1. ASSUME NEW j \in 1 .. i, q[j] \notin ts PROVE \E k \in 1 .. Len(w) : w[k] = q[j]
        <4>1. j \in 1 .. (i - 1)
          BY <1>1, <1>2, <3>1
        <4> QED BY <4>1, <3>1 DEF Covers
      <3> QED BY <2>1, <3>1 DEF Covers
    <2> QED BY <2>2, <2>3
  <1>3. CASE q[i] \notin ts
    <2> DEFINE last == Len(w) + 1
    <2>1. /\ Len(w1) = last /\ w1[last] = q[i]
          /\ \A k \in 1 .. Len(w) : w1[k] = w[k]
      BY <1>1, <1>3, AppendProperties
    <2> DEFINE place1 == [k \in 1 .. last |-> IF k = last THEN i ELSE place[k]]
    <2>2. /\ \A k \in 1 .. Len(w) : /\ k \in 1 .. last /\ k < last
                                    /\ place1[k] = place[k] /\ place[k] \in 1 .. (i - 1)
          /\ last \in 1 .. last /\ place1[last] = i
          /\ \A k \in 1 .. last : k = last \/ k \in 1 .. Len(w)
      BY <1>1 DEF Embeds
    <2>3. Embeds(place1, w1, q, i, ts)
      <3>1. place1 \in [1 .. Len(w1) -> 1 .. i]
        <4>1. ASSUME NEW k \in 1 .. last PROVE (IF k = last THEN i ELSE place[k]) \in 1 .. i
          <5>1. k = last \/ (k # last /\ place[k] \in 1 .. (i - 1))
            BY <2>2
          <5>2. i \in 1 .. i /\ \A x \in 1 .. (i - 1) : x \in 1 .. i
            BY <1>1
          <5> HIDE DEF place1, last
          <5> QED BY <5>1, <5>2
        <4>2. place1 \in [1 .. last -> 1 .. i]
          BY <4>1
        <4> QED BY <4>2, <2>1
      <3> HIDE DEF place1
      <3>2. ASSUME NEW k \in 1 .. last PROVE w1[k] = q[place1[k]] /\ w1[k] \notin ts
        <4>1. CASE k = last
          BY <4>1, <2>1, <2>2, <1>3
        <4>2. CASE k \in 1 .. Len(w)
          BY <4>2, <2>1, <2>2 DEF Embeds
        <4> QED BY <4>1, <4>2, <2>2
      <3>3. ASSUME NEW k \in 1 .. last, NEW l \in 1 .. last, k < l
            PROVE  place1[k] < place1[l]
        <4>1. k \in 1 .. Len(w)
          BY <3>3, <1>1
        <4>2. CASE l = last
          BY <4>1, <4>2, <2>2
        <4>3. CASE l \in 1 .. Len(w)
          BY <4>1, <4>3, <3>3, <2>2 DEF Embeds
        <4> QED BY <4>2, <4>3, <2>2
      <3> QED BY <3>1, <3>2, <3>3, <2>1 DEF Embeds
    <2>4. Covers(w1, q, i, ts)
      <3>1. ASSUME NEW j \in 1 .. i, q[j] \notin ts
            PROVE  \E k \in 1 .. last : w1[k] = q[j]
        <4>1. CASE j = i
          BY <4>1, <2>1, <2>2
        <4>2. CASE j # i
          <5>1. j \in 1 .. (i - 1)
            BY <4>2
          <5>2. PICK k \in 1 .. Len(w) : w[k] = q[j]
            BY <5>1, <3>1 DEF Covers
          <5> QED BY <5>2, <2>1, <2>2
        <4> QED BY <4>1, <4>2
      <3> QED BY <3>1, <2>1 DEF Covers
    <2> QED BY <2>3, <2>4
  <1> QED BY <1>2, <1>3

\* Without leaves a list of the elements outside ts, all of them, in their order.
LEMMA WithoutKeepsOrder ==
    ASSUME NEW S, NEW q \in Seq(S), NEW ts
    PROVE  /\ Without(q, ts) \in Seq(S)
           /\ \E place : Embeds(place, Without(q, ts), q, Len(q), ts)
           /\ Covers(Without(q, ts), q, Len(q), ts)
  <1>1. PICK kept \in [0 .. Len(q) -> Seq(S)] :
          Passes(kept, q, ts) /\ Without(q, ts) = kept[Len(q)]
    <2>1. WithoutIsComputed(q, ts, S)
      BY WithoutEquation
    <2> QED BY <2>1 DEF WithoutIsComputed
  <1>2. Len(q) \in Nat
    BY LenProperties
  <1> DEFINE T == {i \in 0 .. Len(q) : /\ \E place : Embeds(place, kept[i], q, i, ts)
                                       /\ Covers(kept[i], q, i, ts)}
  <1>3. 0 \in T
    <2>1. Len(<<>>) = 0
      BY EmptySeq
    <2>2. Embeds(<<>>, <<>>, q, 0, ts) /\ Covers(<<>>, q, 0, ts)
      BY <2>1 DEF Embeds, Covers
    <2> QED BY <2>2, <1>1, <1>2 DEF Passes
  <1>4. ASSUME NEW i \in 1 .. Len(q), i - 1 \in T PROVE i \in T
    <2>1. i - 1 \in 0 .. Len(q) /\ i \in 0 .. Len(q)
      BY <1>2
    <2>2. kept[i - 1] \in Seq(S)
      BY <2>1
    <2>3. PICK place : Embeds(place, kept[i - 1], q, i - 1, ts)
      BY <1>4
    <2>4. Covers(kept[i - 1], q, i - 1, ts)
      BY <1>4
    <2>5. (\E place1 : Embeds(place1, kept[i], q, i, ts)) /\ Covers(kept[i], q, i, ts)
      BY <1>1, <2>2, <2>3, <2>4, EmbedsNext DEF Passes
    <2> QED BY <2>1, <2>5
  <1>5. \A i \in 0 .. Len(q) : i \in T
    <2> HIDE DEF T
    <2> QED BY <1>2, <1>3, <1>4, IndexInduction
  <1>6. Len(q) \in T
    <2> HIDE DEF T
    <2> QED BY <1>2, <1>5
  <1> QED BY <1>1, <1>2, <1>6

Holds(q, t) == \E i \in 1 .. Len(q) : q[i] = t

\* The elements of a list without ts are its elements outside ts.
LEMMA WithoutElements ==
    ASSUME NEW S, NEW q \in Seq(S), NEW ts, NEW t
    PROVE  Holds(Without(q, ts), t) <=> Holds(q, t) /\ t \notin ts
  <1>1. PICK place : Embeds(place, Without(q, ts), q, Len(q), ts)
    BY WithoutKeepsOrder
  <1>2. Covers(Without(q, ts), q, Len(q), ts)
    BY WithoutKeepsOrder
  <1> QED BY SMTT(30), <1>1, <1>2 DEF Embeds, Covers, Holds

\* No element of the list waits for what stands behind it, or for itself.
Ordered(q, deps) == \A i, j \in 1 .. Len(q) : i <= j => q[j] \notin deps[q[i]]

LEMMA WithoutStaysOrdered ==
    ASSUME NEW S, NEW q \in Seq(S), NEW ts, NEW deps, Ordered(q, deps)
    PROVE  Ordered(Without(q, ts), deps)
  <1> DEFINE w == Without(q, ts)
  <1>1. PICK place : Embeds(place, w, q, Len(q), ts)
    BY WithoutKeepsOrder
  <1>2. w \in Seq(S) /\ Len(w) \in Nat /\ Len(q) \in Nat
    BY WithoutKeepsOrder, LenProperties
  <1>3. ASSUME NEW i \in 1 .. Len(w), NEW j \in 1 .. Len(w), i <= j
        PROVE  w[j] \notin deps[w[i]]
    <2>1. place[i] \in 1 .. Len(q) /\ place[j] \in 1 .. Len(q) /\ w[i] = q[place[i]] /\ w[j] = q[place[j]]
      BY <1>1 DEF Embeds
    <2>2. place[i] <= place[j]
      <3>1. CASE i = j
        BY <3>1, <2>1, <1>2
      <3>2. CASE i < j
        <4>1. place[i] < place[j]
          BY <3>2, <1>1 DEF Embeds
        <4> QED BY <4>1, <2>1, <1>2
      <3> QED BY <3>1, <3>2, <1>3, <1>2
    <2> QED BY <2>1, <2>2 DEF Ordered
  <1> QED BY <1>3 DEF Ordered

-----------------------------------------------------------------------------
(* FailedUpTo: the pass that fails tasks with failed dependencies.         *)

\* One step of the pass, as the definition of FailedUpTo says it.
FailedStep(failed, i) ==
    failed[i] = failed[i - 1] \cup
                (IF DependencyFails(pending[i], failed[i - 1]) THEN {pending[i]} ELSE {})

LEMMA FailedUpToEquation ==
    ASSUME pending \in Seq(Tasks)
    PROVE  /\ FailedUpTo[0] = {}
           /\ \A i \in 1 .. Len(pending) : FailedStep(FailedUpTo, i)
           /\ \A i \in 0 .. Len(pending) : FailedUpTo[i] \in SUBSET Tasks
  <1> DEFINE n == Len(pending)
             Body(f) == [i \in 0 .. n |->
                           IF i = 0 THEN {}
                           ELSE f[i - 1] \cup
                                (IF DependencyFails(pending[i], f[i - 1]) THEN {pending[i]} ELSE {})]
             step == [i \in 1 .. n |-> [w \in SUBSET Tasks |->
                        w \cup (IF DependencyFails(pending[i], w) THEN {pending[i]} ELSE {})]]
  <1>1. n \in Nat /\ {} \in SUBSET Tasks /\ \A i \in 1 .. n : pending[i] \in Tasks
    BY LenProperties, ElementOfSeq
  <1>2. FailedUpTo = CHOOSE f : f = Body(f)
    BY DEF FailedUpTo
  <1>3. step \in [1 .. n -> [SUBSET Tasks -> SUBSET Tasks]]
    BY <1>1
  <1>4. PICK f \in [0 .. n -> SUBSET Tasks] :
             f[0] = {} /\ \A i \in 1 .. n : f[i] = step[i][f[i - 1]]
    <2> HIDE DEF step, n
    <2>1. Recursion(n, SUBSET Tasks, {}, step)
      BY <1>1, <1>3, RecursionExists
    <2> QED BY <2>1 DEF Recursion
  <1>5. ASSUME NEW i \in 1 .. n PROVE FailedStep(f, i)
    <2>1. f[i - 1] \in SUBSET Tasks
      BY <1>1
    <2>2. step[i][f[i - 1]] = f[i - 1] \cup
             (IF DependencyFails(pending[i], f[i - 1]) THEN {pending[i]} ELSE {})
      BY <2>1
    <2> HIDE DEF step
    <2> QED BY <2>2, <1>4 DEF FailedStep
  <1>6. f = Body(f)
    <2> HIDE DEF step
    <2>1. ASSUME NEW i \in 0 .. n PROVE f[i] = Body(f)[i]
      <3>1. i = 0 \/ i \in 1 .. n
        BY <1>1
      <3> QED BY <3>1, <1>4, <1>5 DEF FailedStep
    <2>2. Body(f) = [i \in 0 .. n |-> Body(f)[i]] /\ f = [i \in 0 .. n |-> f[i]]
      OBVIOUS
    <2> QED BY <2>1, <2>2
  <1>7. FailedUpTo = Body(FailedUpTo)
    <2> HIDE DEF Body
    <2> QED BY <1>2, <1>6
  <1>8. FailedUpTo[0] = {}
    BY <1>1, <1>7
  <1>9. ASSUME NEW i \in 1 .. n PROVE FailedStep(FailedUpTo, i)
    <2>1. i \in 0 .. n /\ i # 0
      BY <1>1
    <2> QED BY <1>7, <2>1 DEF FailedStep
  <1>10. \A i \in 0 .. n : FailedUpTo[i] \in SUBSET Tasks
    <2>1. FailedUpTo[0] \in SUBSET Tasks
      BY <1>8
    <2>2. ASSUME NEW i \in 1 .. n, FailedUpTo[i - 1] \in SUBSET Tasks
          PROVE  FailedUpTo[i] \in SUBSET Tasks
      BY <2>2, <1>1, <1>9 DEF FailedStep
    <2> HIDE DEF n
    <2> QED BY <2>1, <2>2, <1>1, RecursionTyped
  <1> QED BY <1>8, <1>9, <1>10

\* The pass only adds, and from position m on only what stands behind m.
LEMMA FailedUpToGrows ==
    ASSUME pending \in Seq(Tasks), NEW m \in 0 .. Len(pending), NEW n \in m .. Len(pending)
    PROVE  /\ FailedUpTo[m] \subseteq FailedUpTo[n]
           /\ \A t \in FailedUpTo[n] : t \in FailedUpTo[m] \/ \E j \in (m + 1) .. n : t = pending[j]
  <1> DEFINE Grown(k) == /\ FailedUpTo[m] \subseteq FailedUpTo[k]
                         /\ \A t \in FailedUpTo[k] :
                              t \in FailedUpTo[m] \/ \E j \in (m + 1) .. k : t = pending[j]
             T == {k \in 0 .. Len(pending) : k >= m => Grown(k)}
  <1>1. Len(pending) \in Nat
    BY LenProperties
  <1>2. Grown(m)
    OBVIOUS
  <1>3. 0 \in T
    <2>1. 0 >= m => m = 0
      OBVIOUS
    <2> HIDE DEF Grown
    <2> QED BY <2>1, <1>1, <1>2
  <1>4. ASSUME NEW i \in 1 .. Len(pending), i - 1 \in T PROVE i \in T
    <2>1. i \in 0 .. Len(pending)
      BY <1>1
    <2>2. CASE i = m
      <3> HIDE DEF Grown
      <3> QED BY <1>2, <2>1, <2>2
    <2>3. CASE i < m
      BY <2>1, <2>3
    <2>4. CASE i > m
      <3>1. Grown(i - 1)
        <4>1. i - 1 >= m
          BY <2>4
        <4> HIDE DEF Grown
        <4> QED BY <4>1, <1>4
      <3>2. FailedStep(FailedUpTo, i)
        BY FailedUpToEquation
      <3>3. /\ FailedUpTo[i - 1] \subseteq FailedUpTo[i]
            /\ \A t \in FailedUpTo[i] : t \in FailedUpTo[i - 1] \/ t = pending[i]
        BY <3>2 DEF FailedStep
      <3>4. i \in (m + 1) .. i /\ \A j \in (m + 1) .. (i - 1) : j \in (m + 1) .. i
        BY <2>4
      <3>5. Grown(i)
        BY <3>1, <3>3, <3>4
      <3> HIDE DEF Grown
      <3> QED BY <2>1, <3>5
    <2> QED BY <2>2, <2>3, <2>4
  <1>5. \A k \in 0 .. Len(pending) : k \in T
    <2> HIDE DEF T
    <2> QED BY <1>1, <1>3, <1>4, IndexInduction
  <1>6. n \in T /\ n >= m
    <2> HIDE DEF T
    <2> QED BY <1>1, <1>5
  <1> QED BY <1>6

\* Only queued tasks fail in the pass, and whoever stays waits for nothing that
\* had failed or was gone before the pass reached it.
LEMMA FailedByDependencyFacts ==
    ASSUME pending \in Seq(Tasks)
    PROVE  /\ FailedByDependency \in SUBSET Tasks
           /\ \A t \in FailedByDependency : \E j \in 1 .. Len(pending) : t = pending[j]
           /\ \A i \in 1 .. Len(pending) : pending[i] \notin FailedByDependency =>
                \A d \in depends_on[pending[i]] :
                  /\ status[d] \notin {"new", "removed", "failed", "cancelled"}
                  /\ d \in FailedByDependency => \E j \in i .. Len(pending) : d = pending[j]
  <1> DEFINE n == Len(pending)
  <1>1. n \in Nat /\ 0 \in 0 .. n /\ n \in 0 .. n
    BY LenProperties
  <1>2. FailedByDependency = FailedUpTo[n] /\ FailedUpTo[n] \in SUBSET Tasks
    BY <1>1, FailedUpToEquation DEF FailedByDependency
  <1>3. \A t \in FailedUpTo[n] : \E j \in 1 .. n : t = pending[j]
    <2>1. FailedUpTo[0] = {}
      BY FailedUpToEquation
    <2>2. \A t \in FailedUpTo[n] : t \in FailedUpTo[0] \/ \E j \in (0 + 1) .. n : t = pending[j]
      BY <1>1, FailedUpToGrows
    <2> QED BY <2>1, <2>2
  <1>4. ASSUME NEW i \in 1 .. n, pending[i] \notin FailedUpTo[n], NEW d \in depends_on[pending[i]]
        PROVE  /\ status[d] \notin {"new", "removed", "failed", "cancelled"}
               /\ d \in FailedUpTo[n] => \E j \in i .. n : d = pending[j]
    <2>1. i - 1 \in 0 .. n /\ i \in 0 .. n /\ n \in (i - 1) .. n /\ n \in i .. n /\ i - 1 + 1 = i
      BY <1>1
    <2>2. FailedStep(FailedUpTo, i) /\ FailedUpTo[i] \subseteq FailedUpTo[n]
      BY <2>1, FailedUpToEquation, FailedUpToGrows
    <2>3. ~DependencyFails(pending[i], FailedUpTo[i - 1])
      BY <1>4, <2>2 DEF FailedStep
    <2>4. d \notin FailedUpTo[i - 1] /\ status[d] \notin {"new", "removed", "failed", "cancelled"}
      BY <1>4, <2>3 DEF DependencyFails
    <2>5. \A t \in FailedUpTo[n] :
             t \in FailedUpTo[i - 1] \/ \E j \in (i - 1 + 1) .. n : t = pending[j]
      BY <2>1, FailedUpToGrows
    <2> QED BY <2>1, <2>4, <2>5
  <1> QED BY <1>2, <1>3, <1>4

-----------------------------------------------------------------------------
(* The inductive invariant.                                                *)

Submitted == {t \in Tasks : status[t] # "new"}

\* Tasks come one by one.
SubmittedIsFinite == IsFiniteSet(Submitted)

\* The list holds exactly the queued tasks.
ListIsQueued == \A t \in Tasks : status[t] = "queued" <=> Holds(pending, t)

\* A task depends on tasks that were submitted before it, ...
DependsOnSubmitted == \A t \in Tasks : depends_on[t] \cap (Tasks \ Submitted) = {}

\* ... so nothing in the list waits for what stands behind it, or for itself.
ListIsOrdered == Ordered(pending, depends_on)

SuccessIsRecorded == \A t \in Tasks : status[t] = "success" => t \in succeeded

\* What a task no longer waits for has succeeded.
DroppedHasSucceeded == \A t \in Submitted : request[t].depends_on \ depends_on[t] \subseteq succeeded

\* The counter may fall behind the running downloads, never run ahead of them.
SlotsAreUsed == slots <= Cardinality(Downloading)

IInv ==
    /\ TypeOK
    /\ SubmittedIsFinite /\ ListIsQueued /\ DependsOnSubmitted /\ ListIsOrdered
    /\ SuccessIsRecorded /\ DroppedHasSucceeded
    /\ OwnersAreRunning /\ SlotsAreCounted /\ SlotsAreUsed

LEMMA RequestFields ==
    ASSUME TypeOK, NEW t \in Tasks
    PROVE  /\ request[t].resources \in SUBSET Exclusive /\ request[t].download \in BOOLEAN
           /\ request[t].depends_on \in SUBSET Tasks
  <1>1. request[t] \in DeploymentTaskRequest
    BY RequestsAssumption DEF TypeOK
  <1> QED BY <1>1 DEF DeploymentTaskRequest

LEMMA PendingFacts ==
    ASSUME TypeOK
    PROVE  /\ pending \in Seq(Tasks) /\ Len(pending) \in Nat
           /\ \A i \in 1 .. Len(pending) : pending[i] \in Tasks
  <1>1. pending \in Seq(Tasks)
    BY DEF TypeOK
  <1> QED BY <1>1, LenProperties, ElementOfSeq

LEMMA DownloadingFacts ==
    ASSUME SubmittedIsFinite
    PROVE  IsFiniteSet(Downloading) /\ Cardinality(Downloading) \in Nat
  <1>1. Downloading \subseteq Submitted
    BY DEF Downloading, Running, Submitted
  <1> QED BY <1>1, FS_Subset, FS_CardinalityType DEF SubmittedIsFinite

\* What release_resources leaves of the counter.
LEMMA SlotsWithoutFacts ==
    ASSUME TypeOK, SubmittedIsFinite, NEW ts \in SUBSET Submitted
    PROVE  SlotsWithout(ts) \in Nat /\ SlotsWithout(ts) <= slots
  <1> DEFINE out == {t \in ts : request[t].download}
  <1>1. Cardinality(out) \in Nat
    BY FS_Subset, FS_CardinalityType DEF SubmittedIsFinite
  <1>2. slots \in Nat
    BY LimitAssumption DEF TypeOK
  <1>3. SlotsWithout(ts) = IF Cardinality(out) > slots THEN 0 ELSE slots - Cardinality(out)
    BY DEF SlotsWithout
  <1> HIDE DEF out
  <1> QED BY <1>1, <1>2, <1>3

LEMMA SlotsWithoutOne ==
    ASSUME TypeOK, NEW t \in Tasks
    PROVE  SlotsWithout({t}) = IF request[t].download /\ slots > 0 THEN slots - 1 ELSE slots
  <1> DEFINE out == {u \in {t} : request[u].download}
  <1>1. slots \in Nat /\ request[t].download \in BOOLEAN
    BY LimitAssumption, RequestFields DEF TypeOK
  <1>2. SlotsWithout({t}) = IF Cardinality(out) > slots THEN 0 ELSE slots - Cardinality(out)
    BY DEF SlotsWithout
  <1>3. CASE request[t].download
    <2>1. out = {t} /\ Cardinality({t}) = 1
      BY <1>3, FS_Singleton
    <2> QED BY <2>1, <1>1, <1>2, <1>3
  <1>4. CASE ~request[t].download
    <2>1. out = {} /\ Cardinality({}) = 0
      BY <1>4, FS_EmptySet
    <2> QED BY <2>1, <1>1, <1>2, <1>4
  <1> QED BY <1>3, <1>4

LEMMA InitIInv == Init => IInv
  <1> SUFFICES ASSUME Init PROVE IInv
    OBVIOUS
  <1> USE DEF Init
  <1>1. TypeOK
    <2>1. pending \in Seq(Tasks)
      BY EmptySeq
    <2>2. slots \in 0 .. MaxDownloads
      BY LimitAssumption
    <2>3. over_released \in BOOLEAN
      OBVIOUS
    <2>4. status \in [Tasks -> Status] /\ request \in Requests
      BY DEF Status
    <2> QED BY <2>1, <2>2, <2>3, <2>4 DEF TypeOK
  <1>2. Submitted = {} /\ Downloading = {} /\ Running = {}
    BY DEF Submitted, Downloading, Running
  <1>3. SubmittedIsFinite /\ SlotsAreCounted /\ SlotsAreUsed
    BY <1>2, FS_EmptySet DEF SubmittedIsFinite, SlotsAreCounted, SlotsAreUsed
  <1>4. ListIsQueued /\ ListIsOrdered
    <2>1. Len(pending) = 0
      BY EmptySeq
    <2> QED BY <2>1 DEF ListIsQueued, ListIsOrdered, Ordered, Holds
  <1>5. DependsOnSubmitted /\ SuccessIsRecorded /\ DroppedHasSucceeded
    BY <1>2 DEF DependsOnSubmitted, SuccessIsRecorded, DroppedHasSucceeded
  <1>6. OwnersAreRunning
    BY <1>2 DEF OwnersAreRunning
  <1> QED BY <1>1, <1>3, <1>4, <1>5, <1>6 DEF IInv

LEMMA SubmitKeepsIInv ==
    ASSUME IInv, NEW c \in Callers, NEW t \in Tasks, Submit(c, t)
    PROVE  IInv'
  <1> USE DEF IInv
  <1>1. pending \in Seq(Tasks) /\ Len(pending) \in Nat /\ \A i \in 1 .. Len(pending) : pending[i] \in Tasks
    BY PendingFacts
  <1>2. /\ pending' \in Seq(Tasks) /\ Len(pending') = Len(pending) + 1
        /\ \A i \in 1 .. Len(pending) : pending'[i] = pending[i]
        /\ pending'[Len(pending) + 1] = t
    BY <1>1, AppendProperties DEF Submit
  <1>3. status' = [status EXCEPT ![t] = "queued"] /\ status[t] = "new"
    BY DEF Submit
  <1>4. depends_on' = [depends_on EXCEPT ![t] = request[t].depends_on]
    BY DEF Submit
  <1>5. /\ UNCHANGED <<request, cancelled, owners, slots, taken, succeeded, over_released>>
        /\ dispatching' = dispatching \cup {c}
    BY DEF Submit, BeginDispatch
  <1>6. request[t].depends_on \in SUBSET Tasks /\ \A d \in request[t].depends_on : status[d] # "new"
    BY RequestFields DEF Submit
  <1>7. status \in [Tasks -> Status] /\ depends_on \in [Tasks -> SUBSET Tasks]
    BY DEF TypeOK
  <1>8. TypeOK'
    <2>1. status' \in [Tasks -> Status] /\ depends_on' \in [Tasks -> SUBSET Tasks]
      BY <1>3, <1>4, <1>6, <1>7 DEF Status
    <2> QED BY <2>1, <1>2, <1>5 DEF TypeOK, Dispatchers
  <1>9. Submitted' = Submitted \cup {t} /\ t \notin Submitted
    BY <1>3, <1>7 DEF Submitted
  <1>10. Running' = Running /\ Downloading' = Downloading
    BY <1>3, <1>5, <1>7 DEF Running, Downloading
  <1>11. SubmittedIsFinite'
    BY <1>9, FS_AddElement DEF SubmittedIsFinite
  <1>12. ListIsQueued'
    <2>1. ASSUME NEW u \in Tasks
          PROVE  status'[u] = "queued" <=> Holds(pending', u)
      <3>1. CASE u = t
        <4>1. Len(pending) + 1 \in 1 .. Len(pending')
          BY <1>1, <1>2
        <4>2. Holds(pending', t)
          BY <4>1, <1>2 DEF Holds
        <4> QED BY <4>2, <3>1, <1>3, <1>7
      <3>2. CASE u # t
        <4>1. 1 .. Len(pending') = (1 .. Len(pending)) \cup {Len(pending) + 1}
          BY <1>1, <1>2
        <4>2. Holds(pending', u) <=> Holds(pending, u)
          BY <4>1, <3>2, <1>2 DEF Holds
        <4> QED BY <4>2, <3>2, <1>3, <1>7 DEF ListIsQueued
      <3> QED BY <3>1, <3>2
    <2> QED BY <2>1 DEF ListIsQueued
  <1>13. DependsOnSubmitted'
    BY <1>4, <1>6, <1>7, <1>9 DEF DependsOnSubmitted, Submitted
  <1>14. ListIsOrdered'
    <2>1. \A u \in Tasks : t \notin depends_on'[u]
      BY <1>3, <1>4, <1>6, <1>7 DEF DependsOnSubmitted, Submitted
    <2>2. ASSUME NEW i \in 1 .. Len(pending'), NEW j \in 1 .. Len(pending'), i <= j
          PROVE  pending'[j] \notin depends_on'[pending'[i]]
      <3>1. pending'[i] \in Tasks
        BY <1>2, ElementOfSeq
      <3>2. CASE j = Len(pending) + 1
        BY <3>1, <3>2, <1>2, <2>1
      <3>3. CASE j # Len(pending) + 1
        <4>1. i \in 1 .. Len(pending) /\ j \in 1 .. Len(pending)
          BY <3>3, <2>2, <1>1, <1>2
        <4>2. pending[i] # t
          BY <4>1, <1>1, <1>3 DEF ListIsQueued, Holds
        <4>3. pending[j] \notin depends_on[pending[i]]
          BY <4>1, <2>2 DEF ListIsOrdered, Ordered
        <4> QED BY <4>1, <4>2, <4>3, <1>1, <1>2, <1>4, <1>7
      <3> QED BY <3>2, <3>3
    <2> QED BY <2>2 DEF ListIsOrdered, Ordered
  <1>15. SuccessIsRecorded'
    BY <1>3, <1>5, <1>7 DEF SuccessIsRecorded
  <1>16. DroppedHasSucceeded'
    BY <1>4, <1>5, <1>7, <1>9 DEF DroppedHasSucceeded, Submitted
  <1>17. OwnersAreRunning' /\ SlotsAreCounted' /\ SlotsAreUsed'
    BY <1>5, <1>10 DEF OwnersAreRunning, SlotsAreCounted, SlotsAreUsed
  <1> QED BY <1>8, <1>11, <1>12, <1>13, <1>14, <1>15, <1>16, <1>17

LEMMA CancelQueuedKeepsIInv ==
    ASSUME IInv, NEW c \in Callers, NEW t \in Tasks, CancelQueued(c, t)
    PROVE  IInv'
  <1> USE DEF IInv
  <1>1. pending \in Seq(Tasks)
    BY PendingFacts
  <1>2. pending' = Without(pending, {t}) /\ pending' \in Seq(Tasks)
    BY <1>1, WithoutKeepsOrder DEF CancelQueued
  <1>3. status' = [status EXCEPT ![t] = "cancelled"] /\ status[t] = "queued"
    BY DEF CancelQueued
  <1>4. /\ UNCHANGED <<request, depends_on, owners, slots, taken, succeeded, over_released>>
        /\ dispatching' = dispatching \cup {c} /\ cancelled' = cancelled \cup {t}
    BY DEF CancelQueued, BeginDispatch
  <1>5. status \in [Tasks -> Status]
    BY DEF TypeOK
  <1>6. TypeOK'
    <2>1. status' \in [Tasks -> Status]
      BY <1>3, <1>5 DEF Status, Terminal
    <2> QED BY <2>1, <1>2, <1>4 DEF TypeOK, Dispatchers
  <1>7. Submitted' = Submitted /\ Running' = Running /\ Downloading' = Downloading
    BY <1>3, <1>4, <1>5 DEF Submitted, Running, Downloading
  <1>8. ListIsQueued'
    <2>1. ASSUME NEW u \in Tasks
          PROVE  status'[u] = "queued" <=> Holds(pending', u)
      <3>1. Holds(pending', u) <=> Holds(pending, u) /\ u \notin {t}
        BY <1>1, <1>2, WithoutElements
      <3> QED BY <3>1, <1>3, <1>5 DEF ListIsQueued
    <2> QED BY <2>1 DEF ListIsQueued
  <1>9. ListIsOrdered'
    BY <1>1, <1>2, <1>4, WithoutStaysOrdered DEF ListIsOrdered
  <1>10. SuccessIsRecorded'
    BY <1>3, <1>4, <1>5 DEF SuccessIsRecorded
  <1>11. SubmittedIsFinite' /\ DependsOnSubmitted' /\ DroppedHasSucceeded'
    BY <1>4, <1>7 DEF SubmittedIsFinite, DependsOnSubmitted, DroppedHasSucceeded
  <1>12. OwnersAreRunning' /\ SlotsAreCounted' /\ SlotsAreUsed'
    BY <1>4, <1>7 DEF OwnersAreRunning, SlotsAreCounted, SlotsAreUsed
  <1> QED BY <1>6, <1>8, <1>9, <1>10, <1>11, <1>12

LEMMA CancelRunningKeepsIInv ==
    ASSUME IInv, NEW t \in Tasks, CancelRunning(t)
    PROVE  IInv'
  <1> USE DEF IInv
  <1>1. /\ UNCHANGED <<request, status, depends_on, pending, owners, slots, taken,
                       dispatching, succeeded, over_released>>
        /\ cancelled' = cancelled \cup {t}
    BY DEF CancelRunning
  <1>2. Submitted' = Submitted /\ Running' = Running /\ Downloading' = Downloading
    BY <1>1 DEF Submitted, Running, Downloading
  <1>3. TypeOK'
    BY <1>1 DEF TypeOK
  <1>4. SubmittedIsFinite' /\ ListIsQueued' /\ DependsOnSubmitted' /\ ListIsOrdered'
    BY <1>1, <1>2 DEF SubmittedIsFinite, ListIsQueued, DependsOnSubmitted, ListIsOrdered
  <1>5. SuccessIsRecorded' /\ DroppedHasSucceeded'
    BY <1>1, <1>2 DEF SuccessIsRecorded, DroppedHasSucceeded
  <1>6. OwnersAreRunning' /\ SlotsAreCounted' /\ SlotsAreUsed'
    BY <1>1, <1>2 DEF OwnersAreRunning, SlotsAreCounted, SlotsAreUsed
  <1> QED BY <1>3, <1>4, <1>5, <1>6

LEMMA StutterKeepsIInv ==
    ASSUME IInv, UNCHANGED vars
    PROVE  IInv'
  <1> USE DEF IInv, vars
  <1>1. Submitted' = Submitted /\ Running' = Running /\ Downloading' = Downloading
    BY DEF Submitted, Running, Downloading
  <1>2. TypeOK'
    BY DEF TypeOK
  <1>3. SubmittedIsFinite' /\ ListIsQueued' /\ DependsOnSubmitted' /\ ListIsOrdered'
    BY <1>1 DEF SubmittedIsFinite, ListIsQueued, DependsOnSubmitted, ListIsOrdered
  <1>4. SuccessIsRecorded' /\ DroppedHasSucceeded'
    BY <1>1 DEF SuccessIsRecorded, DroppedHasSucceeded
  <1>5. OwnersAreRunning' /\ SlotsAreCounted' /\ SlotsAreUsed'
    BY <1>1 DEF OwnersAreRunning, SlotsAreCounted, SlotsAreUsed
  <1> QED BY <1>2, <1>3, <1>4, <1>5

\* Removal of finished tasks: nothing they gave back before is taken from others.
LEMMA RemoveKeepsIInv ==
    ASSUME IInv, NEW c \in Callers, NEW ts \in SUBSET Tasks,
           \A t \in ts : status[t] \in Terminal, Remove(c, ts)
    PROVE  IInv'
  <1> USE DEF IInv
  <1>1. status \in [Tasks -> Status] /\ depends_on \in [Tasks -> SUBSET Tasks]
    BY DEF TypeOK
  <1>2. status' = [t \in Tasks |-> IF t \in ts THEN "removed" ELSE status[t]]
    BY DEF Remove
  <1>3. depends_on' = [t \in Tasks |-> depends_on[t] \ {d \in ts : status[d] = "success"}]
    BY DEF Remove, DropDependencies
  <1>4. UNCHANGED <<request, cancelled, pending, taken, succeeded>>
    BY DEF Remove
  <1>5. ts \subseteq Submitted /\ ts \cap Running = {} /\ \A t \in ts : status[t] # "queued"
    BY DEF Submitted, Running, Terminal
  <1>6. Submitted' = Submitted /\ Running' = Running /\ Downloading' = Downloading
    BY <1>1, <1>2, <1>4, <1>5 DEF Submitted, Running, Downloading
  <1>7. /\ slots' = SlotsWithout(ts) /\ slots' \in Nat /\ slots' <= slots
        /\ over_released' = (over_released \/ slots' # slots)
    BY <1>5, SlotsWithoutFacts DEF Remove
  <1>8. owners' = owners
    <2>1. owners \in [Exclusive -> Tasks \cup {NoTask}] /\ NoTask \notin Tasks
      BY NamesAssumption DEF TypeOK
    <2>2. ASSUME NEW k \in Exclusive PROVE owners[k] \notin ts
      <3>1. owners[k] \in Running \/ owners[k] = NoTask
        BY DEF OwnersAreRunning
      <3> QED BY <3>1, <2>1, <1>5
    <2>3. owners' = [k \in Exclusive |-> owners[k]]
      BY <2>2 DEF Remove, Release
    <2> QED BY <2>1, <2>3
  <1>9. dispatching' = dispatching \/ dispatching' = dispatching \cup {c}
    BY DEF Remove, BeginDispatch
  <1>10. TypeOK'
    <2>1. status' \in [Tasks -> Status] /\ depends_on' \in [Tasks -> SUBSET Tasks]
      BY <1>1, <1>2, <1>3 DEF Status
    <2>2. slots' \in 0 .. MaxDownloads /\ over_released' \in BOOLEAN
      BY <1>7, LimitAssumption DEF TypeOK
    <2> QED BY <2>1, <2>2, <1>4, <1>8, <1>9 DEF TypeOK, Dispatchers
  <1>11. SubmittedIsFinite'
    BY <1>6 DEF SubmittedIsFinite
  <1>12. ListIsQueued'
    BY <1>1, <1>2, <1>4, <1>5 DEF ListIsQueued
  <1>13. DependsOnSubmitted'
    BY <1>1, <1>3, <1>6 DEF DependsOnSubmitted
  <1>14. ListIsOrdered'
    <2>1. \A i \in 1 .. Len(pending) : pending[i] \in Tasks
      BY PendingFacts
    <2>2. ASSUME NEW i \in 1 .. Len(pending), NEW j \in 1 .. Len(pending), i <= j
          PROVE  pending[j] \notin depends_on'[pending[i]]
      <3>1. pending[j] \notin depends_on[pending[i]]
        BY <2>2 DEF ListIsOrdered, Ordered
      <3> QED BY <3>1, <2>1, <1>3
    <2> QED BY <2>2, <1>4 DEF ListIsOrdered, Ordered
  <1>15. SuccessIsRecorded'
    BY <1>1, <1>2, <1>4 DEF SuccessIsRecorded
  <1>16. DroppedHasSucceeded'
    <2>1. ASSUME NEW t \in Submitted, NEW d \in request[t].depends_on, d \notin depends_on'[t]
          PROVE  d \in succeeded
      <3>1. t \in Tasks
        BY DEF Submitted
      <3>2. CASE d \notin depends_on[t]
        BY <3>2 DEF DroppedHasSucceeded
      <3>3. CASE d \in depends_on[t]
        <4>1. d \in Tasks /\ status[d] = "success"
          BY <3>1, <3>3, <2>1, <1>3
        <4> QED BY <4>1 DEF SuccessIsRecorded
      <3> QED BY <3>2, <3>3
    <2> QED BY <2>1, <1>4, <1>6 DEF DroppedHasSucceeded
  <1>17. OwnersAreRunning'
    BY <1>4, <1>6, <1>8 DEF OwnersAreRunning
  <1>18. SlotsAreCounted'
    BY <1>6, <1>7 DEF SlotsAreCounted
  <1>19. SlotsAreUsed'
    <2>1. slots \in Nat /\ Cardinality(Downloading) \in Nat
      BY DownloadingFacts, LimitAssumption DEF TypeOK
    <2> QED BY <2>1, <1>6, <1>7 DEF SlotsAreUsed
  <1> QED BY <1>10, <1>11, <1>12, <1>13, <1>14, <1>15, <1>16, <1>17, <1>18, <1>19

LEMMA FinishKeepsIInv ==
    ASSUME IInv, NEW t \in Tasks, NEW ok \in BOOLEAN, Finish(t, ok)
    PROVE  IInv'
  <1> USE DEF IInv
  <1> DEFINE end == IF t \in cancelled THEN "cancelled" ELSE IF ok THEN "success" ELSE "failed"
  <1>1. status \in [Tasks -> Status] /\ status[t] = "running" /\ t # NoTask
    BY NamesAssumption DEF TypeOK, Finish, Executing
  <1>2. status' = [status EXCEPT ![t] = end] /\ end \in Terminal
    BY DEF Finish, Terminal
  <1> HIDE DEF end
  <1>3. status' \in [Tasks -> Status] /\ status'[t] = end /\ \A u \in Tasks \ {t} : status'[u] = status[u]
    BY <1>1, <1>2 DEF Status
  <1>4. succeeded' = IF end = "success" THEN succeeded \cup {t} ELSE succeeded
    BY <1>3 DEF Finish
  <1>5. /\ UNCHANGED <<request, depends_on, cancelled, pending, taken, over_released>>
        /\ dispatching' = dispatching \cup {t}
    BY DEF Finish, BeginDispatch
  <1>6. slots' = SlotsWithout({t}) /\ owners' = [k \in Exclusive |-> IF owners[k] \in {t} THEN NoTask ELSE owners[k]]
    BY DEF Finish, Release
  <1>7. end \notin {"new", "queued", "running"}
    BY <1>2 DEF Terminal
  <1>8. /\ Submitted' = Submitted /\ Running' = Running \ {t} /\ Downloading' = Downloading \ {t}
        /\ t \in Running /\ t \in Submitted
    BY <1>1, <1>3, <1>5, <1>7 DEF Submitted, Running, Downloading
  <1>9. slots \in Nat /\ slots <= MaxDownloads /\ request[t].download \in BOOLEAN
    BY LimitAssumption, RequestFields DEF TypeOK
  <1>10. slots' = IF request[t].download /\ slots > 0 THEN slots - 1 ELSE slots
    BY <1>6, SlotsWithoutOne
  <1>11. TypeOK'
    <2>1. slots' \in 0 .. MaxDownloads
      BY <1>9, <1>10, LimitAssumption
    <2>2. owners' \in [Exclusive -> Tasks \cup {NoTask}]
      BY <1>6 DEF TypeOK
    <2>3. succeeded' \in SUBSET Tasks
      BY <1>4 DEF TypeOK
    <2> QED BY <2>1, <2>2, <2>3, <1>3, <1>5 DEF TypeOK, Dispatchers
  <1>12. ListIsQueued'
    BY <1>1, <1>3, <1>5, <1>7 DEF ListIsQueued
  <1>13. SubmittedIsFinite' /\ DependsOnSubmitted' /\ ListIsOrdered'
    BY <1>5, <1>8 DEF SubmittedIsFinite, DependsOnSubmitted, ListIsOrdered
  <1>14. SuccessIsRecorded'
    BY <1>3, <1>4 DEF SuccessIsRecorded
  <1>15. DroppedHasSucceeded'
    BY <1>4, <1>5, <1>8 DEF DroppedHasSucceeded
  <1>16. OwnersAreRunning'
    <2>1. ASSUME NEW k \in Exclusive
          PROVE  {u \in Running' : k \in request'[u].resources} = {owners'[k]} \ {NoTask}
      <3>1. {u \in Running : k \in request[u].resources} = {owners[k]} \ {NoTask}
        BY DEF OwnersAreRunning
      <3>2. {u \in Running' : k \in request'[u].resources}
              = {u \in Running : k \in request[u].resources} \ {t}
        BY <1>5, <1>8
      <3>3. owners'[k] = IF owners[k] = t THEN NoTask ELSE owners[k]
        BY <1>6
      <3> QED BY <3>1, <3>2, <3>3, <1>1
    <2> QED BY <2>1 DEF OwnersAreRunning
  <1>17. SlotsAreCounted' /\ SlotsAreUsed'
    <2>1. IsFiniteSet(Downloading) /\ Cardinality(Downloading) \in Nat
      BY DownloadingFacts
    <2>2. CASE request[t].download
      <3>1. t \in Downloading
        BY <2>2, <1>8 DEF Downloading
      <3>2. Cardinality(Downloading') = Cardinality(Downloading) - 1 /\ Cardinality(Downloading) # 0
        BY <3>1, <2>1, <1>8, FS_RemoveElement, FS_EmptySet
      <3>3. slots' <= Cardinality(Downloading')
        BY <3>2, <2>1, <2>2, <1>9, <1>10 DEF SlotsAreUsed
      <3>4. ASSUME ~over_released PROVE slots' = Cardinality(Downloading')
        <4>1. slots = Cardinality(Downloading)
          BY <3>4 DEF SlotsAreCounted
        <4> QED BY <4>1, <3>2, <2>1, <2>2, <1>9, <1>10
      <3> QED BY <3>3, <3>4, <1>5 DEF SlotsAreCounted, SlotsAreUsed
    <2>3. CASE ~request[t].download
      <3>1. Downloading' = Downloading
        BY <2>3, <1>8 DEF Downloading
      <3>2. slots' = slots
        BY <2>3, <1>10
      <3> QED BY <3>1, <3>2, <1>5 DEF SlotsAreCounted, SlotsAreUsed
    <2> QED BY <2>2, <2>3
  <1> QED BY <1>11, <1>12, <1>13, <1>14, <1>15, <1>16, <1>17

\* What a turn of the loop starts from: the list without those that fail in it.
LEMMA QueueFacts ==
    ASSUME IInv, NEW queue, queue = Without(pending, FailedByDependency)
    PROVE  /\ queue \in Seq(Tasks) /\ DOMAIN queue = 1 .. Len(queue)
           /\ Ordered(queue, depends_on)
           /\ FailedByDependency \in SUBSET Tasks
           /\ \A t \in FailedByDependency : status[t] = "queued"
           /\ \A t \in Tasks : Holds(queue, t) <=> status[t] = "queued" /\ t \notin FailedByDependency
           /\ \A i \in 1 .. Len(queue) : queue[i] \in Tasks /\ Holds(queue, queue[i])
  <1>1. pending \in Seq(Tasks) /\ queue \in Seq(Tasks) /\ DOMAIN queue = 1 .. Len(queue)
    BY PendingFacts, WithoutKeepsOrder, LenProperties DEF IInv
  <1>2. Ordered(queue, depends_on)
    BY <1>1, WithoutStaysOrdered DEF IInv, ListIsOrdered
  <1>3. FailedByDependency \in SUBSET Tasks
    BY <1>1, FailedByDependencyFacts
  <1>4. ASSUME NEW t \in FailedByDependency PROVE status[t] = "queued"
    <2>1. Holds(pending, t)
      BY <1>1, FailedByDependencyFacts DEF Holds
    <2> QED BY <2>1, <1>3 DEF IInv, ListIsQueued
  <1>5. ASSUME NEW t \in Tasks
        PROVE  Holds(queue, t) <=> status[t] = "queued" /\ t \notin FailedByDependency
    <2>1. Holds(queue, t) <=> Holds(pending, t) /\ t \notin FailedByDependency
      BY <1>1, WithoutElements
    <2> QED BY <2>1 DEF IInv, ListIsQueued
  <1>6. \A i \in 1 .. Len(queue) : queue[i] \in Tasks /\ Holds(queue, queue[i])
    BY <1>1, ElementOfSeq DEF Holds
  <1> QED BY <1>1, <1>2, <1>3, <1>4, <1>5, <1>6

LEMMA SpawnKeepsIInv ==
    ASSUME IInv, NEW d \in Dispatchers, Dispatch(d),
           NEW queue, queue = Without(pending, FailedByDependency), SpawnTaken(d, queue)
    PROVE  IInv'
  <1> USE DEF IInv
  <1> DEFINE F == FailedByDependency
  <1>1. /\ queue \in Seq(Tasks) /\ Ordered(queue, depends_on) /\ F \in SUBSET Tasks
        /\ \A t \in F : status[t] = "queued"
        /\ \A t \in Tasks : Holds(queue, t) <=> status[t] = "queued" /\ t \notin F
    BY QueueFacts
  <1>2. /\ pending' = queue /\ taken' = [taken EXCEPT ![d] = {}]
        /\ dispatching' = dispatching \ {d} /\ cancelled' = cancelled \cup F
        /\ UNCHANGED <<request, depends_on, owners, slots, succeeded, over_released>>
    BY DEF Dispatch, SpawnTaken
  <1>3. status' = [u \in Tasks |-> IF u \in F THEN "failed" ELSE status[u]]
    BY DEF SpawnTaken
  <1>4. status \in [Tasks -> Status]
    BY DEF TypeOK
  <1> HIDE DEF F
  <1>5. status' \in [Tasks -> Status]
    BY <1>3, <1>4 DEF Status, Terminal
  <1>6. Submitted' = Submitted /\ Running' = Running /\ Downloading' = Downloading
    BY <1>1, <1>2, <1>3, <1>4 DEF Submitted, Running, Downloading
  <1>7. TypeOK'
    BY <1>1, <1>2, <1>5 DEF TypeOK
  <1>8. ListIsQueued'
    BY <1>1, <1>2, <1>3, <1>4 DEF ListIsQueued
  <1>9. SubmittedIsFinite' /\ DependsOnSubmitted' /\ ListIsOrdered'
    BY <1>1, <1>2, <1>6 DEF SubmittedIsFinite, DependsOnSubmitted, ListIsOrdered
  <1>10. SuccessIsRecorded' /\ DroppedHasSucceeded'
    BY <1>2, <1>3, <1>4, <1>6 DEF SuccessIsRecorded, DroppedHasSucceeded
  <1>11. OwnersAreRunning' /\ SlotsAreCounted' /\ SlotsAreUsed'
    BY <1>2, <1>6 DEF OwnersAreRunning, SlotsAreCounted, SlotsAreUsed
  <1> QED BY <1>7, <1>8, <1>9, <1>10, <1>11

LEMMA TakeKeepsIInv ==
    ASSUME IInv, NEW d \in Dispatchers, Dispatch(d),
           NEW queue, queue = Without(pending, FailedByDependency),
           NEW i \in DOMAIN queue, TakeNext(d, queue, i)
    PROVE  IInv'
  <1> USE DEF IInv
  <1> DEFINE F == FailedByDependency
             t == queue[i]
  <1>1. /\ queue \in Seq(Tasks) /\ Ordered(queue, depends_on) /\ F \in SUBSET Tasks
        /\ \A u \in F : status[u] = "queued"
        /\ \A u \in Tasks : Holds(queue, u) <=> status[u] = "queued" /\ u \notin F
    BY QueueFacts
  <1>2. t \in Tasks /\ status[t] = "queued" /\ t \notin F /\ t # NoTask
    BY <1>1, QueueFacts, NamesAssumption
  <1>3. /\ pending' = Without(queue, {t}) /\ taken' = [taken EXCEPT ![d] = @ \cup {t}]
        /\ cancelled' = cancelled \cup F
        /\ UNCHANGED <<request, depends_on, dispatching, succeeded, over_released>>
    BY DEF Dispatch, TakeNext
  <1>4. status' = [u \in Tasks |-> IF u = t THEN "running"
                                    ELSE IF u \in F THEN "failed" ELSE status[u]]
    BY DEF TakeNext
  <1>5. /\ owners' = [k \in Exclusive |-> IF k \in request[t].resources THEN t ELSE owners[k]]
        /\ slots' = IF request[t].download THEN slots + 1 ELSE slots
    BY DEF TakeNext
  <1>6. /\ request[t].download => slots < MaxDownloads
        /\ \A k \in request[t].resources : owners[k] = NoTask
    BY DEF TakeNext, ReadyAt, ResourcesAvailable
  <1>7. status \in [Tasks -> Status]
    BY DEF TypeOK
  <1> HIDE DEF F, t
  <1>8. status' \in [Tasks -> Status]
    BY <1>4, <1>7 DEF Status, Terminal
  <1>9. pending' \in Seq(Tasks)
    BY <1>1, <1>3, WithoutKeepsOrder
  <1>10. slots \in Nat /\ slots <= MaxDownloads /\ request[t].download \in BOOLEAN
    BY <1>2, LimitAssumption, RequestFields DEF TypeOK
  <1>11. TypeOK'
    <2>1. slots' \in 0 .. MaxDownloads
      BY <1>5, <1>6, <1>10, LimitAssumption
    <2>2. owners' \in [Exclusive -> Tasks \cup {NoTask}]
      BY <1>2, <1>5 DEF TypeOK
    <2>3. taken' \in [Dispatchers -> SUBSET Tasks]
      BY <1>2, <1>3 DEF TypeOK
    <2> QED BY <2>1, <2>2, <2>3, <1>1, <1>3, <1>8, <1>9 DEF TypeOK
  <1>12. /\ Submitted' = Submitted /\ Running' = Running \cup {t} /\ t \notin Running
    BY <1>1, <1>2, <1>4, <1>7 DEF Submitted, Running
  <1>13. ListIsQueued'
    <2>1. ASSUME NEW u \in Tasks PROVE status'[u] = "queued" <=> Holds(pending', u)
      <3>1. Holds(pending', u) <=> Holds(queue, u) /\ u \notin {t}
        BY <1>1, <1>3, WithoutElements
      <3> QED BY <3>1, <1>1, <1>4
    <2> QED BY <2>1 DEF ListIsQueued
  <1>14. ListIsOrdered'
    BY <1>1, <1>3, WithoutStaysOrdered DEF ListIsOrdered
  <1>15. SubmittedIsFinite' /\ DependsOnSubmitted'
    BY <1>3, <1>12 DEF SubmittedIsFinite, DependsOnSubmitted
  <1>16. SuccessIsRecorded' /\ DroppedHasSucceeded'
    BY <1>3, <1>4, <1>7, <1>12 DEF SuccessIsRecorded, DroppedHasSucceeded
  <1>17. OwnersAreRunning'
    <2>1. ASSUME NEW k \in Exclusive
          PROVE  {u \in Running' : k \in request'[u].resources} = {owners'[k]} \ {NoTask}
      <3>1. {u \in Running : k \in request[u].resources} = {owners[k]} \ {NoTask}
        BY DEF OwnersAreRunning
      <3>2. CASE k \in request[t].resources
        <4>1. {u \in Running' : k \in request'[u].resources} = {t}
          BY <3>1, <3>2, <1>3, <1>6, <1>12
        <4> QED BY <4>1, <3>2, <1>2, <1>5
      <3>3. CASE k \notin request[t].resources
        BY <3>1, <3>3, <1>3, <1>5, <1>12
      <3> QED BY <3>2, <3>3
    <2> QED BY <2>1 DEF OwnersAreRunning
  <1>18. SlotsAreCounted' /\ SlotsAreUsed'
    <2>1. IsFiniteSet(Downloading) /\ Cardinality(Downloading) \in Nat
      BY DownloadingFacts
    <2>2. CASE request[t].download
      <3>1. Downloading' = Downloading \cup {t} /\ t \notin Downloading
        BY <2>2, <1>3, <1>12 DEF Downloading
      <3>2. Cardinality(Downloading') = Cardinality(Downloading) + 1
        BY <3>1, <2>1, FS_AddElement
      <3>3. slots' = slots + 1
        BY <2>2, <1>5
      <3>4. slots' <= Cardinality(Downloading')
        BY <3>2, <3>3, <2>1, <1>10 DEF SlotsAreUsed
      <3>5. ASSUME ~over_released PROVE slots' = Cardinality(Downloading')
        BY <3>2, <3>3, <3>5 DEF SlotsAreCounted
      <3> QED BY <3>4, <3>5, <1>3 DEF SlotsAreCounted, SlotsAreUsed
    <2>3. CASE ~request[t].download
      <3>1. Downloading' = Downloading
        BY <2>3, <1>3, <1>12 DEF Downloading
      <3>2. slots' = slots
        BY <2>3, <1>5
      <3> QED BY <3>1, <3>2, <1>3 DEF SlotsAreCounted, SlotsAreUsed
    <2> QED BY <2>2, <2>3
  <1> QED BY <1>11, <1>13, <1>14, <1>15, <1>16, <1>17, <1>18

LEMMA DispatchKeepsIInv ==
    ASSUME IInv, NEW d \in Dispatchers, Dispatch(d)
    PROVE  IInv'
  <1> DEFINE queue == Without(pending, FailedByDependency)
  <1>1. SpawnTaken(d, queue) \/ \E i \in DOMAIN queue : TakeNext(d, queue, i)
    BY DEF Dispatch
  <1> HIDE DEF queue
  <1>2. queue = Without(pending, FailedByDependency)
    BY DEF queue
  <1>3. CASE SpawnTaken(d, queue)
    BY <1>2, <1>3, SpawnKeepsIInv
  <1>4. ASSUME NEW i \in DOMAIN queue, TakeNext(d, queue, i) PROVE IInv'
    BY <1>2, <1>4, TakeKeepsIInv
  <1> QED BY <1>1, <1>3, <1>4

LEMMA NextKeepsIInv == IInv /\ [Next]_vars => IInv'
  <1> SUFFICES ASSUME IInv, [Next]_vars PROVE IInv'
    OBVIOUS
  <1>1. ASSUME NEW c \in Callers, NEW t \in Tasks, Submit(c, t) PROVE IInv'
    BY <1>1, SubmitKeepsIInv
  <1>2. ASSUME NEW c \in Callers, NEW t \in Tasks, CancelQueued(c, t) PROVE IInv'
    BY <1>2, CancelQueuedKeepsIInv
  <1>3. ASSUME NEW c \in Callers, NEW t \in Tasks, DeleteTerminal(c, t) PROVE IInv'
    BY <1>3, RemoveKeepsIInv DEF DeleteTerminal
  <1>4. ASSUME NEW c \in Callers, ClearTerminal(c) PROVE IInv'
    <2> DEFINE ended == {t \in Tasks : status[t] \in Terminal}
    <2>1. Remove(c, ended) /\ ended \in SUBSET Tasks /\ \A t \in ended : status[t] \in Terminal
      BY <1>4 DEF ClearTerminal
    <2> HIDE DEF ended
    <2> QED BY <2>1, RemoveKeepsIInv
  <1>5. ASSUME NEW t \in Tasks, CancelRunning(t) PROVE IInv'
    BY <1>5, CancelRunningKeepsIInv
  <1>6. ASSUME NEW t \in Tasks, NEW ok \in BOOLEAN, Finish(t, ok) PROVE IInv'
    BY <1>6, FinishKeepsIInv
  <1>7. ASSUME NEW d \in Dispatchers, Dispatch(d) PROVE IInv'
    BY <1>7, DispatchKeepsIInv
  <1>8. CASE UNCHANGED vars
    BY <1>8, StutterKeepsIInv
  <1> QED BY <1>1, <1>2, <1>3, <1>4, <1>5, <1>6, <1>7, <1>8 DEF Next

\* The inductive invariant of the task manager holds in every reachable state.
LEMMA Invariance == Spec => []IInv
  <1> QED BY InitIInv, NextKeepsIInv, PTL DEF Spec

-----------------------------------------------------------------------------
(* The theorems.                                                           *)

\* Type correctness of the task manager's state; the slot counter in
\* particular stays between zero and the limit.
THEOREM TypeCorrect == Spec => []TypeOK
  <1>1. IInv => TypeOK
    BY DEF IInv
  <1> QED BY <1>1, Invariance, PTL

\* release_resources and take_next_ready_task keep the owners and the slots in
\* step with the running tasks, whatever the dispatch loops, removals and
\* cancellations between them.
THEOREM Holdings == Spec => []HoldingsAreRunning
  <1>1. IInv => HoldingsAreRunning
    BY DEF IInv, HoldingsAreRunning
  <1> QED BY <1>1, Invariance, PTL

\* DEFAULT_MAX_DOWNLOAD_TASKS bounds the counter, and the counter the running
\* downloads, as long as no removal has released a slot twice.
THEOREM DownloadLimit == Spec => [](over_released \/ DownloadsAreLimited)
  <1>1. IInv => over_released \/ DownloadsAreLimited
    <2> SUFFICES ASSUME IInv, ~over_released PROVE DownloadsAreLimited
      OBVIOUS
    <2>1. slots = Cardinality(Downloading) /\ slots \in 0 .. MaxDownloads
      BY DEF IInv, SlotsAreCounted, TypeOK
    <2> QED BY <2>1, LimitAssumption DEF DownloadsAreLimited
  <1> QED BY <1>1, Invariance, PTL

\* A task starts only after everything it was submitted with has succeeded:
\* only a turn of the dispatch loop makes a task run, and what the task no
\* longer waits for was dropped as a success.
THEOREM DependenciesFirst == Spec => DependenciesComeFirst
  <1> DEFINE Step == \A t \in Tasks : (status[t] # "running" /\ status'[t] = "running")
                        => request[t].depends_on \subseteq succeeded
  <1>1. IInv /\ [Next]_vars => [Step]_vars
    <2> SUFFICES ASSUME IInv, Next, NEW t \in Tasks, status[t] # "running", status'[t] = "running"
                 PROVE  request[t].depends_on \subseteq succeeded
      BY DEF vars
    <2>1. status \in [Tasks -> Status]
      BY DEF IInv, TypeOK
    <2>2. ~ \E c \in Callers, u \in Tasks : Submit(c, u) \/ CancelQueued(c, u)
      BY <2>1 DEF Submit, CancelQueued
    <2>3. ~ \E c \in Callers, ts \in SUBSET Tasks : Remove(c, ts)
      BY <2>1 DEF Remove
    <2>4. ~ \E u \in Tasks : CancelRunning(u) \/ \E ok \in BOOLEAN : Finish(u, ok)
      BY <2>1 DEF CancelRunning, Finish
    <2>5. PICK d \in Dispatchers : Dispatch(d)
      BY <2>2, <2>3, <2>4 DEF Next, DeleteTerminal, ClearTerminal
    <2> DEFINE queue == Without(pending, FailedByDependency)
    <2>6. SpawnTaken(d, queue) \/ \E i \in DOMAIN queue : TakeNext(d, queue, i)
      BY <2>5 DEF Dispatch
    <2>7. /\ DOMAIN queue = 1 .. Len(queue)
          /\ \A u \in Tasks : Holds(queue, u) => status[u] = "queued"
          /\ \A i \in 1 .. Len(queue) : queue[i] \in Tasks /\ Holds(queue, queue[i])
      BY QueueFacts
    <2> HIDE DEF queue
    <2>8. ~SpawnTaken(d, queue)
      BY <2>1 DEF SpawnTaken
    <2>9. PICK i \in DOMAIN queue : TakeNext(d, queue, i)
      BY <2>6, <2>8
    <2>10. queue[i] = t /\ DependenciesSatisfied(t) /\ status[t] = "queued"
      BY <2>1, <2>7, <2>9 DEF TakeNext, ReadyAt
    <2>11. t \in Submitted
      BY <2>10 DEF Submitted
    <2>12. ASSUME NEW e \in request[t].depends_on PROVE e \in succeeded
      <3>1. e \in Tasks
        BY RequestFields DEF IInv
      <3>2. CASE e \in depends_on[t]
        BY <3>1, <3>2, <2>10 DEF DependenciesSatisfied, IInv, SuccessIsRecorded
      <3>3. CASE e \notin depends_on[t]
        BY <3>3, <2>11 DEF IInv, DroppedHasSucceeded
      <3> QED BY <3>2, <3>3
    <2> QED BY <2>12
  <1>2. Spec => [][Step]_vars
    <2> HIDE DEF Step
    <2> QED BY <1>1, Invariance, PTL DEF Spec
  <1> QED BY <1>2 DEF DependenciesComeFirst

\* Why a task t waits, as WaitingHasReason says it.
Reason(t) ==
    \/ \E d \in depends_on[t] : Active(d)
    \/ \E k \in request[t].resources : \E u \in Running : k \in request[u].resources
    \/ request[t].download /\ Cardinality(Downloading) >= MaxDownloads

\* A step that leaves what the reasons speak of as it is.
LEMMA ReasonsStay ==
    ASSUME WaitingHasReason, dispatching = {},
           UNCHANGED <<request, depends_on>>,
           \A t \in Tasks : status'[t] = "queued" <=> status[t] = "queued",
           \A t \in Tasks : status'[t] = "running" <=> status[t] = "running",
           DependsOnSubmitted, TypeOK
    PROVE  WaitingHasReason'
  <1>1. Running' = Running /\ Downloading' = Downloading
    BY DEF Running, Downloading
  <1>2. ASSUME NEW t \in Tasks, status'[t] = "queued" PROVE Reason(t)'
    <2>1. Reason(t)
      BY <1>2 DEF WaitingHasReason, Reason
    <2>2. \A d \in depends_on[t] : d \in Tasks
      BY DEF TypeOK
    <2>3. \A d \in depends_on[t] : Active(d) => Active(d)'
      BY <2>2 DEF Active
    <2> QED BY <1>1, <2>1, <2>3 DEF Reason
  <1> QED BY <1>2 DEF WaitingHasReason, Reason

\* The last loop ends only when nothing in the list is ready, and the failed
\* pass has left nobody behind who waits for a task that is failing in it.
LEMMA SpawnLeavesReasons ==
    ASSUME IInv, NEW d \in Dispatchers, Dispatch(d),
           NEW queue, queue = Without(pending, FailedByDependency), SpawnTaken(d, queue)
    PROVE  WaitingHasReason'
  <1> USE DEF IInv
  <1> DEFINE F == FailedByDependency
  <1>1. /\ queue \in Seq(Tasks) /\ DOMAIN queue = 1 .. Len(queue) /\ F \in SUBSET Tasks
        /\ \A t \in F : status[t] = "queued"
        /\ \A t \in Tasks : Holds(queue, t) <=> status[t] = "queued" /\ t \notin F
    BY QueueFacts
  <1>2. status' = [u \in Tasks |-> IF u \in F THEN "failed" ELSE status[u]]
    BY DEF SpawnTaken
  <1>3. UNCHANGED <<request, depends_on, slots>> /\ \A i \in DOMAIN queue : ~ReadyAt(queue, i)
    BY DEF Dispatch, SpawnTaken
  <1>4. status \in [Tasks -> Status] /\ pending \in Seq(Tasks)
    BY DEF TypeOK
  <1>5. Running' = Running /\ Downloading' = Downloading
    BY <1>1, <1>2, <1>3, <1>4 DEF Running, Downloading
  <1>6. ASSUME NEW t \in Tasks, status'[t] = "queued" PROVE Reason(t)'
    <2>1. status[t] = "queued" /\ t \notin F /\ depends_on[t] \in SUBSET Tasks
      BY <1>2, <1>4, <1>6 DEF TypeOK
    <2>2. ~DependenciesSatisfied(t) \/ ~ResourcesAvailable(t)
      <3>1. PICK i \in 1 .. Len(queue) : queue[i] = t
        BY <1>1, <2>1 DEF Holds
      <3> QED BY <3>1, <1>1, <1>3 DEF ReadyAt
    <2>3. CASE ~DependenciesSatisfied(t)
      <3>1. PICK e \in depends_on[t] : status[e] # "success"
        BY <2>3 DEF DependenciesSatisfied
      <3>2. PICK i \in 1 .. Len(pending) : pending[i] = t
        BY <2>1 DEF ListIsQueued, Holds
      <3>3. /\ status[e] \notin {"new", "removed", "failed", "cancelled"}
            /\ e \in F => \E j \in i .. Len(pending) : e = pending[j]
        BY <3>1, <3>2, <2>1, <1>4, FailedByDependencyFacts
      <3>4. ASSUME e \in F PROVE FALSE
        <4>1. PICK j \in i .. Len(pending) : e = pending[j]
          BY <3>3, <3>4
        <4>2. Len(pending) \in Nat /\ j \in 1 .. Len(pending) /\ i <= j
          BY <4>1, PendingFacts
        <4>3. pending[j] \notin depends_on[pending[i]]
          BY <4>2 DEF ListIsOrdered, Ordered
        <4> QED BY <4>1, <4>3, <3>1, <3>2
      <3>5. e \in Tasks /\ status[e] \in {"queued", "running"}
        BY <2>1, <3>1, <3>3, <1>4 DEF Status, Terminal
      <3>6. Active(e)'
        BY <3>4, <3>5, <1>2 DEF Active
      <3> QED BY <3>1, <3>6, <1>3 DEF Reason
    <2>4. CASE ~ResourcesAvailable(t)
      <3>1. CASE request[t].download /\ ~(slots < MaxDownloads)
        <4>1. slots \in Nat /\ Cardinality(Downloading) \in Nat
          BY LimitAssumption, DownloadingFacts DEF TypeOK
        <4>2. Cardinality(Downloading) >= MaxDownloads
          BY <3>1, <4>1, LimitAssumption DEF SlotsAreUsed
        <4> QED BY <3>1, <4>2, <1>3, <1>5 DEF Reason
      <3>2. ASSUME NEW k \in request[t].resources, owners[k] # NoTask PROVE Reason(t)'
        <4>1. k \in Exclusive
          BY RequestFields
        <4>2. owners[k] \in Running /\ k \in request[owners[k]].resources
          BY <4>1, <3>2 DEF OwnersAreRunning
        <4> QED BY <4>2, <1>3, <1>5 DEF Reason
      <3> QED BY <2>4, <3>1, <3>2 DEF ResourcesAvailable
    <2> QED BY <2>2, <2>3, <2>4
  <1> QED BY <1>6 DEF WaitingHasReason, Reason

\* No wakeup is lost: whoever changes the state starts a dispatch loop of its
\* own, and the last loop to end has looked at everything that still waits.
THEOREM NoLostWakeup == Spec => []WaitingHasReason
  <1>1. Init => WaitingHasReason
    BY DEF Init, WaitingHasReason
  <1>2. IInv /\ WaitingHasReason /\ [Next]_vars => WaitingHasReason'
    <2> SUFFICES ASSUME IInv, WaitingHasReason, [Next]_vars, dispatching' = {} PROVE WaitingHasReason'
      BY DEF WaitingHasReason
    <2>1. status \in [Tasks -> Status] /\ DependsOnSubmitted /\ TypeOK
      BY DEF IInv, TypeOK
    <2>2. ASSUME NEW c \in Callers, NEW t \in Tasks, Submit(c, t) \/ CancelQueued(c, t) PROVE FALSE
      BY <2>2 DEF Submit, CancelQueued, BeginDispatch
    <2>3. ASSUME NEW c \in Callers, NEW ts \in SUBSET Tasks,
                 \A t \in ts : status[t] \in Terminal, Remove(c, ts)
          PROVE  WaitingHasReason'
      <3>1. dispatching = {} /\ ~ \E t \in ts : status[t] = "success"
        BY <2>3 DEF Remove, BeginDispatch
      <3>2. depends_on' = depends_on
        <4>1. depends_on' = [t \in Tasks |-> depends_on[t] \ {}]
          BY <3>1, <2>3 DEF Remove, DropDependencies
        <4> QED BY <4>1, <2>1 DEF TypeOK
      <3>3. /\ \A t \in Tasks : status'[t] = "queued" <=> status[t] = "queued"
            /\ \A t \in Tasks : status'[t] = "running" <=> status[t] = "running"
        BY <2>1, <2>3 DEF Remove, Terminal
      <3>4. request' = request
        BY <2>3 DEF Remove
      <3> QED BY <2>1, <3>1, <3>2, <3>3, <3>4, ReasonsStay
    <2>4. ASSUME NEW c \in Callers, NEW t \in Tasks, DeleteTerminal(c, t) PROVE WaitingHasReason'
      BY <2>3, <2>4 DEF DeleteTerminal
    <2>5. ASSUME NEW c \in Callers, ClearTerminal(c) PROVE WaitingHasReason'
      <3> DEFINE ended == {t \in Tasks : status[t] \in Terminal}
      <3>1. Remove(c, ended) /\ ended \in SUBSET Tasks /\ \A t \in ended : status[t] \in Terminal
        BY <2>5 DEF ClearTerminal
      <3> HIDE DEF ended
      <3> QED BY <3>1, <2>3
    <2>6. ASSUME NEW t \in Tasks, CancelRunning(t) PROVE WaitingHasReason'
      <3>1. UNCHANGED <<request, status, depends_on, dispatching>>
        BY <2>6 DEF CancelRunning
      <3> QED BY <3>1, <2>1, ReasonsStay
    <2>7. ASSUME NEW t \in Tasks, NEW ok \in BOOLEAN, Finish(t, ok) PROVE FALSE
      BY <2>7 DEF Finish, BeginDispatch
    <2>8. ASSUME NEW d \in Dispatchers, Dispatch(d) PROVE WaitingHasReason'
      <3> DEFINE queue == Without(pending, FailedByDependency)
      <3>1. SpawnTaken(d, queue) \/ \E i \in DOMAIN queue : TakeNext(d, queue, i)
        BY <2>8 DEF Dispatch
      <3> HIDE DEF queue
      <3>2. queue = Without(pending, FailedByDependency)
        BY DEF queue
      <3>3. ~ \E i \in DOMAIN queue : TakeNext(d, queue, i)
        BY <2>8 DEF TakeNext, Dispatch
      <3> QED BY <2>8, <3>1, <3>2, <3>3, SpawnLeavesReasons
    <2>9. CASE UNCHANGED vars
      <3>1. UNCHANGED <<request, status, depends_on, dispatching>>
        BY <2>9 DEF vars
      <3> QED BY <3>1, <2>1, ReasonsStay
    <2> QED BY <2>2, <2>4, <2>5, <2>6, <2>7, <2>8, <2>9 DEF Next
  <1> QED BY <1>1, <1>2, Invariance, PTL DEF Spec

=============================================================================
