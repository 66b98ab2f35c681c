--------------------------- MODULE Dependents_proofs --------------------------
(***************************************************************************)
(* DependentClosure is the least set that has the changed files and, with  *)
(* any file, those that depend on it: the number of its rounds, one for    *)
(* each file of the graph, is enough, because a round that adds no file is *)
(* followed by none that does.  The induction over the rounds is stated    *)
(* with a set of rounds, which is what a proof can name.                   *)
(***************************************************************************)
EXTENDS Dependents, FiniteSetTheorems, WellFoundedInduction, TLAPS

Less == OpToRel(<, Nat)

LEMMA LessIsWellFounded == IsWellFoundedOn(Less, Nat)
BY NatLessThanWellFounded DEF Less

LEMMA LessIsLess == \A m, n \in Nat : <<m, n>> \in Less <=> m < n
BY DEF OpToRel, Less

\* Induction up to N over a set of numbers: the least one it lacked would have a
\* predecessor in it.
LEMMA SetInduction ==
    ASSUME NEW N \in Nat, NEW T, 0 \in T, \A n \in 0..(N - 1) : n \in T => n + 1 \in T
    PROVE  0..N \subseteq T
<1> SUFFICES ASSUME (0..N) \ T # {} PROVE FALSE
  OBVIOUS
<1>1. (0..N) \ T \subseteq Nat
  OBVIOUS
<1>2. PICK x \in (0..N) \ T : \A y \in (0..N) \ T : ~(<<y, x>> \in Less)
  BY <1>1, LessIsWellFounded, WFMin
<1>3. x # 0 /\ x \in Nat
  BY <1>2
<1>4. x - 1 \in 0..(N - 1) /\ x - 1 \in 0..N /\ x - 1 \in Nat /\ (x - 1) + 1 = x
  BY <1>2, <1>3
<1>5. <<x - 1, x>> \in Less
  BY <1>3, <1>4, LessIsLess
<1>6. x - 1 \in T
  BY <1>2, <1>4, <1>5
<1> QED
  BY <1>2, <1>4, <1>6

-----------------------------------------------------------------------------

\* One round: the files that refer to one already found.
Wider(found, graph) == found \cup {f \in DOMAIN graph : graph[f] \cap found # {}}

Rounds(changed, graph, n) ==
    CHOOSE r : r = [k \in 0..n |-> IF k = 0 THEN changed ELSE Wider(r[k - 1], graph)]

\* The rounds are defined: those up to n + 1 extend those up to n.
LEMMA RoundsExist ==
    ASSUME NEW changed, NEW graph, NEW N \in Nat
    PROVE  Rounds(changed, graph, N) =
              [k \in 0..N |-> IF k = 0 THEN changed
                              ELSE Wider(Rounds(changed, graph, N)[k - 1], graph)]
<1> DEFINE IsRounds(r, n) == r = [k \in 0..n |-> IF k = 0 THEN changed ELSE Wider(r[k - 1], graph)]
           T == {n \in 0..N : \E r : IsRounds(r, n)}
<1>1. 0 \in T
  <2> DEFINE r == [k \in 0..0 |-> changed]
  <2>1. r[0] = changed /\ \A k \in 0..0 : k = 0
    OBVIOUS
  <2>2. r = [k \in 0..0 |-> IF k = 0 THEN changed ELSE Wider(r[k - 1], graph)]
    BY <2>1
  <2> HIDE DEF r
  <2>3. IsRounds(r, 0) /\ 0 \in 0..N
    BY <2>2
  <2> QED
    BY <2>3
<1>2. ASSUME NEW n \in 0..(N - 1), n \in T PROVE n + 1 \in T
  <2>1. PICK r : IsRounds(r, n)
    BY <1>2
  <2> DEFINE s == [k \in 0..(n + 1) |-> IF k \in 0..n THEN r[k] ELSE Wider(r[n], graph)]
  <2>2. n \in Nat /\ (n + 1) - 1 = n /\ n + 1 # 0 /\ n + 1 \in 0..N /\ n + 1 \notin 0..n
    OBVIOUS
  <2>3. \A k \in 0..n : s[k] = r[k] /\ r[k] = IF k = 0 THEN changed ELSE Wider(r[k - 1], graph)
    BY <2>1
  <2>4. s[n + 1] = Wider(r[n], graph) /\ s[n] = r[n]
    BY <2>2
  <2>5. \A k \in 0..(n + 1) : s[k] = IF k = 0 THEN changed ELSE Wider(s[k - 1], graph)
    <3> TAKE k \in 0..(n + 1)
    <3>1. CASE k = n + 1
      BY <2>2, <2>4, <3>1
    <3>2. CASE k \in 0..n
      <4>1. k # 0 => k - 1 \in 0..n
        BY <3>2
      <4> QED
        BY <2>3, <3>2, <4>1
    <3> QED
      BY <2>2, <3>1, <3>2
  <2> HIDE DEF s
  <2>6. s = [k \in 0..(n + 1) |-> s[k]]
    BY DEF s
  <2>7. IsRounds(s, n + 1)
    BY <2>5, <2>6
  <2> QED
    BY <2>2, <2>7
<1> HIDE DEF T
<1>3. N \in T
  BY <1>1, <1>2, SetInduction
<1>4. \E r : IsRounds(r, N)
  BY <1>3 DEF T
<1> QED
  BY <1>4 DEF Rounds

LEMMA ClosureIsLastRound ==
    ASSUME NEW changed, NEW graph
    PROVE  DependentClosure(changed, graph) =
              Rounds(changed, graph, Cardinality(DOMAIN graph))[Cardinality(DOMAIN graph)]
BY DEF DependentClosure, Rounds, Wider

LEMMA RoundByRound ==
    ASSUME NEW changed, NEW graph, NEW N \in Nat
    PROVE  LET r == Rounds(changed, graph, N)
           IN  /\ r[0] = changed
               /\ \A n \in 0..(N - 1) : r[n + 1] = Wider(r[n], graph)
<1> DEFINE r == Rounds(changed, graph, N)
<1>1. r = [k \in 0..N |-> IF k = 0 THEN changed ELSE Wider(r[k - 1], graph)]
  BY RoundsExist
<1> HIDE DEF r
<1>2. r[0] = changed
  BY <1>1
<1>3. ASSUME NEW n \in 0..(N - 1) PROVE r[n + 1] = Wider(r[n], graph)
  <2>1. n + 1 \in 0..N /\ n + 1 # 0 /\ (n + 1) - 1 = n
    OBVIOUS
  <2> QED
    BY <1>1, <2>1
<1> QED
  BY <1>2, <1>3 DEF r

IsClosed(found, graph) == \A f \in DOMAIN graph : graph[f] \cap found # {} => f \in found

\* A round that is not the last adds a file of the graph.
LEMMA RoundsGrow ==
    ASSUME NEW graph, IsFiniteSet(DOMAIN graph), NEW found, ~IsClosed(found, graph)
    PROVE  /\ Cardinality(found \cap DOMAIN graph) \in Nat
           /\ Cardinality(Wider(found, graph) \cap DOMAIN graph) \in Nat
           /\ Cardinality(Wider(found, graph) \cap DOMAIN graph)
                  >= Cardinality(found \cap DOMAIN graph) + 1
<1> DEFINE before == found \cap DOMAIN graph
           after == Wider(found, graph) \cap DOMAIN graph
<1>1. PICK f \in DOMAIN graph : graph[f] \cap found # {} /\ f \notin found
  BY DEF IsClosed
<1>2. f \in after /\ f \notin before /\ before \subseteq after
  BY <1>1 DEF Wider
<1>3. IsFiniteSet(before) /\ IsFiniteSet(after)
  <2>1. before \in SUBSET DOMAIN graph /\ after \in SUBSET DOMAIN graph
    OBVIOUS
  <2> QED
    BY <2>1, FS_Subset
<1> HIDE DEF before, after
<1>4. IsFiniteSet(before \cup {f}) /\ Cardinality(before \cup {f}) = Cardinality(before) + 1
  BY <1>2, <1>3, FS_AddElement
<1>5. before \cup {f} \in SUBSET after
  BY <1>2
<1>6. Cardinality(before \cup {f}) <= Cardinality(after)
  BY <1>3, <1>5, FS_Subset
<1>7. Cardinality(before) \in Nat /\ Cardinality(after) \in Nat
  BY <1>3, FS_CardinalityType
<1> QED
  BY <1>4, <1>6, <1>7 DEF before, after

\* The dependents of the changed files, themselves included: the least set that
\* has the changed files and each file of the graph that refers to one it has.
THEOREM ClosureIsLeast ==
    ASSUME NEW changed, NEW graph, IsFiniteSet(DOMAIN graph)
    PROVE  /\ changed \subseteq DependentClosure(changed, graph)
           /\ IsClosed(DependentClosure(changed, graph), graph)
           /\ \A S : changed \subseteq S /\ IsClosed(S, graph) =>
                  DependentClosure(changed, graph) \subseteq S
<1> DEFINE N == Cardinality(DOMAIN graph)
           r == Rounds(changed, graph, N)
<1>1. N \in Nat
  BY FS_CardinalityType
<1>2. r[0] = changed /\ \A n \in 0..(N - 1) : r[n + 1] = Wider(r[n], graph)
  BY <1>1, RoundByRound
<1>3. DependentClosure(changed, graph) = r[N]
  BY ClosureIsLastRound
<1> HIDE DEF N, r
<1>4. changed \subseteq r[N]
  <2> DEFINE T == {n \in 0..N : changed \subseteq r[n]}
  <2>1. 0 \in T
    BY <1>1, <1>2
  <2>2. \A n \in 0..(N - 1) : n \in T => n + 1 \in T
    BY <1>1, <1>2 DEF Wider
  <2> HIDE DEF T
  <2>3. N \in T
    BY <1>1, <2>1, <2>2, SetInduction
  <2> QED
    BY <2>3 DEF T
<1>5. ASSUME NEW S, changed \subseteq S, IsClosed(S, graph) PROVE r[N] \subseteq S
  <2> DEFINE T == {n \in 0..N : r[n] \subseteq S}
  <2>1. 0 \in T
    BY <1>1, <1>2, <1>5
  <2>2. ASSUME NEW n \in 0..(N - 1), n \in T PROVE n + 1 \in T
    <3>1. n + 1 \in 0..N /\ r[n + 1] = Wider(r[n], graph) /\ r[n] \subseteq S
      BY <1>1, <1>2, <2>2
    <3> QED
      BY <1>5, <3>1 DEF Wider, IsClosed
  <2> HIDE DEF T
  <2>3. N \in T
    BY <1>1, <2>1, <2>2, SetInduction
  <2> QED
    BY <2>3 DEF T
<1>6. IsClosed(r[N], graph)
  <2> DEFINE size(n) == Cardinality(r[n] \cap DOMAIN graph)
             T == {n \in 0..N : IsClosed(r[n], graph) \/ size(n) >= n}
  <2>1. \A n \in 0..N : IsFiniteSet(r[n] \cap DOMAIN graph) /\ size(n) \in Nat
    <3> TAKE n \in 0..N
    <3>1. r[n] \cap DOMAIN graph \in SUBSET DOMAIN graph
      OBVIOUS
    <3> QED
      BY <3>1, FS_Subset, FS_CardinalityType
  <2>2. 0 \in T
    BY <1>1, <2>1
  <2>3. ASSUME NEW n \in 0..(N - 1), n \in T PROVE n + 1 \in T
    <3>1. n \in Nat /\ n \in 0..N /\ n + 1 \in 0..N /\ r[n + 1] = Wider(r[n], graph)
      BY <1>1, <1>2
    <3>2. CASE IsClosed(r[n], graph)
      <4>1. Wider(r[n], graph) = r[n]
        BY <3>2 DEF Wider, IsClosed
      <4> QED
        BY <3>1, <3>2, <4>1
    <3>3. CASE ~IsClosed(r[n], graph)
      <4>1. size(n) >= n
        BY <2>3, <3>3
      <4>2. size(n) \in Nat /\ size(n + 1) \in Nat /\ size(n + 1) >= size(n) + 1
        BY <3>1, <3>3, RoundsGrow
      <4> HIDE DEF size
      <4>3. size(n + 1) >= n + 1
        BY <3>1, <4>1, <4>2
      <4> QED
        BY <3>1, <4>3
    <3> QED
      BY <3>2, <3>3
  <2> HIDE DEF T
  <2>4. N \in T
    BY <1>1, <2>2, <2>3, SetInduction
  <2>5. CASE size(N) >= N
    <3>1. r[N] \cap DOMAIN graph \in SUBSET DOMAIN graph /\ N \in 0..N
      BY <1>1
    <3>2. size(N) <= N /\ size(N) \in Nat
      BY <2>1, <3>1, FS_Subset DEF N
    <3>3. size(N) = N
      BY <1>1, <2>5, <3>2
    <3>4. DOMAIN graph = r[N] \cap DOMAIN graph
      BY <3>1, <3>3, FS_Subset DEF N
    <3> QED
      BY <3>4 DEF IsClosed
  <2> QED
    BY <2>4, <2>5 DEF T
<1> QED
  BY <1>3, <1>4, <1>5, <1>6

=============================================================================
