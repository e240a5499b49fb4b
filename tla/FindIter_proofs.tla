-------------------------- MODULE FindIter_proofs --------------------------
(* Proofs about the search iterator, for any document, options and predicate. *)
EXTENDS FindIter, FiniteSetTheorems, SequenceTheorems, Minimum, TLAPS

-----------------------------------------------------------------------------
(* The document does not change during a search: what the model says of the   *)
(* variables tree and opts, said of a tree t and options o.                   *)

NodesIn(t) == DOMAIN t.kind

ContainerIn(t, n) == t.kind[n] \in {"mapping", "sequence"}

PosIn(t, n) == CHOOSE i \in DOMAIN t.kids[t.up[n]] : t.kids[t.up[n]][i] = n

PathIn(t) ==
    LET path[n \in NodesIn(t)] ==
            IF n = Root THEN <<>> ELSE Append(path[t.up[n]], PosIn(t, n))
    IN  path

\* The tree of a search: what TreesAssumption gives.
LEMMA TreeFacts ==
    ASSUME NEW t \in Trees
    PROVE  /\ \E k \in Nat : NodesIn(t) = 1 .. k
           /\ Root \in NodesIn(t) /\ NodesIn(t) \subseteq Nat
           /\ \A n \in NodesIn(t) : t.kids[n] \in Seq(NodesIn(t))
           /\ \A n \in NodesIn(t) : \A i \in DOMAIN t.kids[n] :
                 t.kids[n][i] \in NodesIn(t) /\ t.kids[n][i] # Root /\ t.up[t.kids[n][i]] = n
           /\ \A n \in NodesIn(t) : \A i, j \in DOMAIN t.kids[n] :
                 t.kids[n][i] = t.kids[n][j] => i = j
           /\ \A n \in NodesIn(t) \ {Root} :
                 /\ t.up[n] \in NodesIn(t) /\ t.up[n] < n
                 /\ \E i \in DOMAIN t.kids[t.up[n]] : t.kids[t.up[n]][i] = n
  <1>1. Cardinality(DOMAIN t.kind) \in Nat
    BY FS_CardinalityType, TreesAssumption
  <1>2. DOMAIN t.kind = 1 .. Cardinality(DOMAIN t.kind)
    BY TreesAssumption
  <1>3. DOMAIN t.kind # {}
    BY TreesAssumption
  <1>4. Root \in NodesIn(t) /\ NodesIn(t) \subseteq Nat
    BY <1>1, <1>2, <1>3 DEF Root, NodesIn
  <1>5. \A n \in NodesIn(t) : t.kids[n] \in Seq(NodesIn(t))
    BY TreesAssumption DEF NodesIn
  <1>6. \A n \in NodesIn(t) : \A i \in DOMAIN t.kids[n] :
            t.kids[n][i] # Root /\ t.up[t.kids[n][i]] = n
    BY TreesAssumption DEF NodesIn, Root
  <1>7. \A n \in NodesIn(t) : \A i \in DOMAIN t.kids[n] : t.kids[n][i] \in NodesIn(t)
    BY <1>5
  <1>8. \A n \in NodesIn(t) : \A i, j \in DOMAIN t.kids[n] :
            t.kids[n][i] = t.kids[n][j] => i = j
    BY TreesAssumption DEF NodesIn
  <1>9. \A n \in NodesIn(t) \ {Root} :
                 /\ t.up[n] \in NodesIn(t) /\ t.up[n] < n
                 /\ \E i \in DOMAIN t.kids[t.up[n]] : t.kids[t.up[n]][i] = n
    BY TreesAssumption DEF NodesIn, Root
  <1>10. \E k \in Nat : NodesIn(t) = 1 .. k
    BY <1>1, <1>2 DEF NodesIn
  <1> QED
    BY <1>4, <1>5, <1>6, <1>7, <1>8, <1>9, <1>10

\* The children of a node are numbered from one.
LEMMA KidsFacts ==
    ASSUME NEW t \in Trees, NEW n \in NodesIn(t)
    PROVE  /\ DOMAIN t.kids[n] = 1 .. Len(t.kids[n]) /\ Len(t.kids[n]) \in Nat
           /\ DOMAIN t.kids[n] \subseteq Nat
  <1> DEFINE s == t.kids[n]
  <1>1. s \in Seq(NodesIn(t))
    BY TreeFacts
  <1> HIDE DEF s
  <1>2. DOMAIN s = 1 .. Len(s) /\ Len(s) \in Nat
    BY <1>1
  <1> QED
    BY <1>2 DEF s

\* A child is a node other than the root, below that parent.
LEMMA ChildFacts ==
    ASSUME NEW t \in Trees, NEW n \in NodesIn(t), NEW i \in DOMAIN t.kids[n]
    PROVE  t.kids[n][i] \in NodesIn(t) /\ t.kids[n][i] # Root /\ t.up[t.kids[n][i]] = n
  BY TreeFacts

\* A node is one child of its parent.
LEMMA ChildApart ==
    ASSUME NEW t \in Trees, NEW n \in NodesIn(t),
           NEW i \in DOMAIN t.kids[n], NEW j \in DOMAIN t.kids[n],
           t.kids[n][i] = t.kids[n][j]
    PROVE  i = j
  BY TreeFacts

\* A parent has a smaller number than its child.
LEMMA ParentFacts ==
    ASSUME NEW t \in Trees, NEW n \in NodesIn(t) \ {Root}
    PROVE  t.up[n] \in NodesIn(t) /\ t.up[n] < n /\ n \in Nat
  BY TreeFacts

\* The place of a node below its parent.
LEMMA PosFacts ==
    ASSUME NEW t \in Trees, NEW n \in NodesIn(t) \ {Root}
    PROVE  /\ PosIn(t, n) \in DOMAIN t.kids[t.up[n]]
           /\ t.kids[t.up[n]][PosIn(t, n)] = n
           /\ PosIn(t, n) \in Nat
  <1>1. \E i \in DOMAIN t.kids[t.up[n]] : t.kids[t.up[n]][i] = n
    BY TreeFacts
  <1>2. PosIn(t, n) \in DOMAIN t.kids[t.up[n]] /\ t.kids[t.up[n]][PosIn(t, n)] = n
    BY <1>1 DEF PosIn
  <1>3. t.kids[t.up[n]] \in Seq(NodesIn(t))
    BY TreeFacts
  <1>4. DOMAIN t.kids[t.up[n]] \subseteq Nat
    BY <1>3
  <1> QED
    BY <1>2, <1>4

\* The paths are as the reference defines them: the recursion has a value.
LEMMA PathFacts ==
    ASSUME NEW t \in Trees
    PROVE  /\ PathIn(t)[Root] = <<>>
           /\ \A n \in NodesIn(t) \ {Root} :
                 PathIn(t)[n] = Append(PathIn(t)[t.up[n]], PosIn(t, n))
           /\ \A n \in NodesIn(t) : PathIn(t)[n] \in Seq(Nat)
  <1> DEFINE N == NodesIn(t)
             Good(f, n) == f[n] = IF n = Root THEN <<>> ELSE Append(f[t.up[n]], PosIn(t, n))
             Upto(f, m) == /\ f \in [N -> Seq(Nat)]
                           /\ \A n \in N : n <= m => Good(f, n)
             S == {m \in Nat : ~ \E f : Upto(f, m)}
  <1>1. N \subseteq Nat /\ Root \in N
    BY TreeFacts
  <1>2. \A n \in N \ {Root} : t.up[n] \in N /\ t.up[n] < n /\ PosIn(t, n) \in Nat
    BY TreeFacts, PosFacts
  <1>0. \A n \in N : n # 0 /\ 1 <= n
    <2>1. PICK k \in Nat : N = 1 .. k
      BY TreeFacts
    <2> HIDE DEF N
    <2> QED
      BY <2>1
  <1> HIDE DEF N
  <1>3. S = {}
    <2> SUFFICES ASSUME S # {} PROVE FALSE
      OBVIOUS
    <2>1. S \subseteq Nat
      OBVIOUS
    <2>2. PICK m \in S : \A y \in S : m <= y
      <3> HIDE DEF S
      <3> QED
        BY <2>1, MinExists
    <2>3. m \in Nat /\ ~ \E f : Upto(f, m)
      OBVIOUS
    <2>4. CASE m = 0
      <3>1. <<>> \in Seq(Nat)
        OBVIOUS
      <3>2. [n \in N |-> <<>>] \in [N -> Seq(Nat)]
        BY <3>1
      <3>3. \A n \in N : ~ (n <= 0)
        BY <1>0, <1>1
      <3>4. Upto([n \in N |-> <<>>], 0)
        BY <3>2, <3>3
      <3> QED
        BY <2>3, <2>4, <3>4
    <2>5. CASE m # 0
      <3>1. m - 1 \in Nat /\ m - 1 \notin S
        <4>1. m - 1 \in S => m <= m - 1
          BY <2>2
        <4>2. m - 1 \in Nat
          BY <2>3, <2>5
        <4> HIDE DEF S
        <4> QED
          BY <4>1, <4>2, <2>3
      <3>2. PICK f : Upto(f, m - 1)
        BY <3>1
      <3> DEFINE v == IF m = Root THEN <<>> ELSE Append(f[t.up[m]], PosIn(t, m))
                 g == [n \in N |-> IF n = m THEN v ELSE f[n]]
      <3>3. ASSUME m \in N PROVE v \in Seq(Nat)
        <4>1. CASE m = Root
          BY <4>1
        <4>2. CASE m # Root
          <5>1. t.up[m] \in N /\ PosIn(t, m) \in Nat
            BY <1>2, <3>3, <4>2
          <5>2. f[t.up[m]] \in Seq(Nat)
            BY <3>2, <5>1
          <5>3. Append(f[t.up[m]], PosIn(t, m)) \in Seq(Nat)
            BY <5>1, <5>2
          <5> QED
            BY <4>2, <5>3
        <4> QED
          BY <4>1, <4>2
      <3>4. g \in [N -> Seq(Nat)]
        <4> HIDE DEF v
        <4> QED
          BY <3>2, <3>3
      <3>5. ASSUME NEW n \in N, n <= m PROVE Good(g, n)
        <4>1. n # Root => t.up[n] \in N /\ t.up[n] # m /\ t.up[n] < n
          BY <1>1, <1>2, <2>3, <3>5
        <4>2. n # Root => g[t.up[n]] = f[t.up[n]]
          <5> HIDE DEF v
          <5> QED
            BY <4>1
        <4>3. CASE n = m
          <5>1. g[n] = v
            BY <4>3
          <5> QED
            BY <4>2, <4>3, <5>1
        <4>4. CASE n # m
          <5>1. n <= m - 1
            BY <1>1, <2>3, <3>5, <4>4
          <5>2. Good(f, n)
            BY <3>2, <5>1
          <5>3. g[n] = f[n]
            BY <4>4
          <5> QED
            BY <4>2, <5>2, <5>3
        <4> QED
          BY <4>3, <4>4
      <3>6. Upto(g, m)
        BY <3>4, <3>5
      <3> QED
        BY <2>3, <3>6
    <2> QED
      BY <2>4, <2>5
  <1>4. PICK k \in Nat : N = 1 .. k
    BY TreeFacts DEF N
  <1>5. PICK f : Upto(f, k)
    BY <1>3, <1>4
  <1>6. \A n \in N : Good(f, n)
    BY <1>4, <1>5
  <1> DEFINE F(h) == [n \in NodesIn(t) |-> IF n = Root THEN <<>>
                                           ELSE Append(h[t.up[n]], PosIn(t, n))]
  <1>7. f = F(f)
    BY <1>5, <1>6 DEF N
  <1>8. PathIn(t) = F(PathIn(t))
    <2>1. PathIn(t) = CHOOSE h : h = F(h)
      BY DEF PathIn
    <2> HIDE DEF F
    <2> QED
      BY <1>7, <2>1
  <1> DEFINE p == PathIn(t)
  <1>9. \A n \in N : Good(p, n)
    <2> HIDE DEF p
    <2>1. p = F(p)
      BY <1>8 DEF p
    <2> QED
      BY <2>1 DEF N
  <1> HIDE DEF p
  <1>10. \A n \in N : p[n] \in Seq(Nat)
    <2> DEFINE B == {n \in N : p[n] \notin Seq(Nat)}
    <2> SUFFICES ASSUME B # {} PROVE FALSE
      OBVIOUS
    <2>1. B \subseteq Nat
      BY <1>1
    <2>2. PICK n \in B : \A y \in B : n <= y
      <3> HIDE DEF B
      <3> QED
        BY <2>1, MinExists
    <2>3. n \in N /\ p[n] \notin Seq(Nat)
      OBVIOUS
    <2>4. CASE n = Root
      <3>1. p[n] = <<>>
        BY <1>9, <2>3, <2>4
      <3>2. <<>> \in Seq(Nat)
        OBVIOUS
      <3> QED
        BY <2>3, <3>1, <3>2
    <2>5. CASE n # Root
      <3>1. t.up[n] \in N /\ t.up[n] < n /\ PosIn(t, n) \in Nat
        BY <1>2, <2>3, <2>5
      <3>2. t.up[n] \notin B
        <4>1. t.up[n] \in B => n <= t.up[n]
          BY <2>2
        <4>2. t.up[n] \in Nat /\ n \in Nat
          BY <1>1, <2>3, <3>1
        <4>3. ~ (n <= t.up[n])
          BY <3>1, <4>2
        <4> QED
          BY <4>1, <4>3
      <3>3. p[t.up[n]] \in Seq(Nat)
        BY <3>1, <3>2
      <3>4. p[n] = Append(p[t.up[n]], PosIn(t, n))
        BY <1>9, <2>3, <2>5
      <3>5. Append(p[t.up[n]], PosIn(t, n)) \in Seq(Nat)
        BY <3>1, <3>3
      <3> QED
        BY <2>3, <3>4, <3>5
    <2> QED
      BY <2>4, <2>5
  <1>11. p[Root] = <<>>
    BY <1>1, <1>9
  <1>12. \A n \in N \ {Root} : p[n] = Append(p[t.up[n]], PosIn(t, n))
    BY <1>9
  <1> QED
    BY <1>10, <1>11, <1>12 DEF p, N

\* One sequence is a prefix of another if it is not longer and agrees with it.
LEMMA PrefixFacts ==
    ASSUME NEW p \in Seq(Nat), NEW q \in Seq(Nat)
    PROVE  IsPrefix(p, q) <=> Len(p) <= Len(q) /\ \A i \in 1 .. Len(p) : p[i] = q[i]
  <1>1. Len(p) \in Nat /\ Len(q) \in Nat
    OBVIOUS
  <1>2. SubSeq(p, 1, Len(p)) = p
    OBVIOUS
  <1>3. ASSUME Len(p) <= Len(q)
        PROVE  /\ SubSeq(q, 1, Len(p)) \in Seq(Nat)
               /\ Len(SubSeq(q, 1, Len(p))) = Len(p)
               /\ \A i \in 1 .. Len(p) : SubSeq(q, 1, Len(p))[i] = q[i]
    BY <1>1, <1>3
  <1> DEFINE r == SubSeq(q, 1, Len(p))
  <1>4. ASSUME IsPrefix(p, q) PROVE Len(p) <= Len(q) /\ \A i \in 1 .. Len(p) : p[i] = q[i]
    <2>1. Len(p) <= Len(q) /\ p = r
      BY <1>2, <1>4 DEF IsPrefix
    <2> HIDE DEF r
    <2>2. \A i \in 1 .. Len(p) : r[i] = q[i]
      BY <1>3, <2>1 DEF r
    <2> QED
      BY <2>1, <2>2
  <1>5. ASSUME Len(p) <= Len(q), \A i \in 1 .. Len(p) : p[i] = q[i] PROVE IsPrefix(p, q)
    <2>1. r \in Seq(Nat) /\ Len(r) = Len(p) /\ \A i \in 1 .. Len(p) : r[i] = q[i]
      BY <1>3, <1>5
    <2> HIDE DEF r
    <2>2. \A i \in 1 .. Len(p) : r[i] = p[i]
      BY <1>5, <2>1
    <2>3. r = p
      BY <2>1, <2>2, SeqEqual
    <2> QED
      BY <1>2, <1>5, <2>3 DEF IsPrefix, r
  <1> QED
    BY <1>4, <1>5

\* The path to a child is one index longer than the path to its parent.
LEMMA PathOfChild ==
    ASSUME NEW t \in Trees, NEW n \in NodesIn(t) \ {Root}
    PROVE  /\ t.up[n] \in NodesIn(t)
           /\ PathIn(t)[n] \in Seq(Nat) /\ PathIn(t)[t.up[n]] \in Seq(Nat)
           /\ Len(PathIn(t)[n]) = Len(PathIn(t)[t.up[n]]) + 1
           /\ \A i \in 1 .. Len(PathIn(t)[t.up[n]]) : PathIn(t)[n][i] = PathIn(t)[t.up[n]][i]
           /\ PathIn(t)[n][Len(PathIn(t)[t.up[n]]) + 1] = PosIn(t, n)
  <1>1. t.up[n] \in NodesIn(t)
    BY TreeFacts
  <1> DEFINE p == PathIn(t)[t.up[n]]
             i == PosIn(t, n)
             q == PathIn(t)[n]
  <1>2. p \in Seq(Nat) /\ q \in Seq(Nat)
    BY <1>1, PathFacts
  <1>3. i \in Nat
    BY PosFacts
  <1>4. q = Append(p, i)
    BY PathFacts
  <1> HIDE DEF p, i, q
  <1>5. Len(q) = Len(p) + 1
    BY <1>2, <1>3, <1>4
  <1>6. \A j \in 1 .. Len(p) : q[j] = p[j]
    BY <1>2, <1>3, <1>4
  <1>7. q[Len(p) + 1] = i
    BY <1>2, <1>3, <1>4
  <1> QED
    BY <1>1, <1>2, <1>5, <1>6, <1>7 DEF p, i, q

\* Only the root has the empty path.
LEMMA PathEmpty ==
    ASSUME NEW t \in Trees, NEW n \in NodesIn(t)
    PROVE  /\ Len(PathIn(t)[n]) \in Nat
           /\ n = Root <=> Len(PathIn(t)[n]) = 0
  <1>1. Len(PathIn(t)[Root]) = 0
    <2>1. PathIn(t)[Root] = <<>>
      BY PathFacts
    <2> QED
      BY <2>1
  <1>2. PathIn(t)[n] \in Seq(Nat)
    BY PathFacts
  <1>3. Len(PathIn(t)[n]) \in Nat
    BY <1>2
  <1>4. ASSUME n # Root PROVE Len(PathIn(t)[n]) # 0
    <2>1. Len(PathIn(t)[n]) = Len(PathIn(t)[t.up[n]]) + 1 /\ PathIn(t)[t.up[n]] \in Seq(Nat)
      BY <1>4, PathOfChild
    <2>2. Len(PathIn(t)[t.up[n]]) \in Nat
      BY <2>1
    <2> QED
      BY <2>1, <2>2
  <1> QED
    BY <1>1, <1>3, <1>4

\* A node is told by its path.
LEMMA PathInjective ==
    ASSUME NEW t \in Trees, NEW m \in NodesIn(t), NEW n \in NodesIn(t),
           PathIn(t)[m] = PathIn(t)[n]
    PROVE  m = n
  <1> DEFINE B == {x \in NodesIn(t) : \E y \in NodesIn(t) : PathIn(t)[x] = PathIn(t)[y] /\ x # y}
  <1> SUFFICES ASSUME B # {} PROVE FALSE
    OBVIOUS
  <1>1. NodesIn(t) \subseteq Nat
    BY TreeFacts
  <1>2. B \subseteq Nat
    BY <1>1
  <1>3. PICK x \in B : \A y \in B : x <= y
    <2> HIDE DEF B
    <2> QED
      BY <1>2, MinExists
  <1>4. PICK y \in NodesIn(t) : PathIn(t)[x] = PathIn(t)[y] /\ x # y
    OBVIOUS
  <1>5. x \in NodesIn(t)
    OBVIOUS
  <1>6. x # Root /\ y # Root
    BY <1>4, <1>5, PathEmpty
  <1>7. /\ t.up[x] \in NodesIn(t) /\ PathIn(t)[x] = Append(PathIn(t)[t.up[x]], PosIn(t, x))
        /\ PathIn(t)[t.up[x]] \in Seq(Nat) /\ PosIn(t, x) \in Nat
    BY <1>5, <1>6, PathOfChild, PathFacts, PosFacts
  <1>8. /\ t.up[y] \in NodesIn(t) /\ PathIn(t)[y] = Append(PathIn(t)[t.up[y]], PosIn(t, y))
        /\ PathIn(t)[t.up[y]] \in Seq(Nat) /\ PosIn(t, y) \in Nat
    BY <1>4, <1>6, PathOfChild, PathFacts, PosFacts
  <1>9. PathIn(t)[t.up[x]] = PathIn(t)[t.up[y]] /\ PosIn(t, x) = PosIn(t, y)
    <2> DEFINE p == PathIn(t)[t.up[x]]
               q == PathIn(t)[t.up[y]]
               i == PosIn(t, x)
               j == PosIn(t, y)
    <2>1. p \in Seq(Nat) /\ q \in Seq(Nat) /\ i \in Nat /\ j \in Nat /\ Append(p, i) = Append(q, j)
      BY <1>4, <1>7, <1>8
    <2> HIDE DEF p, q, i, j
    <2>2. p = q /\ i = j
      BY <2>1, AppendInjective
    <2> QED
      BY <2>2 DEF p, q, i, j
  <1>10. t.up[x] < x
    BY <1>5, <1>6, TreeFacts
  <1>11. t.up[x] \notin B
    <2>1. t.up[x] \in B => x <= t.up[x]
      BY <1>3
    <2>2. x \in Nat /\ t.up[x] \in Nat
      BY <1>1, <1>5, <1>7
    <2>3. ~ (x <= t.up[x])
      BY <1>10, <2>2
    <2> QED
      BY <2>1, <2>3
  <1>12. t.up[x] = t.up[y]
    BY <1>7, <1>8, <1>9, <1>11
  <1>13. x = t.kids[t.up[x]][PosIn(t, x)] /\ y = t.kids[t.up[y]][PosIn(t, y)]
    BY <1>4, <1>5, <1>6, PosFacts
  <1> QED
    BY <1>4, <1>9, <1>12, <1>13

AboveIn(t, n) == {m \in NodesIn(t) : IsPrefix(PathIn(t)[m], PathIn(t)[n])}

\* What is at or above a node is the node itself or at or above its parent.
LEMMA AboveChild ==
    ASSUME NEW t \in Trees, NEW n \in NodesIn(t) \ {Root}, NEW m \in AboveIn(t, n), m # n
    PROVE  m \in AboveIn(t, t.up[n])
  <1> DEFINE p == PathIn(t)[m]
             q == PathIn(t)[n]
             r == PathIn(t)[t.up[n]]
  <1>1. m \in NodesIn(t) /\ p \in Seq(Nat) /\ q \in Seq(Nat) /\ r \in Seq(Nat)
    BY PathFacts, PathOfChild DEF AboveIn
  <1>2. IsPrefix(p, q)
    BY DEF AboveIn
  <1>3. Len(q) = Len(r) + 1 /\ \A i \in 1 .. Len(r) : q[i] = r[i]
    BY PathOfChild
  <1>4. p # q
    BY <1>1, PathInjective
  <1> HIDE DEF p, q, r
  <1>5. Len(p) <= Len(q) /\ \A i \in 1 .. Len(p) : p[i] = q[i]
    BY <1>1, <1>2, PrefixFacts
  <1>6. Len(p) # Len(q)
    BY <1>1, <1>4, <1>5, SeqEqual
  <1>7. Len(p) \in Nat /\ Len(q) \in Nat /\ Len(r) \in Nat
    BY <1>1
  <1>8. Len(p) <= Len(r) /\ \A i \in 1 .. Len(p) : p[i] = r[i]
    BY <1>3, <1>5, <1>6, <1>7
  <1>9. IsPrefix(p, r)
    BY <1>1, <1>8, PrefixFacts
  <1> QED
    BY <1>1, <1>9 DEF AboveIn, p, r

\* Nothing is above the root.
LEMMA AboveRoot ==
    ASSUME NEW t \in Trees, NEW m \in AboveIn(t, Root)
    PROVE  m = Root
  <1>1. m \in NodesIn(t) /\ Root \in NodesIn(t) /\ IsPrefix(PathIn(t)[m], PathIn(t)[Root])
    BY TreeFacts DEF AboveIn
  <1>2. PathIn(t)[m] \in Seq(Nat) /\ PathIn(t)[Root] \in Seq(Nat)
    BY <1>1, PathFacts
  <1>3. Len(PathIn(t)[m]) <= Len(PathIn(t)[Root])
    BY <1>1, <1>2, PrefixFacts
  <1>4. Len(PathIn(t)[Root]) = 0 /\ Len(PathIn(t)[m]) \in Nat
    BY <1>1, PathEmpty
  <1>5. Len(PathIn(t)[m]) = 0
    BY <1>3, <1>4
  <1> QED
    BY <1>1, <1>5, PathEmpty

-----------------------------------------------------------------------------
(* The frames and the heap: the invariant                                     *)

Options == [depth_first : BOOLEAN, descend : {"all", "mapping", "sequence"},
            max_depth : MaxDepths, pred : Preds]

DescendIn(t, o, n) ==
    CASE o.descend = "all"      -> TRUE
      [] o.descend = "mapping"  -> t.kind[n] = "mapping"
      [] o.descend = "sequence" -> t.kind[n] = "sequence"

EnteredIn(t, o, n) ==
    /\ ContainerIn(t, n)
    /\ n = Root \/ DescendIn(t, o, n)
    /\ o.max_depth < 0 \/ Len(PathIn(t)[n]) <= o.max_depth

RefusedIn(t, o, n) ==
    /\ ContainerIn(t, n) /\ ~EnteredIn(t, o, n)
    /\ \A m \in AboveIn(t, n) \ {n} : EnteredIn(t, o, m)

FrameType(t) ==
    [container : [of : {"caller", "iter", "copy"}, node : NodesIn(t)],
     owns : BOOLEAN, visited : BOOLEAN, depth : Nat,
     iter : [index : Nat, value : [of : {"none", "iter"}, node : Nat]]]

(* A frame is about a container that the search enters; its iterator owns  *)
(* the wrapper of the child it is at.                                      *)
FrameOK(t, o, f) ==
    /\ ContainerIn(t, f.container.node)
    /\ f.depth = Len(PathIn(t)[f.container.node])
    /\ f.iter.index <= Len(t.kids[f.container.node])
    /\ f.iter.index = 0 => f.iter.value = NoValue
    /\ f.iter.index # 0 =>
          f.iter.value = Wrapper("iter", t.kids[f.container.node][f.iter.index])
    /\ f.owns <=> f.container.of = "copy"
    /\ f.container.of = "caller" => f.container.node = Root
    /\ \A m \in AboveIn(t, f.container.node) : EnteredIn(t, o, m)

(* Depth first, the frames are the way down to the container being read,   *)
(* each borrowing the wrapper that the one above it owns.                  *)
Stack(fs) ==
    \A i \in 1 .. Len(fs) :
        /\ fs[i].depth = i - 1
        /\ fs[i].container.of # "copy"
        /\ i = 1 => fs[i].container = RootValue
        /\ i > 1 => fs[i].container = fs[i - 1].iter.value

(* Breadth first, no container is queued twice: the children of a queued   *)
(* container that are queued too are those its iterator has passed, and    *)
(* the queue holds at most two levels of the tree.                         *)
Queue(t, fs) ==
    \A i, j \in 1 .. Len(fs) :
        /\ fs[i].container.of # "iter"
        /\ fs[i].container.node = fs[j].container.node => i = j
        /\ i <= j => fs[i].depth <= fs[j].depth /\ fs[j].depth <= fs[i].depth + 1
        /\ \A k \in DOMAIN t.kids[fs[i].container.node] :
              fs[j].container.node = t.kids[fs[i].container.node][k] => k <= fs[i].iter.index

FramesOK(t, o, fs) ==
    /\ fs \in Seq(FrameType(t))
    /\ \A i \in 1 .. Len(fs) : FrameOK(t, o, fs[i])
    /\ o.depth_first => Stack(fs)
    /\ ~o.depth_first => Queue(t, fs)

(* Everything in use is allocated, and everything allocated is the         *)
(* caller's, owned by a frame, or the copy of a container refused.         *)
Heaped(t, o, fs, h, r) ==
    /\ RootValue \in h /\ NoValue \notin h
    /\ \A i \in 1 .. Len(fs) :
          fs[i].container \in h /\ (fs[i].iter.value = NoValue \/ fs[i].iter.value \in h)
    /\ \A w \in h :
          \/ w = RootValue \/ w = r
          \/ \E i \in 1 .. Len(fs) : w \in PopOwns(fs[i])
          \/ ~o.depth_first /\ w.of = "copy" /\ RefusedIn(t, o, w.node)

Inv ==
    /\ tree \in Trees /\ opts \in Options
    /\ pc \in {"idle", "busy", "done"}
    /\ FramesOK(tree, opts, frames)
    /\ Heaped(tree, opts, frames, heap, result)
    /\ value = NoValue \/ value \in heap
    /\ pc = "busy" => value = NoValue
    /\ pc = "done" => frames = <<>>
    /\ pc # "done" => result = NoValue
    /\ ~ContainerIn(tree, Root) => frames = <<>>

-----------------------------------------------------------------------------
(* What the frames own                                                        *)

\* A frame of a sequence of frames, and its parts.
LEMMA FrameParts ==
    ASSUME NEW t \in Trees, NEW f \in FrameType(t)
    PROVE  /\ f.container \in [of : {"caller", "iter", "copy"}, node : NodesIn(t)]
           /\ f.container.of \in {"caller", "iter", "copy"} /\ f.container.node \in NodesIn(t)
           /\ f.owns \in BOOLEAN /\ f.visited \in BOOLEAN /\ f.depth \in Nat
           /\ f.iter \in [index : Nat, value : [of : {"none", "iter"}, node : Nat]]
           /\ f.iter.index \in Nat
           /\ f.iter.value \in [of : {"none", "iter"}, node : Nat]
           /\ f.container = Wrapper(f.container.of, f.container.node)
  <1>1. f.container \in [of : {"caller", "iter", "copy"}, node : NodesIn(t)]
    BY DEF FrameType
  <1>2. f.iter \in [index : Nat, value : [of : {"none", "iter"}, node : Nat]]
    BY DEF FrameType
  <1>3. f.container = Wrapper(f.container.of, f.container.node)
    BY <1>1 DEF Wrapper
  <1> QED
    BY <1>1, <1>2, <1>3 DEF FrameType

\* Wrappers that differ in their maker or in their node differ.
LEMMA WrapperFacts ==
    /\ \A a, b, m, n : Wrapper(a, m) = Wrapper(b, n) => a = b /\ m = n
    /\ \A a, m : Wrapper(a, m).of = a /\ Wrapper(a, m).node = m
    /\ NoValue = Wrapper("none", 0)
    /\ RootValue = Wrapper("caller", Root)
  <1>1. \A a, m : Wrapper(a, m).of = a /\ Wrapper(a, m).node = m
    BY DEF Wrapper
  <1> QED
    BY <1>1 DEF Wrapper, NoValue, RootValue

\* No two frames are about the same container.
LEMMA NodesApart ==
    ASSUME NEW t \in Trees, NEW o \in Options, NEW fs, FramesOK(t, o, fs),
           NEW i \in 1 .. Len(fs), NEW j \in 1 .. Len(fs),
           fs[i].container.node = fs[j].container.node
    PROVE  i = j
  <1>1. CASE o.depth_first
    <2>1. FrameOK(t, o, fs[i]) /\ FrameOK(t, o, fs[j]) /\ Stack(fs)
      BY <1>1 DEF FramesOK
    <2>2. fs[i].depth = fs[j].depth
      BY <2>1 DEF FrameOK
    <2>3. fs[i].depth = i - 1 /\ fs[j].depth = j - 1
      BY <2>1 DEF Stack
    <2>4. i \in Int /\ j \in Int
      OBVIOUS
    <2>5. i - 1 = j - 1
      BY <2>2, <2>3
    <2> QED
      BY <2>4, <2>5
  <1>2. CASE ~o.depth_first
    BY <1>2 DEF FramesOK, Queue
  <1> QED
    BY <1>1, <1>2

\* The wrappers that the iterators of two frames are at differ: a node is the
\* child of one container.
LEMMA ValuesApart ==
    ASSUME NEW t \in Trees, NEW o \in Options, NEW fs, FramesOK(t, o, fs),
           NEW i \in 1 .. Len(fs), NEW j \in 1 .. Len(fs),
           fs[i].iter.value = fs[j].iter.value, fs[i].iter.value # NoValue
    PROVE  i = j
  <1>1. fs[i] \in FrameType(t) /\ fs[j] \in FrameType(t)
    BY DEF FramesOK
  <1>2. FrameOK(t, o, fs[i]) /\ FrameOK(t, o, fs[j])
    BY DEF FramesOK
  <1> DEFINE a == fs[i].container.node
             b == fs[j].container.node
             x == fs[i].iter.index
             y == fs[j].iter.index
  <1>3. a \in NodesIn(t) /\ b \in NodesIn(t) /\ x \in Nat /\ y \in Nat
    BY <1>1, FrameParts
  <1>4. x # 0 /\ y # 0 /\ x <= Len(t.kids[a]) /\ y <= Len(t.kids[b])
    BY <1>2 DEF FrameOK
  <1>5. Wrapper("iter", t.kids[a][x]) = Wrapper("iter", t.kids[b][y])
    BY <1>2, <1>4 DEF FrameOK
  <1>6. t.kids[a][x] = t.kids[b][y]
    BY <1>5, WrapperFacts
  <1> HIDE DEF a, b, x, y
  <1>7. x \in DOMAIN t.kids[a] /\ y \in DOMAIN t.kids[b]
    <2>1. t.kids[a] \in Seq(NodesIn(t)) /\ t.kids[b] \in Seq(NodesIn(t))
      BY <1>3, TreeFacts
    <2> QED
      BY <1>3, <1>4, <2>1
  <1>8. a = b
    <2>1. t.up[t.kids[a][x]] = a
      BY <1>3, <1>7, ChildFacts
    <2>2. t.up[t.kids[b][y]] = b
      BY <1>3, <1>7, ChildFacts
    <2> QED
      BY <1>6, <2>1, <2>2
  <1> QED
    BY <1>8, NodesApart DEF a, b

\* No wrapper has two owners.
LEMMA OwnersApart ==
    ASSUME NEW t \in Trees, NEW o \in Options, NEW fs, FramesOK(t, o, fs),
           NEW i \in 1 .. Len(fs), NEW j \in 1 .. Len(fs), i # j,
           NEW w \in PopOwns(fs[i]), w \in PopOwns(fs[j])
    PROVE  w = NoValue
  <1>1. fs[i] \in FrameType(t) /\ fs[j] \in FrameType(t)
    BY DEF FramesOK
  <1>2. fs[i].owns <=> fs[i].container.of = "copy"
    BY DEF FramesOK, FrameOK
  <1>3. fs[j].owns <=> fs[j].container.of = "copy"
    BY DEF FramesOK, FrameOK
  <1>4. w = fs[i].iter.value \/ (w = fs[i].container /\ w.of = "copy")
    BY <1>2 DEF PopOwns
  <1>5. w = fs[j].iter.value \/ (w = fs[j].container /\ w.of = "copy")
    BY <1>3 DEF PopOwns
  <1>6. fs[i].iter.value.of # "copy" /\ fs[j].iter.value.of # "copy"
    BY <1>1, FrameParts
  <1>7. CASE w = fs[i].iter.value
    <2>1. w = fs[j].iter.value
      BY <1>5, <1>6, <1>7
    <2> QED
      BY <1>7, <2>1, ValuesApart
  <1>8. CASE w = fs[i].container /\ w.of = "copy"
    <2>1. w = fs[j].container
      BY <1>5, <1>6, <1>8
    <2> QED
      BY <1>8, <2>1, NodesApart
  <1> QED
    BY <1>4, <1>7, <1>8

\* A container of a frame is freed with the frame itself or, depth first, with
\* the frame above it; the caller's root with none.
LEMMA BorrowedFrom ==
    ASSUME NEW t \in Trees, NEW o \in Options, NEW fs, FramesOK(t, o, fs),
           NEW i \in 1 .. Len(fs)
    PROVE  /\ RootValue \notin PopOwns(fs[i])
           /\ \A j \in 1 .. Len(fs) :
                 fs[j].container \in PopOwns(fs[i]) => i = j \/ (o.depth_first /\ j = i + 1)
           /\ \A j \in 1 .. Len(fs) :
                 fs[j].container = fs[i].iter.value => o.depth_first /\ j = i + 1
  <1>1. \A j \in 1 .. Len(fs) : fs[j] \in FrameType(t) /\ FrameOK(t, o, fs[j])
    BY DEF FramesOK
  <1>2. fs[i].iter.value.of # "copy" /\ fs[i].iter.value.of # "caller"
    BY <1>1, FrameParts
  <1>3. fs[i].owns <=> fs[i].container.of = "copy"
    BY <1>1 DEF FrameOK
  <1>4. \A w \in PopOwns(fs[i]) : w = fs[i].iter.value \/ (w = fs[i].container /\ w.of = "copy")
    BY <1>3 DEF PopOwns
  <1>5. RootValue.of = "caller"
    BY WrapperFacts
  <1>6. RootValue \notin PopOwns(fs[i])
    BY <1>2, <1>4, <1>5
  <1>7. ASSUME NEW j \in 1 .. Len(fs), fs[j].container = fs[i].iter.value
        PROVE  o.depth_first /\ j = i + 1
    <2>1. fs[j].container.of \in {"caller", "iter", "copy"}
      BY <1>1, FrameParts
    <2>2. fs[j].container.of = "iter"
      BY <1>2, <1>7, <2>1, <1>1, FrameParts
    <2>3. o.depth_first
      <3>1. ~o.depth_first => fs[j].container.of # "iter"
        BY DEF FramesOK, Queue
      <3> QED
        BY <2>2, <3>1
    <2>4. j # 1 /\ j > 1
      <3>1. j = 1 => fs[j].container = RootValue
        BY <2>3 DEF FramesOK, Stack
      <3>2. Len(fs) \in Nat
        BY DEF FramesOK
      <3> QED
        BY <1>5, <2>2, <3>1, <3>2
    <2>5. fs[j].container = fs[j - 1].iter.value
      BY <2>3, <2>4 DEF FramesOK, Stack
    <2>6. j - 1 \in 1 .. Len(fs)
      <3>1. Len(fs) \in Nat
        BY DEF FramesOK
      <3> QED
        BY <2>4, <3>1
    <2>7. fs[i].iter.value # NoValue
      <3>1. NoValue.of = "none"
        BY WrapperFacts
      <3> QED
        BY <1>7, <2>2, <3>1
    <2>8. fs[i].iter.value = fs[j - 1].iter.value
      BY <1>7, <2>5
    <2>9. i = j - 1
      BY <2>6, <2>7, <2>8, ValuesApart
    <2> QED
      BY <2>3, <2>9
  <1>8. ASSUME NEW j \in 1 .. Len(fs), fs[j].container \in PopOwns(fs[i])
        PROVE  i = j \/ (o.depth_first /\ j = i + 1)
    <2>1. CASE fs[j].container = fs[i].iter.value
      BY <1>7, <2>1
    <2>2. CASE fs[j].container = fs[i].container
      BY <2>2, NodesApart
    <2> QED
      BY <1>4, <1>8, <2>1, <2>2
  <1> QED
    BY <1>6, <1>7, <1>8

-----------------------------------------------------------------------------
(* The changes of the frames                                                  *)

\* A frame is replaced by one about the same container whose iterator is no
\* further back (asdf_container_iter_next, or the container visited); depth
\* first, only the last frame's iterator moves.
LEMMA ReplaceFrame ==
    ASSUME NEW t \in Trees, NEW o \in Options, NEW fs, FramesOK(t, o, fs),
           NEW i \in 1 .. Len(fs), NEW g \in FrameType(t), FrameOK(t, o, g),
           g.container = fs[i].container, g.depth = fs[i].depth,
           fs[i].iter.index <= g.iter.index,
           o.depth_first => i = Len(fs) \/ g.iter = fs[i].iter
    PROVE  /\ FramesOK(t, o, [fs EXCEPT ![i] = g])
           /\ Len([fs EXCEPT ![i] = g]) = Len(fs)
           /\ \A j \in 1 .. Len(fs) : [fs EXCEPT ![i] = g][j] = IF j = i THEN g ELSE fs[j]
  <1> DEFINE gs == [fs EXCEPT ![i] = g]
  <1>1. fs \in Seq(FrameType(t))
    BY DEF FramesOK
  <1>2. gs \in Seq(FrameType(t)) /\ Len(gs) = Len(fs)
    BY <1>1, ExceptSeq
  <1>3. \A j \in 1 .. Len(fs) : gs[j] = IF j = i THEN g ELSE fs[j]
    BY <1>1, ExceptSeq
  <1> HIDE DEF gs
  <1>4. \A j \in 1 .. Len(gs) : FrameOK(t, o, gs[j])
    BY <1>2, <1>3 DEF FramesOK
  <1>5. \A j \in 1 .. Len(fs) :
            gs[j].container = fs[j].container /\ gs[j].depth = fs[j].depth
    BY <1>3
  <1>6. \A j \in 1 .. Len(fs) : fs[j].iter.index \in Nat /\ gs[j].iter.index \in Nat
    BY <1>1, <1>2, FrameParts
  <1>7. \A j \in 1 .. Len(fs) : fs[j].iter.index <= gs[j].iter.index
    BY <1>3, <1>6
  <1>8. ASSUME o.depth_first PROVE Stack(gs)
    <2> SUFFICES ASSUME NEW j \in 1 .. Len(gs)
                 PROVE  /\ gs[j].depth = j - 1 /\ gs[j].container.of # "copy"
                        /\ j = 1 => gs[j].container = RootValue
                        /\ j > 1 => gs[j].container = gs[j - 1].iter.value
      BY DEF Stack
    <2>1. Stack(fs)
      BY <1>8 DEF FramesOK
    <2>2. j \in 1 .. Len(fs)
      BY <1>2
    <2>3. /\ fs[j].depth = j - 1 /\ fs[j].container.of # "copy"
          /\ j = 1 => fs[j].container = RootValue
          /\ j > 1 => fs[j].container = fs[j - 1].iter.value
      BY <2>1, <2>2 DEF Stack
    <2>4. ASSUME j > 1 PROVE gs[j - 1].iter = fs[j - 1].iter
      <3>1. Len(fs) \in Nat
        BY <1>1
      <3>2. j - 1 \in 1 .. Len(fs) /\ j - 1 # Len(fs)
        BY <2>2, <2>4, <3>1
      <3>3. j - 1 = i => g.iter = fs[i].iter
        BY <1>8, <3>2
      <3> QED
        BY <1>3, <3>2, <3>3
    <2> QED
      BY <1>5, <2>2, <2>3, <2>4
  <1>9. ASSUME ~o.depth_first PROVE Queue(t, gs)
    <2> SUFFICES ASSUME NEW a \in 1 .. Len(gs), NEW b \in 1 .. Len(gs)
                 PROVE  /\ gs[a].container.of # "iter"
                        /\ gs[a].container.node = gs[b].container.node => a = b
                        /\ a <= b => gs[a].depth <= gs[b].depth /\ gs[b].depth <= gs[a].depth + 1
                        /\ \A k \in DOMAIN t.kids[gs[a].container.node] :
                              gs[b].container.node = t.kids[gs[a].container.node][k] =>
                                  k <= gs[a].iter.index
      BY DEF Queue
    <2>1. Queue(t, fs)
      BY <1>9 DEF FramesOK
    <2>2. a \in 1 .. Len(fs) /\ b \in 1 .. Len(fs)
      BY <1>2
    <2>3. /\ gs[a].container = fs[a].container /\ gs[a].depth = fs[a].depth
          /\ gs[b].container = fs[b].container /\ gs[b].depth = fs[b].depth
      BY <1>5, <2>2
    <2>4. /\ fs[a].container.of # "iter"
          /\ fs[a].container.node = fs[b].container.node => a = b
          /\ a <= b => fs[a].depth <= fs[b].depth /\ fs[b].depth <= fs[a].depth + 1
      BY <2>1, <2>2 DEF Queue
    <2>5. ASSUME NEW k \in DOMAIN t.kids[fs[a].container.node],
                 fs[b].container.node = t.kids[fs[a].container.node][k]
          PROVE  k <= gs[a].iter.index
      <3>1. k <= fs[a].iter.index
        BY <2>1, <2>2, <2>5 DEF Queue
      <3>2. k \in Nat
        <4>1. fs[a] \in FrameType(t)
          BY <1>1, <2>2
        <4>2. fs[a].container.node \in NodesIn(t)
          BY <4>1, FrameParts
        <4>3. DOMAIN t.kids[fs[a].container.node] \subseteq Nat
          BY <4>2, KidsFacts
        <4> QED
          BY <2>5, <4>3
      <3>3. fs[a].iter.index \in Nat /\ gs[a].iter.index \in Nat
            /\ fs[a].iter.index <= gs[a].iter.index
        BY <1>6, <1>7, <2>2
      <3> QED
        BY <3>1, <3>2, <3>3
    <2> QED
      BY <2>3, <2>4, <2>5
  <1>10. FramesOK(t, o, gs)
    BY <1>2, <1>4, <1>8, <1>9 DEF FramesOK
  <1> QED
    BY <1>2, <1>3, <1>10 DEF gs

NextIn(t, f) == t.kids[f.container.node][f.iter.index + 1]

AdvancedIn(t, f) ==
    [f EXCEPT !.iter = [index |-> @.index + 1, value |-> Wrapper("iter", NextIn(t, f))]]

\* The frame after asdf_container_iter_next: at the next child, which is a child
\* of its container.
LEMMA AdvancedFacts ==
    ASSUME NEW t \in Trees, NEW o \in Options, NEW f \in FrameType(t), FrameOK(t, o, f),
           f.iter.index < Len(t.kids[f.container.node])
    PROVE  /\ NextIn(t, f) \in NodesIn(t) \ {Root}
           /\ t.up[NextIn(t, f)] = f.container.node
           /\ f.iter.index + 1 \in DOMAIN t.kids[f.container.node]
           /\ AdvancedIn(t, f) \in FrameType(t) /\ FrameOK(t, o, AdvancedIn(t, f))
           /\ AdvancedIn(t, f).container = f.container
           /\ AdvancedIn(t, f).depth = f.depth /\ AdvancedIn(t, f).owns = f.owns
           /\ AdvancedIn(t, f).visited = f.visited
           /\ AdvancedIn(t, f).iter.index = f.iter.index + 1
           /\ AdvancedIn(t, f).iter.value = Wrapper("iter", NextIn(t, f))
  <1> DEFINE n == f.container.node
             x == f.iter.index
             w == Wrapper("iter", NextIn(t, f))
             g == AdvancedIn(t, f)
  <1>1. n \in NodesIn(t) /\ x \in Nat
    BY FrameParts
  <1>2. t.kids[n] \in Seq(NodesIn(t))
    BY <1>1, TreeFacts
  <1>3. x + 1 \in DOMAIN t.kids[n] /\ x + 1 \in Nat /\ x + 1 # 0 /\ x + 1 <= Len(t.kids[n])
    <2> HIDE DEF n, x
    <2>1. Len(t.kids[n]) \in Nat /\ x < Len(t.kids[n])
      BY <1>2 DEF n, x
    <2> QED
      BY <1>1, <1>2, <2>1
  <1>4. NextIn(t, f) \in NodesIn(t) \ {Root} /\ t.up[NextIn(t, f)] = n
    <2> HIDE DEF n, x
    <2>1. t.kids[n][x + 1] \in NodesIn(t) /\ t.kids[n][x + 1] # Root
      BY <1>1, <1>3, ChildFacts
    <2>2. t.up[t.kids[n][x + 1]] = n
      BY <1>1, <1>3, ChildFacts
    <2>3. NextIn(t, f) = t.kids[n][x + 1]
      BY DEF NextIn, n, x
    <2> QED
      BY <2>1, <2>2, <2>3
  <1>5. w \in [of : {"none", "iter"}, node : Nat]
    BY <1>4, TreeFacts DEF Wrapper
  <1>6. f = [container |-> f.container, owns |-> f.owns, visited |-> f.visited,
             depth |-> f.depth, iter |-> [index |-> f.iter.index, value |-> f.iter.value]]
    BY DEF FrameType
  <1>7. g = [container |-> f.container, owns |-> f.owns, visited |-> f.visited,
             depth |-> f.depth, iter |-> [index |-> x + 1, value |-> w]]
    BY <1>6 DEF AdvancedIn, FrameType
  <1> HIDE DEF w, g, x
  <1>8. /\ g.container = f.container /\ g.depth = f.depth /\ g.owns = f.owns
        /\ g.visited = f.visited /\ g.iter.index = x + 1 /\ g.iter.value = w
    BY <1>7
  <1>9. g \in FrameType(t)
    <2>1. /\ f.container \in [of : {"caller", "iter", "copy"}, node : NodesIn(t)]
          /\ f.owns \in BOOLEAN /\ f.visited \in BOOLEAN /\ f.depth \in Nat
      BY FrameParts
    <2>2. [index |-> x + 1, value |-> w]
             \in [index : Nat, value : [of : {"none", "iter"}, node : Nat]]
      BY <1>3, <1>5
    <2> QED
      BY <1>7, <2>1, <2>2 DEF FrameType
  <1>10. w = Wrapper("iter", t.kids[n][x + 1])
    BY DEF w, NextIn, x
  <1>11. FrameOK(t, o, g)
    BY <1>3, <1>8, <1>10 DEF FrameOK
  <1> QED
    BY <1>3, <1>4, <1>8, <1>9, <1>11 DEF w, g, x

\* The frame that asdf_find_iter_push_frame makes for a child the search enters.
LEMMA NewFrame ==
    ASSUME NEW t \in Trees, NEW o \in Options, NEW c \in NodesIn(t),
           NEW n \in NodesIn(t) \ {Root}, t.up[n] = c,
           \A m \in AboveIn(t, c) : EnteredIn(t, o, m), EnteredIn(t, o, n),
           NEW of \in {"iter", "copy"}, NEW g,
           g = Frame(Wrapper(of, n), g.owns, g.visited, Len(PathIn(t)[c]) + 1),
           g.owns \in BOOLEAN, g.visited \in BOOLEAN, g.owns <=> of = "copy"
    PROVE  /\ g \in FrameType(t) /\ FrameOK(t, o, g)
           /\ g.container = Wrapper(of, n)
           /\ g.depth = Len(PathIn(t)[c]) + 1
           /\ g.iter.index = 0 /\ g.iter.value = NoValue
  <1> DEFINE w == Wrapper(of, n)
             d == Len(PathIn(t)[c]) + 1
  <1>1. w \in [of : {"caller", "iter", "copy"}, node : NodesIn(t)]
    BY DEF Wrapper
  <1>2. w.of = of /\ w.node = n
    BY WrapperFacts
  <1>3. d \in Nat /\ d = Len(PathIn(t)[n])
    <2>1. Len(PathIn(t)[c]) \in Nat
      BY PathEmpty
    <2>2. Len(PathIn(t)[n]) = Len(PathIn(t)[t.up[n]]) + 1
      BY PathOfChild
    <2> QED
      BY <2>1, <2>2
  <1>4. g = Frame(w, g.owns, g.visited, d)
    OBVIOUS
  <1> HIDE DEF w, d
  <1>5. NoValue \in [of : {"none", "iter"}, node : Nat]
    BY DEF NoValue
  <1>6. g = [container |-> w, owns |-> g.owns, visited |-> g.visited, depth |-> d,
             iter |-> [index |-> 0, value |-> NoValue]]
    BY <1>4 DEF Frame, asdf_container_iter_init
  <1>7. [index |-> 0, value |-> NoValue]
            \in [index : Nat, value : [of : {"none", "iter"}, node : Nat]]
    BY <1>5
  <1>8. g \in FrameType(t)
    BY <1>1, <1>3, <1>6, <1>7 DEF FrameType
  <1>9. /\ g.container = w /\ g.depth = d
        /\ g.iter.index = 0 /\ g.iter.value = NoValue
    BY <1>6
  <1>10. ContainerIn(t, n)
    BY DEF EnteredIn
  <1>11. ASSUME NEW m \in AboveIn(t, n) PROVE EnteredIn(t, o, m)
    <2>1. CASE m = n
      BY <2>1
    <2>2. CASE m # n
      BY <2>2, AboveChild
    <2> QED
      BY <2>1, <2>2
  <1>12. g.iter.index <= Len(t.kids[n])
    BY <1>9, KidsFacts
  <1>13. g.owns <=> g.container.of = "copy"
    BY <1>2, <1>9
  <1>14. g.container.of # "caller"
    BY <1>2, <1>9
  <1>15. FrameOK(t, o, g)
    BY <1>2, <1>3, <1>9, <1>10, <1>11, <1>12, <1>13, <1>14 DEF FrameOK
  <1> QED
    BY <1>8, <1>9, <1>15 DEF w, d

\* Depth first: the frame of the child that the last frame's iterator is at.
LEMMA PushStack ==
    ASSUME NEW t \in Trees, NEW o \in Options, NEW fs, FramesOK(t, o, fs),
           o.depth_first, Len(fs) > 0,
           NEW g \in FrameType(t), FrameOK(t, o, g),
           g.container = fs[Len(fs)].iter.value, g.container.of = "iter",
           g.depth = fs[Len(fs)].depth + 1
    PROVE  FramesOK(t, o, Append(fs, g))
  <1> DEFINE gs == Append(fs, g)
             L == Len(fs)
  <1>1. fs \in Seq(FrameType(t)) /\ L \in Nat
    BY DEF FramesOK
  <1>2. gs \in Seq(FrameType(t)) /\ Len(gs) = L + 1
    BY <1>1, AppendProperties
  <1>3. (\A i \in 1 .. L : gs[i] = fs[i]) /\ gs[L + 1] = g
    BY <1>1, AppendProperties
  <1> HIDE DEF gs
  <1>4. Stack(fs)
    BY DEF FramesOK
  <1>5. \A i \in 1 .. Len(gs) : FrameOK(t, o, gs[i])
    <2> TAKE i \in 1 .. Len(gs)
    <2>1. i \in 1 .. L \/ i = L + 1
      BY <1>1, <1>2
    <2> QED
      BY <1>3, <2>1 DEF FramesOK
  <1>6. ASSUME NEW i \in 1 .. Len(gs)
        PROVE  /\ gs[i].depth = i - 1 /\ gs[i].container.of # "copy"
               /\ i = 1 => gs[i].container = RootValue
               /\ i > 1 => gs[i].container = gs[i - 1].iter.value
    <2>1. CASE i \in 1 .. L
      <3>1. gs[i] = fs[i]
        BY <1>3, <2>1
      <3>2. i > 1 => gs[i - 1] = fs[i - 1]
        <4>1. i > 1 => i - 1 \in 1 .. L
          BY <1>1, <2>1
        <4> QED
          BY <1>3, <4>1
      <3> QED
        BY <1>4, <2>1, <3>1, <3>2 DEF Stack
    <2>2. CASE i = L + 1
      <3>1. L \in 1 .. L /\ i > 1 /\ i # 1 /\ i - 1 = L
        BY <1>1, <2>2
      <3>2. gs[i] = g /\ gs[i - 1] = fs[L]
        BY <1>3, <2>2, <3>1
      <3>3. fs[L].depth = L - 1
        BY <1>4, <3>1 DEF Stack
      <3>4. g.depth = i - 1
        BY <1>1, <2>2, <3>3
      <3> QED
        BY <3>1, <3>2, <3>4
    <2>3. i \in 1 .. L \/ i = L + 1
      BY <1>1, <1>2
    <2> QED
      BY <2>1, <2>2, <2>3
  <1>7. Stack(gs)
    BY <1>6 DEF Stack
  <1>8. FramesOK(t, o, gs)
    BY <1>2, <1>5, <1>7 DEF FramesOK
  <1> QED
    BY <1>8 DEF gs

\* Breadth first, the next child of the first frame is not queued yet.
LEMMA NextIsNew ==
    ASSUME NEW t \in Trees, NEW o \in Options, NEW fs, FramesOK(t, o, fs),
           ~o.depth_first, NEW j \in 1 .. Len(fs), NEW i \in 1 .. Len(fs),
           fs[i].iter.index + 1 \in DOMAIN t.kids[fs[i].container.node]
    PROVE  fs[j].container.node # NextIn(t, fs[i])
  <1>1. Queue(t, fs)
    BY DEF FramesOK
  <1> DEFINE x == fs[i].iter.index
             c == fs[i].container.node
  <1>2. fs[j].container.node = t.kids[c][x + 1] => x + 1 <= x
    BY <1>1 DEF Queue
  <1>3. x \in Nat
    <2>1. fs[i] \in FrameType(t)
      BY DEF FramesOK
    <2> QED
      BY <2>1, FrameParts
  <1> HIDE DEF x, c
  <1>4. ~ (x + 1 <= x)
    BY <1>3
  <1>5. NextIn(t, fs[i]) = t.kids[c][x + 1]
    BY DEF NextIn, x, c
  <1> QED
    BY <1>2, <1>4, <1>5

\* Breadth first: the frame of a child of the first frame that is not queued yet.
LEMMA PushQueue ==
    ASSUME NEW t \in Trees, NEW o \in Options, NEW fs, FramesOK(t, o, fs),
           ~o.depth_first, Len(fs) > 0,
           NEW n \in NodesIn(t) \ {Root}, NEW k \in DOMAIN t.kids[fs[1].container.node],
           t.kids[fs[1].container.node][k] = n, k <= fs[1].iter.index,
           \A j \in 1 .. Len(fs) : fs[j].container.node # n,
           NEW g \in FrameType(t), FrameOK(t, o, g),
           g.container.node = n, g.container.of = "copy",
           g.depth = fs[1].depth + 1
    PROVE  FramesOK(t, o, Append(fs, g))
  <1> DEFINE gs == Append(fs, g)
             L == Len(fs)
  <1>1. fs \in Seq(FrameType(t)) /\ L \in Nat
    BY DEF FramesOK
  <1>2. gs \in Seq(FrameType(t)) /\ Len(gs) = L + 1
    BY <1>1, AppendProperties
  <1>3. (\A i \in 1 .. L : gs[i] = fs[i]) /\ gs[L + 1] = g
    BY <1>1, AppendProperties
  <1> HIDE DEF gs
  <1>4. Queue(t, fs)
    BY DEF FramesOK
  <1>5. \A i \in 1 .. Len(gs) : FrameOK(t, o, gs[i])
    <2> TAKE i \in 1 .. Len(gs)
    <2>1. i \in 1 .. L \/ i = L + 1
      BY <1>1, <1>2
    <2> QED
      BY <1>3, <2>1 DEF FramesOK
  <1>6. 1 \in 1 .. L
    BY <1>1
  <1>7. \A i \in 1 .. L : fs[i] \in FrameType(t) /\ FrameOK(t, o, fs[i])
    BY <1>1 DEF FramesOK
  <1>8. \A i \in 1 .. L : fs[i].depth \in Nat /\ fs[i].container.node \in NodesIn(t)
    BY <1>7, FrameParts
  <1>9. ASSUME NEW i \in 1 .. L
        PROVE  fs[1].depth <= fs[i].depth /\ fs[i].depth <= fs[1].depth + 1
    <2>1. 1 <= i
      BY <1>1
    <2> QED
      BY <1>4, <1>6, <2>1 DEF Queue
  <1>10. t.up[n] = fs[1].container.node /\ t.up[n] \in NodesIn(t)
    <2>1. fs[1].container.node \in NodesIn(t)
      BY <1>6, <1>8
    <2>2. t.up[t.kids[fs[1].container.node][k]] = fs[1].container.node
      BY <2>1, ChildFacts
    <2> QED
      BY <2>1, <2>2
  <1>11. g.depth = Len(PathIn(t)[n]) /\ g.depth \in Nat
    BY FrameParts DEF FrameOK
  <1>12. ASSUME NEW a \in 1 .. L + 1, NEW b \in 1 .. L + 1
         PROVE  /\ gs[a].container.of # "iter"
                /\ gs[a].container.node = gs[b].container.node => a = b
                /\ a <= b => gs[a].depth <= gs[b].depth /\ gs[b].depth <= gs[a].depth + 1
                /\ \A x \in DOMAIN t.kids[gs[a].container.node] :
                      gs[b].container.node = t.kids[gs[a].container.node][x] =>
                          x <= gs[a].iter.index
    <2>1. CASE a \in 1 .. L /\ b \in 1 .. L
      <3>1. gs[a] = fs[a] /\ gs[b] = fs[b]
        BY <1>3, <2>1
      <3> QED
        BY <1>4, <2>1, <3>1 DEF Queue
    <2>2. CASE a \in 1 .. L /\ b = L + 1
      <3>1. gs[a] = fs[a] /\ gs[b] = g
        BY <1>3, <2>2
      <3>2. fs[a].container.of # "iter" /\ fs[a].container.node # n
        BY <1>4, <2>2 DEF Queue
      <3>3. fs[a].depth <= g.depth /\ g.depth <= fs[a].depth + 1
        BY <1>6, <1>8, <1>9, <1>11, <2>2
      <3>4. ASSUME NEW x \in DOMAIN t.kids[fs[a].container.node],
                   n = t.kids[fs[a].container.node][x]
            PROVE  x <= fs[a].iter.index
        <4>1. t.up[n] = fs[a].container.node
          <5> DEFINE c == fs[a].container.node
          <5>1. c \in NodesIn(t) /\ x \in DOMAIN t.kids[c] /\ n = t.kids[c][x]
            BY <1>8, <2>2, <3>4
          <5> HIDE DEF c
          <5>2. t.up[t.kids[c][x]] = c
            BY <5>1, ChildFacts
          <5> QED
            BY <5>1, <5>2 DEF c
        <4>2. a = 1
          BY <1>6, <1>10, <2>2, <4>1, NodesApart
        <4>3. x = k
          BY <1>6, <1>8, <3>4, <4>2, ChildApart
        <4> QED
          BY <4>2, <4>3
      <3> QED
        BY <3>1, <3>2, <3>3, <3>4
    <2>3. CASE a = L + 1 /\ b \in 1 .. L
      <3>1. gs[a] = g /\ gs[b] = fs[b] /\ ~(a <= b)
        BY <1>1, <1>3, <2>3
      <3>2. fs[b].container.node # n
        BY <2>3
      <3>3. ASSUME NEW x \in DOMAIN t.kids[n], fs[b].container.node = t.kids[n][x]
            PROVE  FALSE
        <4> DEFINE m == fs[b].container.node
        <4>1. m \in NodesIn(t) \ {Root} /\ t.up[m] = n
          BY <3>3, ChildFacts
        <4>2. Len(PathIn(t)[m]) = Len(PathIn(t)[n]) + 1
          <5> HIDE DEF m
          <5>1. Len(PathIn(t)[m]) = Len(PathIn(t)[t.up[m]]) + 1
            BY <4>1, PathOfChild
          <5> QED
            BY <4>1, <5>1
        <4>3. fs[b].depth = Len(PathIn(t)[m])
          BY <1>7, <2>3 DEF FrameOK
        <4>4. fs[b].depth = fs[1].depth + 1 + 1
          BY <1>11, <4>2, <4>3
        <4>5. fs[b].depth <= fs[1].depth + 1
          BY <1>9, <2>3
        <4> QED
          BY <1>6, <1>8, <4>4, <4>5
      <3> QED
        BY <3>1, <3>2, <3>3
    <2>4. CASE a = L + 1 /\ b = L + 1
      <3>1. gs[a] = g /\ gs[b] = g
        BY <1>3, <2>4
      <3>2. ASSUME NEW x \in DOMAIN t.kids[n], n = t.kids[n][x] PROVE FALSE
        <4>1. t.up[n] = n
          BY <3>2, ChildFacts
        <4>2. t.up[n] < n /\ n \in Nat
          BY ParentFacts
        <4> QED
          BY <4>1, <4>2
      <3>3. g.depth <= g.depth /\ g.depth <= g.depth + 1
        BY <1>11
      <3> QED
        BY <2>4, <3>1, <3>2, <3>3
    <2>5. (a \in 1 .. L \/ a = L + 1) /\ (b \in 1 .. L \/ b = L + 1)
      BY <1>1
    <2> QED
      BY <2>1, <2>2, <2>3, <2>4, <2>5
  <1>13. Queue(t, gs)
    BY <1>2, <1>12 DEF Queue
  <1>14. FramesOK(t, o, gs)
    BY <1>2, <1>5, <1>13 DEF FramesOK
  <1> QED
    BY <1>14 DEF gs

\* The frames without the first or the last of them (asdf_find_iter_pop_frame).
LEMMA RemoveFacts ==
    ASSUME NEW S, NEW fs \in Seq(S), NEW i \in 1 .. Len(fs)
    PROVE  /\ RemoveAt(fs, i) \in Seq(S) /\ Len(RemoveAt(fs, i)) = Len(fs) - 1
           /\ \A j \in 1 .. Len(fs) - 1 :
                 RemoveAt(fs, i)[j] = IF j < i THEN fs[j] ELSE fs[j + 1]
  <1> DEFINE a == SubSeq(fs, 1, i - 1)
             b == SubSeq(fs, i + 1, Len(fs))
             L == Len(fs)
  <1>1. L \in Nat /\ i \in Int /\ 1 <= i /\ i <= L
    OBVIOUS
  <1>2. a \in Seq(S) /\ Len(a) = i - 1 /\ \A j \in 1 .. i - 1 : a[j] = fs[j]
    BY <1>1
  <1>3. b \in Seq(S) /\ Len(b) = L - i /\ \A j \in 1 .. L - i : b[j] = fs[i + j]
    <2>1. \A j \in i + 1 .. L : fs[j] \in S
      BY <1>1
    <2>2. /\ b \in Seq(S) /\ Len(b) = IF i + 1 <= L THEN L - (i + 1) + 1 ELSE 0
          /\ \A j \in 1 .. L - (i + 1) + 1 : b[j] = fs[i + 1 + j - 1]
      BY <1>1, <2>1, SubSeqProperties
    <2> HIDE DEF b, L
    <2>3. Len(b) = L - i /\ L - (i + 1) + 1 = L - i
      BY <1>1, <2>2
    <2>4. \A j \in 1 .. L - i : i + 1 + j - 1 = i + j
      BY <1>1
    <2> QED
      BY <2>2, <2>3, <2>4
  <1>4. RemoveAt(fs, i) = a \o b
    BY DEF RemoveAt
  <1> HIDE DEF a, b, L
  <1>5. /\ a \o b \in Seq(S) /\ Len(a \o b) = Len(a) + Len(b)
        /\ \A j \in 1 .. Len(a) + Len(b) :
              (a \o b)[j] = IF j <= Len(a) THEN a[j] ELSE b[j - Len(a)]
    BY <1>2, <1>3, ConcatProperties
  <1>6. Len(a) + Len(b) = L - 1
    BY <1>1, <1>2, <1>3
  <1>7. ASSUME NEW j \in 1 .. L - 1
        PROVE  (a \o b)[j] = IF j < i THEN fs[j] ELSE fs[j + 1]
    <2>1. (a \o b)[j] = IF j <= Len(a) THEN a[j] ELSE b[j - Len(a)]
      BY <1>5, <1>6
    <2>2. CASE j < i
      <3>1. j \in 1 .. i - 1 /\ j <= Len(a)
        BY <1>1, <1>2, <2>2
      <3> QED
        BY <1>2, <2>1, <2>2, <3>1
    <2>3. CASE ~ (j < i)
      <3>1. j - Len(a) \in 1 .. L - i /\ ~ (j <= Len(a)) /\ i + (j - Len(a)) = j + 1
        BY <1>1, <1>2, <2>3
      <3>2. b[j - Len(a)] = fs[j + 1]
        BY <1>3, <3>1
      <3> QED
        BY <2>1, <2>3, <3>1, <3>2
    <2> QED
      BY <2>2, <2>3
  <1> QED
    BY <1>4, <1>5, <1>6, <1>7 DEF L

\* A frame is popped: the last one depth first, the first one breadth first.
LEMMA PopFrame ==
    ASSUME NEW t \in Trees, NEW o \in Options, NEW fs, FramesOK(t, o, fs),
           NEW i \in 1 .. Len(fs), o.depth_first => i = Len(fs)
    PROVE  FramesOK(t, o, RemoveAt(fs, i))
  <1> DEFINE gs == RemoveAt(fs, i)
             L == Len(fs)
             s(j) == IF j < i THEN j ELSE j + 1
  <1>1. fs \in Seq(FrameType(t)) /\ L \in Nat
    BY DEF FramesOK
  <1>2. gs \in Seq(FrameType(t)) /\ Len(gs) = L - 1
    BY <1>1, RemoveFacts
  <1>3. \A j \in 1 .. L - 1 : gs[j] = fs[s(j)] /\ s(j) \in 1 .. L
    <2> TAKE j \in 1 .. L - 1
    <2>1. gs[j] = IF j < i THEN fs[j] ELSE fs[j + 1]
      BY <1>1, RemoveFacts
    <2>2. s(j) \in 1 .. L
      BY <1>1
    <2> QED
      BY <2>1, <2>2
  <1> HIDE DEF gs
  <1>4. \A j \in 1 .. Len(gs) : FrameOK(t, o, gs[j])
    BY <1>2, <1>3 DEF FramesOK
  <1>5. ASSUME o.depth_first PROVE Stack(gs)
    <2>1. Stack(fs)
      BY <1>5 DEF FramesOK
    <2>2. ASSUME NEW j \in 1 .. L - 1
          PROVE  /\ gs[j].depth = j - 1 /\ gs[j].container.of # "copy"
                 /\ j = 1 => gs[j].container = RootValue
                 /\ j > 1 => gs[j].container = gs[j - 1].iter.value
      <3>1. s(j) = j /\ j \in 1 .. L
        BY <1>1, <1>5
      <3>2. j > 1 => j - 1 \in 1 .. L - 1 /\ s(j - 1) = j - 1
        BY <1>1, <1>5
      <3>3. gs[j] = fs[j] /\ (j > 1 => gs[j - 1] = fs[j - 1])
        BY <1>3, <3>1, <3>2
      <3> QED
        BY <2>1, <3>1, <3>3 DEF Stack
    <2> QED
      BY <1>2, <2>2 DEF Stack
  <1>6. ASSUME ~o.depth_first PROVE Queue(t, gs)
    <2>1. Queue(t, fs)
      BY <1>6 DEF FramesOK
    <2>2. ASSUME NEW a \in 1 .. L - 1, NEW b \in 1 .. L - 1
          PROVE  /\ gs[a].container.of # "iter"
                 /\ gs[a].container.node = gs[b].container.node => a = b
                 /\ a <= b => gs[a].depth <= gs[b].depth /\ gs[b].depth <= gs[a].depth + 1
                 /\ \A k \in DOMAIN t.kids[gs[a].container.node] :
                       gs[b].container.node = t.kids[gs[a].container.node][k] =>
                           k <= gs[a].iter.index
      <3>1. (s(a) = s(b) => a = b) /\ (a <= b => s(a) <= s(b))
        BY <1>1
      <3>2. s(a) \in 1 .. L /\ s(b) \in 1 .. L /\ gs[a] = fs[s(a)] /\ gs[b] = fs[s(b)]
        BY <1>3
      <3> HIDE DEF s
      <3> QED
        BY <2>1, <3>1, <3>2 DEF Queue
    <2> QED
      BY <1>2, <2>2 DEF Queue
  <1>7. FramesOK(t, o, gs)
    BY <1>2, <1>4, <1>5, <1>6 DEF FramesOK
  <1> QED
    BY <1>7 DEF gs

-----------------------------------------------------------------------------
(* The changes of the heap                                                    *)

\* A frame is visited: nothing is allocated or freed.
LEMMA HeapVisit ==
    ASSUME NEW t \in Trees, NEW o \in Options, NEW fs, NEW gs, NEW h, NEW r,
           Heaped(t, o, fs, h, r), Len(gs) = Len(fs),
           \A j \in 1 .. Len(fs) : /\ gs[j].container = fs[j].container
                                   /\ gs[j].owns = fs[j].owns /\ gs[j].iter = fs[j].iter
    PROVE  Heaped(t, o, gs, h, r)
  <1>1. \A j \in 1 .. Len(fs) : PopOwns(gs[j]) = PopOwns(fs[j])
    BY DEF PopOwns
  <1> QED
    BY <1>1 DEF Heaped

\* asdf_container_iter_next: the wrapper of the child before is freed, which no
\* other frame uses, and one for the next child allocated.
LEMMA HeapAdvance ==
    ASSUME NEW t \in Trees, NEW o \in Options, NEW fs, FramesOK(t, o, fs), NEW h, NEW r,
           Heaped(t, o, fs, h, r),
           NEW i \in 1 .. Len(fs), o.depth_first => i = Len(fs),
           NEW gs, Len(gs) = Len(fs), NEW n,
           \A j \in 1 .. Len(fs) : j # i => gs[j] = fs[j],
           gs[i].container = fs[i].container, gs[i].owns = fs[i].owns,
           gs[i].iter.value = Wrapper("iter", n)
    PROVE  Heaped(t, o, gs, (h \ {fs[i].iter.value}) \cup {Wrapper("iter", n)}, r)
  <1> DEFINE w == Wrapper("iter", n)
             v == fs[i].iter.value
             hh == (h \ {v}) \cup {w}
             L == Len(fs)
  <1>1. RootValue # w /\ NoValue # w
    BY WrapperFacts
  <1>2. v \in PopOwns(fs[i])
    BY DEF PopOwns
  <1>3. RootValue # v
    BY <1>2, BorrowedFrom
  <1>4. L \in Nat
    BY DEF FramesOK
  <1>5. ASSUME NEW j \in 1 .. L PROVE gs[j].container \in hh
    <2>1. gs[j].container = fs[j].container
      OBVIOUS
    <2>2. fs[j].container \in h
      BY DEF Heaped
    <2>3. fs[j].container # v
      <3>1. fs[j].container = v => o.depth_first /\ j = i + 1
        BY BorrowedFrom
      <3>2. o.depth_first => j # i + 1
        BY <1>4
      <3> QED
        BY <3>1, <3>2
    <2> QED
      BY <2>1, <2>2, <2>3
  <1>6. ASSUME NEW j \in 1 .. L PROVE gs[j].iter.value = NoValue \/ gs[j].iter.value \in hh
    <2>1. CASE j = i
      BY <2>1
    <2>2. CASE j # i
      <3>1. gs[j].iter.value = fs[j].iter.value
        BY <2>2
      <3>2. fs[j].iter.value = NoValue \/ fs[j].iter.value \in h
        BY DEF Heaped
      <3>3. fs[j].iter.value = v => v = NoValue
        BY <2>2, ValuesApart
      <3> QED
        BY <3>1, <3>2, <3>3
    <2> QED
      BY <2>1, <2>2
  <1>7. ASSUME NEW x \in hh
        PROVE  \/ x = RootValue \/ x = r
               \/ \E j \in 1 .. L : x \in PopOwns(gs[j])
               \/ ~o.depth_first /\ x.of = "copy" /\ RefusedIn(t, o, x.node)
    <2>1. CASE x = w
      <3>1. x \in PopOwns(gs[i])
        BY <2>1 DEF PopOwns
      <3> QED
        BY <3>1
    <2>2. CASE x \in h /\ x # v
      <3>1. ASSUME NEW j \in 1 .. L, x \in PopOwns(fs[j]) PROVE x \in PopOwns(gs[j])
        <4>1. CASE j # i
          BY <3>1, <4>1
        <4>2. CASE j = i
          BY <2>2, <3>1, <4>2 DEF PopOwns
        <4> QED
          BY <4>1, <4>2
      <3>2. \/ x = RootValue \/ x = r
            \/ \E j \in 1 .. L : x \in PopOwns(fs[j])
            \/ ~o.depth_first /\ x.of = "copy" /\ RefusedIn(t, o, x.node)
        BY <2>2 DEF Heaped
      <3> QED
        BY <3>1, <3>2
    <2> QED
      BY <2>1, <2>2
  <1>8. RootValue \in hh /\ NoValue \notin hh
    BY <1>1, <1>3 DEF Heaped
  <1> HIDE DEF hh
  <1>9. Heaped(t, o, gs, hh, r)
    BY <1>5, <1>6, <1>7, <1>8 DEF Heaped
  <1> QED
    BY <1>9 DEF hh

\* A frame is pushed: breadth first it owns a copy allocated for it.
LEMMA HeapPush ==
    ASSUME NEW t \in Trees, NEW o \in Options, NEW fs, FramesOK(t, o, fs), NEW h, NEW r,
           Heaped(t, o, fs, h, r), NEW g \in FrameType(t), g.iter.value = NoValue,
           NEW C, C \subseteq {g.container}, C # {} => g.owns, NoValue \notin C,
           g.container \in h \cup C
    PROVE  Heaped(t, o, Append(fs, g), h \cup C, r)
  <1> DEFINE gs == Append(fs, g)
             L == Len(fs)
             hh == h \cup C
  <1>1. fs \in Seq(FrameType(t)) /\ L \in Nat
    BY DEF FramesOK
  <1>2. gs \in Seq(FrameType(t)) /\ Len(gs) = L + 1
    BY <1>1, AppendProperties
  <1>3. (\A i \in 1 .. L : gs[i] = fs[i]) /\ gs[L + 1] = g
    BY <1>1, AppendProperties
  <1> HIDE DEF gs
  <1>4. L + 1 \in 1 .. L + 1 /\ (\A i \in 1 .. L : i \in 1 .. L + 1)
    BY <1>1
  <1>5. ASSUME NEW j \in 1 .. L + 1
        PROVE  gs[j].container \in hh /\ (gs[j].iter.value = NoValue \/ gs[j].iter.value \in hh)
    <2>1. j \in 1 .. L \/ j = L + 1
      BY <1>1
    <2> QED
      BY <1>3, <2>1 DEF Heaped
  <1>6. ASSUME NEW x \in hh
        PROVE  \/ x = RootValue \/ x = r
               \/ \E j \in 1 .. L + 1 : x \in PopOwns(gs[j])
               \/ ~o.depth_first /\ x.of = "copy" /\ RefusedIn(t, o, x.node)
    <2>1. CASE x \in h
      <3>1. \/ x = RootValue \/ x = r
            \/ \E j \in 1 .. L : x \in PopOwns(fs[j])
            \/ ~o.depth_first /\ x.of = "copy" /\ RefusedIn(t, o, x.node)
        BY <2>1 DEF Heaped
      <3>2. \A j \in 1 .. L : PopOwns(gs[j]) = PopOwns(fs[j])
        BY <1>3
      <3> QED
        BY <1>4, <3>1, <3>2
    <2>2. CASE x \in C
      <3>1. x \in PopOwns(g)
        BY <2>2 DEF PopOwns
      <3> QED
        BY <1>3, <1>4, <3>1
    <2> QED
      BY <2>1, <2>2
  <1>7. RootValue \in hh /\ NoValue \notin hh
    BY DEF Heaped
  <1> HIDE DEF hh
  <1>8. Heaped(t, o, gs, hh, r)
    BY <1>2, <1>5, <1>6, <1>7 DEF Heaped
  <1> QED
    BY <1>8 DEF gs, hh

\* Breadth first, the copy of a container that is refused stays behind.
LEMMA HeapLeak ==
    ASSUME NEW t \in Trees, NEW o \in Options, NEW fs, NEW h, NEW r,
           Heaped(t, o, fs, h, r), ~o.depth_first, NEW n, RefusedIn(t, o, n)
    PROVE  Heaped(t, o, fs, h \cup {Wrapper("copy", n)}, r)
  <1> DEFINE w == Wrapper("copy", n)
  <1>1. w.of = "copy" /\ w.node = n /\ w # NoValue
    BY WrapperFacts
  <1> HIDE DEF w
  <1>2. Heaped(t, o, fs, h \cup {w}, r)
    BY <1>1 DEF Heaped
  <1> QED
    BY <1>2 DEF w

\* asdf_find_iter_pop_frame frees nothing that another frame uses.
LEMMA HeapPop ==
    ASSUME NEW t \in Trees, NEW o \in Options, NEW fs, FramesOK(t, o, fs), NEW h, NEW r,
           Heaped(t, o, fs, h, r),
           NEW i \in 1 .. Len(fs), o.depth_first => i = Len(fs)
    PROVE  Heaped(t, o, RemoveAt(fs, i), h \ PopOwns(fs[i]), r)
  <1> DEFINE gs == RemoveAt(fs, i)
             L == Len(fs)
             s(j) == IF j < i THEN j ELSE j + 1
             hh == h \ PopOwns(fs[i])
  <1>1. fs \in Seq(FrameType(t)) /\ L \in Nat
    BY DEF FramesOK
  <1>2. Len(gs) = L - 1
    BY <1>1, RemoveFacts
  <1>3. \A j \in 1 .. L - 1 : gs[j] = fs[s(j)] /\ s(j) \in 1 .. L /\ s(j) # i
    <2> TAKE j \in 1 .. L - 1
    <2>1. gs[j] = IF j < i THEN fs[j] ELSE fs[j + 1]
      BY <1>1, RemoveFacts
    <2>2. s(j) \in 1 .. L /\ s(j) # i
      BY <1>1
    <2> QED
      BY <2>1, <2>2
  <1>4. \A k \in 1 .. L : k # i => \E j \in 1 .. L - 1 : s(j) = k
    <2> TAKE k \in 1 .. L
    <2> HAVE k # i
    <2>1. CASE k < i
      <3>1. k \in 1 .. L - 1 /\ s(k) = k
        BY <1>1, <2>1
      <3> QED
        BY <3>1
    <2>2. CASE ~ (k < i)
      <3>1. k - 1 \in 1 .. L - 1 /\ s(k - 1) = k
        BY <1>1, <2>2
      <3> QED
        BY <3>1
    <2> QED
      BY <2>1, <2>2
  <1> HIDE DEF gs, s
  <1>5. ASSUME NEW k \in 1 .. L, k # i
        PROVE  fs[k].container \in hh /\ (fs[k].iter.value = NoValue \/ fs[k].iter.value \in hh)
    <2>1. fs[k].container \in h /\ (fs[k].iter.value = NoValue \/ fs[k].iter.value \in h)
      BY DEF Heaped
    <2>2. fs[k].container \notin PopOwns(fs[i])
      <3>1. fs[k].container \in PopOwns(fs[i]) => i = k \/ (o.depth_first /\ k = i + 1)
        BY BorrowedFrom
      <3>2. o.depth_first => k # i + 1
        BY <1>1
      <3> QED
        BY <1>5, <3>1, <3>2
    <2>3. fs[k].iter.value \in PopOwns(fs[i]) => fs[k].iter.value = NoValue
      <3>1. fs[k].iter.value \in PopOwns(fs[k])
        BY DEF PopOwns
      <3> QED
        BY <1>5, <3>1, OwnersApart
    <2> QED
      BY <2>1, <2>2, <2>3
  <1>6. ASSUME NEW j \in 1 .. L - 1
        PROVE  gs[j].container \in hh /\ (gs[j].iter.value = NoValue \/ gs[j].iter.value \in hh)
    BY <1>3, <1>5
  <1>7. ASSUME NEW x \in hh
        PROVE  \/ x = RootValue \/ x = r
               \/ \E j \in 1 .. L - 1 : x \in PopOwns(gs[j])
               \/ ~o.depth_first /\ x.of = "copy" /\ RefusedIn(t, o, x.node)
    <2>1. \/ x = RootValue \/ x = r
          \/ \E k \in 1 .. L : x \in PopOwns(fs[k])
          \/ ~o.depth_first /\ x.of = "copy" /\ RefusedIn(t, o, x.node)
      BY DEF Heaped
    <2>2. ASSUME NEW k \in 1 .. L, x \in PopOwns(fs[k])
          PROVE  \E j \in 1 .. L - 1 : x \in PopOwns(gs[j])
      <3>1. k # i
        BY <2>2
      <3>2. PICK j \in 1 .. L - 1 : s(j) = k
        BY <1>4, <3>1
      <3> QED
        BY <1>3, <2>2, <3>2
    <2> QED
      BY <2>1, <2>2
  <1>8. RootValue \in hh /\ NoValue \notin hh
    BY BorrowedFrom DEF Heaped
  <1> HIDE DEF hh
  <1>9. Heaped(t, o, gs, hh, r)
    BY <1>2, <1>6, <1>7, <1>8 DEF Heaped
  <1> QED
    BY <1>9 DEF gs, hh

-----------------------------------------------------------------------------
(* The steps of the search                                                    *)

\* What the model says of the tree and the options in force.
LEMMA InForce ==
    /\ Nodes = NodesIn(tree) /\ Path = PathIn(tree)
    /\ \A n : IsContainer(n) <=> ContainerIn(tree, n)
    /\ \A n : AtOrAbove(n) = AboveIn(tree, n)
    /\ \A n : Entered(n) <=> EnteredIn(tree, opts, n)
    /\ \A n : Refused(n) <=> RefusedIn(tree, opts, n)
    /\ \A n : DescendPred(n) <=> DescendIn(tree, opts, n)
  <1>1. Nodes = NodesIn(tree)
    BY DEF Nodes, NodesIn
  <1>2. Path = PathIn(tree)
    BY <1>1 DEF Path, PathIn, PosIn
  <1>3. \A n : IsContainer(n) <=> ContainerIn(tree, n)
    BY DEF IsContainer, ContainerIn
  <1>4. \A n : AtOrAbove(n) = AboveIn(tree, n)
    BY <1>1, <1>2 DEF AtOrAbove, AboveIn
  <1>5. \A n : DescendPred(n) <=> DescendIn(tree, opts, n)
    BY DEF DescendPred, DescendIn
  <1>6. \A n : Entered(n) <=> EnteredIn(tree, opts, n)
    BY <1>2, <1>3, <1>5 DEF Entered, EnteredIn
  <1>7. \A n : Refused(n) <=> RefusedIn(tree, opts, n)
    BY <1>3, <1>4, <1>6 DEF Refused, RefusedIn
  <1> QED
    BY <1>1, <1>2, <1>3, <1>4, <1>5, <1>6, <1>7

\* The frame a step works on: the last one depth first, the first one otherwise.
LEMMA TopFacts ==
    ASSUME Inv, frames # <<>>
    PROVE  /\ Top \in 1 .. Len(frames) /\ (opts.depth_first => Top = Len(frames))
           /\ (~opts.depth_first => Top = 1) /\ Len(frames) \in Nat /\ Len(frames) > 0
           /\ frames[Top] \in FrameType(tree) /\ FrameOK(tree, opts, frames[Top])
           /\ frames \in Seq(FrameType(tree))
           /\ frames[Top].container.node \in NodesIn(tree)
           /\ \A m \in AboveIn(tree, frames[Top].container.node) : EnteredIn(tree, opts, m)
           /\ frames[Top].depth = Len(PathIn(tree)[frames[Top].container.node])
  <1>1. frames \in Seq(FrameType(tree)) /\ tree \in Trees
    BY DEF Inv, FramesOK
  <1>2. Len(frames) \in Nat /\ Len(frames) > 0
    BY <1>1
  <1>3. Top \in 1 .. Len(frames) /\ (opts.depth_first => Top = Len(frames))
        /\ (~opts.depth_first => Top = 1)
    BY <1>2 DEF Top
  <1>4. frames[Top] \in FrameType(tree) /\ FrameOK(tree, opts, frames[Top])
    BY <1>1, <1>3 DEF Inv, FramesOK
  <1>5. frames[Top].container.node \in NodesIn(tree)
    BY <1>1, <1>4, FrameParts
  <1> QED
    BY <1>1, <1>2, <1>3, <1>4, <1>5 DEF FrameOK

\* A step that leaves frames and heap in order and yields an allocated wrapper,
\* or none, keeps the invariant.
LEMMA YieldKeeps ==
    ASSUME Inv, pc = "busy", frames # <<>>, UNCHANGED <<tree, opts, result>>,
           FramesOK(tree, opts, frames'), Heaped(tree, opts, frames', heap', result),
           NEW w, w = NoValue \/ w \in heap', Yield(w)
    PROVE  Inv'
  <1>1. value = NoValue /\ ContainerIn(tree, Root)
    BY DEF Inv
  <1>2. /\ value' = NoValue \/ value' \in heap'
        /\ pc' \in {"idle", "busy"} /\ (pc' = "busy" => value' = NoValue)
    BY <1>1 DEF Yield
  <1>3. FramesOK(tree, opts, frames)' /\ Heaped(tree, opts, frames, heap, result)'
    OBVIOUS
  <1> QED
    BY <1>1, <1>2, <1>3 DEF Inv

\* asdf_find_iter_push_frame decides as the reference does.
LEMMA PushDecides ==
    ASSUME Inv, frames # <<>>, NEW n \in NodesIn(tree) \ {Root}, IsContainer(n),
           tree.up[n] = frames[Top].container.node
    PROVE  /\ ~PushRefused(n, frames[Top].depth + 1) => EnteredIn(tree, opts, n)
           /\ PushRefused(n, frames[Top].depth + 1) => RefusedIn(tree, opts, n)
  <1> DEFINE d == frames[Top].depth + 1
             m == opts.max_depth
  <1>1. tree \in Trees /\ opts \in Options
    BY DEF Inv
  <1>2. m \in Int
    BY <1>1, TreesAssumption DEF Options
  <1>3. Len(frames) > 0
    BY TopFacts
  <1>4. d = Len(PathIn(tree)[n]) /\ d \in Nat
    <2>1. Len(PathIn(tree)[n]) = Len(PathIn(tree)[tree.up[n]]) + 1
      BY <1>1, PathOfChild
    <2>2. Len(PathIn(tree)[n]) \in Nat
      BY <1>1, PathEmpty
    <2> QED
      BY <2>1, <2>2, TopFacts
  <1>5. ContainerIn(tree, n) /\ (DescendPred(n) <=> DescendIn(tree, opts, n))
    BY InForce
  <1>6. PushRefused(n, d) <=> (m >= 0 /\ d > m) \/ ~DescendIn(tree, opts, n)
    BY <1>3, <1>5 DEF PushRefused
  <1> HIDE DEF d, m
  <1>7. EnteredIn(tree, opts, n) <=> DescendIn(tree, opts, n) /\ (m < 0 \/ d <= m)
    BY <1>4, <1>5 DEF EnteredIn, m
  <1>8. PushRefused(n, d) <=> ~EnteredIn(tree, opts, n)
    <2>1. (m >= 0 /\ d > m) <=> ~ (m < 0 \/ d <= m)
      BY <1>2, <1>4
    <2> QED
      BY <1>6, <1>7, <2>1
  <1>9. ASSUME NEW x \in AboveIn(tree, n) \ {n} PROVE EnteredIn(tree, opts, x)
    <2>1. x \in AboveIn(tree, tree.up[n])
      BY <1>1, AboveChild
    <2> QED
      BY <2>1, TopFacts
  <1> QED
    BY <1>5, <1>8, <1>9 DEF RefusedIn, d

\* The initial state: the frame of the root.
LEMMA InvInit ==
    ASSUME Init
    PROVE  Inv
  <1>1. tree \in Trees /\ opts \in Options
    BY DEF Init, TypeOfInit, Options
  <1>2. Root \in NodesIn(tree) /\ Root \in Nat
    BY <1>1, TreeFacts
  <1>3. opts.max_depth \in Int
    BY <1>1, TreesAssumption DEF Options
  <1>4. NoValue # RootValue
    BY WrapperFacts
  <1>5. CASE ~IsContainer(Root)
    <2>1. frames = <<>>
      BY <1>5 DEF Init
    <2>2. FramesOK(tree, opts, <<>>)
      <3>1. <<>> \in Seq(FrameType(tree)) /\ Len(<<>>) = 0
        OBVIOUS
      <3> QED
        BY <3>1 DEF FramesOK, Stack, Queue
    <2>3. Heaped(tree, opts, <<>>, {RootValue}, NoValue)
      BY <1>4 DEF Heaped
    <2> QED
      BY <1>1, <2>1, <2>2, <2>3 DEF Init, Inv
  <1>6. CASE IsContainer(Root)
    <2> DEFINE f == Frame(RootValue, FALSE, FALSE, 0)
    <2>1. frames = <<f>>
      BY <1>6 DEF Init
    <2>2. f = [container |-> RootValue, owns |-> FALSE, visited |-> FALSE, depth |-> 0,
               iter |-> [index |-> 0, value |-> NoValue]]
      BY DEF Frame, asdf_container_iter_init
    <2> HIDE DEF f
    <2>3. RootValue \in [of : {"caller", "iter", "copy"}, node : NodesIn(tree)]
          /\ RootValue.of = "caller" /\ RootValue.node = Root
      BY <1>2 DEF RootValue, Wrapper
    <2>4. [index |-> 0, value |-> NoValue]
              \in [index : Nat, value : [of : {"none", "iter"}, node : Nat]]
      BY DEF NoValue
    <2>5. f \in FrameType(tree)
      BY <2>2, <2>3, <2>4 DEF FrameType
    <2>6. /\ f.container = RootValue /\ f.owns = FALSE /\ f.depth = 0
          /\ f.iter.index = 0 /\ f.iter.value = NoValue
      BY <2>2
    <2>7. Len(PathIn(tree)[Root]) = 0
      BY <1>1, <1>2, PathEmpty
    <2>8. ContainerIn(tree, Root)
      BY <1>6, InForce
    <2>9. EnteredIn(tree, opts, Root)
      BY <1>3, <2>7, <2>8 DEF EnteredIn
    <2>10. \A m \in AboveIn(tree, Root) : EnteredIn(tree, opts, m)
      BY <1>1, <2>9, AboveRoot
    <2>11. 0 <= Len(tree.kids[Root])
      BY <1>1, <1>2, KidsFacts
    <2>12. FrameOK(tree, opts, f)
      BY <2>3, <2>6, <2>7, <2>8, <2>10, <2>11 DEF FrameOK
    <2>13. <<f>> \in Seq(FrameType(tree)) /\ Len(<<f>>) = 1 /\ <<f>>[1] = f
      BY <2>5
    <2>14. \A i \in 1 .. 1 : i = 1
      OBVIOUS
    <2>15. Stack(<<f>>)
      BY <2>3, <2>6, <2>13, <2>14 DEF Stack
    <2>16. Queue(tree, <<f>>)
      <3>1. ASSUME NEW k \in DOMAIN tree.kids[Root] PROVE Root # tree.kids[Root][k]
        BY <1>1, <1>2, TreeFacts
      <3> QED
        BY <2>3, <2>6, <2>13, <2>14, <3>1 DEF Queue
    <2>17. FramesOK(tree, opts, <<f>>)
      BY <2>12, <2>13, <2>14, <2>15, <2>16 DEF FramesOK
    <2>18. Heaped(tree, opts, <<f>>, {RootValue}, NoValue)
      BY <1>4, <2>6, <2>13, <2>14 DEF Heaped
    <2> QED
      BY <1>1, <2>1, <2>8, <2>17, <2>18 DEF Init, Inv
  <1> QED
    BY <1>5, <1>6

\* A container not visited yet is yielded.
LEMMA VisitKeeps ==
    ASSUME Inv, StepVisit
    PROVE  Inv'
  <1> DEFINE f == frames[Top]
             g == [f EXCEPT !.visited = TRUE]
  <1>1. pc = "busy" /\ frames # <<>> /\ UNCHANGED <<tree, opts, heap, result>>
    BY DEF StepVisit
  <1>2. tree \in Trees /\ opts \in Options /\ FramesOK(tree, opts, frames)
    BY DEF Inv
  <1>3. Top \in 1 .. Len(frames) /\ f \in FrameType(tree) /\ FrameOK(tree, opts, f)
    BY <1>1, TopFacts
  <1>4. frames' = [frames EXCEPT ![Top] = g]
    BY DEF StepVisit
  <1> HIDE DEF f
  <1>5. g \in FrameType(tree)
    BY <1>3 DEF FrameType
  <1>6. g.container = f.container /\ g.depth = f.depth /\ g.owns = f.owns /\ g.iter = f.iter
    BY <1>3 DEF FrameType
  <1> HIDE DEF g
  <1>7. FrameOK(tree, opts, g)
    BY <1>3, <1>6 DEF FrameOK
  <1>8. g.iter.index <= g.iter.index
    BY <1>2, <1>5, FrameParts
  <1>9. FramesOK(tree, opts, frames')
    BY <1>2, <1>3, <1>4, <1>5, <1>6, <1>7, <1>8, ReplaceFrame DEF f
  <1>10. /\ Len(frames') = Len(frames)
         /\ \A j \in 1 .. Len(frames) : frames'[j] = IF j = Top THEN g ELSE frames[j]
    BY <1>2, <1>3, <1>4, <1>5, <1>6, <1>7, <1>8, ReplaceFrame DEF f
  <1>11. \A j \in 1 .. Len(frames) :
             /\ frames'[j].container = frames[j].container
             /\ frames'[j].owns = frames[j].owns /\ frames'[j].iter = frames[j].iter
    BY <1>6, <1>10 DEF f
  <1>12. Heaped(tree, opts, frames', heap', result)
    <2>1. Heaped(tree, opts, frames, heap, result)
      BY DEF Inv
    <2>2. Heaped(tree, opts, frames', heap, result)
      BY <1>2, <1>10, <1>11, <2>1, HeapVisit
    <2> QED
      BY <1>1, <2>2
  <1>13. Yield(f.container)
    BY DEF StepVisit, f
  <1>14. f.container \in heap'
    BY <1>1, <1>3 DEF Inv, Heaped, f
  <1> QED
    BY <1>1, <1>9, <1>12, <1>13, <1>14, YieldKeeps

\* What both kinds of search have done once the iterator has moved on.
LEMMA AdvanceKeeps ==
    ASSUME Inv, frames # <<>>, HasNext(frames[Top])
    PROVE  LET f == frames[Top]
               gs == [frames EXCEPT ![Top] = Advanced(f)]
               n == NextChild(f)
               k == f.iter.index + 1
           IN  /\ FramesOK(tree, opts, gs) /\ Heaped(tree, opts, gs, HeapAdvanced(f), result)
               /\ n \in NodesIn(tree) \ {Root} /\ n = NextIn(tree, f)
               /\ tree.up[n] = f.container.node
               /\ Len(gs) = Len(frames)
               /\ gs[Top].iter.value = Wrapper("iter", n) /\ gs[Top].container = f.container
               /\ gs[Top].depth = f.depth
               /\ gs[Top].iter.index = k /\ k \in DOMAIN tree.kids[f.container.node]
               /\ \A j \in 1 .. Len(frames) : j # Top => gs[j] = frames[j]
               /\ Wrapper("iter", n) \in HeapAdvanced(f)
  <1> DEFINE f == frames[Top]
             g == Advanced(f)
             gs == [frames EXCEPT ![Top] = g]
             n == NextChild(f)
             k == f.iter.index + 1
  <1>1. tree \in Trees /\ opts \in Options /\ FramesOK(tree, opts, frames)
        /\ Heaped(tree, opts, frames, heap, result)
    BY DEF Inv
  <1>2. /\ Top \in 1 .. Len(frames) /\ f \in FrameType(tree) /\ FrameOK(tree, opts, f)
        /\ (opts.depth_first => Top = Len(frames))
    BY TopFacts
  <1>3. n = NextIn(tree, f)
    BY DEF NextChild, NextIn
  <1>4. g = AdvancedIn(tree, f)
    BY <1>3 DEF Advanced, AdvancedIn
  <1>5. f.iter.index < Len(tree.kids[f.container.node])
    BY DEF HasNext
  <1> HIDE DEF f, g, n
  <1>6. /\ n \in NodesIn(tree) \ {Root} /\ tree.up[n] = f.container.node
        /\ k \in DOMAIN tree.kids[f.container.node]
        /\ g \in FrameType(tree) /\ FrameOK(tree, opts, g)
        /\ g.container = f.container /\ g.depth = f.depth /\ g.owns = f.owns
        /\ g.iter.index = k /\ g.iter.value = Wrapper("iter", n)
    BY <1>1, <1>2, <1>3, <1>4, <1>5, AdvancedFacts
  <1>7. f.iter.index <= g.iter.index
    <2>1. f.iter.index \in Nat
      BY <1>1, <1>2, FrameParts
    <2> QED
      BY <1>6, <2>1
  <1>8. FramesOK(tree, opts, gs)
    BY <1>1, <1>2, <1>6, <1>7, ReplaceFrame DEF f
  <1>9. Len(gs) = Len(frames) /\ \A j \in 1 .. Len(frames) : gs[j] = IF j = Top THEN g ELSE frames[j]
    BY <1>1, <1>2, <1>6, <1>7, ReplaceFrame DEF f
  <1> HIDE DEF gs
  <1>10. gs[Top] = g /\ \A j \in 1 .. Len(frames) : j # Top => gs[j] = frames[j]
    BY <1>2, <1>9
  <1>11. HeapAdvanced(f) = (heap \ {f.iter.value}) \cup {Wrapper("iter", n)}
    BY DEF HeapAdvanced, n
  <1>12. Heaped(tree, opts, gs, (heap \ {f.iter.value}) \cup {Wrapper("iter", n)}, result)
    BY <1>1, <1>2, <1>6, <1>9, <1>10, HeapAdvance DEF f
  <1>13. Wrapper("iter", n) \in HeapAdvanced(f)
    BY <1>11
  <1> QED
    BY <1>3, <1>6, <1>8, <1>9, <1>10, <1>11, <1>12, <1>13 DEF f, g, gs, n

\* A step depth first: the next child is yielded, entered or passed over.
LEMMA DfsKeeps ==
    ASSUME Inv, StepDfs
    PROVE  Inv'
  <1> DEFINE f == frames[Top]
             n == NextChild(f)
             w == Wrapper("iter", n)
             gs == [frames EXCEPT ![Top] = Advanced(f)]
             g == Frame(w, FALSE, FALSE, f.depth + 1)
             enters == IsContainer(n) /\ ~PushRefused(n, f.depth + 1)
             y == IF IsContainer(n) THEN NoValue ELSE w
  <1>1. /\ pc = "busy" /\ frames # <<>> /\ UNCHANGED <<tree, opts, result>>
        /\ opts.depth_first /\ HasNext(f)
    BY DEF StepDfs
  <1>2. /\ heap' = HeapAdvanced(f)
        /\ frames' = IF enters THEN Append(gs, g) ELSE gs
        /\ Yield(y)
    BY DEF StepDfs
  <1>3. tree \in Trees /\ opts \in Options
    BY DEF Inv
  <1>4. /\ Top = Len(frames) /\ Len(frames) > 0 /\ f.container.node \in NodesIn(tree)
        /\ \A m \in AboveIn(tree, f.container.node) : EnteredIn(tree, opts, m)
        /\ f.depth = Len(PathIn(tree)[f.container.node])
    BY <1>1, TopFacts
  <1>5. /\ FramesOK(tree, opts, gs) /\ Heaped(tree, opts, gs, HeapAdvanced(f), result)
        /\ n \in NodesIn(tree) \ {Root} /\ tree.up[n] = f.container.node
        /\ Len(gs) = Len(frames) /\ gs[Top].iter.value = w /\ gs[Top].depth = f.depth
        /\ w \in HeapAdvanced(f)
    BY <1>1, AdvanceKeeps
  <1>6. ASSUME enters
        PROVE  /\ FramesOK(tree, opts, Append(gs, g))
               /\ Heaped(tree, opts, Append(gs, g), HeapAdvanced(f), result)
    <2>1. EnteredIn(tree, opts, n)
      BY <1>1, <1>5, <1>6, PushDecides
    <2>2. /\ g = Frame(Wrapper("iter", n), g.owns, g.visited,
                       Len(PathIn(tree)[f.container.node]) + 1)
          /\ ~g.owns /\ g.owns \in BOOLEAN /\ g.visited \in BOOLEAN
      BY <1>4 DEF Frame
    <2> HIDE DEF g, gs, n, f
    <2>3. /\ g \in FrameType(tree) /\ FrameOK(tree, opts, g) /\ g.container = w
          /\ g.depth = f.depth + 1 /\ g.iter.value = NoValue
      BY <1>3, <1>4, <1>5, <2>1, <2>2, NewFrame
    <2>4. g.container.of = "iter"
      BY <2>3, WrapperFacts
    <2>5. FramesOK(tree, opts, Append(gs, g))
      BY <1>1, <1>3, <1>4, <1>5, <2>3, <2>4, PushStack
    <2>6. Heaped(tree, opts, Append(gs, g), HeapAdvanced(f) \cup {}, result)
      BY <1>3, <1>5, <2>3, HeapPush
    <2>7. HeapAdvanced(f) \cup {} = HeapAdvanced(f)
      OBVIOUS
    <2> QED
      BY <2>5, <2>6, <2>7
  <1>7. FramesOK(tree, opts, frames') /\ Heaped(tree, opts, frames', heap', result)
    <2> HIDE DEF g, gs, n, f
    <2> QED
      BY <1>2, <1>5, <1>6
  <1>8. y = NoValue \/ y \in heap'
    BY <1>2, <1>5
  <1> HIDE DEF y
  <1> QED
    BY <1>1, <1>2, <1>7, <1>8, YieldKeeps

\* A step breadth first: the next child is yielded, and queued or, if it is
\* refused, copied for nothing.
LEMMA BfsKeeps ==
    ASSUME Inv, StepBfs
    PROVE  Inv'
  <1> DEFINE f == frames[Top]
             n == NextChild(f)
             w == Wrapper("iter", n)
             c == Wrapper("copy", n)
             gs == [frames EXCEPT ![Top] = Advanced(f)]
             g == Frame(c, TRUE, TRUE, f.depth + 1)
             h == HeapAdvanced(f)
             enters == IsContainer(n) /\ ~PushRefused(n, f.depth + 1)
             y == IF IsContainer(n) /\ ~enters THEN NoValue ELSE w
  <1>1. /\ pc = "busy" /\ frames # <<>> /\ UNCHANGED <<tree, opts, result>>
        /\ ~opts.depth_first /\ HasNext(f)
    BY DEF StepBfs
  <1>2. /\ heap' = h \cup (IF IsContainer(n) THEN {c} ELSE {})
        /\ frames' = IF enters THEN Append(gs, g) ELSE gs
        /\ Yield(y)
    BY DEF StepBfs
  <1>3. tree \in Trees /\ opts \in Options /\ FramesOK(tree, opts, frames)
    BY DEF Inv
  <1>4. /\ Top = 1 /\ Len(frames) > 0 /\ f.container.node \in NodesIn(tree)
        /\ \A m \in AboveIn(tree, f.container.node) : EnteredIn(tree, opts, m)
        /\ f.depth = Len(PathIn(tree)[f.container.node]) /\ Top \in 1 .. Len(frames)
    BY <1>1, TopFacts
  <1> DEFINE k == f.iter.index + 1
  <1>5. /\ FramesOK(tree, opts, gs) /\ Heaped(tree, opts, gs, h, result)
        /\ n \in NodesIn(tree) \ {Root} /\ tree.up[n] = f.container.node
        /\ Len(gs) = Len(frames) /\ gs[Top].iter.value = w /\ gs[Top].depth = f.depth
        /\ gs[Top].container = f.container /\ gs[Top].iter.index = k
        /\ k \in DOMAIN tree.kids[f.container.node] /\ n = NextIn(tree, f)
        /\ w \in h
    BY <1>1, AdvanceKeeps
  <1>6. \A j \in 1 .. Len(frames) : j # Top => gs[j] = frames[j]
    BY <1>1, AdvanceKeeps
  <1>7. \A j \in 1 .. Len(frames) : frames[j].container.node # n
    BY <1>1, <1>3, <1>4, <1>5, NextIsNew
  <1>8. \A j \in 1 .. Len(gs) : gs[j].container.node # n
    <2> TAKE j \in 1 .. Len(gs)
    <2>1. CASE j = Top
      BY <1>4, <1>5, <1>7, <2>1
    <2>2. CASE j # Top
      BY <1>5, <1>6, <1>7, <2>2
    <2> QED
      BY <2>1, <2>2
  <1>9. tree.kids[f.container.node][k] = n /\ k <= k
    <2>1. DOMAIN tree.kids[f.container.node] \subseteq Nat
      BY <1>3, <1>4, KidsFacts
    <2>2. k \in Nat
      BY <1>5, <2>1
    <2>3. NextIn(tree, f) = tree.kids[f.container.node][k]
      BY DEF NextIn
    <2> HIDE DEF k, n, f
    <2> QED
      BY <1>5, <2>2, <2>3
  <1> HIDE DEF g, gs, n, f, h, k
  <1>10. ASSUME enters
         PROVE  /\ FramesOK(tree, opts, Append(gs, g))
                /\ Heaped(tree, opts, Append(gs, g), h \cup {c}, result)
    <2>1. EnteredIn(tree, opts, n)
      BY <1>1, <1>5, <1>10, PushDecides DEF f
    <2>2. /\ g = Frame(Wrapper("copy", n), g.owns, g.visited,
                       Len(PathIn(tree)[f.container.node]) + 1)
          /\ g.owns /\ g.owns \in BOOLEAN /\ g.visited \in BOOLEAN
      BY <1>4 DEF g, Frame
    <2>3. /\ g \in FrameType(tree) /\ FrameOK(tree, opts, g) /\ g.container = c
          /\ g.depth = f.depth + 1 /\ g.iter.value = NoValue
      <3> DEFINE p == f.container.node
      <3>1. /\ p \in NodesIn(tree) /\ n \in NodesIn(tree) \ {Root} /\ tree.up[n] = p
            /\ \A m \in AboveIn(tree, p) : EnteredIn(tree, opts, m)
            /\ g = Frame(Wrapper("copy", n), g.owns, g.visited, Len(PathIn(tree)[p]) + 1)
            /\ f.depth = Len(PathIn(tree)[p])
        BY <1>4, <1>5, <2>2
      <3> HIDE DEF p
      <3>2. g.owns \in BOOLEAN /\ g.visited \in BOOLEAN /\ (g.owns <=> "copy" = "copy")
        BY <2>2
      <3> QED
        BY <1>3, <2>1, <3>1, <3>2, NewFrame
    <2>4. g.container.of = "copy" /\ g.container.node = n /\ c # NoValue
      BY <2>3, WrapperFacts
    <2>5. FramesOK(tree, opts, Append(gs, g))
      <3>1. /\ Len(gs) > 0 /\ gs[1].container.node = f.container.node
            /\ gs[1].iter.index = k /\ gs[1].depth = f.depth
        BY <1>4, <1>5
      <3> QED
        BY <1>1, <1>3, <1>5, <1>8, <1>9, <2>3, <2>4, <3>1, PushQueue
    <2> HIDE DEF c
    <2>6. Heaped(tree, opts, Append(gs, g), h \cup {c}, result)
      BY <1>3, <1>5, <2>2, <2>3, <2>4, HeapPush
    <2> QED
      BY <2>5, <2>6
  <1>11. ASSUME IsContainer(n), ~enters
         PROVE  Heaped(tree, opts, gs, h \cup {c}, result)
    <2>1. RefusedIn(tree, opts, n)
      BY <1>1, <1>5, <1>11, PushDecides DEF f
    <2> QED
      BY <1>1, <1>3, <1>5, <2>1, HeapLeak
  <1>12. h \cup {} = h
    OBVIOUS
  <1>13. FramesOK(tree, opts, frames') /\ Heaped(tree, opts, frames', heap', result)
    BY <1>2, <1>5, <1>10, <1>11, <1>12
  <1>14. y = NoValue \/ y \in heap'
    BY <1>2, <1>5
  <1> HIDE DEF y
  <1> QED
    BY <1>1, <1>2, <1>13, <1>14, YieldKeeps

\* A container that is read to its end is popped.
LEMMA PopKeeps ==
    ASSUME Inv, StepPop
    PROVE  Inv'
  <1>1. /\ pc = "busy" /\ frames # <<>> /\ UNCHANGED <<tree, opts, value, result, pc>>
        /\ heap' = heap \ PopOwns(frames[Top]) /\ frames' = RemoveAt(frames, Top)
    BY DEF StepPop
  <1>2. tree \in Trees /\ opts \in Options /\ FramesOK(tree, opts, frames)
        /\ Heaped(tree, opts, frames, heap, result) /\ value = NoValue
        /\ ContainerIn(tree, Root)
    BY <1>1 DEF Inv
  <1>3. Top \in 1 .. Len(frames) /\ (opts.depth_first => Top = Len(frames))
    BY <1>1, TopFacts
  <1>4. FramesOK(tree, opts, frames')
    BY <1>1, <1>2, <1>3, PopFrame
  <1>5. Heaped(tree, opts, frames', heap', result)
    BY <1>1, <1>2, <1>3, HeapPop
  <1>6. FramesOK(tree, opts, frames)' /\ Heaped(tree, opts, frames, heap, result)'
    BY <1>1, <1>4, <1>5
  <1> QED
    BY <1>1, <1>2, <1>6 DEF Inv

\* The search is given up: every frame is popped, and what was in the caller's
\* hands before and the copy made for it stay allocated.
LEMMA HeapEnd ==
    ASSUME Inv, NEW r, NEW C, C \subseteq {r}, NoValue \notin C, result = NoValue
    PROVE  Heaped(tree, opts, <<>>, (heap \ AllOwned) \cup C, r)
  <1>1. tree \in Trees /\ opts \in Options /\ FramesOK(tree, opts, frames)
        /\ Heaped(tree, opts, frames, heap, result)
    BY DEF Inv
  <1>2. DOMAIN frames = 1 .. Len(frames)
    BY <1>1 DEF FramesOK
  <1>3. \A x : x \in AllOwned <=> \E i \in 1 .. Len(frames) : x \in PopOwns(frames[i])
    BY <1>2 DEF AllOwned
  <1> DEFINE h == (heap \ AllOwned) \cup C
  <1>4. RootValue \in h /\ NoValue \notin h
    <2>1. RootValue \notin AllOwned
      BY <1>1, <1>3, BorrowedFrom
    <2> QED
      BY <1>1, <2>1 DEF Heaped
  <1>5. ASSUME NEW x \in h
        PROVE  \/ x = RootValue \/ x = r
               \/ ~opts.depth_first /\ x.of = "copy" /\ RefusedIn(tree, opts, x.node)
    <2>1. CASE x \in C
      BY <2>1
    <2>2. CASE x \in heap /\ x \notin AllOwned
      <3>1. x # NoValue
        BY <1>1, <2>2 DEF Heaped
      <3> QED
        BY <1>1, <1>3, <2>2, <3>1 DEF Heaped
    <2> QED
      BY <2>1, <2>2
  <1>6. Len(<<>>) = 0 /\ 1 .. 0 = {}
    OBVIOUS
  <1> HIDE DEF h
  <1>7. Heaped(tree, opts, <<>>, h, r)
    BY <1>4, <1>5, <1>6 DEF Heaped
  <1> QED
    BY <1>7 DEF h

\* No frames at all are frames in order.
LEMMA NoFrames ==
    ASSUME NEW t, NEW o
    PROVE  FramesOK(t, o, <<>>)
  <1>1. <<>> \in Seq(FrameType(t)) /\ Len(<<>>) = 0 /\ 1 .. 0 = {}
    OBVIOUS
  <1> QED
    BY <1>1 DEF FramesOK, Stack, Queue

\* Every step keeps the invariant.
LEMMA InvStep ==
    ASSUME Inv, [Next]_vars
    PROVE  Inv'
  <1>1. CASE FindIterNext
    <2>1. /\ pc' = "busy" /\ value' = NoValue /\ UNCHANGED <<tree, opts, frames, heap, result>>
          /\ IsContainer(Root) /\ pc = "idle"
      BY <1>1 DEF FindIterNext
    <2>2. ContainerIn(tree, Root)
      BY <2>1, InForce
    <2> QED
      BY <2>1, <2>2 DEF Inv
  <1>2. CASE StepVisit
    BY <1>2, VisitKeeps
  <1>3. CASE StepDfs
    BY <1>3, DfsKeeps
  <1>4. CASE StepBfs
    BY <1>4, BfsKeeps
  <1>5. CASE StepPop
    BY <1>5, PopKeeps
  <1>6. CASE Exhausted
    BY <1>6 DEF Exhausted, Inv
  <1>7. CASE DestroyIter
    <2>1. /\ heap' = heap \ AllOwned /\ frames' = <<>> /\ value' = NoValue /\ pc' = "done"
          /\ UNCHANGED <<tree, opts, result>> /\ result = NoValue
      BY <1>7 DEF DestroyIter
    <2>2. Heaped(tree, opts, <<>>, (heap \ AllOwned) \cup {}, result)
      BY <2>1, HeapEnd
    <2>3. (heap \ AllOwned) \cup {} = heap \ AllOwned
      OBVIOUS
    <2>4. Heaped(tree, opts, frames, heap, result)' /\ FramesOK(tree, opts, frames)'
      BY <2>1, <2>2, <2>3, NoFrames
    <2> QED
      BY <2>1, <2>4 DEF Inv
  <1>8. CASE FindEx
    <2> DEFINE r == Wrapper("result", value.node)
    <2>1. /\ heap' = (heap \ AllOwned) \cup {r} /\ frames' = <<>> /\ value' = NoValue
          /\ pc' = "done" /\ UNCHANGED <<tree, opts>> /\ result = NoValue /\ result' = r
      BY <1>8 DEF FindEx
    <2>2. r # NoValue
      BY WrapperFacts
    <2> HIDE DEF r
    <2>3. Heaped(tree, opts, <<>>, (heap \ AllOwned) \cup {r}, r)
      BY <2>1, <2>2, HeapEnd
    <2>4. Heaped(tree, opts, frames, heap, result)' /\ FramesOK(tree, opts, frames)'
      BY <2>1, <2>3, NoFrames
    <2> QED
      BY <2>1, <2>4 DEF Inv
  <1>9. CASE FindScalar
    <2> DEFINE r == Wrapper("result", Root)
    <2>1. /\ ~IsContainer(Root) /\ pc' = "done" /\ UNCHANGED <<tree, opts, frames, value>>
          /\ \/ result' = r /\ heap' = heap \cup {r}
             \/ UNCHANGED <<result, heap>>
      BY <1>9 DEF FindScalar
    <2>2. r # NoValue
      BY WrapperFacts
    <2> HIDE DEF r
    <2>3. (frames = <<>> /\ result = NoValue) \/ UNCHANGED <<result, heap>>
      <3>1. frames = <<>>
        BY <2>1, InForce DEF Inv
      <3>2. result = NoValue
        BY <1>9, <3>1 DEF Inv, FindScalar
      <3> QED
        BY <3>1, <3>2
    <2> QED
      BY <2>1, <2>2, <2>3, InForce DEF Inv, Heaped
  <1>10. CASE UNCHANGED vars
    BY <1>10 DEF vars, Inv
  <1> QED
    BY <1>1, <1>2, <1>3, <1>4, <1>5, <1>6, <1>7, <1>8, <1>9, <1>10 DEF Next, Step

\* What a search relies on holds throughout, for any document, options and
\* predicate: the frames are in order, everything they use is allocated, and
\* everything allocated is accounted for.
THEOREM SearchInvariant == Spec => []Inv
  <1>1. Init => Inv
    BY InvInit
  <1>2. Inv /\ [Next]_vars => Inv'
    BY InvStep
  <1> QED
    BY <1>1, <1>2, PTL DEF Spec

\* The search frees nothing that is in use and nothing twice, depth first (where
\* frames borrow the wrapper of the iterator above, asdf_find_iter_next_dfs) and
\* breadth first (where they own copies, asdf_find_iter_next_bfs), and the value
\* in the caller's hands is valid until the next call.
THEOREM NothingDangles == Spec => []NoDangling
  <1>1. Inv => NoDangling
    <2> SUFFICES ASSUME Inv PROVE NoDangling
      OBVIOUS
    <2>1. tree \in Trees /\ opts \in Options /\ FramesOK(tree, opts, frames)
          /\ Heaped(tree, opts, frames, heap, result)
      BY DEF Inv
    <2>2. DOMAIN frames = 1 .. Len(frames)
      BY <2>1 DEF FramesOK
    <2>3. \A i \in DOMAIN frames :
              frames[i].container \in heap /\ frames[i].iter.value \in heap \cup {NoValue}
      BY <2>1, <2>2 DEF Heaped
    <2>4. \A i, j \in DOMAIN frames : i # j =>
              (PopOwns(frames[i]) \cap PopOwns(frames[j])) \subseteq {NoValue}
      BY <2>1, <2>2, OwnersApart
    <2>5. RootValue \in heap /\ (value # NoValue => value \in heap)
      BY <2>1 DEF Heaped, Inv
    <2> QED
      BY <2>3, <2>4, <2>5 DEF NoDangling
  <1> QED
    BY <1>1, SearchInvariant, PTL

\* Once the search is over, all that stays allocated is the caller's and the
\* copies of the containers that a breadth-first search met and did not enter:
\* the wrappers of iterators and frames are freed on every way out, exhausted,
\* destroyed early or through asdf_value_find_ex.
THEOREM FreedAtEnd == Spec => []FreedButRefused
  <1>1. Inv => FreedButRefused
    <2> SUFFICES ASSUME Inv, pc = "done", NEW w \in heap \ {RootValue, result}
                 PROVE  ~opts.depth_first /\ w.of = "copy" /\ Refused(w.node)
      BY DEF FreedButRefused
    <2>1. frames = <<>> /\ Heaped(tree, opts, frames, heap, result)
      BY DEF Inv
    <2>2. Len(frames) = 0 /\ 1 .. 0 = {}
      BY <2>1
    <2>3. ~opts.depth_first /\ w.of = "copy" /\ RefusedIn(tree, opts, w.node)
      BY <2>1, <2>2 DEF Heaped
    <2> QED
      BY <2>3, InForce
  <1> QED
    BY <1>1, SearchInvariant, PTL

\* A depth-first search leaves nothing allocated but what is the caller's, as
\* include/asdf/value.h promises; it is only breadth first that the promise fails
\* (asdf_find_iter_next_bfs does not destroy a copy that is refused).
THEOREM DepthFirstFreesAll == Spec => [](opts.depth_first => AllFreed)
  <1>1. FreedButRefused => (opts.depth_first => AllFreed)
    BY DEF FreedButRefused, AllFreed
  <1> QED
    BY <1>1, FreedAtEnd, PTL

\* The state has its type: the frames are about containers of the document, at
\* their depth, with iterators inside them and, depth first, each the child of
\* the one before.
THEOREM TypeCorrect == Spec => []TypeOK
  <1>1. Inv => TypeOK
    <2> SUFFICES ASSUME Inv PROVE TypeOK
      OBVIOUS
    <2>1. tree \in Trees /\ opts \in Options /\ FramesOK(tree, opts, frames)
      BY DEF Inv
    <2>2. DOMAIN frames = 1 .. Len(frames) /\ Len(frames) \in Nat
      BY <2>1 DEF FramesOK
    <2>3. Nodes = NodesIn(tree) /\ Path = PathIn(tree)
          /\ \A n : IsContainer(n) <=> ContainerIn(tree, n)
      BY InForce
    <2>4. ASSUME NEW i \in DOMAIN frames
          PROVE  /\ frames[i].container.node \in Nodes
                 /\ IsContainer(frames[i].container.node)
                 /\ frames[i].depth = Len(Path[frames[i].container.node])
                 /\ frames[i].iter.index \in 0 .. Len(tree.kids[frames[i].container.node])
      <3>1. frames[i] \in FrameType(tree) /\ FrameOK(tree, opts, frames[i])
        BY <2>1, <2>2 DEF FramesOK
      <3>2. frames[i].container.node \in NodesIn(tree) /\ frames[i].iter.index \in Nat
        BY <2>1, <3>1, FrameParts
      <3>3. Len(tree.kids[frames[i].container.node]) \in Nat
        BY <2>1, <3>2, KidsFacts
      <3>4. frames[i].iter.index <= Len(tree.kids[frames[i].container.node])
        BY <3>1 DEF FrameOK
      <3>5. ContainerIn(tree, frames[i].container.node)
            /\ frames[i].depth = Len(PathIn(tree)[frames[i].container.node])
        BY <3>1 DEF FrameOK
      <3> QED
        BY <2>3, <3>2, <3>3, <3>4, <3>5
    <2>5. ASSUME opts.depth_first, NEW i \in 2 .. Len(frames)
          PROVE  tree.up[frames[i].container.node] = frames[i - 1].container.node
      <3>1. i \in 1 .. Len(frames) /\ i - 1 \in 1 .. Len(frames) /\ i > 1
        BY <2>2
      <3>2. frames[i].container = frames[i - 1].iter.value
        BY <2>1, <2>5, <3>1 DEF FramesOK, Stack
      <3> DEFINE f == frames[i - 1]
                 c == f.container.node
                 x == f.iter.index
      <3>3. f \in FrameType(tree) /\ FrameOK(tree, opts, f) /\ frames[i] \in FrameType(tree)
        BY <2>1, <3>1 DEF FramesOK
      <3>4. c \in NodesIn(tree) /\ x \in Nat
        BY <2>1, <3>3, FrameParts
      <3>5. x # 0
        <4>1. frames[i].container.of # "none"
          BY <2>1, <3>3, FrameParts
        <4>2. NoValue.of = "none"
          BY WrapperFacts
        <4> QED
          BY <3>2, <3>3, <4>1, <4>2 DEF FrameOK
      <3>6. frames[i].container = Wrapper("iter", tree.kids[c][x]) /\ x <= Len(tree.kids[c])
        BY <3>2, <3>3, <3>5 DEF FrameOK
      <3> HIDE DEF c, x
      <3>7. x \in DOMAIN tree.kids[c]
        BY <2>1, <3>4, <3>5, <3>6, KidsFacts
      <3>8. tree.up[tree.kids[c][x]] = c
        BY <2>1, <3>4, <3>7, ChildFacts
      <3>9. frames[i].container.node = tree.kids[c][x]
        BY <3>6, WrapperFacts
      <3> QED
        BY <3>8, <3>9 DEF c
    <2>6. pc \in {"idle", "busy", "done"}
      BY DEF Inv
    <2> QED
      BY <2>4, <2>5, <2>6 DEF TypeOK
  <1> QED
    BY <1>1, SearchInvariant, PTL

-----------------------------------------------------------------------------
(* The order of the reports. The cursor of the top frame is a place in the    *)
(* tree; what a search has passed is what the order puts before it, and what  *)
(* it has reported is what the reference reports among that.                  *)

(* The order of the nodes: by their paths. *)
PathBefore(o, p, q) ==
    IF o.depth_first THEN Before(p, q)
    ELSE Len(p) < Len(q) \/ (Len(p) = Len(q) /\ Before(p, q))

ReachedIn(t, n) ==
    n = Root \/ \A i \in 1 .. PathIn(t)[n][Len(PathIn(t)[n])] :
        t.kind[t.kids[t.up[n]][i]] # "unresolved"

(* The containers that a search reads, and the nodes it meets. *)
OpenIn(t, o, n) == \A m \in AboveIn(t, n) : ReachedIn(t, m) /\ EnteredIn(t, o, m)

MetIn(t, o, n) ==
    /\ \A m \in AboveIn(t, n) : ReachedIn(t, m)
    /\ \A m \in AboveIn(t, n) : m # n \/ ContainerIn(t, n) => EnteredIn(t, o, m)

ReportedIn(t, o, n) == n \in o.pred /\ MetIn(t, o, n)

(* Where a search is: at a container not visited yet, or after as many     *)
(* children of one as its iterator has passed.                             *)
TopIn(o, fs) == IF o.depth_first THEN Len(fs) ELSE 1

ChildCursor(t, c, k) == Append(PathIn(t)[c], k)

Cursor(t, f) ==
    IF f.visited THEN ChildCursor(t, f.container.node, f.iter.index + 1)
    ELSE PathIn(t)[f.container.node]

Behind(t, o, C) == {n \in NodesIn(t) : PathBefore(o, PathIn(t)[n], C)}

Passed(t, o, fs) ==
    IF fs = <<>> THEN NodesIn(t) ELSE Behind(t, o, Cursor(t, fs[TopIn(o, fs)]))

(* The containers of the frames are open, and what their iterators have    *)
(* passed could be read.                                                   *)
ReadSoFar(t, o, f) ==
    /\ OpenIn(t, o, f.container.node)
    /\ \A i \in 1 .. f.iter.index : t.kind[t.kids[f.container.node][i]] # "unresolved"
    /\ ~f.visited => f.iter.index = 0

WayDown(fs) == \A i \in 1 .. Len(fs) - 1 : fs[i].visited

(* Breadth first, the queue holds the open containers passed from its head *)
(* on, in order.                                                           *)
InOrder(t, o, fs) ==
    /\ \A i \in 1 .. Len(fs) :
        /\ ~fs[i].visited => Len(fs) = 1 /\ fs[i].container.node = Root
        /\ i > 1 => fs[i].iter.index = 0
        /\ i > 1 => fs[i].container.node \in Passed(t, o, fs)
    /\ \A i, j \in 1 .. Len(fs) : i < j =>
        PathBefore(o, PathIn(t)[fs[i].container.node], PathIn(t)[fs[j].container.node])
    /\ \A c \in Passed(t, o, fs) :
        OpenIn(t, o, c) =>
            \/ PathBefore(o, PathIn(t)[c], PathIn(t)[fs[1].container.node])
            \/ \E i \in 1 .. Len(fs) : fs[i].container.node = c

Placed(t, o, fs) ==
    /\ \A i \in 1 .. Len(fs) : ReadSoFar(t, o, fs[i])
    /\ o.depth_first => WayDown(fs)
    /\ ~o.depth_first /\ fs # <<>> => InOrder(t, o, fs)

(* What was found is in order, and nothing that is earlier is missing.     *)
Sorted(t, o, F) ==
    /\ F \in Seq(NodesIn(t))
    /\ \A i \in 1 .. Len(F) : ReportedIn(t, o, F[i])
    /\ \A i, j \in 1 .. Len(F) : i < j => PathBefore(o, PathIn(t)[F[i]], PathIn(t)[F[j]])

Gapless(t, o, F) ==
    \A n \in NodesIn(t), i \in 1 .. Len(F) :
        ReportedIn(t, o, n) =>
            (\E j \in 1 .. Len(F) : F[j] = n) \/ PathBefore(o, PathIn(t)[F[i]], PathIn(t)[n])

IsFound(F, n) == \E j \in 1 .. Len(F) : F[j] = n

FoundAmong(t, o, B, F) ==
    \A n \in NodesIn(t) : IsFound(F, n) <=> ReportedIn(t, o, n) /\ n \in B

OrderInv ==
    ContainerIn(tree, Root) =>
        /\ Sorted(tree, opts, found) /\ Gapless(tree, opts, found)
        /\ pc # "done" => Placed(tree, opts, frames) /\ FoundAmong(tree, opts, Passed(tree, opts, frames), found)

-----------------------------------------------------------------------------
(* The order of paths                                                         *)

\* Before, by the elements of the paths.
LEMMA BeforeFacts ==
    ASSUME NEW p \in Seq(Nat), NEW q \in Seq(Nat)
    PROVE  Before(p, q) <=>
              \/ Len(p) < Len(q) /\ \A j \in 1 .. Len(p) : p[j] = q[j]
              \/ \E i \in 1 .. Len(p) :
                    i <= Len(q) /\ p[i] < q[i] /\ \A j \in 1 .. i - 1 : p[j] = q[j]
  <1>1. Len(p) \in Nat /\ Len(q) \in Nat
    OBVIOUS
  <1>2. DOMAIN p = 1 .. Len(p) /\ DOMAIN q = 1 .. Len(q)
    OBVIOUS
  <1>3. IsPrefix(p, q) <=> Len(p) <= Len(q) /\ \A i \in 1 .. Len(p) : p[i] = q[i]
    BY PrefixFacts
  <1>4. ASSUME Len(p) = Len(q), \A i \in 1 .. Len(p) : p[i] = q[i] PROVE p = q
    BY <1>4, SeqEqual
  <1>5. IsStrictPrefix(p, q) <=> Len(p) < Len(q) /\ \A j \in 1 .. Len(p) : p[j] = q[j]
    BY <1>1, <1>3, <1>4 DEF IsStrictPrefix
  <1>6. \A i : i \in DOMAIN p \cap DOMAIN q <=> i \in 1 .. Len(p) /\ i <= Len(q)
    BY <1>1, <1>2
  <1>7. (\E i \in DOMAIN p \cap DOMAIN q : p[i] < q[i] /\ \A j \in 1 .. i - 1 : p[j] = q[j])
          <=> \E i \in 1 .. Len(p) :
                  i <= Len(q) /\ p[i] < q[i] /\ \A j \in 1 .. i - 1 : p[j] = q[j]
    BY <1>6
  <1> QED
    BY <1>5, <1>7 DEF Before

\* The first place at which two paths differ decides.
LEMMA BeforeTotal ==
    ASSUME NEW p \in Seq(Nat), NEW q \in Seq(Nat)
    PROVE  Before(p, q) \/ Before(q, p) \/ p = q
  <1> DEFINE D == {i \in Nat : 1 <= i /\ i <= Len(p) /\ i <= Len(q) /\ p[i] # q[i]}
  <1>1. Len(p) \in Nat /\ Len(q) \in Nat
    OBVIOUS
  <1>2. (\A i \in 1 .. Len(p) : p[i] \in Nat) /\ (\A i \in 1 .. Len(q) : q[i] \in Nat)
    OBVIOUS
  <1>3. CASE D = {}
    <2>1. \A i \in Nat : 1 <= i /\ i <= Len(p) /\ i <= Len(q) => p[i] = q[i]
      BY <1>3
    <2>2. CASE Len(p) = Len(q)
      <3>1. \A i \in 1 .. Len(p) : p[i] = q[i]
        BY <1>1, <2>1, <2>2
      <3> QED
        BY <2>2, <3>1, SeqEqual
    <2>3. CASE Len(p) < Len(q)
      BY <1>1, <2>1, <2>3, BeforeFacts
    <2>4. CASE Len(q) < Len(p)
      <3>1. ASSUME NEW i \in 1 .. Len(q) PROVE q[i] = p[i]
        <4>1. i \in Nat /\ 1 <= i /\ i <= Len(p) /\ i <= Len(q)
          BY <1>1, <2>4
        <4> QED
          BY <2>1, <4>1
      <3> QED
        BY <2>4, <3>1, BeforeFacts
    <2> QED
      BY <1>1, <2>2, <2>3, <2>4
  <1>4. CASE D # {}
    <2>1. D \subseteq Nat
      OBVIOUS
    <2>2. PICK i \in D : \A j \in D : i <= j
      <3> HIDE DEF D
      <3> QED
        BY <1>4, <2>1, MinExists
    <2>3. i \in Nat /\ 1 <= i /\ i <= Len(p) /\ i <= Len(q) /\ p[i] # q[i]
      OBVIOUS
    <2>4. ASSUME NEW j \in 1 .. i - 1 PROVE p[j] = q[j]
      <3>1. j \in Nat /\ 1 <= j /\ j <= Len(p) /\ j <= Len(q) /\ ~ (i <= j)
        BY <1>1, <2>3
      <3>2. j \notin D
        BY <2>2, <3>1
      <3> QED
        BY <3>1, <3>2
    <2> HIDE DEF D
    <2>5. i \in 1 .. Len(p) /\ i \in 1 .. Len(q)
      BY <1>1, <2>3
    <2>6. p[i] < q[i] \/ q[i] < p[i]
      BY <1>2, <2>3, <2>5
    <2>7. p[i] < q[i] => Before(p, q)
      BY <2>3, <2>4, <2>5, BeforeFacts
    <2>8. q[i] < p[i] => Before(q, p)
      BY <2>3, <2>4, <2>5, BeforeFacts
    <2> QED
      BY <2>6, <2>7, <2>8
  <1> QED
    BY <1>3, <1>4

\* No path is before itself.
LEMMA BeforeApart ==
    ASSUME NEW p \in Seq(Nat)
    PROVE  ~Before(p, p)
  <1>1. Len(p) \in Nat /\ \A i \in 1 .. Len(p) : p[i] \in Nat
    OBVIOUS
  <1>2. ~ (Len(p) < Len(p))
    BY <1>1
  <1>3. \A i \in 1 .. Len(p) : ~ (p[i] < p[i])
    BY <1>1
  <1> QED
    BY <1>2, <1>3, BeforeFacts

\* A path before one that is before a third is before that.
LEMMA BeforeTransitive ==
    ASSUME NEW p \in Seq(Nat), NEW q \in Seq(Nat), NEW r \in Seq(Nat),
           Before(p, q), Before(q, r)
    PROVE  Before(p, r)
  <1> DEFINE Shorter(a, b) == Len(a) < Len(b) /\ \A j \in 1 .. Len(a) : a[j] = b[j]
             At(i, a, b) == /\ i \in 1 .. Len(a) /\ i <= Len(b) /\ a[i] < b[i]
                            /\ \A j \in 1 .. i - 1 : a[j] = b[j]
  <1>1. Len(p) \in Nat /\ Len(q) \in Nat /\ Len(r) \in Nat
    OBVIOUS
  <1>2. /\ \A i \in 1 .. Len(p) : p[i] \in Nat
        /\ \A i \in 1 .. Len(q) : q[i] \in Nat
        /\ \A i \in 1 .. Len(r) : r[i] \in Nat
    OBVIOUS
  <1>3. Shorter(p, q) \/ \E i : At(i, p, q)
    BY BeforeFacts
  <1>4. Shorter(q, r) \/ \E i : At(i, q, r)
    BY BeforeFacts
  <1>5. Shorter(p, r) \/ (\E i : At(i, p, r)) => Before(p, r)
    BY BeforeFacts
  <1>6. CASE Shorter(p, q) /\ Shorter(q, r)
    <2>1. Shorter(p, r)
      BY <1>1, <1>6
    <2> QED
      BY <1>5, <2>1
  <1>7. CASE Shorter(p, q) /\ \E i : At(i, q, r)
    <2>1. PICK i : At(i, q, r)
      BY <1>7
    <2>2. CASE i <= Len(p)
      <3>1. i \in 1 .. Len(p) /\ p[i] = q[i] /\ \A j \in 1 .. i - 1 : j \in 1 .. Len(p)
        BY <1>1, <1>7, <2>1, <2>2
      <3>2. At(i, p, r)
        BY <1>1, <1>7, <2>1, <3>1
      <3> QED
        BY <1>5, <3>2
    <2>3. CASE Len(p) < i
      <3>1. \A j \in 1 .. Len(p) : j \in 1 .. i - 1
        BY <1>1, <2>1, <2>3
      <3>2. Len(p) < Len(r)
        BY <1>1, <2>1, <2>3
      <3>3. \A j \in 1 .. Len(p) : p[j] = r[j]
        BY <1>7, <2>1, <3>1
      <3> QED
        BY <1>5, <3>2, <3>3
    <2> QED
      BY <1>1, <2>1, <2>2, <2>3
  <1>8. CASE (\E i : At(i, p, q)) /\ Shorter(q, r)
    <2>1. PICK i : At(i, p, q)
      BY <1>8
    <2>2. i \in 1 .. Len(q) /\ \A j \in 1 .. i - 1 : j \in 1 .. Len(q)
      BY <1>1, <2>1
    <2>6. \A j \in 1 .. Len(q) : q[j] = r[j]
      BY <1>8
    <2>7. q[i] = r[i] /\ \A j \in 1 .. i - 1 : q[j] = r[j]
      BY <2>2, <2>6
    <2>8. i <= Len(r)
      BY <1>1, <1>8, <2>2
    <2>3. q[i] = r[i] /\ i <= Len(r) /\ \A j \in 1 .. i - 1 : q[j] = r[j]
      BY <2>7, <2>8
    <2>4. p[i] < r[i] /\ \A j \in 1 .. i - 1 : p[j] = r[j]
      BY <2>1, <2>3
    <2>5. At(i, p, r)
      BY <2>1, <2>3, <2>4
    <2> QED
      BY <1>5, <2>5
  <1>9. CASE (\E i : At(i, p, q)) /\ \E i : At(i, q, r)
    <2>1. PICK i : At(i, p, q)
      BY <1>9
    <2>2. PICK k : At(k, q, r)
      BY <1>9
    <2>3. i \in Nat /\ k \in Nat /\ i \in 1 .. Len(q) /\ k \in 1 .. Len(q)
      BY <1>1, <2>1, <2>2
    <2>4. CASE i < k
      <3>1. i \in 1 .. k - 1 /\ \A j \in 1 .. i - 1 : j \in 1 .. k - 1
        BY <2>3, <2>4
      <3>2. q[i] = r[i] /\ i <= Len(r)
        BY <1>1, <2>2, <2>3, <2>4, <3>1
      <3>3. At(i, p, r)
        BY <2>1, <2>2, <3>1, <3>2
      <3> QED
        BY <1>5, <3>3
    <2>5. CASE k < i
      <3>1. k \in 1 .. i - 1 /\ \A j \in 1 .. k - 1 : j \in 1 .. i - 1
        BY <2>3, <2>5
      <3>2. p[k] = q[k] /\ k \in 1 .. Len(p)
        BY <1>1, <2>1, <2>3, <2>5, <3>1
      <3>3. At(k, p, r)
        BY <2>1, <2>2, <3>1, <3>2
      <3> QED
        BY <1>5, <3>3
    <2>6. CASE i = k
      <3>1. p[i] < q[i] /\ q[i] < r[i] /\ i \in 1 .. Len(p) /\ i \in 1 .. Len(r)
        BY <1>1, <2>1, <2>2, <2>3, <2>6
      <3>3. p[i] \in Nat /\ q[i] \in Nat /\ r[i] \in Nat
        BY <1>2, <2>3, <3>1
      <3>4. p[i] < r[i]
        <4> DEFINE x == p[i]
                   y == q[i]
                   z == r[i]
        <4>1. x \in Nat /\ y \in Nat /\ z \in Nat /\ x < y /\ y < z
          BY <3>1, <3>3
        <4> HIDE DEF x, y, z
        <4>2. x < z
          BY <4>1
        <4> QED
          BY <4>2 DEF x, z
      <3>2. At(i, p, r)
        BY <2>1, <2>2, <2>6, <3>4, <3>1
      <3> QED
        BY <1>5, <3>2
    <2> QED
      BY <2>3, <2>4, <2>5, <2>6
  <1> QED
    BY <1>3, <1>4, <1>6, <1>7, <1>8, <1>9

\* The order of the nodes of a search is a strict total order of their paths.
LEMMA OrderFacts ==
    ASSUME NEW o \in Options
    PROVE  /\ \A p \in Seq(Nat) : ~PathBefore(o, p, p)
           /\ \A p, q \in Seq(Nat) : PathBefore(o, p, q) \/ PathBefore(o, q, p) \/ p = q
           /\ \A p, q, r \in Seq(Nat) :
                 PathBefore(o, p, q) /\ PathBefore(o, q, r) => PathBefore(o, p, r)
  <1>1. \A p \in Seq(Nat) : Len(p) \in Nat
    OBVIOUS
  <1>2. \A p \in Seq(Nat) : ~PathBefore(o, p, p)
    BY <1>1, BeforeApart DEF PathBefore
  <1>3. \A p, q \in Seq(Nat) : PathBefore(o, p, q) \/ PathBefore(o, q, p) \/ p = q
    BY <1>1, BeforeTotal DEF PathBefore
  <1>4. ASSUME NEW p \in Seq(Nat), NEW q \in Seq(Nat), NEW r \in Seq(Nat),
               PathBefore(o, p, q), PathBefore(o, q, r)
        PROVE  PathBefore(o, p, r)
    <2>1. CASE o.depth_first
      <3>1. Before(p, q) /\ Before(q, r)
        BY <1>4, <2>1 DEF PathBefore
      <3> QED
        BY <2>1, <3>1, BeforeTransitive DEF PathBefore
    <2>2. CASE ~o.depth_first
      <3>1. Len(p) \in Nat /\ Len(q) \in Nat /\ Len(r) \in Nat
        BY <1>1
      <3>2. Before(p, q) /\ Before(q, r) => Before(p, r)
        BY BeforeTransitive
      <3>3. /\ Len(p) < Len(q) \/ (Len(p) = Len(q) /\ Before(p, q))
            /\ Len(q) < Len(r) \/ (Len(q) = Len(r) /\ Before(q, r))
        BY <1>4, <2>2 DEF PathBefore
      <3>4. Len(p) < Len(r) \/ (Len(p) = Len(r) /\ Before(p, r))
        BY <3>1, <3>2, <3>3
      <3> QED
        BY <2>2, <3>4 DEF PathBefore
    <2> QED
      BY <2>1, <2>2
  <1> QED
    BY <1>2, <1>3, <1>4

-----------------------------------------------------------------------------
(* What was found, against the reference                                      *)

ReportedBefore(t, o, n) ==
    {m \in NodesIn(t) : ReportedIn(t, o, m) /\ PathBefore(o, PathIn(t)[m], PathIn(t)[n])}

\* Of two nodes the search reports, the later one has more nodes before it.
LEMMA RankApart ==
    ASSUME NEW t \in Trees, NEW o \in Options, NEW m \in NodesIn(t), NEW n \in NodesIn(t),
           ReportedIn(t, o, m), ReportedIn(t, o, n), m # n
    PROVE  Cardinality(ReportedBefore(t, o, m)) # Cardinality(ReportedBefore(t, o, n))
  <1>1. \A x \in NodesIn(t) : PathIn(t)[x] \in Seq(Nat)
    BY PathFacts
  <1>2. IsFiniteSet(NodesIn(t))
    BY TreesAssumption DEF NodesIn
  <1>3. ASSUME NEW x \in NodesIn(t), NEW y \in NodesIn(t), ReportedIn(t, o, x),
               PathBefore(o, PathIn(t)[x], PathIn(t)[y])
        PROVE  Cardinality(ReportedBefore(t, o, x)) # Cardinality(ReportedBefore(t, o, y))
    <2>1. ReportedBefore(t, o, x) \subseteq ReportedBefore(t, o, y)
      BY <1>1, <1>3, OrderFacts DEF ReportedBefore
    <2>2. x \in ReportedBefore(t, o, y) /\ x \notin ReportedBefore(t, o, x)
      BY <1>1, <1>3, OrderFacts DEF ReportedBefore
    <2>3. IsFiniteSet(ReportedBefore(t, o, y))
      <3>1. ReportedBefore(t, o, y) \in SUBSET NodesIn(t)
        BY DEF ReportedBefore
      <3> QED
        BY <1>2, <3>1, FS_Subset
    <2> QED
      BY <2>1, <2>2, <2>3, FS_Subset
  <1>4. PathIn(t)[m] # PathIn(t)[n]
    BY PathInjective
  <1>5. \/ PathBefore(o, PathIn(t)[m], PathIn(t)[n])
        \/ PathBefore(o, PathIn(t)[n], PathIn(t)[m])
    BY <1>1, <1>4, OrderFacts
  <1> QED
    BY <1>3, <1>5

\* Nothing is found twice.
LEMMA FoundApart ==
    ASSUME NEW t \in Trees, NEW o \in Options, NEW F, Sorted(t, o, F),
           NEW i \in 1 .. Len(F), NEW j \in 1 .. Len(F), F[i] = F[j]
    PROVE  i = j
  <1>1. F[i] \in NodesIn(t) /\ PathIn(t)[F[i]] \in Seq(Nat)
    BY PathFacts DEF Sorted
  <1>2. ~PathBefore(o, PathIn(t)[F[i]], PathIn(t)[F[j]])
    BY <1>1, OrderFacts
  <1>3. ~ (i < j) /\ ~ (j < i)
    BY <1>2 DEF Sorted
  <1> QED
    BY <1>3

\* As many nodes come before the i-th one found as were found before it.
LEMMA RankFound ==
    ASSUME NEW t \in Trees, NEW o \in Options, NEW F, Sorted(t, o, F), Gapless(t, o, F),
           NEW i \in 1 .. Len(F)
    PROVE  Cardinality(ReportedBefore(t, o, F[i])) = i - 1
  <1> DEFINE B == ReportedBefore(t, o, F[i])
             I == 1 .. i - 1
             g == [j \in I |-> F[j]]
  <1>1. F \in Seq(NodesIn(t)) /\ Len(F) \in Nat /\ i \in Nat
    BY DEF Sorted
  <1>2. \A j \in 1 .. Len(F) : F[j] \in NodesIn(t) /\ PathIn(t)[F[j]] \in Seq(Nat)
    BY <1>1, PathFacts
  <1>3. \A j \in I : j \in 1 .. Len(F) /\ j < i
    BY <1>1
  <1>4. \A j \in I : F[j] \in B
    BY <1>2, <1>3 DEF Sorted, ReportedBefore
  <1>5. ASSUME NEW m \in B PROVE \E j \in I : F[j] = m
    <2>1. /\ m \in NodesIn(t) /\ ReportedIn(t, o, m)
          /\ PathBefore(o, PathIn(t)[m], PathIn(t)[F[i]])
      BY DEF ReportedBefore
    <2>2. PathIn(t)[m] \in Seq(Nat)
      BY <2>1, PathFacts
    <2>3. ~PathBefore(o, PathIn(t)[F[i]], PathIn(t)[m])
      BY <1>2, <2>1, <2>2, OrderFacts
    <2>4. PICK j \in 1 .. Len(F) : F[j] = m
      BY <2>1, <2>3 DEF Gapless
    <2>5. j # i
      BY <1>2, <2>1, <2>4, OrderFacts
    <2>6. ~ (i < j)
      BY <2>3, <2>4 DEF Sorted
    <2>7. j \in I
      BY <1>1, <2>4, <2>5, <2>6
    <2> QED
      BY <2>4, <2>7
  <1>6. \A j, k \in I : F[j] = F[k] => j = k
    BY <1>3, FoundApart
  <1> HIDE DEF B
  <1>7. g \in Bijection(I, B)
    <2>1. g \in [I -> B]
      BY <1>4
    <2>2. \A j, k \in I : g[j] = g[k] => j = k
      BY <1>6
    <2>3. \A m \in B : \E j \in I : g[j] = m
      BY <1>5
    <2> QED
      BY <2>1, <2>2, <2>3 DEF Bijection, Injection, Surjection, IsInjective
  <1>8. ExistsBijection(I, B)
    BY <1>7 DEF ExistsBijection
  <1>9. IsFiniteSet(I) /\ Cardinality(I) = i - 1
    <2>1. 1 \in Int /\ i - 1 \in Int /\ (IF 1 > i - 1 THEN 0 ELSE i - 1 - 1 + 1) = i - 1
      BY <1>1
    <2> QED
      BY <2>1, FS_Interval
  <1>10. Cardinality(B) = i - 1
    BY <1>8, <1>9, FS_Bijection
  <1> QED
    BY <1>10 DEF B

\* No more nodes are found than reported, and as many if none is missing.
LEMMA FoundCounted ==
    ASSUME NEW t \in Trees, NEW o \in Options, NEW F, Sorted(t, o, F),
           NEW S, S = {n \in NodesIn(t) : ReportedIn(t, o, n)}
    PROVE  /\ Cardinality(S) \in Nat /\ Len(F) <= Cardinality(S)
           /\ (\A n \in S : \E i \in 1 .. Len(F) : F[i] = n) => Len(F) = Cardinality(S)
  <1> DEFINE I == 1 .. Len(F)
             g == [i \in I |-> F[i]]
  <1>1. F \in Seq(NodesIn(t)) /\ Len(F) \in Nat
    BY DEF Sorted
  <1>2. IsFiniteSet(S)
    <2>1. IsFiniteSet(NodesIn(t))
      BY TreesAssumption DEF NodesIn
    <2> QED
      BY <2>1, FS_Subset
  <1>3. \A i \in I : F[i] \in S
    BY <1>1 DEF Sorted
  <1>4. \A i, j \in I : F[i] = F[j] => i = j
    BY FoundApart
  <1>5. g \in [I -> S] /\ \A i, j \in I : g[i] = g[j] => i = j
    BY <1>3, <1>4
  <1>6. g \in Injection(I, S)
    BY <1>5 DEF Injection, IsInjective
  <1>7. IsFiniteSet(I) /\ Cardinality(I) = Len(F)
    <2>1. 1 \in Int /\ Len(F) \in Int /\ (IF 1 > Len(F) THEN 0 ELSE Len(F) - 1 + 1) = Len(F)
      BY <1>1
    <2> QED
      BY <2>1, FS_Interval
  <1>8. Len(F) <= Cardinality(S)
    BY <1>2, <1>6, <1>7, FS_Injection
  <1>9. ASSUME \A n \in S : \E i \in I : F[i] = n PROVE Len(F) = Cardinality(S)
    <2>1. g \in Surjection(I, S)
      BY <1>5, <1>9 DEF Surjection
    <2> QED
      BY <1>2, <1>6, <1>7, <2>1, FS_Injection
  <1> QED
    BY <1>2, <1>8, <1>9, FS_CardinalityType

\* A function on 1 .. n is a sequence of length n.
LEMMA FunctionIsSeq ==
    ASSUME NEW n \in Nat, NEW S, NEW f \in [1 .. n -> S]
    PROVE  f \in Seq(S) /\ Len(f) = n
  <1>1. f \in Seq(S)
    OBVIOUS
  <1>2. DOMAIN f = 1 .. Len(f) /\ Len(f) \in Nat
    BY <1>1, LenProperties
  <1>3. 1 .. n = 1 .. Len(f)
    BY <1>2
  <1>4. Len(f) = n
    BY <1>2, <1>3
  <1> QED
    BY <1>1, <1>4

\* A sequence that agrees with a longer one is a prefix of it.
LEMMA BeginningOf ==
    ASSUME NEW S, NEW p \in Seq(S), NEW q \in Seq(S), Len(p) <= Len(q),
           \A i \in 1 .. Len(p) : q[i] = p[i]
    PROVE  IsPrefix(p, q) /\ (Len(p) = Len(q) => p = q)
  <1>1. Len(p) \in Nat /\ Len(q) \in Nat
    OBVIOUS
  <1> DEFINE r == SubSeq(q, 1, Len(p))
  <1>2. r \in Seq(S) /\ Len(r) = Len(p) /\ \A i \in 1 .. Len(p) : r[i] = q[i]
    BY <1>1
  <1> HIDE DEF r
  <1>3. r = p
    BY <1>2, SeqEqual
  <1>4. SubSeq(p, 1, Len(p)) = p
    OBVIOUS
  <1>5. IsPrefix(p, q)
    BY <1>3, <1>4 DEF IsPrefix, r
  <1>6. Len(p) = Len(q) => p = q
    BY SeqEqual
  <1> QED
    BY <1>5, <1>6

\* A sequence in the order of the reference with no gap is the beginning of it.
LEMMA FoundPrefix ==
    ASSUME NEW t \in Trees, NEW o \in Options, NEW F, Sorted(t, o, F), Gapless(t, o, F),
           NEW S, S = {n \in NodesIn(t) : ReportedIn(t, o, n)},
           NEW E, E = [i \in 1 .. Cardinality(S) |->
                         CHOOSE n \in S : Cardinality(ReportedBefore(t, o, n)) = i - 1]
    PROVE  /\ IsPrefix(F, E)
           /\ (\A n \in S : \E i \in 1 .. Len(F) : F[i] = n) => F = E
  <1> DEFINE L == Cardinality(S)
             R(n) == Cardinality(ReportedBefore(t, o, n))
             A == {E[i] : i \in 1 .. L} \cup NodesIn(t)
  <1>1. L \in Nat /\ Len(F) <= L
        /\ ((\A n \in S : \E i \in 1 .. Len(F) : F[i] = n) => Len(F) = L)
    BY FoundCounted
  <1>2. F \in Seq(NodesIn(t)) /\ Len(F) \in Nat
    BY DEF Sorted
  <1>3. ASSUME NEW i \in 1 .. Len(F) PROVE E[i] = F[i]
    <2>1. F[i] \in S /\ R(F[i]) = i - 1
      BY <1>2, RankFound DEF Sorted
    <2>2. \A n \in S : R(n) = i - 1 => n = F[i]
      <3>1. \A n \in S : n # F[i] => R(n) # R(F[i])
        BY <2>1, RankApart
      <3> QED
        BY <2>1, <3>1
    <2> HIDE DEF R
    <2>3. (CHOOSE n \in S : R(n) = i - 1) = F[i]
      BY <2>1, <2>2
    <2>4. i \in 1 .. L
      BY <1>1, <1>2
    <2>5. E[i] = CHOOSE n \in S : R(n) = i - 1
      BY <2>4 DEF R
    <2> QED
      BY <2>3, <2>5
  <1>4. E \in [1 .. L -> A]
    <2> DEFINE c(i) == CHOOSE n \in S : R(n) = i - 1
    <2>1. E = [i \in 1 .. L |-> c(i)]
      OBVIOUS
    <2> HIDE DEF c, L
    <2> QED
      BY <2>1
  <1> HIDE DEF A, L
  <1>5. E \in Seq(A) /\ Len(E) = L
    <2>1. L \in Nat
      BY <1>1
    <2> QED
      BY <1>4, <2>1, FunctionIsSeq
  <1>6. F \in Seq(A)
    BY <1>2 DEF A
  <1>7. IsPrefix(F, E) /\ (Len(F) = L => F = E)
    <2>1. Len(F) <= Len(E)
      BY <1>1, <1>5
    <2>3. \A p, q \in Seq(A) :
              Len(p) <= Len(q) /\ (\A i \in 1 .. Len(p) : q[i] = p[i])
                  => IsPrefix(p, q) /\ (Len(p) = Len(q) => p = q)
      BY BeginningOf
    <2>4. \A i \in 1 .. Len(F) : E[i] = F[i]
      BY <1>3
    <2>2. IsPrefix(F, E) /\ (Len(F) = Len(E) => F = E)
      BY <1>5, <1>6, <2>1, <2>3, <2>4
    <2> QED
      BY <1>5, <2>2
  <1> QED
    BY <1>1, <1>7

-----------------------------------------------------------------------------
(* The nodes behind a place in the document                                   *)

\* A path to a child is not behind a place that its parent's path is behind: it
\* is that place, or leaves it for a later child.
LEMMA AheadOf ==
    ASSUME NEW p \in Seq(Nat), NEW C \in Seq(Nat), NEW k \in Nat,
           Before(p, C), ~Before(Append(p, k), C)
    PROVE  /\ Len(p) < Len(C) /\ \A j \in 1 .. Len(p) : p[j] = C[j]
           /\ Append(p, k) = C \/ C[Len(p) + 1] < k
  <1> DEFINE q == Append(p, k)
             L == Len(p)
  <1>1. L \in Nat /\ Len(C) \in Nat
    OBVIOUS
  <1>2. q \in Seq(Nat) /\ Len(q) = L + 1
    OBVIOUS
  <1>3. (\A j \in 1 .. L : q[j] = p[j]) /\ q[L + 1] = k
    OBVIOUS
  <1>4. \A j \in 1 .. Len(C) : C[j] \in Nat
    OBVIOUS
  <1> HIDE DEF q
  <1>5. Len(p) < Len(C) /\ \A j \in 1 .. Len(p) : p[j] = C[j]
    <2> SUFFICES ASSUME NEW i \in 1 .. L, i <= Len(C), p[i] < C[i],
                        \A j \in 1 .. i - 1 : p[j] = C[j]
                 PROVE  Before(q, C)
      BY BeforeFacts DEF q
    <2>1. i \in 1 .. Len(q) /\ q[i] < C[i] /\ \A j \in 1 .. i - 1 : j \in 1 .. L
      BY <1>1, <1>2, <1>3
    <2>2. \A j \in 1 .. i - 1 : q[j] = C[j]
      BY <1>3, <2>1
    <2> QED
      BY <1>2, <2>1, <2>2, BeforeFacts
  <1>6. L + 1 \in 1 .. Len(C) /\ C[L + 1] \in Nat /\ L + 1 \in 1 .. Len(q)
    BY <1>1, <1>2, <1>4, <1>5
  <1>7. \A j \in 1 .. L : q[j] = C[j]
    BY <1>3, <1>5
  <1>8. ~ (k < C[L + 1])
    <2>1. \A j \in 1 .. L + 1 - 1 : q[j] = C[j]
      BY <1>1, <1>7
    <2> SUFFICES ASSUME k < C[L + 1] PROVE Before(q, C)
      BY DEF q
    <2>2. L + 1 <= Len(C) /\ q[L + 1] < C[L + 1]
      BY <1>3, <1>6
    <2>3. \E i \in 1 .. Len(q) :
              i <= Len(C) /\ q[i] < C[i] /\ \A j \in 1 .. i - 1 : q[j] = C[j]
      BY <1>6, <2>1, <2>2
    <2> QED
      BY <1>2, <2>3, BeforeFacts
  <1>9. ASSUME k = C[L + 1] PROVE q = C
    <2>1. \A j \in 1 .. Len(q) : q[j] = C[j]
      <3> TAKE j \in 1 .. Len(q)
      <3>1. j \in 1 .. L \/ j = L + 1
        BY <1>1, <1>2
      <3> QED
        BY <1>3, <1>7, <1>9, <3>1
    <2>2. ~ (Len(q) < Len(C))
      BY <1>2, <2>1, BeforeFacts DEF q
    <2>3. Len(q) = Len(C)
      BY <1>1, <1>2, <1>5, <2>2
    <2> QED
      BY <1>2, <2>1, <2>3, SeqEqual
  <1>10. k < C[L + 1] \/ k = C[L + 1] \/ C[L + 1] < k
    BY <1>6
  <1> QED
    BY <1>5, <1>8, <1>9, <1>10 DEF q

\* A path that leaves a place for a later child is not behind it.
LEMMA BeyondOf ==
    ASSUME NEW p \in Seq(Nat), NEW C \in Seq(Nat), NEW k \in Nat,
           Len(p) < Len(C), \A j \in 1 .. Len(p) : p[j] = C[j], C[Len(p) + 1] < k
    PROVE  ~Before(Append(p, k), C)
  <1> DEFINE q == Append(p, k)
             L == Len(p)
  <1>1. L \in Nat /\ Len(C) \in Nat
    OBVIOUS
  <1>2. q \in Seq(Nat) /\ Len(q) = L + 1
    OBVIOUS
  <1>3. (\A j \in 1 .. L : q[j] = p[j]) /\ q[L + 1] = k
    OBVIOUS
  <1> HIDE DEF q
  <1>4. L + 1 \in 1 .. Len(C) /\ L + 1 <= Len(q) /\ C[L + 1] < q[L + 1]
    BY <1>1, <1>2, <1>3
  <1>5. \A j \in 1 .. L + 1 - 1 : C[j] = q[j]
    <2>1. \A j \in 1 .. L : C[j] = q[j]
      BY <1>3
    <2>2. L + 1 - 1 = L
      BY <1>1
    <2> HIDE DEF L
    <2> QED
      BY <2>1, <2>2
  <1>6. Before(C, q)
    <2>1. \E i \in 1 .. Len(C) :
              i <= Len(q) /\ C[i] < q[i] /\ \A j \in 1 .. i - 1 : C[j] = q[j]
      BY <1>4, <1>5
    <2> QED
      BY <1>2, <2>1, BeforeFacts
  <1>7. Before(q, C) => Before(q, q)
    BY <1>2, <1>6, BeforeTransitive
  <1> QED
    BY <1>2, <1>7, BeforeApart DEF q

\* The path to a child, by its place below the parent.
LEMMA ChildPath ==
    ASSUME NEW t \in Trees, NEW c \in NodesIn(t), NEW k \in DOMAIN t.kids[c]
    PROVE  /\ t.kids[c][k] \in NodesIn(t) \ {Root} /\ t.up[t.kids[c][k]] = c
           /\ PosIn(t, t.kids[c][k]) = k /\ k \in Nat /\ 1 <= k /\ k <= Len(t.kids[c])
           /\ PathIn(t)[t.kids[c][k]] = Append(PathIn(t)[c], k)
  <1> DEFINE n == t.kids[c][k]
  <1>1. n \in NodesIn(t) \ {Root} /\ t.up[n] = c
    BY ChildFacts
  <1>2. PosIn(t, n) \in DOMAIN t.kids[c] /\ t.kids[c][PosIn(t, n)] = n
    <2> HIDE DEF n
    <2> QED
      BY <1>1, PosFacts
  <1>3. PosIn(t, n) = k
    <2>1. t.kids[c][PosIn(t, n)] = t.kids[c][k]
      BY <1>2
    <2> HIDE DEF n
    <2> QED
      BY <1>2, <2>1, ChildApart
  <1>4. PathIn(t)[n] = Append(PathIn(t)[c], k)
    <2> HIDE DEF n
    <2> QED
      BY <1>1, <1>3, PathFacts
  <1>5. k \in Nat /\ 1 <= k /\ k <= Len(t.kids[c])
    BY KidsFacts
  <1> QED
    BY <1>1, <1>3, <1>4, <1>5

\* Every node but the root is such a child.
LEMMA IsChild ==
    ASSUME NEW t \in Trees, NEW n \in NodesIn(t) \ {Root}
    PROVE  /\ t.up[n] \in NodesIn(t) /\ t.up[n] < n
           /\ PosIn(t, n) \in DOMAIN t.kids[t.up[n]] /\ t.kids[t.up[n]][PosIn(t, n)] = n
           /\ PosIn(t, n) \in Nat /\ 1 <= PosIn(t, n)
           /\ PathIn(t)[n] = Append(PathIn(t)[t.up[n]], PosIn(t, n))
           /\ PathIn(t)[t.up[n]] \in Seq(Nat) /\ PathIn(t)[n] \in Seq(Nat)
  <1>1. t.up[n] \in NodesIn(t) /\ t.up[n] < n
    BY TreeFacts
  <1>2. /\ PosIn(t, n) \in DOMAIN t.kids[t.up[n]] /\ t.kids[t.up[n]][PosIn(t, n)] = n
        /\ PosIn(t, n) \in Nat
    BY PosFacts
  <1>3. 1 <= PosIn(t, n)
    BY <1>1, <1>2, KidsFacts
  <1>4. /\ PathIn(t)[n] = Append(PathIn(t)[t.up[n]], PosIn(t, n))
        /\ PathIn(t)[t.up[n]] \in Seq(Nat) /\ PathIn(t)[n] \in Seq(Nat)
    BY <1>1, PathFacts
  <1> QED
    BY <1>1, <1>2, <1>3, <1>4

\* What is at or above the parent is above the child.
LEMMA AboveParent ==
    ASSUME NEW t \in Trees, NEW n \in NodesIn(t) \ {Root}, NEW m \in AboveIn(t, t.up[n])
    PROVE  m \in AboveIn(t, n) /\ m # n
  <1> DEFINE p == PathIn(t)[m]
             q == PathIn(t)[n]
             r == PathIn(t)[t.up[n]]
  <1>1. m \in NodesIn(t) /\ p \in Seq(Nat) /\ q \in Seq(Nat) /\ r \in Seq(Nat)
    BY PathFacts, PathOfChild DEF AboveIn
  <1>2. IsPrefix(p, r)
    BY DEF AboveIn
  <1>3. Len(q) = Len(r) + 1 /\ \A i \in 1 .. Len(r) : q[i] = r[i]
    BY PathOfChild
  <1> HIDE DEF p, q, r
  <1>4. Len(p) <= Len(r) /\ \A i \in 1 .. Len(p) : p[i] = r[i]
    BY <1>1, <1>2, PrefixFacts
  <1>5. Len(p) \in Nat /\ Len(q) \in Nat /\ Len(r) \in Nat
    BY <1>1
  <1>6. Len(p) <= Len(q) /\ Len(p) # Len(q)
    BY <1>3, <1>4, <1>5
  <1>7. \A i \in 1 .. Len(p) : p[i] = q[i]
    BY <1>3, <1>4, <1>5
  <1>8. IsPrefix(p, q)
    BY <1>1, <1>6, <1>7, PrefixFacts
  <1>9. m # n
    BY <1>6 DEF p, q
  <1> QED
    BY <1>1, <1>8, <1>9 DEF AboveIn, p, q

\* A node is at or above itself.
LEMMA AboveSelf ==
    ASSUME NEW t \in Trees, NEW n \in NodesIn(t)
    PROVE  n \in AboveIn(t, n)
  <1>1. PathIn(t)[n] \in Seq(Nat)
    BY PathFacts
  <1>2. Len(PathIn(t)[n]) <= Len(PathIn(t)[n])
    BY <1>1
  <1>3. IsPrefix(PathIn(t)[n], PathIn(t)[n])
    BY <1>1, <1>2, PrefixFacts
  <1> QED
    BY <1>3 DEF AboveIn

\* The parent of a node that a search meets is open; and a search meets the
\* children of an open container up to the first that is unresolved.
LEMMA MetFacts ==
    ASSUME NEW t \in Trees, NEW o \in Options, NEW n \in NodesIn(t)
    PROVE  /\ OpenIn(t, o, n) => MetIn(t, o, n) /\ EnteredIn(t, o, n) /\ ContainerIn(t, n)
           /\ MetIn(t, o, n) /\ ContainerIn(t, n) => OpenIn(t, o, n)
           /\ MetIn(t, o, n) /\ n # Root => OpenIn(t, o, t.up[n]) /\ ReachedIn(t, n)
           /\ n # Root /\ OpenIn(t, o, t.up[n]) /\ ReachedIn(t, n) =>
                 (MetIn(t, o, n) <=> (ContainerIn(t, n) => EnteredIn(t, o, n)))
  <1>1. n \in AboveIn(t, n)
    BY AboveSelf
  <1>2. OpenIn(t, o, n) => MetIn(t, o, n) /\ EnteredIn(t, o, n) /\ ContainerIn(t, n)
    BY <1>1 DEF OpenIn, MetIn, EnteredIn
  <1>3. MetIn(t, o, n) /\ ContainerIn(t, n) => OpenIn(t, o, n)
    BY DEF OpenIn, MetIn
  <1>4. ASSUME MetIn(t, o, n), n # Root PROVE OpenIn(t, o, t.up[n]) /\ ReachedIn(t, n)
    <2>1. ASSUME NEW m \in AboveIn(t, t.up[n]) PROVE ReachedIn(t, m) /\ EnteredIn(t, o, m)
      <3>1. m \in AboveIn(t, n) /\ m # n
        BY <1>4, AboveParent
      <3> QED
        BY <1>4, <3>1 DEF MetIn
    <2> QED
      BY <1>1, <1>4, <2>1 DEF OpenIn, MetIn
  <1>5. ASSUME n # Root, OpenIn(t, o, t.up[n]), ReachedIn(t, n)
        PROVE  MetIn(t, o, n) <=> (ContainerIn(t, n) => EnteredIn(t, o, n))
    <2>1. ASSUME NEW m \in AboveIn(t, n), m # n PROVE ReachedIn(t, m) /\ EnteredIn(t, o, m)
      <3>1. m \in AboveIn(t, t.up[n])
        BY <1>5, <2>1, AboveChild
      <3> QED
        BY <1>5, <3>1 DEF OpenIn
    <2> QED
      BY <1>1, <1>5, <2>1 DEF MetIn
  <1> QED
    BY <1>2, <1>3, <1>4, <1>5

\* A child is reached if neither it nor one before it is unresolved.
LEMMA ReachedChild ==
    ASSUME NEW t \in Trees, NEW c \in NodesIn(t), NEW k \in DOMAIN t.kids[c]
    PROVE  ReachedIn(t, t.kids[c][k]) <=>
              \A i \in 1 .. k : t.kind[t.kids[c][i]] # "unresolved"
  <1> DEFINE n == t.kids[c][k]
             p == PathIn(t)[c]
  <1>1. n # Root /\ t.up[n] = c /\ PathIn(t)[n] = Append(p, k) /\ k \in Nat
    BY ChildPath
  <1>2. p \in Seq(Nat)
    BY PathFacts
  <1> HIDE DEF p
  <1>3. Append(p, k)[Len(Append(p, k))] = k
    BY <1>1, <1>2
  <1> HIDE DEF n
  <1>4. PathIn(t)[n][Len(PathIn(t)[n])] = k
    BY <1>1, <1>3
  <1> QED
    BY <1>1, <1>4 DEF ReachedIn, n

\* If every node met between two places has a parent that is there too, and
\* only the nodes E have a parent already passed, those are all there are.
LEMMA Sweep ==
    ASSUME NEW t \in Trees, NEW o \in Options, NEW A, NEW B, NEW E, Root \in A \cup E,
           \A n \in NodesIn(t) \ {Root} :
              MetIn(t, o, n) /\ n \in B /\ n \notin A =>
                  t.up[n] \in B /\ (t.up[n] \in A \cup E => n \in E)
    PROVE  \A n \in NodesIn(t) : MetIn(t, o, n) /\ n \in B => n \in A \cup E
  <1> DEFINE S == {n \in NodesIn(t) : MetIn(t, o, n) /\ n \in B /\ n \notin A /\ n \notin E}
  <1> SUFFICES ASSUME S # {} PROVE FALSE
    OBVIOUS
  <1>1. S \subseteq Nat
    BY TreeFacts
  <1>2. PICK n \in S : \A y \in S : n <= y
    <2> HIDE DEF S
    <2> QED
      BY <1>1, MinExists
  <1>3. n \in NodesIn(t) /\ n # Root /\ MetIn(t, o, n) /\ n \in B /\ n \notin A /\ n \notin E
    OBVIOUS
  <1>4. t.up[n] \in NodesIn(t) /\ t.up[n] < n
    BY <1>3, IsChild
  <1>5. t.up[n] \in B /\ t.up[n] \notin A \cup E
    BY <1>3
  <1>6. MetIn(t, o, t.up[n])
    BY <1>3, <1>4, MetFacts
  <1>7. t.up[n] \in S
    BY <1>4, <1>5, <1>6
  <1>8. n \in Nat /\ t.up[n] \in Nat /\ n <= t.up[n]
    BY <1>1, <1>2, <1>7
  <1> QED
    BY <1>4, <1>8

\* The elements of a path to a child.
LEMMA AppendFacts ==
    ASSUME NEW p \in Seq(Nat), NEW k \in Nat
    PROVE  /\ Append(p, k) \in Seq(Nat) /\ Len(Append(p, k)) = Len(p) + 1 /\ Len(p) \in Nat
           /\ Append(p, k)[Len(p) + 1] = k
           /\ \A j \in 1 .. Len(p) : Append(p, k)[j] = p[j] /\ p[j] \in Nat
  OBVIOUS

\* A parent comes before its children, and they in their order.
LEMMA ChildOrder ==
    ASSUME NEW o \in Options, NEW p \in Seq(Nat), NEW k \in Nat
    PROVE  /\ PathBefore(o, p, Append(p, k))
           /\ \A i \in Nat : k < i => PathBefore(o, Append(p, k), Append(p, i))
  <1>1. /\ Append(p, k) \in Seq(Nat) /\ Len(Append(p, k)) = Len(p) + 1 /\ Len(p) \in Nat
        /\ Append(p, k)[Len(p) + 1] = k
        /\ \A j \in 1 .. Len(p) : Append(p, k)[j] = p[j]
    BY AppendFacts
  <1>2. PathBefore(o, p, Append(p, k))
    <2>1. Len(p) < Len(Append(p, k)) /\ \A j \in 1 .. Len(p) : p[j] = Append(p, k)[j]
      BY <1>1
    <2>2. Before(p, Append(p, k))
      BY <1>1, <2>1, BeforeFacts
    <2> QED
      BY <2>1, <2>2 DEF PathBefore
  <1>3. ASSUME NEW i \in Nat, k < i PROVE PathBefore(o, Append(p, k), Append(p, i))
    <2> DEFINE a == Append(p, k)
               b == Append(p, i)
               L == Len(p)
    <2>1. b \in Seq(Nat) /\ Len(b) = L + 1 /\ b[L + 1] = i /\ \A j \in 1 .. L : b[j] = p[j]
      BY AppendFacts
    <2>2. a \in Seq(Nat) /\ Len(a) = L + 1 /\ a[L + 1] = k /\ L \in Nat
          /\ \A j \in 1 .. L : a[j] = p[j]
      BY <1>1
    <2> HIDE DEF a, b, L
    <2>3. PICK m \in Nat : m = L + 1
      BY <2>2
    <2>4. m \in 1 .. Len(a) /\ m <= Len(b) /\ a[m] < b[m] /\ \A j \in 1 .. m - 1 : a[j] = b[j]
      <3>1. m \in 1 .. Len(a) /\ m <= Len(b) /\ m - 1 = L
        BY <2>1, <2>2, <2>3
      <3>2. a[m] < b[m]
        BY <1>3, <2>1, <2>2, <2>3
      <3>3. \A j \in 1 .. m - 1 : a[j] = b[j]
        BY <2>1, <2>2, <3>1
      <3> QED
        BY <3>1, <3>2, <3>3
    <2>5. \E n \in 1 .. Len(a) : n <= Len(b) /\ a[n] < b[n] /\ \A j \in 1 .. n - 1 : a[j] = b[j]
      BY <2>4
    <2>6. Before(a, b) /\ Len(a) = Len(b)
      BY <2>1, <2>2, <2>5, BeforeFacts
    <2> QED
      BY <2>6 DEF PathBefore, a, b
  <1> QED
    BY <1>2, <1>3

\* Breadth first, the children of two nodes come in the order of the nodes.
LEMMA CousinOrder ==
    ASSUME NEW o \in Options, ~o.depth_first, NEW p \in Seq(Nat), NEW q \in Seq(Nat),
           PathBefore(o, p, q), NEW k \in Nat, NEW i \in Nat
    PROVE  PathBefore(o, Append(p, k), Append(q, i))
  <1> DEFINE a == Append(p, k)
             b == Append(q, i)
  <1>1. a \in Seq(Nat) /\ Len(a) = Len(p) + 1 /\ Len(p) \in Nat /\ \A j \in 1 .. Len(p) : a[j] = p[j]
    BY AppendFacts
  <1>2. b \in Seq(Nat) /\ Len(b) = Len(q) + 1 /\ Len(q) \in Nat /\ \A j \in 1 .. Len(q) : b[j] = q[j]
    BY AppendFacts
  <1> HIDE DEF a, b
  <1>3. CASE Len(p) < Len(q)
    <2>1. Len(a) < Len(b)
      BY <1>1, <1>2, <1>3
    <2> QED
      BY <2>1 DEF PathBefore, a, b
  <1>4. CASE Len(p) = Len(q) /\ Before(p, q)
    <2>1. ~ (Len(p) < Len(q))
      BY <1>1, <1>4
    <2>2. PICK n \in 1 .. Len(p) :
              n <= Len(q) /\ p[n] < q[n] /\ \A j \in 1 .. n - 1 : p[j] = q[j]
      BY <1>4, <2>1, BeforeFacts
    <2>3. n \in 1 .. Len(q) /\ n \in 1 .. Len(a) /\ n <= Len(b)
          /\ \A j \in 1 .. n - 1 : j \in 1 .. Len(p) /\ j \in 1 .. Len(q)
      BY <1>1, <1>2, <1>4, <2>2
    <2>4. a[n] < b[n] /\ \A j \in 1 .. n - 1 : a[j] = b[j]
      <3>1. a[n] = p[n] /\ b[n] = q[n]
        BY <1>1, <1>2, <2>2, <2>3
      <3>2. \A j \in 1 .. n - 1 : a[j] = p[j] /\ b[j] = q[j]
        BY <1>1, <1>2, <2>3
      <3> QED
        BY <2>2, <3>1, <3>2
    <2>5. \E x \in 1 .. Len(a) : x <= Len(b) /\ a[x] < b[x] /\ \A j \in 1 .. x - 1 : a[j] = b[j]
      BY <2>3, <2>4
    <2>6. Before(a, b)
      BY <1>1, <1>2, <2>5, BeforeFacts
    <2>7. Len(a) = Len(b)
      BY <1>1, <1>2, <1>4
    <2> QED
      BY <2>6, <2>7 DEF PathBefore, a, b
  <1> QED
    BY <1>3, <1>4 DEF PathBefore

\* From a child to the next one.
LEMMA CrossAdvance ==
    ASSUME NEW p \in Seq(Nat), NEW k \in Nat, NEW r \in Seq(Nat), NEW x \in Nat, NEW y \in Nat,
           y = x + 1, NEW C \in Seq(Nat), NEW D \in Seq(Nat),
           C = Append(r, x), D = Append(r, y),
           Before(p, C), ~Before(Append(p, k), C), Before(Append(p, k), D)
    PROVE  Append(p, k) = C
  <1> SUFFICES ASSUME Append(p, k) # C PROVE FALSE
    OBVIOUS
  <1>1. /\ Len(C) = Len(r) + 1 /\ Len(r) \in Nat /\ C[Len(r) + 1] = x
        /\ \A j \in 1 .. Len(r) : C[j] = r[j]
    BY AppendFacts
  <1>2. /\ Len(D) = Len(r) + 1 /\ D[Len(r) + 1] = y
        /\ \A j \in 1 .. Len(r) : D[j] = r[j]
    BY AppendFacts
  <1>3. Len(p) \in Nat /\ Len(p) < Len(C) /\ C[Len(p) + 1] < k
    <2>1. Len(p) < Len(C) /\ (Append(p, k) = C \/ C[Len(p) + 1] < k)
      BY AheadOf
    <2> QED
      BY <2>1, AppendFacts
  <1>4. \A j \in 1 .. Len(p) : p[j] = C[j]
    BY AheadOf
  <1>5. \A j \in 1 .. Len(p) : j \in 1 .. Len(r) /\ C[j] = D[j] /\ p[j] = D[j]
    BY <1>1, <1>2, <1>3, <1>4
  <1>6. Len(p) < Len(D)
    BY <1>1, <1>2, <1>3
  <1>7. ~ (D[Len(p) + 1] < k)
    BY <1>5, <1>6, BeyondOf
  <1>8. Len(p) = Len(r)
    <2> SUFFICES ASSUME Len(p) # Len(r) PROVE FALSE
      OBVIOUS
    <2>1. Len(p) + 1 \in 1 .. Len(r)
      BY <1>1, <1>3
    <2>2. D[Len(p) + 1] = C[Len(p) + 1]
      BY <1>1, <1>2, <2>1
    <2> QED
      BY <1>3, <1>7, <2>2
  <1>9. k = y
    BY <1>1, <1>2, <1>3, <1>7, <1>8
  <1>10. p = r
    <2>1. \A j \in 1 .. Len(p) : p[j] = r[j]
      BY <1>1, <1>4, <1>5
    <2> QED
      BY <1>8, <2>1, SeqEqual
  <1> QED
    BY <1>9, <1>10, BeforeApart

\* From a container to its first child.
LEMMA CrossVisit ==
    ASSUME NEW p \in Seq(Nat), NEW k \in Nat, NEW r \in Seq(Nat), NEW x \in Nat,
           NEW D \in Seq(Nat), D = Append(r, x),
           Before(p, r), ~Before(Append(p, k), r), Before(Append(p, k), D)
    PROVE  Append(p, k) = r
  <1> SUFFICES ASSUME Append(p, k) # r PROVE FALSE
    OBVIOUS
  <1>1. /\ Len(D) = Len(r) + 1 /\ Len(r) \in Nat
        /\ \A j \in 1 .. Len(r) : D[j] = r[j]
    BY AppendFacts
  <1>2. Len(p) \in Nat /\ Len(p) < Len(r) /\ r[Len(p) + 1] < k
    BY AheadOf
  <1>3. Len(p) + 1 \in 1 .. Len(r) /\ \A j \in 1 .. Len(p) : j \in 1 .. Len(r)
    BY <1>1, <1>2
  <1>4. \A j \in 1 .. Len(p) : p[j] = D[j]
    <2>1. \A j \in 1 .. Len(p) : p[j] = r[j]
      BY AheadOf
    <2> QED
      BY <1>1, <1>3, <2>1
  <1>5. Len(p) < Len(D)
    BY <1>1, <1>2
  <1>6. ~ (D[Len(p) + 1] < k)
    BY <1>4, <1>5, BeyondOf
  <1> QED
    BY <1>1, <1>2, <1>3, <1>6

\* Two paths to a child are equal if their ends are and their parents' paths.
LEMMA AppendApart ==
    ASSUME NEW p \in Seq(Nat), NEW k \in Nat, NEW r \in Seq(Nat), NEW x \in Nat
    PROVE  Append(p, k) = Append(r, x) => p = r /\ k = x
  <1> SUFFICES ASSUME Append(p, k) = Append(r, x) PROVE p = r /\ k = x
    OBVIOUS
  <1>1. /\ Len(Append(p, k)) = Len(p) + 1 /\ Len(p) \in Nat /\ Append(p, k)[Len(p) + 1] = k
        /\ \A j \in 1 .. Len(p) : Append(p, k)[j] = p[j]
    BY AppendFacts
  <1>2. /\ Len(Append(r, x)) = Len(r) + 1 /\ Len(r) \in Nat /\ Append(r, x)[Len(r) + 1] = x
        /\ \A j \in 1 .. Len(r) : Append(r, x)[j] = r[j]
    BY AppendFacts
  <1>3. Len(p) = Len(r) /\ k = x
    BY <1>1, <1>2
  <1>4. \A j \in 1 .. Len(p) : p[j] = r[j]
    BY <1>1, <1>2, <1>3
  <1> QED
    BY <1>3, <1>4, SeqEqual

\* The places of a beginning.
LEMMA Within ==
    ASSUME NEW a \in Nat, NEW b \in Nat
    PROVE  /\ a <= b => \A j \in 1 .. a : j \in 1 .. b
           /\ a < b => a + 1 \in 1 .. b
  OBVIOUS

\* From a container's children to what comes after the container.
LEMMA CrossPop ==
    ASSUME NEW p \in Seq(Nat), NEW k \in Nat, NEW s \in Seq(Nat), NEW y \in Nat, NEW x \in Nat,
           NEW z \in Nat, NEW r \in Seq(Nat), NEW C \in Seq(Nat), NEW D \in Seq(Nat)
    PROVE  ( /\ z = y + 1 /\ r = Append(s, y) /\ C = Append(r, x) /\ D = Append(s, z)
             /\ Before(p, C) /\ ~Before(Append(p, k), C) /\ Before(Append(p, k), D) )
           => p = r /\ x <= k
  <1>1. ASSUME z = y + 1, r = Append(s, y), C = Append(r, x), D = Append(s, z),
               Before(p, C), ~Before(Append(p, k), C), Before(Append(p, k), D)
        PROVE  p = r /\ x <= k
    <2>1. /\ Len(r) = Len(s) + 1 /\ Len(s) \in Nat /\ r[Len(s) + 1] = y
          /\ \A j \in 1 .. Len(s) : r[j] = s[j]
      BY <1>1, AppendFacts
    <2>2. /\ Len(D) = Len(s) + 1 /\ D[Len(s) + 1] = z
          /\ \A j \in 1 .. Len(s) : D[j] = s[j]
      BY <1>1, AppendFacts
    <2>3. /\ Len(C) = Len(r) + 1 /\ C[Len(r) + 1] = x
          /\ \A j \in 1 .. Len(r) : C[j] = r[j]
      BY <1>1, AppendFacts
    <2>4. CASE Append(p, k) = C
      <3>1. Append(p, k) = Append(r, x)
        BY <1>1, <2>4
      <3>2. p = r /\ k = x
        BY <3>1, AppendApart
      <3> QED
        BY <3>2
    <2>5. CASE Append(p, k) # C
      <3>1. Len(p) < Len(C) /\ C[Len(p) + 1] < k /\ \A j \in 1 .. Len(p) : p[j] = C[j]
        <4>1. Before(p, C) /\ ~Before(Append(p, k), C)
          BY <1>1
        <4> QED
          BY <2>5, <4>1, AheadOf
      <3>2. Len(p) \in Nat /\ Len(p) < Len(C)
        BY <3>1, AppendFacts
      <3>3. CASE Len(p) = Len(r)
        <4>1. \A j \in 1 .. Len(p) : p[j] = r[j]
          BY <2>3, <3>1, <3>3
        <4>2. p = r
          BY <3>3, <4>1, SeqEqual
        <4>3. x <= k
          BY <2>3, <3>1, <3>3
        <4> QED
          BY <4>2, <4>3
      <3>4. CASE Len(p) # Len(r)
        <4>1. Len(p) <= Len(s) /\ Len(p) < Len(D)
          BY <2>1, <2>2, <2>3, <3>2, <3>4
        <4>2. \A j \in 1 .. Len(p) : j \in 1 .. Len(s) /\ j \in 1 .. Len(r)
          <5>1. Len(p) \in Nat /\ Len(s) \in Nat /\ Len(r) \in Nat
                /\ Len(p) <= Len(s) /\ Len(p) <= Len(r)
            BY <2>1, <3>2, <4>1
          <5> QED
            BY <5>1, Within
        <4>3. \A j \in 1 .. Len(p) : C[j] = s[j] /\ D[j] = s[j]
          BY <2>1, <2>2, <2>3, <4>2
        <4>4. ~ (D[Len(p) + 1] < k)
          <5>1. \A j \in 1 .. Len(p) : p[j] = D[j]
            BY <3>1, <4>3
          <5> QED
            BY <1>1, <4>1, <5>1, BeyondOf
        <4>5. CASE Len(p) = Len(s)
          <5>1. Len(s) + 1 \in 1 .. Len(r)
            BY <2>1
          <5>2. C[Len(s) + 1] = y
            BY <2>1, <2>3, <5>1
          <5>3. k = z
            BY <1>1, <2>2, <3>1, <4>4, <4>5, <5>2
          <5>4. p = s
            <6>1. \A j \in 1 .. Len(p) : p[j] = s[j]
              BY <3>1, <4>3
            <6> QED
              BY <4>5, <6>1, SeqEqual
          <5> QED
            BY <1>1, <5>3, <5>4, BeforeApart
        <4>6. CASE Len(p) # Len(s)
          <5>1. Len(p) + 1 \in 1 .. Len(s) /\ Len(p) + 1 \in 1 .. Len(r)
            <6>1. Len(p) \in Nat /\ Len(s) \in Nat /\ Len(r) \in Nat
                  /\ Len(p) < Len(s) /\ Len(p) < Len(r)
              <7>1. Len(r) = Len(s) + 1 /\ Len(s) \in Nat
                BY <2>1
              <7>2. Len(p) \in Nat /\ Len(p) <= Len(s)
                BY <3>2, <4>1
              <7> QED
                BY <4>6, <7>1, <7>2
            <6> QED
              BY <6>1, Within
          <5>2. C[Len(p) + 1] = D[Len(p) + 1]
            BY <2>1, <2>2, <2>3, <5>1
          <5> QED
            BY <3>1, <4>4, <5>2
        <4> QED
          BY <4>5, <4>6
      <3> QED
        BY <3>3, <3>4
    <2> QED
      BY <2>4, <2>5
  <1> QED
    BY <1>1

-----------------------------------------------------------------------------
(* What a step of the search passes                                           *)

\* The root is before every other place, and a parent with its child; and what
\* is behind a place is behind every later one.
LEMMA BehindFacts ==
    ASSUME NEW t \in Trees, NEW o \in Options, NEW C \in Seq(Nat)
    PROVE  /\ C # <<>> => Root \in Behind(t, o, C)
           /\ C = <<>> => Behind(t, o, C) = {}
           /\ \A n \in NodesIn(t) \ {Root} : n \in Behind(t, o, C) => t.up[n] \in Behind(t, o, C)
           /\ \A D \in Seq(Nat) : PathBefore(o, C, D) => Behind(t, o, C) \subseteq Behind(t, o, D)
  <1>1. /\ \A p \in Seq(Nat) : ~PathBefore(o, p, p)
        /\ \A p, q, r \in Seq(Nat) : PathBefore(o, p, q) /\ PathBefore(o, q, r) => PathBefore(o, p, r)
    BY OrderFacts
  <1>2. /\ \A n \in NodesIn(t) : PathIn(t)[n] \in Seq(Nat)
        /\ Root \in NodesIn(t) /\ PathIn(t)[Root] = <<>>
    BY PathFacts, TreeFacts
  <1>3. ASSUME NEW p \in Seq(Nat), p # <<>> PROVE PathBefore(o, <<>>, p)
    <2>1. <<>> \in Seq(Nat) /\ Len(<<>>) = 0 /\ Len(p) \in Nat /\ Len(p) # 0
      BY <1>3
    <2>2. Len(<<>>) < Len(p) /\ \A j \in 1 .. Len(<<>>) : <<>>[j] = p[j]
      BY <2>1
    <2>3. Before(<<>>, p)
      BY <2>1, <2>2, BeforeFacts
    <2> QED
      BY <2>2, <2>3 DEF PathBefore
  <1>4. C # <<>> => Root \in Behind(t, o, C)
    BY <1>2, <1>3 DEF Behind
  <1>5. ASSUME C = <<>>, NEW n \in NodesIn(t), PathBefore(o, PathIn(t)[n], C) PROVE FALSE
    <2>1. PathIn(t)[n] # <<>>
      BY <1>1, <1>5
    <2>2. PathBefore(o, C, PathIn(t)[n])
      BY <1>2, <1>3, <1>5, <2>1
    <2> QED
      BY <1>1, <1>2, <1>5, <2>2
  <1>6. ASSUME NEW n \in NodesIn(t) \ {Root}, n \in Behind(t, o, C)
        PROVE  t.up[n] \in Behind(t, o, C)
    <2>1. /\ t.up[n] \in NodesIn(t) /\ PosIn(t, n) \in Nat
          /\ PathIn(t)[n] = Append(PathIn(t)[t.up[n]], PosIn(t, n))
      BY IsChild
    <2>2. PathBefore(o, PathIn(t)[t.up[n]], PathIn(t)[n])
      BY <1>2, <2>1, ChildOrder
    <2>3. PathBefore(o, PathIn(t)[n], C)
      BY <1>6 DEF Behind
    <2>4. PathBefore(o, PathIn(t)[t.up[n]], C)
      BY <1>1, <1>2, <2>1, <2>2, <2>3
    <2> QED
      BY <2>1, <2>4 DEF Behind
  <1>7. ASSUME NEW D \in Seq(Nat), PathBefore(o, C, D)
        PROVE  Behind(t, o, C) \subseteq Behind(t, o, D)
    BY <1>1, <1>2, <1>7 DEF Behind
  <1>8. C = <<>> => Behind(t, o, C) = {}
    BY <1>5 DEF Behind
  <1> QED
    BY <1>4, <1>6, <1>7, <1>8

\* The children of a node that are behind a place among them.
LEMMA ChildBehind ==
    ASSUME NEW t \in Trees, NEW o \in Options, NEW n \in NodesIn(t) \ {Root},
           NEW c, t.up[n] = c, NEW i \in Nat, NEW C, C = Append(PathIn(t)[c], i)
    PROVE  /\ C \in Seq(Nat)
           /\ n \in Behind(t, o, C) <=> PosIn(t, n) < i
  <1>1. /\ c \in NodesIn(t) /\ PosIn(t, n) \in Nat /\ PathIn(t)[c] \in Seq(Nat)
        /\ PathIn(t)[n] = Append(PathIn(t)[c], PosIn(t, n))
    BY IsChild
  <1> DEFINE p == PathIn(t)[c]
             k == PosIn(t, n)
  <1>2. p \in Seq(Nat) /\ k \in Nat /\ PathIn(t)[n] = Append(p, k) /\ C = Append(p, i)
    BY <1>1
  <1> HIDE DEF p, k
  <1>3. C \in Seq(Nat) /\ Append(p, k) \in Seq(Nat)
    BY <1>2, AppendFacts
  <1>4. k < i => PathBefore(o, Append(p, k), C)
    BY <1>2, ChildOrder
  <1>5. i < k => PathBefore(o, C, Append(p, k))
    BY <1>2, ChildOrder
  <1>6. ~ (PathBefore(o, Append(p, k), C) /\ PathBefore(o, C, Append(p, k)))
        /\ ~PathBefore(o, C, C)
    BY <1>3, OrderFacts
  <1>7. PathBefore(o, Append(p, k), C) <=> k < i
    <2>1. k < i \/ i < k \/ k = i
      BY <1>2
    <2>2. CASE k = i
      BY <1>2, <1>6, <2>2
    <2>3. CASE i < k
      <3>1. ~ (k < i)
        BY <1>2, <2>3
      <3> QED
        BY <1>5, <1>6, <2>3, <3>1
    <2> QED
      BY <1>4, <2>1, <2>2, <2>3
  <1> QED
    BY <1>2, <1>3, <1>7 DEF Behind, k

\* A search that stops at a child that is missing or unresolved has met no later
\* one.
LEMMA NoMoreChildren ==
    ASSUME NEW t \in Trees, NEW o \in Options, NEW n \in NodesIn(t) \ {Root}, MetIn(t, o, n),
           NEW c, t.up[n] = c, NEW x \in Nat,
           x < Len(t.kids[c]) => t.kind[t.kids[c][x + 1]] = "unresolved"
    PROVE  PosIn(t, n) <= x
  <1> DEFINE k == PosIn(t, n)
  <1>1. c \in NodesIn(t) /\ k \in Nat /\ 1 <= k /\ k \in DOMAIN t.kids[c] /\ t.kids[c][k] = n
    BY IsChild
  <1> HIDE DEF k
  <1>2. ReachedIn(t, n)
    BY MetFacts
  <1>3. \A i \in 1 .. k : t.kind[t.kids[c][i]] # "unresolved"
    BY <1>1, <1>2, ReachedChild
  <1>4. Len(t.kids[c]) \in Nat /\ k <= Len(t.kids[c])
    BY <1>1, KidsFacts
  <1>5. ~ (x + 1 \in 1 .. k)
    <2> SUFFICES ASSUME x + 1 \in 1 .. k PROVE FALSE
      OBVIOUS
    <2>1. x < Len(t.kids[c])
      BY <1>1, <1>4
    <2> QED
      BY <1>3, <2>1
  <1> QED
    BY <1>1, <1>5 DEF k

\* A container visited: it is all that is passed.
LEMMA VisitSweep ==
    ASSUME NEW t \in Trees, NEW o \in Options, NEW c \in NodesIn(t),
           o.depth_first \/ c = Root
    PROVE  \A C, D : C = PathIn(t)[c] /\ D = ChildCursor(t, c, 1) =>
              /\ C \in Seq(Nat) /\ D \in Seq(Nat) /\ PathBefore(o, C, D)
              /\ \A n \in NodesIn(t) :
                    MetIn(t, o, n) /\ n \in Behind(t, o, D) => n \in Behind(t, o, C) \cup {c}
  <1> SUFFICES ASSUME NEW C, NEW D, C = PathIn(t)[c], D = ChildCursor(t, c, 1)
               PROVE  /\ C \in Seq(Nat) /\ D \in Seq(Nat) /\ PathBefore(o, C, D)
                      /\ \A n \in NodesIn(t) : MetIn(t, o, n) /\ n \in Behind(t, o, D) =>
                            n \in Behind(t, o, C) \cup {c}
    OBVIOUS
  <1> USE DEF ChildCursor
  <1> DEFINE A == Behind(t, o, C)
             B == Behind(t, o, D)
  <1>1. C \in Seq(Nat) /\ D \in Seq(Nat) /\ PathBefore(o, C, D)
    <2>1. C \in Seq(Nat) /\ 1 \in Nat
      BY PathFacts
    <2> QED
      BY <2>1, ChildOrder, AppendFacts
  <1>2. Root \in A \cup {c} /\ (c = Root => A = {})
    <2>1. c = Root => C = <<>>
      BY PathFacts
    <2>2. c # Root => C # <<>>
      BY PathEmpty
    <2> QED
      BY <1>1, <2>1, <2>2, BehindFacts
  <1>3. ASSUME NEW n \in NodesIn(t) \ {Root}, n \in B, n \notin A
        PROVE  t.up[n] \in B /\ (t.up[n] \in A \cup {c} => n \in {c})
    <2>1. t.up[n] \in B
      BY <1>1, <1>3, BehindFacts
    <2>2. t.up[n] # c
      <3> SUFFICES ASSUME t.up[n] = c PROVE FALSE
        OBVIOUS
      <3>1. PosIn(t, n) < 1
        BY <1>3, ChildBehind
      <3> QED
        BY <3>1, IsChild
    <2>3. ASSUME t.up[n] \in A PROVE n = c
      <3> DEFINE p == PathIn(t)[t.up[n]]
                 k == PosIn(t, n)
      <3>1. o.depth_first
        BY <1>2, <2>3
      <3>2. p \in Seq(Nat) /\ k \in Nat /\ PathIn(t)[n] = Append(p, k)
        BY IsChild
      <3>3. Before(p, C) /\ ~Before(PathIn(t)[n], C) /\ Before(PathIn(t)[n], D)
        BY <1>3, <2>3, <3>1 DEF Behind, PathBefore
      <3> HIDE DEF p, k
      <3>4. Before(p, C) /\ ~Before(Append(p, k), C) /\ Before(Append(p, k), D)
        BY <3>2, <3>3
      <3>5. \A q \in Seq(Nat), i \in Nat :
                Before(q, C) /\ ~Before(Append(q, i), C) /\ Before(Append(q, i), D)
                    => Append(q, i) = C
        <4>1. C \in Seq(Nat) /\ D = Append(C, 1) /\ 1 \in Nat /\ D \in Seq(Nat)
          BY <1>1
        <4> QED
          BY <4>1, CrossVisit
      <3>6. Append(p, k) = C
        BY <3>2, <3>4, <3>5
      <3> QED
        BY <3>2, <3>6, PathInjective
    <2> QED
      BY <2>1, <2>2, <2>3
  <1> HIDE DEF A, B
  <1>4. \A n \in NodesIn(t) : MetIn(t, o, n) /\ n \in B => n \in A \cup {c}
    BY <1>2, <1>3, Sweep
  <1> QED
    BY <1>1, <1>4 DEF A, B

\* A child passed that is not entered now: it is all that is passed, breadth
\* first because its own children come with the next level.
LEMMA AdvanceSweep ==
    ASSUME NEW t \in Trees, NEW o \in Options, NEW c \in NodesIn(t),
           NEW k \in DOMAIN t.kids[c], NEW m, m = t.kids[c][k],
           o.depth_first => ~OpenIn(t, o, m)
    PROVE  \A l, C, D :
              l = k + 1 /\ C = ChildCursor(t, c, k) /\ D = ChildCursor(t, c, l) =>
                 /\ C \in Seq(Nat) /\ D \in Seq(Nat) /\ PathBefore(o, C, D) /\ PathIn(t)[m] = C
                 /\ \A n \in NodesIn(t) : MetIn(t, o, n) /\ n \in Behind(t, o, D) =>
                       n \in Behind(t, o, C) \cup {m}
  <1> SUFFICES ASSUME NEW l, l = k + 1, NEW C, C = ChildCursor(t, c, k),
                      NEW D, D = ChildCursor(t, c, l)
               PROVE  /\ C \in Seq(Nat) /\ D \in Seq(Nat) /\ PathBefore(o, C, D)
                      /\ PathIn(t)[m] = C
                      /\ \A n \in NodesIn(t) : MetIn(t, o, n) /\ n \in Behind(t, o, D) =>
                            n \in Behind(t, o, C) \cup {m}
    OBVIOUS
  <1> USE DEF ChildCursor
  <1> DEFINE A == Behind(t, o, C)
             B == Behind(t, o, D)
             r == PathIn(t)[c]
  <1>1. /\ m \in NodesIn(t) \ {Root} /\ t.up[m] = c /\ k \in Nat /\ PathIn(t)[m] = C
        /\ r \in Seq(Nat) /\ l \in Nat /\ k < l
    BY ChildPath, PathFacts
  <1>2. C \in Seq(Nat) /\ D \in Seq(Nat) /\ PathBefore(o, C, D)
    BY <1>1, ChildOrder, AppendFacts
  <1>3. Root \in A
    <2>1. C # <<>>
      BY <1>1, PathEmpty
    <2> QED
      BY <1>2, <2>1, BehindFacts
  <1>4. CASE o.depth_first
    <2>1. ASSUME NEW n \in NodesIn(t) \ {Root}, MetIn(t, o, n), n \in B, n \notin A
          PROVE  t.up[n] \in B /\ (t.up[n] \in A \cup {m} => n \in {m})
      <3>1. t.up[n] \in B
        BY <1>2, <2>1, BehindFacts
      <3>2. t.up[n] # m
        BY <1>4, <2>1, MetFacts
      <3>3. ASSUME t.up[n] \in A PROVE n = m
        <4> DEFINE p == PathIn(t)[t.up[n]]
                   j == PosIn(t, n)
        <4>1. p \in Seq(Nat) /\ j \in Nat /\ PathIn(t)[n] = Append(p, j)
          BY IsChild
        <4>2. Before(p, C) /\ ~Before(PathIn(t)[n], C) /\ Before(PathIn(t)[n], D)
          BY <1>4, <2>1, <3>3 DEF Behind, PathBefore
        <4> HIDE DEF p, j
        <4>3. Before(p, C) /\ ~Before(Append(p, j), C) /\ Before(Append(p, j), D)
          BY <4>1, <4>2
        <4>4. \A q \in Seq(Nat), i \in Nat :
                  Before(q, C) /\ ~Before(Append(q, i), C) /\ Before(Append(q, i), D)
                      => Append(q, i) = C
          <5>1. C = Append(r, k) /\ D = Append(r, l) /\ l = k + 1
            OBVIOUS
          <5> HIDE DEF r
          <5> QED
            BY <1>1, <1>2, <5>1, CrossAdvance
        <4>5. Append(p, j) = C
          BY <4>1, <4>3, <4>4
        <4> QED
          BY <1>1, <4>1, <4>5, PathInjective
      <3> QED
        BY <3>1, <3>2, <3>3
    <2> HIDE DEF A, B
    <2>2. \A n \in NodesIn(t) : MetIn(t, o, n) /\ n \in B => n \in A \cup {m}
      BY <1>3, <2>1, Sweep
    <2> QED
      BY <1>1, <1>2, <2>2 DEF A, B
  <1>5. CASE ~o.depth_first
    <2>1. ASSUME NEW n \in NodesIn(t), n \in B, n \notin A PROVE n = m
      <3>1. n # Root
        BY <1>3, <2>1
      <3> DEFINE p == PathIn(t)[t.up[n]]
                 j == PosIn(t, n)
      <3>2. p \in Seq(Nat) /\ j \in Nat /\ PathIn(t)[n] = Append(p, j) /\ t.up[n] \in NodesIn(t)
        BY <3>1, IsChild
      <3>3. ~PathBefore(o, Append(p, j), C) /\ PathBefore(o, Append(p, j), D)
        BY <2>1, <3>2 DEF Behind
      <3> HIDE DEF p, j
      <3>4. ~PathBefore(o, D, Append(p, j))
        <4>1. Append(p, j) \in Seq(Nat)
          BY <3>2, AppendFacts
        <4>2. \A a, b \in Seq(Nat) : ~ (PathBefore(o, a, b) /\ PathBefore(o, b, a))
          BY OrderFacts
        <4> QED
          BY <1>2, <3>3, <4>1, <4>2
      <3>5. ~PathBefore(o, p, r)
        BY <1>1, <1>5, <3>2, <3>3, CousinOrder
      <3>6. ~PathBefore(o, r, p)
        BY <1>1, <1>5, <3>2, <3>4, CousinOrder
      <3>7. p = r
        BY <1>1, <3>2, <3>5, <3>6, OrderFacts
      <3>8. t.up[n] = c
        BY <3>2, <3>7, PathInjective DEF p, r
      <3>9. PosIn(t, n) < l /\ ~ (PosIn(t, n) < k)
        BY <1>1, <2>1, <3>1, <3>8, ChildBehind
      <3>10. PosIn(t, n) = k
        BY <1>1, <3>1, <3>9, IsChild
      <3> QED
        BY <3>1, <3>8, <3>10, IsChild
    <2> QED
      BY <1>1, <1>2, <2>1
  <1> QED
    BY <1>4, <1>5

\* The last container popped, depth first: all that a search meets is behind it.
LEMMA LastPopSweep ==
    ASSUME NEW t \in Trees, NEW o \in Options, o.depth_first,
           NEW x \in Nat, x < Len(t.kids[Root]) => t.kind[t.kids[Root][x + 1]] = "unresolved"
    PROVE  \A y, C : y = x + 1 /\ C = ChildCursor(t, Root, y) =>
              C \in Seq(Nat) /\ \A n \in NodesIn(t) : MetIn(t, o, n) => n \in Behind(t, o, C)
  <1> SUFFICES ASSUME NEW y, y = x + 1, NEW C, C = ChildCursor(t, Root, y)
               PROVE  C \in Seq(Nat)
                      /\ \A n \in NodesIn(t) : MetIn(t, o, n) => n \in Behind(t, o, C)
    OBVIOUS
  <1> USE DEF ChildCursor
  <1> DEFINE A == Behind(t, o, C)
             B == NodesIn(t)
  <1>1. Root \in NodesIn(t) /\ PathIn(t)[Root] = <<>> /\ <<>> \in Seq(Nat) /\ y \in Nat
        /\ C \in Seq(Nat) /\ Len(C) = 1 /\ C # <<>>
    BY TreeFacts, PathFacts
  <1>2. Root \in A
    BY <1>1, BehindFacts
  <1>3. ASSUME NEW n \in NodesIn(t) \ {Root}, MetIn(t, o, n), n \notin A, t.up[n] \in A
        PROVE  FALSE
    <2> DEFINE p == PathIn(t)[t.up[n]]
               k == PosIn(t, n)
    <2>1. p \in Seq(Nat) /\ k \in Nat /\ PathIn(t)[n] = Append(p, k) /\ t.up[n] \in NodesIn(t)
      BY IsChild
    <2>2. Before(p, C) /\ ~Before(PathIn(t)[n], C)
      BY <1>3 DEF Behind, PathBefore
    <2>3. t.up[n] = Root
      <3> HIDE DEF k, p
      <3>1. Len(p) < Len(C)
        <4>1. Before(p, C) /\ ~Before(Append(p, k), C)
          BY <2>1, <2>2
        <4> QED
          BY <1>1, <2>1, <4>1, AheadOf
      <3>2. Len(p) = 0
        BY <1>1, <2>1, <3>1
      <3> QED
        BY <2>1, <3>2, PathEmpty DEF p
    <2>4. ~ (PosIn(t, n) < y)
      BY <1>1, <1>3, <2>3, ChildBehind
    <2>5. PosIn(t, n) <= x
      BY <1>3, <2>3, NoMoreChildren
    <2> QED
      BY <2>1, <2>4, <2>5
  <1>4. \A n \in NodesIn(t) \ {Root} : t.up[n] \in B
    BY IsChild
  <1> HIDE DEF A, B
  <1>5. \A n \in NodesIn(t) : MetIn(t, o, n) /\ n \in B => n \in A \cup {}
    BY <1>2, <1>3, <1>4, Sweep
  <1> QED
    BY <1>1, <1>5 DEF A, B

\* Depth first, what comes after a container comes after what is below it.
LEMMA AfterChildren ==
    ASSUME NEW s \in Seq(Nat), NEW w \in Nat, NEW y \in Nat, NEW z \in Nat, w < z
    PROVE  Before(Append(Append(s, w), y), Append(s, z))
  <1>1. PICK r \in Seq(Nat) : r = Append(s, w)
    <2>1. Append(s, w) \in Seq(Nat)
      BY AppendFacts
    <2> QED
      BY <2>1
  <1>2. PICK C \in Seq(Nat) : C = Append(r, y)
    <2>1. Append(r, y) \in Seq(Nat)
      BY AppendFacts
    <2> QED
      BY <2>1
  <1>3. PICK D \in Seq(Nat) : D = Append(s, z)
    <2>1. Append(s, z) \in Seq(Nat)
      BY AppendFacts
    <2> QED
      BY <2>1
  <1>4. /\ Len(r) = Len(s) + 1 /\ Len(s) \in Nat /\ r[Len(s) + 1] = w
        /\ \A j \in 1 .. Len(s) : r[j] = s[j]
    BY <1>1, AppendFacts
  <1>5. /\ Len(C) = Len(r) + 1 /\ \A j \in 1 .. Len(r) : C[j] = r[j]
    BY <1>2, AppendFacts
  <1>6. /\ Len(D) = Len(s) + 1 /\ D[Len(s) + 1] = z
        /\ \A j \in 1 .. Len(s) : D[j] = s[j]
    BY <1>3, AppendFacts
  <1>7. PICK i \in Nat : i = Len(s) + 1
    BY <1>4
  <1>8. i \in 1 .. Len(C) /\ i \in 1 .. Len(r) /\ i <= Len(D) /\ i - 1 = Len(s)
        /\ \A j \in 1 .. Len(s) : j \in 1 .. Len(r)
    BY <1>4, <1>5, <1>6, <1>7
  <1>9. C[i] < D[i]
    BY <1>4, <1>5, <1>6, <1>7, <1>8
  <1>10. \A j \in 1 .. i - 1 : C[j] = D[j]
    BY <1>4, <1>5, <1>6, <1>8
  <1>11. \E n \in 1 .. Len(C) : n <= Len(D) /\ C[n] < D[n] /\ \A j \in 1 .. n - 1 : C[j] = D[j]
    BY <1>8, <1>9, <1>10
  <1>12. Before(C, D)
    BY <1>11, BeforeFacts
  <1> QED
    BY <1>1, <1>2, <1>3, <1>12

\* A container popped, depth first: nothing new is passed.
LEMMA PopSweep ==
    ASSUME NEW t \in Trees, NEW o \in Options, o.depth_first, NEW c \in NodesIn(t) \ {Root},
           NEW x \in Nat, x < Len(t.kids[c]) => t.kind[t.kids[c][x + 1]] = "unresolved"
    PROVE  \A C, D :
              C = ChildCursor(t, c, x + 1) /\ D = ChildCursor(t, t.up[c], PosIn(t, c) + 1) =>
                 /\ C \in Seq(Nat) /\ D \in Seq(Nat) /\ PathBefore(o, C, D)
                 /\ \A n \in NodesIn(t) :
                       MetIn(t, o, n) /\ n \in Behind(t, o, D) => n \in Behind(t, o, C)
  <1>0. SUFFICES ASSUME NEW C, NEW D, C = ChildCursor(t, c, x + 1),
                        D = ChildCursor(t, t.up[c], PosIn(t, c) + 1)
                 PROVE  /\ C \in Seq(Nat) /\ D \in Seq(Nat) /\ PathBefore(o, C, D)
                        /\ \A n \in NodesIn(t) :
                              MetIn(t, o, n) /\ n \in Behind(t, o, D) => n \in Behind(t, o, C)
    OBVIOUS
  <1> USE DEF ChildCursor
  <1>1. PICK r \in Seq(Nat), s \in Seq(Nat), w \in Nat, y \in Nat, z \in Nat :
            /\ r = PathIn(t)[c] /\ s = PathIn(t)[t.up[c]] /\ w = PosIn(t, c)
            /\ y = x + 1 /\ z = w + 1 /\ r = Append(s, w)
    <2>1. /\ PathIn(t)[c] \in Seq(Nat) /\ PathIn(t)[t.up[c]] \in Seq(Nat)
          /\ PosIn(t, c) \in Nat
          /\ PathIn(t)[c] = Append(PathIn(t)[t.up[c]], PosIn(t, c))
      BY IsChild
    <2>2. x + 1 \in Nat /\ PosIn(t, c) + 1 \in Nat
      BY <2>1
    <2> QED
      BY <2>1, <2>2
  <1>2. C = Append(r, y) /\ D = Append(s, z)
    BY <1>0, <1>1
  <1>3. C \in Seq(Nat) /\ D \in Seq(Nat) /\ Len(C) = Len(r) + 1 /\ Len(r) \in Nat
    BY <1>2, AppendFacts
  <1>4. PathBefore(o, C, D)
    <2>1. w < z
      BY <1>1
    <2> QED
      BY <1>1, <1>2, <2>1, AfterChildren DEF PathBefore
  <1> DEFINE A == Behind(t, o, C)
             B == Behind(t, o, D)
  <1>5. Root \in A
    <2>1. C # <<>>
      BY <1>3
    <2> QED
      BY <1>3, <2>1, BehindFacts
  <1>6. ASSUME NEW n \in NodesIn(t) \ {Root}, MetIn(t, o, n), n \in B, n \notin A, t.up[n] \in A
        PROVE  FALSE
    <2>1. PICK p \in Seq(Nat), k \in Nat :
              p = PathIn(t)[t.up[n]] /\ k = PosIn(t, n) /\ PathIn(t)[n] = Append(p, k)
      <3>1. /\ PathIn(t)[t.up[n]] \in Seq(Nat) /\ PosIn(t, n) \in Nat
            /\ PathIn(t)[n] = Append(PathIn(t)[t.up[n]], PosIn(t, n))
        BY IsChild
      <3> QED
        BY <3>1
    <2>2. Before(p, C) /\ ~Before(Append(p, k), C) /\ Before(Append(p, k), D)
      BY <1>6, <2>1 DEF Behind, PathBefore
    <2>3. p = r
      <3>1. z = w + 1 /\ r = Append(s, w) /\ C = Append(r, y) /\ D = Append(s, z)
        BY <1>1, <1>2
      <3> QED
        BY <1>3, <2>2, <3>1, CrossPop
    <2>4. t.up[n] = c
      <3>1. t.up[n] \in NodesIn(t) /\ PathIn(t)[t.up[n]] = PathIn(t)[c]
        BY <1>1, <2>1, <2>3, IsChild
      <3> QED
        BY <3>1, PathInjective
    <2>5. ~ (PosIn(t, n) < y)
      BY <1>1, <1>2, <1>6, <2>4, ChildBehind
    <2>6. PosIn(t, n) <= x
      BY <1>6, <2>4, NoMoreChildren
    <2>7. k <= x /\ ~ (k < y)
      BY <2>1, <2>5, <2>6
    <2> QED
      BY <1>1, <2>7
  <1>7. \A n \in NodesIn(t) \ {Root} : n \in B => t.up[n] \in B
    BY <1>3, BehindFacts
  <1> HIDE DEF A, B
  <1>8. \A n \in NodesIn(t) : MetIn(t, o, n) /\ n \in B => n \in A \cup {}
    BY <1>5, <1>6, <1>7, Sweep
  <1> QED
    BY <1>3, <1>4, <1>8 DEF A, B

\* Breadth first, a node that a popped container leaves behind it unmet, its
\* parent passed, is the child of a container still in the queue.
LEMMA LeftInQueue ==
    ASSUME NEW t \in Trees, NEW o \in Options, ~o.depth_first, NEW c \in NodesIn(t),
           NEW x \in Nat, x < Len(t.kids[c]) => t.kind[t.kids[c][x + 1]] = "unresolved",
           NEW Q, NEW C \in Seq(Nat), NEW n \in NodesIn(t) \ {Root}, MetIn(t, o, n),
           n \notin Behind(t, o, C), t.up[n] \in Behind(t, o, C),
           \A q \in Behind(t, o, C) : OpenIn(t, o, q) =>
              PathBefore(o, PathIn(t)[q], PathIn(t)[c]) \/ q = c \/ q \in Q
    PROVE  C = Append(PathIn(t)[c], x + 1) => t.up[n] \in Q
  <1>0. SUFFICES ASSUME C = Append(PathIn(t)[c], x + 1), t.up[n] \notin Q PROVE FALSE
    OBVIOUS
  <1>1. PICK p \in Seq(Nat), k \in Nat :
            p = PathIn(t)[t.up[n]] /\ k = PosIn(t, n) /\ PathIn(t)[n] = Append(p, k)
    <2>1. /\ PathIn(t)[t.up[n]] \in Seq(Nat) /\ PosIn(t, n) \in Nat
          /\ PathIn(t)[n] = Append(PathIn(t)[t.up[n]], PosIn(t, n))
      BY IsChild
    <2> QED
      BY <2>1
  <1>2. PICK r \in Seq(Nat), y \in Nat : r = PathIn(t)[c] /\ y = x + 1
    <2>1. PathIn(t)[c] \in Seq(Nat) /\ x + 1 \in Nat
      BY PathFacts
    <2> QED
      BY <2>1
  <1>3. C = Append(r, y)
    BY <1>0, <1>2
  <1>4. OpenIn(t, o, t.up[n])
    BY MetFacts
  <1>5. PathBefore(o, p, r) \/ t.up[n] = c
    BY <1>0, <1>1, <1>2, <1>4
  <1>6. CASE PathBefore(o, p, r)
    <2>1. PathBefore(o, Append(p, k), C)
      BY <1>3, <1>6, CousinOrder
    <2> QED
      BY <1>1, <2>1 DEF Behind
  <1>7. CASE t.up[n] = c
    <2>1. ~ (PosIn(t, n) < y)
      BY <1>2, <1>3, <1>7, ChildBehind
    <2>2. PosIn(t, n) <= x
      BY <1>7, NoMoreChildren
    <2>3. k <= x /\ ~ (k < y)
      BY <1>1, <2>1, <2>2
    <2> QED
      BY <1>2, <2>3
  <1> QED
    BY <1>5, <1>6, <1>7

\* A place after some children of a container is after the root.
LEMMA CursorFacts ==
    ASSUME NEW t \in Trees, NEW c \in NodesIn(t), NEW k \in Nat
    PROVE  ChildCursor(t, c, k) \in Seq(Nat) /\ ChildCursor(t, c, k) # <<>>
  <1>1. PathIn(t)[c] \in Seq(Nat)
    BY PathFacts
  <1> QED
    BY <1>1, AppendFacts DEF ChildCursor

\* The last container popped, breadth first: all that a search meets is behind it.
LEMMA QueueEnd ==
    ASSUME NEW t \in Trees, NEW o \in Options, ~o.depth_first, NEW c \in NodesIn(t),
           NEW x \in Nat, x < Len(t.kids[c]) => t.kind[t.kids[c][x + 1]] = "unresolved",
           NEW C, C = ChildCursor(t, c, x + 1),
           \A q \in Behind(t, o, C) : OpenIn(t, o, q) =>
              PathBefore(o, PathIn(t)[q], PathIn(t)[c]) \/ q = c
    PROVE  C \in Seq(Nat) /\ \A n \in NodesIn(t) : MetIn(t, o, n) => n \in Behind(t, o, C)
  <1>1. PathIn(t)[c] \in Seq(Nat) /\ x + 1 \in Nat
    BY PathFacts
  <1>2. C \in Seq(Nat) /\ C # <<>>
    BY <1>1, CursorFacts
  <1> USE DEF ChildCursor
  <1> DEFINE A == Behind(t, o, C)
  <1>3. Root \in A
    BY <1>2, BehindFacts
  <1> DEFINE Q == {}
             B == NodesIn(t)
  <1>4. \A n \in NodesIn(t) \ {Root} :
            MetIn(t, o, n) /\ n \notin A /\ t.up[n] \in A => t.up[n] \in Q
    <2>1. \A q \in Behind(t, o, C) : OpenIn(t, o, q) =>
             PathBefore(o, PathIn(t)[q], PathIn(t)[c]) \/ q = c \/ q \in Q
      OBVIOUS
    <2> HIDE DEF Q
    <2> QED
      BY <1>2, <2>1, LeftInQueue
  <1>5. \A n \in NodesIn(t) \ {Root} : t.up[n] \in B
    BY IsChild
  <1>6. \A q : q \notin Q
    OBVIOUS
  <1> HIDE DEF A, B, Q
  <1>7. \A n \in NodesIn(t) : MetIn(t, o, n) /\ n \in B => n \in A \cup {}
    BY <1>3, <1>4, <1>5, <1>6, Sweep
  <1> QED
    BY <1>2, <1>7 DEF A, B

\* A container popped, breadth first: nothing new is passed up to the first
\* child of the next one in the queue.
LEMMA QueueSweep ==
    ASSUME NEW t \in Trees, NEW o \in Options, ~o.depth_first, NEW c \in NodesIn(t),
           NEW x \in Nat, x < Len(t.kids[c]) => t.kind[t.kids[c][x + 1]] = "unresolved",
           NEW C, C = ChildCursor(t, c, x + 1),
           NEW d \in NodesIn(t), NEW D, D = ChildCursor(t, d, 1),
           \A q \in Behind(t, o, C) : OpenIn(t, o, q) =>
              \/ PathBefore(o, PathIn(t)[q], PathIn(t)[c]) \/ q = c
              \/ q = d \/ PathBefore(o, PathIn(t)[d], PathIn(t)[q]),
           PathBefore(o, PathIn(t)[c], PathIn(t)[d])
    PROVE  /\ C \in Seq(Nat) /\ D \in Seq(Nat) /\ PathBefore(o, C, D)
           /\ \A n \in NodesIn(t) :
                 MetIn(t, o, n) /\ n \in Behind(t, o, D) => n \in Behind(t, o, C)
  <1>1. PathIn(t)[c] \in Seq(Nat) /\ x + 1 \in Nat
    BY PathFacts
  <1>2. C \in Seq(Nat) /\ C # <<>>
    BY <1>1, CursorFacts
  <1> USE DEF ChildCursor
  <1> DEFINE A == Behind(t, o, C)
  <1>3. Root \in A
    BY <1>2, BehindFacts
  <1> DEFINE Q == {q \in NodesIn(t) : q = d \/ PathBefore(o, PathIn(t)[d], PathIn(t)[q])}
  <1>4. \A n \in NodesIn(t) \ {Root} :
            MetIn(t, o, n) /\ n \notin A /\ t.up[n] \in A => t.up[n] \in Q
    <2>1. \A q \in Behind(t, o, C) : OpenIn(t, o, q) =>
             PathBefore(o, PathIn(t)[q], PathIn(t)[c]) \/ q = c \/ q \in Q
      BY DEF Behind
    <2> HIDE DEF Q
    <2> QED
      BY <1>2, <2>1, LeftInQueue
  <1> DEFINE B == Behind(t, o, D)
  <1>5. PathIn(t)[d] \in Seq(Nat) /\ 1 \in Nat
    BY PathFacts
  <1>6. D \in Seq(Nat)
    BY <1>5, AppendFacts
  <1>7. PathBefore(o, C, D)
    BY <1>1, <1>5, CousinOrder
  <1>8. ASSUME NEW n \in NodesIn(t) \ {Root}, MetIn(t, o, n), n \in B, n \notin A, t.up[n] \in A
        PROVE  FALSE
    <2>1. t.up[n] = d \/ PathBefore(o, PathIn(t)[d], PathIn(t)[t.up[n]])
      BY <1>4, <1>8
    <2>2. t.up[n] # d
      <3> SUFFICES ASSUME t.up[n] = d PROVE FALSE
        OBVIOUS
      <3>1. PosIn(t, n) < 1
        BY <1>5, <1>6, <1>8, ChildBehind
      <3> QED
        BY <3>1, IsChild
    <2>3. ~PathBefore(o, PathIn(t)[d], PathIn(t)[t.up[n]])
      <3> SUFFICES ASSUME PathBefore(o, PathIn(t)[d], PathIn(t)[t.up[n]]) PROVE FALSE
        OBVIOUS
      <3>1. /\ PathIn(t)[t.up[n]] \in Seq(Nat) /\ PosIn(t, n) \in Nat /\ PathIn(t)[n] \in Seq(Nat)
            /\ PathIn(t)[n] = Append(PathIn(t)[t.up[n]], PosIn(t, n))
        BY IsChild
      <3>2. PathBefore(o, D, PathIn(t)[n])
        BY <1>5, <1>6, <3>1, CousinOrder
      <3>3. PathBefore(o, PathIn(t)[n], D)
        BY <1>8 DEF Behind
      <3>4. \A a, b \in Seq(Nat) : ~ (PathBefore(o, a, b) /\ PathBefore(o, b, a))
        BY OrderFacts
      <3> QED
        BY <1>6, <3>1, <3>2, <3>3, <3>4
    <2> QED
      BY <2>1, <2>2, <2>3
  <1>9. \A n \in NodesIn(t) \ {Root} : n \in B => t.up[n] \in B
    BY <1>6, BehindFacts
  <1> HIDE DEF A, B
  <1>10. \A n \in NodesIn(t) : MetIn(t, o, n) /\ n \in B => n \in A \cup {}
    BY <1>3, <1>8, <1>9, Sweep
  <1> QED
    BY <1>2, <1>6, <1>7, <1>10 DEF A, B

-----------------------------------------------------------------------------
(* What was found, as the search goes on                                      *)

\* If what was found is what is behind the cursor, nothing is missing.
LEMMA NoGap ==
    ASSUME NEW t \in Trees, NEW o \in Options, NEW F, Sorted(t, o, F),
           NEW C \in Seq(Nat), FoundAmong(t, o, Behind(t, o, C), F)
    PROVE  Gapless(t, o, F)
  <1> SUFFICES ASSUME NEW n \in NodesIn(t), NEW i \in 1 .. Len(F), ReportedIn(t, o, n), ~IsFound(F, n)
               PROVE  PathBefore(o, PathIn(t)[F[i]], PathIn(t)[n])
    BY DEF Gapless, IsFound
  <1>1. F[i] \in NodesIn(t) /\ IsFound(F, F[i])
    BY DEF Sorted, IsFound
  <1>2. PathIn(t)[n] \in Seq(Nat) /\ PathIn(t)[F[i]] \in Seq(Nat)
    BY <1>1, PathFacts
  <1>3. PathBefore(o, PathIn(t)[F[i]], C)
    BY <1>1 DEF FoundAmong, Behind
  <1>4. ~PathBefore(o, PathIn(t)[n], C)
    BY DEF FoundAmong, Behind
  <1>5. PathBefore(o, C, PathIn(t)[n]) \/ C = PathIn(t)[n]
    BY <1>2, <1>4, OrderFacts
  <1>6. \A p, q, r \in Seq(Nat) : PathBefore(o, p, q) /\ PathBefore(o, q, r) => PathBefore(o, p, r)
    BY OrderFacts
  <1> QED
    BY <1>2, <1>3, <1>5, <1>6

\* One node is passed, and yielded if the search reports it.
LEMMA FoundNext ==
    ASSUME NEW t \in Trees, NEW o \in Options, NEW F, Sorted(t, o, F),
           NEW C \in Seq(Nat), NEW D \in Seq(Nat), PathBefore(o, C, D), FoundAmong(t, o, Behind(t, o, C), F),
           NEW y \in NodesIn(t), PathIn(t)[y] = C,
           \A n \in NodesIn(t) :
              MetIn(t, o, n) /\ n \in Behind(t, o, D) => n \in Behind(t, o, C) \cup {y},
           NEW G, G = IF MetIn(t, o, y) /\ y \in o.pred THEN Append(F, y) ELSE F
    PROVE  Sorted(t, o, G) /\ FoundAmong(t, o, Behind(t, o, D), G)
  <1>1. Behind(t, o, C) \subseteq Behind(t, o, D) /\ y \in Behind(t, o, D)
    BY BehindFacts DEF Behind
  <1>2. CASE ReportedIn(t, o, y)
    <2> DEFINE N == NodesIn(t)
               L == Len(F)
    <2>1. G = Append(F, y)
      BY <1>2 DEF ReportedIn
    <2>2. F \in Seq(N) /\ y \in N
      BY DEF Sorted
    <2> HIDE DEF N
    <2>3. /\ G \in Seq(N) /\ Len(G) = L + 1 /\ L \in Nat /\ G[L + 1] = y
          /\ \A i \in 1 .. L : G[i] = F[i]
      BY <2>1, <2>2
    <2> HIDE DEF L
    <2>4. \A i \in 1 .. Len(G) : i \in 1 .. L \/ i = L + 1
      BY <2>3
    <2>5. \A i \in 1 .. L : i \in 1 .. Len(G)
      BY <2>3
    <2>6. \A n : IsFound(G, n) <=> IsFound(F, n) \/ n = y
      <3>1. L + 1 \in 1 .. Len(G)
        BY <2>3
      <3> QED
        BY <2>3, <2>4, <2>5, <3>1 DEF IsFound, L
    <2>7. \A i \in 1 .. Len(G) : ReportedIn(t, o, G[i])
      BY <1>2, <2>3, <2>4 DEF Sorted, L
    <2>8. ASSUME NEW i \in 1 .. Len(G), NEW j \in 1 .. Len(G), i < j
          PROVE  PathBefore(o, PathIn(t)[G[i]], PathIn(t)[G[j]])
      <3>1. i \in 1 .. L
        BY <2>3, <2>8
      <3>2. CASE j \in 1 .. L
        BY <2>3, <2>8, <3>1, <3>2 DEF Sorted, L
      <3>3. CASE j = L + 1
        <4>1. IsFound(F, F[i]) /\ F[i] \in NodesIn(t)
          BY <3>1 DEF IsFound, Sorted, L
        <4>2. PathBefore(o, PathIn(t)[F[i]], C)
          BY <4>1 DEF FoundAmong, Behind
        <4> QED
          BY <2>3, <3>1, <3>3, <4>2
      <3> QED
        BY <2>4, <3>2, <3>3
    <2>9. Sorted(t, o, G)
      BY <2>3, <2>7, <2>8 DEF Sorted, N
    <2>10. FoundAmong(t, o, Behind(t, o, D), G)
      <3> SUFFICES ASSUME NEW n \in NodesIn(t)
                   PROVE  IsFound(G, n) <=> ReportedIn(t, o, n) /\ n \in Behind(t, o, D)
        BY DEF FoundAmong
      <3>1. ReportedIn(t, o, n) => MetIn(t, o, n)
        BY DEF ReportedIn
      <3>2. IsFound(F, n) <=> ReportedIn(t, o, n) /\ n \in Behind(t, o, C)
        BY DEF FoundAmong
      <3> QED
        BY <1>1, <1>2, <2>6, <3>1, <3>2
    <2> QED
      BY <2>9, <2>10
  <1>3. CASE ~ReportedIn(t, o, y)
    <2>1. G = F
      BY <1>3 DEF ReportedIn
    <2>2. FoundAmong(t, o, Behind(t, o, D), F)
      <3> SUFFICES ASSUME NEW n \in NodesIn(t)
                   PROVE  IsFound(F, n) <=> ReportedIn(t, o, n) /\ n \in Behind(t, o, D)
        BY DEF FoundAmong
      <3>1. ReportedIn(t, o, n) => MetIn(t, o, n)
        BY DEF ReportedIn
      <3>2. IsFound(F, n) <=> ReportedIn(t, o, n) /\ n \in Behind(t, o, C)
        BY DEF FoundAmong
      <3> QED
        BY <1>1, <1>3, <3>1, <3>2
    <2> QED
      BY <2>1, <2>2
  <1> QED
    BY <1>2, <1>3

\* A container is popped: nothing a search meets is passed that was not.
LEMMA FoundStill ==
    ASSUME NEW t \in Trees, NEW o \in Options, NEW F,
           NEW C \in Seq(Nat), FoundAmong(t, o, Behind(t, o, C), F), NEW B,
           Behind(t, o, C) \subseteq B,
           \A n \in NodesIn(t) : MetIn(t, o, n) /\ n \in B => n \in Behind(t, o, C)
    PROVE  FoundAmong(t, o, B, F)
  <1>1. \A n \in NodesIn(t) : ReportedIn(t, o, n) => MetIn(t, o, n)
    BY DEF ReportedIn
  <1> QED
    BY <1>1 DEF FoundAmong

-----------------------------------------------------------------------------
(* Where the search is, as its frames change                                  *)

\* Breadth first, the queue stays in order when its head moves on, and when the
\* child it passes is queued.
LEMMA InOrderKept ==
    ASSUME NEW t \in Trees, NEW o \in Options, NEW S, NEW fs \in Seq(S), NEW hs \in Seq(S),
           Len(fs) > 0, InOrder(t, o, fs), Passed(t, o, fs) \subseteq Passed(t, o, hs),
           Len(hs) = Len(fs) \/ Len(hs) = Len(fs) + 1,
           \A j \in 1 .. Len(fs) :
              /\ hs[j].container.node = fs[j].container.node
              /\ j > 1 => hs[j].iter.index = fs[j].iter.index
              /\ ~hs[j].visited => ~fs[j].visited /\ Len(hs) = Len(fs),
           \A j \in 1 .. Len(hs) : j > Len(fs) =>
              /\ hs[j].visited /\ hs[j].iter.index = 0
              /\ hs[j].container.node \in Passed(t, o, hs)
              /\ \A i \in 1 .. Len(fs) :
                    PathBefore(o, PathIn(t)[hs[i].container.node], PathIn(t)[hs[j].container.node]),
           \A n \in Passed(t, o, hs) : OpenIn(t, o, n) =>
              n \in Passed(t, o, fs) \/ \E i \in 1 .. Len(hs) : hs[i].container.node = n
    PROVE  InOrder(t, o, hs)
  <1> DEFINE L == Len(fs)
             M == Len(hs)
  <1>1. L \in Nat /\ M \in Nat /\ L > 0 /\ (M = L \/ M = L + 1)
    OBVIOUS
  <1>2. \A j \in 1 .. M : j \in 1 .. L \/ (j > L /\ M = L + 1 /\ j = L + 1)
    BY <1>1
  <1>3. \A j \in 1 .. L : j \in 1 .. M
    BY <1>1
  <1>4. 1 \in 1 .. L /\ hs[1].container.node = fs[1].container.node
    BY <1>1
  <1>5. ASSUME NEW i \in 1 .. M
        PROVE  /\ ~hs[i].visited => M = 1 /\ hs[i].container.node = Root
               /\ i > 1 => hs[i].iter.index = 0
               /\ i > 1 => hs[i].container.node \in Passed(t, o, hs)
    <2>1. CASE i \in 1 .. L
      BY <2>1 DEF InOrder
    <2>2. CASE i > L
      BY <2>2
    <2> QED
      BY <1>2, <2>1, <2>2
  <1>6. ASSUME NEW i \in 1 .. M, NEW j \in 1 .. M, i < j
        PROVE  PathBefore(o, PathIn(t)[hs[i].container.node], PathIn(t)[hs[j].container.node])
    <2>1. CASE j \in 1 .. L
      <3>1. i \in 1 .. L
        BY <1>1, <1>6, <2>1
      <3> QED
        BY <1>6, <2>1, <3>1 DEF InOrder
    <2>2. CASE j > L
      <3>1. i \in 1 .. L
        BY <1>1, <1>2, <1>6, <2>2
      <3> QED
        BY <2>2, <3>1
    <2> QED
      BY <1>2, <2>1, <2>2
  <1>7. ASSUME NEW c \in Passed(t, o, hs), OpenIn(t, o, c)
        PROVE  \/ PathBefore(o, PathIn(t)[c], PathIn(t)[hs[1].container.node])
               \/ \E i \in 1 .. M : hs[i].container.node = c
    <2>1. CASE c \in Passed(t, o, fs)
      <3>1. \/ PathBefore(o, PathIn(t)[c], PathIn(t)[fs[1].container.node])
            \/ \E i \in 1 .. L : fs[i].container.node = c
        BY <1>7, <2>1 DEF InOrder
      <3> QED
        BY <1>3, <1>4, <3>1
    <2> QED
      BY <1>7, <2>1
  <1> QED
    BY <1>5, <1>6, <1>7 DEF InOrder

\* Breadth first, the queue stays in order when its head is popped.
LEMMA InOrderPopped ==
    ASSUME NEW t \in Trees, NEW o \in Options, NEW S, NEW fs \in Seq(S), NEW hs \in Seq(S),
           \A i \in 1 .. Len(fs) : fs[i].container.node \in NodesIn(t),
           Len(fs) > 1, InOrder(t, o, fs), Passed(t, o, fs) \subseteq Passed(t, o, hs),
           Passed(t, o, hs) \subseteq NodesIn(t),
           Len(hs) = Len(fs) - 1, \A j \in 1 .. Len(hs) : hs[j] = fs[j + 1],
           \A n \in Passed(t, o, hs) : OpenIn(t, o, n) => n \in Passed(t, o, fs)
    PROVE  InOrder(t, o, hs)
  <1> DEFINE L == Len(fs)
             M == Len(hs)
  <1>1. L \in Nat /\ M \in Nat /\ L > 1 /\ M = L - 1
    OBVIOUS
  <1>2. \A j \in 1 .. M : j + 1 \in 1 .. L /\ j + 1 > 1
    BY <1>1
  <1>3. 1 \in 1 .. L /\ 1 \in 1 .. M /\ 1 + 1 \in 1 .. L /\ 1 < 1 + 1
    BY <1>1
  <1>4. hs[1] = fs[1 + 1]
    BY <1>3
  <1>5. ASSUME NEW i \in 1 .. M
        PROVE  /\ ~hs[i].visited => M = 1 /\ hs[i].container.node = Root
               /\ i > 1 => hs[i].iter.index = 0
               /\ i > 1 => hs[i].container.node \in Passed(t, o, hs)
    <2>1. hs[i] = fs[i + 1]
      OBVIOUS
    <2>2. fs[i + 1].visited
      BY <1>1, <1>2 DEF InOrder
    <2>3. fs[i + 1].iter.index = 0 /\ fs[i + 1].container.node \in Passed(t, o, fs)
      BY <1>2 DEF InOrder
    <2> QED
      BY <2>1, <2>2, <2>3
  <1>6. ASSUME NEW i \in 1 .. M, NEW j \in 1 .. M, i < j
        PROVE  PathBefore(o, PathIn(t)[hs[i].container.node], PathIn(t)[hs[j].container.node])
    <2>1. i + 1 \in 1 .. L /\ j + 1 \in 1 .. L /\ i + 1 < j + 1
      BY <1>2, <1>6
    <2>2. PathBefore(o, PathIn(t)[fs[i + 1].container.node], PathIn(t)[fs[j + 1].container.node])
      BY <2>1 DEF InOrder
    <2> QED
      BY <2>2
  <1>7. ASSUME NEW c \in Passed(t, o, hs), OpenIn(t, o, c)
        PROVE  \/ PathBefore(o, PathIn(t)[c], PathIn(t)[hs[1].container.node])
               \/ \E i \in 1 .. M : hs[i].container.node = c
    <2>1. \/ PathBefore(o, PathIn(t)[c], PathIn(t)[fs[1].container.node])
          \/ \E i \in 1 .. L : fs[i].container.node = c
      BY <1>7 DEF InOrder
    <2>2. PathBefore(o, PathIn(t)[fs[1].container.node], PathIn(t)[hs[1].container.node])
      BY <1>3, <1>4 DEF InOrder
    <2>3. CASE PathBefore(o, PathIn(t)[c], PathIn(t)[fs[1].container.node])
      <3>1. /\ PathIn(t)[c] \in Seq(Nat) /\ PathIn(t)[fs[1].container.node] \in Seq(Nat)
            /\ PathIn(t)[hs[1].container.node] \in Seq(Nat)
        BY <1>3, <1>4, PathFacts
      <3>2. \A p, q, r \in Seq(Nat) :
                PathBefore(o, p, q) /\ PathBefore(o, q, r) => PathBefore(o, p, r)
        BY OrderFacts
      <3> QED
        BY <2>2, <2>3, <3>1, <3>2
    <2>4. ASSUME NEW i \in 1 .. L, fs[i].container.node = c
          PROVE  \/ PathBefore(o, PathIn(t)[c], PathIn(t)[hs[1].container.node])
                 \/ \E j \in 1 .. M : hs[j].container.node = c
      <3>1. CASE i = 1
        BY <2>2, <2>4, <3>1
      <3>2. CASE i # 1
        <4>1. i - 1 \in 1 .. M /\ i - 1 + 1 = i
          BY <1>1, <3>2
        <4>2. hs[i - 1] = fs[i]
          BY <4>1
        <4> QED
          BY <2>4, <4>1, <4>2
      <3> QED
        BY <3>1, <3>2
    <2> QED
      BY <2>1, <2>3, <2>4
  <1> QED
    BY <1>5, <1>6, <1>7 DEF InOrder

\* The parts of the frames.
LEMMA FramesHave ==
    ASSUME Inv
    PROVE  /\ frames \in Seq(FrameType(tree)) /\ Len(frames) \in Nat
           /\ \A i \in 1 .. Len(frames) :
                 /\ frames[i] \in FrameType(tree)
                 /\ frames[i].container.node \in NodesIn(tree) /\ frames[i].iter.index \in Nat
                 /\ ContainerIn(tree, frames[i].container.node)
                 /\ frames[i].iter.index <= Len(tree.kids[frames[i].container.node])
  <1>1. tree \in Trees /\ frames \in Seq(FrameType(tree))
        /\ \A i \in 1 .. Len(frames) : FrameOK(tree, opts, frames[i])
    BY DEF Inv, FramesOK
  <1>2. \A i \in 1 .. Len(frames) : frames[i] \in FrameType(tree)
    BY <1>1
  <1>3. \A i \in 1 .. Len(frames) :
            frames[i].container.node \in NodesIn(tree) /\ frames[i].iter.index \in Nat
    BY <1>1, <1>2, FrameParts
  <1> QED
    BY <1>1, <1>2, <1>3 DEF FrameOK

\* What is known of the order between two steps.
LEMMA OrderNow ==
    ASSUME Inv, OrderInv, ContainerIn(tree, Root), pc = "busy"
    PROVE  /\ tree \in Trees /\ opts \in Options
           /\ Sorted(tree, opts, found) /\ Gapless(tree, opts, found)
           /\ Placed(tree, opts, frames)
           /\ FoundAmong(tree, opts, Passed(tree, opts, frames), found)
           /\ frames # <<>> =>
                 /\ Top = TopIn(opts, frames) /\ ReadSoFar(tree, opts, frames[Top])
                 /\ Passed(tree, opts, frames) = Behind(tree, opts, Cursor(tree, frames[Top]))
  <1>1. /\ tree \in Trees /\ opts \in Options
        /\ Sorted(tree, opts, found) /\ Gapless(tree, opts, found)
        /\ Placed(tree, opts, frames)
        /\ FoundAmong(tree, opts, Passed(tree, opts, frames), found)
    BY DEF Inv, OrderInv
  <1>2. Top = TopIn(opts, frames)
    BY DEF Top, TopIn
  <1>3. frames # <<>> => ReadSoFar(tree, opts, frames[Top])
    BY <1>1, TopFacts DEF Placed
  <1> QED
    BY <1>1, <1>2, <1>3 DEF Passed

\* And after one.
LEMMA OrderThen ==
    ASSUME UNCHANGED <<tree, opts>>, Sorted(tree, opts, found'), Gapless(tree, opts, found'),
           Placed(tree, opts, frames'),
           FoundAmong(tree, opts, Passed(tree, opts, frames'), found')
    PROVE  OrderInv'
  <1>1. /\ Sorted(tree, opts, found)' /\ Gapless(tree, opts, found)'
        /\ Placed(tree, opts, frames)'
        /\ FoundAmong(tree, opts, Passed(tree, opts, frames), found)'
    OBVIOUS
  <1> QED
    BY <1>1 DEF OrderInv

\* The frames once the iterator of the top one has moved on.
LEMMA AdvancedFrames ==
    ASSUME Inv, frames # <<>>, HasNext(frames[Top]),
           NEW gs, gs = [frames EXCEPT ![Top] = Advanced(frames[Top])]
    PROVE  /\ gs \in Seq(FrameType(tree)) /\ Len(gs) = Len(frames)
           /\ \A j \in 1 .. Len(frames) : j # Top => gs[j] = frames[j]
           /\ gs[Top].container = frames[Top].container
           /\ gs[Top].visited = frames[Top].visited
           /\ gs[Top].iter.index = frames[Top].iter.index + 1
  <1> DEFINE f == frames[Top]
             g == Advanced(f)
  <1>1. /\ tree \in Trees /\ opts \in Options /\ frames \in Seq(FrameType(tree))
        /\ Top \in 1 .. Len(frames) /\ f \in FrameType(tree) /\ FrameOK(tree, opts, f)
    BY TopFacts DEF Inv
  <1>2. g = AdvancedIn(tree, f)
    BY DEF Advanced, AdvancedIn, NextChild, NextIn
  <1>3. f.iter.index < Len(tree.kids[f.container.node])
    BY DEF HasNext
  <1> HIDE DEF f, g
  <1>4. /\ g \in FrameType(tree) /\ g.container = f.container
        /\ g.visited = f.visited /\ g.iter.index = f.iter.index + 1
    BY <1>1, <1>2, <1>3, AdvancedFacts
  <1>5. gs = [frames EXCEPT ![Top] = g]
    BY DEF f, g
  <1>6. /\ gs \in Seq(FrameType(tree)) /\ Len(gs) = Len(frames)
        /\ \A j \in 1 .. Len(frames) : gs[j] = IF j = Top THEN g ELSE frames[j]
    BY <1>1, <1>4, <1>5, ExceptSeq
  <1> QED
    BY <1>1, <1>4, <1>6 DEF f

\* The next child of the top frame: whether the search meets it, and enters it.
LEMMA NextMet ==
    ASSUME Inv, frames # <<>>, ReadSoFar(tree, opts, frames[Top]), HasNext(frames[Top]),
           NEW n, n = NextChild(frames[Top]), NEW c, c = frames[Top].container.node,
           NEW k, k = frames[Top].iter.index + 1
    PROVE  /\ c \in NodesIn(tree) /\ k \in DOMAIN tree.kids[c] /\ n = tree.kids[c][k]
           /\ k \in Nat /\ n \in NodesIn(tree) \ {Root} /\ tree.up[n] = c
           /\ \A i \in 1 .. k : tree.kind[tree.kids[c][i]] # "unresolved"
           /\ OpenIn(tree, opts, n) <=>
                 IsContainer(n) /\ ~PushRefused(n, frames[Top].depth + 1)
           /\ MetIn(tree, opts, n) <=>
                 (IsContainer(n) => ~PushRefused(n, frames[Top].depth + 1))
  <1>1. /\ tree \in Trees /\ opts \in Options /\ Top \in 1 .. Len(frames)
        /\ frames[Top] \in FrameType(tree) /\ FrameOK(tree, opts, frames[Top])
        /\ c \in NodesIn(tree) /\ frames[Top].iter.index \in Nat
    BY TopFacts, FramesHave DEF Inv
  <1>2. n = tree.kids[c][k]
    BY DEF NextChild
  <1>3. n \in NodesIn(tree) \ {Root} /\ tree.up[n] = c /\ k \in DOMAIN tree.kids[c]
    BY <1>1, AdvanceKeeps
  <1>4. k \in Nat
    BY <1>1
  <1>5. ASSUME NEW i \in 1 .. k PROVE tree.kind[tree.kids[c][i]] # "unresolved"
    <2>1. i \in 1 .. frames[Top].iter.index \/ i = k
      BY <1>1
    <2>2. tree.kind[n] # "unresolved"
      BY DEF HasNext
    <2>3. \A j \in 1 .. frames[Top].iter.index : tree.kind[tree.kids[c][j]] # "unresolved"
      BY DEF ReadSoFar
    <2> QED
      BY <1>2, <2>1, <2>2, <2>3
  <1>6. ReachedIn(tree, n)
    BY <1>1, <1>2, <1>3, <1>5, ReachedChild
  <1>7. OpenIn(tree, opts, tree.up[n])
    BY <1>3 DEF ReadSoFar
  <1>8. MetIn(tree, opts, n) <=> (ContainerIn(tree, n) => EnteredIn(tree, opts, n))
    BY <1>1, <1>3, <1>6, <1>7, MetFacts
  <1>9. IsContainer(n) => (EnteredIn(tree, opts, n) <=> ~PushRefused(n, frames[Top].depth + 1))
    BY <1>3, PushDecides DEF RefusedIn
  <1>10. IsContainer(n) <=> ContainerIn(tree, n)
    BY InForce
  <1>11. MetIn(tree, opts, n) <=>
            (IsContainer(n) => ~PushRefused(n, frames[Top].depth + 1))
    BY <1>8, <1>9, <1>10
  <1>12. OpenIn(tree, opts, n) <=> MetIn(tree, opts, n) /\ ContainerIn(tree, n)
    BY <1>1, <1>3, MetFacts
  <1> QED
    BY <1>1, <1>2, <1>3, <1>4, <1>5, <1>10, <1>11, <1>12

\* A container visited: it is yielded first of what is below it.
LEMMA VisitOrder ==
    ASSUME Inv, OrderInv, ContainerIn(tree, Root), StepVisit
    PROVE  OrderInv'
  <1> DEFINE f == frames[Top]
             g == [f EXCEPT !.visited = TRUE]
             c == f.container.node
             C == PathIn(tree)[c]
             D == ChildCursor(tree, c, 1)
             L == Len(frames)
  <1>1. /\ pc = "busy" /\ frames # <<>> /\ UNCHANGED <<tree, opts>> /\ ~f.visited
        /\ frames' = [frames EXCEPT ![Top] = g] /\ Yield(f.container)
    BY DEF StepVisit
  <1>2. /\ tree \in Trees /\ opts \in Options
        /\ Sorted(tree, opts, found) /\ Gapless(tree, opts, found)
        /\ Placed(tree, opts, frames)
        /\ FoundAmong(tree, opts, Passed(tree, opts, frames), found)
        /\ Top = TopIn(opts, frames) /\ ReadSoFar(tree, opts, f)
        /\ Passed(tree, opts, frames) = Behind(tree, opts, Cursor(tree, f))
    BY <1>1, OrderNow
  <1>3. /\ Top \in 1 .. L /\ L \in Nat /\ L > 0 /\ f \in FrameType(tree) /\ c \in NodesIn(tree)
        /\ frames \in Seq(FrameType(tree))
        /\ (opts.depth_first => Top = L) /\ (~opts.depth_first => Top = 1)
    BY <1>1, TopFacts
  <1>4. OpenIn(tree, opts, c) /\ f.iter.index = 0 /\ Cursor(tree, f) = C
    BY <1>1, <1>2 DEF ReadSoFar, Cursor
  <1>5. g \in FrameType(tree) /\ g.container = f.container /\ g.iter = f.iter /\ g.visited = TRUE
    BY <1>3 DEF FrameType
  <1> HIDE DEF g
  <1>6. /\ frames' \in Seq(FrameType(tree)) /\ Len(frames') = L
        /\ \A j \in 1 .. L : frames'[j] = IF j = Top THEN g ELSE frames[j]
    BY <1>1, <1>3, <1>5, ExceptSeq
  <1>7. frames' # <<>> /\ TopIn(opts, frames') = Top /\ frames'[Top] = g
    <2>1. frames' # <<>>
      BY <1>3, <1>6
    <2>2. TopIn(opts, frames') = Top
      BY <1>2, <1>6 DEF TopIn
    <2> QED
      BY <1>3, <1>6, <2>1, <2>2
  <1>8. Cursor(tree, g) = D
    <2>1. g.iter.index + 1 = 1
      BY <1>4, <1>5
    <2> QED
      BY <1>5, <2>1 DEF Cursor
  <1>9. Passed(tree, opts, frames') = Behind(tree, opts, D)
    BY <1>7, <1>8 DEF Passed
  <1>10. opts.depth_first \/ (c = Root /\ L = 1)
    BY <1>1, <1>2, <1>3 DEF Placed, InOrder
  <1> HIDE DEF f, c, L
  <1>11. /\ C \in Seq(Nat) /\ D \in Seq(Nat) /\ PathBefore(opts, C, D)
         /\ \A n \in NodesIn(tree) :
               MetIn(tree, opts, n) /\ n \in Behind(tree, opts, D) =>
                   n \in Behind(tree, opts, C) \cup {c}
    <2>1. C = PathIn(tree)[c] /\ D = ChildCursor(tree, c, 1)
      OBVIOUS
    <2>2. opts.depth_first \/ c = Root
      BY <1>10
    <2>3. tree \in Trees /\ opts \in Options /\ c \in NodesIn(tree)
      BY <1>2, <1>3
    <2> HIDE DEF C, D
    <2>4. \A X, Y : X = PathIn(tree)[c] /\ Y = ChildCursor(tree, c, 1) =>
             /\ X \in Seq(Nat) /\ Y \in Seq(Nat) /\ PathBefore(opts, X, Y)
             /\ \A n \in NodesIn(tree) : MetIn(tree, opts, n) /\ n \in Behind(tree, opts, Y) =>
                   n \in Behind(tree, opts, X) \cup {c}
      BY <2>2, <2>3, VisitSweep
    <2> QED
      BY <2>1, <2>4
  <1>12. found' = IF MetIn(tree, opts, c) /\ c \in opts.pred THEN Append(found, c) ELSE found
    <2>1. MetIn(tree, opts, c)
      BY <1>2, <1>3, <1>4, MetFacts
    <2>2. f.container # NoValue
      <3>1. f.container.of \in {"caller", "iter", "copy"}
        BY <1>2, <1>3, FrameParts
      <3>2. NoValue.of = "none"
        BY WrapperFacts
      <3> QED
        BY <3>1, <3>2
    <2> QED
      BY <1>1, <2>1, <2>2 DEF Yield, c
  <1> HIDE DEF C, D
  <1>13. Sorted(tree, opts, found') /\ FoundAmong(tree, opts, Behind(tree, opts, D), found')
    <2>1. PathIn(tree)[c] = C
      BY DEF C
    <2>2. FoundAmong(tree, opts, Behind(tree, opts, C), found)
      BY <1>2, <1>4
    <2> QED
      BY <1>2, <1>3, <1>11, <1>12, <2>1, <2>2, FoundNext
  <1>14. Gapless(tree, opts, found')
    BY <1>2, <1>11, <1>13, NoGap
  <1>15. \A j \in 1 .. L :
             /\ frames'[j].container = frames[j].container /\ frames'[j].iter = frames[j].iter
             /\ ~frames'[j].visited => ~frames[j].visited
    BY <1>5, <1>6 DEF f
  <1>16. \A j \in 1 .. Len(frames') : ReadSoFar(tree, opts, frames'[j])
    <2> TAKE j \in 1 .. Len(frames')
    <2>1. j \in 1 .. L /\ ReadSoFar(tree, opts, frames[j])
      BY <1>2, <1>6 DEF Placed, L
    <2> QED
      BY <1>15, <2>1 DEF ReadSoFar
  <1>17. opts.depth_first => WayDown(frames')
    <2> SUFFICES ASSUME opts.depth_first, NEW j \in 1 .. L - 1 PROVE frames'[j].visited
      BY <1>6 DEF WayDown
    <2>1. j \in 1 .. L /\ frames[j].visited
      BY <1>2, <1>3 DEF Placed, WayDown, L
    <2> QED
      BY <1>5, <1>6, <2>1
  <1>18. ~opts.depth_first => InOrder(tree, opts, frames')
    <2> SUFFICES ASSUME ~opts.depth_first PROVE InOrder(tree, opts, frames')
      OBVIOUS
    <2>1. InOrder(tree, opts, frames) /\ Len(frames) > 0
      BY <1>1, <1>2, <1>3 DEF Placed, L
    <2>2. Passed(tree, opts, frames) \subseteq Passed(tree, opts, frames')
      BY <1>2, <1>4, <1>9, <1>11, BehindFacts
    <2>3. \A n \in Passed(tree, opts, frames') : OpenIn(tree, opts, n) =>
              n \in Passed(tree, opts, frames)
              \/ \E i \in 1 .. Len(frames') : frames'[i].container.node = n
      <3> TAKE n \in Passed(tree, opts, frames')
      <3> HAVE OpenIn(tree, opts, n)
      <3>1. n \in NodesIn(tree) /\ n \in Behind(tree, opts, D)
        BY <1>9 DEF Behind
      <3>2. MetIn(tree, opts, n)
        BY <1>2, <3>1, MetFacts
      <3>3. n \in Behind(tree, opts, C) \/ n = c
        BY <1>11, <3>1, <3>2
      <3>4. frames'[Top].container.node = c /\ Top \in 1 .. Len(frames')
        BY <1>3, <1>5, <1>6, <1>7 DEF c
      <3> QED
        BY <1>2, <1>4, <3>3, <3>4
    <2>4. \A j \in 1 .. Len(frames) :
              /\ frames'[j].container.node = frames[j].container.node
              /\ j > 1 => frames'[j].iter.index = frames[j].iter.index
              /\ ~frames'[j].visited => ~frames[j].visited /\ Len(frames') = Len(frames)
      BY <1>6, <1>15 DEF L
    <2>5. \A j \in 1 .. Len(frames') : ~ (j > Len(frames))
      BY <1>3, <1>6 DEF L
    <2>6. Len(frames') = Len(frames)
      BY <1>6 DEF L
    <2> QED
      BY <1>2, <1>3, <1>6, <2>1, <2>2, <2>3, <2>4, <2>5, <2>6, InOrderKept
  <1>19. Placed(tree, opts, frames')
    BY <1>16, <1>17, <1>18 DEF Placed
  <1> QED
    BY <1>1, <1>9, <1>13, <1>14, <1>19, OrderThen

\* The same, as a fact of every such child, container and index.
LEMMA NextFacts ==
    ASSUME Inv, frames # <<>>, ReadSoFar(tree, opts, frames[Top]), HasNext(frames[Top])
    PROVE  \A n, c, k :
        n = NextChild(frames[Top]) /\ c = frames[Top].container.node
        /\ k = frames[Top].iter.index + 1 =>
           /\ c \in NodesIn(tree) /\ k \in DOMAIN tree.kids[c] /\ n = tree.kids[c][k]
           /\ k \in Nat /\ n \in NodesIn(tree) \ {Root} /\ tree.up[n] = c
           /\ \A i \in 1 .. k : tree.kind[tree.kids[c][i]] # "unresolved"
           /\ OpenIn(tree, opts, n) <=>
                 IsContainer(n) /\ ~PushRefused(n, frames[Top].depth + 1)
           /\ MetIn(tree, opts, n) <=>
                 (IsContainer(n) => ~PushRefused(n, frames[Top].depth + 1))
  BY NextMet

(* n is the k-th child of c, and the children up to it can be read. *)
ChildAt(t, c, k, n) ==
    /\ c \in NodesIn(t) /\ k \in DOMAIN t.kids[c] /\ n = t.kids[c][k]
    /\ k \in Nat /\ n \in NodesIn(t) \ {Root} /\ t.up[n] = c
    /\ \A i \in 1 .. k : t.kind[t.kids[c][i]] # "unresolved"

\* Where the next child of the top frame is in the tree.
LEMMA NextIs ==
    ASSUME Inv, frames # <<>>, ReadSoFar(tree, opts, frames[Top]), HasNext(frames[Top])
    PROVE  ChildAt(tree, frames[Top].container.node, frames[Top].iter.index + 1,
                   NextChild(frames[Top]))
  BY NextFacts DEF ChildAt

\* A child passed, and not entered now: it is yielded if the search meets it.
LEMMA AdvanceOrder ==
    ASSUME Inv, OrderInv, ContainerIn(tree, Root), pc = "busy", UNCHANGED <<tree, opts>>,
           frames # <<>>, frames[Top].visited, HasNext(frames[Top]),
           NEW n, n = NextChild(frames[Top]),
           NEW gs, gs = [frames EXCEPT ![Top] = Advanced(frames[Top])],
           opts.depth_first => frames' = gs /\ ~OpenIn(tree, opts, n),
           NEW g \in FrameType(tree), g.container.node = n, g.visited, g.iter.index = 0,
           ~opts.depth_first =>
              frames' = IF OpenIn(tree, opts, n) THEN Append(gs, g) ELSE gs,
           found' = IF MetIn(tree, opts, n) /\ n \in opts.pred THEN Append(found, n) ELSE found
    PROVE  OrderInv'
  <1> DEFINE f == frames[Top]
             c == f.container.node
             k == f.iter.index + 1
             C == ChildCursor(tree, c, k)
             D == ChildCursor(tree, c, k + 1)
             L == Len(frames)
  <1>1. /\ tree \in Trees /\ opts \in Options
        /\ Sorted(tree, opts, found) /\ Gapless(tree, opts, found)
        /\ Placed(tree, opts, frames)
        /\ FoundAmong(tree, opts, Passed(tree, opts, frames), found)
        /\ Top = TopIn(opts, frames) /\ ReadSoFar(tree, opts, f)
        /\ Passed(tree, opts, frames) = Behind(tree, opts, Cursor(tree, f))
    BY OrderNow
  <1>2. /\ Top \in 1 .. L /\ L \in Nat /\ L > 0 /\ frames \in Seq(FrameType(tree))
        /\ (opts.depth_first => Top = L) /\ (~opts.depth_first => Top = 1)
    BY TopFacts
  <1>3. /\ c \in NodesIn(tree) /\ k \in DOMAIN tree.kids[c] /\ n = tree.kids[c][k]
        /\ k \in Nat /\ n \in NodesIn(tree) \ {Root} /\ tree.up[n] = c
        /\ \A i \in 1 .. k : tree.kind[tree.kids[c][i]] # "unresolved"
    <2>1. ChildAt(tree, c, k, n)
      BY <1>1, NextIs
    <2> HIDE DEF f, c, k
    <2> QED
      BY <2>1 DEF ChildAt
  <1>4. /\ gs \in Seq(FrameType(tree)) /\ Len(gs) = L
        /\ \A j \in 1 .. L : j # Top => gs[j] = frames[j]
        /\ gs[Top].container = f.container /\ gs[Top].visited /\ gs[Top].iter.index = k
    BY AdvancedFrames
  <1>5. Passed(tree, opts, frames) = Behind(tree, opts, C)
    BY <1>1 DEF Cursor
  <1> DEFINE hs == frames'
             M == Len(hs)
  <1>6. /\ hs \in Seq(FrameType(tree)) /\ hs # <<>> /\ M \in Nat
        /\ \A j \in 1 .. L : hs[j] = gs[j] /\ j \in 1 .. M
        /\ (hs = gs /\ M = L) \/ (M = L + 1 /\ hs[L + 1] = g /\ OpenIn(tree, opts, n) /\ ~opts.depth_first)
    <2>1. CASE hs = gs
      <3> HIDE DEF L
      <3>1. hs \in Seq(FrameType(tree)) /\ M = L
        BY <1>4, <2>1
      <3>2. hs # <<>>
        BY <1>2, <3>1
      <3> QED
        BY <1>2, <2>1, <3>1, <3>2
    <2>2. CASE hs = Append(gs, g) /\ OpenIn(tree, opts, n) /\ ~opts.depth_first
      <3> HIDE DEF L
      <3>1. /\ hs \in Seq(FrameType(tree)) /\ M = L + 1 /\ hs[L + 1] = g
            /\ \A j \in 1 .. L : hs[j] = gs[j]
        BY <1>4, <2>2
      <3>2. \A j \in 1 .. L : j \in 1 .. M
        BY <1>2, <3>1
      <3>3. hs # <<>>
        BY <1>2, <3>1
      <3> QED
        BY <1>2, <2>2, <3>1, <3>2, <3>3
    <2> QED
      BY <2>1, <2>2
  <1> HIDE DEF hs
  <1>7. TopIn(opts, hs) = Top
    BY <1>1, <1>2, <1>6 DEF TopIn
  <1>8. Cursor(tree, gs[Top]) = D
    BY <1>4 DEF Cursor
  <1>9. Passed(tree, opts, hs) = Behind(tree, opts, D)
    <2>1. hs[Top] = gs[Top]
      BY <1>2, <1>6
    <2> QED
      BY <1>6, <1>7, <1>8, <2>1 DEF Passed
  <1> DEFINE l == k + 1
  <1>10. C = ChildCursor(tree, c, k) /\ D = ChildCursor(tree, c, l) /\ l = k + 1
    OBVIOUS
  <1> HIDE DEF f, c, k, C, D, L, l
  <1>11. /\ C \in Seq(Nat) /\ D \in Seq(Nat) /\ PathBefore(opts, C, D) /\ PathIn(tree)[n] = C
         /\ \A m \in NodesIn(tree) : MetIn(tree, opts, m) /\ m \in Behind(tree, opts, D) =>
               m \in Behind(tree, opts, C) \cup {n}
    <2>1. opts.depth_first => ~OpenIn(tree, opts, n)
      OBVIOUS
    <2> QED
      BY <1>1, <1>3, <1>10, <2>1, AdvanceSweep
  <1>12. Sorted(tree, opts, found') /\ FoundAmong(tree, opts, Behind(tree, opts, D), found')
    <2>1. FoundAmong(tree, opts, Behind(tree, opts, C), found)
      BY <1>1, <1>5
    <2>2. n \in NodesIn(tree) /\ tree \in Trees /\ opts \in Options /\ Sorted(tree, opts, found)
      BY <1>1, <1>3
    <2> QED
      BY <1>11, <2>1, <2>2, FoundNext
  <1>13. Gapless(tree, opts, found')
    BY <1>1, <1>11, <1>12, NoGap
  <1>14. \A j \in 1 .. L :
             /\ hs[j].container = frames[j].container
             /\ j # Top => hs[j] = frames[j]
             /\ j = Top => hs[j].visited /\ hs[j].iter.index = k
    BY <1>4, <1>6 DEF f
  <1>15. \A j \in 1 .. M : j \in 1 .. L \/ (j = L + 1 /\ j > L /\ M = L + 1 /\ hs[j] = g
                                          /\ OpenIn(tree, opts, n) /\ ~opts.depth_first)
    BY <1>2, <1>6
  <1>16. \A j \in 1 .. M : ReadSoFar(tree, opts, hs[j])
    <2> TAKE j \in 1 .. M
    <2>1. CASE j \in 1 .. L /\ j # Top
      BY <1>1, <1>14, <2>1 DEF Placed, L
    <2>2. CASE j = Top
      <3>1. hs[j].container.node = c /\ hs[j].iter.index = k /\ hs[j].visited
        BY <1>2, <1>14, <2>2 DEF f, c
      <3>2. OpenIn(tree, opts, c)
        BY <1>1 DEF ReadSoFar, c
      <3> QED
        BY <1>3, <3>1, <3>2 DEF ReadSoFar
    <2>3. CASE hs[j] = g /\ OpenIn(tree, opts, n)
      <3>1. 1 .. 0 = {}
        OBVIOUS
      <3> QED
        BY <2>3, <3>1 DEF ReadSoFar
    <2> QED
      BY <1>15, <2>1, <2>2, <2>3
  <1>17. opts.depth_first => WayDown(hs)
    <2> SUFFICES ASSUME opts.depth_first, NEW j \in 1 .. L - 1 PROVE hs[j].visited
      BY <1>6 DEF WayDown
    <2>1. j \in 1 .. L /\ frames[j].visited
      BY <1>1, <1>2 DEF Placed, WayDown, L
    <2> QED
      BY <1>14, <2>1
  <1>18. ~opts.depth_first => InOrder(tree, opts, hs)
    <2> SUFFICES ASSUME ~opts.depth_first PROVE InOrder(tree, opts, hs)
      OBVIOUS
    <2>1. InOrder(tree, opts, frames) /\ Len(frames) > 0 /\ Top = 1
      BY <1>1, <1>2 DEF Placed, L
    <2>2. Passed(tree, opts, frames) \subseteq Passed(tree, opts, hs)
      BY <1>1, <1>5, <1>9, <1>11, BehindFacts
    <2>3. n \in Passed(tree, opts, hs)
      BY <1>3, <1>9, <1>11 DEF Behind
    <2>4. \A m \in Passed(tree, opts, hs) : OpenIn(tree, opts, m) =>
              m \in Passed(tree, opts, frames)
              \/ \E i \in 1 .. Len(hs) : hs[i].container.node = m
      <3> TAKE m \in Passed(tree, opts, hs)
      <3> HAVE OpenIn(tree, opts, m)
      <3>1. m \in NodesIn(tree) /\ m \in Behind(tree, opts, D)
        BY <1>9 DEF Behind
      <3>2. MetIn(tree, opts, m)
        BY <1>1, <3>1, MetFacts
      <3>3. m \in Behind(tree, opts, C) \/ m = n
        BY <1>11, <3>1, <3>2
      <3>4. CASE m = n
        <4>1. hs = Append(gs, g)
          BY <3>4 DEF hs
        <4>2. hs[L + 1].container.node = n /\ L + 1 \in 1 .. Len(hs)
          <5>1. Len(Append(gs, g)) = L + 1 /\ Append(gs, g)[L + 1] = g
            BY <1>4
          <5> QED
            BY <1>2, <4>1, <5>1
        <4> QED
          BY <3>4, <4>2
      <3> QED
        BY <1>5, <3>3, <3>4
    <2>5. \A j \in 1 .. Len(frames) :
              /\ hs[j].container.node = frames[j].container.node
              /\ j > 1 => hs[j].iter.index = frames[j].iter.index
              /\ ~hs[j].visited => ~frames[j].visited /\ Len(hs) = Len(frames)
      <3> TAKE j \in 1 .. Len(frames)
      <3>1. j \in 1 .. L /\ j \in Nat
        BY <1>2 DEF L
      <3>2. hs[j].visited
        <4>1. CASE j = Top
          BY <1>14, <3>1, <4>1
        <4>2. CASE j # Top
          <5>1. j > 1 /\ L # 1
            BY <1>2, <2>1, <3>1, <4>2
          <5>2. frames[j].visited
            BY <2>1, <5>1 DEF InOrder, L
          <5> QED
            BY <1>14, <3>1, <4>2, <5>2
        <4> QED
          BY <4>1, <4>2
      <3> QED
        BY <1>14, <2>1, <3>1, <3>2
    <2>6. \A j \in 1 .. Len(hs) : j > Len(frames) =>
              /\ hs[j].visited /\ hs[j].iter.index = 0
              /\ hs[j].container.node \in Passed(tree, opts, hs)
              /\ \A i \in 1 .. Len(frames) :
                    PathBefore(opts, PathIn(tree)[hs[i].container.node],
                                     PathIn(tree)[hs[j].container.node])
      <3> TAKE j \in 1 .. Len(hs)
      <3> HAVE j > Len(frames)
      <3>1. hs[j] = g
        <4>1. ~ (j \in 1 .. L)
          BY <1>2 DEF L
        <4> QED
          BY <1>15, <4>1
      <3>2. ASSUME NEW i \in 1 .. Len(frames)
            PROVE  PathBefore(opts, PathIn(tree)[hs[i].container.node], PathIn(tree)[n])
        <4>1. i \in 1 .. L /\ hs[i].container.node = frames[i].container.node
          BY <2>5 DEF L
        <4>2. CASE i = 1
          <5>1. hs[i].container.node = c
            BY <2>1, <4>1, <4>2 DEF c, f
          <5>2. PathIn(tree)[c] \in Seq(Nat)
            BY <1>1, <1>3, PathFacts
          <5>3. PathBefore(opts, PathIn(tree)[c], C)
            BY <1>1, <1>3, <1>10, <5>2, ChildOrder DEF ChildCursor
          <5> QED
            BY <1>11, <5>1, <5>3
        <4>3. CASE i # 1
          <5>1. i > 1
            BY <4>3
          <5>2. frames[i].container.node \in Passed(tree, opts, frames)
            BY <2>1, <5>1 DEF InOrder
          <5> QED
            BY <1>5, <1>11, <4>1, <5>2 DEF Behind
        <4> QED
          BY <4>2, <4>3
      <3> QED
        BY <2>3, <3>1, <3>2
    <2>7. Len(hs) = Len(frames) \/ Len(hs) = Len(frames) + 1
      BY <1>6 DEF L
    <2> QED
      BY <1>1, <1>2, <1>6, <2>1, <2>2, <2>4, <2>5, <2>6, <2>7, InOrderKept
  <1>19. Placed(tree, opts, hs)
    BY <1>16, <1>17, <1>18 DEF Placed
  <1> QED
    BY <1>9, <1>12, <1>13, <1>19, OrderThen DEF hs

\* The cursor before a child is the path of the child.
LEMMA KidPath ==
    ASSUME NEW t \in Trees, NEW c \in NodesIn(t), NEW k \in DOMAIN t.kids[c]
    PROVE  PathIn(t)[t.kids[c][k]] = ChildCursor(t, c, k)
  <1>1. PathIn(t)[t.kids[c][k]] = Append(PathIn(t)[c], k)
    BY ChildPath
  <1> QED
    BY <1>1, Zenon DEF ChildCursor

\* A child entered, depth first: the search is now at it.
LEMMA PushOrder ==
    ASSUME Inv, OrderInv, ContainerIn(tree, Root), pc = "busy", UNCHANGED <<tree, opts, found>>,
           frames # <<>>, frames[Top].visited, HasNext(frames[Top]),
           NEW n, n = NextChild(frames[Top]), OpenIn(tree, opts, n),
           NEW gs, gs = [frames EXCEPT ![Top] = Advanced(frames[Top])],
           NEW g \in FrameType(tree), g.container.node = n, ~g.visited, g.iter.index = 0
    PROVE  opts.depth_first /\ frames' = Append(gs, g) => OrderInv'
  <1> DEFINE f == frames[Top]
             c == f.container.node
             k == f.iter.index + 1
             L == Len(frames)
             hs == frames'
  <1>1. /\ tree \in Trees /\ opts \in Options
        /\ Sorted(tree, opts, found) /\ Gapless(tree, opts, found)
        /\ Placed(tree, opts, frames)
        /\ FoundAmong(tree, opts, Passed(tree, opts, frames), found)
        /\ Top = TopIn(opts, frames) /\ ReadSoFar(tree, opts, f)
        /\ Passed(tree, opts, frames) = Behind(tree, opts, Cursor(tree, f))
    BY OrderNow
  <1>2. /\ c \in NodesIn(tree) /\ k \in DOMAIN tree.kids[c] /\ n = tree.kids[c][k]
        /\ k \in Nat /\ n \in NodesIn(tree) \ {Root} /\ tree.up[n] = c
        /\ \A i \in 1 .. k : tree.kind[tree.kids[c][i]] # "unresolved"
    <2>1. ChildAt(tree, c, k, n)
      BY <1>1, NextIs
    <2> HIDE DEF f, c, k
    <2> QED
      BY <2>1 DEF ChildAt
  <1> SUFFICES ASSUME opts.depth_first, frames' = Append(gs, g) PROVE OrderInv'
    OBVIOUS
  <1>3. Top = L /\ L \in Nat /\ L > 0 /\ frames \in Seq(FrameType(tree))
    BY TopFacts
  <1>4. /\ gs \in Seq(FrameType(tree)) /\ Len(gs) = L
        /\ \A j \in 1 .. L : j # Top => gs[j] = frames[j]
        /\ gs[Top].container = f.container /\ gs[Top].visited /\ gs[Top].iter.index = k
    BY AdvancedFrames
  <1>5. Cursor(tree, f) = ChildCursor(tree, c, k)
    BY DEF Cursor
  <1> HIDE DEF f, c, k, L
  <1>6. PathIn(tree)[n] = ChildCursor(tree, c, k)
    <2>1. PathIn(tree)[tree.kids[c][k]] = ChildCursor(tree, c, k)
      BY <1>1, <1>2, KidPath
    <2>2. n = tree.kids[c][k]
      BY <1>2
    <2> QED
      BY <2>1, <2>2
  <1>7. /\ hs \in Seq(FrameType(tree)) /\ Len(hs) = L + 1 /\ hs[L + 1] = g
        /\ \A j \in 1 .. L : hs[j] = gs[j]
    BY <1>4
  <1>8. hs # <<>>
    BY <1>3, <1>7
  <1> HIDE DEF hs
  <1>9. Cursor(tree, g) = PathIn(tree)[n]
    BY DEF Cursor
  <1>10. Passed(tree, opts, hs) = Passed(tree, opts, frames)
    <2>1. TopIn(opts, hs) = L + 1
      BY <1>7 DEF TopIn
    <2>2. Passed(tree, opts, hs) = Behind(tree, opts, PathIn(tree)[n])
      BY <1>7, <1>8, <1>9, <2>1 DEF Passed
    <2>3. Passed(tree, opts, frames) = Behind(tree, opts, PathIn(tree)[n])
      BY <1>1, <1>5, <1>6
    <2> QED
      BY <2>2, <2>3
  <1>11. \A j \in 1 .. L + 1 : j \in 1 .. L \/ j = L + 1
    BY <1>3
  <1>12. \A j \in 1 .. L + 1 : ReadSoFar(tree, opts, hs[j])
    <2> TAKE j \in 1 .. L + 1
    <2>1. CASE j \in 1 .. L /\ j # Top
      BY <1>1, <1>4, <1>7, <2>1 DEF Placed, L
    <2>2. CASE j = Top
      <3>1. hs[j].container.node = c /\ hs[j].iter.index = k /\ hs[j].visited
        BY <1>3, <1>4, <1>7, <2>2 DEF c
      <3>2. OpenIn(tree, opts, c)
        BY <1>1 DEF ReadSoFar, c
      <3> QED
        BY <1>2, <3>1, <3>2 DEF ReadSoFar
    <2>3. CASE j = L + 1
      <3>1. 1 .. 0 = {}
        OBVIOUS
      <3> QED
        BY <1>7, <2>3, <3>1 DEF ReadSoFar
    <2> QED
      BY <1>11, <2>1, <2>2, <2>3
  <1>13. WayDown(hs)
    <2> SUFFICES ASSUME NEW j \in 1 .. L PROVE hs[j].visited
      BY <1>3, <1>7 DEF WayDown
    <2>1. CASE j = Top
      BY <1>4, <1>7, <2>1
    <2>2. CASE j # Top
      <3>1. j \in 1 .. L - 1
        BY <1>3, <2>2
      <3>2. frames[j].visited
        BY <1>1, <3>1 DEF Placed, WayDown, L
      <3> QED
        BY <1>4, <1>7, <2>2, <3>2
    <2> QED
      BY <2>1, <2>2
  <1>14. Placed(tree, opts, hs)
    BY <1>7, <1>12, <1>13 DEF Placed
  <1> QED
    BY <1>1, <1>10, <1>14, OrderThen DEF hs

\* A frame that is pushed.
LEMMA FrameMade ==
    ASSUME NEW t \in Trees, NEW n \in NodesIn(t), NEW of \in {"iter", "copy"}, NEW d \in Nat,
           NEW g, g = Frame(Wrapper(of, n), g.owns, g.visited, d),
           g.owns \in BOOLEAN, g.visited \in BOOLEAN
    PROVE  g \in FrameType(t) /\ g.container.node = n /\ g.iter.index = 0
  <1> DEFINE w == Wrapper(of, n)
             x == g.owns
             v == g.visited
  <1>1. w \in [of : {"caller", "iter", "copy"}, node : NodesIn(t)] /\ w.node = n
    BY DEF Wrapper
  <1>2. asdf_container_iter_init \in [index : Nat, value : [of : {"none", "iter"}, node : Nat]]
        /\ asdf_container_iter_init.index = 0
    BY DEF asdf_container_iter_init, NoValue
  <1>3. g = [container |-> w, owns |-> x, visited |-> v, depth |-> d,
             iter |-> asdf_container_iter_init]
    BY DEF Frame
  <1>4. x \in BOOLEAN /\ v \in BOOLEAN
    OBVIOUS
  <1> HIDE DEF w, x, v
  <1> QED
    BY <1>1, <1>2, <1>3, <1>4 DEF FrameType

\* A step depth first: the next child is entered, or yielded, or passed over.
LEMMA DfsOrder ==
    ASSUME Inv, OrderInv, ContainerIn(tree, Root), StepDfs
    PROVE  OrderInv'
  <1> DEFINE f == frames[Top]
             n == NextChild(f)
             w == Wrapper("iter", n)
             gs == [frames EXCEPT ![Top] = Advanced(f)]
             g == Frame(w, FALSE, FALSE, f.depth + 1)
             h == Frame(w, FALSE, TRUE, f.depth + 1)
             enters == IsContainer(n) /\ ~PushRefused(n, f.depth + 1)
  <1>1. pc = "busy" /\ frames # <<>> /\ UNCHANGED <<tree, opts>> /\ f.visited /\ HasNext(f)
    BY DEF StepDfs
  <1>2. /\ frames' = IF enters THEN Append(gs, g) ELSE gs
        /\ Yield(IF IsContainer(n) THEN NoValue ELSE w)
    BY DEF StepDfs
  <1>3. opts.depth_first = TRUE
    BY DEF StepDfs
  <1>4. tree \in Trees /\ f.depth \in Nat /\ f.depth + 1 \in Nat
    BY <1>1, TopFacts, FrameParts DEF Inv
  <1>5. /\ n \in NodesIn(tree) /\ (OpenIn(tree, opts, n) <=> enters)
        /\ MetIn(tree, opts, n) <=> (IsContainer(n) => ~PushRefused(n, f.depth + 1))
    <2>1. ReadSoFar(tree, opts, f)
      BY <1>1, OrderNow
    <2>2. f.container.node = f.container.node /\ f.iter.index + 1 = f.iter.index + 1
      OBVIOUS
    <2> QED
      BY <1>1, <2>1, <2>2, NextFacts
  <1>6. /\ g \in FrameType(tree) /\ g.container.node = n /\ g.visited = FALSE /\ g.iter.index = 0
        /\ h \in FrameType(tree) /\ h.container.node = n /\ h.visited = TRUE /\ h.iter.index = 0
    <2> DEFINE d == f.depth + 1
    <2>1. /\ g = Frame(Wrapper("iter", n), g.owns, g.visited, d) /\ g.visited = FALSE
          /\ g.owns \in BOOLEAN /\ g.visited \in BOOLEAN
      BY DEF Frame
    <2>2. /\ h = Frame(Wrapper("iter", n), h.owns, h.visited, d) /\ h.visited = TRUE
          /\ h.owns \in BOOLEAN /\ h.visited \in BOOLEAN
      BY DEF Frame
    <2>3. tree \in Trees /\ n \in NodesIn(tree) /\ d \in Nat
      BY <1>4, <1>5
    <2> HIDE DEF d, g, h, n, f
    <2>4. g \in FrameType(tree) /\ g.container.node = n /\ g.iter.index = 0
      BY <2>1, <2>3, FrameMade
    <2>5. h \in FrameType(tree) /\ h.container.node = n /\ h.iter.index = 0
      BY <2>2, <2>3, FrameMade
    <2> QED
      BY <2>1, <2>2, <2>4, <2>5
  <1>7. n = NextChild(frames[Top]) /\ gs = [frames EXCEPT ![Top] = Advanced(frames[Top])]
    OBVIOUS
  <1> HIDE DEF f, n, gs, g, h, w
  <1>8. CASE enters
    <2>1. found' = found
      BY <1>2, <1>8 DEF Yield
    <2>2. OpenIn(tree, opts, n) /\ frames' = Append(gs, g)
      BY <1>2, <1>5, <1>8
    <2> QED
      BY <1>1, <1>3, <1>6, <1>7, <2>1, <2>2, PushOrder DEF f
  <1>9. CASE ~enters
    <2>1. found' = IF MetIn(tree, opts, n) /\ n \in opts.pred THEN Append(found, n) ELSE found
      <3>1. CASE IsContainer(n)
        BY <1>2, <1>5, <1>9, <3>1 DEF Yield
      <3>2. CASE ~IsContainer(n)
        <4>1. MetIn(tree, opts, n)
          BY <1>5, <3>2
        <4>2. Yield(Wrapper("iter", n))
          BY <1>2, <3>2 DEF w
        <4>3. found' = IF n \in opts.pred THEN Append(found, n) ELSE found
          BY <4>2, WrapperFacts DEF Yield
        <4> QED
          BY <4>1, <4>3
      <3> QED
        BY <3>1, <3>2
    <2>2. ~OpenIn(tree, opts, n) /\ frames' = gs
      BY <1>2, <1>5, <1>9
    <2> QED
      BY <1>1, <1>3, <1>6, <1>7, <2>1, <2>2, AdvanceOrder DEF f
  <1> QED
    BY <1>8, <1>9

\* A step breadth first: the next child is yielded and, if it is a container
\* that is entered, queued.
LEMMA BfsOrder ==
    ASSUME Inv, OrderInv, ContainerIn(tree, Root), StepBfs
    PROVE  OrderInv'
  <1> DEFINE f == frames[Top]
             n == NextChild(f)
             c == Wrapper("copy", n)
             gs == [frames EXCEPT ![Top] = Advanced(f)]
             g == Frame(c, TRUE, TRUE, f.depth + 1)
             enters == IsContainer(n) /\ ~PushRefused(n, f.depth + 1)
  <1>1. pc = "busy" /\ frames # <<>> /\ UNCHANGED <<tree, opts>> /\ f.visited /\ HasNext(f)
    BY DEF StepBfs
  <1>2. /\ frames' = IF enters THEN Append(gs, g) ELSE gs
        /\ Yield(IF IsContainer(n) /\ ~enters THEN NoValue ELSE Wrapper("iter", n))
    BY DEF StepBfs
  <1>3. opts.depth_first = FALSE
    <2>1. opts.depth_first \in BOOLEAN
      BY DEF Inv, Options
    <2> QED
      BY <2>1 DEF StepBfs
  <1>4. tree \in Trees /\ f.depth \in Nat /\ f.depth + 1 \in Nat
    BY <1>1, TopFacts, FrameParts DEF Inv
  <1>5. /\ n \in NodesIn(tree) /\ (OpenIn(tree, opts, n) <=> enters)
        /\ MetIn(tree, opts, n) <=> (IsContainer(n) => ~PushRefused(n, f.depth + 1))
    <2>1. ReadSoFar(tree, opts, f)
      BY <1>1, OrderNow
    <2>2. f.container.node = f.container.node /\ f.iter.index + 1 = f.iter.index + 1
      OBVIOUS
    <2> QED
      BY <1>1, <2>1, <2>2, NextFacts
  <1>6. g \in FrameType(tree) /\ g.container.node = n /\ g.visited = TRUE /\ g.iter.index = 0
    <2> DEFINE d == f.depth + 1
    <2>1. /\ g = Frame(Wrapper("copy", n), g.owns, g.visited, d) /\ g.visited = TRUE
          /\ g.owns \in BOOLEAN /\ g.visited \in BOOLEAN /\ d \in Nat
      BY <1>4 DEF Frame
    <2> HIDE DEF d, g, n, f
    <2> QED
      BY <1>4, <1>5, <2>1, FrameMade
  <1>7. n = NextChild(frames[Top]) /\ gs = [frames EXCEPT ![Top] = Advanced(frames[Top])]
    OBVIOUS
  <1> HIDE DEF f, n, gs, g, c
  <1>8. found' = IF MetIn(tree, opts, n) /\ n \in opts.pred THEN Append(found, n) ELSE found
    <2>1. CASE IsContainer(n) /\ ~enters
      BY <1>2, <1>5, <2>1 DEF Yield
    <2>2. CASE ~IsContainer(n) \/ enters
      <3>1. MetIn(tree, opts, n)
        BY <1>5, <2>2
      <3>2. Yield(Wrapper("iter", n))
        BY <1>2, <2>2
      <3>3. found' = IF n \in opts.pred THEN Append(found, n) ELSE found
        BY <3>2, WrapperFacts DEF Yield
      <3> QED
        BY <3>1, <3>3
    <2> QED
      BY <2>1, <2>2
  <1>9. frames' = IF OpenIn(tree, opts, n) THEN Append(gs, g) ELSE gs
    BY <1>2, <1>5
  <1> QED
    BY <1>1, <1>3, <1>6, <1>7, <1>8, <1>9, AdvanceOrder DEF f

-----------------------------------------------------------------------------
(* A container popped                                                         *)

(* The iterator of a frame is at its end: no child is left, or the next one   *)
(* cannot be read.                                                            *)
AtEnd(t, f) ==
    f.iter.index < Len(t.kids[f.container.node]) =>
        t.kind[t.kids[f.container.node][f.iter.index + 1]] = "unresolved"

\* The frame that is popped, and the frames that stay.
LEMMA PopFacts ==
    ASSUME NEW t \in Trees, NEW o \in Options, NEW fs, FramesOK(t, o, fs), fs # <<>>,
           NEW hs, hs = RemoveAt(fs, TopIn(o, fs))
    PROVE  /\ TopIn(o, fs) \in 1 .. Len(fs) /\ Len(fs) \in Nat /\ Len(fs) > 0
           /\ fs \in Seq(FrameType(t)) /\ hs \in Seq(FrameType(t)) /\ Len(hs) = Len(fs) - 1
           /\ \A j \in 1 .. Len(fs) :
                 fs[j] \in FrameType(t) /\ fs[j].container.node \in NodesIn(t)
                 /\ fs[j].iter.index \in Nat
           /\ \A j \in 1 .. Len(hs) : hs[j] = IF o.depth_first THEN fs[j] ELSE fs[j + 1]
  <1>1. fs \in Seq(FrameType(t)) /\ Len(fs) \in Nat
    BY DEF FramesOK
  <1>2. Len(fs) > 0
    BY <1>1
  <1>3. TopIn(o, fs) \in 1 .. Len(fs)
    BY <1>1, <1>2 DEF TopIn
  <1>4. /\ hs \in Seq(FrameType(t)) /\ Len(hs) = Len(fs) - 1
        /\ \A j \in 1 .. Len(fs) - 1 : hs[j] = IF j < TopIn(o, fs) THEN fs[j] ELSE fs[j + 1]
    BY <1>1, <1>3, RemoveFacts
  <1>5. \A j \in 1 .. Len(hs) : hs[j] = IF o.depth_first THEN fs[j] ELSE fs[j + 1]
    <2> TAKE j \in 1 .. Len(hs)
    <2>1. j \in 1 .. Len(fs) - 1 /\ j < Len(fs) /\ ~ (j < 1)
      BY <1>1, <1>4
    <2>2. o.depth_first => TopIn(o, fs) = Len(fs)
      BY DEF TopIn
    <2>3. ~o.depth_first => TopIn(o, fs) = 1
      BY DEF TopIn
    <2> QED
      BY <1>4, <2>1, <2>2, <2>3
  <1>6. \A j \in 1 .. Len(fs) : fs[j] \in FrameType(t)
    BY <1>1
  <1>7. \A j \in 1 .. Len(fs) : fs[j].container.node \in NodesIn(t) /\ fs[j].iter.index \in Nat
    BY <1>6, FrameParts
  <1> QED
    BY <1>1, <1>2, <1>3, <1>4, <1>5, <1>6, <1>7

\* Where a visited frame leaves the search.
LEMMA VisitedCursor ==
    ASSUME NEW t, NEW o, NEW fs, fs # <<>>, NEW f, f = fs[TopIn(o, fs)], f.visited
    PROVE  Passed(t, o, fs) = Behind(t, o, ChildCursor(t, f.container.node, f.iter.index + 1))
  BY DEF Passed, Cursor

\* Depth first, the frame below the popped one is at the popped container.
LEMMA PopParent ==
    ASSUME NEW t \in Trees, NEW o \in Options, o.depth_first, NEW fs, FramesOK(t, o, fs),
           NEW L, L = Len(fs), L > 1, NEW f, f = fs[L], NEW p, p = fs[L - 1],
           NEW c, c = f.container.node
    PROVE  /\ c \in NodesIn(t) \ {Root}
           /\ t.up[c] = p.container.node /\ PosIn(t, c) = p.iter.index
  <1>1. fs \in Seq(FrameType(t)) /\ L \in Nat /\ L \in 1 .. L /\ L - 1 \in 1 .. L /\ fs # <<>>
    BY DEF FramesOK
  <1>2. f \in FrameType(t) /\ p \in FrameType(t) /\ FrameOK(t, o, p)
    BY <1>1 DEF FramesOK
  <1>3. f.container = p.iter.value
    BY <1>1 DEF FramesOK, Stack
  <1>4. f.container.of # "none" /\ p.container.node \in NodesIn(t) /\ p.iter.index \in Nat
    BY <1>2, FrameParts
  <1>5. p.iter.index # 0
    <2> SUFFICES ASSUME p.iter.index = 0 PROVE FALSE
      OBVIOUS
    <2>1. p.iter.value = NoValue
      BY <1>2 DEF FrameOK
    <2>2. NoValue.of = "none"
      BY WrapperFacts
    <2> QED
      BY <1>3, <1>4, <2>1, <2>2
  <1>6. p.iter.value = Wrapper("iter", t.kids[p.container.node][p.iter.index])
    BY <1>2, <1>5 DEF FrameOK
  <1>7. c = t.kids[p.container.node][p.iter.index]
    <2>1. \A m : Wrapper("iter", m).node = m
      BY WrapperFacts
    <2>2. f.container.node = Wrapper("iter", t.kids[p.container.node][p.iter.index]).node
      BY <1>3, <1>6
    <2> QED
      BY <2>1, <2>2
  <1>8. p.iter.index \in DOMAIN t.kids[p.container.node]
    <2>1. p.iter.index <= Len(t.kids[p.container.node])
      BY <1>2 DEF FrameOK
    <2>2. DOMAIN t.kids[p.container.node] = 1 .. Len(t.kids[p.container.node])
          /\ Len(t.kids[p.container.node]) \in Nat
      BY <1>4, KidsFacts
    <2> QED
      BY <1>4, <1>5, <2>1, <2>2
  <1> DEFINE q == p.container.node
             k == p.iter.index
  <1>9. q \in NodesIn(t) /\ k \in DOMAIN t.kids[q] /\ c = t.kids[q][k]
    BY <1>4, <1>7, <1>8
  <1> HIDE DEF q, k
  <1>10. /\ t.kids[q][k] \in NodesIn(t) \ {Root} /\ t.up[t.kids[q][k]] = q
         /\ PosIn(t, t.kids[q][k]) = k
    BY <1>9, ChildPath
  <1> QED
    BY <1>9, <1>10 DEF q, k

\* The last container popped: the search has passed all that it meets.
LEMMA PopLast ==
    ASSUME NEW t \in Trees, NEW o \in Options, NEW fs, FramesOK(t, o, fs), Placed(t, o, fs),
           Len(fs) = 1, NEW f, f = fs[1], f.visited, AtEnd(t, f), ContainerIn(t, Root),
           NEW F, FoundAmong(t, o, Passed(t, o, fs), F)
    PROVE  FoundAmong(t, o, NodesIn(t), F)
  <1> DEFINE c == f.container.node
             x == f.iter.index
             y == x + 1
             C == ChildCursor(t, c, y)
  <1>1. /\ fs \in Seq(FrameType(t)) /\ fs # <<>> /\ TopIn(o, fs) = 1
        /\ c \in NodesIn(t) /\ x \in Nat /\ o.depth_first \in BOOLEAN
    <2>1. fs \in Seq(FrameType(t)) /\ fs # <<>> /\ TopIn(o, fs) = 1
      BY DEF FramesOK, TopIn
    <2>2. f \in FrameType(t)
      BY <2>1
    <2> QED
      BY <2>1, <2>2, FrameParts DEF Options
  <1>2. Passed(t, o, fs) = Behind(t, o, C)
    BY <1>1, VisitedCursor
  <1>3. x < Len(t.kids[c]) => t.kind[t.kids[c][x + 1]] = "unresolved"
    BY DEF AtEnd
  <1>4. C \in Seq(Nat) /\ \A n \in NodesIn(t) : MetIn(t, o, n) => n \in Behind(t, o, C)
    <2>1. CASE o.depth_first
      <3>1. c = Root
        <4>1. f.container = RootValue
          BY <2>1 DEF FramesOK, Stack
        <4> QED
          BY <4>1, WrapperFacts
      <3>2. y = x + 1 /\ C = ChildCursor(t, Root, y)
        BY <3>1
      <3>3. x < Len(t.kids[Root]) => t.kind[t.kids[Root][x + 1]] = "unresolved"
        BY <1>3, <3>1
      <3> HIDE DEF x, y, C
      <3> QED
        BY <1>1, <2>1, <3>2, <3>3, LastPopSweep
    <2>2. CASE ~o.depth_first
      <3>1. InOrder(t, o, fs)
        BY <1>1, <2>2 DEF Placed
      <3>2. \A q \in Behind(t, o, C) : OpenIn(t, o, q) =>
                PathBefore(o, PathIn(t)[q], PathIn(t)[c]) \/ q = c
        <4>1. \A i \in 1 .. Len(fs) : i = 1
          OBVIOUS
        <4>2. \A q \in Passed(t, o, fs) : OpenIn(t, o, q) =>
                \/ PathBefore(o, PathIn(t)[q], PathIn(t)[fs[1].container.node])
                \/ \E i \in 1 .. Len(fs) : fs[i].container.node = q
          BY <3>1 DEF InOrder
        <4> HIDE DEF C
        <4> QED
          BY <1>2, <4>1, <4>2
      <3>3. C = ChildCursor(t, c, x + 1)
        OBVIOUS
      <3> HIDE DEF c, x, C
      <3> QED
        BY <1>1, <1>3, <2>2, <3>2, <3>3, QueueEnd
    <2> QED
      BY <2>1, <2>2
  <1> HIDE DEF C
  <1>5. Behind(t, o, C) \subseteq NodesIn(t)
    BY DEF Behind
  <1> QED
    BY <1>2, <1>4, <1>5, FoundStill

\* Depth first, a container popped: the search is at the end of it in the frame below.
LEMMA PopDeep ==
    ASSUME NEW t \in Trees, NEW o \in Options, o.depth_first, NEW fs, FramesOK(t, o, fs),
           Placed(t, o, fs), Len(fs) > 1, NEW f, f = fs[Len(fs)], f.visited, AtEnd(t, f),
           NEW hs, hs = RemoveAt(fs, Len(fs)), NEW F, FoundAmong(t, o, Passed(t, o, fs), F)
    PROVE  Placed(t, o, hs) /\ FoundAmong(t, o, Passed(t, o, hs), F)
  <1> DEFINE L == Len(fs)
             p == fs[L - 1]
             c == f.container.node
             x == f.iter.index
             C == ChildCursor(t, c, x + 1)
             D == ChildCursor(t, t.up[c], PosIn(t, c) + 1)
  <1>1. fs # <<>> /\ TopIn(o, fs) = L
    BY DEF FramesOK, TopIn
  <1>2. /\ L \in Nat /\ hs \in Seq(FrameType(t)) /\ Len(hs) = L - 1
        /\ c \in NodesIn(t) /\ x \in Nat
        /\ \A j \in 1 .. L - 1 : hs[j] = fs[j]
    <2>1. hs = RemoveAt(fs, TopIn(o, fs))
      BY <1>1
    <2> HIDE DEF L
    <2>2. /\ TopIn(o, fs) \in 1 .. Len(fs) /\ Len(fs) \in Nat
          /\ hs \in Seq(FrameType(t)) /\ Len(hs) = Len(fs) - 1
          /\ \A j \in 1 .. Len(fs) :
                 fs[j].container.node \in NodesIn(t) /\ fs[j].iter.index \in Nat
          /\ \A j \in 1 .. Len(hs) : hs[j] = IF o.depth_first THEN fs[j] ELSE fs[j + 1]
      BY <1>1, <2>1, PopFacts
    <2> QED
      BY <1>1, <2>2 DEF L
  <1>3. Passed(t, o, fs) = Behind(t, o, C)
    BY <1>1, VisitedCursor
  <1>4. /\ c \in NodesIn(t) \ {Root}
        /\ t.up[c] = p.container.node /\ PosIn(t, c) = p.iter.index
    <2>1. L = Len(fs) /\ L > 1 /\ f = fs[L] /\ p = fs[L - 1] /\ c = f.container.node
      OBVIOUS
    <2> HIDE DEF L, p, c
    <2> QED
      BY <2>1, PopParent
  <1>5. hs # <<>> /\ TopIn(o, hs) = L - 1 /\ hs[L - 1] = p
    <2>1. L - 1 \in 1 .. L - 1
      BY <1>2
    <2>2. Len(hs) > 0
      BY <1>2
    <2> QED
      BY <1>2, <2>1, <2>2 DEF TopIn
  <1>6. p.visited
    BY <1>2 DEF Placed, WayDown
  <1>7. Passed(t, o, hs) = Behind(t, o, D)
    <2>1. Passed(t, o, hs) = Behind(t, o, ChildCursor(t, p.container.node, p.iter.index + 1))
      BY <1>5, <1>6, VisitedCursor
    <2> QED
      BY <1>4, <2>1
  <1>8. x < Len(t.kids[c]) => t.kind[t.kids[c][x + 1]] = "unresolved"
    BY DEF AtEnd
  <1>9. /\ C \in Seq(Nat) /\ D \in Seq(Nat) /\ PathBefore(o, C, D)
        /\ \A n \in NodesIn(t) : MetIn(t, o, n) /\ n \in Behind(t, o, D) => n \in Behind(t, o, C)
    <2>1. /\ C = ChildCursor(t, c, x + 1)
          /\ D = ChildCursor(t, t.up[c], PosIn(t, c) + 1)
      OBVIOUS
    <2> HIDE DEF c, x, C, D
    <2> QED
      BY <1>2, <1>4, <1>8, <2>1, PopSweep
  <1> HIDE DEF C, D
  <1>10. Behind(t, o, C) \subseteq Behind(t, o, D)
    BY <1>9, BehindFacts
  <1>11. FoundAmong(t, o, Passed(t, o, hs), F)
    BY <1>3, <1>7, <1>9, <1>10, FoundStill
  <1>12. Placed(t, o, hs)
    <2>1. \A j \in 1 .. L - 1 : ReadSoFar(t, o, fs[j])
      BY <1>2 DEF Placed
    <2>2. \A j \in 1 .. L - 1 - 1 : fs[j].visited /\ hs[j] = fs[j]
      BY <1>2 DEF Placed, WayDown
    <2> QED
      BY <1>2, <2>1, <2>2 DEF Placed, WayDown
  <1> QED
    BY <1>11, <1>12

\* Breadth first, the head of the queue popped: the search is before the first
\* child of the next container.
LEMMA PopQueue ==
    ASSUME NEW t \in Trees, NEW o \in Options, ~o.depth_first, NEW fs, FramesOK(t, o, fs),
           Placed(t, o, fs), Len(fs) > 1, NEW f, f = fs[1], f.visited, AtEnd(t, f),
           NEW hs, hs = RemoveAt(fs, 1), NEW F, FoundAmong(t, o, Passed(t, o, fs), F)
    PROVE  Placed(t, o, hs) /\ FoundAmong(t, o, Passed(t, o, hs), F)
  <1> DEFINE L == Len(fs)
             g == fs[2]
             c == f.container.node
             x == f.iter.index
             d == g.container.node
             C == ChildCursor(t, c, x + 1)
             D == ChildCursor(t, d, 1)
  <1>1. fs # <<>> /\ TopIn(o, fs) = 1
    BY DEF FramesOK, TopIn
  <1>2. /\ L \in Nat /\ fs \in Seq(FrameType(t)) /\ hs \in Seq(FrameType(t)) /\ Len(hs) = L - 1
        /\ \A j \in 1 .. L : fs[j].container.node \in NodesIn(t) /\ fs[j].iter.index \in Nat
        /\ \A j \in 1 .. L - 1 : hs[j] = fs[j + 1]
    <2>1. hs = RemoveAt(fs, TopIn(o, fs))
      BY <1>1
    <2> HIDE DEF L
    <2>2. /\ Len(fs) \in Nat /\ fs \in Seq(FrameType(t))
          /\ hs \in Seq(FrameType(t)) /\ Len(hs) = Len(fs) - 1
          /\ \A j \in 1 .. Len(fs) :
                 fs[j].container.node \in NodesIn(t) /\ fs[j].iter.index \in Nat
          /\ \A j \in 1 .. Len(hs) : hs[j] = IF o.depth_first THEN fs[j] ELSE fs[j + 1]
      BY <1>1, <2>1, PopFacts
    <2> QED
      BY <2>2 DEF L
  <1>3. /\ InOrder(t, o, fs) /\ \A j \in 1 .. L : ReadSoFar(t, o, fs[j])
    BY <1>1 DEF Placed
  <1>4. 1 \in 1 .. L /\ 2 \in 1 .. L /\ 1 \in 1 .. L - 1 /\ L # 1
    BY <1>2
  <1>5. c \in NodesIn(t) /\ x \in Nat /\ d \in NodesIn(t)
    BY <1>2, <1>4
  <1>6. hs # <<>> /\ TopIn(o, hs) = 1 /\ hs[1] = g
    <2>1. Len(hs) > 0
      BY <1>2
    <2> QED
      BY <1>2, <1>4, <2>1 DEF TopIn
  <1>7. g.visited /\ g.iter.index = 0 /\ PathBefore(o, PathIn(t)[c], PathIn(t)[d])
    BY <1>3, <1>4 DEF InOrder
  <1>8. Passed(t, o, fs) = Behind(t, o, C)
    BY <1>1, VisitedCursor
  <1>9. Passed(t, o, hs) = Behind(t, o, D)
    <2>1. Passed(t, o, hs) = Behind(t, o, ChildCursor(t, g.container.node, g.iter.index + 1))
      BY <1>6, <1>7, VisitedCursor
    <2>2. g.iter.index + 1 = 1
      BY <1>7
    <2> QED
      BY <2>1, <2>2
  <1>10. x < Len(t.kids[c]) => t.kind[t.kids[c][x + 1]] = "unresolved"
    BY DEF AtEnd
  <1> HIDE DEF C, D
  <1>11. \A q \in Behind(t, o, C) : OpenIn(t, o, q) =>
             \/ PathBefore(o, PathIn(t)[q], PathIn(t)[c]) \/ q = c
             \/ q = d \/ PathBefore(o, PathIn(t)[d], PathIn(t)[q])
    <2> SUFFICES ASSUME NEW q \in Behind(t, o, C), OpenIn(t, o, q),
                        ~PathBefore(o, PathIn(t)[q], PathIn(t)[c]), q # c, q # d
                 PROVE  PathBefore(o, PathIn(t)[d], PathIn(t)[q])
      OBVIOUS
    <2>1. PICK i \in 1 .. L : fs[i].container.node = q
      BY <1>3, <1>8 DEF InOrder
    <2>2. 2 < i
      BY <1>2, <2>1
    <2> QED
      BY <1>3, <1>4, <2>1, <2>2 DEF InOrder
  <1>12. /\ C \in Seq(Nat) /\ D \in Seq(Nat) /\ PathBefore(o, C, D)
         /\ \A n \in NodesIn(t) : MetIn(t, o, n) /\ n \in Behind(t, o, D) => n \in Behind(t, o, C)
    <2>1. C = ChildCursor(t, c, x + 1) /\ D = ChildCursor(t, d, 1)
      BY DEF C, D
    <2>2. PathBefore(o, PathIn(t)[c], PathIn(t)[d])
      BY <1>7
    <2>3. PICK y \in Nat : y = x
      BY <1>5
    <2>4. /\ y < Len(t.kids[c]) => t.kind[t.kids[c][y + 1]] = "unresolved"
          /\ C = ChildCursor(t, c, y + 1)
      BY <1>10, <2>1, <2>3
    <2> HIDE DEF c, d, x, L, g
    <2> QED
      BY <1>5, <1>11, <2>1, <2>2, <2>4, QueueSweep
  <1>13. Behind(t, o, C) \subseteq Behind(t, o, D)
    BY <1>12, BehindFacts
  <1>14. FoundAmong(t, o, Passed(t, o, hs), F)
    BY <1>8, <1>9, <1>12, <1>13, FoundStill
  <1>15. InOrder(t, o, hs)
    <2>1. Passed(t, o, hs) \subseteq NodesIn(t)
      BY <1>9 DEF Behind
    <2>2. \A n \in Passed(t, o, hs) : OpenIn(t, o, n) => n \in Passed(t, o, fs)
      <3> TAKE n \in Passed(t, o, hs)
      <3> HAVE OpenIn(t, o, n)
      <3>1. n \in NodesIn(t) /\ MetIn(t, o, n)
        BY <2>1, MetFacts
      <3> QED
        BY <1>8, <1>9, <1>12, <3>1
    <2>3. Passed(t, o, fs) \subseteq Passed(t, o, hs)
      BY <1>8, <1>9, <1>13
    <2> QED
      BY <1>2, <1>3, <2>1, <2>2, <2>3, InOrderPopped
  <1>16. Placed(t, o, hs)
    <2>1. \A j \in 1 .. L - 1 : ReadSoFar(t, o, hs[j])
      <3> TAKE j \in 1 .. L - 1
      <3>1. j + 1 \in 1 .. L
        BY <1>2
      <3> QED
        BY <1>2, <1>3, <3>1
    <2> QED
      BY <1>2, <1>15, <2>1 DEF Placed
  <1> QED
    BY <1>14, <1>16

\* A container read to its end is popped: nothing is yielded, and nothing that
\* the search meets is passed over.
LEMMA PopOrder ==
    ASSUME Inv, OrderInv, ContainerIn(tree, Root), StepPop
    PROVE  OrderInv'
  <1> DEFINE f == frames[Top]
             hs == frames'
  <1>1. /\ pc = "busy" /\ frames # <<>> /\ UNCHANGED <<tree, opts, found>> /\ f.visited
        /\ ~HasNext(f) /\ hs = RemoveAt(frames, Top)
    BY DEF StepPop
  <1>2. /\ tree \in Trees /\ opts \in Options
        /\ Sorted(tree, opts, found) /\ Gapless(tree, opts, found)
        /\ Placed(tree, opts, frames)
        /\ FoundAmong(tree, opts, Passed(tree, opts, frames), found)
        /\ Top = TopIn(opts, frames) /\ FramesOK(tree, opts, frames)
    BY <1>1, OrderNow DEF Inv
  <1>3. /\ Top \in 1 .. Len(frames) /\ Len(frames) \in Nat /\ Len(frames) > 0
        /\ (opts.depth_first => Top = Len(frames)) /\ (~opts.depth_first => Top = 1)
    BY <1>1, TopFacts
  <1>4. AtEnd(tree, f)
    BY <1>1 DEF AtEnd, HasNext, NextChild
  <1> HIDE DEF f, hs
  <1>5. Placed(tree, opts, hs) /\ FoundAmong(tree, opts, Passed(tree, opts, hs), found)
    <2>1. CASE Len(frames) = 1
      <3>1. f = frames[1]
        BY <1>3, <2>1 DEF f
      <3>2. FoundAmong(tree, opts, NodesIn(tree), found)
        BY <1>1, <1>2, <1>4, <2>1, <3>1, PopLast
      <3>3. hs = <<>>
        <4>1. hs \in Seq(FrameType(tree)) /\ Len(hs) = Len(frames) - 1
          BY <1>1, <1>2, PopFacts
        <4> QED
          BY <2>1, <4>1
      <3>4. Passed(tree, opts, hs) = NodesIn(tree)
        BY <3>3 DEF Passed
      <3>5. Placed(tree, opts, hs)
        <4>1. Len(<<>>) = 0 /\ 1 .. 0 = {} /\ 1 .. 0 - 1 = {}
          OBVIOUS
        <4> QED
          BY <3>3, <4>1 DEF Placed, WayDown
      <3> QED
        BY <3>2, <3>4, <3>5
    <2>2. CASE Len(frames) > 1 /\ opts.depth_first
      <3>1. f = frames[Len(frames)] /\ hs = RemoveAt(frames, Len(frames))
        BY <1>1, <1>3, <2>2 DEF f
      <3> QED
        BY <1>1, <1>2, <1>4, <2>2, <3>1, PopDeep
    <2>3. CASE Len(frames) > 1 /\ ~opts.depth_first
      <3>1. f = frames[1] /\ hs = RemoveAt(frames, 1)
        BY <1>1, <1>3, <2>3 DEF f
      <3> QED
        BY <1>1, <1>2, <1>4, <2>3, <3>1, PopQueue
    <2>4. Len(frames) = 1 \/ Len(frames) > 1
      <3>1. \A k \in Nat : k > 0 => k = 1 \/ k > 1
        OBVIOUS
      <3> QED
        BY <1>3, <3>1
    <2> QED
      BY <2>1, <2>2, <2>3, <2>4
  <1> QED
    BY <1>1, <1>2, <1>5, OrderThen DEF hs

-----------------------------------------------------------------------------
(* What is found, in the order of the reference                               *)

\* A search begins with the root, nothing passed.
LEMMA OrderInit ==
    ASSUME Init
    PROVE  OrderInv
  <1> SUFFICES ASSUME ContainerIn(tree, Root)
               PROVE  /\ Sorted(tree, opts, found) /\ Gapless(tree, opts, found)
                      /\ Placed(tree, opts, frames)
                      /\ FoundAmong(tree, opts, Passed(tree, opts, frames), found)
    BY DEF OrderInv
  <1> DEFINE f == Frame(RootValue, FALSE, FALSE, 0)
  <1>1. found = <<>> /\ frames = <<f>>
    BY InForce DEF Init
  <1>2. /\ tree \in Trees /\ opts \in Options /\ FramesOK(tree, opts, frames)
    BY InvInit DEF Inv
  <1>3. f.container.node = Root /\ f.visited = FALSE /\ f.iter.index = 0
    BY WrapperFacts DEF Frame, asdf_container_iter_init
  <1> HIDE DEF f
  <1>4. Len(frames) = 1 /\ frames[1] = f /\ frames # <<>> /\ TopIn(opts, frames) = 1
    BY <1>1 DEF TopIn
  <1>5. \A i \in 1 .. 1 : i = 1
    OBVIOUS
  <1>6. Cursor(tree, f) = <<>>
    BY <1>2, <1>3, PathFacts DEF Cursor
  <1>7. Passed(tree, opts, frames) = {}
    <2>1. Passed(tree, opts, frames) = Behind(tree, opts, <<>>)
      BY <1>4, <1>6 DEF Passed
    <2>2. <<>> \in Seq(Nat)
      OBVIOUS
    <2> QED
      BY <1>2, <2>1, <2>2, BehindFacts
  <1>8. Len(<<>>) = 0 /\ 1 .. 0 = {} /\ 1 .. 1 - 1 = {} /\ <<>> \in Seq(NodesIn(tree))
    OBVIOUS
  <1>9. Sorted(tree, opts, found) /\ Gapless(tree, opts, found)
    BY <1>1, <1>8 DEF Sorted, Gapless
  <1>10. FoundAmong(tree, opts, Passed(tree, opts, frames), found)
    BY <1>1, <1>7, <1>8 DEF FoundAmong, IsFound
  <1>11. OpenIn(tree, opts, Root)
    <2>1. FrameOK(tree, opts, f)
      BY <1>2, <1>4 DEF FramesOK
    <2>2. \A m \in AboveIn(tree, Root) : EnteredIn(tree, opts, m)
      BY <1>3, <2>1 DEF FrameOK
    <2>3. \A m \in AboveIn(tree, Root) : m = Root
      BY <1>2, AboveRoot
    <2> QED
      BY <2>2, <2>3 DEF OpenIn, ReachedIn
  <1>12. ReadSoFar(tree, opts, f)
    BY <1>3, <1>8, <1>11 DEF ReadSoFar
  <1>13. InOrder(tree, opts, frames)
    BY <1>3, <1>4, <1>5, <1>7 DEF InOrder
  <1>14. Placed(tree, opts, frames)
    BY <1>4, <1>5, <1>8, <1>12, <1>13 DEF Placed, WayDown
  <1> QED
    BY <1>9, <1>10, <1>14

\* Every step keeps the order.
LEMMA OrderStep ==
    ASSUME Inv, OrderInv, [Next]_vars
    PROVE  OrderInv'
  <1>1. CASE ~ContainerIn(tree, Root)
    <2>1. UNCHANGED tree
      BY DEF Next, Step, vars, FindIterNext, StepVisit, StepDfs, StepBfs, StepPop, Exhausted,
             DestroyIter, FindEx, FindScalar
    <2>2. ~ContainerIn(tree, Root)'
      BY <1>1, <2>1 DEF ContainerIn
    <2> QED
      BY <2>2 DEF OrderInv
  <1> SUFFICES ASSUME ContainerIn(tree, Root) PROVE OrderInv'
    BY <1>1
  <1>2. CASE StepVisit
    BY <1>2, VisitOrder
  <1>3. CASE StepDfs
    BY <1>3, DfsOrder
  <1>4. CASE StepBfs
    BY <1>4, BfsOrder
  <1>5. CASE StepPop
    BY <1>5, PopOrder
  <1>6. CASE FindIterNext \/ UNCHANGED vars
    <2>1. UNCHANGED <<tree, opts, found, frames>> /\ (pc' # "done" => pc # "done")
      BY <1>6 DEF FindIterNext, vars
    <2> QED
      BY <2>1 DEF OrderInv
  <1>7. CASE Exhausted \/ DestroyIter \/ FindEx
    <2>1. UNCHANGED <<tree, opts, found>> /\ pc' = "done"
      BY <1>7 DEF Exhausted, DestroyIter, FindEx
    <2> QED
      BY <2>1 DEF OrderInv
  <1>8. CASE FindScalar
    BY <1>8, InForce DEF FindScalar
  <1> QED
    BY <1>2, <1>3, <1>4, <1>5, <1>6, <1>7, <1>8 DEF Next, Step

\* The reference, said of the tree and the options in force.
LEMMA ExpectedIs ==
    ASSUME ContainerIn(tree, Root),
           NEW S, S = {n \in NodesIn(tree) : ReportedIn(tree, opts, n)}
    PROVE  Expected = [i \in 1 .. Cardinality(S) |->
                         CHOOSE n \in S : Cardinality(ReportedBefore(tree, opts, n)) = i - 1]
  <1>1. \A n : Reached(n) <=> ReachedIn(tree, n)
    BY InForce DEF Reached, ReachedIn
  <1>2. \A n : Reported(n) <=> ReportedIn(tree, opts, n)
    BY <1>1, InForce DEF Reported, ReportedIn, MetIn
  <1>3. \A m, n : Earlier(m, n) <=> PathBefore(opts, PathIn(tree)[m], PathIn(tree)[n])
    BY InForce DEF Earlier, PathBefore
  <1>4. IsContainer(Root) /\ Nodes = NodesIn(tree)
    BY InForce
  <1>5. {n \in Nodes : IsContainer(Root) /\ Reported(n)} = S
    BY <1>2, <1>4
  <1>6. \A n : {m \in S : Earlier(m, n)} = ReportedBefore(tree, opts, n)
    BY <1>3 DEF ReportedBefore
  <1> DEFINE R(n) == Cardinality({m \in S : Earlier(m, n)})
             B(n) == Cardinality(ReportedBefore(tree, opts, n))
  <1>7. Expected = [i \in 1 .. Cardinality(S) |-> CHOOSE n \in S : R(n) = i - 1]
    <2>1. Expected = EarlierFirst(S)
      BY <1>5, Zenon DEF Expected
    <2>2. EarlierFirst(S) = [i \in 1 .. Cardinality(S) |-> CHOOSE n \in S : R(n) = i - 1]
      BY DEF EarlierFirst
    <2> QED
      BY <2>1, <2>2
  <1>8. \A n : R(n) = B(n)
    BY <1>6
  <1> HIDE DEF R, B
  <1>9. \A k : (CHOOSE n \in S : R(n) = k) = (CHOOSE n \in S : B(n) = k)
    BY <1>8
  <1>10. Expected = [i \in 1 .. Cardinality(S) |-> CHOOSE n \in S : B(n) = i - 1]
    BY <1>7, <1>9
  <1> QED
    BY <1>10 DEF B

\* The search reports what the reference reports, in its order, and is right at
\* every moment.
LEMMA OrderHolds ==
    ASSUME Inv, OrderInv
    PROVE  OrderRight
  <1> SUFFICES ASSUME ContainerIn(tree, Root)
               PROVE  /\ IsPrefix(found, Expected)
                      /\ (pc = "busy" /\ frames = <<>>) => found = Expected
    BY InForce DEF OrderRight
  <1> DEFINE S == {n \in NodesIn(tree) : ReportedIn(tree, opts, n)}
             E == [i \in 1 .. Cardinality(S) |->
                     CHOOSE n \in S : Cardinality(ReportedBefore(tree, opts, n)) = i - 1]
  <1>1. /\ tree \in Trees /\ opts \in Options
        /\ Sorted(tree, opts, found) /\ Gapless(tree, opts, found)
    BY DEF Inv, OrderInv
  <1>2. Expected = E
    BY ExpectedIs
  <1>3. /\ IsPrefix(found, E)
        /\ (\A n \in S : \E i \in 1 .. Len(found) : found[i] = n) => found = E
    BY <1>1, FoundPrefix
  <1>4. ASSUME pc = "busy", frames = <<>>
        PROVE  \A n \in S : \E i \in 1 .. Len(found) : found[i] = n
    <2>1. FoundAmong(tree, opts, NodesIn(tree), found)
      BY <1>4 DEF OrderInv, Passed
    <2> QED
      BY <2>1 DEF FoundAmong, IsFound
  <1> HIDE DEF E, S
  <1> QED
    BY <1>2, <1>3, <1>4

\* asdf_value_find_iter_next hands the caller the nodes that the reference says,
\* in its order, whatever the document, the options and the predicate: at every
\* moment a beginning of them, and all of them when the iterator is exhausted.
\* Depth first the search goes down into a container before it goes on beside
\* it, breadth first it takes the containers in the order they were met, and in
\* both an alias that does not resolve ends the container it is in.
THEOREM ReportedInOrder == Spec => []OrderRight
  <1>1. Init => Inv /\ OrderInv
    BY InvInit, OrderInit
  <1>2. Inv /\ OrderInv /\ [Next]_vars => (Inv /\ OrderInv)'
    BY InvStep, OrderStep
  <1>3. Inv /\ OrderInv => OrderRight
    BY OrderHolds
  <1> QED
    BY <1>1, <1>2, <1>3, PTL DEF Spec
=============================================================================
