------------------------- MODULE FileTimelineProofs -------------------------
(***************************************************************************)
(* What a splice and a jump yield, for files of any bytes and histories of *)
(* any shape.  The library's induction rules take operators, which the     *)
(* provers here cannot instantiate; `Least` is the induction these proofs  *)
(* use, on sets of numbers: a property that fails fails somewhere first.   *)
(***************************************************************************)
EXTENDS FileTimeline, WellFoundedInduction, SequenceTheorems, TLAPS

Below == {p \in Nat \X Nat : p[1] < p[2]}

\* Every set of numbers that is not empty has a least member.
LEMMA Least ==
    ASSUME NEW T \in SUBSET Nat, T # {}
    PROVE  \E x \in T : \A y \in T : x <= y
<1>1. Below = OpToRel(<, Nat)
  BY DEF Below, OpToRel
<1>2. IsWellFoundedOn(Below, Nat)
  BY <1>1, NatLessThanWellFounded
<1>3. PICK x \in T : \A y \in T : ~(<<y, x>> \in Below)
  BY <1>2, WFMin
<1>4. ASSUME NEW y \in T PROVE x <= y
  <2>1. <<y, x>> \in Nat \X Nat
    OBVIOUS
  <2>2. ~(y < x)
    BY <1>3, <2>1 DEF Below
  <2> QED
    BY <2>2
<1> QED
  BY <1>4

\* A set that holds 0 and with each number below `last` the next one holds
\* every number up to `last`.
LEMMA UpTo ==
    ASSUME NEW last \in Nat, NEW G, 0 \in G,
           \A n \in 0..last : n # last /\ n \in G => n + 1 \in G
    PROVE  \A n \in 0..last : n \in G
<1> SUFFICES ASSUME NEW m \in 0..last, m \notin G PROVE FALSE
  OBVIOUS
<1> DEFINE Bad == {n \in 0..last : n \notin G}
<1>1. PICK x \in Bad : \A y \in Bad : x <= y
  <2>1. Bad \in SUBSET Nat /\ Bad # {}
    OBVIOUS
  <2> HIDE DEF Bad
  <2> QED
    BY <2>1, Least
<1>2. x # 0 /\ x - 1 \in 0..last /\ x - 1 # last
  OBVIOUS
<1>3. x - 1 \in G
  BY <1>1, <1>2
<1>4. (x - 1) + 1 \in G
  BY <1>2, <1>3
<1> QED
  BY <1>1, <1>4

\* g starts at x, and its n-th step is F[n].
Runs(X, x, last, F, g) ==
    /\ g \in [0..last -> X]
    /\ g[0] = x
    /\ \A n \in 1..last : g[n] = F[n][g[n - 1]]

\* Steps that each take an element of X to one of X can be run in a row.
LEMMA Iteration ==
    ASSUME NEW X, NEW x \in X, NEW last \in Nat,
           NEW F \in [1..last -> [X -> X]]
    PROVE  \E g : Runs(X, x, last, F, g)
<1> DEFINE Run(m, g) == Runs(X, x, m, F, g)
           G == {m \in 0..last : \E g : Run(m, g)}
<1>1. 0 \in G
  <2>1. Run(0, [n \in 0..0 |-> x])
    BY DEF Runs
  <2> HIDE DEF Run
  <2>2. \E g : Run(0, g)
    BY <2>1
  <2> QED
    BY <2>2
<1>2. ASSUME NEW m \in 0..last, m # last, m \in G
      PROVE  m + 1 \in G
  <2>1. PICK g : Run(m, g)
    BY <1>2
  <2> DEFINE h == [n \in 0..(m + 1) |->
                     IF n = m + 1 THEN F[m + 1][g[m]] ELSE g[n]]
  <2>2. m + 1 \in 1..last /\ g[m] \in X
    BY <1>2, <2>1 DEF Runs
  <2>3. F[m + 1][g[m]] \in X
    BY <2>2
  <2>4. h \in [0..(m + 1) -> X]
    BY <2>1, <2>3 DEF Runs
  <2>5. h[0] = x
    BY <2>1 DEF Runs
  <2>6. ASSUME NEW n \in 1..(m + 1) PROVE h[n] = F[n][h[n - 1]]
    <3>1. CASE n = m + 1
      <4>1. h[n] = F[n][g[m]] /\ h[n - 1] = g[m]
        BY <3>1
      <4> QED
        BY <4>1
    <3>2. CASE n # m + 1
      <4>1. n \in 1..m /\ h[n] = g[n] /\ h[n - 1] = g[n - 1]
        BY <3>2
      <4> QED
        BY <2>1, <4>1 DEF Runs
    <3> QED
      BY <3>1, <3>2
  <2>7. Run(m + 1, h)
    BY <2>4, <2>5, <2>6 DEF Runs
  <2>8. m + 1 \in 0..last
    BY <1>2
  <2> HIDE DEF Run, h
  <2>9. \E k : Run(m + 1, k)
    BY <2>7
  <2> QED
    BY <2>8, <2>9
<1>3. last \in G
  <2> HIDE DEF G
  <2>1. \A n \in 0..last : n \in G
    BY <1>1, <1>2, UpTo
  <2> QED
    BY <2>1
<1> QED
  BY <1>3

-----------------------------------------------------------------------------
(* Splices.                                                                *)

\* The common prefix is one: the two agree in it.
LEMMA PrefixAgrees ==
    ASSUME NEW old \in Seq(Byte), NEW new \in Seq(Byte)
    PROVE  /\ CommonPrefix(old, new) \in 0..Shorter(Len(old), Len(new))
           /\ \A i \in 1..CommonPrefix(old, new) : old[i] = new[i]
<1> DEFINE most == Shorter(Len(old), Len(new))
           Ends(n) == n = most \/ old[n + 1] # new[n + 1]
           T == {n \in 0..most : Ends(n)}
<1>1. most \in Nat
  BY DEF Shorter
<1>2. PICK x \in T : \A y \in T : x <= y
  <2>1. T \in SUBSET Nat
    BY <1>1
  <2>2. most \in T
    BY <1>1
  <2> HIDE DEF T
  <2> QED
    BY <2>1, <2>2, Least
<1>3. ASSUME NEW i \in 1..x PROVE old[i] = new[i]
  <2>1. i - 1 \in 0..most /\ ~(x <= i - 1) /\ (i - 1) + 1 = i
    BY <1>1, <1>2
  <2>2. i - 1 \notin T
    BY <1>2, <2>1
  <2>3. ~Ends(i - 1)
    BY <2>1, <2>2
  <2> QED
    BY <2>1, <2>3
<1>4. x \in 0..most /\ (\A i \in 1..x : old[i] = new[i]) /\ Ends(x)
  BY <1>2, <1>3
<1> QED
  BY <1>4 DEF CommonPrefix

\* The common suffix of what is left after n bytes is one.
LEMMA SuffixAgrees ==
    ASSUME NEW old \in Seq(Byte), NEW new \in Seq(Byte),
           NEW p \in 0..Shorter(Len(old), Len(new))
    PROVE  /\ CommonSuffix(old, new, p) \in 0..(Shorter(Len(old), Len(new)) - p)
           /\ \A i \in 0..(CommonSuffix(old, new, p) - 1) :
                old[Len(old) - i] = new[Len(new) - i]
<1> DEFINE most == Shorter(Len(old), Len(new)) - p
           Ends(m) == m = most \/ old[Len(old) - m] # new[Len(new) - m]
           T == {m \in 0..most : Ends(m)}
<1>1. most \in Nat
  BY DEF Shorter
<1>2. PICK x \in T : \A y \in T : x <= y
  <2>1. T \in SUBSET Nat
    BY <1>1
  <2>2. most \in T
    BY <1>1
  <2> HIDE DEF T
  <2> QED
    BY <2>1, <2>2, Least
<1>3. ASSUME NEW i \in 0..(x - 1)
      PROVE  old[Len(old) - i] = new[Len(new) - i]
  <2>1. i \in 0..most /\ ~(x <= i)
    BY <1>1, <1>2
  <2>2. i \notin T
    BY <1>2, <2>1
  <2> QED
    BY <2>1, <2>2
<1>4. /\ x \in 0..most
      /\ \A i \in 0..(x - 1) : old[Len(old) - i] = new[Len(new) - i]
      /\ Ends(x)
  BY <1>2, <1>3
<1> QED
  BY <1>4 DEF CommonSuffix

\* Replacing the middle of u by that of v yields v.
LEMMA MiddleReplaced ==
    ASSUME NEW u \in Seq(Byte), NEW v \in Seq(Byte), NEW p \in Nat, NEW m \in Nat,
           p + m <= Len(u), p + m <= Len(v),
           \A i \in 1..p : u[i] = v[i],
           \A i \in 0..(m - 1) : u[Len(u) - i] = v[Len(v) - i]
    PROVE  Replace(u, p, SubSeq(u, p + 1, Len(u) - m),
                   SubSeq(v, p + 1, Len(v) - m)) = v
<1> DEFINE out == SubSeq(u, p + 1, Len(u) - m)
           in == SubSeq(v, p + 1, Len(v) - m)
           head == SubSeq(u, 1, p)
           rest == SubSeq(u, p + Len(out) + 1, Len(u))
           r == head \o in \o rest
<1>1. Len(out) = Len(u) - m - p /\ out \in Seq(Byte)
  OBVIOUS
<1>2. /\ head \in Seq(Byte) /\ Len(head) = p
      /\ \A i \in 1..p : head[i] = u[i]
  OBVIOUS
<1>3. /\ in \in Seq(Byte) /\ Len(in) = Len(v) - m - p
      /\ \A i \in 1..Len(in) : in[i] = v[p + i]
  OBVIOUS
<1>4. rest = SubSeq(u, Len(u) - m + 1, Len(u))
  <2> HIDE DEF out
  <2>1. p + Len(out) + 1 = Len(u) - m + 1
    BY <1>1
  <2> QED
    BY <2>1
<1>5. /\ rest \in Seq(Byte) /\ Len(rest) = m
      /\ \A i \in 1..m : rest[i] = u[Len(u) - m + i]
  <2> HIDE DEF rest
  <2> QED
    BY <1>4
<1> HIDE DEF out, in, head, rest
<1>6. r \in Seq(Byte) /\ Len(r) = Len(v)
  <2>1. /\ head \o in \in Seq(Byte)
        /\ Len(head \o in) = Len(head) + Len(in)
    <3>1. head \in Seq(Byte) /\ in \in Seq(Byte)
      BY <1>2, <1>3
    <3> QED
      BY <3>1, ConcatProperties
  <2>2. r \in Seq(Byte) /\ Len(r) = Len(head \o in) + Len(rest)
    <3> DEFINE front == head \o in
    <3>1. front \in Seq(Byte) /\ rest \in Seq(Byte)
      BY <1>5, <2>1
    <3> HIDE DEF front
    <3>2. /\ front \o rest \in Seq(Byte)
          /\ Len(front \o rest) = Len(front) + Len(rest)
      BY <3>1, ConcatProperties
    <3> QED
      BY <3>2 DEF front
  <2>3. Len(r) = Len(v)
    <3> HIDE DEF r
    <3> QED
      BY <1>2, <1>3, <1>5, <2>1, <2>2
  <2> QED
    BY <2>2, <2>3
<1>7. ASSUME NEW i \in 1..Len(v) PROVE r[i] = v[i]
  <2>1. CASE i <= p
    <3>1. r[i] = head[i]
      BY <1>2, <1>3, <1>5, <2>1
    <3> QED
      BY <1>2, <2>1, <3>1
  <2>2. CASE p < i /\ i <= Len(v) - m
    <3>1. r[i] = in[i - p] /\ i - p \in 1..Len(in)
      BY <1>2, <1>3, <1>5, <2>2
    <3>2. p + (i - p) = i
      OBVIOUS
    <3> QED
      BY <1>3, <3>1, <3>2
  <2>3. CASE Len(v) - m < i
    <3> DEFINE k == i - (Len(v) - m)
               j == Len(v) - i
    <3>1. k \in 1..m /\ j \in 0..(m - 1) /\ r[i] = rest[k]
      BY <1>2, <1>3, <1>5, <2>3
    <3>2. Len(u) - m + k = Len(u) - j /\ Len(v) - j = i
      BY <2>3
    <3>3. rest[k] = u[Len(u) - m + k]
      BY <1>5, <3>1
    <3>4. u[Len(u) - j] = v[Len(v) - j]
      BY <3>1
    <3> QED
      BY <3>1, <3>2, <3>3, <3>4
  <2> HIDE DEF r
  <2>4. i <= p \/ (p < i /\ i <= Len(v) - m) \/ Len(v) - m < i
    OBVIOUS
  <2> QED
    BY <2>1, <2>2, <2>3, <2>4
<1>8. r = v
  <2> HIDE DEF r
  <2> QED
    BY <1>6, <1>7, SeqEqual
<1> QED
  BY <1>8 DEF Replace, out, in, head, rest

\* `splice` and its two directions: applied to the old bytes it yields the new
\* ones, and undone from the new bytes it yields the old ones.
THEOREM SpliceInverts ==
    ASSUME NEW old \in Seq(Byte), NEW new \in Seq(Byte)
    PROVE  LET s == Splice(old, new)
           IN /\ Replace(old, s.offset, s.removed, s.added) = new
              /\ Replace(new, s.offset, s.added, s.removed) = old
              /\ s \in [offset : Nat, removed : Seq(Byte), added : Seq(Byte)]
<1> DEFINE p == CommonPrefix(old, new)
           m == CommonSuffix(old, new, p)
           s == Splice(old, new)
<1>1. /\ p \in 0..Shorter(Len(old), Len(new))
      /\ \A i \in 1..p : old[i] = new[i]
  BY PrefixAgrees
<1>2. /\ m \in 0..(Shorter(Len(old), Len(new)) - p)
      /\ \A i \in 0..(m - 1) : old[Len(old) - i] = new[Len(new) - i]
  BY <1>1, SuffixAgrees
<1>3. /\ s.offset = p
      /\ s.removed = SubSeq(old, p + 1, Len(old) - m)
      /\ s.added = SubSeq(new, p + 1, Len(new) - m)
      /\ s = [offset |-> s.offset, removed |-> s.removed, added |-> s.added]
  BY DEF Splice
<1> HIDE DEF p, m, s
<1>4. p \in Nat /\ m \in Nat /\ p + m <= Len(old) /\ p + m <= Len(new)
  BY <1>1, <1>2 DEF Shorter
<1>5. Replace(old, p, SubSeq(old, p + 1, Len(old) - m),
              SubSeq(new, p + 1, Len(new) - m)) = new
  BY <1>1, <1>2, <1>4, MiddleReplaced
<1>6. Replace(new, p, SubSeq(new, p + 1, Len(new) - m),
              SubSeq(old, p + 1, Len(old) - m)) = old
  BY <1>1, <1>2, <1>4, MiddleReplaced
<1>7. s \in [offset : Nat, removed : Seq(Byte), added : Seq(Byte)]
  <2>1. s.offset \in Nat /\ s.removed \in Seq(Byte) /\ s.added \in Seq(Byte)
    <3>1. SubSeq(old, p + 1, Len(old) - m) \in Seq(Byte)
      BY <1>4
    <3>2. SubSeq(new, p + 1, Len(new) - m) \in Seq(Byte)
      BY <1>4
    <3> QED
      BY <1>3, <1>4, <3>1, <3>2
  <2> QED
    BY <1>3, <2>1
<1> QED
  BY <1>3, <1>5, <1>6, <1>7 DEF s

-----------------------------------------------------------------------------
(* Lines of revisions.                                                     *)

\* `line` holds the revisions from the root to each one, under `parent`.
Lines(last, parent, line) ==
    /\ parent \in [1..last -> Nat]
    /\ \A i \in 1..last : parent[i] < i
    /\ line \in [0..last -> SUBSET Nat]
    /\ line[0] = {}
    /\ \A i \in 1..last : line[i] = {i} \union line[parent[i]]

\* There are such lines.
LEMMA LinesExist ==
    ASSUME NEW last \in Nat, NEW parent \in [1..last -> Nat],
           \A i \in 1..last : parent[i] < i
    PROVE  \E line : Lines(last, parent, line)
<1> DEFINE X == [0..last -> SUBSET Nat]
           F == [n \in 1..last |-> [h \in X |->
                   [h EXCEPT ![n] = {n} \union h[parent[n]]]]]
           empty == [i \in 0..last |-> {}]
<1>1. F \in [1..last -> [X -> X]]
  <2>1. ASSUME NEW n \in 1..last, NEW h \in X
        PROVE  [h EXCEPT ![n] = {n} \union h[parent[n]]] \in X
    <3>1. parent[n] \in 0..last /\ n \in 0..last
      OBVIOUS
    <3>2. {n} \union h[parent[n]] \in SUBSET Nat
      BY <3>1
    <3> QED
      BY <3>1, <3>2
  <2> HIDE DEF X
  <2> QED
    BY <2>1
<1>2. empty \in X
  OBVIOUS
<1>3. PICK g : Runs(X, empty, last, F, g)
  <2> HIDE DEF X, F, empty
  <2> QED
    BY <1>1, <1>2, Iteration
<1>4. /\ g \in [0..last -> X] /\ g[0] = empty
      /\ \A n \in 1..last : g[n] = F[n][g[n - 1]]
  <2> HIDE DEF X, F, empty
  <2> QED
    BY <1>3 DEF Runs
<1>5. ASSUME NEW n \in 1..last
      PROVE  /\ g[n - 1] \in X
             /\ g[n] = [g[n - 1] EXCEPT ![n] = {n} \union g[n - 1][parent[n]]]
  <2>1. n - 1 \in 0..last
    OBVIOUS
  <2>2. g[n - 1] \in X
    BY <1>4, <2>1
  <2>3. F[n][g[n - 1]] =
          [g[n - 1] EXCEPT ![n] = {n} \union g[n - 1][parent[n]]]
    <3> HIDE DEF X
    <3> QED
      BY <2>2
  <2> HIDE DEF X, F
  <2> QED
    BY <1>4, <2>2, <2>3
\* Once a revision has its line, later steps leave it alone.
<1>6. ASSUME NEW i \in 0..last, NEW k \in 0..last, i <= k
      PROVE  g[k][i] = g[i][i]
  <2> DEFINE G == {m \in 0..last : i <= m => g[m][i] = g[i][i]}
  <2>1. 0 \in G
    OBVIOUS
  <2>2. ASSUME NEW m \in 0..last, m # last, m \in G
        PROVE  m + 1 \in G
    <3>1. m + 1 \in 1..last /\ (m + 1) - 1 = m
      BY <2>2
    <3>2. g[m + 1] = [g[m] EXCEPT ![m + 1] = {m + 1} \union g[m][parent[m + 1]]]
      BY <1>5, <3>1
    <3>3. g[m] \in X
      BY <1>4
    <3>4. ASSUME i <= m + 1 PROVE g[m + 1][i] = g[i][i]
      <4>1. CASE i = m + 1
        BY <4>1
      <4>2. CASE i # m + 1
        <5>1. g[m + 1][i] = g[m][i]
          BY <3>2, <3>3, <4>2
        <5>2. i <= m
          BY <3>4, <4>2
        <5> QED
          BY <2>2, <5>1, <5>2
      <4> QED
        BY <4>1, <4>2
    <3> QED
      BY <3>1, <3>4
  <2> HIDE DEF G
  <2>3. \A m \in 0..last : m \in G
    BY <2>1, <2>2, UpTo
  <2>4. k \in G
    BY <2>3
  <2> QED
    BY <1>6, <2>4 DEF G
<1> DEFINE line == [i \in 0..last |-> g[i][i]]
<1>7. line \in [0..last -> SUBSET Nat]
  BY <1>4
<1>8. line[0] = {}
  BY <1>4
<1>9. ASSUME NEW i \in 1..last PROVE line[i] = {i} \union line[parent[i]]
  <2>1. /\ i \in 0..last /\ i - 1 \in 0..last
        /\ parent[i] \in 0..last /\ parent[i] <= i - 1
    OBVIOUS
  <2>2. g[i][i] = {i} \union g[i - 1][parent[i]]
    BY <1>5, <2>1
  <2>3. g[i - 1][parent[i]] = g[parent[i]][parent[i]]
    BY <1>6, <2>1
  <2> QED
    BY <2>1, <2>2, <2>3
<1> HIDE DEF line
<1>10. Lines(last, parent, line)
  BY <1>7, <1>8, <1>9 DEF Lines
<1> QED
  BY <1>10

\* A line ends with its revision, and every revision on it has its own line
\* up to there.
LEMMA LineFacts ==
    ASSUME NEW last \in Nat, NEW parent, NEW line, Lines(last, parent, line)
    PROVE  /\ \A i \in 0..last : \A x \in line[i] : x \in 1..i
           /\ \A i \in 1..last : i \in line[i]
           /\ \A i \in 0..last : \A x \in line[i] :
                line[x] = {y \in line[i] : y <= x}
           /\ \A i \in 1..last : line[parent[i]] = line[i] \ {i}
           /\ \A i, j \in 0..last : line[i] = line[j] => i = j
<1>1. ASSUME NEW i \in 1..last
      PROVE  /\ parent[i] \in 0..last /\ parent[i] < i
             /\ line[i] = {i} \union line[parent[i]]
             /\ i \in line[i]
  BY DEF Lines
<1>2. ASSUME NEW i \in 0..last, NEW x \in line[i] PROVE x \in 1..i
  <2> DEFINE Bad == {j \in 0..last : \E y \in line[j] : y \notin 1..j}
  <2> SUFFICES ASSUME Bad # {} PROVE FALSE
    BY <1>2
  <2>1. PICK j \in Bad : \A k \in Bad : j <= k
    <3>1. Bad \in SUBSET Nat
      OBVIOUS
    <3> HIDE DEF Bad
    <3> QED
      BY <3>1, Least
  <2>2. PICK y \in line[j] : y \notin 1..j
    BY <2>1
  <2>3. j \in 1..last
    BY <2>2 DEF Lines
  <2>4. y \in line[parent[j]]
    BY <1>1, <2>2, <2>3
  <2>5. parent[j] \notin Bad
    BY <1>1, <2>1, <2>3
  <2>6. y \in 1..parent[j]
    BY <1>1, <2>3, <2>4, <2>5
  <2> QED
    BY <1>1, <2>2, <2>3, <2>6
<1>3. ASSUME NEW i \in 0..last, NEW x \in line[i]
      PROVE  line[x] = {y \in line[i] : y <= x}
  <2> DEFINE Own(j, z) == line[z] = {y \in line[j] : y <= z}
             Bad == {j \in 0..last : \E z \in line[j] : ~Own(j, z)}
  <2> SUFFICES ASSUME Bad # {} PROVE FALSE
    BY <1>3
  <2>1. PICK j \in Bad : \A k \in Bad : j <= k
    <3>1. Bad \in SUBSET Nat
      OBVIOUS
    <3> HIDE DEF Bad
    <3> QED
      BY <3>1, Least
  <2>2. PICK z \in line[j] : ~Own(j, z)
    BY <2>1
  <2>3. j \in 1..last
    BY <2>2 DEF Lines
  <2>4. line[j] = {j} \union line[parent[j]] /\ parent[j] \in 0..last
    BY <1>1, <2>3
  <2>5. CASE z = j
    <3>1. \A y \in line[j] : y <= j
      BY <1>2, <2>3
    <3> QED
      BY <2>2, <2>5, <3>1
  <2>6. CASE z # j
    <3>1. z \in line[parent[j]]
      BY <2>2, <2>4, <2>6
    <3>2. parent[j] \notin Bad
      BY <1>1, <2>1, <2>3
    <3>3. Own(parent[j], z)
      BY <2>4, <3>1, <3>2
    <3>4. z \in 1..parent[j]
      BY <1>2, <2>4, <3>1
    <3>5. ~(j <= z)
      BY <1>1, <2>3, <3>4
    <3> QED
      BY <2>2, <2>4, <3>3, <3>5
  <2> QED
    BY <2>5, <2>6
<1>4. ASSUME NEW i \in 1..last PROVE line[parent[i]] = line[i] \ {i}
  <2>1. i \notin line[parent[i]]
    BY <1>1, <1>2
  <2> QED
    BY <1>1, <2>1
<1>5. ASSUME NEW i \in 0..last, NEW j \in 0..last, line[i] = line[j]
      PROVE  i = j
  <2>1. ASSUME NEW k \in 0..last, NEW l \in 0..last, line[k] = line[l]
        PROVE  k <= l
    <3>1. CASE k = 0
      BY <3>1
    <3>2. CASE k # 0
      <4>1. k \in line[l]
        BY <1>1, <2>1, <3>2
      <4> QED
        BY <1>2, <4>1
    <3> QED
      BY <3>1, <3>2
  <2>2. i <= j /\ j <= i
    BY <1>5, <2>1
  <2> QED
    BY <2>2
<1>6. \A i \in 1..last : i \in line[i]
  BY <1>1
<1> QED
  BY <1>2, <1>3, <1>4, <1>5, <1>6

-----------------------------------------------------------------------------
(* Timelines.                                                              *)

\* Each revision starts from the content of its parent, and can be undone and
\* redone byte for byte.
Sound(t, i) ==
    LET c == t.changes[i]
    IN /\ c.parent < i
       /\ c.before = StateAt(t, c.parent)
       /\ c.restorable => Redone(c.before, c) = c.after /\ Undone(c.after, c) = c.before

\* A history that the operations of `fs` make.
WellFormed(t) ==
    /\ t \in Timeline
    /\ t.current \in Revisions(t)
    /\ \A i \in DOMAIN t.changes : Sound(t, i)

LEMMA TimelineType ==
    ASSUME NEW t, t \in Timeline
    PROVE  /\ t.changes \in Seq(Change) /\ t.current \in Nat /\ t.redo \in Seq(Nat)
           /\ t = [changes |-> t.changes, current |-> t.current, redo |-> t.redo]
           /\ Len(t.changes) \in Nat /\ DOMAIN t.changes = 1..Len(t.changes)
           /\ \A i \in 1..Len(t.changes) : t.changes[i] \in Change
  BY DEF Timeline

\* A tracked file has a content at every revision.
LEMMA StateAtType ==
    ASSUME NEW t \in Timeline, Tracked(t), NEW i \in Revisions(t)
    PROVE  StateAt(t, i) \in Image
<1>1. 1 \in 1..Len(t.changes)
  BY TimelineType DEF Tracked
<1>2. ASSUME NEW n \in 1..Len(t.changes)
      PROVE  t.changes[n].before \in Image /\ t.changes[n].after \in Image
  BY TimelineType DEF Change
<1>3. CASE i = 0
  BY <1>1, <1>2, <1>3 DEF StateAt
<1>4. CASE i # 0
  BY <1>2, <1>4, TimelineType DEF StateAt, Revisions
<1> QED
  BY <1>3, <1>4

\* The lines of a history.
Parents(t) == [i \in 1..Len(t.changes) |-> t.changes[i].parent]

LEMMA LineIsLines ==
    ASSUME NEW t, WellFormed(t)
    PROVE  Lines(Len(t.changes), Parents(t), Line(t))
<1> DEFINE last == Len(t.changes)
           Is(l) == l = [i \in Revisions(t) |->
                          IF i = 0 THEN {} ELSE {i} \union l[t.changes[i].parent]]
<1>1. /\ last \in Nat /\ Revisions(t) = 0..last
      /\ \A i \in 1..last : t.changes[i].parent \in Nat
      /\ \A i \in 1..last : t.changes[i].parent < i
  BY TimelineType DEF WellFormed, Sound, Revisions, Change
<1>2. Parents(t) \in [1..last -> Nat] /\ \A i \in 1..last : Parents(t)[i] < i
  BY <1>1 DEF Parents
<1> HIDE DEF last
<1>3. PICK l : Lines(last, Parents(t), l)
  BY <1>1, <1>2, LinesExist
<1>4. Parents(t) = [i \in 1..last |-> t.changes[i].parent]
  BY DEF Parents, last
<1>5. Is(l)
  <2>1. ASSUME NEW i \in 0..last
        PROVE  l[i] = IF i = 0 THEN {} ELSE {i} \union l[t.changes[i].parent]
    BY <1>1, <1>3, <1>4 DEF Lines
  <2>2. l = [i \in 0..last |-> l[i]]
    BY <1>3 DEF Lines
  <2> QED
    BY <1>1, <2>1, <2>2
<1>6. Line(t) = CHOOSE k : Is(k)
  BY DEF Line
<1>7. Is(Line(t))
  <2> HIDE DEF Is
  <2> QED
    BY <1>5, <1>6
<1> DEFINE k == Line(t)
<1> HIDE DEF k
<1>8. k = [i \in 0..last |-> IF i = 0 THEN {} ELSE {i} \union k[t.changes[i].parent]]
  BY <1>1, <1>7 DEF k
<1>9. \A i \in 0..last : k[i] = l[i]
  <2> DEFINE Bad == {i \in 0..last : k[i] # l[i]}
  <2> SUFFICES ASSUME Bad # {} PROVE FALSE
    OBVIOUS
  <2>1. PICK j \in Bad : \A m \in Bad : j <= m
    <3>1. Bad \in SUBSET Nat
      BY <1>1
    <3> HIDE DEF Bad
    <3> QED
      BY <3>1, Least
  <2>2. j # 0
    BY <1>1, <1>8, <1>3, <2>1 DEF Lines
  <2>3. t.changes[j].parent \in 0..last /\ ~(j <= t.changes[j].parent)
    BY <1>1, <2>1, <2>2
  <2>4. k[t.changes[j].parent] = l[t.changes[j].parent]
    BY <2>1, <2>3
  <2>5. k[j] = {j} \union k[t.changes[j].parent]
    BY <1>8, <2>1, <2>2
  <2>6. l[j] = {j} \union l[t.changes[j].parent]
    BY <1>3, <1>4, <2>1, <2>2 DEF Lines
  <2> QED
    BY <2>1, <2>4, <2>5, <2>6
<1>10. k = l
  <2>1. l = [i \in 0..last |-> l[i]]
    BY <1>3 DEF Lines
  <2>2. k = [i \in 0..last |-> k[i]]
    BY <1>8
  <2> QED
    BY <1>9, <2>1, <2>2
<1> QED
  BY <1>3, <1>10 DEF k, last

\* What undoes revision n leads from its content to its parent's, and what
\* redoes it leads back, if it is no barrier.
LEMMA Steps ==
    ASSUME NEW t, WellFormed(t), NEW n \in 1..Len(t.changes),
           ~Barrier(t.changes[n])
    PROVE  /\ StateAt(t, n) \in Image
           /\ StateAt(t, t.changes[n].parent) \in Image
           /\ Undone(StateAt(t, n), t.changes[n]) = StateAt(t, t.changes[n].parent)
           /\ Redone(StateAt(t, t.changes[n].parent), t.changes[n]) = StateAt(t, n)
           /\ t.changes[n].parent \in Revisions(t)
<1>1. t \in Timeline /\ Sound(t, n)
  BY TimelineType DEF WellFormed
<1>2. t.changes[n].parent \in Nat
  BY <1>1, TimelineType DEF Change
<1>3. n \in Revisions(t) /\ t.changes[n].parent \in Revisions(t)
  BY <1>1, <1>2, TimelineType DEF Revisions, Sound
<1>4. StateAt(t, n) = t.changes[n].after
  BY <1>1, TimelineType DEF StateAt
<1>5. Tracked(t)
  BY <1>1, TimelineType DEF Tracked
<1>6. t.changes[n].restorable
  BY <1>1, TimelineType DEF Barrier, Change
<1> QED
  BY <1>1, <1>3, <1>4, <1>5, <1>6, StateAtType DEF Sound

\* Undoing what leads to the current revision yields the content where the
\* two lines part.
LEMMA BackToTheFork ==
    ASSUME NEW t, WellFormed(t), Tracked(t), NEW target \in Revisions(t),
           Reachable(t, target),
           NEW back,
           back = CHOOSE b : b = [n \in 0..Len(t.changes) |->
              IF n = 0 THEN Expected(t)
              ELSE IF Len(t.changes) + 1 - n \in Backward(t, target)
                   THEN Undone(b[n - 1], t.changes[Len(t.changes) + 1 - n])
                   ELSE b[n - 1]]
    PROVE  \E j \in Revisions(t) :
             /\ back[Len(t.changes)] = StateAt(t, j)
             /\ Line(t)[j] = Line(t)[t.current] \ Backward(t, target)
<1> DEFINE last == Len(t.changes)
           line == Line(t)
           from == line[t.current]
           B == Backward(t, target)
           c(n) == t.changes[last + 1 - n]
           Does(b, n) == IF n = 0 THEN Expected(t)
                         ELSE IF last + 1 - n \in B THEN Undone(b[n - 1], c(n))
                         ELSE b[n - 1]
           F == [n \in 1..last |-> [x \in Image |->
                   IF last + 1 - n \in B /\ Undone(x, c(n)) \in Image
                   THEN Undone(x, c(n)) ELSE x]]
           Left(n) == {i \in from : ~(i \in B /\ i > last - n)}
           At(n, x) == \E j \in Revisions(t) : x = StateAt(t, j) /\ line[j] = Left(n)
<1>1. t \in Timeline /\ last \in Nat /\ Revisions(t) = 0..last /\ t.current \in 0..last
  BY TimelineType DEF WellFormed, Revisions
<1>2. /\ Lines(last, Parents(t), line)
      /\ \A i \in 1..last : Parents(t)[i] = t.changes[i].parent
  BY LineIsLines DEF Parents
<1>3. /\ \A i \in 0..last : \A x \in line[i] : x \in 1..i
      /\ \A i \in 1..last : i \in line[i]
      /\ \A i \in 0..last : \A x \in line[i] : line[x] = {y \in line[i] : y <= x}
      /\ \A i \in 1..last : line[t.changes[i].parent] = line[i] \ {i}
  <2> HIDE DEF last, line
  <2> QED
    BY <1>1, <1>2, LineFacts
<1>4. /\ B = from \ line[target] /\ target \in 0..last
      /\ \A i \in B : ~Barrier(t.changes[i])
  BY <1>1 DEF Backward, Reachable
<1>5. Expected(t) \in Image /\ Expected(t) = StateAt(t, t.current)
  BY <1>1, StateAtType DEF Expected
<1> HIDE DEF last, line, B
<1>6. F \in [1..last -> [Image -> Image]]
  OBVIOUS
<1>7. PICK g : Runs(Image, Expected(t), last, F, g)
  <2> HIDE DEF F
  <2> QED
    BY <1>1, <1>5, <1>6, Iteration
<1>8. /\ g \in [0..last -> Image] /\ g[0] = Expected(t)
      /\ \A n \in 1..last : g[n] = F[n][g[n - 1]]
  <2> HIDE DEF F
  <2> QED
    BY <1>7 DEF Runs
\* One step back: either nothing is undone, or what is undone is the revision
\* the walk has come to.
<1>9. ASSUME NEW n \in 1..last, At(n - 1, g[n - 1])
      PROVE  /\ At(n, g[n])
             /\ last + 1 - n \in B => g[n] = Undone(g[n - 1], c(n))
             /\ last + 1 - n \notin B => g[n] = g[n - 1]
  <2> DEFINE m == last + 1 - n
  <2>1. m \in 1..last /\ g[n - 1] \in Image /\ n \in 0..last
    BY <1>1, <1>8
  <2>2. PICK j \in Revisions(t) :
          g[n - 1] = StateAt(t, j) /\ line[j] = Left(n - 1)
    BY <1>9
  <2>3. g[n] = IF m \in B /\ Undone(g[n - 1], t.changes[m]) \in Image
               THEN Undone(g[n - 1], t.changes[m]) ELSE g[n - 1]
    BY <1>8, <2>1
  <2>4. \A i \in Nat : (i > last - (n - 1) <=> i > m) /\ (i > last - n <=> i > m \/ i = m)
    BY <1>1
  <2>5. from \in SUBSET Nat /\ \A i \in from : i \in 1..last
    BY <1>1, <1>3
  <2>6. CASE m \notin B
    <3>1. Left(n) = Left(n - 1)
      BY <2>4, <2>5, <2>6
    <3> QED
      BY <2>2, <2>3, <2>6, <3>1
  <2>7. CASE m \in B
    <3>1. m \in from /\ m \notin line[target]
      BY <1>4, <2>7
    <3>2. ASSUME NEW i \in from, i > m PROVE i \in B
      <4>1. line[i] = {y \in from : y <= i}
        BY <1>1, <1>3
      <4>2. m \in line[i]
        BY <2>1, <2>5, <3>1, <3>2, <4>1
      <4>3. ASSUME i \in line[target] PROVE FALSE
        <5>1. line[i] = {y \in line[target] : y <= i}
          BY <1>3, <1>4, <4>3
        <5> QED
          BY <3>1, <4>2, <5>1
      <4> QED
        BY <1>4, <4>3
    <3>3. m \in Left(n - 1)
      BY <2>4, <2>1, <3>1
    <3>4. \A i \in Left(n - 1) : i <= m
      <4>1. ASSUME NEW i \in from, i > m PROVE i \in B /\ i > last - (n - 1)
        BY <2>4, <2>5, <3>2, <4>1
      <4> QED
        BY <2>1, <2>5, <4>1
    <3>5. j \in 1..last
      BY <1>1, <1>3, <2>2, <3>3
    <3>6. j = m
      <4>1. j <= m
        BY <1>3, <2>2, <3>4, <3>5
      <4>2. m <= j
        BY <1>1, <1>3, <2>2, <3>3, <3>5
      <4> QED
        BY <2>1, <3>5, <4>1, <4>2
    <3>7. /\ Undone(g[n - 1], t.changes[m]) = StateAt(t, t.changes[m].parent)
          /\ StateAt(t, t.changes[m].parent) \in Image
          /\ t.changes[m].parent \in Revisions(t)
      BY <1>4, <2>1, <2>2, <2>7, <3>6, Steps DEF last
    <3>8. g[n] = StateAt(t, t.changes[m].parent)
      BY <2>3, <2>7, <3>7
    <3>9. line[t.changes[m].parent] = Left(n)
      <4>1. line[t.changes[m].parent] = Left(n - 1) \ {m}
        BY <1>3, <2>1, <2>2, <3>6
      <4>2. Left(n) = Left(n - 1) \ {m}
        BY <2>4, <2>5, <2>7
      <4> QED
        BY <4>1, <4>2
    <3> QED
      BY <2>3, <2>7, <3>7, <3>8, <3>9
  <2> QED
    BY <2>6, <2>7
<1>10. \A n \in 0..last : At(n, g[n])
  <2> DEFINE G == {n \in 0..last : At(n, g[n])}
  <2>1. 0 \in G
    <3>1. Left(0) = from
      BY <1>1, <1>3
    <3> QED
      BY <1>1, <1>5, <1>8, <3>1
  <2>2. ASSUME NEW n \in 0..last, n # last, n \in G PROVE n + 1 \in G
    <3>1. n + 1 \in 1..last /\ (n + 1) - 1 = n /\ n + 1 \in 0..last
      BY <1>1, <2>2
    <3> HIDE DEF At
    <3>2. At(n + 1, g[n + 1])
      BY <1>9, <2>2, <3>1
    <3> QED
      BY <3>1, <3>2
  <2> HIDE DEF G
  <2>3. \A n \in 0..last : n \in G
    BY <1>1, <2>1, <2>2, UpTo
  <2> QED
    BY <2>3 DEF G
<1>11. ASSUME NEW n \in 0..last PROVE g[n] = Does(g, n)
  <2>1. CASE n = 0
    BY <1>8, <2>1
  <2>2. CASE n # 0
    <3>1. n \in 1..last /\ n - 1 \in 0..last
      BY <1>1, <2>2
    <3> HIDE DEF At
    <3>2. At(n - 1, g[n - 1])
      BY <1>10, <3>1
    <3> QED
      BY <1>9, <2>2, <3>1, <3>2
  <2> QED
    BY <2>1, <2>2
<1> DEFINE Is(b) == b = [n \in 0..last |-> Does(b, n)]
<1>12. Is(g)
  <2>1. g = [n \in 0..last |-> g[n]]
    BY <1>8
  <2> QED
    BY <1>11, <2>1
<1>13. back = CHOOSE b : Is(b)
  BY DEF last, B
<1>14. Is(back)
  <2> HIDE DEF Is
  <2> QED
    BY <1>12, <1>13
<1>15. \A n \in 0..last : back[n] = g[n]
  <2> DEFINE G == {n \in 0..last : back[n] = g[n]}
  <2>1. 0 \in G
    <3>1. 0 \in 0..last
      BY <1>1
    <3>2. back[0] = Does(back, 0)
      BY <1>14, <3>1
    <3> QED
      BY <1>8, <3>1, <3>2
  <2>2. ASSUME NEW n \in 0..last, n # last, n \in G PROVE n + 1 \in G
    <3>1. n + 1 \in 1..last /\ (n + 1) - 1 = n /\ n + 1 \in 0..last
      BY <1>1, <2>2
    <3>2. back[n + 1] = Does(back, n + 1)
      BY <1>14, <3>1
    <3>3. g[n + 1] = Does(g, n + 1)
      BY <1>11, <3>1
    <3>4. back[n] = g[n]
      BY <2>2
    <3> QED
      BY <3>1, <3>2, <3>3, <3>4
  <2> HIDE DEF G
  <2>3. \A n \in 0..last : n \in G
    BY <1>1, <2>1, <2>2, UpTo
  <2> QED
    BY <2>3 DEF G
<1>16. Left(last) = from \ B
  BY <1>1, <1>3
<1>17. last \in 0..last
  BY <1>1
<1>18. PICK j \in Revisions(t) : g[last] = StateAt(t, j) /\ line[j] = Left(last)
  BY <1>10, <1>17
<1>19. back[last] = StateAt(t, j) /\ line[j] = line[t.current] \ B
  BY <1>15, <1>16, <1>17, <1>18
<1> QED
  BY <1>19 DEF last, line, B

\* Redoing what leads from there to the target yields the target's content.
LEMMA AheadFromTheFork ==
    ASSUME NEW t, WellFormed(t), Tracked(t), NEW target \in Revisions(t),
           Reachable(t, target), NEW fork \in Revisions(t),
           Line(t)[fork] = Line(t)[t.current] \ Backward(t, target),
           NEW ahead,
           ahead = CHOOSE a : a = [i \in 0..Len(t.changes) |->
              IF i = 0 THEN StateAt(t, fork)
              ELSE IF i \in Forward(t, target)
                   THEN Redone(a[i - 1], t.changes[i]) ELSE a[i - 1]]
    PROVE  ahead[Len(t.changes)] = StateAt(t, target)
<1> DEFINE last == Len(t.changes)
           line == Line(t)
           to == line[target]
           common == line[fork]
           W == Forward(t, target)
           Does(a, n) == IF n = 0 THEN StateAt(t, fork)
                         ELSE IF n \in W THEN Redone(a[n - 1], t.changes[n])
                         ELSE a[n - 1]
           F == [n \in 1..last |-> [x \in Image |->
                   IF n \in W /\ Redone(x, t.changes[n]) \in Image
                   THEN Redone(x, t.changes[n]) ELSE x]]
           Got(n) == common \union {i \in W : i <= n}
           At(n, x) == \E j \in Revisions(t) : x = StateAt(t, j) /\ line[j] = Got(n)
<1>1. t \in Timeline /\ last \in Nat /\ Revisions(t) = 0..last /\ t.current \in 0..last
  BY TimelineType DEF WellFormed, Revisions
<1>2. /\ Lines(last, Parents(t), line)
      /\ \A i \in 1..last : Parents(t)[i] = t.changes[i].parent
  BY LineIsLines DEF Parents
<1>3. /\ \A i \in 0..last : \A x \in line[i] : x \in 1..i
      /\ \A i \in 1..last : i \in line[i]
      /\ \A i \in 0..last : \A x \in line[i] : line[x] = {y \in line[i] : y <= x}
      /\ \A i \in 1..last : line[t.changes[i].parent] = line[i] \ {i}
      /\ \A i, j \in 0..last : line[i] = line[j] => i = j
  <2> HIDE DEF last, line
  <2> QED
    BY <1>1, <1>2, LineFacts
<1>4. /\ W = to \ line[t.current] /\ target \in 0..last /\ fork \in 0..last
      /\ common = to \intersect line[t.current]
      /\ \A i \in W : ~Barrier(t.changes[i])
  BY <1>1 DEF Backward, Forward, Reachable
<1>5. StateAt(t, fork) \in Image
  BY <1>1, StateAtType
<1> HIDE DEF last, line, W
<1>6. F \in [1..last -> [Image -> Image]]
  OBVIOUS
<1>7. PICK g : Runs(Image, StateAt(t, fork), last, F, g)
  <2> HIDE DEF F
  <2> QED
    BY <1>1, <1>5, <1>6, Iteration
<1>8. /\ g \in [0..last -> Image] /\ g[0] = StateAt(t, fork)
      /\ \A n \in 1..last : g[n] = F[n][g[n - 1]]
  <2> HIDE DEF F
  <2> QED
    BY <1>7 DEF Runs
\* One step ahead: what is redone starts from where the walk has come to.
<1>9. ASSUME NEW n \in 1..last, At(n - 1, g[n - 1])
      PROVE  /\ At(n, g[n])
             /\ n \in W => g[n] = Redone(g[n - 1], t.changes[n])
             /\ n \notin W => g[n] = g[n - 1]
  <2>1. n - 1 \in 0..last /\ g[n - 1] \in Image /\ n \in 0..last
    BY <1>1, <1>8
  <2>2. PICK j \in Revisions(t) :
          g[n - 1] = StateAt(t, j) /\ line[j] = Got(n - 1)
    BY <1>9
  <2>3. g[n] = IF n \in W /\ Redone(g[n - 1], t.changes[n]) \in Image
               THEN Redone(g[n - 1], t.changes[n]) ELSE g[n - 1]
    BY <1>8, <2>1
  <2>4. to \in SUBSET Nat /\ \A i \in to : i \in 1..last
    BY <1>1, <1>3, <1>4
  <2>5. \A i \in Nat : i <= n <=> i <= n - 1 \/ i = n
    OBVIOUS
  <2>6. CASE n \notin W
    <3>1. Got(n) = Got(n - 1)
      BY <1>4, <2>4, <2>5, <2>6
    <3> QED
      BY <2>2, <2>3, <2>6, <3>1
  <2>7. CASE n \in W
    <3>1. n \in to /\ n \notin line[t.current]
      BY <1>4, <2>7
    <3>2. line[n] = {y \in to : y <= n}
      BY <1>3, <1>4, <3>1
    <3>3. ASSUME NEW x \in common PROVE x < n
      <4>1. x \in line[t.current] /\ x \in to /\ x \in 1..last
        BY <1>4, <2>4
      <4>2. line[x] = {y \in to : y <= x} /\ line[x] = {y \in line[t.current] : y <= x}
        BY <1>1, <1>3, <1>4, <4>1
      <4>3. n \notin line[x]
        BY <3>1, <4>2
      <4>4. ~(n <= x)
        BY <3>1, <4>2, <4>3
      <4> QED
        BY <4>1, <4>4
    <3>4. line[n] \ {n} = Got(n - 1)
      <4>1. ASSUME NEW i \in Nat PROVE i \in line[n] \ {n} <=> i \in Got(n - 1)
        <5>1. i \in to => (i \in common \/ i \in W)
          BY <1>4
        <5>2. i \in common \/ i \in W => i \in to
          BY <1>4
        <5>3. i \in common => i <= n /\ i # n
          BY <3>3, <2>1
        <5>4. i # n => (i <= n <=> i <= n - 1)
          BY <2>5
        <5>5. i <= n - 1 => i # n /\ i <= n
          OBVIOUS
        <5> HIDE DEF common, to
        <5> QED
          BY <3>2, <5>1, <5>2, <5>3, <5>4, <5>5
      <4>2. line[n] \in SUBSET Nat /\ Got(n - 1) \in SUBSET Nat
        BY <1>4, <2>4, <3>2
      <4> QED
        BY <4>1, <4>2
    <3>5. /\ Redone(StateAt(t, t.changes[n].parent), t.changes[n]) = StateAt(t, n)
          /\ StateAt(t, n) \in Image /\ t.changes[n].parent \in Revisions(t)
      BY <1>4, <2>7, Steps DEF last
    <3>6. line[t.changes[n].parent] = line[j]
      BY <1>3, <2>2, <3>4
    <3>7. j = t.changes[n].parent
      BY <1>1, <1>3, <3>5, <3>6
    <3>8. Redone(g[n - 1], t.changes[n]) = StateAt(t, n)
      BY <2>2, <3>5, <3>7
    <3>9. line[n] = Got(n)
      <4>1. line[n] = Got(n - 1) \union {n}
        BY <1>3, <3>4
      <4>2. Got(n) = Got(n - 1) \union {n}
        BY <1>4, <2>4, <2>5, <2>7
      <4> QED
        BY <4>1, <4>2
    <3> HIDE DEF Got
    <3>10. g[n] = StateAt(t, n) /\ g[n] = Redone(g[n - 1], t.changes[n])
      BY <2>3, <2>7, <3>5, <3>8
    <3> QED
      BY <1>1, <2>1, <2>7, <3>9, <3>10
  <2> QED
    BY <2>6, <2>7
<1>10. \A n \in 0..last : At(n, g[n])
  <2> DEFINE G == {n \in 0..last : At(n, g[n])}
  <2>1. 0 \in G
    <3>1. \A i \in W : i \in 1..last
      BY <1>1, <1>3, <1>4
    <3>2. Got(0) = common
      BY <3>1
    <3> HIDE DEF Got
    <3> QED
      BY <1>1, <1>8, <3>2
  <2>2. ASSUME NEW n \in 0..last, n # last, n \in G PROVE n + 1 \in G
    <3>1. n + 1 \in 1..last /\ (n + 1) - 1 = n /\ n + 1 \in 0..last
      BY <1>1, <2>2
    <3> HIDE DEF At
    <3>2. At(n + 1, g[n + 1])
      BY <1>9, <2>2, <3>1
    <3> QED
      BY <3>1, <3>2
  <2> HIDE DEF G
  <2>3. \A n \in 0..last : n \in G
    BY <1>1, <2>1, <2>2, UpTo
  <2> QED
    BY <2>3 DEF G
<1>11. ASSUME NEW n \in 0..last PROVE g[n] = Does(g, n)
  <2>1. CASE n = 0
    BY <1>8, <2>1
  <2>2. CASE n # 0
    <3>1. n \in 1..last /\ n - 1 \in 0..last
      BY <1>1, <2>2
    <3> HIDE DEF At
    <3>2. At(n - 1, g[n - 1])
      BY <1>10, <3>1
    <3> QED
      BY <1>9, <2>2, <3>1, <3>2
  <2> QED
    BY <2>1, <2>2
<1> DEFINE Is(a) == a = [n \in 0..last |-> Does(a, n)]
<1>12. Is(g)
  <2>1. g = [n \in 0..last |-> g[n]]
    BY <1>8
  <2> QED
    BY <1>11, <2>1
<1>13. ahead = CHOOSE a : Is(a)
  BY DEF last, W
<1>14. Is(ahead)
  <2> HIDE DEF Is
  <2> QED
    BY <1>12, <1>13
<1>15. \A n \in 0..last : ahead[n] = g[n]
  <2> DEFINE G == {n \in 0..last : ahead[n] = g[n]}
  <2>1. 0 \in G
    <3>1. 0 \in 0..last
      BY <1>1
    <3>2. ahead[0] = Does(ahead, 0)
      BY <1>14, <3>1
    <3> QED
      BY <1>8, <3>1, <3>2
  <2>2. ASSUME NEW n \in 0..last, n # last, n \in G PROVE n + 1 \in G
    <3>1. n + 1 \in 1..last /\ (n + 1) - 1 = n /\ n + 1 \in 0..last
      BY <1>1, <2>2
    <3>2. ahead[n + 1] = Does(ahead, n + 1)
      BY <1>14, <3>1
    <3>3. g[n + 1] = Does(g, n + 1)
      BY <1>11, <3>1
    <3>4. ahead[n] = g[n]
      BY <2>2
    <3> QED
      BY <3>1, <3>2, <3>3, <3>4
  <2> HIDE DEF G
  <2>3. \A n \in 0..last : n \in G
    BY <1>1, <2>1, <2>2, UpTo
  <2> QED
    BY <2>3 DEF G
<1>16. last \in 0..last
  BY <1>1
<1>17. PICK j \in Revisions(t) : g[last] = StateAt(t, j) /\ line[j] = Got(last)
  BY <1>10, <1>16
<1>18. Got(last) = to
  <2>1. \A i \in to : i <= last
    BY <1>1, <1>3, <1>4
  <2> QED
    BY <1>4, <2>1
<1>19. j = target
  BY <1>1, <1>3, <1>4, <1>17, <1>18
<1>20. ahead[last] = StateAt(t, target)
  BY <1>15, <1>16, <1>17, <1>19
<1> QED
  BY <1>20 DEF last

\* Undoing down one branch and redoing up the other, revision by revision,
\* yields the content of the revision it lands on (`image_at`).
THEOREM JumpLands ==
    ASSUME NEW t, WellFormed(t), Tracked(t), NEW target \in Revisions(t),
           Reachable(t, target)
    PROVE  /\ JumpImage(t, Expected(t), target) = StateAt(t, target)
           /\ StateAt(t, target) \in Image
<1> DEFINE last == Len(t.changes)
           back == CHOOSE b : b = [n \in 0..Len(t.changes) |->
              IF n = 0 THEN Expected(t)
              ELSE IF Len(t.changes) + 1 - n \in Backward(t, target)
                   THEN Undone(b[n - 1], t.changes[Len(t.changes) + 1 - n])
                   ELSE b[n - 1]]
           ahead == CHOOSE a : a = [i \in 0..Len(t.changes) |->
              IF i = 0 THEN back[last]
              ELSE IF i \in Forward(t, target)
                   THEN Redone(a[i - 1], t.changes[i]) ELSE a[i - 1]]
<1>1. JumpImage(t, Expected(t), target) = ahead[last]
  BY DEF JumpImage
<1> HIDE DEF back
<1>2. PICK j \in Revisions(t) :
        /\ back[last] = StateAt(t, j)
        /\ Line(t)[j] = Line(t)[t.current] \ Backward(t, target)
  BY BackToTheFork DEF back
<1>3. ahead = CHOOSE a : a = [i \in 0..Len(t.changes) |->
              IF i = 0 THEN StateAt(t, j)
              ELSE IF i \in Forward(t, target)
                   THEN Redone(a[i - 1], t.changes[i]) ELSE a[i - 1]]
  BY <1>2
<1> HIDE DEF ahead
<1>4. ahead[last] = StateAt(t, target)
  BY <1>2, <1>3, AheadFromTheFork
<1>5. t \in Timeline
  BY DEF WellFormed
<1> QED
  BY <1>1, <1>4, <1>5, StateAtType

-----------------------------------------------------------------------------
(* The operations keep a history well formed.                              *)

\* What was undone last was undone to where the file is, and what was undone
\* before that to there.
RedoChain(t) ==
    \A i \in DOMAIN t.redo :
        /\ t.redo[i] \in DOMAIN t.changes
        /\ t.changes[t.redo[i]].parent =
             IF i = Len(t.redo) THEN t.current ELSE t.redo[i + 1]

Kept(t) == WellFormed(t) /\ RedoChain(t)

LEMMA NewIsKept == Kept(NewTimeline) /\ ~Tracked(NewTimeline)
<1> DEFINE t == NewTimeline
<1>1. t.changes = <<>> /\ t.current = 0 /\ t.redo = <<>> /\ t \in Timeline
  BY DEF NewTimeline, Timeline
<1> HIDE DEF t
<1>2. Len(t.changes) = 0 /\ DOMAIN t.changes = {} /\ DOMAIN t.redo = {}
  BY <1>1
<1> QED
  BY <1>1, <1>2 DEF Kept, WellFormed, RedoChain, Tracked, Revisions, t

\* A change pushed onto a history is its last revision; the contents of the
\* revisions before it stay.
LEMMA PushIsKept ==
    ASSUME NEW t, Kept(t), NEW c \in Change, c.parent = t.current,
           Tracked(t) => c.before = Expected(t),
           c.restorable => Redone(c.before, c) = c.after /\ Undone(c.after, c) = c.before
    PROVE  LET u == Push(t, c)
           IN /\ Kept(u) /\ Tracked(u)
              /\ Expected(u) = c.after
              /\ c.parent \in Revisions(u) /\ StateAt(u, c.parent) = c.before
              /\ u.current # 0 /\ u.changes[u.current] = c
<1> DEFINE last == Len(t.changes)
           u == Push(t, c)
<1>1. /\ t \in Timeline /\ last \in Nat /\ t.current \in 0..last
      /\ t.changes \in Seq(Change) /\ DOMAIN t.changes = 1..last
      /\ \A i \in 1..last : Sound(t, i)
  BY TimelineType DEF Kept, WellFormed, Revisions
<1>2. /\ u.changes = Append(t.changes, c) /\ u.current = last + 1 /\ u.redo = <<>>
      /\ u = [changes |-> u.changes, current |-> u.current, redo |-> u.redo]
  BY DEF Push
<1> HIDE DEF u
<1>3. /\ u.changes \in Seq(Change) /\ Len(u.changes) = last + 1
      /\ u.changes[last + 1] = c
      /\ \A i \in 1..last : u.changes[i] = t.changes[i]
  BY <1>1, <1>2, AppendProperties
<1>4. DOMAIN u.changes = 1..(last + 1)
  BY <1>1, <1>3
<1> HIDE DEF last
<1>5. u \in Timeline
  <2>1. u.current \in Nat /\ u.redo \in Seq(Nat)
    BY <1>1, <1>2
  <2> QED
    BY <1>2, <1>3, <2>1 DEF Timeline
<1>6. ASSUME NEW i \in 0..last, Tracked(t) PROVE StateAt(u, i) = StateAt(t, i)
  <2>1. 1 \in 1..last
    BY <1>1, <1>6 DEF Tracked, last
  <2> QED
    BY <1>1, <1>3, <2>1 DEF StateAt
<1>7. StateAt(u, c.parent) = c.before /\ c.parent < last + 1 /\ c.parent \in 0..(last + 1)
  <2>1. CASE Tracked(t)
    BY <1>1, <1>6, <2>1 DEF Expected
  <2>2. CASE ~Tracked(t)
    <3>1. last = 0
      BY <2>2 DEF Tracked, last
    <3> QED
      BY <1>1, <1>3, <3>1 DEF StateAt
  <2> QED
    BY <2>1, <2>2
<1>8. ASSUME NEW i \in 1..(last + 1) PROVE Sound(u, i)
  <2>1. CASE i = last + 1
    BY <1>3, <1>7, <2>1 DEF Sound
  <2>2. CASE i # last + 1
    <3>1. i \in 1..last /\ Sound(t, i) /\ u.changes[i] = t.changes[i]
      BY <1>1, <1>3, <2>2
    <3>2. t.changes[i].parent \in 0..last /\ Tracked(t)
      <4>1. t.changes[i] \in Change
        BY <1>1, <3>1
      <4>2. t.changes # <<>>
        BY <1>1, <3>1 DEF last
      <4>3. t.changes[i].parent \in Nat
        BY <4>1 DEF Change
      <4>4. t.changes[i].parent < i
        BY <3>1 DEF Sound
      <4>5. last \in Nat /\ i \in 1..last
        BY <1>1, <3>1
      <4>6. t.changes[i].parent \in 0..last
        BY <4>3, <4>4, <4>5
      <4> QED
        BY <4>2, <4>6 DEF Tracked
    <3>3. StateAt(u, t.changes[i].parent) = StateAt(t, t.changes[i].parent)
      BY <1>6, <3>2
    <3> QED
      BY <3>1, <3>3 DEF Sound
  <2> QED
    BY <2>1, <2>2
<1>9. u.current \in Revisions(u) /\ u.current # 0 /\ Tracked(u)
  <2>1. u.changes # <<>>
    BY <1>1, <1>3
  <2> QED
    BY <1>1, <1>2, <1>3, <2>1 DEF Revisions, Tracked
<1>10. Expected(u) = c.after
  BY <1>1, <1>2, <1>3 DEF Expected, StateAt
<1>11. RedoChain(u)
  BY <1>2 DEF RedoChain
<1>12. Kept(u)
  BY <1>4, <1>5, <1>8, <1>9, <1>11 DEF Kept, WellFormed
<1>13. c.parent \in Revisions(u)
  BY <1>1, <1>3, <1>7 DEF Revisions
<1>14. u.changes[u.current] = c
  BY <1>2, <1>3
<1> QED
  BY <1>7, <1>9, <1>10, <1>12, <1>13, <1>14 DEF u

LEMMA BytesOfImage ==
    ASSUME NEW image \in Image
    PROVE  /\ Bytes(image) \in Seq(Byte)
           /\ image # Absent => Bytes(image) = image
  BY DEF Bytes, Image

\* A write, an append or a removal.
LEMMA MutateIsKept ==
    ASSUME NEW t, Kept(t), NEW old \in Image, NEW new \in Image, InStep(t, old)
    PROVE  LET u == Mutate(t, old, new)
           IN /\ Kept(u) /\ Tracked(u) /\ Expected(u) = new /\ u.current # 0
              /\ \E i \in Revisions(u) : StateAt(u, i) = old
              /\ UndoTarget(u) \in Nat
<1> DEFINE sp == Splice(Bytes(old), Bytes(new))
           c == [parent |-> t.current, operation |-> "own", restorable |-> TRUE,
                 before |-> old, after |-> new, splice |-> sp]
<1>1. /\ Replace(Bytes(old), sp.offset, sp.removed, sp.added) = Bytes(new)
      /\ Replace(Bytes(new), sp.offset, sp.added, sp.removed) = Bytes(old)
      /\ sp \in [offset : Nat, removed : Seq(Byte), added : Seq(Byte)]
  BY SpliceInverts, BytesOfImage
<1> HIDE DEF sp
<1>2. t.current \in Nat
  BY TimelineType DEF Kept, WellFormed
<1>3. c \in Change /\ c.parent = t.current /\ c.before = old /\ c.after = new
  BY <1>1, <1>2 DEF Change, Operation
<1>4. Redone(old, c) = new /\ Undone(new, c) = old
  BY <1>1, BytesOfImage DEF Redone, Undone
<1>5. Tracked(t) => c.before = Expected(t)
  BY DEF InStep
<1>6. Mutate(t, old, new) = Push(t, c)
  BY DEF Mutate, sp
<1> HIDE DEF c
<1>7. /\ Kept(Push(t, c)) /\ Tracked(Push(t, c)) /\ Expected(Push(t, c)) = c.after
      /\ c.parent \in Revisions(Push(t, c)) /\ StateAt(Push(t, c), c.parent) = c.before
      /\ Push(t, c).current # 0 /\ Push(t, c).changes[Push(t, c).current] = c
  BY <1>3, <1>4, <1>5, PushIsKept
<1> QED
  BY <1>2, <1>3, <1>6, <1>7 DEF UndoTarget

\* A barrier, where one is needed.
LEMMA AcknowledgeIsKept ==
    ASSUME NEW t, Kept(t), NEW image \in Image
    PROVE  LET u == AcknowledgeOutside(t, image)
           IN /\ Kept(u)
              /\ u # t => u.changes # t.changes
<1>1. CASE InStep(t, image)
  BY <1>1 DEF AcknowledgeOutside
<1>2. CASE ~InStep(t, image)
  <2> DEFINE c == [parent |-> t.current, operation |-> "outside",
                   restorable |-> FALSE, before |-> Expected(t), after |-> image,
                   splice |-> EmptySplice]
  <2>1. Tracked(t)
    BY <1>2 DEF InStep
  <2>2. /\ t.current \in Nat /\ t.current \in Revisions(t) /\ t \in Timeline
        /\ t.changes \in Seq(Change)
    BY TimelineType DEF Kept, WellFormed
  <2>3. Expected(t) \in Image
    BY <2>1, <2>2, StateAtType DEF Expected
  <2>4. EmptySplice \in [offset : Nat, removed : Seq(Byte), added : Seq(Byte)]
    BY DEF EmptySplice
  <2>5. c \in Change /\ c.parent = t.current /\ c.before = Expected(t) /\ ~c.restorable
    BY <2>2, <2>3, <2>4 DEF Change, Operation
  <2>6. AcknowledgeOutside(t, image) = Push(t, c)
    BY <1>2 DEF AcknowledgeOutside, PushOutside
  <2> HIDE DEF c
  <2>7. Kept(Push(t, c))
    BY <2>5, PushIsKept
  <2>8. Push(t, c).changes # t.changes
    <3>1. Push(t, c).changes = Append(t.changes, c)
      BY DEF Push
    <3>2. Len(Append(t.changes, c)) = Len(t.changes) + 1 /\ Len(t.changes) \in Nat
      BY <2>2, <2>5, AppendProperties
    <3> QED
      BY <3>1, <3>2
  <2> QED
    BY <2>6, <2>7, <2>8
<1> QED
  BY <1>1, <1>2

LEMMA RestoredIsKept ==
    ASSUME NEW t, Kept(t), NEW target \in Revisions(t)
    PROVE  LET u == Restored(t, target)
           IN /\ Kept(u) /\ u.changes = t.changes /\ u.current = target
              /\ Revisions(u) = Revisions(t) /\ Tracked(u) = Tracked(t)
              /\ \A i : StateAt(u, i) = StateAt(t, i)
<1> DEFINE u == Restored(t, target)
<1>1. /\ t \in Timeline
      /\ t = [changes |-> t.changes, current |-> t.current, redo |-> t.redo]
      /\ t.changes \in Seq(Change) /\ Len(t.changes) \in Nat
      /\ \A i \in DOMAIN t.changes : Sound(t, i)
  BY TimelineType DEF Kept, WellFormed
<1>2. /\ u = [changes |-> t.changes, current |-> target, redo |-> <<>>]
      /\ u.changes = t.changes /\ u.current = target /\ u.redo = <<>>
  BY DEF Restored
<1> HIDE DEF u
<1>3. target \in Nat
  BY <1>1 DEF Revisions
<1>4. u \in Timeline
  BY <1>1, <1>2, <1>3 DEF Timeline
<1>5. /\ Revisions(u) = Revisions(t) /\ Tracked(u) = Tracked(t)
      /\ \A i : StateAt(u, i) = StateAt(t, i)
  BY <1>2 DEF Revisions, Tracked, StateAt
<1>6. WellFormed(u)
  BY <1>1, <1>2, <1>4, <1>5 DEF WellFormed, Sound
<1>7. RedoChain(u)
  BY <1>2 DEF RedoChain
<1> QED
  BY <1>2, <1>5, <1>6, <1>7 DEF Kept, u

\* One step back: what is left goes on top of what can be redone.
LEMMA UndoIsKept ==
    ASSUME NEW t, Kept(t), t.current # 0
    PROVE  LET u == Undo(t)
           IN /\ Kept(u) /\ u.changes = t.changes /\ u.current = UndoTarget(t)
              /\ Revisions(u) = Revisions(t) /\ Tracked(u) = Tracked(t)
              /\ \A i : StateAt(u, i) = StateAt(t, i)
<1> DEFINE u == Undo(t)
           target == UndoTarget(t)
           r == t.redo
<1>1. /\ t \in Timeline
      /\ t = [changes |-> t.changes, current |-> t.current, redo |-> t.redo]
      /\ t.changes \in Seq(Change) /\ Len(t.changes) \in Nat
      /\ t.current \in Nat /\ r \in Seq(Nat)
      /\ \A i \in DOMAIN t.changes : Sound(t, i)
      /\ DOMAIN t.changes = 1..Len(t.changes)
  BY TimelineType DEF Kept, WellFormed
<1>2. t.current \in 1..Len(t.changes)
  BY <1>1 DEF Kept, WellFormed, Revisions
<1>3. target \in Nat /\ target \in Revisions(t)
  <2>1. t.changes[t.current] \in Change /\ Sound(t, t.current)
    BY <1>1, <1>2
  <2> QED
    BY <1>2, <2>1 DEF UndoTarget, Change, Sound, Revisions
<1>4. /\ u = [changes |-> t.changes, current |-> target, redo |-> Append(r, t.current)]
      /\ u.changes = t.changes /\ u.current = target /\ u.redo = Append(r, t.current)
  BY DEF Undo
<1> HIDE DEF u
<1>5. /\ u.redo \in Seq(Nat) /\ Len(u.redo) = Len(r) + 1
      /\ \A i \in 1..Len(r) : u.redo[i] = r[i]
      /\ u.redo[Len(r) + 1] = t.current
  BY <1>1, <1>4, AppendProperties
<1>6. u \in Timeline
  BY <1>1, <1>3, <1>4, <1>5 DEF Timeline
<1>7. /\ Revisions(u) = Revisions(t) /\ Tracked(u) = Tracked(t)
      /\ \A i : StateAt(u, i) = StateAt(t, i)
  BY <1>4 DEF Revisions, Tracked, StateAt
<1>8. WellFormed(u)
  BY <1>1, <1>3, <1>4, <1>6, <1>7 DEF WellFormed, Sound
<1>9. ASSUME NEW i \in DOMAIN u.redo
      PROVE  /\ u.redo[i] \in DOMAIN u.changes
             /\ u.changes[u.redo[i]].parent =
                  IF i = Len(u.redo) THEN u.current ELSE u.redo[i + 1]
  <2>1. i \in 1..(Len(r) + 1) /\ Len(r) \in Nat /\ DOMAIN r = 1..Len(r)
    BY <1>1, <1>5
  <2>2. CASE i = Len(r) + 1
    BY <1>1, <1>2, <1>4, <1>5, <2>2 DEF UndoTarget
  <2>3. CASE i # Len(r) + 1
    <3>1. i \in 1..Len(r) /\ i # Len(u.redo)
      BY <1>5, <2>1, <2>3
    <3>2. /\ r[i] \in DOMAIN t.changes
          /\ t.changes[r[i]].parent = IF i = Len(r) THEN t.current ELSE r[i + 1]
      BY <2>1, <3>1 DEF Kept, RedoChain
    <3>3. CASE i = Len(r)
      BY <1>4, <1>5, <3>1, <3>2, <3>3
    <3>4. CASE i # Len(r)
      <4>1. i + 1 \in 1..Len(r)
        BY <2>1, <3>1, <3>4
      <4> QED
        BY <1>4, <1>5, <3>1, <3>2, <3>4, <4>1
    <3> QED
      BY <3>3, <3>4
  <2> QED
    BY <2>2, <2>3
<1>10. RedoChain(u)
  BY <1>9 DEF RedoChain
<1> QED
  BY <1>4, <1>7, <1>8, <1>10 DEF Kept, u

\* One step ahead: the next thing to redo was undone to where the file is now.
LEMMA RedoIsKept ==
    ASSUME NEW t, Kept(t), t.redo # <<>>
    PROVE  LET u == Redo(t)
           IN /\ Kept(u) /\ u.changes = t.changes /\ u.current = RedoTarget(t)
              /\ Revisions(u) = Revisions(t) /\ Tracked(u) = Tracked(t)
              /\ \A i : StateAt(u, i) = StateAt(t, i)
<1> DEFINE u == Redo(t)
           r == t.redo
           n == Len(t.redo)
           target == RedoTarget(t)
<1>1. /\ t \in Timeline
      /\ t = [changes |-> t.changes, current |-> t.current, redo |-> t.redo]
      /\ t.changes \in Seq(Change) /\ Len(t.changes) \in Nat
      /\ r \in Seq(Nat) /\ n \in Nat /\ n # 0 /\ DOMAIN r = 1..n
      /\ \A i \in DOMAIN t.changes : Sound(t, i)
      /\ DOMAIN t.changes = 1..Len(t.changes)
  BY TimelineType DEF Kept, WellFormed
<1>2. /\ n \in 1..n /\ target = r[n]
      /\ \A i \in 1..n : /\ r[i] \in DOMAIN t.changes
                        /\ t.changes[r[i]].parent =
                             IF i = n THEN t.current ELSE r[i + 1]
  BY <1>1 DEF Kept, RedoChain, RedoTarget
<1>3. target \in Nat /\ target \in Revisions(t)
  BY <1>1, <1>2 DEF Revisions
<1>4. /\ u = [changes |-> t.changes, current |-> target, redo |-> SubSeq(r, 1, n - 1)]
      /\ u.changes = t.changes /\ u.current = target /\ u.redo = SubSeq(r, 1, n - 1)
  BY DEF Redo
<1> HIDE DEF u, n, r, target
<1>5. /\ u.redo \in Seq(Nat) /\ Len(u.redo) = n - 1
      /\ \A i \in 1..(n - 1) : u.redo[i] = r[i]
      /\ DOMAIN u.redo = 1..(n - 1)
  <2>1. SubSeq(r, 1, n - 1) \in Seq(Nat) /\ Len(SubSeq(r, 1, n - 1)) = n - 1
    <3>1. r \in Seq(Nat) /\ n = Len(r) /\ n \in 1..n
      BY <1>1, <1>2 DEF n, r
    <3>2. n - 1 \in 0..Len(r)
      BY <1>1, <3>1
    <3> QED
      BY <1>1, <3>1, <3>2, SubSeqProperties
  <2>2. \A i \in 1..(n - 1) : SubSeq(r, 1, n - 1)[i] = r[i]
    BY <1>1 DEF n, r
  <2> QED
    BY <1>1, <1>4, <2>1, <2>2
<1>6. u \in Timeline
  BY <1>1, <1>3, <1>4, <1>5 DEF Timeline
<1>7. /\ Revisions(u) = Revisions(t) /\ Tracked(u) = Tracked(t)
      /\ \A i : StateAt(u, i) = StateAt(t, i)
  BY <1>4 DEF Revisions, Tracked, StateAt
<1>8. WellFormed(u)
  BY <1>1, <1>3, <1>4, <1>6, <1>7 DEF WellFormed, Sound
<1>9. ASSUME NEW i \in 1..(n - 1)
      PROVE  /\ u.redo[i] \in DOMAIN u.changes
             /\ u.changes[u.redo[i]].parent =
                  IF i = Len(u.redo) THEN u.current ELSE u.redo[i + 1]
  <2>1. i \in 1..n /\ i # n /\ u.redo[i] = r[i]
    BY <1>1, <1>5
  <2>2. r[i] \in DOMAIN t.changes /\ t.changes[r[i]].parent = r[i + 1]
    BY <1>2, <2>1
  <2>3. CASE i = n - 1
    BY <1>1, <1>2, <1>4, <1>5, <2>1, <2>2, <2>3
  <2>4. CASE i # n - 1
    <3>1. i + 1 \in 1..(n - 1)
      BY <1>1, <2>4
    <3> QED
      BY <1>4, <1>5, <2>1, <2>2, <2>4, <3>1
  <2> QED
    BY <2>3, <2>4
<1>10. RedoChain(u)
  BY <1>5, <1>9 DEF RedoChain
<1> QED
  BY <1>4, <1>7, <1>8, <1>10 DEF Kept, u, target

-----------------------------------------------------------------------------
(* A history that goes on.                                                 *)

\* A history that goes on keeps the contents of the revisions it had; the first
\* change brings along what the file held before it.
LEMMA PushRemembers ==
    ASSUME NEW t, Kept(t), NEW c
    PROVE  LET u == Push(t, c)
           IN /\ Tracked(u) /\ Expected(u) = c.after
              /\ \A i \in Revisions(t) :
                   /\ i \in Revisions(u)
                   /\ StateAt(u, i) = IF Tracked(t) THEN StateAt(t, i) ELSE c.before
<1> DEFINE last == Len(t.changes)
           u == Push(t, c)
           all == Change \union {c}
<1>1. t.changes \in Seq(Change) /\ last \in Nat /\ t.current \in Revisions(t)
  BY TimelineType DEF Kept, WellFormed
<1>2. t.changes \in Seq(all) /\ c \in all
  BY <1>1
<1> HIDE DEF all
<1>3. u.changes = Append(t.changes, c) /\ u.current = last + 1
  BY DEF Push
<1> HIDE DEF u
<1>4. /\ u.changes \in Seq(all) /\ Len(u.changes) = last + 1
      /\ u.changes[last + 1] = c
      /\ \A i \in 1..last : u.changes[i] = t.changes[i]
  BY <1>1, <1>2, <1>3, AppendProperties
<1>5. Tracked(t) <=> last # 0
  BY <1>1 DEF Tracked
<1> HIDE DEF last
<1>6. Tracked(u) /\ Expected(u) = c.after
  <2>1. u.changes # <<>>
    BY <1>1, <1>4
  <2> QED
    BY <1>1, <1>3, <1>4, <2>1 DEF Tracked, Expected, StateAt
<1>7. ASSUME NEW i \in 0..last
      PROVE  /\ i \in 0..(last + 1)
             /\ StateAt(u, i) = IF Tracked(t) THEN StateAt(t, i) ELSE c.before
  <2>1. CASE Tracked(t)
    BY <1>1, <1>4, <1>5, <2>1 DEF StateAt
  <2>2. CASE ~Tracked(t)
    BY <1>1, <1>4, <1>5, <2>2 DEF StateAt
  <2> QED
    BY <1>1, <2>1, <2>2
<1>8. Revisions(t) = 0..last /\ Revisions(u) = 0..(last + 1)
  BY <1>4 DEF Revisions, last
<1> QED
  BY <1>6, <1>7, <1>8 DEF u

LEMMA MutateRemembers ==
    ASSUME NEW t, Kept(t), NEW old, NEW new
    PROVE  LET u == Mutate(t, old, new)
           IN /\ Tracked(u) /\ Expected(u) = new
              /\ \A i \in Revisions(t) :
                   /\ i \in Revisions(u)
                   /\ StateAt(u, i) = IF Tracked(t) THEN StateAt(t, i) ELSE old
<1> DEFINE c == [parent |-> t.current, operation |-> "own", restorable |-> TRUE,
                 before |-> old, after |-> new,
                 splice |-> Splice(Bytes(old), Bytes(new))]
<1>1. c.before = old /\ c.after = new
  OBVIOUS
<1>2. Mutate(t, old, new) = Push(t, c)
  BY DEF Mutate
<1> HIDE DEF c
<1> QED
  BY <1>1, <1>2, PushRemembers

LEMMA ExternalRemembers ==
    ASSUME NEW t, Kept(t), NEW before, NEW after
    PROVE  LET u == PushExternal(t, before, after)
           IN /\ Tracked(u) /\ Expected(u) = after
              /\ \A i \in Revisions(t) :
                   /\ i \in Revisions(u)
                   /\ StateAt(u, i) = IF Tracked(t) THEN StateAt(t, i) ELSE before
<1> DEFINE from == IF Tracked(t) THEN Expected(t) ELSE before
           known == from \in {before, Absent} \/ Replays(t, before)
           c == [parent |-> t.current, operation |-> "external", restorable |-> known,
                 before |-> from, after |-> after,
                 splice |-> IF known THEN Splice(Bytes(from), Bytes(after))
                                     ELSE EmptySplice]
<1>1. c.before = from /\ c.after = after
  OBVIOUS
<1>2. PushExternal(t, before, after) = Push(t, c)
  BY DEF PushExternal
<1> HIDE DEF c, known
<1> QED
  BY <1>1, <1>2, PushRemembers

\* Accepting what a file holds brings its history in step with it.
LEMMA AcceptsTheFile ==
    ASSUME NEW t, Kept(t), NEW image
    PROVE  LET u == AcknowledgeOutside(t, image)
           IN /\ Tracked(t) => Tracked(u) /\ Expected(u) = image
              /\ InStep(t, image) => u = t
<1>1. CASE InStep(t, image)
  BY <1>1 DEF AcknowledgeOutside, InStep
<1>2. CASE ~InStep(t, image)
  <2> DEFINE c == [parent |-> t.current, operation |-> "outside", restorable |-> FALSE,
                   before |-> Expected(t), after |-> image, splice |-> EmptySplice]
  <2>1. AcknowledgeOutside(t, image) = Push(t, c) /\ c.after = image
    BY <1>2 DEF AcknowledgeOutside, PushOutside
  <2> HIDE DEF c
  <2> QED
    BY <1>2, <2>1, PushRemembers
<1> QED
  BY <1>1, <1>2
=============================================================================
