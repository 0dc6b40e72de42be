--------------------------- MODULE ContainerProofs ---------------------------
(***************************************************************************)
(* The circular queue and the list of nodes, of any size: they keep their  *)
(* types and behave as a sequence.                                         *)
(*                                                                         *)
(* First, what a loop computes.  There is no induction over data here, so  *)
(* a fact about every turn is shown of a first turn that breaks it.        *)
(***************************************************************************)
EXTENDS Loops, CircularQueue, NodeList, SequenceTheorems, WellFoundedInduction, TLAPS

-----------------------------------------------------------------------------
\* A set of numbers that is not empty has a smallest.
LEMMA LeastExists ==
    ASSUME NEW S, S \subseteq Nat, S # {}
    PROVE  \E n \in S : \A m \in S : n <= m
  <1>1. PICK n \in S : \A m \in S : ~(<<m, n>> \in OpToRel(<, Nat))
    BY NatLessThanWellFounded, WFMin
  <1>2. ASSUME NEW m \in S PROVE n <= m
    <2>1. ~(<<m, n>> \in {ss \in Nat \X Nat : ss[1] < ss[2]})
      BY <1>1 DEF OpToRel
    <2> QED BY <2>1
  <1> QED BY <1>2

TurnsOf(step, x, n, f) ==
    f = [i \in 0..n |-> IF i = 0 THEN x ELSE step[f[i - 1]]]

\* There is a function that counts the turns of a loop.
LEMMA TurnsExist ==
    ASSUME NEW step, NEW x, NEW n \in Nat
    PROVE  \E f : TurnsOf(step, x, n, f)
  <1> DEFINE Without == {m \in Nat : ~\E f : TurnsOf(step, x, m, f)}
  <1>1. SUFFICES ASSUME Without # {} PROVE FALSE
    OBVIOUS
  <1>2. PICK m \in Without : \A k \in Without : m <= k
    BY <1>1, LeastExists
  <1>3. m \in Nat /\ ~\E f : TurnsOf(step, x, m, f)
    OBVIOUS
  <1>4. CASE m = 0
    <2>1. TurnsOf(step, x, 0, [i \in 0..0 |-> x])
      BY DEF TurnsOf
    <2> QED BY <2>1, <1>3, <1>4
  <1>5. CASE m # 0
    <2>1. m - 1 \in Nat /\ m - 1 \notin Without
      BY <1>2, <1>3, <1>5
    <2>2. PICK f : TurnsOf(step, x, m - 1, f)
      BY <2>1
    <2> DEFINE g == [i \in 0..m |-> IF i = m THEN step[f[m - 1]] ELSE f[i]]
    <2>3. \A i \in 0..m : g[i] = IF i = 0 THEN x ELSE step[g[i - 1]]
      <3> SUFFICES ASSUME NEW i \in 0..m
                   PROVE  g[i] = IF i = 0 THEN x ELSE step[g[i - 1]]
        OBVIOUS
      <3>1. CASE i = m
        BY <3>1, <1>3, <1>5
      <3>2. CASE i # m
        <4>1. i \in 0..(m - 1) /\ g[i] = f[i] /\ (i # 0 => i - 1 \in 0..m /\ i - 1 # m)
          BY <3>2, <1>3, <1>5
        <4>2. f[i] = IF i = 0 THEN x ELSE step[f[i - 1]]
          BY <4>1, <2>2 DEF TurnsOf
        <4> QED BY <4>1, <4>2
      <3> QED BY <3>1, <3>2
    <2>4. g = [i \in 0..m |-> IF i = 0 THEN x ELSE step[g[i - 1]]]
      <3> HIDE DEF g
      <3>1. DOMAIN g = 0..m /\ g = [i \in 0..m |-> g[i]]
        BY DEF g
      <3> QED BY <3>1, <2>3
    <2> HIDE DEF g
    <2> QED BY <2>4, <1>3 DEF TurnsOf
  <1> QED BY <1>4, <1>5

\* and one only.
LEMMA TurnsAgree ==
    ASSUME NEW step, NEW x, NEW n \in Nat, NEW m \in Nat, NEW f, NEW g,
           TurnsOf(step, x, n, f), TurnsOf(step, x, m, g), NEW i \in 0..n, i <= m
    PROVE  f[i] = g[i]
  <1> DEFINE Apart == {j \in Nat : j <= n /\ j <= m /\ f[j] # g[j]}
  <1>1. SUFFICES ASSUME Apart # {} PROVE FALSE
    OBVIOUS
  <1>2. PICK j \in Apart : \A k \in Apart : j <= k
    BY <1>1, LeastExists
  <1>3. j \in 0..n /\ j \in 0..m /\ f[j] # g[j]
    OBVIOUS
  <1>4. f[j] = (IF j = 0 THEN x ELSE step[f[j - 1]]) /\ g[j] = IF j = 0 THEN x ELSE step[g[j - 1]]
    BY <1>3 DEF TurnsOf
  <1>5. j # 0
    BY <1>3, <1>4
  <1>6. j - 1 \in Nat /\ j - 1 \notin Apart
    BY <1>2, <1>3, <1>5
  <1>7. f[j - 1] = g[j - 1]
    BY <1>6, <1>3
  <1> QED BY <1>3, <1>4, <1>5, <1>7

\* A loop starts at x, and each turn makes one step.
LEMMA StepsAre ==
    ASSUME NEW step, NEW x, NEW n \in Nat
    PROVE  /\ Steps(step, x, 0) = x
           /\ Steps(step, x, n + 1) = step[Steps(step, x, n)]
  <1> DEFINE turns(k) == CHOOSE f : TurnsOf(step, x, k, f)
  <1>1. ASSUME NEW k \in Nat PROVE TurnsOf(step, x, k, turns(k)) /\ Steps(step, x, k) = turns(k)[k]
    <2>1. TurnsOf(step, x, k, turns(k))
      BY TurnsExist
    <2>2. Steps(step, x, k) = turns(k)[k]
      BY DEF Steps, TurnsOf
    <2> QED BY <2>1, <2>2
  <1> HIDE DEF turns
  <1>2. Steps(step, x, 0) = x
    BY <1>1 DEF TurnsOf
  <1>3. n + 1 \in Nat /\ turns(n + 1)[n + 1] = step[turns(n + 1)[n]]
    <2>1. n + 1 \in 0..(n + 1) /\ n + 1 # 0 /\ n + 1 - 1 = n /\ n + 1 \in Nat
      OBVIOUS
    <2>2. TurnsOf(step, x, n + 1, turns(n + 1))
      BY <1>1, <2>1
    <2> QED BY <2>1, <2>2 DEF TurnsOf
  <1>4. turns(n + 1)[n] = turns(n)[n]
    <2>1. n + 1 \in Nat /\ n \in 0..(n + 1) /\ n <= n
      OBVIOUS
    <2>2. TurnsOf(step, x, n + 1, turns(n + 1)) /\ TurnsOf(step, x, n, turns(n))
      BY <1>1, <2>1
    <2> QED BY <2>1, <2>2, TurnsAgree
  <1> QED BY <1>1, <1>2, <1>3, <1>4

\* What every step keeps, the loop keeps.
LEMMA StepsStay ==
    ASSUME NEW step, NEW S, NEW x \in S, \A s \in S : step[s] \in S, NEW n \in Nat
    PROVE  Steps(step, x, n) \in S
  <1> DEFINE Out == {m \in Nat : Steps(step, x, m) \notin S}
  <1>1. SUFFICES ASSUME Out # {} PROVE FALSE
    OBVIOUS
  <1>2. PICK m \in Out : \A k \in Out : m <= k
    BY <1>1, LeastExists
  <1>3. m # 0
    BY StepsAre
  <1>4. m - 1 \in Nat /\ m - 1 \notin Out /\ m = (m - 1) + 1
    BY <1>2, <1>3
  <1>5. Steps(step, x, m) = step[Steps(step, x, m - 1)]
    BY <1>4, StepsAre
  <1> QED BY <1>4, <1>5

\* A loop of which each turn that is not its end brings a measure down ends within
\* as many turns as that measures.
LEMMA StepsEnd ==
    ASSUME NEW step, NEW S, NEW x \in S, NEW m \in [S -> Nat], NEW n \in Nat, m[x] <= n,
           \A s \in S : step[s] \in S /\ (step[s] = s \/ m[step[s]] < m[s])
    PROVE  LET last == Steps(step, x, n) IN last \in S /\ step[last] = last
  <1> DEFINE at(k) == Steps(step, x, k)
  <1>1. ASSUME NEW k \in Nat PROVE at(k) \in S /\ at(k + 1) = step[at(k)] /\ m[at(k)] \in Nat
    BY StepsStay, StepsAre
  <1>2. ASSUME NEW k \in Nat, step[at(k)] = at(k), NEW j \in Nat PROVE step[at(k + j)] = at(k + j)
    <2> DEFINE Moves == {i \in Nat : step[at(k + i)] # at(k + i)}
    <2>1. SUFFICES ASSUME Moves # {} PROVE FALSE
      OBVIOUS
    <2>2. PICK i \in Moves : \A h \in Moves : i <= h
      BY <2>1, LeastExists
    <2>3. i # 0
      BY <1>2
    <2>4. i - 1 \in Nat /\ i - 1 \notin Moves /\ k + (i - 1) \in Nat /\ k + i = (k + (i - 1)) + 1
      BY <2>2, <2>3
    <2> HIDE DEF at
    <2>5. at(k + i) = step[at(k + (i - 1))]
      BY <2>4, <1>1
    <2> QED BY <2>4, <2>5
  <1> HIDE DEF at
  <1> DEFINE Slow == {k \in Nat : step[at(k)] # at(k) /\ m[at(k)] + k > m[x]}
  <1>3. Slow = {}
    <2>1. SUFFICES ASSUME Slow # {} PROVE FALSE
      OBVIOUS
    <2>2. PICK k \in Slow : \A h \in Slow : k <= h
      BY <2>1, LeastExists
    <2>3. at(0) = x
      BY StepsAre DEF at
    <2>4. k # 0
      BY <2>3
    <2>5. k - 1 \in Nat /\ k - 1 \notin Slow /\ k = (k - 1) + 1
      BY <2>2, <2>4
    <2>6. at(k) = step[at(k - 1)] /\ at(k - 1) \in S /\ at(k) \in S
      BY <2>5, <1>1
    <2>7. CASE step[at(k - 1)] = at(k - 1)
      BY <2>6, <2>7
    <2>8. CASE step[at(k - 1)] # at(k - 1)
      <3>1. m[at(k - 1)] + (k - 1) <= m[x] /\ m[at(k)] < m[at(k - 1)]
        BY <2>5, <2>6, <2>8
      <3> QED BY <3>1, <2>5, <2>6
    <2> QED BY <2>7, <2>8
  <1>4. at(n) \in S /\ m[at(n)] \in Nat /\ m[x] \in Nat
    BY <1>1
  <1>5. ASSUME step[at(n)] # at(n) PROVE FALSE
    <2>1. m[at(n)] = 0
      BY <1>3, <1>4, <1>5
    <2> QED BY <2>1, <1>4, <1>5
  <1> QED BY <1>4, <1>5 DEF at
-----------------------------------------------------------------------------
(* Sequences.                                                              *)

\* What stands where says that an element was put into a sequence.
LEMMA InsertedAt ==
    ASSUME NEW V, NEW s \in Seq(V), NEW v \in V, NEW i \in 1..(Len(s) + 1),
           NEW t \in Seq(V), Len(t) = Len(s) + 1,
           \A j \in 1..Len(t) : t[j] = IF j < i THEN s[j] ELSE IF j = i THEN v ELSE s[j - 1]
    PROVE  InsertAt(s, i, v) = t
  <1> DEFINE a == SubSeq(s, 1, i - 1)
             b == SubSeq(s, i, Len(s))
             c == a \o <<v>>
  <1>1. Len(s) \in Nat /\ i \in Nat /\ \A j \in 1..Len(s) : s[j] \in V
    BY LenProperties, ElementOfSeq
  <1>2. /\ a \in Seq(V) /\ Len(a) = i - 1
        /\ \A j \in 1..(i - 1) : a[j] = s[j]
    <2>1. 1 \in Int /\ i - 1 \in Int /\ (\A j \in 1..(i - 1) : s[j] \in V)
      BY <1>1
    <2>2. /\ a \in Seq(V) /\ Len(a) = (IF 1 <= i - 1 THEN i - 1 - 1 + 1 ELSE 0)
          /\ \A j \in 1..(i - 1 - 1 + 1) : a[j] = s[1 + j - 1]
      BY <2>1, SubSeqProperties
    <2> QED BY <2>2, <1>1
  <1>3. /\ b \in Seq(V) /\ Len(b) = Len(s) - i + 1
        /\ \A j \in 1..(Len(s) - i + 1) : b[j] = s[i + j - 1]
    <2>1. i \in Int /\ Len(s) \in Int /\ (\A j \in i..Len(s) : s[j] \in V)
      BY <1>1
    <2>2. /\ b \in Seq(V) /\ Len(b) = (IF i <= Len(s) THEN Len(s) - i + 1 ELSE 0)
          /\ \A j \in 1..(Len(s) - i + 1) : b[j] = s[i + j - 1]
      BY <2>1, SubSeqProperties
    <2> QED BY <2>2, <1>1
  <1>4. <<v>> \in Seq(V) /\ Len(<<v>>) = 1 /\ <<v>>[1] = v
    OBVIOUS
  <1>5. InsertAt(s, i, v) = c \o b
    BY DEF InsertAt
  <1> HIDE DEF a, b
  <1>6. /\ c \in Seq(V) /\ Len(c) = i
        /\ \A j \in 1..i : c[j] = IF j <= i - 1 THEN s[j] ELSE v
    <2>1. /\ c \in Seq(V) /\ Len(c) = Len(a) + 1
          /\ \A j \in 1..(Len(a) + 1) : c[j] = IF j <= Len(a) THEN a[j] ELSE <<v>>[j - Len(a)]
      BY <1>2, <1>4, ConcatProperties
    <2> QED BY <2>1, <1>1, <1>2, <1>4
  <1> HIDE DEF c
  <1>7. /\ c \o b \in Seq(V) /\ Len(c \o b) = Len(s) + 1
        /\ \A j \in 1..(Len(s) + 1) : (c \o b)[j] =
               IF j < i THEN s[j] ELSE IF j = i THEN v ELSE s[j - 1]
    <2>1. /\ c \o b \in Seq(V) /\ Len(c \o b) = i + Len(b)
          /\ \A j \in 1..(i + Len(b)) : (c \o b)[j] =
                IF j <= i THEN c[j] ELSE b[j - i]
      BY <1>3, <1>6, ConcatProperties, SMTT(30)
    <2>2. i + Len(b) = Len(s) + 1
      BY <1>1, <1>3
    <2>3. ASSUME NEW j \in 1..(Len(s) + 1)
          PROVE  (c \o b)[j] = IF j < i THEN s[j] ELSE IF j = i THEN v ELSE s[j - 1]
      <3>1. CASE j <= i
        BY <3>1, <2>1, <2>2, <1>1, <1>6
      <3>2. CASE j > i
        <4>1. j - i \in 1..(Len(s) - i + 1) /\ i + (j - i) - 1 = j - 1
          BY <3>2, <1>1
        <4> QED BY <4>1, <3>2, <2>1, <2>2, <1>1, <1>3
      <3>3. j <= i \/ j > i
        BY <1>1
      <3> QED BY <3>1, <3>2, <3>3
    <2> QED BY <2>1, <2>2, <2>3
  <1>8. \A j \in 1..(Len(s) + 1) : (c \o b)[j] = t[j]
    BY <1>7
  <1> QED BY <1>5, <1>7, <1>8, SeqEqual

\* And the same of one that was taken out.
LEMMA RemovedAt ==
    ASSUME NEW V, NEW s \in Seq(V), NEW i \in 1..Len(s),
           NEW t \in Seq(V), Len(t) = Len(s) - 1,
           \A j \in 1..Len(t) : t[j] = IF j < i THEN s[j] ELSE s[j + 1]
    PROVE  RemoveAt(s, i) = t
  <1> DEFINE a == SubSeq(s, 1, i - 1)
             b == SubSeq(s, i + 1, Len(s))
  <1>1. Len(s) \in Nat /\ i \in Nat /\ \A j \in 1..Len(s) : s[j] \in V
    BY LenProperties, ElementOfSeq
  <1>2. /\ a \in Seq(V) /\ Len(a) = i - 1
        /\ \A j \in 1..(i - 1) : a[j] = s[j]
    <2>1. 1 \in Int /\ i - 1 \in Int /\ (\A j \in 1..(i - 1) : s[j] \in V)
      BY <1>1
    <2>2. /\ a \in Seq(V) /\ Len(a) = (IF 1 <= i - 1 THEN i - 1 - 1 + 1 ELSE 0)
          /\ \A j \in 1..(i - 1 - 1 + 1) : a[j] = s[1 + j - 1]
      BY <2>1, SubSeqProperties
    <2> QED BY <2>2, <1>1
  <1>3. /\ b \in Seq(V) /\ Len(b) = Len(s) - i
        /\ \A j \in 1..(Len(s) - i) : b[j] = s[i + j]
    <2>1. i + 1 \in Int /\ Len(s) \in Int /\ (\A j \in (i + 1)..Len(s) : s[j] \in V)
      BY <1>1
    <2>2. /\ b \in Seq(V) /\ Len(b) = (IF i + 1 <= Len(s) THEN Len(s) - (i + 1) + 1 ELSE 0)
          /\ \A j \in 1..(Len(s) - (i + 1) + 1) : b[j] = s[(i + 1) + j - 1]
      BY <2>1, SubSeqProperties
    <2>3. Len(s) - (i + 1) + 1 = Len(s) - i /\ \A j \in 1..(Len(s) - i) : (i + 1) + j - 1 = i + j
      BY <1>1
    <2> QED BY <2>2, <2>3, <1>1
  <1>4. RemoveAt(s, i) = a \o b
    BY DEF RemoveAt
  <1> HIDE DEF a, b
  <1>5. /\ a \o b \in Seq(V) /\ Len(a \o b) = Len(s) - 1
        /\ \A j \in 1..(Len(s) - 1) : (a \o b)[j] = IF j < i THEN s[j] ELSE s[j + 1]
    <2>1. /\ a \o b \in Seq(V) /\ Len(a \o b) = Len(a) + Len(b)
          /\ \A j \in 1..(Len(a) + Len(b)) : (a \o b)[j] = IF j <= Len(a) THEN a[j] ELSE b[j - Len(a)]
      BY <1>2, <1>3, ConcatProperties
    <2>2. Len(a) + Len(b) = Len(s) - 1
      BY <1>1, <1>2, <1>3
    <2>3. ASSUME NEW j \in 1..(Len(s) - 1)
          PROVE  (a \o b)[j] = IF j < i THEN s[j] ELSE s[j + 1]
      <3>1. CASE j < i
        BY <3>1, <2>1, <2>2, <1>1, <1>2
      <3>2. CASE j >= i
        <4>1. j - (i - 1) \in 1..(Len(s) - i) /\ i + (j - (i - 1)) = j + 1
          BY <3>2, <1>1
        <4> QED BY <4>1, <3>2, <2>1, <2>2, <1>1, <1>2, <1>3, SMTT(30)
      <3>3. j < i \/ j >= i
        BY <1>1
      <3> QED BY <3>1, <3>2, <3>3
    <2> QED BY <2>1, <2>2, <2>3
  <1>6. \A j \in 1..(Len(s) - 1) : (a \o b)[j] = t[j]
    BY <1>5
  <1> QED BY <1>4, <1>5, <1>6, SeqEqual
-----------------------------------------------------------------------------
(* What stands in a row: what each place holds, all of it different.       *)

Nodes(g, n) == {g[i] : i \in 1..n}

Order(g, n, S) ==
    /\ g \in [1..n -> S]
    /\ \A i, j \in 1..n : g[i] = g[j] => i = j

\* with p at place c, and without what is at place c
PutAt(g, n, c, p) ==
    [j \in 1..(n + 1) |-> IF j < c THEN g[j] ELSE IF j = c THEN p ELSE g[j - 1]]
CutAt(g, n, c) == [j \in 1..(n - 1) |-> IF j < c THEN g[j] ELSE g[j + 1]]

LEMMA PutAtIs ==
    ASSUME NEW S, NEW n \in Nat, NEW g, Order(g, n, S), NEW p \in S, p \notin Nodes(g, n),
           NEW c \in 1..(n + 1)
    PROVE  /\ Order(PutAt(g, n, c, p), n + 1, S)
           /\ Nodes(PutAt(g, n, c, p), n + 1) = Nodes(g, n) \cup {p}
  <1> DEFINE h == PutAt(g, n, c, p)
             M == 1..(n + 1)
  <1>1. g \in [1..n -> S] /\ \A i, j \in 1..n : g[i] = g[j] => i = j
    BY DEF Order
  <1>2. \A i \in 1..n : g[i] \in S /\ g[i] # p
    BY <1>1 DEF Nodes
  <1>3. ASSUME NEW j \in M
        PROVE  /\ j < c => j \in 1..n /\ h[j] = g[j]
               /\ j = c => h[j] = p
               /\ j > c => j - 1 \in 1..n /\ h[j] = g[j - 1]
    BY DEF PutAt
  <1>4. \A j \in M : j < c \/ j = c \/ j > c
    OBVIOUS
  <1>5. h \in [M -> S]
    <2>1. \A j \in M : (IF j < c THEN g[j] ELSE IF j = c THEN p ELSE g[j - 1]) \in S
      BY <1>2, <1>3, <1>4
    <2> QED BY <2>1 DEF PutAt
  <1> HIDE DEF h
  <1>6. ASSUME NEW i \in M, NEW j \in M, h[i] = h[j] PROVE i = j
    <2>1. CASE i = c
      BY <2>1, <1>2, <1>3, <1>4, <1>6
    <2>2. CASE j = c
      BY <2>2, <1>2, <1>3, <1>4, <1>6
    <2>3. CASE i # c /\ j # c
      <3>1. CASE i < c /\ j < c
        BY <3>1, <1>1, <1>3, <1>6
      <3>2. CASE i < c /\ j > c
        BY <3>2, <1>1, <1>3, <1>6
      <3>3. CASE i > c /\ j < c
        BY <3>3, <1>1, <1>3, <1>6
      <3>4. CASE i > c /\ j > c
        <4>1. i - 1 = j - 1
          BY <3>4, <1>1, <1>3, <1>6
        <4> QED BY <4>1
      <3> QED BY <2>3, <3>1, <3>2, <3>3, <3>4, <1>4
    <2> QED BY <2>1, <2>2, <2>3
  <1>7. Nodes(h, n + 1) = Nodes(g, n) \cup {p}
    <2>1. \A j \in M : h[j] \in Nodes(g, n) \cup {p}
      BY <1>3, <1>4 DEF Nodes
    <2>2. p \in Nodes(h, n + 1)
      <3>1. c \in M /\ h[c] = p
        BY <1>3
      <3> QED BY <3>1 DEF Nodes
    <2>3. ASSUME NEW i \in 1..n PROVE g[i] \in Nodes(h, n + 1)
      <3>1. CASE i < c
        <4>1. i \in M /\ h[i] = g[i]
          BY <3>1, <1>3
        <4> QED BY <4>1 DEF Nodes
      <3>2. CASE i >= c
        <4>1. i + 1 \in M /\ i + 1 > c /\ i + 1 - 1 = i
          BY <3>2
        <4>2. h[i + 1] = g[i]
          BY <4>1, <1>3
        <4> QED BY <4>1, <4>2 DEF Nodes
      <3>3. i < c \/ i >= c
        OBVIOUS
      <3> QED BY <3>1, <3>2, <3>3
    <2> QED BY <2>1, <2>2, <2>3 DEF Nodes
  <1> QED BY <1>5, <1>6, <1>7 DEF Order, h

LEMMA CutAtIs ==
    ASSUME NEW S, NEW n \in Nat \ {0}, NEW g, Order(g, n, S), NEW c \in 1..n
    PROVE  /\ Order(CutAt(g, n, c), n - 1, S)
           /\ Nodes(CutAt(g, n, c), n - 1) = Nodes(g, n) \ {g[c]}
  <1> DEFINE h == CutAt(g, n, c)
             M == 1..(n - 1)
  <1>1. g \in [1..n -> S] /\ \A i, j \in 1..n : g[i] = g[j] => i = j
    BY DEF Order
  <1>2. ASSUME NEW j \in M
        PROVE  /\ j < c => j \in 1..n /\ h[j] = g[j]
               /\ j >= c => j + 1 \in 1..n /\ h[j] = g[j + 1]
               /\ j < c \/ j >= c
    BY DEF CutAt
  <1>3. h \in [M -> S]
    <2>1. \A j \in M : (IF j < c THEN g[j] ELSE g[j + 1]) \in S
      BY <1>1, <1>2
    <2> QED BY <2>1 DEF CutAt
  <1> HIDE DEF h
  <1>4. ASSUME NEW i \in M, NEW j \in M, h[i] = h[j] PROVE i = j
    <2>1. CASE i < c /\ j < c
      BY <2>1, <1>1, <1>2, <1>4
    <2>2. CASE i < c /\ j >= c
      <3>1. i = j + 1
        BY <2>2, <1>1, <1>2, <1>4
      <3> QED BY <3>1, <2>2
    <2>3. CASE i >= c /\ j < c
      <3>1. i + 1 = j
        BY <2>3, <1>1, <1>2, <1>4
      <3> QED BY <3>1, <2>3
    <2>4. CASE i >= c /\ j >= c
      <3>1. i + 1 = j + 1
        BY <2>4, <1>1, <1>2, <1>4
      <3> QED BY <3>1
    <2> QED BY <2>1, <2>2, <2>3, <2>4, <1>2
  <1>5. Nodes(h, n - 1) = Nodes(g, n) \ {g[c]}
    <2>1. ASSUME NEW j \in M PROVE h[j] \in Nodes(g, n) /\ h[j] # g[c]
      <3>1. CASE j < c
        BY <3>1, <1>1, <1>2 DEF Nodes
      <3>2. CASE j >= c
        <4>1. j + 1 # c /\ j + 1 \in 1..n
          BY <3>2
        <4> QED BY <4>1, <3>2, <1>1, <1>2 DEF Nodes
      <3> QED BY <3>1, <3>2, <1>2
    <2>2. ASSUME NEW i \in 1..n, i # c PROVE g[i] \in Nodes(h, n - 1)
      <3>1. CASE i < c
        <4>1. i \in M
          BY <3>1
        <4> QED BY <3>1, <4>1, <1>2 DEF Nodes
      <3>2. CASE i > c
        <4>1. i - 1 \in M /\ i - 1 >= c /\ i - 1 + 1 = i
          BY <3>2
        <4>2. h[i - 1] = g[i]
          BY <4>1, <1>2
        <4> QED BY <4>1, <4>2 DEF Nodes
      <3>3. i < c \/ i > c
        BY <2>2
      <3> QED BY <3>1, <3>2, <3>3
    <2> QED BY <2>1, <2>2 DEF Nodes
  <1> QED BY <1>3, <1>4, <1>5 DEF Order, h

-----------------------------------------------------------------------------
(* The circular queue.  Its positions, without the words they pass through. *)

\* The wrap of a size type is a wrap of the ring, or does not show.
QueueFits == ~Promotes \/ WordSize % Slots = 0

QueueType == [data : [Slot -> Value \cup {Gone}], head : Slot, tail : Slot]

Place(h, i) == IF h + i < Slots THEN h + i ELSE h + i - Slots
Before(h) == IF h = 0 THEN Capacity ELSE h - 1

LEMMA SlotsAre ==
    /\ Capacity \in Nat \ {0} /\ Slots \in Nat \ {0} /\ Slots = Capacity + 1 /\ Slot = 0..Capacity
    /\ WordSize \in Nat /\ WordSize >= 3 * Slots
  BY QueueAssumption DEF Slots, Slot

LEMMA ModuloSmall ==
    ASSUME NEW n \in Nat \ {0}, NEW a \in 0..(n - 1)
    PROVE  a % n = a /\ (a + n) % n = a
  OBVIOUS

LEMMA WordsFit ==
    ASSUME NEW n \in Nat, n < 3 * Slots
    PROVE  Word(n) = n /\ Expr(n) = n
  <1>1. WordSize \in Nat \ {0} /\ n \in 0..(WordSize - 1)
    BY SlotsAre
  <1> QED BY <1>1, ModuloSmall DEF Word, Expr

LEMMA PlaceIs ==
    ASSUME NEW h \in Slot, NEW i \in Slot
    PROVE  Place(h, i) \in Slot /\ (h + i) % Slots = Place(h, i) /\ (h + i + Slots) % Slots = Place(h, i)
  <1>1. CASE h + i < Slots
    <2> DEFINE p == h + i
    <2>1. p \in 0..(Slots - 1) /\ Place(h, i) = p
      BY <1>1, SlotsAre DEF Place
    <2> HIDE DEF p
    <2>2. p % Slots = p /\ (p + Slots) % Slots = p /\ p \in Slot
      BY <2>1, SlotsAre, ModuloSmall
    <2> QED BY <2>1, <2>2 DEF p
  <1>2. CASE h + i >= Slots
    <2> DEFINE p == h + i - Slots
    <2>1. p \in 0..(Slots - 1) /\ h + i = p + Slots
      BY <1>2, SlotsAre
    <2>2. p % Slots = p /\ (p + Slots) % Slots = p
      BY <2>1, SlotsAre, ModuloSmall
    <2>3. (p + Slots + Slots) % Slots = p
      <3> HIDE DEF p
      <3>1. \A n \in Nat \ {0} : \A a \in 0..(n - 1) : (a + n + n) % n = a
        OBVIOUS
      <3> QED BY <3>1, <2>1, SlotsAre
    <2>4. Place(h, i) = p
      BY <1>2, SlotsAre DEF Place
    <2> HIDE DEF p
    <2> QED BY <2>1, <2>2, <2>3, <2>4, SlotsAre
  <1>3. h + i < Slots \/ h + i >= Slots
    BY SlotsAre
  <1> QED BY <1>1, <1>2, <1>3

LEMMA SizeIs ==
    ASSUME NEW q \in QueueType
    PROVE  /\ Size(q) = IF q.tail >= q.head THEN q.tail - q.head ELSE q.tail - q.head + Slots
           /\ Size(q) \in Slot
  <1>1. q.head \in Slot /\ q.tail \in Slot
    BY DEF QueueType
  <1>2. q.tail - q.head + Slots \in Nat /\ q.tail - q.head + Slots < 3 * Slots
    BY <1>1, SlotsAre
  <1>3. Size(q) = (q.tail - q.head + Slots) % Slots
    BY <1>2, WordsFit DEF Size
  <1>4. CASE q.tail >= q.head
    <2>1. q.tail - q.head \in 0..(Slots - 1)
      BY <1>1, <1>4, SlotsAre
    <2> QED BY <2>1, <1>3, <1>4, SlotsAre, ModuloSmall
  <1>5. CASE q.tail < q.head
    <2>1. q.tail - q.head + Slots \in 0..(Slots - 1)
      BY <1>1, <1>5, SlotsAre
    <2>2. (q.tail - q.head + Slots) % Slots = q.tail - q.head + Slots
      BY <2>1, SlotsAre, ModuloSmall
    <2>3. ~(q.tail >= q.head)
      BY <1>1, <1>5, SlotsAre
    <2> QED BY <2>1, <2>2, <2>3, <1>3, SlotsAre
  <1>6. q.tail >= q.head \/ q.tail < q.head
    BY <1>1, SlotsAre
  <1> QED BY <1>4, <1>5, <1>6

LEMMA StepIs ==
    ASSUME NEW p \in Slot
    PROVE  Inc(p) = Place(p, 1) /\ Dec(p) = Before(p) /\ Inc(p) \in Slot /\ Dec(p) \in Slot
  <1>1. Inc(p) = Place(p, 1) /\ Place(p, 1) \in Slot
    <2>1. 1 \in Slot /\ p + 1 \in Nat /\ p + 1 < 3 * Slots
      BY SlotsAre
    <2>2. Expr(p + 1) = p + 1
      BY <2>1, WordsFit
    <2> QED BY <2>1, <2>2, PlaceIs DEF Inc
  <1>2. Dec(p) = Before(p) /\ Before(p) \in Slot
    <2>1. p - 1 + Slots \in Nat /\ p - 1 + Slots < 3 * Slots
      BY SlotsAre
    <2>2. Dec(p) = (p - 1 + Slots) % Slots
      BY <2>1, WordsFit DEF Dec
    <2>3. CASE p = 0
      <3>1. p - 1 + Slots \in 0..(Slots - 1) /\ p - 1 + Slots = Capacity
        BY <2>3, SlotsAre
      <3> QED BY <3>1, <2>2, <2>3, SlotsAre, ModuloSmall DEF Before
    <2>4. CASE p # 0
      <3>1. p - 1 \in 0..(Slots - 1)
        BY <2>4, SlotsAre
      <3> QED BY <3>1, <2>2, <2>4, SlotsAre, ModuloSmall DEF Before
    <2> QED BY <2>3, <2>4
  <1> QED BY <1>1, <1>2

\* The iterators point where head and tail will be.
LEMMA IteratorsAre ==
    ASSUME NEW q \in QueueType
    PROVE  /\ \A i \in Slot : At(q, i) = Place(q.head, i)
           /\ QueueFits => BeforeBegin(q) = Before(q.head)
  <1>1. q.head \in Slot
    BY DEF QueueType
  <1>2. ASSUME NEW i \in Slot PROVE At(q, i) = Place(q.head, i)
    <2>1. q.head + i \in Nat /\ q.head + i < 3 * Slots /\ q.head + i + Slots \in Nat /\ q.head + i + Slots < 3 * Slots
      BY <1>1, SlotsAre
    <2>2. Expr(Word(q.head + i) + Slots) = q.head + i + Slots
      BY <2>1, WordsFit
    <2> QED BY <2>2, <1>1, PlaceIs DEF At, CalcAbsolutePos
  <1>3. Begin(q) = q.head
    <2>1. 0 \in Slot /\ Place(q.head, 0) = q.head
      BY <1>1, SlotsAre DEF Place
    <2> QED BY <2>1, <1>2 DEF Begin
  <1>4. ASSUME QueueFits PROVE BeforeBegin(q) = Before(q.head)
    <2>1. BeforeBegin(q) = Expr(Word(q.head - 1) + Slots) % Slots
      BY <1>3 DEF BeforeBegin, CalcAbsolutePos
    <2>2. CASE q.head # 0
      <3>1. /\ q.head - 1 \in Nat /\ q.head - 1 < 3 * Slots /\ q.head - 1 + Slots \in Nat /\ q.head - 1 + Slots < 3 * Slots
            /\ q.head - 1 \in 0..(Slots - 1)
        BY <1>1, <2>2, SlotsAre
      <3>2. Expr(Word(q.head - 1) + Slots) = q.head - 1 + Slots
        BY <3>1, WordsFit
      <3> QED BY <3>1, <3>2, <2>1, <2>2, SlotsAre, ModuloSmall DEF Before
    <2>3. CASE q.head = 0
      <3>1. Word(q.head - 1) = WordSize - 1
        <4>1. \A n \in Nat \ {0} : (0 - 1) % n = n - 1
          OBVIOUS
        <4>2. WordSize \in Nat \ {0}
          BY SlotsAre
        <4> QED BY <4>1, <4>2, <2>3 DEF Word
      <3>2. Capacity % Slots = Capacity
        <4>1. Capacity \in 0..(Slots - 1)
          BY SlotsAre
        <4> QED BY <4>1, SlotsAre, ModuloSmall
      <3>3. CASE ~Promotes
        <4>1. Capacity \in 0..(WordSize - 1) /\ WordSize - 1 + Slots = Capacity + WordSize /\ WordSize \in Nat \ {0}
          BY SlotsAre
        <4>2. Expr(WordSize - 1 + Slots) = Capacity
          BY <4>1, <3>3, ModuloSmall DEF Expr, Word
        <4> QED BY <4>2, <3>1, <3>2, <2>1, <2>3 DEF Before
      <3>4. CASE Promotes /\ WordSize % Slots = 0
        <4>1. Expr(WordSize - 1 + Slots) = WordSize + Capacity
          BY <3>4, SlotsAre DEF Expr
        <4>2. (WordSize + Capacity) % Slots = Capacity
          <5>1. \A n \in Nat \ {0}, w, a \in Nat : w % n = 0 /\ a < n => (w + a) % n = a
            <6> SUFFICES ASSUME NEW n \in Nat \ {0}, NEW w \in Nat, NEW a \in Nat, w % n = 0, a < n
                         PROVE  (w + a) % n = a
              OBVIOUS
            <6> DEFINE d == w \div n
                       e == (w + a) \div n
                       r == (w + a) % n
            <6>1. d \in Nat /\ e \in Nat /\ r \in 0..(n - 1) /\ w = n * d /\ w + a = n * e + r
              OBVIOUS
            <6> HIDE DEF d, e, r
            <6>2. n * (e - d) = a - r
              BY <6>1
            <6>3. \A k \in Int : (k >= 1 => n * k >= n) /\ (k <= -1 => n * k <= -n)
              OBVIOUS
            <6>4. e - d \in Int /\ a - r < n /\ a - r > -n
              BY <6>1
            <6>5. e - d = 0
              BY <6>2, <6>3, <6>4
            <6> QED BY <6>1, <6>2, <6>5 DEF r
          <5>2. Capacity \in Nat /\ Capacity < Slots
            BY SlotsAre
          <5> QED BY <5>1, <5>2, <3>4, SlotsAre
        <4> QED BY <4>1, <4>2, <3>1, <2>1, <2>3 DEF Before
      <3> QED BY <3>3, <3>4, <1>4 DEF QueueFits
    <2> QED BY <2>2, <2>3
  <1> QED BY <1>2, <1>4
-----------------------------------------------------------------------------
(* Its operations, as those of a sequence.                                 *)

LEMMA QueueTypeIs == QueueTypeOK <=> queue \in QueueType
  BY DEF QueueTypeOK, QueueType

LEMMA ItemsAre ==
    ASSUME NEW q \in QueueType
    PROVE  /\ Items(q) \in Seq(Value \cup {Gone}) /\ Len(Items(q)) = Size(q)
           /\ \A i \in 1..Size(q) : Items(q)[i] = q.data[Place(q.head, i - 1)]
  <1>1. /\ q.head \in Slot /\ q.data \in [Slot -> Value \cup {Gone}]
        /\ Size(q) \in Nat /\ Size(q) < Slots
    BY SizeIs, SlotsAre DEF QueueType
  <1>2. ASSUME NEW i \in 1..Size(q)
        PROVE  (q.head + i - 1) % Slots = Place(q.head, i - 1) /\ Place(q.head, i - 1) \in Slot
    <2>1. i - 1 \in Slot /\ q.head + i - 1 = q.head + (i - 1)
      BY <1>1, SlotsAre
    <2> QED BY <2>1, <1>1, PlaceIs
  <1>3. \A i \in 1..Size(q) : q.data[(q.head + i - 1) % Slots] \in Value \cup {Gone}
    BY <1>1, <1>2
  <1>4. Items(q) \in Seq(Value \cup {Gone}) /\ Len(Items(q)) = Size(q)
    BY <1>1, <1>3 DEF Items
  <1> QED BY <1>2, <1>4 DEF Items

LEMMA EmptyIs ==
    ASSUME NEW q \in QueueType
    PROVE  /\ IsEmpty(q) <=> Size(q) = 0
           /\ IsEmpty(q) <=> Items(q) = <<>>
           /\ IsFull(q) <=> Size(q) = Capacity
  <1>1. q.head \in Slot /\ q.tail \in Slot
    BY DEF QueueType
  <1>2. IsEmpty(q) <=> Size(q) = 0
    BY <1>1, SizeIs, SlotsAre DEF IsEmpty
  <1>3. Size(q) = 0 <=> Items(q) = <<>>
    BY ItemsAre, EmptySeq
  <1>4. IsFull(q) <=> q.head = Place(q.tail, 1)
    BY <1>1, StepIs DEF IsFull, Inc
  <1>5. q.head = Place(q.tail, 1) <=> Size(q) = Capacity
    BY <1>1, SizeIs, SlotsAre DEF Place
  <1> QED BY <1>2, <1>3, <1>4, <1>5

\* Places on the ring.
LEMMA QueueRing ==
    ASSUME NEW h \in Slot
    PROVE  /\ Place(h, 0) = h
           /\ \A i, j \in Slot : i # j => Place(h, i) # Place(h, j)
           /\ \A i \in 0..(Capacity - 1) :
                 /\ Place(Place(h, 1), i) = Place(h, i + 1)
                 /\ Place(Place(h, i), 1) = Place(h, i + 1)
                 /\ Place(Before(h), i + 1) = Place(h, i)
                 /\ Before(Place(h, i + 1)) = Place(h, i)
  <1>1. Capacity \in Nat \ {0} /\ Slots = Capacity + 1 /\ h \in 0..Capacity
    BY SlotsAre
  <1>2. Place(h, 0) = h
    BY <1>1 DEF Place
  <1>3. ASSUME NEW i \in Slot, NEW j \in Slot, i # j
        PROVE  Place(h, i) # Place(h, j)
    <2>1. i \in 0..Capacity /\ j \in 0..Capacity
      BY SlotsAre
    <2> QED BY <1>1, <1>3, <2>1 DEF Place
  <1>4. ASSUME NEW i \in 0..(Capacity - 1)
        PROVE  /\ Place(Place(h, 1), i) = Place(h, i + 1)
               /\ Place(Place(h, i), 1) = Place(h, i + 1)
               /\ Place(Before(h), i + 1) = Place(h, i)
               /\ Before(Place(h, i + 1)) = Place(h, i)
    <2>1. Place(Place(h, 1), i) = Place(h, i + 1) /\ Place(Place(h, i), 1) = Place(h, i + 1)
      BY <1>1 DEF Place
    <2>2. Place(Before(h), i + 1) = Place(h, i)
      BY <1>1 DEF Place, Before
    <2>3. Before(Place(h, i + 1)) = Place(h, i)
      BY <1>1 DEF Place, Before
    <2> QED BY <2>1, <2>2, <2>3
  <1> QED BY <1>2, <1>3, <1>4

LEMMA TailIs ==
    ASSUME NEW q \in QueueType
    PROVE  \A k \in Slot : q.tail = Place(q.head, k) <=> Size(q) = k
  <1>1. q.head \in 0..Capacity /\ q.tail \in 0..Capacity /\ Capacity \in Nat \ {0} /\ Slots = Capacity + 1
    BY SlotsAre DEF QueueType
  <1> SUFFICES ASSUME NEW k \in 0..Capacity PROVE q.tail = Place(q.head, k) <=> Size(q) = k
    BY SlotsAre
  <1>2. CASE q.tail >= q.head
    <2>1. Size(q) = q.tail - q.head
      BY <1>2, SizeIs
    <2> QED BY <2>1, <1>1, <1>2 DEF Place
  <1>3. CASE ~(q.tail >= q.head)
    <2>1. Size(q) = q.tail - q.head + Slots
      BY <1>3, SizeIs
    <2> QED BY <2>1, <1>1, <1>3 DEF Place
  <1> QED BY <1>2, <1>3

LEMMA PushBackItems ==
    ASSUME NEW q \in QueueType, NEW v \in Value, ~IsFull(q),
           NEW r, r = [q EXCEPT !.data[End(q)] = v, !.tail = Inc(@)]
    PROVE  r \in QueueType /\ Items(r) = InsertAt(Items(q), Size(q) + 1, v)
  <1> DEFINE V == Value \cup {Gone}
             n == Size(q)
             e == End(q)
             t == Inc(q.tail)
  <1>1. /\ q.head \in Slot /\ q.tail \in Slot /\ q.data \in [Slot -> V]
        /\ n \in Nat /\ n < Capacity /\ n = Len(Items(q)) /\ v \in V
    BY SizeIs, EmptyIs, SlotsAre, ItemsAre DEF QueueType
  <1>2. e = Place(q.head, n) /\ e = q.tail
    <2>1. n \in Slot
      BY <1>1, SlotsAre
    <2>2. e = Place(q.head, n)
      BY <2>1, IteratorsAre DEF End
    <2>3. Place(q.head, n) = q.tail
      BY <1>1, SizeIs, SlotsAre, SMTT(30) DEF Place
    <2> QED BY <2>2, <2>3
  <1>3. t = Place(q.tail, 1) /\ t \in Slot
    BY <1>1, StepIs
  <1> HIDE DEF e, t
  <1>4. /\ r \in QueueType /\ r.head = q.head /\ r.tail = t
        /\ r.data = [q.data EXCEPT ![e] = v]
    BY <1>1, <1>2, <1>3 DEF QueueType, e, t
  <1>5. Size(r) = n + 1
    <2>1. n \in 0..(Capacity - 1) /\ n + 1 \in Slot
      BY <1>1, SlotsAre
    <2>2. t = Place(q.head, n + 1)
      <3>1. \A i \in 0..(Capacity - 1) : Place(Place(q.head, i), 1) = Place(q.head, i + 1)
        BY <1>1, QueueRing
      <3>2. Place(Place(q.head, n), 1) = Place(q.head, n + 1)
        BY <2>1, <3>1
      <3> QED BY <3>2, <1>2, <1>3
    <2> QED BY <2>1, <2>2, <1>4, TailIs
  <1>6. ASSUME NEW i \in 1..(n + 1)
        PROVE  Items(r)[i] = IF i < n + 1 THEN Items(q)[i] ELSE v
    <2>1. Items(r)[i] = r.data[Place(q.head, i - 1)]
      BY <1>4, <1>5, ItemsAre
    <2>2. CASE i < n + 1
      <3> HIDE DEF n
      <3>1. i - 1 \in Slot /\ n \in Slot /\ i - 1 # n /\ i \in 1..n
        BY <2>2, <1>1, SlotsAre
      <3>2. Place(q.head, i - 1) # e
        <4>1. \A k, j \in Slot : k # j => Place(q.head, k) # Place(q.head, j)
          BY <1>1, QueueRing
        <4> QED BY <4>1, <3>1, <1>2
      <3>3. r.data[Place(q.head, i - 1)] = q.data[Place(q.head, i - 1)]
        <4>1. Place(q.head, i - 1) \in Slot
          BY <3>1, <1>1, PlaceIs
        <4> QED BY <4>1, <3>2, <1>4, <1>1
      <3> QED BY <3>1, <3>3, <2>1, <2>2, ItemsAre DEF n
    <2>3. CASE i = n + 1
      <3>1. i - 1 = n /\ ~(i < n + 1) /\ r.data[e] = v
        BY <2>3, <1>1, <1>2, <1>4
      <3> QED BY <3>1, <2>1, <1>2
    <2>4. i < n + 1 \/ i = n + 1
      BY <1>1
    <2> QED BY <2>2, <2>3, <2>4
  <1>7. Items(q) \in Seq(V) /\ Items(r) \in Seq(V) /\ Len(Items(r)) = n + 1
    BY <1>4, <1>5, ItemsAre
  <1>8. \A i \in 1..(n + 1) : Items(r)[i] =
            IF i < n + 1 THEN Items(q)[i] ELSE IF i = n + 1 THEN v ELSE Items(q)[i - 1]
    BY <1>6, <1>1
  <1>9. n + 1 \in 1..(Len(Items(q)) + 1)
    BY <1>1
  <1> HIDE DEF n, V
  <1>10. InsertAt(Items(q), n + 1, v) = Items(r)
    BY <1>1, <1>7, <1>8, <1>9, InsertedAt
  <1> QED BY <1>4, <1>10 DEF n

LEMMA PushFrontItems ==
    ASSUME QueueFits, NEW q \in QueueType, NEW v \in Value, ~IsFull(q),
           NEW r, r = [q EXCEPT !.data[BeforeBegin(q)] = v, !.head = Dec(@)]
    PROVE  r \in QueueType /\ Items(r) = InsertAt(Items(q), 1, v)
  <1> DEFINE V == Value \cup {Gone}
             n == Size(q)
             e == BeforeBegin(q)
             h == Dec(q.head)
  <1>1. /\ q.head \in Slot /\ q.tail \in Slot /\ q.data \in [Slot -> V]
        /\ n \in Nat /\ n < Capacity /\ n = Len(Items(q)) /\ v \in V
    BY SizeIs, EmptyIs, SlotsAre, ItemsAre DEF QueueType
  <1>2. e = Before(q.head) /\ h = Before(q.head) /\ h \in Slot
    BY <1>1, IteratorsAre, StepIs
  <1> HIDE DEF e, h
  <1>3. /\ r \in QueueType /\ r.head = h /\ r.tail = q.tail
        /\ r.data = [q.data EXCEPT ![h] = v]
    BY <1>1, <1>2 DEF QueueType, e, h
  <1>4. Size(r) = n + 1
    <2>1. n \in 0..(Capacity - 1) /\ n + 1 \in Slot /\ n \in Slot
      BY <1>1, SlotsAre
    <2>2. q.tail = Place(h, n + 1)
      <3>1. q.tail = Place(q.head, n)
        BY <2>1, TailIs
      <3> QED BY <3>1, <2>1, <1>1, <1>2, QueueRing
    <2> QED BY <2>1, <2>2, <1>3, TailIs
  <1>5. ASSUME NEW i \in 1..(n + 1)
        PROVE  Items(r)[i] = IF i = 1 THEN v ELSE Items(q)[i - 1]
    <2>1. Items(r)[i] = r.data[Place(h, i - 1)]
      BY <1>3, <1>4, ItemsAre
    <2>2. CASE i = 1
      <3>1. Place(h, i - 1) = h
        BY <2>2, <1>2, QueueRing
      <3> QED BY <3>1, <2>1, <2>2, <1>1, <1>2, <1>3
    <2>3. CASE i # 1
      <3> HIDE DEF n
      <3> DEFINE j == i - 1 - 1
      <3>0. j \in 0..(Capacity - 1) /\ i - 1 = j + 1 /\ i - 1 \in 1..n /\ i - 1 \in Slot /\ 0 \in Slot
        BY <2>3, <1>1, SlotsAre, SMTT(30)
      <3>1. Place(h, i - 1) = Place(q.head, j) /\ Place(h, i - 1) # h /\ Place(h, i - 1) \in Slot
        <4> HIDE DEF j
        <4>1. Place(h, j + 1) = Place(q.head, j)
          BY <3>0, <1>1, <1>2, QueueRing
        <4>2. Place(h, i - 1) # Place(h, 0) /\ Place(h, 0) = h
          <5>1. i - 1 # 0
            BY <3>0
          <5> QED BY <5>1, <3>0, <1>2, QueueRing
        <4> QED BY <3>0, <4>1, <4>2, <1>2, PlaceIs
      <3>2. r.data[Place(h, i - 1)] = q.data[Place(q.head, i - 1 - 1)]
        BY <3>1, <1>3, <1>1
      <3>3. Items(q)[i - 1] = q.data[Place(q.head, i - 1 - 1)]
        BY <3>0, ItemsAre DEF n
      <3> QED BY <3>2, <3>3, <2>1, <2>3
    <2> QED BY <2>2, <2>3
  <1>6. Items(q) \in Seq(V) /\ Items(r) \in Seq(V) /\ Len(Items(r)) = n + 1
    BY <1>3, <1>4, ItemsAre
  <1>7. \A i \in 1..(n + 1) : Items(r)[i] =
            IF i < 1 THEN Items(q)[i] ELSE IF i = 1 THEN v ELSE Items(q)[i - 1]
    BY <1>5, <1>1
  <1>8. 1 \in 1..(Len(Items(q)) + 1)
    BY <1>1
  <1> HIDE DEF n, V
  <1>9. InsertAt(Items(q), 1, v) = Items(r)
    BY <1>1, <1>6, <1>7, <1>8, InsertedAt, SMTT(30)
  <1> QED BY <1>3, <1>9

LEMMA PopFrontItems ==
    ASSUME NEW q \in QueueType, ~IsEmpty(q),
           NEW r, r = [q EXCEPT !.data[Begin(q)] = Gone, !.head = Inc(@)]
    PROVE  r \in QueueType /\ Items(r) = RemoveAt(Items(q), 1)
  <1> DEFINE V == Value \cup {Gone}
             n == Size(q)
             e == Begin(q)
             h == Inc(q.head)
  <1>1. /\ q.head \in Slot /\ q.tail \in Slot /\ q.data \in [Slot -> V]
        /\ n \in Nat /\ n > 0 /\ n < Slots /\ n = Len(Items(q))
    BY SizeIs, EmptyIs, SlotsAre, ItemsAre DEF QueueType
  <1>2. e = q.head /\ h = Place(q.head, 1) /\ h \in Slot
    <2>1. 0 \in Slot
      BY SlotsAre
    <2>2. e = Place(q.head, 0)
      BY <2>1, IteratorsAre DEF Begin
    <2>3. Place(q.head, 0) = q.head
      BY <1>1, SlotsAre DEF Place
    <2> QED BY <2>2, <2>3, <1>1, StepIs
  <1> HIDE DEF e, h
  <1>3. /\ r \in QueueType /\ r.head = h /\ r.tail = q.tail
        /\ r.data = [q.data EXCEPT ![q.head] = Gone]
    BY <1>1, <1>2 DEF QueueType, e, h
  <1>4. Size(r) = n - 1
    <2> HIDE DEF n
    <2>1. n - 1 \in 0..(Capacity - 1) /\ n - 1 \in Slot /\ n \in Slot /\ n - 1 + 1 = n
      BY <1>1, SlotsAre
    <2>2. q.tail = Place(h, n - 1)
      <3>1. q.tail = Place(q.head, n)
        BY <2>1, TailIs DEF n
      <3> QED BY <3>1, <2>1, <1>1, <1>2, QueueRing
    <2> QED BY <2>1, <2>2, <1>3, TailIs
  <1>5. ASSUME NEW i \in 1..(n - 1)
        PROVE  Items(r)[i] = Items(q)[i + 1]
    <2>1. Items(r)[i] = r.data[Place(h, i - 1)]
      BY <1>3, <1>4, ItemsAre
    <2>2. /\ i - 1 \in 0..(Capacity - 1) /\ i - 1 + 1 = i /\ i + 1 - 1 = i /\ i \in Slot /\ 0 \in Slot /\ i # 0
          /\ i + 1 \in 1..n
      <3> HIDE DEF n
      <3> QED BY <1>1, SlotsAre, SMTT(30)
    <2>3. Place(h, i - 1) = Place(q.head, i) /\ Place(q.head, i) # q.head /\ Place(q.head, i) \in Slot
      <3>1. /\ \A k, j \in Slot : k # j => Place(q.head, k) # Place(q.head, j)
            /\ \A k \in 0..(Capacity - 1) : Place(Place(q.head, 1), k) = Place(q.head, k + 1)
            /\ Place(q.head, 0) = q.head
        BY <1>1, QueueRing
      <3> HIDE DEF n
      <3>2. Place(h, i - 1) = Place(q.head, i)
        BY <2>2, <3>1, <1>2
      <3>3. Place(q.head, i) # q.head
        BY <2>2, <3>1
      <3>4. Place(q.head, i) \in Slot
        BY <2>2, <1>1, PlaceIs
      <3> QED BY <3>2, <3>3, <3>4
    <2>4. r.data[Place(h, i - 1)] = q.data[Place(q.head, i)]
      BY <2>3, <1>3, <1>1
    <2>5. Items(q)[i + 1] = q.data[Place(q.head, i)]
      BY <2>2, ItemsAre
    <2> QED BY <2>1, <2>4, <2>5
  <1>6. Items(q) \in Seq(V) /\ Items(r) \in Seq(V) /\ Len(Items(r)) = n - 1
    BY <1>3, <1>4, ItemsAre
  <1>7. \A i \in 1..(n - 1) : Items(r)[i] = IF i < 1 THEN Items(q)[i] ELSE Items(q)[i + 1]
    BY <1>5, <1>1
  <1>8. 1 \in 1..Len(Items(q))
    BY <1>1
  <1> HIDE DEF n, V
  <1>9. RemoveAt(Items(q), 1) = Items(r)
    BY <1>1, <1>6, <1>7, <1>8, RemovedAt
  <1> QED BY <1>3, <1>9

LEMMA PopBackItems ==
    ASSUME NEW q \in QueueType, ~IsEmpty(q),
           NEW r, r = [q EXCEPT !.data[GetBack(q)] = Gone, !.tail = Dec(@)]
    PROVE  r \in QueueType /\ Items(r) = RemoveAt(Items(q), Size(q))
  <1> DEFINE V == Value \cup {Gone}
             n == Size(q)
             e == GetBack(q)
             t == Dec(q.tail)
  <1>1. /\ q.head \in Slot /\ q.tail \in Slot /\ q.data \in [Slot -> V]
        /\ n \in Nat /\ n > 0 /\ n < Slots /\ n = Len(Items(q))
    BY SizeIs, EmptyIs, SlotsAre, ItemsAre DEF QueueType
  <1>2. e = Place(q.head, n - 1) /\ t = Before(q.tail) /\ t \in Slot /\ e = t
    <2>1. n - 1 \in Slot /\ n # 0
      BY <1>1, SlotsAre
    <2>2. e = Place(q.head, n - 1)
      BY <2>1, IteratorsAre DEF GetBack
    <2>3. t = Before(q.tail) /\ t \in Slot
      BY <1>1, StepIs
    <2>4. n \in Slot
      BY SizeIs
    <2>5. Place(q.head, n) = q.tail
      BY <2>4, TailIs
    <2> HIDE DEF n, e, t
    <2>6. n - 1 \in 0..(Capacity - 1) /\ n - 1 + 1 = n
      BY <1>1, SlotsAre
    <2>7. Place(q.head, n - 1) = Before(q.tail)
      BY <2>5, <2>6, <1>1, QueueRing
    <2> QED BY <2>2, <2>3, <2>7
  <1> HIDE DEF e, t
  <1>3. /\ r \in QueueType /\ r.head = q.head /\ r.tail = t
        /\ r.data = [q.data EXCEPT ![e] = Gone]
    BY <1>1, <1>2 DEF QueueType, e, t
  <1>4. Size(r) = n - 1
    <2>1. n - 1 \in Slot
      BY <1>1, SlotsAre
    <2>2. r.tail = Place(r.head, n - 1)
      BY <1>2, <1>3
    <2>3. \A k \in Slot : r.tail = Place(r.head, k) <=> Size(r) = k
      BY <1>3, TailIs
    <2> HIDE DEF n
    <2> QED BY <2>1, <2>2, <2>3
  <1>5. ASSUME NEW i \in 1..(n - 1)
        PROVE  Items(r)[i] = Items(q)[i]
    <2>1. Items(r)[i] = r.data[Place(q.head, i - 1)]
      BY <1>3, <1>4, ItemsAre
    <2>2. Place(q.head, i - 1) # e /\ Place(q.head, i - 1) \in Slot /\ i \in 1..n
      <3>1. i - 1 \in Slot /\ n - 1 \in Slot /\ i - 1 # n - 1 /\ i \in 1..n
        <4> HIDE DEF n
        <4> QED BY <1>1, SlotsAre
      <3>2. \A k, j \in Slot : k # j => Place(q.head, k) # Place(q.head, j)
        BY <1>1, QueueRing
      <3> HIDE DEF n
      <3>3. Place(q.head, i - 1) # e
        BY <3>1, <3>2, <1>2
      <3>4. Place(q.head, i - 1) \in Slot
        BY <3>1, <1>1, PlaceIs
      <3> QED BY <3>1, <3>3, <3>4
    <2>3. r.data[Place(q.head, i - 1)] = q.data[Place(q.head, i - 1)]
      BY <2>2, <1>3, <1>1
    <2> QED BY <2>1, <2>2, <2>3, ItemsAre
  <1>6. Items(q) \in Seq(V) /\ Items(r) \in Seq(V) /\ Len(Items(r)) = n - 1
    BY <1>3, <1>4, ItemsAre
  <1>7. \A i \in 1..(n - 1) : Items(r)[i] = IF i < n THEN Items(q)[i] ELSE Items(q)[i + 1]
    BY <1>5, <1>1
  <1>8. n \in 1..Len(Items(q))
    BY <1>1
  <1> HIDE DEF n, V
  <1>9. RemoveAt(Items(q), n) = Items(r)
    BY <1>1, <1>6, <1>7, <1>8, RemovedAt
  <1> QED BY <1>3, <1>9 DEF n
-----------------------------------------------------------------------------
(* The theorems about the queue.                                           *)

LEMMA QueueTypeStep ==
    ASSUME QueueTypeOK, [Next]_vars
    PROVE  QueueTypeOK'
  <1> DEFINE V == Value \cup {Gone}
  <1>1. queue \in QueueType /\ queue.head \in Slot /\ queue.tail \in Slot /\ queue.data \in [Slot -> V]
    BY QueueTypeIs DEF QueueType
  <1>2. \A p \in Slot : Inc(p) \in Slot /\ Dec(p) \in Slot
    BY StepIs
  <1> SUFFICES queue' \in QueueType
    BY DEF QueueTypeOK, QueueType
  <1>3. ASSUME NEW v \in Value, PushFront(v) PROVE queue' \in QueueType
    BY <1>1, <1>2, <1>3 DEF PushFront, QueueType
  <1>4. ASSUME NEW v \in Value, PushBack(v) PROVE queue' \in QueueType
    BY <1>1, <1>2, <1>4 DEF PushBack, QueueType
  <1>5. CASE PopFront
    BY <1>1, <1>2, <1>5 DEF PopFront, QueueType
  <1>6. CASE PopBack
    BY <1>1, <1>2, <1>6 DEF PopBack, QueueType
  <1>7. CASE UNCHANGED vars
    BY <1>1, <1>7 DEF vars
  <1> QED BY <1>3, <1>4, <1>5, <1>6, <1>7 DEF Next

LEMMA QueueTypeBegins == Init => QueueTypeOK
  <1>1. 0 \in Slot
    BY SlotsAre
  <1> QED BY <1>1 DEF Init, QueueTypeOK

\* The queue stays a queue: head and tail stay on the ring (Inc and Dec of
\* queue.hpp), whatever the width of the size type.
THEOREM QueueKeepsItsType == Spec => []QueueTypeOK
  <1>1. Init => QueueTypeOK
    BY QueueTypeBegins
  <1>2. QueueTypeOK /\ [Next]_vars => QueueTypeOK'
    BY QueueTypeStep
  <1> QED BY <1>1, <1>2, PTL DEF Spec

LEMMA DequeStep ==
    ASSUME QueueFits, QueueTypeOK, [Next]_vars
    PROVE  [Held!Next]_<<Items(queue), did>>
  <1> DEFINE V == Value \cup {Gone}
             s == Items(queue)
  <1>1. queue \in QueueType
    BY QueueTypeIs
  <1>2. s \in Seq(V) /\ Len(s) = Size(queue) /\ Size(queue) \in Slot
    BY <1>1, ItemsAre, SizeIs
  <1>3. /\ IsEmpty(queue) <=> s = <<>>
        /\ IsFull(queue) <=> Size(queue) = Capacity
    BY <1>1, EmptyIs
  <1>4. (Len(s) < Capacity) = ~IsFull(queue)
    <2>1. Len(s) < Capacity <=> ~IsFull(queue)
      BY <1>2, <1>3, SlotsAre
    <2> QED BY <2>1
  <1>5. (s # <<>>) = ~IsEmpty(queue)
    BY <1>3
  <1> HIDE DEF s
  <1>6. ASSUME NEW v \in Value, PushFront(v) PROVE Held!PushFront(v)
    <2>1. did' = <<"PushFront", v, 1, Len(s) < Capacity>>
      BY <1>4, <1>6 DEF PushFront
    <2>2. Items(queue)' = IF Len(s) < Capacity THEN InsertAt(s, 1, v) ELSE s
      <3>1. CASE IsFull(queue)
        BY <3>1, <1>4, <1>6 DEF PushFront, s
      <3>2. CASE ~IsFull(queue)
        <4>1. queue' = [queue EXCEPT !.data[BeforeBegin(queue)] = v, !.head = Dec(@)]
          BY <3>2, <1>6 DEF PushFront
        <4>2. Items(queue') = InsertAt(Items(queue), 1, v)
          BY <4>1, <3>2, <1>1, PushFrontItems
        <4> QED BY <4>2, <3>2, <1>4 DEF s
      <3> QED BY <3>1, <3>2
    <2> QED BY <2>1, <2>2 DEF Held!PushFront, Held!Put, Held!InsertAt, InsertAt, s
  <1>7. ASSUME NEW v \in Value, PushBack(v) PROVE Held!PushBack(v)
    <2>1. did' = <<"PushBack", v, Len(s) + 1, Len(s) < Capacity>>
      BY <1>2, <1>4, <1>7 DEF PushBack
    <2>2. Items(queue)' = IF Len(s) < Capacity THEN InsertAt(s, Len(s) + 1, v) ELSE s
      <3>1. CASE IsFull(queue)
        BY <3>1, <1>4, <1>7 DEF PushBack, s
      <3>2. CASE ~IsFull(queue)
        <4>1. queue' = [queue EXCEPT !.data[End(queue)] = v, !.tail = Inc(@)]
          BY <3>2, <1>7 DEF PushBack
        <4>2. Items(queue') = InsertAt(Items(queue), Size(queue) + 1, v)
          BY <4>1, <3>2, <1>1, PushBackItems
        <4> QED BY <4>2, <3>2, <1>2, <1>4 DEF s
      <3> QED BY <3>1, <3>2
    <2> QED BY <2>1, <2>2 DEF Held!PushBack, Held!Put, Held!InsertAt, InsertAt, s
  <1>8. ASSUME PopFront PROVE Held!PopFront
    <2>1. did' = <<"PopFront", 1, s # <<>> >>
      BY <1>5, <1>8 DEF PopFront
    <2>2. Items(queue)' = IF s = <<>> THEN <<>> ELSE RemoveAt(s, 1)
      <3>1. CASE IsEmpty(queue)
        BY <3>1, <1>3, <1>8 DEF PopFront, s
      <3>2. CASE ~IsEmpty(queue)
        <4>1. queue' = [queue EXCEPT !.data[Begin(queue)] = Gone, !.head = Inc(@)]
          BY <3>2, <1>8 DEF PopFront
        <4>2. Items(queue') = RemoveAt(Items(queue), 1)
          BY <4>1, <3>2, <1>1, PopFrontItems
        <4> QED BY <4>2, <3>2, <1>3 DEF s
      <3> QED BY <3>1, <3>2
    <2> QED BY <2>1, <2>2 DEF Held!PopFront, Held!Take, Held!RemoveAt, RemoveAt, s
  <1>9. ASSUME PopBack PROVE Held!PopBack
    <2>1. did' = <<"PopBack", Len(s), s # <<>> >>
      BY <1>2, <1>5, <1>9 DEF PopBack
    <2>2. Items(queue)' = IF s = <<>> THEN <<>> ELSE RemoveAt(s, Len(s))
      <3>1. CASE IsEmpty(queue)
        BY <3>1, <1>3, <1>9 DEF PopBack, s
      <3>2. CASE ~IsEmpty(queue)
        <4>1. queue' = [queue EXCEPT !.data[GetBack(queue)] = Gone, !.tail = Dec(@)]
          BY <3>2, <1>9 DEF PopBack
        <4>2. Items(queue') = RemoveAt(Items(queue), Size(queue))
          BY <4>1, <3>2, <1>1, PopBackItems
        <4> QED BY <4>2, <3>2, <1>2, <1>3 DEF s
      <3> QED BY <3>1, <3>2
    <2> QED BY <2>1, <2>2 DEF Held!PopBack, Held!Take, Held!RemoveAt, RemoveAt, s
  <1>10. ASSUME UNCHANGED vars PROVE UNCHANGED <<Items(queue), did>>
    BY <1>10 DEF vars
  <1> QED BY <1>6, <1>7, <1>8, <1>9, <1>10 DEF Next, Held!Next

\* The queue is a sequence of up to Capacity values, and every call tells the
\* truth about it (queue.hpp), as long as a wrap of the size type does not show.
THEOREM QueueIsASequence == ASSUME QueueFits PROVE Spec => QueueIsDeque
  <1>1. Init => Held!Init
    <2> SUFFICES ASSUME Init PROVE Held!Init
      OBVIOUS
    <2>1. 0 \in Slot
      BY SlotsAre
    <2>2. queue \in QueueType /\ IsEmpty(queue)
      BY <2>1 DEF Init, QueueType, IsEmpty
    <2>3. Items(queue) = <<>>
      BY <2>2, EmptyIs
    <2> QED BY <2>3 DEF Init, Held!Init
  <1>2. QueueTypeOK /\ [Next]_vars => [Held!Next]_<<Items(queue), did>>
    BY DequeStep
  <1> QED BY <1>1, <1>2, QueueKeepsItsType, PTL DEF Spec, QueueIsDeque, Held!Spec

-----------------------------------------------------------------------------
(* The links of the list: two rings, given by what stands where in them.   *)

ListType ==
    [next : [Pos -> Pos], prev : [Pos -> Pos], use : [Pos -> BOOLEAN],
     data : [Pos -> Item], head : Pos, empty : Pos, size : 0..ListNodes]

RingOf(l, g, n) ==
    /\ Order(g, n, Pos)
    /\ \A i \in 1..n : l.next[g[i]] = IF i = n THEN g[1] ELSE g[i + 1]
    /\ \A i \in 1..n : l.prev[g[i]] = IF i = 1 THEN g[n] ELSE g[i - 1]

LEMMA ListFacts ==
    ListNodes \in Nat \ {0} /\ Pos = 0..ListNodes /\ ENDPOS \in Pos /\ ENDPOS = 0
  BY ListAssumption DEF Pos, ENDPOS

-----------------------------------------------------------------------------
(* What linking a node does to a ring.                                     *)

Linked(l, m) ==
    /\ m \in ListType
    /\ m.use = l.use /\ m.data = l.data /\ m.size = l.size
    /\ m.head = l.head /\ m.empty = l.empty

LEMMA LinkIs ==
    ASSUME NEW l \in ListType, NEW a \in Pos, NEW b \in Pos, NEW m, m = Link(l, a, b)
    PROVE  /\ Linked(l, m)
           /\ \A p \in Pos : /\ m.next[p] = IF p = a THEN b ELSE l.next[p]
                             /\ m.prev[p] = IF p = b THEN a ELSE l.prev[p]
  BY DEF Link, ListType, Linked

LEMMA LinkBeforeIs ==
    ASSUME NEW l \in ListType, NEW a \in Pos, NEW b \in Pos, a # b, NEW m, m = LinkBefore(l, a, b)
    PROVE  /\ Linked(l, m)
           /\ \A p \in Pos :
                /\ m.next[p] = IF p = a THEN b ELSE IF p = l.prev[b] THEN a ELSE l.next[p]
                /\ m.prev[p] = IF p = b THEN a ELSE IF p = a THEN l.prev[b] ELSE l.prev[p]
  <1> DEFINE c == l.prev[b]
             k == Link(l, c, a)
  <1>1. c \in Pos
    BY DEF ListType
  <1>2. m = Link(k, a, b)
    BY DEF LinkBefore
  <1> HIDE DEF c
  <1>3. /\ Linked(l, k)
        /\ \A p \in Pos : /\ k.next[p] = IF p = c THEN a ELSE l.next[p]
                          /\ k.prev[p] = IF p = a THEN c ELSE l.prev[p]
    BY <1>1, LinkIs
  <1>5. k \in ListType
    BY <1>3 DEF Linked
  <1> HIDE DEF k
  <1>4. /\ Linked(k, m)
        /\ \A p \in Pos : /\ m.next[p] = IF p = a THEN b ELSE k.next[p]
                          /\ m.prev[p] = IF p = b THEN a ELSE k.prev[p]
    BY <1>2, <1>5, LinkIs
  <1> QED BY <1>3, <1>4 DEF Linked, c

LEMMA UnlinkIs ==
    ASSUME NEW l \in ListType, NEW p \in Pos, NEW m, m = Unlink(l, p)
    PROVE  /\ Linked(l, m)
           /\ \A q \in Pos : /\ m.next[q] = IF q = l.prev[p] THEN l.next[p] ELSE l.next[q]
                             /\ m.prev[q] = IF q = l.next[p] THEN l.prev[p] ELSE l.prev[q]
  <1> DEFINE a == l.prev[p]
             b == l.next[p]
  <1>1. a \in Pos /\ b \in Pos /\ m = Link(l, a, b)
    BY DEF ListType, Unlink
  <1> HIDE DEF a, b
  <1>2. /\ Linked(l, m)
        /\ \A q \in Pos : /\ m.next[q] = IF q = a THEN b ELSE l.next[q]
                          /\ m.prev[q] = IF q = b THEN a ELSE l.prev[q]
    BY <1>1, LinkIs
  <1> QED BY <1>2 DEF a, b

\* A ring does not change where the links of its nodes stay.
LEMMA RingStays ==
    ASSUME NEW l, NEW m, NEW g, NEW n \in Nat, RingOf(l, g, n),
           \A p \in Nodes(g, n) : m.next[p] = l.next[p] /\ m.prev[p] = l.prev[p]
    PROVE  RingOf(m, g, n)
  <1>1. \A i \in 1..n : g[i] \in Nodes(g, n)
    BY DEF Nodes
  <1> QED BY <1>1 DEF RingOf

\* A node at place c of a ring.
LEMMA RingPut ==
    ASSUME NEW l \in ListType, NEW g, NEW n \in Nat \ {0}, RingOf(l, g, n),
           NEW c \in 2..(n + 1), NEW p \in Pos, p \notin Nodes(g, n), NEW m,
           m = LinkBefore(l, p, IF c = n + 1 THEN g[1] ELSE g[c])
    PROVE  RingOf(m, PutAt(g, n, c, p), n + 1)
  <1> DEFINE b == IF c = n + 1 THEN g[1] ELSE g[c]
             h == PutAt(g, n, c, p)
             M == 1..(n + 1)
  <1>1. /\ g \in [1..n -> Pos] /\ \A i, j \in 1..n : g[i] = g[j] => i = j
        /\ \A i \in 1..n : g[i] \in Pos /\ g[i] # p
        /\ 1 \in 1..n /\ n \in 1..n /\ c - 1 \in 1..n /\ (c # n + 1 => c \in 1..n)
    BY DEF RingOf, Order, Nodes
  <1>2. b \in Pos /\ b # p /\ l.prev[b] = g[c - 1]
    <2>1. CASE c = n + 1
      BY <2>1, <1>1 DEF RingOf
    <2>2. CASE c # n + 1
      BY <2>2, <1>1 DEF RingOf
    <2> QED BY <2>1, <2>2
  <1>3. \A q \in Pos :
           /\ m.next[q] = IF q = p THEN b ELSE IF q = g[c - 1] THEN p ELSE l.next[q]
           /\ m.prev[q] = IF q = b THEN p ELSE IF q = p THEN g[c - 1] ELSE l.prev[q]
    BY <1>2, LinkBeforeIs
  <1>4. Order(h, n + 1, Pos)
    <2>1. n \in Nat /\ c \in 1..(n + 1) /\ Order(g, n, Pos)
      BY DEF RingOf
    <2>2. Order(PutAt(g, n, c, p), n + 1, Pos)
      BY <2>1, PutAtIs
    <2> QED BY <2>2
  <1>5. ASSUME NEW i \in M
        PROVE  /\ i < c => i \in 1..n /\ h[i] = g[i]
               /\ i = c => h[i] = p
               /\ i > c => i - 1 \in 1..n /\ h[i] = g[i - 1]
               /\ i < c \/ i = c \/ i > c
    BY DEF PutAt
  <1>6. h[1] = g[1] /\ 1 \in M /\ n + 1 \in M /\ c \in M /\ h[c] = p /\ h[c - 1] = g[c - 1] /\ c - 1 \in M
    <2>1. 1 \in M /\ 1 < c /\ c - 1 \in M /\ c - 1 < c /\ n + 1 \in M /\ c \in M
      OBVIOUS
    <2> HIDE DEF h
    <2> QED BY <2>1, <1>5
  <1> HIDE DEF h
  <1>7. ASSUME NEW i \in M PROVE m.next[h[i]] = IF i = n + 1 THEN h[1] ELSE h[i + 1]
    <2>1. CASE i = c
      <3>1. m.next[p] = b
        BY <1>3
      <3>2. CASE c = n + 1
        BY <3>1, <3>2, <2>1, <1>5, <1>6
      <3>3. CASE c # n + 1
        <4>1. c + 1 \in M /\ c + 1 > c /\ c + 1 - 1 = c
          BY <3>3
        <4>2. h[c + 1] = g[c]
          BY <4>1, <1>5
        <4> QED BY <4>2, <3>1, <3>3, <2>1, <1>5
      <3> QED BY <3>2, <3>3
    <2>2. CASE i = c - 1
      <3>1. i < c /\ i # n + 1 /\ i + 1 = c
        BY <2>2
      <3>2. m.next[g[i]] = p
        BY <2>2, <1>1, <1>3
      <3> QED BY <3>1, <3>2, <1>5, <1>6
    <2>3. CASE i < c - 1
      <3>1. i < c /\ i # n + 1 /\ i # n /\ i + 1 < c /\ i + 1 \in M
        BY <2>3
      <3>2. h[i] = g[i] /\ h[i + 1] = g[i + 1] /\ i \in 1..n
        BY <3>1, <1>5
      <3>3. g[i] # g[c - 1]
        BY <3>2, <2>3, <1>1
      <3>4. m.next[g[i]] = l.next[g[i]]
        BY <3>2, <3>3, <1>1, <1>3
      <3> QED BY <3>1, <3>2, <3>4 DEF RingOf
    <2>4. CASE i > c
      <3>1. h[i] = g[i - 1] /\ i - 1 \in 1..n /\ i - 1 # c - 1
        BY <2>4, <1>5
      <3>2. m.next[g[i - 1]] = l.next[g[i - 1]]
        BY <3>1, <1>1, <1>3
      <3>3. CASE i = n + 1
        <4>1. i - 1 = n
          BY <3>3
        <4> QED BY <4>1, <3>1, <3>2, <3>3, <1>6 DEF RingOf
      <3>4. CASE i # n + 1
        <4>1. i - 1 # n /\ i + 1 \in M /\ i + 1 > c /\ i + 1 - 1 = i /\ i - 1 + 1 = i
          BY <3>4, <2>4
        <4>2. h[i + 1] = g[i]
          BY <4>1, <1>5
        <4>3. l.next[g[i - 1]] = g[i]
          BY <4>1, <3>1 DEF RingOf
        <4> QED BY <4>2, <4>3, <3>1, <3>2, <3>4
      <3> QED BY <3>3, <3>4
    <2>5. i = c \/ i = c - 1 \/ i < c - 1 \/ i > c
      OBVIOUS
    <2> QED BY <2>1, <2>2, <2>3, <2>4, <2>5
  <1>8. ASSUME NEW i \in M PROVE m.prev[h[i]] = IF i = 1 THEN h[n + 1] ELSE h[i - 1]
    <2>1. CASE i = c
      <3>1. m.prev[p] = g[c - 1] /\ i # 1
        BY <2>1, <1>2, <1>3
      <3> QED BY <3>1, <2>1, <1>6
    <2>2. CASE i < c
      <3>1. h[i] = g[i] /\ i \in 1..n
        BY <2>2, <1>5
      <3>2. CASE i = 1
        <4>1. CASE c = n + 1
          <5>1. m.prev[g[1]] = p
            BY <4>1, <1>1, <1>3
          <5> QED BY <5>1, <4>1, <3>1, <3>2, <1>6
        <4>2. CASE c # n + 1
          <5>1. g[1] # b /\ n + 1 > c
            BY <4>2, <1>1
          <5>2. m.prev[g[1]] = l.prev[g[1]]
            BY <5>1, <1>1, <1>3
          <5>3. h[n + 1] = g[n]
            <6>1. n + 1 - 1 = n
              OBVIOUS
            <6> QED BY <6>1, <5>1, <1>5, <1>6
          <5> QED BY <5>2, <5>3, <3>1, <3>2 DEF RingOf
        <4> QED BY <4>1, <4>2
      <3>3. CASE i # 1
        <4>1. i - 1 \in M /\ i - 1 < c
          BY <3>3, <2>2
        <4>2. h[i - 1] = g[i - 1]
          BY <4>1, <1>5
        <4>3. g[i] # b
          <5>1. c = n + 1 => b = g[1]
            OBVIOUS
          <5>2. c # n + 1 => b = g[c]
            OBVIOUS
          <5> HIDE DEF b
          <5>3. CASE c = n + 1
            BY <5>1, <5>3, <3>1, <3>3, <1>1
          <5>4. CASE c # n + 1
            <6>1. i # c
              BY <2>2
            <6> QED BY <6>1, <5>2, <5>4, <3>1, <1>1
          <5> QED BY <5>3, <5>4
        <4>4. m.prev[g[i]] = l.prev[g[i]]
          <5> HIDE DEF b
          <5> QED BY <4>3, <3>1, <1>1, <1>3
        <4> QED BY <4>2, <4>4, <3>1, <3>3 DEF RingOf
      <3> QED BY <3>2, <3>3
    <2>3. CASE i > c
      <3>1. h[i] = g[i - 1] /\ i - 1 \in 1..n /\ i # 1 /\ c # n + 1 /\ b = g[c] /\ i - 1 # 1
        BY <2>3, <1>5
      <3>2. CASE i = c + 1
        <4>1. m.prev[b] = p /\ i - 1 = c
          BY <3>2, <1>2, <1>3
        <4> QED BY <4>1, <3>1, <1>6
      <3>3. CASE i # c + 1
        <4>1. i - 1 \in M /\ i - 1 > c /\ i - 1 # c
          BY <3>3, <2>3
        <4>2. h[i - 1] = g[i - 1 - 1]
          BY <4>1, <1>5
        <4>3. g[i - 1] # b
          BY <4>1, <3>1, <1>1
        <4>4. m.prev[g[i - 1]] = l.prev[g[i - 1]]
          <5> HIDE DEF b
          <5> QED BY <4>3, <3>1, <1>1, <1>3
        <4>5. l.prev[g[i - 1]] = g[i - 1 - 1]
          BY <3>1 DEF RingOf
        <4> QED BY <4>2, <4>4, <4>5, <3>1
      <3> QED BY <3>2, <3>3
    <2> QED BY <2>1, <2>2, <2>3, <1>5
  <1> QED BY <1>4, <1>7, <1>8 DEF RingOf, h

\* A ring without what was at place c.
LEMMA RingCut ==
    ASSUME NEW l \in ListType, NEW g, NEW n \in Nat \ {0}, n # 1, RingOf(l, g, n),
           NEW c \in 1..n, NEW m, m = Unlink(l, g[c])
    PROVE  RingOf(m, CutAt(g, n, c), n - 1)
  <1> DEFINE before == IF c = 1 THEN n ELSE c - 1
             after == IF c = n THEN 1 ELSE c + 1
             h == CutAt(g, n, c)
             M == 1..(n - 1)
  <1>1. /\ g \in [1..n -> Pos] /\ \A i, j \in 1..n : g[i] = g[j] => i = j
        /\ \A i \in 1..n : g[i] \in Pos
        /\ before \in 1..n /\ after \in 1..n
    BY DEF RingOf, Order
  <1>2. l.prev[g[c]] = g[before] /\ l.next[g[c]] = g[after]
    BY DEF RingOf
  <1>3. \A q \in Pos : /\ m.next[q] = IF q = g[before] THEN g[after] ELSE l.next[q]
                      /\ m.prev[q] = IF q = g[after] THEN g[before] ELSE l.prev[q]
    <2>1. g[c] \in Pos
      BY <1>1
    <2> HIDE DEF before, after
    <2> QED BY <2>1, <1>2, UnlinkIs
  <1>4. \A i \in 1..n : /\ m.next[g[i]] = IF i = before THEN g[after] ELSE l.next[g[i]]
                       /\ m.prev[g[i]] = IF i = after THEN g[before] ELSE l.prev[g[i]]
    <2> HIDE DEF before, after
    <2> QED BY <1>1, <1>3
  <1>5. Order(h, n - 1, Pos)
    BY CutAtIs DEF RingOf
  <1>6. ASSUME NEW i \in M
        PROVE  /\ i < c => i \in 1..n /\ h[i] = g[i]
               /\ i >= c => i + 1 \in 1..n /\ h[i] = g[i + 1]
               /\ i < c \/ i >= c
    BY DEF CutAt
  <1>7. 1 \in M /\ n - 1 \in M
    OBVIOUS
  <1> HIDE DEF h
  <1>8. ASSUME NEW i \in M PROVE m.next[h[i]] = IF i = n - 1 THEN h[1] ELSE h[i + 1]
    <2>1. CASE i < c
      <3>1. h[i] = g[i] /\ i \in 1..n /\ i # n /\ l.next[g[i]] = g[i + 1]
        BY <2>1, <1>6 DEF RingOf
      <3>2. CASE i = before
        <4>1. c = i + 1
          BY <3>2, <2>1
        <4>2. m.next[g[i]] = g[after]
          BY <3>1, <3>2, <1>4
        <4>3. CASE i = n - 1
          <5>1. after = 1 /\ 1 < c
            BY <4>1, <4>3
          <5>2. h[1] = g[1]
            BY <5>1, <1>6, <1>7
          <5> QED BY <5>1, <5>2, <4>2, <4>3, <3>1
        <4>4. CASE i # n - 1
          <5>1. after = i + 1 + 1 /\ i + 1 \in M /\ i + 1 >= c
            BY <4>1, <4>4
          <5>2. h[i + 1] = g[i + 1 + 1]
            BY <5>1, <1>6
          <5> QED BY <5>1, <5>2, <4>2, <4>4, <3>1
        <4> QED BY <4>3, <4>4
      <3>3. CASE i # before
        <4>1. m.next[g[i]] = g[i + 1]
          <5> HIDE DEF before, after
          <5> QED BY <3>1, <3>3, <1>4
        <4>2. CASE i = n - 1
          <5>1. c = n
            BY <4>2, <2>1
          <5> QED BY <5>1, <4>2, <3>3
        <4>3. CASE i # n - 1
          <5>1. i + 1 \in M
            BY <4>3
          <5>2. CASE i + 1 < c
            BY <5>1, <5>2, <4>1, <4>3, <3>1, <1>6
          <5>3. CASE i + 1 >= c
            BY <5>3, <2>1, <3>3
          <5> QED BY <5>1, <5>2, <5>3, <1>6
        <4> QED BY <4>2, <4>3
      <3> QED BY <3>2, <3>3
    <2>2. CASE i >= c
      <3>1. h[i] = g[i + 1] /\ i + 1 \in 1..n
        BY <2>2, <1>6
      <3>2. CASE i + 1 = before
        <4>1. c = 1 /\ i = n - 1 /\ after = 2
          BY <3>2, <2>2
        <4>2. h[1] = g[2]
          <5>1. 1 >= c
            BY <4>1
          <5> QED BY <5>1, <1>6, <1>7
        <4> QED BY <4>1, <4>2, <3>1, <3>2, <1>4
      <3>3. CASE i + 1 # before
        <4>1. m.next[g[i + 1]] = l.next[g[i + 1]]
          <5> HIDE DEF before, after
          <5> QED BY <3>1, <3>3, <1>4
        <4>2. CASE i = n - 1
          <5>1. i + 1 = n /\ c # 1 /\ 1 < c
            BY <4>2, <3>3
          <5>2. h[1] = g[1]
            BY <5>1, <1>6, <1>7
          <5> QED BY <5>1, <5>2, <4>1, <4>2, <3>1 DEF RingOf
        <4>3. CASE i # n - 1
          <5>1. i + 1 # n /\ i + 1 \in M /\ i + 1 >= c
            BY <4>3, <2>2
          <5>2. h[i + 1] = g[i + 1 + 1]
            BY <5>1, <1>6
          <5> QED BY <5>1, <5>2, <4>1, <4>3, <3>1 DEF RingOf
        <4> QED BY <4>2, <4>3
      <3> QED BY <3>2, <3>3
    <2> QED BY <2>1, <2>2, <1>6
  <1>9. ASSUME NEW i \in M PROVE m.prev[h[i]] = IF i = 1 THEN h[n - 1] ELSE h[i - 1]
    <2>1. CASE i < c
      <3>1. h[i] = g[i] /\ i \in 1..n
        BY <2>1, <1>6
      <3>2. CASE i = after
        <4>1. i = 1 /\ c = n /\ before = n - 1 /\ n - 1 < c
          BY <3>2, <2>1
        <4>2. h[n - 1] = g[n - 1]
          BY <4>1, <1>6, <1>7
        <4> QED BY <4>1, <4>2, <3>1, <3>2, <1>4
      <3>3. CASE i # after
        <4>1. m.prev[g[i]] = l.prev[g[i]]
          <5> HIDE DEF before, after
          <5> QED BY <3>1, <3>3, <1>4
        <4>2. CASE i = 1
          <5>1. n - 1 >= c /\ n - 1 + 1 = n
            BY <4>2, <3>3
          <5>2. h[n - 1] = g[n]
            BY <5>1, <1>6, <1>7
          <5> QED BY <5>2, <4>1, <4>2, <3>1 DEF RingOf
        <4>3. CASE i # 1
          <5>1. i - 1 \in M /\ i - 1 < c
            BY <4>3, <2>1
          <5>2. h[i - 1] = g[i - 1]
            BY <5>1, <1>6
          <5> QED BY <5>2, <4>1, <4>3, <3>1 DEF RingOf
        <4> QED BY <4>2, <4>3
      <3> QED BY <3>2, <3>3
    <2>2. CASE i >= c
      <3>1. h[i] = g[i + 1] /\ i + 1 \in 1..n /\ i + 1 # 1 /\ i + 1 - 1 = i
        BY <2>2, <1>6
      <3>2. CASE i + 1 = after
        <4>1. i = c /\ c # n
          BY <3>2, <2>2
        <4>2. m.prev[g[i + 1]] = g[before]
          <5> HIDE DEF before, after
          <5> QED BY <3>1, <3>2, <1>4
        <4>3. CASE i = 1
          <5>1. before = n /\ n - 1 >= c /\ n - 1 + 1 = n
            BY <4>1, <4>3
          <5>2. h[n - 1] = g[n]
            BY <5>1, <1>6, <1>7
          <5> QED BY <5>1, <5>2, <4>2, <4>3, <3>1
        <4>4. CASE i # 1
          <5>1. before = i - 1 /\ i - 1 \in M /\ i - 1 < c
            BY <4>1, <4>4
          <5>2. h[i - 1] = g[i - 1]
            BY <5>1, <1>6
          <5> QED BY <5>1, <5>2, <4>2, <4>4, <3>1
        <4> QED BY <4>3, <4>4
      <3>3. CASE i + 1 # after
        <4>1. m.prev[g[i + 1]] = g[i]
          <5>1. m.prev[g[i + 1]] = l.prev[g[i + 1]]
            <6> HIDE DEF before, after
            <6> QED BY <3>1, <3>3, <1>4
          <5>2. l.prev[g[i + 1]] = g[i + 1 - 1]
            BY <3>1 DEF RingOf
          <5> QED BY <5>1, <5>2, <3>1
        <4>2. i > c
          BY <3>3, <2>2
        <4>3. i # 1 /\ i - 1 \in M /\ i - 1 >= c /\ i - 1 + 1 = i
          BY <4>2
        <4>4. h[i - 1] = g[i]
          BY <4>3, <1>6
        <4> QED BY <4>1, <4>3, <4>4, <3>1
      <3> QED BY <3>2, <3>3
    <2> QED BY <2>1, <2>2, <1>6
  <1> QED BY <1>5, <1>8, <1>9 DEF RingOf, h

\* A ring has no first node.
LEMMA RingTurned ==
    ASSUME NEW l, NEW g, NEW n \in Nat \ {0}, RingOf(l, g, n),
           NEW h, h = [i \in 1..n |-> IF i = 1 THEN g[n] ELSE g[i - 1]]
    PROVE  RingOf(l, h, n)
  <1>1. /\ g \in [1..n -> Pos] /\ \A i, j \in 1..n : g[i] = g[j] => i = j
        /\ 1 \in 1..n /\ n \in 1..n
    BY DEF RingOf, Order
  <1>2. \A i \in 1..n : h[i] = IF i = 1 THEN g[n] ELSE g[i - 1]
    OBVIOUS
  <1>3. \A i \in 1..n : i # 1 => i - 1 \in 1..n /\ i - 1 # n
    OBVIOUS
  <1>4. Order(h, n, Pos)
    <2>1. h \in [1..n -> Pos]
      BY <1>1, <1>3
    <2>2. ASSUME NEW i \in 1..n, NEW j \in 1..n, h[i] = h[j] PROVE i = j
      <3>1. CASE i = 1 /\ j = 1
        BY <3>1
      <3>2. CASE i = 1 /\ j # 1
        BY <3>2, <2>2, <1>1, <1>2, <1>3
      <3>3. CASE i # 1 /\ j = 1
        BY <3>3, <2>2, <1>1, <1>2, <1>3
      <3>4. CASE i # 1 /\ j # 1
        <4>1. i - 1 = j - 1
          BY <3>4, <2>2, <1>1, <1>2, <1>3
        <4> QED BY <4>1
      <3> QED BY <3>1, <3>2, <3>3, <3>4
    <2> QED BY <2>1, <2>2 DEF Order
  <1>5. ASSUME NEW i \in 1..n PROVE l.next[h[i]] = IF i = n THEN h[1] ELSE h[i + 1]
    <2>1. CASE i = n /\ i = 1
      <3>1. h[i] = g[n] /\ h[1] = g[n] /\ l.next[g[n]] = g[1]
        BY <2>1, <1>1, <1>2 DEF RingOf
      <3> QED BY <3>1, <2>1
    <2>2. CASE i = n /\ i # 1
      <3>1. h[i] = g[n - 1] /\ h[1] = g[n] /\ n - 1 \in 1..n /\ n - 1 # n /\ n - 1 + 1 = n
        BY <2>2, <1>1, <1>2, <1>3
      <3>2. l.next[g[n - 1]] = g[n]
        BY <3>1 DEF RingOf
      <3> QED BY <3>1, <3>2, <2>2
    <2>3. CASE i # n
      <3>1. i + 1 \in 1..n /\ i + 1 # 1 /\ i + 1 - 1 = i
        BY <2>3
      <3>2. h[i + 1] = g[i]
        BY <3>1, <1>2
      <3>3. CASE i = 1
        BY <3>2, <3>3, <2>3, <1>1, <1>2 DEF RingOf
      <3>4. CASE i # 1
        <4>1. i - 1 \in 1..n /\ i - 1 # n /\ i - 1 + 1 = i /\ h[i] = g[i - 1]
          BY <3>4, <1>2, <1>3
        <4>2. l.next[g[i - 1]] = g[i]
          BY <4>1 DEF RingOf
        <4> QED BY <4>1, <4>2, <3>2, <2>3
      <3> QED BY <3>3, <3>4
    <2> QED BY <2>1, <2>2, <2>3
  <1>6. ASSUME NEW i \in 1..n PROVE l.prev[h[i]] = IF i = 1 THEN h[n] ELSE h[i - 1]
    <2>1. CASE i = 1
      <3>1. h[1] = g[n] /\ l.prev[g[n]] = IF n = 1 THEN g[n] ELSE g[n - 1]
        BY <1>1, <1>2 DEF RingOf
      <3>2. h[n] = IF n = 1 THEN g[n] ELSE g[n - 1]
        BY <1>1, <1>2
      <3> QED BY <3>1, <3>2, <2>1
    <2>2. CASE i # 1
      <3>1. i - 1 \in 1..n /\ h[i] = g[i - 1] /\ h[i - 1] = IF i - 1 = 1 THEN g[n] ELSE g[i - 1 - 1]
        BY <2>2, <1>2, <1>3
      <3>2. l.prev[g[i - 1]] = IF i - 1 = 1 THEN g[n] ELSE g[i - 1 - 1]
        BY <3>1 DEF RingOf
      <3> QED BY <3>1, <3>2, <2>2
    <2> QED BY <2>1, <2>2
  <1> QED BY <1>4, <1>5, <1>6 DEF RingOf

\* A node before the first of a ring.
LEMMA RingPutFirst ==
    ASSUME NEW l \in ListType, NEW g, NEW n \in Nat \ {0}, RingOf(l, g, n),
           NEW p \in Pos, p \notin Nodes(g, n), NEW m, m = LinkBefore(l, p, g[1])
    PROVE  RingOf(m, PutAt(g, n, 1, p), n + 1)
  <1> DEFINE k == PutAt(g, n, n + 1, p)
             h == PutAt(g, n, 1, p)
             t == [i \in 1..(n + 1) |-> IF i = 1 THEN k[n + 1] ELSE k[i - 1]]
  <1>1. RingOf(m, k, n + 1)
    <2>1. n + 1 \in 2..(n + 1) /\ m = LinkBefore(l, p, IF n + 1 = n + 1 THEN g[1] ELSE g[n + 1])
      OBVIOUS
    <2> QED BY <2>1, RingPut
  <1>2. ASSUME NEW i \in 1..(n + 1) PROVE h[i] = IF i = 1 THEN k[n + 1] ELSE k[i - 1]
    <2>1. k[n + 1] = p
      <3>1. n + 1 \in 1..(n + 1) /\ ~(n + 1 < n + 1)
        OBVIOUS
      <3> QED BY <3>1 DEF PutAt
    <2>2. i # 1 => k[i - 1] = g[i - 1]
      <3>1. i # 1 => i - 1 \in 1..(n + 1) /\ i - 1 < n + 1
        OBVIOUS
      <3> QED BY <3>1 DEF PutAt
    <2>3. h[i] = IF i = 1 THEN p ELSE g[i - 1]
      <3>1. ~(i < 1)
        OBVIOUS
      <3> QED BY <3>1 DEF PutAt
    <2> HIDE DEF h, k
    <2> QED BY <2>1, <2>2, <2>3
  <1>3. h = t
    <2>1. h = [i \in 1..(n + 1) |-> h[i]]
      BY DEF PutAt
    <2> HIDE DEF h, k
    <2> QED BY <2>1, <1>2
  <1> HIDE DEF h, k
  <1>4. n + 1 \in Nat \ {0}
    OBVIOUS
  <1> QED BY <1>1, <1>3, <1>4, RingTurned DEF h
-----------------------------------------------------------------------------
(* The two rings of a list: g has the elements and, last, the mark of the  *)
(* end; f has the unused nodes.                                            *)

Rings(l, g, f) ==
    /\ l \in ListType
    /\ RingOf(l, g, l.size + 1) /\ l.head = g[1]
    /\ RingOf(l, f, ListNodes - l.size)
    /\ l.empty = IF l.size = ListNodes THEN ENDPOS ELSE f[1]
    /\ Nodes(g, l.size + 1) \cap Nodes(f, ListNodes - l.size) = {}
    /\ Nodes(g, l.size + 1) \cup Nodes(f, ListNodes - l.size) = Pos
    /\ \A i \in 1..l.size : g[i] # ENDPOS /\ l.use[g[i]]
    /\ \A p \in Nodes(f, ListNodes - l.size) : ~l.use[p]

\* An unused node is put into the other ring.
LEMMA NewNodeRings ==
    ASSUME NEW l, NEW g, NEW f, Rings(l, g, f), l.size # ListNodes, ~EndFirst(l),
           NEW c \in 1..(l.size + 1), NEW v \in Item, NEW m,
           m = ListNewNodeAndInsert(l, g[c], v)
    PROVE  /\ Rings(m, PutAt(g, l.size + 1, c, f[1]), CutAt(f, ListNodes - l.size, 1))
           /\ m.size = l.size + 1 /\ m.data = [l.data EXCEPT ![f[1]] = v]
           /\ m.use[ENDPOS] => l.use[ENDPOS]
           /\ f[1] \in Pos /\ f[1] \notin Nodes(g, l.size + 1)
  <1> DEFINE n == l.size + 1
             u == ListNodes - l.size
             p == f[1]
             b == g[c]
             h == PutAt(g, n, c, p)
             k == CutAt(f, u, 1)
             rest == IF l.next[p] = p THEN [l EXCEPT !.empty = ENDPOS]
                     ELSE [Unlink(l, p) EXCEPT !.empty = l.next[p]]
             linked == LinkBefore(rest, p, b)
  <1>1. /\ l \in ListType /\ l.size \in 0..(ListNodes - 1) /\ ListNodes \in Nat \ {0}
        /\ n \in Nat \ {0} /\ u \in Nat \ {0} /\ n = l.size + 1 /\ u = ListNodes - l.size
        /\ l.empty = p /\ p # ENDPOS
    <2>1. /\ l \in ListType /\ l.size \in 0..ListNodes /\ ListNodes \in Nat \ {0}
          /\ l.empty = IF l.size = ListNodes THEN ENDPOS ELSE f[1]
      BY ListFacts DEF Rings, ListType
    <2> HIDE DEF b, h, k, rest, linked
    <2>2. l.empty # ENDPOS
      BY DEF EndFirst
    <2> QED BY <2>1, <2>2
  <1>2. /\ RingOf(l, g, n) /\ RingOf(l, f, u) /\ l.head = g[1]
        /\ Nodes(g, n) \cap Nodes(f, u) = {} /\ Nodes(g, n) \cup Nodes(f, u) = Pos
        /\ \A i \in 1..l.size : g[i] # ENDPOS /\ l.use[g[i]]
        /\ \A q \in Nodes(f, u) : ~l.use[q]
    BY DEF Rings
  <1>3. c \in 1..n /\ m = ListNewNodeAndInsert(l, b, v)
    BY <1>1
  <1>4. /\ g \in [1..n -> Pos] /\ f \in [1..u -> Pos] /\ 1 \in 1..n /\ 1 \in 1..u /\ u \in 1..u
        /\ \A i, j \in 1..n : g[i] = g[j] => i = j
        /\ \A i, j \in 1..u : f[i] = f[j] => i = j
    BY <1>1, <1>2 DEF RingOf, Order
  <1> HIDE DEF n, u
  <1>5. p \in Nodes(f, u) /\ p \in Pos /\ p \notin Nodes(g, n) /\ p # ENDPOS
    <2>1. p \in Nodes(f, u)
      BY <1>4 DEF Nodes
    <2> QED BY <2>1, <1>1, <1>2
  <1>6. b \in Nodes(g, n) /\ b \in Pos /\ b # p
    <2>1. b \in Nodes(g, n)
      BY <1>3 DEF Nodes
    <2> QED BY <2>1, <1>2, <1>5
  <1>7. ASSUME NEW q \in Nodes(g, n) PROVE l.prev[q] \in Nodes(g, n)
    <2>1. PICK i \in 1..n : q = g[i]
      BY DEF Nodes
    <2>2. l.prev[q] = IF i = 1 THEN g[n] ELSE g[i - 1]
      BY <2>1, <1>2 DEF RingOf
    <2>3. (IF i = 1 THEN n ELSE i - 1) \in 1..n
      BY <1>1
    <2> QED BY <2>2, <2>3 DEF Nodes
  <1> HIDE DEF b
  <1>8. /\ rest \in ListType /\ RingOf(rest, g, n) /\ RingOf(rest, k, u - 1)
        /\ rest.use = l.use /\ rest.data = l.data /\ rest.size = l.size /\ rest.head = l.head
        /\ rest.empty = IF u = 1 THEN ENDPOS ELSE k[1]
        /\ \A q \in Nodes(g, n) : rest.prev[q] = l.prev[q]
    <2>1. l.next[p] = IF u = 1 THEN f[1] ELSE f[1 + 1]
      BY <1>2, <1>4 DEF RingOf
    <2>2. CASE u = 1
      <3>1. rest = [l EXCEPT !.empty = ENDPOS]
        BY <2>1, <2>2
      <3>2. /\ rest \in ListType /\ rest.next = l.next /\ rest.prev = l.prev /\ rest.use = l.use
            /\ rest.data = l.data /\ rest.size = l.size /\ rest.head = l.head /\ rest.empty = ENDPOS
        BY <3>1, <1>1, ListFacts, ZenonT(30) DEF ListType
      <3> HIDE DEF rest
      <3>3. RingOf(rest, g, n)
        BY <3>2, <1>1, <1>2, RingStays
      <3>4. Order(k, u - 1, Pos)
        BY <1>1, <1>2, <1>4, CutAtIs DEF RingOf
      <3>5. RingOf(rest, k, u - 1)
        BY <2>2, <3>4 DEF RingOf
      <3> QED BY <2>2, <3>2, <3>3, <3>5
    <2>3. CASE u # 1
      <3> DEFINE w == Unlink(l, p)
      <3>1. 1 + 1 \in 1..u /\ f[1 + 1] # p
        BY <2>3, <1>1, <1>4
      <3>2. rest = [w EXCEPT !.empty = l.next[p]]
        BY <2>1, <2>3, <3>1
      <3>3. /\ Linked(l, w)
            /\ \A q \in Pos : /\ w.next[q] = IF q = l.prev[p] THEN l.next[p] ELSE l.next[q]
                              /\ w.prev[q] = IF q = l.next[p] THEN l.prev[p] ELSE l.prev[q]
        BY <1>1, <1>5, UnlinkIs
      <3>4. RingOf(w, k, u - 1)
        BY <2>3, <1>1, <1>2, <1>4, RingCut
      <3> HIDE DEF w
      <3> DEFINE x == f[1 + 1]
      <3>11. rest = [w EXCEPT !.empty = x] /\ x \in Pos
        BY <2>1, <2>3, <3>1, <3>2, <1>4
      <3> HIDE DEF x, rest
      <3>5. /\ rest \in ListType /\ rest.next = w.next /\ rest.prev = w.prev /\ rest.use = l.use
            /\ rest.data = l.data /\ rest.size = l.size /\ rest.head = l.head /\ rest.empty = x
        BY <3>3, <3>11 DEF ListType, Linked
      <3>6. l.prev[p] \in Nodes(f, u) /\ l.next[p] \in Nodes(f, u)
        <4>1. l.prev[p] = f[u]
          BY <1>2, <1>4 DEF RingOf
        <4> QED BY <4>1, <2>1, <2>3, <3>1, <1>4 DEF Nodes
      <3>7. ASSUME NEW q \in Nodes(g, n) PROVE rest.next[q] = l.next[q] /\ rest.prev[q] = l.prev[q]
        <4>1. q \in Pos /\ q \notin Nodes(f, u)
          BY <1>2
        <4> QED BY <4>1, <3>3, <3>5, <3>6
      <3>8. RingOf(rest, g, n)
        BY <3>7, <1>1, <1>2, RingStays
      <3>9. RingOf(rest, k, u - 1)
        BY <3>4, <3>5 DEF RingOf
      <3>10. k[1] = f[1 + 1]
        <4>1. 1 \in 1..(u - 1) /\ ~(1 < 1)
          BY <2>3, <1>1
        <4> QED BY <4>1 DEF CutAt
      <3> QED BY <2>3, <3>5, <3>7, <3>8, <3>9, <3>10 DEF x
    <2> QED BY <2>2, <2>3
  <1> HIDE DEF rest
  <1>9. /\ Linked(rest, linked)
        /\ \A q \in Pos :
             /\ linked.next[q] = IF q = p THEN b ELSE IF q = rest.prev[b] THEN p ELSE rest.next[q]
             /\ linked.prev[q] = IF q = b THEN p ELSE IF q = p THEN rest.prev[b] ELSE rest.prev[q]
    BY <1>5, <1>6, <1>8, LinkBeforeIs
  <1>10. RingOf(linked, h, n + 1)
    <2>1. CASE c = 1
      BY <2>1, <1>1, <1>5, <1>8, RingPutFirst DEF b
    <2>2. CASE c # 1
      <3>1. c \in 2..(n + 1) /\ linked = LinkBefore(rest, p, IF c = n + 1 THEN g[1] ELSE g[c])
        BY <2>2, <1>1, <1>3 DEF b
      <3> HIDE DEF linked
      <3> QED BY <3>1, <1>1, <1>5, <1>8, RingPut
    <2> QED BY <2>1, <2>2
  <1>11. Order(k, u - 1, Pos) /\ Nodes(k, u - 1) = Nodes(f, u) \ {p}
    <2>1. Order(f, u, Pos) /\ 1 \in 1..u /\ u \in Nat \ {0}
      BY <1>1, <1>2, <1>4 DEF RingOf
    <2>2. Order(CutAt(f, u, 1), u - 1, Pos)
      BY <2>1, CutAtIs
    <2>3. Nodes(CutAt(f, u, 1), u - 1) = Nodes(f, u) \ {f[1]}
      BY <2>1, CutAtIs
    <2> QED BY <2>2, <2>3
  <1>12. Order(h, n + 1, Pos) /\ Nodes(h, n + 1) = Nodes(g, n) \cup {p}
    <2>1. n \in Nat /\ c \in 1..(n + 1)
      BY <1>1, <1>3
    <2>2. Order(g, n, Pos)
      BY <1>2 DEF RingOf
    <2> HIDE DEF p
    <2>3. Order(PutAt(g, n, c, p), n + 1, Pos)
      BY <2>1, <2>2, <1>5, PutAtIs
    <2>4. Nodes(PutAt(g, n, c, p), n + 1) = Nodes(g, n) \cup {p}
      BY <2>1, <2>2, <2>3, <1>5, PutAtIs
    <2> QED BY <2>3, <2>4
  <1> HIDE DEF linked
  <1>13. RingOf(linked, k, u - 1)
    <2>1. ASSUME NEW q \in Nodes(k, u - 1) PROVE linked.next[q] = rest.next[q] /\ linked.prev[q] = rest.prev[q]
      <3>1. q \in Pos /\ q # p /\ q \notin Nodes(g, n)
        BY <1>2, <1>11
      <3>2. rest.prev[b] \in Nodes(g, n) /\ b \in Nodes(g, n)
        BY <1>6, <1>7, <1>8
      <3> QED BY <3>1, <3>2, <1>9
    <2>2. u - 1 \in Nat
      BY <1>1
    <2> QED BY <2>1, <2>2, <1>8, RingStays
  <1>14. m = [linked EXCEPT !.size = @ + 1, !.use[p] = TRUE, !.data[p] = v,
                            !.head = IF @ \in {b, ENDPOS} THEN p ELSE @]
    BY <1>1, <1>3 DEF ListNewNodeAndInsert, linked, rest
  <1>15. /\ linked \in ListType /\ linked.use = l.use /\ linked.data = l.data /\ linked.size = l.size
         /\ linked.head = l.head /\ linked.empty = IF u = 1 THEN ENDPOS ELSE k[1]
    BY <1>8, <1>9 DEF Linked
  <1>16. /\ m.next = linked.next /\ m.prev = linked.prev /\ m.size = l.size + 1
         /\ m.use = [l.use EXCEPT ![p] = TRUE] /\ m.data = [l.data EXCEPT ![p] = v]
         /\ m.head = (IF l.head \in {b, ENDPOS} THEN p ELSE l.head)
         /\ m.empty = linked.empty /\ m \in ListType
    <2> DEFINE hd == IF l.head \in {b, ENDPOS} THEN p ELSE l.head
    <2>1. l.size + 1 \in 0..ListNodes /\ hd \in Pos
      BY <1>1, <1>5 DEF ListType
    <2>2. m = [linked EXCEPT !.size = l.size + 1, !.use[p] = TRUE, !.data[p] = v, !.head = hd]
      BY <1>14, <1>15
    <2> HIDE DEF hd, p, h, k
    <2>3. m.next = linked.next /\ m.prev = linked.prev /\ m.empty = linked.empty
          /\ m.size = l.size + 1 /\ m.head = hd
      BY <2>2, <1>15 DEF ListType
    <2>4. m.use = [linked.use EXCEPT ![p] = TRUE] /\ m.data = [linked.data EXCEPT ![p] = v]
      BY <2>1, <2>2, <1>5, <1>15 DEF ListType
    <2>5. m \in ListType
      <3> DEFINE us == [linked.use EXCEPT ![p] = TRUE]
                 da == [linked.data EXCEPT ![p] = v]
      <3>1. us \in [Pos -> BOOLEAN] /\ da \in [Pos -> Item]
        BY <1>5, <1>15 DEF ListType
      <3>2. m = [next |-> linked.next, prev |-> linked.prev, use |-> us,
                 data |-> da, head |-> hd, empty |-> linked.empty, size |-> l.size + 1]
        BY <2>2, <1>15 DEF ListType
      <3>3. linked.next \in [Pos -> Pos] /\ linked.prev \in [Pos -> Pos] /\ linked.empty \in Pos
        BY <1>15 DEF ListType
      <3> HIDE DEF us, da
      <3> QED BY <3>1, <3>2, <3>3, <2>1 DEF ListType
    <2> QED BY <2>3, <2>4, <2>5, <1>15 DEF hd
  <1>17. ASSUME NEW i \in 1..(n + 1)
         PROVE  h[i] = IF i < c THEN g[i] ELSE IF i = c THEN p ELSE g[i - 1]
    BY DEF PutAt
  <1> HIDE DEF h, k, p
  <1>18. m.head = h[1]
    <2>1. 1 \in 1..(n + 1) /\ (c # 1 => 1 < c) /\ (c = 1 => ~(1 < c))
      BY <1>1, <1>3
    <2>2. CASE c = 1
      BY <2>1, <2>2, <1>2, <1>16, <1>17 DEF b
    <2>3. CASE c # 1
      <3>1. g[1] # b /\ 1 \in 1..l.size
        BY <2>3, <1>1, <1>3, <1>4 DEF b
      <3> QED BY <2>1, <2>3, <3>1, <1>2, <1>16, <1>17
    <2> QED BY <2>2, <2>3
  <1>19. m.size + 1 = n + 1 /\ ListNodes - m.size = u - 1
    BY <1>1, <1>16
  <1>20. m.empty = IF m.size = ListNodes THEN ENDPOS ELSE k[1]
    <2>1. m.size = ListNodes <=> u = 1
      BY <1>1, <1>16
    <2> QED BY <2>1, <1>15, <1>16
  <1>21. RingOf(m, h, n + 1) /\ RingOf(m, k, u - 1)
    BY <1>10, <1>13, <1>16 DEF RingOf
  <1>22. ASSUME NEW i \in 1..n PROVE h[i] # ENDPOS /\ m.use[h[i]]
    <2>1. i \in 1..(n + 1) /\ (i < c => i \in 1..l.size) /\ (i > c => i - 1 \in 1..l.size)
          /\ (i < c \/ i = c \/ i > c) /\ (i > c => ~(i < c) /\ i # c)
      BY <1>1, <1>3
    <2>2. m.use[p] /\ \A q \in Pos : l.use[q] => m.use[q]
      BY <1>1, <1>5, <1>16 DEF ListType
    <2>3. ASSUME NEW j \in 1..l.size PROVE g[j] \in Pos
      <3>1. j \in 1..n
        BY <1>1
      <3> QED BY <3>1, <1>4
    <2>4. CASE i < c
      BY <2>1, <2>2, <2>3, <2>4, <1>2, <1>17
    <2>5. CASE i = c
      <3>1. h[i] = p
        BY <2>1, <2>5, <1>1, <1>3, <1>17
      <3> QED BY <3>1, <2>2, <1>5
    <2>6. CASE i > c
      <3>1. h[i] = g[i - 1] /\ i - 1 \in 1..l.size
        BY <2>1, <2>6, <1>17
      <3> QED BY <3>1, <2>2, <2>3, <1>2
    <2> QED BY <2>1, <2>4, <2>5, <2>6
  <1>25. \A q \in Nodes(k, u - 1) : ~m.use[q]
    <2>1. ASSUME NEW q \in Nodes(k, u - 1) PROVE ~m.use[q]
      <3>1. q \in Nodes(f, u) /\ q # p /\ q \in Pos
        BY <1>2, <1>11
      <3> QED BY <3>1, <1>1, <1>2, <1>5, <1>16 DEF ListType
    <2> QED BY <2>1
  <1>23. Nodes(h, n + 1) \cap Nodes(k, u - 1) = {} /\ Nodes(h, n + 1) \cup Nodes(k, u - 1) = Pos
    BY <1>2, <1>5, <1>11, <1>12
  <1>24. Rings(m, h, k)
    <2>1. m.size = n - 1 + 1 /\ 1..m.size = 1..n
      BY <1>1, <1>16
    <2> QED BY <2>1, <1>16, <1>18, <1>19, <1>20, <1>21, <1>22, <1>23, <1>25 DEF Rings
  <1>26. m.use[ENDPOS] => l.use[ENDPOS]
    <2>1. l.use \in [Pos -> BOOLEAN] /\ ENDPOS \in Pos
      BY <1>1, ListFacts DEF ListType
    <2>2. p # ENDPOS /\ m.use = [l.use EXCEPT ![p] = TRUE]
      BY <1>5, <1>16
    <2> QED BY ONLY <2>1, <2>2
  <1> QED BY <1>5, <1>16, <1>24, <1>26 DEF h, k, p, n, u

\* And an element comes back as the last of the unused nodes.
LEMMA FreeNodeRings ==
    ASSUME NEW l, NEW g, NEW f, Rings(l, g, f), l.size # 0, ~EndFirst(l),
           NEW c \in 1..(l.size + 1), NEW m, m = FreeNode(l, g[c])
    PROVE  /\ Rings(m, CutAt(g, l.size + 1, c),
                    PutAt(f, ListNodes - l.size, ListNodes - l.size + 1, g[c]))
           /\ m.size = l.size - 1 /\ m.data = l.data
           /\ m.use[ENDPOS] => l.use[ENDPOS]
  <1> DEFINE n == l.size + 1
             u == ListNodes - l.size
             p == g[c]
             h == CutAt(g, n, c)
             k == PutAt(f, u, u + 1, p)
             w == Unlink(l, p)
             hd == IF l.head = p THEN l.next[p] ELSE l.head
             us == [l.use EXCEPT ![p] = FALSE]
             out == [w EXCEPT !.use[p] = FALSE, !.size = @ - 1,
                              !.head = IF @ = p THEN l.next[p] ELSE @]
  <1>1. /\ l \in ListType /\ l.size \in 1..ListNodes /\ ListNodes \in Nat \ {0}
        /\ n \in Nat \ {0, 1} /\ u \in Nat /\ n = l.size + 1 /\ u = ListNodes - l.size
    <2>1. l \in ListType /\ l.size \in 0..ListNodes /\ ListNodes \in Nat \ {0}
      BY ListFacts DEF Rings, ListType
    <2> HIDE DEF p, h, k, w, hd, us, out
    <2> QED BY <2>1
  <1>2. /\ RingOf(l, g, n) /\ RingOf(l, f, u) /\ l.head = g[1]
        /\ Nodes(g, n) \cap Nodes(f, u) = {} /\ Nodes(g, n) \cup Nodes(f, u) = Pos
        /\ \A i \in 1..l.size : g[i] # ENDPOS /\ l.use[g[i]]
        /\ \A q \in Nodes(f, u) : ~l.use[q]
        /\ l.empty = (IF l.size = ListNodes THEN ENDPOS ELSE f[1])
        /\ l.size # ListNodes => l.empty # ENDPOS
    BY DEF Rings, EndFirst
  <1>3. /\ g \in [1..n -> Pos] /\ f \in [1..u -> Pos] /\ Order(g, n, Pos) /\ Order(f, u, Pos)
        /\ \A i, j \in 1..n : g[i] = g[j] => i = j
        /\ \A i, j \in 1..u : f[i] = f[j] => i = j
    BY <1>2 DEF RingOf, Order
  <1>4. c \in 1..n /\ 1 \in 1..n /\ 2 \in 1..n /\ n \in 1..n
    BY <1>1
  <1> HIDE DEF n, u
  <1>5. p \in Nodes(g, n) /\ p \in Pos /\ p \notin Nodes(f, u)
    <2>1. p \in Nodes(g, n)
      BY <1>3, <1>4 DEF Nodes
    <2> QED BY <2>1, <1>2
  <1>6. /\ Linked(l, w)
        /\ \A q \in Pos : /\ w.next[q] = IF q = l.prev[p] THEN l.next[p] ELSE l.next[q]
                          /\ w.prev[q] = IF q = l.next[p] THEN l.prev[p] ELSE l.prev[q]
    BY <1>1, <1>5, UnlinkIs
  <1>7. RingOf(w, h, n - 1)
    BY <1>1, <1>2, <1>4, RingCut
  <1>8. Order(h, n - 1, Pos) /\ Nodes(h, n - 1) = Nodes(g, n) \ {p}
    <2>1. Order(CutAt(g, n, c), n - 1, Pos)
      BY <1>1, <1>3, <1>4, CutAtIs
    <2>2. Nodes(CutAt(g, n, c), n - 1) = Nodes(g, n) \ {g[c]}
      BY <2>1, <1>1, <1>3, <1>4, CutAtIs
    <2> QED BY <2>1, <2>2
  <1>9. Order(k, u + 1, Pos) /\ Nodes(k, u + 1) = Nodes(f, u) \cup {p}
    <2> HIDE DEF p
    <2>1. u + 1 \in 1..(u + 1)
      BY <1>1
    <2>2. Order(PutAt(f, u, u + 1, p), u + 1, Pos)
      BY <2>1, <1>1, <1>3, <1>5, PutAtIs
    <2>3. Nodes(PutAt(f, u, u + 1, p), u + 1) = Nodes(f, u) \cup {p}
      BY <2>1, <2>2, <1>1, <1>3, <1>5, PutAtIs
    <2> QED BY <2>2, <2>3
  <1>10. l.next[p] = (IF c = n THEN g[1] ELSE g[c + 1])
         /\ l.next[p] \in Nodes(g, n) /\ l.prev[p] \in Nodes(g, n)
    <2>1. l.next[p] = (IF c = n THEN g[1] ELSE g[c + 1]) /\ l.prev[p] = IF c = 1 THEN g[n] ELSE g[c - 1]
      BY <1>2, <1>4 DEF RingOf
    <2>2. (IF c = n THEN 1 ELSE c + 1) \in 1..n /\ (IF c = 1 THEN n ELSE c - 1) \in 1..n
      BY <1>1, <1>4
    <2> QED BY <2>1, <2>2 DEF Nodes
  <1>11. FreeNode(l, p) = IF out.empty = ENDPOS THEN [Link(out, p, p) EXCEPT !.empty = p]
                          ELSE LinkBefore(out, p, out.empty)
    BY DEF FreeNode
  <1>12. ASSUME NEW i \in 1..(n - 1) PROVE h[i] = IF i < c THEN g[i] ELSE g[i + 1]
    BY DEF CutAt
  <1>13. hd = h[1]
    <2>1. 1 \in 1..(n - 1) /\ (c = 1 => ~(1 < c) /\ c # n) /\ (c # 1 => 1 < c)
      BY <1>1, <1>4
    <2>2. CASE c = 1
      <3>1. l.head = p /\ l.next[p] = g[1 + 1]
        BY <2>1, <2>2, <1>2, <1>10
      <3> HIDE DEF h, p
      <3> QED BY <2>1, <2>2, <3>1, <1>12
    <2>3. CASE c # 1
      <3>1. l.head # p
        BY <2>3, <1>2, <1>3, <1>4
      <3> HIDE DEF h, p
      <3> QED BY <2>1, <2>3, <3>1, <1>2, <1>12
    <2> QED BY <2>2, <2>3
  <1>14. hd \in Pos
    BY <1>1, <1>5 DEF ListType
  <1> HIDE DEF hd, h, k, p, w
  <1>15. /\ out \in ListType /\ out.next = w.next /\ out.prev = w.prev /\ out.use = us
         /\ out.data = l.data /\ out.head = hd /\ out.empty = l.empty /\ out.size = l.size - 1
    <2>1. l.size - 1 \in 0..ListNodes /\ us \in [Pos -> BOOLEAN]
      BY <1>1, <1>5 DEF ListType
    <2>2. /\ w \in ListType /\ w.use = l.use /\ w.data = l.data /\ w.size = l.size /\ w.head = l.head
          /\ w.empty = l.empty
      BY <1>6 DEF Linked
    <2>3. out = [w EXCEPT !.use[p] = FALSE, !.size = l.size - 1, !.head = hd]
      BY <2>2 DEF hd
    <2>4. out = [next |-> w.next, prev |-> w.prev, use |-> us, data |-> w.data, head |-> hd,
                 empty |-> w.empty, size |-> l.size - 1]
      <3> HIDE DEF out
      <3> QED BY <2>2, <2>3 DEF ListType
    <2>5. w.next \in [Pos -> Pos] /\ w.prev \in [Pos -> Pos] /\ w.data \in [Pos -> Item] /\ w.empty \in Pos
      BY <2>2 DEF ListType
    <2> HIDE DEF us, out
    <2>6. out \in ListType
      BY <2>1, <2>4, <2>5, <1>14 DEF ListType
    <2> QED BY <2>2, <2>4, <2>6
  <1> HIDE DEF out
  <1>16. RingOf(out, h, n - 1)
    BY <1>7, <1>15 DEF RingOf
  <1>17. RingOf(out, f, u)
    <2>1. ASSUME NEW q \in Nodes(f, u) PROVE out.next[q] = l.next[q] /\ out.prev[q] = l.prev[q]
      <3>1. q \in Pos /\ q \notin Nodes(g, n)
        BY <1>2
      <3> QED BY <3>1, <1>6, <1>10, <1>15
    <2> QED BY <2>1, <1>1, <1>2, RingStays
  <1>18. /\ m.next \in [Pos -> Pos] /\ m.prev \in [Pos -> Pos] /\ m \in ListType
         /\ m.use = us /\ m.data = l.data /\ m.size = l.size - 1 /\ m.head = hd
         /\ m.empty = k[1]
         /\ RingOf(m, h, n - 1) /\ RingOf(m, k, u + 1)
    <2>1. CASE u = 0
      <3> DEFINE x == Link(out, p, p)
      <3>1. out.empty = ENDPOS
        BY <2>1, <1>1, <1>2, <1>15
      <3>2. m = [x EXCEPT !.empty = p]
        BY <3>1, <1>11 DEF p
      <3>3. /\ Linked(out, x)
            /\ \A q \in Pos : /\ x.next[q] = IF q = p THEN p ELSE out.next[q]
                              /\ x.prev[q] = IF q = p THEN p ELSE out.prev[q]
        BY <1>5, <1>15, LinkIs
      <3> HIDE DEF x
      <3>4. /\ m \in ListType /\ m.next = x.next /\ m.prev = x.prev /\ m.use = out.use /\ m.data = out.data
            /\ m.size = out.size /\ m.head = out.head /\ m.empty = p
        BY <3>2, <3>3, <1>5 DEF ListType, Linked
      <3>5. k[1] = p
        <4>1. 1 \in 1..(u + 1) /\ 1 = u + 1 /\ ~(1 < 1)
          BY <2>1
        <4> QED BY <4>1 DEF k, PutAt
      <3>6. RingOf(m, k, u + 1)
        <4>1. \A i \in 1..(u + 1) : i = 1 /\ i = u + 1
          BY <2>1
        <4>2. m.next[p] = p /\ m.prev[p] = p
          BY <3>3, <3>4, <1>5
        <4> QED BY <4>1, <4>2, <3>5, <1>9 DEF RingOf
      <3>7. RingOf(m, h, n - 1)
        <4>1. ASSUME NEW q \in Nodes(h, n - 1) PROVE m.next[q] = out.next[q] /\ m.prev[q] = out.prev[q]
          BY <1>2, <1>8, <3>3, <3>4
        <4>2. n - 1 \in Nat
          BY <1>1
        <4> QED BY <4>1, <4>2, <1>16, RingStays
      <3> QED BY <3>4, <3>5, <3>6, <3>7, <1>15 DEF ListType
    <2>2. CASE u # 0
      <3>1. 1 \in 1..u /\ u \in Nat \ {0} /\ u \in 1..u
        BY <2>2, <1>1
      <3>2. out.empty = f[1] /\ f[1] \in Nodes(f, u) /\ f[1] \in Pos /\ f[1] # ENDPOS /\ f[1] # p
        <4>1. l.empty = f[1]
          BY <2>2, <1>1, <1>2
        <4>2. f[1] \in Nodes(f, u) /\ l.size # ListNodes
          BY <2>2, <3>1, <1>1 DEF Nodes
        <4> QED BY <4>1, <4>2, <1>2, <1>5, <1>15
      <3>3. m = LinkBefore(out, p, f[1])
        BY <3>2, <1>11 DEF p
      <3>4. /\ Linked(out, m)
            /\ \A q \in Pos :
                 /\ m.next[q] = IF q = p THEN f[1] ELSE IF q = out.prev[f[1]] THEN p ELSE out.next[q]
                 /\ m.prev[q] = IF q = f[1] THEN p ELSE IF q = p THEN out.prev[f[1]] ELSE out.prev[q]
        BY <3>2, <3>3, <1>5, <1>15, LinkBeforeIs
      <3>5. RingOf(m, k, u + 1)
        <4>1. u + 1 \in 2..(u + 1) /\ m = LinkBefore(out, p, IF u + 1 = u + 1 THEN f[1] ELSE f[u + 1])
          BY <3>1, <3>3
        <4>2. RingOf(m, PutAt(f, u, u + 1, p), u + 1)
          BY <4>1, <3>1, <1>5, <1>15, <1>17, RingPut
        <4> QED BY <4>2 DEF k
      <3>6. out.prev[f[1]] \in Nodes(f, u)
        <4>1. out.prev[f[1]] = f[u]
          BY <3>1, <1>17 DEF RingOf
        <4> QED BY <4>1, <3>1 DEF Nodes
      <3>7. RingOf(m, h, n - 1)
        <4>1. ASSUME NEW q \in Nodes(h, n - 1) PROVE m.next[q] = out.next[q] /\ m.prev[q] = out.prev[q]
          <5>1. q \in Pos /\ q # p /\ q \notin Nodes(f, u)
            BY <1>2, <1>8
          <5> QED BY <5>1, <3>2, <3>4, <3>6
        <4>2. n - 1 \in Nat
          BY <1>1
        <4> QED BY <4>1, <4>2, <1>16, RingStays
      <3>8. k[1] = f[1]
        <4>1. 1 \in 1..(u + 1) /\ 1 < u + 1
          BY <3>1
        <4> QED BY <4>1 DEF k, PutAt
      <3> QED BY <3>2, <3>4, <3>5, <3>7, <3>8, <1>15 DEF Linked, ListType
    <2> QED BY <2>1, <2>2
  <1>19. m.size + 1 = n - 1 /\ ListNodes - m.size = u + 1 /\ m.size # ListNodes
    BY <1>1, <1>18
  <1>20. ASSUME NEW i \in 1..m.size PROVE h[i] # ENDPOS /\ m.use[h[i]]
    <2>1. /\ i \in 1..(n - 1) /\ i \in 1..l.size /\ (i >= c => i + 1 \in 1..l.size /\ i + 1 \in 1..n)
          /\ i \in 1..n /\ (~(i < c) => i >= c) /\ (i < c => i # c) /\ (i >= c => i + 1 # c)
      BY <1>1, <1>4, <1>18
    <2>2. \A j \in 1..n : j # c => g[j] \in Pos /\ g[j] # p
      BY <1>3, <1>4 DEF p
    <2>3. \A q \in Pos : q # p => m.use[q] = l.use[q]
      BY <1>1, <1>5, <1>18 DEF ListType
    <2>4. CASE i < c
      BY <2>1, <2>2, <2>3, <2>4, <1>2, <1>12
    <2>5. CASE i >= c
      <3>1. h[i] = g[i + 1]
        BY <2>1, <2>5, <1>1, <1>12
      <3> QED BY <2>1, <2>2, <2>3, <2>5, <3>1, <1>2
    <2> QED BY <2>1, <2>4, <2>5
  <1>23. ASSUME NEW q \in Nodes(k, u + 1) PROVE ~m.use[q]
    <2>1. q \in Pos /\ (q = p \/ q \in Nodes(f, u))
      BY <1>2, <1>5, <1>9
    <2> QED BY <2>1, <1>1, <1>2, <1>5, <1>18 DEF ListType
  <1>21. Nodes(h, n - 1) \cap Nodes(k, u + 1) = {} /\ Nodes(h, n - 1) \cup Nodes(k, u + 1) = Pos
    BY <1>2, <1>5, <1>8, <1>9
  <1>22. Rings(m, h, k)
    BY <1>13, <1>18, <1>19, <1>20, <1>21, <1>23 DEF Rings
  <1>24. m.use[ENDPOS] => l.use[ENDPOS]
    <2>1. l.use \in [Pos -> BOOLEAN] /\ ENDPOS \in Pos
      BY <1>1, ListFacts DEF ListType
    <2>2. m.use = [l.use EXCEPT ![p] = FALSE]
      BY <1>18
    <2> HIDE DEF p
    <2> QED BY ONLY <2>1, <2>2
  <1> QED BY <1>18, <1>22, <1>24 DEF h, k, p, n, u
-----------------------------------------------------------------------------
(* What stands where in the rings.                                         *)

\* Walk goes along a way that follows the links.
LEMMA WalkIs ==
    ASSUME NEW l, NEW n \in Nat, NEW S, NEW w \in [1..n -> S],
           \A i \in 1..n : i # 1 => w[i] = l.next[w[i - 1]]
    PROVE  Walk(l, w[1], n) = w
  <1> DEFINE Way(f) == f = [i \in 1..n |-> IF i = 1 THEN w[1] ELSE l.next[f[i - 1]]]
             at == CHOOSE f : Way(f)
  <1>1. Way(w)
    <2>1. \A i \in 1..n : w[i] = IF i = 1 THEN w[1] ELSE l.next[w[i - 1]]
      OBVIOUS
    <2> QED BY <2>1
  <1>2. Way(at)
    BY <1>1
  <1>3. Walk(l, w[1], n) = [i \in 1..n |-> at[i]]
    BY DEF Walk
  <1> HIDE DEF at
  <1>4. \A i \in 1..n : at[i] = IF i = 1 THEN w[1] ELSE l.next[at[i - 1]]
    BY <1>2
  <1> DEFINE Apart == {i \in 1..n : at[i] # w[i]}
  <1>5. SUFFICES ASSUME Apart # {} PROVE FALSE
    <2>1. Apart = {} => \A i \in 1..n : at[i] = w[i]
      OBVIOUS
    <2> HIDE DEF Apart
    <2>2. (\A i \in 1..n : at[i] = w[i]) => [i \in 1..n |-> at[i]] = [i \in 1..n |-> w[i]]
      OBVIOUS
    <2> QED BY <2>1, <2>2, <1>3
  <1>6. PICK i \in Apart : \A j \in Apart : i <= j
    <2>1. Apart \subseteq Nat
      OBVIOUS
    <2> QED BY <2>1, <1>5, LeastExists
  <1>7. i \in 1..n /\ at[i] # w[i] /\ i # 1
    BY <1>4
  <1>8. i - 1 \in 1..n /\ i - 1 \notin Apart
    BY <1>6, <1>7
  <1>9. at[i - 1] = w[i - 1]
    BY <1>8
  <1> QED BY <1>4, <1>7, <1>9

LEMMA ElementsAre ==
    ASSUME NEW l, NEW g, NEW f, Rings(l, g, f)
    PROVE  /\ l.size \in 0..ListNodes /\ l.size \in Nat
           /\ ListElements(l) = [i \in 1..l.size |-> g[i]]
           /\ ListItems(l) \in Seq(Item) /\ Len(ListItems(l)) = l.size
           /\ \A i \in 1..l.size : ListItems(l)[i] = l.data[g[i]]
  <1> DEFINE n == l.size
             w == [i \in 1..n |-> g[i]]
  <1>1. n \in 0..ListNodes /\ n \in Nat /\ l.data \in [Pos -> Item]
    <2>1. n \in 0..ListNodes /\ l.data \in [Pos -> Item]
      BY DEF Rings, ListType
    <2> QED BY <2>1, ListFacts
  <1>2. RingOf(l, g, n + 1) /\ l.head = g[1]
    BY DEF Rings
  <1>3. g \in [1..(n + 1) -> Pos]
    BY <1>2 DEF RingOf, Order
  <1> HIDE DEF n
  <1>4. \A i \in 1..n : i \in 1..(n + 1)
    BY <1>1
  <1>5. ListElements(l) = w
    <2>1. CASE n = 0
      <3>1. 1..n = {}
        BY <2>1
      <3>2. Walk(l, l.head, n) = [i \in 1..n |-> g[i]]
        BY <3>1 DEF Walk
      <3> QED BY <3>2 DEF ListElements, n
    <2>2. CASE n # 0
      <3>1. w \in [1..n -> Pos] /\ w[1] = g[1]
        BY <1>1, <1>3, <1>4, <2>2
      <3>2. ASSUME NEW i \in 1..n, i # 1 PROVE w[i] = l.next[w[i - 1]]
        <4>1. i - 1 \in 1..(n + 1) /\ i - 1 # n + 1 /\ i - 1 \in 1..n /\ i - 1 + 1 = i
          BY <3>2, <1>1
        <4>2. l.next[g[i - 1]] = g[i]
          BY <4>1, <1>2 DEF RingOf
        <4> QED BY <4>1, <4>2
      <3> HIDE DEF w
      <3>3. Walk(l, w[1], n) = w
        <4> DEFINE T == 1..n
        <4>1. \A i \in T : i # 1 => w[i] = l.next[w[i - 1]]
          BY <3>2
        <4>2. T = 1..n
          OBVIOUS
        <4> HIDE DEF T
        <4> QED BY <4>1, <4>2, <3>1, <1>1, WalkIs, ZenonT(30)
      <3> QED BY <3>1, <3>3, <1>2 DEF ListElements, n
    <2> QED BY <2>1, <2>2
  <1>6. ListItems(l) = [i \in 1..n |-> l.data[g[i]]]
    BY <1>5 DEF ListItems, n
  <1>7. \A i \in 1..n : g[i] \in Pos /\ l.data[g[i]] \in Item
    BY <1>1, <1>3, <1>4
  <1>8. ListItems(l) \in Seq(Item) /\ Len(ListItems(l)) = n
    BY <1>1, <1>6, <1>7
  <1> QED BY <1>1, <1>5, <1>6, <1>8 DEF n

LEMMA UnusedAre ==
    ASSUME NEW l, NEW g, NEW f, Rings(l, g, f), ~EndFirst(l)
    PROVE  Unused(l) = IF l.size = ListNodes THEN <<>> ELSE f
  <1> DEFINE u == ListNodes - l.size
  <1>1. /\ u \in Nat /\ RingOf(l, f, u) /\ l.empty = (IF l.size = ListNodes THEN ENDPOS ELSE f[1])
        /\ l.size # ListNodes => l.empty # ENDPOS
    <2>1. l.size \in 0..ListNodes
      BY DEF Rings, ListType
    <2> QED BY <2>1, ListFacts DEF Rings, EndFirst
  <1>2. f \in [1..u -> Pos]
    BY <1>1 DEF RingOf, Order
  <1> HIDE DEF u
  <1>3. ASSUME NEW i \in 1..u, i # 1 PROVE f[i] = l.next[f[i - 1]]
    <2>1. i - 1 \in 1..u /\ i - 1 # u /\ i - 1 + 1 = i
      BY <1>1, <1>3
    <2> QED BY <2>1, <1>1 DEF RingOf
  <1>4. Walk(l, f[1], u) = f
    <2> DEFINE T == 1..u
    <2>1. \A i \in T : i # 1 => f[i] = l.next[f[i - 1]]
      BY <1>3
    <2>2. T = 1..u
      OBVIOUS
    <2> HIDE DEF T
    <2> QED BY <2>1, <2>2, <1>1, <1>2, WalkIs, ZenonT(30)
  <1>5. CASE l.size = ListNodes
    BY <1>1, <1>5 DEF Unused
  <1>6. CASE l.size # ListNodes
    <2>1. l.empty # ENDPOS /\ l.empty = f[1]
      BY <1>1, <1>6
    <2>2. Unused(l) = Walk(l, f[1], u)
      BY <2>1 DEF Unused, u
    <2> QED BY <2>2, <1>4, <1>6
  <1> QED BY <1>5, <1>6

\* The items of a list to which one was added, or from which one was taken.
LEMMA NewNodeItems ==
    ASSUME NEW l, NEW g, NEW f, Rings(l, g, f), l.size # ListNodes, ~EndFirst(l),
           NEW c \in 1..(l.size + 1), NEW v \in Item, NEW m,
           m = ListNewNodeAndInsert(l, g[c], v)
    PROVE  ListItems(m) = InsertAt(ListItems(l), c, v)
  <1> DEFINE n == l.size
             p == f[1]
             h == PutAt(g, n + 1, c, p)
             k == CutAt(f, ListNodes - n, 1)
  <1>1. /\ Rings(m, h, k) /\ m.size = n + 1 /\ m.data = [l.data EXCEPT ![p] = v]
        /\ p \in Pos /\ p \notin Nodes(g, n + 1)
    BY NewNodeRings
  <1>2. /\ n \in Nat /\ ListItems(l) \in Seq(Item) /\ Len(ListItems(l)) = n
        /\ \A i \in 1..n : ListItems(l)[i] = l.data[g[i]]
    BY ElementsAre
  <1>3. /\ ListItems(m) \in Seq(Item) /\ Len(ListItems(m)) = n + 1
        /\ \A i \in 1..(n + 1) : ListItems(m)[i] = m.data[h[i]]
    <2> HIDE DEF h, k
    <2>1. Rings(m, h, k)
      BY <1>1
    <2>2. /\ ListItems(m) \in Seq(Item) /\ Len(ListItems(m)) = m.size
          /\ \A i \in 1..m.size : ListItems(m)[i] = m.data[h[i]]
      BY ONLY <2>1, ElementsAre
    <2> QED BY <2>2, <1>1
  <1>4. l.data \in [Pos -> Item] /\ g \in [1..(n + 1) -> Pos]
    BY DEF Rings, ListType, RingOf, Order
  <1> HIDE DEF n
  <1>5. \A i \in 1..n : /\ i \in 1..(n + 1) /\ g[i] \in Pos /\ g[i] # p
                       /\ m.data[g[i]] = l.data[g[i]]
    <2>1. ASSUME NEW i \in 1..n
          PROVE  /\ i \in 1..(n + 1) /\ g[i] \in Pos /\ g[i] # p
                 /\ m.data[g[i]] = l.data[g[i]]
      <3> HIDE DEF p
      <3>1. i \in 1..(n + 1)
        BY <1>2
      <3>2. g[i] \in Pos /\ g[i] # p
        BY <3>1, <1>1, <1>4 DEF Nodes
      <3> QED BY <3>1, <3>2, <1>1, <1>4
    <2> QED BY <2>1
  <1>6. ASSUME NEW i \in 1..(n + 1)
        PROVE  ListItems(m)[i] = IF i < c THEN ListItems(l)[i] ELSE IF i = c THEN v ELSE ListItems(l)[i - 1]
    <2>1. i \in 1..(n + 1 + 1) /\ c \in 1..(n + 1)
      BY <1>2 DEF n
    <2>2. h[i] = IF i < c THEN g[i] ELSE IF i = c THEN p ELSE g[i - 1]
      BY <2>1 DEF PutAt
    <2> HIDE DEF h, p
    <2>3. CASE i < c
      <3>1. i \in 1..n
        BY <2>1, <2>3, <1>2
      <3>2. ListItems(m)[i] = m.data[g[i]]
        BY <2>2, <2>3, <1>3
      <3>3. ListItems(m)[i] = ListItems(l)[i]
        BY <3>1, <3>2, <1>2, <1>5
      <3> QED BY <3>3, <2>3
    <2>4. CASE i = c
      <3>1. ~(i < c)
        BY <2>1, <2>4
      <3>2. m.data[p] = v
        BY <1>1, <1>4
      <3> QED BY <2>2, <2>4, <3>1, <3>2, <1>3
    <2>5. CASE i > c
      <3>1. i - 1 \in 1..n /\ ~(i < c) /\ i # c
        BY <2>1, <2>5, <1>2
      <3>2. ListItems(m)[i] = m.data[g[i - 1]]
        BY <2>2, <3>1, <1>3
      <3>3. ListItems(m)[i] = ListItems(l)[i - 1]
        BY <3>1, <3>2, <1>2, <1>5
      <3> QED BY <3>1, <3>3
    <2>6. i < c \/ i = c \/ i > c
      BY <2>1
    <2> QED BY <2>3, <2>4, <2>5, <2>6
  <1>7. /\ c \in 1..(Len(ListItems(l)) + 1) /\ Len(ListItems(m)) = Len(ListItems(l)) + 1
        /\ \A i \in 1..Len(ListItems(m)) : ListItems(m)[i] =
              IF i < c THEN ListItems(l)[i] ELSE IF i = c THEN v ELSE ListItems(l)[i - 1]
    BY <1>2, <1>3, <1>6 DEF n
  <1>8. InsertAt(ListItems(l), c, v) = ListItems(m)
    BY <1>2, <1>3, <1>7, InsertedAt
  <1> QED BY <1>8

LEMMA FreeNodeItems ==
    ASSUME NEW l, NEW g, NEW f, Rings(l, g, f), l.size # 0, ~EndFirst(l),
           NEW c \in 1..(l.size + 1), NEW m, m = FreeNode(l, g[c])
    PROVE  ListItems(m) = RemoveAt(ListItems(l), IF c = l.size + 1 THEN l.size ELSE c)
  <1> DEFINE n == l.size
             d == IF c = n + 1 THEN n ELSE c
             h == CutAt(g, n + 1, c)
             k == PutAt(f, ListNodes - n, ListNodes - n + 1, g[c])
  <1>1. Rings(m, h, k) /\ m.size = n - 1 /\ m.data = l.data
    BY FreeNodeRings
  <1>2. /\ n \in Nat /\ ListItems(l) \in Seq(Item) /\ Len(ListItems(l)) = n
        /\ \A i \in 1..n : ListItems(l)[i] = l.data[g[i]]
    BY ElementsAre
  <1>3. /\ ListItems(m) \in Seq(Item) /\ Len(ListItems(m)) = n - 1
        /\ \A i \in 1..(n - 1) : ListItems(m)[i] = l.data[h[i]]
    <2> HIDE DEF h, k
    <2>1. /\ ListItems(m) \in Seq(Item) /\ Len(ListItems(m)) = m.size
          /\ \A i \in 1..m.size : ListItems(m)[i] = m.data[h[i]]
      BY <1>1, ElementsAre, SMTT(30)
    <2> QED BY <2>1, <1>1
  <1>4. d \in 1..n /\ c \in 1..(n + 1)
    BY <1>2
  <1>5. ASSUME NEW i \in 1..(n - 1)
        PROVE  ListItems(m)[i] = IF i < d THEN ListItems(l)[i] ELSE ListItems(l)[i + 1]
    <2>1. i \in 1..(n + 1 - 1) /\ i \in 1..n /\ i + 1 \in 1..n /\ (i < c <=> i < d)
      BY <1>2, <1>4
    <2> HIDE DEF n, d
    <2>2. h[i] = IF i < c THEN g[i] ELSE g[i + 1]
      <3> DEFINE q == n + 1
      <3>1. i \in 1..(q - 1)
        BY <2>1, <1>2
      <3>2. h = CutAt(g, q, c)
        OBVIOUS
      <3> HIDE DEF q, h
      <3> QED BY <3>1, <3>2 DEF CutAt
    <2> HIDE DEF h
    <2> QED BY <2>1, <2>2, <1>2, <1>3
  <1> HIDE DEF n, d, h, k
  <1>6. RemoveAt(ListItems(l), d) = ListItems(m)
    <2> DEFINE s == ListItems(l)
               t == ListItems(m)
    <2>1. s \in Seq(Item) /\ t \in Seq(Item) /\ d \in 1..Len(s) /\ Len(t) = Len(s) - 1
      BY <1>2, <1>3, <1>4
    <2>2. \A i \in 1..Len(t) : t[i] = IF i < d THEN s[i] ELSE s[i + 1]
      BY <1>3, <1>5
    <2> HIDE DEF s, t
    <2>3. RemoveAt(s, d) = t
      BY <2>1, <2>2, RemovedAt
    <2> QED BY <2>3 DEF s, t
  <1> QED BY <1>6 DEF n, d
-----------------------------------------------------------------------------
(* The theorems about the list.                                            *)

LEMMA ListTypeIs == ListTypeOK <=> list \in ListType /\ adrift \in BOOLEAN
  BY DEF ListTypeOK, ListType

LEMMA NewNodeType ==
    ASSUME NEW l \in ListType, NEW pos \in Pos, NEW v \in Item, l.size # ListNodes
    PROVE  ListNewNodeAndInsert(l, pos, v) \in ListType
  <1> DEFINE p == l.empty
             rest == IF l.next[p] = p THEN [l EXCEPT !.empty = ENDPOS]
                     ELSE [Unlink(l, p) EXCEPT !.empty = l.next[p]]
             k == Link(rest, rest.prev[pos], p)
             linked == Link(k, p, pos)
  <1>1. l.size \in 0..ListNodes /\ l.next \in [Pos -> Pos] /\ p \in Pos /\ l.next[p] \in Pos
    BY DEF ListType
  <1>2. rest \in ListType /\ rest.size = l.size
    <2>1. CASE l.next[p] = p
      BY <2>1, ListFacts DEF ListType
    <2>2. CASE l.next[p] # p
      <3> DEFINE w == Unlink(l, p)
      <3>1. w \in ListType /\ w.size = l.size
        <4>1. Linked(l, w)
          BY <1>1, UnlinkIs
        <4> HIDE DEF w
        <4> QED BY <4>1 DEF Linked
      <3> HIDE DEF w
      <3>2. [w EXCEPT !.empty = l.next[p]] \in ListType
        BY <3>1, <1>1 DEF ListType
      <3> QED BY <3>1, <3>2, <2>2 DEF w, ListType
    <2> QED BY <2>1, <2>2
  <1> HIDE DEF rest
  <1>3. k \in ListType /\ k.size = l.size
    <2>1. rest.prev[pos] \in Pos
      BY <1>2 DEF ListType
    <2>2. Linked(rest, k)
      BY <2>1, <1>1, <1>2, LinkIs
    <2> HIDE DEF k
    <2> QED BY <2>2, <1>2 DEF Linked
  <1> HIDE DEF k
  <1>4. linked \in ListType /\ linked.size = l.size
    <2>1. Linked(k, linked)
      BY <1>1, <1>3, LinkIs
    <2> HIDE DEF linked
    <2> QED BY <2>1, <1>3 DEF Linked
  <1>5. ListNewNodeAndInsert(l, pos, v) =
           [linked EXCEPT !.size = @ + 1, !.use[p] = TRUE, !.data[p] = v,
                          !.head = IF @ \in {pos, ENDPOS} THEN p ELSE @]
    BY DEF ListNewNodeAndInsert, LinkBefore, linked, k, rest
  <1> HIDE DEF linked, p
  <1> DEFINE hd == IF linked.head \in {pos, ENDPOS} THEN p ELSE linked.head
             us == [linked.use EXCEPT ![p] = TRUE]
             da == [linked.data EXCEPT ![p] = v]
             m == [linked EXCEPT !.size = @ + 1, !.use[p] = TRUE, !.data[p] = v,
                                 !.head = IF @ \in {pos, ENDPOS} THEN p ELSE @]
  <1>6. hd \in Pos /\ us \in [Pos -> BOOLEAN] /\ da \in [Pos -> Item] /\ l.size + 1 \in 0..ListNodes
    <2>1. linked.head \in Pos /\ linked.use \in [Pos -> BOOLEAN] /\ linked.data \in [Pos -> Item] /\ l.size \in 0..ListNodes
      BY <1>1, <1>4 DEF ListType
    <2>2. p \in Pos
      BY <1>1
    <2>3. hd \in Pos
      BY <2>1, <2>2
    <2>4. us \in [Pos -> BOOLEAN]
      BY <2>1
    <2>5. da \in [Pos -> Item]
      BY <2>1
    <2>6. l.size + 1 \in 0..ListNodes
      BY <2>1, ListFacts
    <2> QED BY <2>3, <2>4, <2>5, <2>6
  <1>7. m = [next |-> linked.next, prev |-> linked.prev, use |-> us, data |-> da, head |-> hd,
             empty |-> linked.empty, size |-> l.size + 1]
    <2>1. m = [linked EXCEPT !.size = l.size + 1, !.use[p] = TRUE, !.data[p] = v, !.head = hd]
      BY <1>4
    <2> HIDE DEF hd, m
    <2> QED BY <2>1, <1>4 DEF ListType
  <1>8. linked.next \in [Pos -> Pos] /\ linked.prev \in [Pos -> Pos] /\ linked.empty \in Pos
    BY <1>4 DEF ListType
  <1> HIDE DEF hd, us, da, m
  <1>9. m \in ListType
    BY <1>6, <1>7, <1>8 DEF ListType
  <1> QED BY <1>5, <1>9 DEF m

LEMMA FreeNodeType ==
    ASSUME NEW l \in ListType, NEW pos \in Pos, l.size # 0
    PROVE  FreeNode(l, pos) \in ListType
  <1> DEFINE w == Unlink(l, pos)
             hd == IF l.head = pos THEN l.next[pos] ELSE l.head
             us == [l.use EXCEPT ![pos] = FALSE]
             out == [w EXCEPT !.use[pos] = FALSE, !.size = @ - 1,
                              !.head = IF @ = pos THEN l.next[pos] ELSE @]
  <1>1. w \in ListType /\ w.use = l.use /\ w.size = l.size /\ w.head = l.head
    BY UnlinkIs DEF Linked
  <1>2. hd \in Pos /\ us \in [Pos -> BOOLEAN] /\ l.size - 1 \in 0..ListNodes
    <2>1. l.head \in Pos /\ l.next[pos] \in Pos /\ l.use \in [Pos -> BOOLEAN] /\ l.size \in 0..ListNodes
      BY DEF ListType
    <2>2. hd \in Pos
      BY <2>1
    <2>3. us \in [Pos -> BOOLEAN]
      BY <2>1
    <2>4. l.size - 1 \in 0..ListNodes
      BY <2>1, ListFacts
    <2> QED BY <2>2, <2>3, <2>4
  <1>3. FreeNode(l, pos) = IF out.empty = ENDPOS THEN [Link(out, pos, pos) EXCEPT !.empty = pos]
                           ELSE LinkBefore(out, pos, out.empty)
    BY DEF FreeNode
  <1> HIDE DEF w
  <1>4. out = [next |-> w.next, prev |-> w.prev, use |-> us, data |-> w.data, head |-> hd,
               empty |-> w.empty, size |-> l.size - 1]
    <2>1. out = [w EXCEPT !.use[pos] = FALSE, !.size = l.size - 1, !.head = hd]
      BY <1>1
    <2> HIDE DEF hd, out
    <2> QED BY <2>1, <1>1 DEF ListType
  <1>5. w.next \in [Pos -> Pos] /\ w.prev \in [Pos -> Pos] /\ w.data \in [Pos -> Item] /\ w.empty \in Pos
    BY <1>1 DEF ListType
  <1> HIDE DEF hd, us, out
  <1>6. out \in ListType
    BY <1>2, <1>4, <1>5 DEF ListType
  <1>7. CASE out.empty = ENDPOS
    <2> DEFINE x == Link(out, pos, pos)
    <2>1. x \in ListType
      BY <1>6, LinkIs DEF Linked
    <2> HIDE DEF x
    <2>2. [x EXCEPT !.empty = pos] \in ListType
      BY <2>1 DEF ListType
    <2> QED BY <2>2, <1>3, <1>7 DEF x
  <1>8. CASE out.empty # ENDPOS
    <2> DEFINE x == Link(out, out.prev[out.empty], pos)
               y == Link(x, pos, out.empty)
    <2>1. out.empty \in Pos /\ out.prev[out.empty] \in Pos
      BY <1>6 DEF ListType
    <2>2. x \in ListType
      BY <2>1, <1>6, LinkIs DEF Linked
    <2> HIDE DEF x
    <2>3. y \in ListType
      BY <2>1, <2>2, LinkIs DEF Linked
    <2> QED BY <2>3, <1>3, <1>8 DEF LinkBefore, x
  <1> QED BY <1>7, <1>8

LEMMA ListTypeStep ==
    ASSUME ListTypeOK, [ListNext]_listVars
    PROVE  ListTypeOK'
  <1>1. list \in ListType /\ ListBegin \in Pos /\ ListEnd \in Pos
    <2>1. list \in ListType
      BY ListTypeIs
    <2> QED BY <2>1 DEF ListType, ListBegin, ListEnd
  <1> DEFINE Goal == list' \in ListType /\ adrift' \in BOOLEAN
  <1> SUFFICES Goal
    BY DEF ListTypeOK, ListType
  <1>2. ASSUME NEW op, NEW pos \in Pos, NEW v \in Item, InsertBefore(op, pos, v) PROVE Goal
    <2>1. list' \in ListType
      BY <1>1, <1>2, NewNodeType DEF InsertBefore
    <2>2. adrift' \in BOOLEAN
      BY <1>2, Zenon DEF InsertBefore
    <2> QED BY <2>1, <2>2
  <1>3. ASSUME NEW op, NEW pos \in Pos, NEW place, Release(op, pos, place) PROVE Goal
    <2>1. list' \in ListType
      BY <1>1, <1>3, FreeNodeType DEF Release
    <2>2. adrift' \in BOOLEAN
      BY <1>3, Zenon DEF Release
    <2> QED BY <2>1, <2>2
  <1> HIDE DEF Goal
  <1>4. ASSUME NEW v \in Item, ListPushFront(v) PROVE Goal
    BY <1>1, <1>2, <1>4 DEF ListPushFront
  <1>5. ASSUME NEW v \in Item, ListPushBack(v) PROVE Goal
    BY <1>1, <1>2, <1>5 DEF ListPushBack
  <1>6. ASSUME NEW pos \in Pos, NEW v \in Item, ListInsert(pos, v) PROVE Goal
    BY <1>2, <1>6 DEF ListInsert
  <1>7. CASE ListPopFront
    BY <1>1, <1>3, <1>7 DEF ListPopFront
  <1>8. CASE ListPopBack
    BY <1>1, <1>3, <1>8 DEF ListPopBack
  <1>9. ASSUME NEW pos \in Pos, ListErase(pos) PROVE Goal
    BY <1>3, <1>9 DEF ListErase
  <1>10. CASE UNCHANGED listVars
    BY <1>1, <1>10, ListTypeIs DEF listVars, Goal
  <1> QED BY <1>4, <1>5, <1>6, <1>7, <1>8, <1>9, <1>10 DEF ListNext

LEMMA ListBegins ==
    ASSUME ListInit
    PROVE  /\ list \in ListType /\ Rings(list, [i \in 1..1 |-> ENDPOS], [i \in 1..ListNodes |-> i])
           /\ list.size = 0 /\ ~adrift /\ ~EndFirst(list) /\ ~list.use[ENDPOS]
  <1> DEFINE N == ListNodes
             g == [i \in 1..1 |-> ENDPOS]
             f == [i \in 1..N |-> i]
             nx == [p \in Pos |-> IF p = ENDPOS THEN ENDPOS ELSE IF p = N THEN 1 ELSE p + 1]
             pr == [p \in Pos |-> IF p = ENDPOS THEN ENDPOS ELSE IF p = 1 THEN N ELSE p - 1]
  <1>1. /\ list.next = nx /\ list.prev = pr /\ list.use = [p \in Pos |-> FALSE]
        /\ list.head = ENDPOS /\ list.empty = 1 /\ list.size = 0
    BY DEF ListInit
  <1>2. nx \in [Pos -> Pos] /\ pr \in [Pos -> Pos] /\ 1 \in Pos /\ 0 \in 0..N /\ ENDPOS \in Pos
    BY ListFacts
  <1>3. list \in ListType
    <2> DEFINE v == CHOOSE v \in Item : TRUE
    <2>1. v \in Item
      BY ListAssumption
    <2>2. [p \in Pos |-> v] \in [Pos -> Item] /\ [p \in Pos |-> FALSE] \in [Pos -> BOOLEAN]
      BY <2>1
    <2>3. list = [next |-> nx, prev |-> pr, use |-> [p \in Pos |-> FALSE], data |-> [p \in Pos |-> v],
                  head |-> ENDPOS, empty |-> 1, size |-> 0]
      BY DEF ListInit
    <2> HIDE DEF v, nx, pr
    <2> QED BY <2>2, <2>3, <1>2 DEF ListType
  <1>4. list.size + 1 = 1 /\ N - list.size = N
    BY <1>1, ListFacts
  <1>5. RingOf(list, g, 1)
    <2>1. \A i \in 1..1 : i = 1
      OBVIOUS
    <2>2. list.next[ENDPOS] = ENDPOS /\ list.prev[ENDPOS] = ENDPOS
      BY <1>1, <1>2
    <2> QED BY <2>1, <2>2, <1>2 DEF RingOf, Order
  <1>6. RingOf(list, f, N)
    <2>1. Order(f, N, Pos)
      BY ListFacts DEF Order
    <2>2. \A i \in 1..N : nx[i] = (IF i = N THEN 1 ELSE i + 1) /\ pr[i] = IF i = 1 THEN N ELSE i - 1
      BY ListFacts
    <2> HIDE DEF nx, pr
    <2>3. \A i \in 1..N : f[i] = i /\ (i # N => f[i + 1] = i + 1) /\ (i # 1 => f[i - 1] = i - 1)
      BY ListFacts
    <2>4. f[1] = 1 /\ f[N] = N
      BY ListFacts
    <2> HIDE DEF f
    <2> QED BY <2>1, <2>2, <2>3, <2>4, <1>1 DEF RingOf
  <1>7. Nodes(g, 1) = {ENDPOS} /\ Nodes(f, N) = 1..N
    BY DEF Nodes
  <1>8. {ENDPOS} \cap (1..N) = {} /\ {ENDPOS} \cup (1..N) = Pos /\ N # 0 /\ f[1] = 1 /\ g[1] = ENDPOS
    BY ListFacts
  <1> HIDE DEF g, f
  <1>9. ~adrift /\ ~EndFirst(list) /\ \A p \in Pos : ~list.use[p]
    BY <1>1, ListFacts DEF ListInit, EndFirst
  <1>10. \A i \in 1..list.size : g[i] # ENDPOS /\ list.use[g[i]]
    BY <1>1
  <1>11. \A p \in Nodes(f, N) : p \in Pos
    BY <1>7, <1>8
  <1>12. Rings(list, g, f)
    BY <1>1, <1>3, <1>4, <1>5, <1>6, <1>7, <1>8, <1>9, <1>10, <1>11 DEF Rings
  <1> QED BY <1>1, <1>2, <1>3, <1>9, <1>12 DEF g, f

\* The block of a list keeps its shape, whatever is called, adrift or not.
THEOREM ListKeepsItsType == ListSpec => []ListTypeOK
  <1>1. ListInit => ListTypeOK
    <2> SUFFICES ASSUME ListInit PROVE list \in ListType /\ adrift \in BOOLEAN
      BY ListTypeIs
    <2> QED BY ListBegins DEF ListInit
  <1>2. ListTypeOK /\ [ListNext]_listVars => ListTypeOK'
    BY ListTypeStep
  <1> QED BY <1>1, <1>2, PTL DEF ListSpec

\* What iterators are in terms of the rings.
LEMMA PlacesAre ==
    ASSUME NEW g, NEW f, Rings(list, g, f)
    PROVE  /\ ListEnd = g[list.size + 1] /\ ListBegin = g[1]
           /\ \A c \in 1..(list.size + 1) : g[c] \in Pos /\ PlaceOf(g[c]) = c
           /\ \A c \in 1..list.size : IsElement(g[c])
           /\ \A p : IsElement(p) => \E c \in 1..list.size : p = g[c]
  <1> DEFINE n == list.size
             D == 1..(n + 1)
  <1>1. /\ n \in Nat /\ RingOf(list, g, n + 1) /\ list.head = g[1]
        /\ ListElements(list) = [i \in 1..n |-> g[i]]
    <2>1. list.size \in Nat /\ ListElements(list) = [i \in 1..n |-> g[i]]
      BY ElementsAre
    <2> QED BY <2>1 DEF Rings
  <1>2. /\ g \in [D -> Pos] /\ \A i, j \in D : g[i] = g[j] => i = j
        /\ 1 \in D /\ n + 1 \in D
    BY <1>1 DEF RingOf, Order
  <1> HIDE DEF n
  <1>3. ListEnd = g[n + 1] /\ ListBegin = g[1]
    <2>1. list.prev[g[1]] = g[n + 1]
      BY <1>1, <1>2 DEF RingOf
    <2> QED BY <2>1, <1>1 DEF ListEnd, ListBegin
  <1>4. \A p : IsElement(p) <=> \E c \in 1..n : p = g[c]
    <2>1. ToSet(ListElements(list)) = {g[i] : i \in 1..n}
      BY <1>1 DEF ToSet
    <2> QED BY <2>1 DEF IsElement
  <1>5. ASSUME NEW c \in 1..n PROVE IsElement(g[c]) /\ PlaceOf(g[c]) = c
    <2>1. IsElement(g[c])
      BY <1>4
    <2> DEFINE P(i) == i \in 1..n /\ ListElements(list)[i] = g[c]
    <2>2. PlaceOf(g[c]) = CHOOSE i : P(i)
      BY <2>1 DEF PlaceOf, n
    <2>3. ASSUME NEW i, P(i) PROVE i = c
      <3>1. i \in D /\ c \in D /\ g[i] = g[c]
        BY <2>3, <1>1
      <3> QED BY <3>1, <1>2
    <2>4. P(c)
      BY <1>1
    <2> HIDE DEF P
    <2>5. P(CHOOSE i : P(i))
      BY <2>4
    <2> QED BY <2>1, <2>2, <2>3, <2>5
  <1>6. PlaceOf(g[n + 1]) = n + 1
    <2>1. ASSUME NEW i \in 1..n PROVE g[i] # g[n + 1]
      <3>1. i \in D /\ i # n + 1
        BY <1>1
      <3> QED BY <3>1, <1>2
    <2>2. ~IsElement(g[n + 1])
      BY <2>1, <1>4
    <2> QED BY <2>2 DEF PlaceOf, n
  <1>7. ASSUME NEW c \in D PROVE g[c] \in Pos /\ PlaceOf(g[c]) = c
    <2>1. c \in 1..n \/ c = n + 1
      BY <1>1
    <2> QED BY <2>1, <1>2, <1>5, <1>6
  <1> QED BY <1>3, <1>4, <1>5, <1>7 DEF n

\* Until it is adrift, the block is two rings.
ListShape == adrift \/ (~EndFirst(list) /\ \E g, f : Rings(list, g, f))

LEMMA ListInsertStep ==
    ASSUME NEW g, NEW f, Rings(list, g, f), ~EndFirst(list),
           NEW op, NEW v \in Item, NEW c \in 1..(list.size + 1), InsertBefore(op, g[c], v)
    PROVE  ListHeld!Put(op, v, c) /\ ListShape'
  <1> DEFINE b == g[c]
             s == ListItems(list)
  <1>1. list.size \in 0..ListNodes /\ s \in Seq(Item) /\ Len(s) = list.size
    BY ElementsAre
  <1>2. PlaceOf(b) = c
    BY PlacesAre
  <1>3. (Len(s) < ListNodes) = (list.size # ListNodes)
    <2>1. Len(s) < ListNodes <=> list.size # ListNodes
      BY <1>1, ListFacts
    <2> QED BY <2>1
  <1>4. listDid' = <<op, v, c, list.size # ListNodes>>
    <2> HIDE DEF b
    <2>1. listDid' = <<op, v, PlaceOf(b), ~(list.size = ListNodes)>>
      BY DEF InsertBefore, b
    <2> QED BY <2>1, <1>2
  <1>5. adrift' \/ ~EndFirst(list')
    BY DEF InsertBefore
  <1>6. /\ ListItems(list)' = IF list.size # ListNodes THEN InsertAt(s, c, v) ELSE s
        /\ \E h, k : Rings(list', h, k)
    <2>1. CASE list.size = ListNodes
      <3>1. list' = list
        BY <2>1 DEF InsertBefore
      <3> QED BY <2>1, <3>1
    <2>2. CASE list.size # ListNodes
      <3>1. list' = ListNewNodeAndInsert(list, b, v)
        BY <2>2 DEF InsertBefore
      <3>2. \E h, k : Rings(list', h, k)
        <4>1. Rings(list', PutAt(g, list.size + 1, c, f[1]), CutAt(f, ListNodes - list.size, 1))
          BY <3>1, <2>2, NewNodeRings
        <4> QED BY <4>1
      <3>3. ListItems(list') = InsertAt(s, c, v)
        BY <3>1, <2>2, NewNodeItems
      <3> QED BY <2>2, <3>2, <3>3
    <2> QED BY <2>1, <2>2
  <1>7. ListShape'
    <2>1. ListItems(list)' = ListItems(list')
      OBVIOUS
    <2> QED BY <1>5, <1>6 DEF ListShape
  <1> HIDE DEF b
  <1> QED BY <1>3, <1>4, <1>6, <1>7 DEF ListHeld!Put, ListHeld!InsertAt, InsertAt

\* With the mark of the end freed, what was the last element is gone.
LEMMA ReleaseStep ==
    ASSUME NEW g, NEW f, Rings(list, g, f), ~EndFirst(list), list.size # 0,
           NEW op, NEW c \in 1..(list.size + 1), NEW d,
           d = IF c = list.size + 1 THEN list.size ELSE c, Release(op, g[c], d)
    PROVE  ListHeld!Take(op, d) /\ ListShape'
  <1> DEFINE s == ListItems(list)
  <1>1. list.size \in Nat /\ s \in Seq(Item) /\ Len(s) = list.size
    BY ElementsAre
  <1>2. s # <<>>
    BY <1>1
  <1>3. listDid' = <<op, d, TRUE>> /\ list' = FreeNode(list, g[c])
    <2>1. (~(list.size = 0)) = TRUE
      BY <1>1
    <2> QED BY <2>1, <1>1 DEF Release
  <1>4. \E h, k : Rings(list', h, k)
    BY <1>1, <1>3, FreeNodeRings
  <1>5. ListItems(list') = RemoveAt(s, d)
    BY <1>1, <1>3, FreeNodeItems
  <1>6. (s # <<>>) = TRUE
    BY <1>2
  <1>7. adrift' \/ ~EndFirst(list')
    BY DEF Release
  <1>8. ListShape'
    BY <1>4, <1>7 DEF ListShape
  <1> QED BY <1>2, <1>3, <1>5, <1>6, <1>8 DEF ListHeld!Take, ListHeld!RemoveAt, RemoveAt

LEMMA ReleaseOfNone ==
    ASSUME NEW g, NEW f, Rings(list, g, f), ~EndFirst(list), list.size = 0,
           NEW op, NEW pos, NEW i, Release(op, pos, i)
    PROVE  ListHeld!Take(op, i) /\ ListShape'
  <1>1. ListItems(list) = <<>>
    <2>1. ListItems(list) \in Seq(Item) /\ Len(ListItems(list)) = 0
      BY ElementsAre
    <2> QED BY <2>1
  <1>2. list' = list /\ listDid' = <<op, i, FALSE>>
    <2>1. (~(list.size = 0)) = FALSE
      OBVIOUS
    <2> QED BY <2>1 DEF Release
  <1>3. (ListItems(list) # <<>>) = FALSE
    BY <1>1
  <1>4. ListItems(list)' = <<>>
    BY <1>1, <1>2
  <1>5. ListShape'
    BY <1>2 DEF ListShape
  <1> QED BY <1>1, <1>2, <1>3, <1>4, <1>5 DEF ListHeld!Take

LEMMA ListStep ==
    ASSUME ListShape, ListNext
    PROVE  ListShape' /\ (adrift \/ ListHeld!Next)
  <1>1. CASE adrift
    <2>1. adrift'
      BY <1>1, Zenon DEF ListNext, ListPushFront, ListPushBack, ListInsert, ListPopFront,
                         ListPopBack, ListErase, InsertBefore, Release
    <2> QED BY <1>1, <2>1 DEF ListShape
  <1>2. CASE ~adrift
    <2>1. ~EndFirst(list) /\ \E g, f : Rings(list, g, f)
      BY <1>2 DEF ListShape
    <2>2. PICK g, f : Rings(list, g, f)
      BY <2>1
    <2> DEFINE n == list.size
               s == ListItems(list)
    <2>3. n \in Nat /\ s \in Seq(Item) /\ Len(s) = n
      BY <2>2, ElementsAre
    <2>4. /\ ListEnd = g[n + 1] /\ ListBegin = g[1]
          /\ \A c \in 1..(n + 1) : PlaceOf(g[c]) = c
          /\ \A p : IsElement(p) => \E c \in 1..n : p = g[c]
      BY <2>2, PlacesAre
    <2>5. ASSUME NEW op, NEW v \in Item, NEW c \in 1..(n + 1), InsertBefore(op, g[c], v)
          PROVE  ListHeld!Put(op, v, c) /\ ListShape'
      BY <2>1, <2>2, <2>5, ListInsertStep
    <2>6. ASSUME NEW op, NEW c \in 1..n, Release(op, g[c], c)
          PROVE  ListHeld!Take(op, c) /\ ListShape'
      <3>1. c \in 1..(n + 1) /\ c # n + 1 /\ n # 0
        BY <2>3
      <3>2. c = IF c = list.size + 1 THEN list.size ELSE c
        BY <3>1
      <3> QED BY <2>1, <2>2, <2>6, <3>1, <3>2, ReleaseStep
    <2>7. ASSUME NEW op, NEW pos, NEW i, Release(op, pos, i), n = 0
          PROVE  ListHeld!Take(op, i) /\ ListShape'
      BY <2>1, <2>2, <2>7, ReleaseOfNone
    <2> DEFINE Goal == ListShape' /\ ListHeld!Next
    <2>8. ASSUME NEW v \in Item, ListPushFront(v) PROVE Goal
      <3>1. 1 \in 1..(n + 1) /\ InsertBefore("PushFront", g[1], v)
        BY <2>3, <2>4, <2>8 DEF ListPushFront
      <3> QED BY <3>1, <2>5 DEF ListHeld!Next, ListHeld!PushFront
    <2>9. ASSUME NEW v \in Item, ListPushBack(v) PROVE Goal
      <3> DEFINE c == n + 1
      <3>1. c \in 1..(n + 1) /\ c = Len(s) + 1 /\ InsertBefore("PushBack", g[c], v)
        BY <2>3, <2>4, <2>9 DEF ListPushBack
      <3> HIDE DEF c
      <3> QED BY <3>1, <2>5 DEF ListHeld!Next, ListHeld!PushBack
    <2>10. ASSUME NEW pos \in Pos, NEW v \in Item, ListInsert(pos, v) PROVE Goal
      <3>1. PICK c \in 1..(n + 1) : pos = g[c]
        <4>1. 1..n \subseteq 1..(n + 1) /\ n + 1 \in 1..(n + 1)
          BY <2>3
        <4> QED BY <4>1, <2>4, <2>10 DEF ListInsert
      <3>2. ListHeld!Put("Insert", v, c) /\ ListShape'
        BY <3>1, <2>5, <2>10 DEF ListInsert
      <3>3. c \in 1..(Len(s) + 1)
        BY <2>3
      <3> QED BY <3>2, <3>3 DEF ListHeld!Next
    <2>11. ASSUME ListPopFront PROVE Goal
      <3>1. Release("PopFront", g[1], 1)
        BY <2>4, <2>11 DEF ListPopFront
      <3>2. n = 0 \/ 1 \in 1..n
        BY <2>3
      <3> QED BY <3>1, <3>2, <2>6, <2>7 DEF ListHeld!Next, ListHeld!PopFront
    <2>12. ASSUME ListPopBack PROVE Goal
      <3>1. Release("PopBack", g[n + 1], n) /\ n + 1 \in 1..(n + 1)
        BY <2>3, <2>4, <2>12 DEF ListPopBack
      <3>2. ListHeld!Take("PopBack", n) /\ ListShape'
        <4>1. CASE n = 0
          BY <3>1, <4>1, <2>7
        <4>2. CASE n # 0
          <5> DEFINE c == n + 1
          <5>1. n = (IF c = list.size + 1 THEN list.size ELSE c) /\ c \in 1..(list.size + 1)
            BY <3>1
          <5> HIDE DEF c
          <5> QED BY <5>1, <4>2, <3>1, <2>1, <2>2, ReleaseStep DEF c
        <4> QED BY <4>1, <4>2
      <3> QED BY <3>2, <2>3 DEF ListHeld!Next, ListHeld!PopBack
    <2>13. ASSUME NEW pos \in Pos, ListErase(pos) PROVE Goal
      <3>1. PICK c \in 1..n : pos = g[c]
        BY <2>4, <2>13 DEF ListErase
      <3>2. c \in 1..(n + 1) /\ c \in DOMAIN s
        BY <2>3
      <3>3. Release("Erase", g[c], c)
        BY <3>1, <3>2, <2>4, <2>13 DEF ListErase
      <3> QED BY <3>2, <3>3, <2>6 DEF ListHeld!Next
    <2> HIDE DEF Goal
    <2>14. Goal
      BY <2>8, <2>9, <2>10, <2>11, <2>12, <2>13 DEF ListNext
    <2> QED BY <2>14 DEF Goal
  <1> QED BY <1>1, <1>2

LEMMA ShapeBegins ==
    ASSUME ListInit
    PROVE  ListShape /\ ListHeld!Init
  <1>1. ListShape
    BY ListBegins DEF ListShape
  <1>2. ListItems(list) = <<>>
    <2>1. ListItems(list) \in Seq(Item) /\ Len(ListItems(list)) = 0
      BY ListBegins, ElementsAre
    <2> QED BY <2>1
  <1> QED BY <1>1, <1>2 DEF ListInit, ListHeld!Init

LEMMA ListKeepsItsShape == ListSpec => []ListShape
  <1>1. ListInit => ListShape
    BY ShapeBegins
  <1>2. ListShape /\ [ListNext]_listVars => ListShape'
    <2>1. ListShape /\ UNCHANGED listVars => ListShape'
      BY DEF ListShape, listVars
    <2> QED BY <2>1, ListStep
  <1> QED BY <1>1, <1>2, PTL DEF ListSpec

\* What two rings say of the nodes.
LEMMA RingsAre ==
    ASSUME NEW g, NEW f, Rings(list, g, f), ~EndFirst(list)
    PROVE  /\ ToSet(ListElements(list)) = Nodes(g, list.size)
           /\ ToSet(Unused(list)) = Nodes(f, ListNodes - list.size)
           /\ \A p \in Pos : list.prev[list.next[p]] = p /\ list.next[list.prev[p]] = p
  <1> DEFINE n == list.size
             u == ListNodes - n
  <1>1. /\ n \in Nat /\ u \in Nat /\ (n = ListNodes <=> u = 0)
        /\ ListElements(list) = [i \in 1..n |-> g[i]]
        /\ Unused(list) = IF n = ListNodes THEN <<>> ELSE f
    <2>1. /\ n \in 0..ListNodes /\ ListElements(list) = [i \in 1..n |-> g[i]]
          /\ Unused(list) = IF n = ListNodes THEN <<>> ELSE f
      BY ElementsAre, UnusedAre
    <2> QED BY <2>1, ListFacts
  <1>2. /\ RingOf(list, g, n + 1) /\ RingOf(list, f, u)
        /\ Nodes(g, n + 1) \cup Nodes(f, u) = Pos
    BY DEF Rings
  <1>3. f \in [1..u -> Pos]
    BY <1>2 DEF RingOf, Order
  <1> HIDE DEF n, u
  <1>4. ToSet(ListElements(list)) = Nodes(g, n)
    BY <1>1 DEF ToSet, Nodes
  <1>5. ToSet(Unused(list)) = Nodes(f, u)
    <2>1. CASE n = ListNodes
      <3>1. 1..u = {} /\ Unused(list) = <<>> /\ DOMAIN <<>> = {}
        BY <2>1, <1>1
      <3> QED BY <3>1 DEF ToSet, Nodes
    <2>2. CASE n # ListNodes
      <3>1. Unused(list) = f /\ DOMAIN f = 1..u
        BY <2>2, <1>1, <1>3
      <3> QED BY <3>1 DEF ToSet, Nodes
    <2> QED BY <2>1, <2>2
  <1>6. ASSUME NEW w, NEW k \in Nat, RingOf(list, w, k), NEW p \in Nodes(w, k)
        PROVE  list.prev[list.next[p]] = p /\ list.next[list.prev[p]] = p
    <2>1. PICK i \in 1..k : p = w[i]
      BY DEF Nodes
    <2>2. 1 \in 1..k /\ k \in 1..k
      BY <1>6
    <2>3. list.prev[list.next[p]] = p
      <3>1. CASE i = k
        BY <3>1, <2>1, <2>2, <1>6 DEF RingOf
      <3>2. CASE i # k
        <4>1. i + 1 \in 1..k /\ i + 1 # 1 /\ i + 1 - 1 = i
          BY <3>2, <1>6
        <4>2. list.next[p] = w[i + 1] /\ list.prev[w[i + 1]] = w[i]
          BY <4>1, <3>2, <2>1, <1>6 DEF RingOf
        <4> QED BY <4>2, <2>1
      <3> QED BY <3>1, <3>2
    <2>4. list.next[list.prev[p]] = p
      <3>1. CASE i = 1
        BY <3>1, <2>1, <2>2, <1>6 DEF RingOf
      <3>2. CASE i # 1
        <4>1. i - 1 \in 1..k /\ i - 1 # k /\ i - 1 + 1 = i
          BY <3>2, <1>6
        <4>2. list.prev[p] = w[i - 1] /\ list.next[w[i - 1]] = w[i]
          BY <4>1, <3>2, <2>1, <1>6 DEF RingOf
        <4> QED BY <4>2, <2>1
      <3> QED BY <3>1, <3>2
    <2> QED BY <2>3, <2>4
  <1>7. \A p \in Pos : list.prev[list.next[p]] = p /\ list.next[list.prev[p]] = p
    <2>1. n + 1 \in Nat
      BY <1>1
    <2> QED BY <2>1, <1>1, <1>2, <1>6
  <1> QED BY <1>4, <1>5, <1>7 DEF n, u

\* Each node is an element, marks the end, or is unused, and none is two of
\* these; next and prev agree, and a node that GetDataPtr denies is no element.
RingsSplit ==
    adrift \/ /\ ToSet(ListElements(list)) \cap ToSet(Unused(list)) = {}
              /\ ListEnd \notin ToSet(ListElements(list)) \cup ToSet(Unused(list))
              /\ ToSet(ListElements(list)) \cup ToSet(Unused(list)) \cup {ListEnd} = Pos
              /\ \A p \in Pos : list.prev[list.next[p]] = p
              /\ \A p \in ToSet(ListElements(list)) : list.use[p]
              /\ \A p \in ToSet(Unused(list)) : ~list.use[p]

LEMMA ShapeSplits == ListShape => RingsSplit
  <1> SUFFICES ASSUME ListShape, ~adrift PROVE RingsSplit
    BY DEF RingsSplit
  <1>1. ~EndFirst(list) /\ \E g, f : Rings(list, g, f)
    BY DEF ListShape
  <1>2. PICK g, f : Rings(list, g, f)
    BY <1>1
  <1> DEFINE n == list.size
             u == ListNodes - n
             E == ToSet(ListElements(list))
             F == ToSet(Unused(list))
  <1>3. E = Nodes(g, n) /\ F = Nodes(f, u) /\ \A p \in Pos : list.prev[list.next[p]] = p
    BY <1>1, <1>2, RingsAre
  <1>4. /\ n \in Nat /\ ListEnd = g[n + 1]
        /\ RingOf(list, g, n + 1)
        /\ Nodes(g, n + 1) \cap Nodes(f, u) = {} /\ Nodes(g, n + 1) \cup Nodes(f, u) = Pos
        /\ \A i \in 1..n : g[i] # ENDPOS /\ list.use[g[i]]
        /\ \A p \in Nodes(f, u) : ~list.use[p]
    BY <1>2, ElementsAre, PlacesAre DEF Rings
  <1> HIDE DEF n, u
  <1>5. Nodes(g, n + 1) = Nodes(g, n) \cup {g[n + 1]} /\ g[n + 1] \notin Nodes(g, n)
    <2>1. 1..(n + 1) = (1..n) \cup {n + 1} /\ n + 1 \notin 1..n
      BY <1>4
    <2> QED BY <2>1, <1>4 DEF Nodes, RingOf, Order
  <1>6. \A p \in E : list.use[p]
    BY <1>3, <1>4 DEF Nodes
  <1>7. /\ E \cap F = {} /\ ListEnd \notin E \cup F /\ E \cup F \cup {ListEnd} = Pos
        /\ \A p \in F : ~list.use[p]
    BY <1>3, <1>4, <1>5
  <1> QED BY <1>3, <1>6, <1>7 DEF RingsSplit

\* Every node of a list or pool is an element, the mark of the end or unused,
\* and its links and its use flag agree with that, whatever is called, until
\* the mark is taken for the sign that no node is unused
\* (GetNewNodeAndInsert and FreeNode of impl_bidirectional_list.hpp).
THEOREM RingsStaySplit == ListSpec => []RingsSplit
  <1> QED BY ShapeSplits, ListKeepsItsShape, PTL

\* Until then the list is a sequence of up to max_size() values, PopBack
\* included, and every call tells the truth about it (list.hpp).
THEOREM ListIsASequence == ListSpec => DequeUntilAdrift
  <1>1. ListInit => ListHeld!Init
    BY ShapeBegins
  <1>2. ListShape /\ [ListNext]_listVars
           => [adrift \/ ListHeld!Next]_<<ListItems(list), listDid, adrift>>
    <2>1. UNCHANGED listVars => UNCHANGED <<ListItems(list), listDid, adrift>>
      BY DEF listVars
    <2> QED BY <2>1, ListStep
  <1> QED BY <1>1, <1>2, ListKeepsItsShape, PTL DEF ListSpec, DequeUntilAdrift
-----------------------------------------------------------------------------
(* The pool.                                                               *)

\* ENDPOS marks the end of a pool, and is never in use.
PoolShape ==
    /\ ~adrift /\ ~EndFirst(list) /\ ~list.use[ENDPOS]
    /\ \E g, f : Rings(list, g, f) /\ g[list.size + 1] = ENDPOS

\* While it does, the sign that no node is unused is not mistaken.
LEMMA EndIsNotFirst ==
    ASSUME NEW l, NEW g, NEW f, Rings(l, g, f), g[l.size + 1] = ENDPOS
    PROVE  ~EndFirst(l)
  <1> SUFFICES ASSUME l.size # ListNodes, f[1] = ENDPOS PROVE FALSE
    BY DEF Rings, EndFirst
  <1>1. l.size \in 0..ListNodes
    BY DEF Rings, ListType
  <1>2. l.size + 1 \in 1..(l.size + 1) /\ 1 \in 1..(ListNodes - l.size)
    BY <1>1, ListFacts
  <1>3. ENDPOS \in Nodes(g, l.size + 1) /\ ENDPOS \in Nodes(f, ListNodes - l.size)
    BY <1>2 DEF Nodes
  <1> QED BY <1>3 DEF Rings

LEMMA PoolStep ==
    ASSUME PoolShape, PoolNext
    PROVE  PoolShape' /\ ListNext
  <1>1. PICK g, f : Rings(list, g, f) /\ g[list.size + 1] = ENDPOS
    BY DEF PoolShape
  <1> DEFINE n == list.size
  <1>2. n \in Nat /\ n \in 0..ListNodes /\ ListEnd = g[n + 1] /\ \A c \in 1..n : IsElement(g[c])
    BY <1>1, ElementsAre, PlacesAre
  <1>3. ~adrift /\ ~EndFirst(list) /\ ~list.use[ENDPOS]
    BY DEF PoolShape
  <1>4. ASSUME NEW h, NEW k, Rings(list', h, k), h[list'.size + 1] = ENDPOS,
               ~list'.use[ENDPOS], adrift' = (adrift \/ EndFirst(list'))
        PROVE  PoolShape'
    <2>1. ~EndFirst(list')
      BY <1>4, EndIsNotFirst
    <2> QED BY <2>1, <1>3, <1>4 DEF PoolShape
  <1>5. ASSUME UNCHANGED list, adrift' = (adrift \/ EndFirst(list')) PROVE PoolShape'
    BY <1>5 DEF PoolShape
  <1>6. ASSUME NEW v \in Item, Malloc(v) PROVE PoolShape' /\ ListNext
    <2>1. ListPushBack(v) /\ InsertBefore("PushBack", g[n + 1], v)
      BY <1>2, <1>6 DEF Malloc, ListPushBack
    <2>2. CASE list.size = ListNodes
      <3>1. list' = list /\ adrift' = (adrift \/ EndFirst(list'))
        BY <2>1, <2>2 DEF InsertBefore
      <3>2. PoolShape'
        BY <3>1, <1>5
      <3> QED BY <3>2, <2>1, <1>6 DEF ListNext
    <2>3. CASE list.size # ListNodes
      <3> DEFINE h == PutAt(g, n + 1, n + 1, f[1])
                 k == CutAt(f, ListNodes - n, 1)
      <3>1. n + 1 \in 1..(n + 1) /\ n + 1 + 1 \in 1..(n + 1 + 1) /\ ~(n + 1 + 1 < n + 1)
            /\ n + 1 + 1 # n + 1 /\ n + 1 + 1 - 1 = n + 1
        BY <1>2
      <3>2. list' = ListNewNodeAndInsert(list, g[n + 1], v)
        BY <2>1, <2>3 DEF InsertBefore
      <3>3. Rings(list', h, k) /\ list'.size = n + 1 /\ (list'.use[ENDPOS] => list.use[ENDPOS])
        <4> DEFINE c == n + 1
                   m == list'
        <4>1. /\ Rings(list, g, f) /\ list.size # ListNodes /\ ~EndFirst(list)
              /\ c \in 1..(list.size + 1) /\ m = ListNewNodeAndInsert(list, g[c], v)
          BY <1>1, <1>3, <2>3, <3>1, <3>2
        <4> HIDE DEF c, m
        <4>2. /\ Rings(m, PutAt(g, list.size + 1, c, f[1]), CutAt(f, ListNodes - list.size, 1))
              /\ m.size = list.size + 1 /\ m.data = [list.data EXCEPT ![f[1]] = v]
              /\ m.use[ENDPOS] => list.use[ENDPOS]
              /\ f[1] \in Pos /\ f[1] \notin Nodes(g, list.size + 1)
          BY ONLY <4>1, v \in Item, NewNodeRings, SMTT(30)
        <4> QED BY <4>2 DEF c, m
      <3>4. h[n + 1 + 1] = g[n + 1]
        <4> HIDE DEF n
        <4> QED BY <3>1 DEF PutAt
      <3> HIDE DEF h, k
      <3>5. PoolShape'
        BY <1>1, <1>3, <1>4, <2>1, <3>3, <3>4 DEF InsertBefore
      <3> QED BY <2>1, <3>5 DEF ListNext
    <2> QED BY <2>1, <2>2, <2>3 DEF ListNext
  <1>7. ASSUME NEW pos \in Pos, Free(pos) PROVE PoolShape' /\ ListNext
    <2>1. list.use[pos] /\ Release("Erase", pos, PlaceOf(pos))
      BY <1>7 DEF Free
    <2>2. PICK c \in 1..n : pos = g[c]
      <3>1. Nodes(g, n + 1) \cup Nodes(f, ListNodes - n) = Pos
            /\ \A p \in Nodes(f, ListNodes - n) : ~list.use[p]
        BY <1>1 DEF Rings
      <3>2. pos \in Nodes(g, n + 1)
        BY <3>1, <2>1
      <3>3. PICK c \in 1..(n + 1) : pos = g[c]
        BY <3>2 DEF Nodes
      <3>4. c # n + 1
        BY <3>3, <2>1, <1>1, <1>3
      <3>5. c \in 1..n
        BY <3>4, <1>2
      <3> QED BY <3>3, <3>5
    <2> DEFINE h == CutAt(g, n + 1, c)
               k == PutAt(f, ListNodes - n, ListNodes - n + 1, g[c])
    <2>3. c \in 1..(n + 1) /\ n # 0 /\ n \in 1..(n + 1 - 1) /\ (n < c => c = n)
      BY <1>2
    <2>4. list' = FreeNode(list, g[c])
      BY <2>1, <2>2, <2>3 DEF Release
    <2>5. Rings(list', h, k) /\ list'.size = n - 1 /\ (list'.use[ENDPOS] => list.use[ENDPOS])
      BY <1>1, <1>3, <2>3, <2>4, FreeNodeRings
    <2>6. h[n - 1 + 1] = ENDPOS
      <3> DEFINE q == n + 1
      <3>1. n \in 1..(q - 1) /\ ~(n < c) /\ n - 1 + 1 = n
        BY <1>2
      <3>2. h = CutAt(g, q, c)
        OBVIOUS
      <3>3. g[n + 1] = ENDPOS
        BY <1>1
      <3> HIDE DEF q, h, n
      <3>4. h[n] = g[n + 1]
        BY <3>1, <3>2 DEF CutAt
      <3> QED BY <3>1, <3>3, <3>4
    <2> HIDE DEF h, k
    <2>7. PoolShape'
      BY <1>3, <1>4, <2>1, <2>5, <2>6 DEF Release
    <2>8. ListErase(pos)
      BY <1>2, <2>1, <2>2 DEF ListErase
    <2> QED BY <2>7, <2>8 DEF ListNext
  <1> QED BY <1>6, <1>7 DEF PoolNext

LEMMA PoolBegins == ListInit => PoolShape
  <1> SUFFICES ASSUME ListInit PROVE PoolShape
    OBVIOUS
  <1>1. list.size + 1 = 1
    BY ListBegins
  <1> DEFINE g == [i \in 1..1 |-> ENDPOS]
  <1>2. g[1] = ENDPOS
    OBVIOUS
  <1>3. \E f : Rings(list, g, f)
    BY ListBegins
  <1> HIDE DEF g
  <1> QED BY <1>1, <1>2, <1>3, ListBegins DEF PoolShape

LEMMA PoolKeepsItsShape == PoolSpec => []PoolShape
  <1>1. PoolShape /\ [PoolNext]_listVars => PoolShape'
    <2>1. PoolShape /\ UNCHANGED listVars => PoolShape'
      BY DEF PoolShape, listVars
    <2> QED BY <2>1, PoolStep
  <1> QED BY <1>1, PoolBegins, PTL DEF PoolSpec

LEMMA PoolEnds == PoolShape => ~adrift /\ EndMarks
  <1> SUFFICES ASSUME PoolShape PROVE EndMarks
    BY DEF PoolShape
  <1>1. PICK g, f : Rings(list, g, f) /\ g[list.size + 1] = ENDPOS
    BY DEF PoolShape
  <1>2. ~EndFirst(list)
    BY DEF PoolShape
  <1> DEFINE n == list.size
             u == ListNodes - n
  <1>3. n \in Nat /\ RingOf(list, g, n + 1) /\ list.head = g[1] /\ Nodes(g, n + 1) \cap Nodes(f, u) = {}
    BY <1>1, ElementsAre DEF Rings
  <1>4. n + 1 \in 1..(n + 1)
    BY <1>3
  <1> HIDE DEF n, u
  <1>5. list.next[list.prev[ENDPOS]] = ENDPOS /\ ToSet(Unused(list)) = Nodes(f, u)
    BY <1>1, <1>2, RingsAre, ListFacts DEF u, n
  <1>6. list.next[ENDPOS] = list.head
    BY <1>1, <1>3, <1>4 DEF RingOf, n
  <1>7. ENDPOS \in Nodes(g, n + 1)
    BY <1>1, <1>4 DEF Nodes, n
  <1> QED BY <1>3, <1>5, <1>6, <1>7 DEF EndMarks

\* A pool puts in at the end and never frees the mark: its first node stays
\* where the pool ends and is never given out (Malloc and Free of pool.hpp).
THEOREM PoolEndStays == PoolSpec => [](~adrift /\ EndMarks)
  <1> QED BY PoolEnds, PoolKeepsItsShape, PTL

\* So a pool is the sequence for good, without a proviso.
THEOREM PoolIsASequence == PoolSpec => ListIsDeque
  <1>1. ListInit => ListHeld!Init /\ ListShape
    BY ShapeBegins
  <1>2. PoolShape /\ [PoolNext]_listVars => [ListHeld!Next]_<<ListItems(list), listDid>>
    <2>1. PoolShape => ListShape /\ ~adrift
      BY DEF PoolShape, ListShape
    <2>2. UNCHANGED listVars => UNCHANGED <<ListItems(list), listDid>>
      BY DEF listVars
    <2> QED BY <2>1, <2>2, PoolStep, ListStep
  <1> QED BY <1>1, <1>2, PoolKeepsItsShape, PTL DEF PoolSpec, ListIsDeque, ListHeld!Spec
=============================================================================
