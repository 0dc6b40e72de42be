----------------------------- MODULE TreeProofs -----------------------------
(***************************************************************************)
(* The red-black tree, of any number of nodes and any keys: its operations *)
(* are those of a set, what an iterator stands on stays, and CheckConsist  *)
(* finds nothing.                                                          *)
(*                                                                         *)
(* Grove says of the block that some nodes form a search tree and the rest *)
(* the ring of unused ones.  A span tells which nodes are below which; a   *)
(* rotation changes the spans of two nodes and keeps their order.  So the  *)
(* fixups, which rotate and color, keep the tree whatever the colors are.  *)
(***************************************************************************)
EXTENDS MCContainers, ContainerProofs, FiniteSetTheorems

-----------------------------------------------------------------------------
(* The shape of a search tree.  U is the set of its nodes, d gives their   *)
(* keys, and span tells, of a node, what is in the subtree below it.       *)

\* A node and its two children: the smaller keys of its subtree are on the
\* left, the larger on the right.
Joint(t, U, d, span, n) ==
    /\ n \in span[n]
    /\ t.lchild[n] \in U \cup {NPOS} /\ t.rchild[n] \in U \cup {NPOS}
    /\ span[t.lchild[n]] = {m \in span[n] : d[m] < d[n]}
    /\ span[t.rchild[n]] = {m \in span[n] : d[n] < d[m]}
    /\ t.lchild[n] # NPOS => t.parent[t.lchild[n]] = n
    /\ t.rchild[n] # NPOS => t.parent[t.rchild[n]] = n
    /\ n # t.root => /\ t.parent[n] \in U
                     /\ t.lchild[t.parent[n]] = n \/ t.rchild[t.parent[n]] = n

Keyed(U, d) ==
    /\ \A a \in U : d[a] \in Nat
    /\ \A a, b \in U : d[a] = d[b] => a = b

Convex(U, d, span) ==
    \A x \in U : \A a, b \in span[x] : \A m \in U :
        d[a] < d[m] /\ d[m] < d[b] => m \in span[x]

Shape(t, U, d, span) ==
    /\ span \in [NodeOrNone -> SUBSET U]
    /\ span[NPOS] = {} /\ span[t.root] = U
    /\ t.root \in U \cup {NPOS} /\ (t.root # NPOS => t.parent[t.root] = NPOS)
    /\ \A n \in U : Joint(t, U, d, span, n)
    /\ Keyed(U, d) /\ Convex(U, d, span)

\* NPOS is a black leaf.
Leafy(t) ==
    /\ t \in Trees
    /\ t.lchild[NPOS] = NPOS /\ t.rchild[NPOS] = NPOS /\ t.color[NPOS] = "BLACK"

\* The nodes in use, and no others, have a color and make up the tree.
Woods(t, U, d) ==
    /\ U \subseteq Node
    /\ Leafy(t) /\ \A n \in Node : n \in U <=> t.color[n] # "EMPTY"
    /\ \E span : Shape(t, U, d, span)

\* From t to u nothing changed but the links and colors of the nodes of U.
Kept(t, u, U) ==
    /\ u \in Trees
    /\ u.data = t.data /\ u.empty = t.empty /\ u.size = t.size
    /\ \A n \in NodeOrNone \ U : u.lchild[n] = t.lchild[n] /\ u.rchild[n] = t.rchild[n]

LEMMA Positions ==
    NPOS \in NodeOrNone /\ NPOS \notin Node /\ Node \subseteq NodeOrNone
    /\ \A p \in NodeOrNone : p = NPOS \/ p \in Node
  BY TreeAssumption DEF NPOS, Node, NodeOrNone

\* The root is the one node in use without a parent.
LEMMA RootAlone ==
    ASSUME NEW t, NEW U, U \subseteq Node, NEW d, NEW span, Shape(t, U, d, span), NEW n \in U
    PROVE  t.parent[n] = NPOS <=> n = t.root
  <1>1. n # NPOS /\ NPOS \notin U /\ Joint(t, U, d, span, n)
    BY Positions DEF Shape
  <1>2. n # t.root => t.parent[n] \in U
    BY <1>1 DEF Joint
  <1>3. n = t.root => t.parent[n] = NPOS
    BY <1>1 DEF Shape
  <1> QED BY <1>1, <1>2, <1>3

\* What the shape says of a node and its neighbours.
LEMMA Around ==
    ASSUME NEW t \in Trees, NEW U, U \subseteq Node, NEW d, NEW span, Shape(t, U, d, span), NEW n \in U
    PROVE  /\ n \in Node /\ span[n] \subseteq U
           /\ t.lchild[n] # n /\ t.rchild[n] # n
           /\ t.lchild[n] # NPOS => /\ t.lchild[n] \in U /\ t.lchild[n] \in span[n]
                                    /\ d[t.lchild[n]] < d[n] /\ t.lchild[n] # t.rchild[n]
           /\ t.rchild[n] # NPOS => /\ t.rchild[n] \in U /\ t.rchild[n] \in span[n]
                                    /\ d[n] < d[t.rchild[n]] /\ t.lchild[n] # t.rchild[n]
           /\ t.parent[n] = NPOS <=> n = t.root
           /\ t.parent[n] # n
  <1> DEFINE l == t.lchild[n]
             r == t.rchild[n]
  <1>1. /\ Joint(t, U, d, span, n) /\ n \in Node /\ NPOS \notin U
        /\ \A a \in U : d[a] \in Nat /\ a \in span[a]
        /\ n \in NodeOrNone /\ span[n] \subseteq U
    BY Positions DEF Shape, Joint, Keyed
  <1>2. l # NPOS => l \in U /\ l \in span[n] /\ d[l] < d[n]
    BY <1>1 DEF Joint
  <1>3. r # NPOS => r \in U /\ r \in span[n] /\ d[n] < d[r]
    BY <1>1 DEF Joint
  <1>4. n # NPOS /\ d[n] \in Nat /\ ~(d[n] < d[n])
    BY <1>1
  <1>5. l # n /\ r # n
    BY <1>2, <1>3, <1>4
  <1>6. l # NPOS \/ r # NPOS => l # r
    <2>1. CASE l # NPOS /\ r # NPOS
      <3>1. d[l] \in Nat /\ d[r] \in Nat /\ d[l] < d[n] /\ d[n] < d[r]
        BY <2>1, <1>1, <1>2, <1>3
      <3>2. d[l] # d[r]
        BY <3>1, <1>4
      <3> QED BY <3>2
    <2> QED BY <2>1
  <1>7. t.parent[n] = NPOS <=> n = t.root
    BY RootAlone
  <1>8. t.parent[n] # n
    <2>1. CASE n = t.root
      BY <2>1, <1>7, <1>4
    <2>2. CASE n # t.root
      BY <2>2, <1>1, <1>5 DEF Joint
    <2> QED BY <2>1, <2>2
  <1> QED BY <1>1, <1>2, <1>3, <1>5, <1>6, <1>7, <1>8

LEMMA HangIs ==
    ASSUME NEW t \in Trees, NEW pos \in NodeOrNone, NEW parent \in NodeOrNone,
           NEW u, u = [t EXCEPT !.parent[pos] = parent]
    PROVE  /\ u \in Trees
           /\ u.rchild = t.rchild /\ u.lchild = t.lchild
           /\ u.color = t.color /\ u.data = t.data /\ u.empty = t.empty /\ u.size = t.size
           /\ u.root = t.root
           /\ \A x \in NodeOrNone : u.parent[x] = IF x = pos THEN parent ELSE t.parent[x]
  BY DEF Trees

-----------------------------------------------------------------------------
(* Rotations.                                                              *)

\* What RotateRight makes of the links.
LEMMA RotateRightLinks ==
    ASSUME NEW t \in Trees, NEW n \in Node, NEW l \in Node, l = t.lchild[n], l # n,
           NEW c \in NodeOrNone, c = t.rchild[l], c # n, c # l,
           NEW p \in NodeOrNone, p = t.parent[n], p # n, p # l,
           NEW u, u = RotateRight(t, n)
    PROVE  /\ u \in Trees
           /\ u.color = t.color /\ u.data = t.data /\ u.empty = t.empty /\ u.size = t.size
           /\ u.root = IF p = NPOS THEN l ELSE t.root
           /\ \A x \in NodeOrNone :
                /\ u.lchild[x] = IF x = n THEN c
                                 ELSE IF x = p /\ p # NPOS /\ t.lchild[p] = n THEN l ELSE t.lchild[x]
                /\ u.rchild[x] = IF x = l THEN n
                                 ELSE IF x = p /\ p # NPOS /\ t.lchild[p] # n THEN l ELSE t.rchild[x]
                /\ u.parent[x] = IF x = n THEN l ELSE IF x = l THEN p
                                 ELSE IF x = c /\ c # NPOS THEN n ELSE t.parent[x]
  <1> DEFINE v == Replace(t, n, l)
             w == [v EXCEPT !.parent[l] = p, !.rchild[l] = n]
             z == [w EXCEPT !.parent[n] = l, !.lchild[n] = c]
  <1>1. n # NPOS /\ l # NPOS /\ n \in NodeOrNone /\ l \in NodeOrNone /\ NPOS \in NodeOrNone
    BY Positions
  <1>2. u = Hang(z, c, n)
    BY <1>1 DEF RotateRight, Left, Right
  <1>3. /\ v \in Trees
        /\ v.parent = t.parent
        /\ v.color = t.color /\ v.data = t.data /\ v.empty = t.empty /\ v.size = t.size
        /\ v.root = IF p = NPOS THEN l ELSE t.root
        /\ \A x \in NodeOrNone :
             /\ v.lchild[x] = IF x = p /\ p # NPOS /\ t.lchild[p] = n THEN l ELSE t.lchild[x]
             /\ v.rchild[x] = IF x = p /\ p # NPOS /\ t.lchild[p] # n THEN l ELSE t.rchild[x]
    <2>1. CASE p = NPOS
      BY <2>1, <1>1 DEF Replace, Trees
    <2>2. CASE p # NPOS /\ t.lchild[p] = n
      BY <2>2, <1>1 DEF Replace, Trees, Left
    <2>3. CASE p # NPOS /\ t.lchild[p] # n
      BY <2>3, <1>1 DEF Replace, Trees, Left
    <2> QED BY <2>1, <2>2, <2>3
  <1> HIDE DEF v
  <1>4. /\ w \in Trees
        /\ w.lchild = v.lchild
        /\ w.color = v.color /\ w.data = v.data /\ w.empty = v.empty /\ w.size = v.size /\ w.root = v.root
        /\ \A x \in NodeOrNone :
             /\ w.rchild[x] = IF x = l THEN n ELSE v.rchild[x]
             /\ w.parent[x] = IF x = l THEN p ELSE v.parent[x]
    BY <1>1, <1>3 DEF Trees
  <1> HIDE DEF w
  <1>5. /\ z \in Trees
        /\ z.rchild = w.rchild
        /\ z.color = w.color /\ z.data = w.data /\ z.empty = w.empty /\ z.size = w.size /\ z.root = w.root
        /\ \A x \in NodeOrNone :
             /\ z.lchild[x] = IF x = n THEN c ELSE w.lchild[x]
             /\ z.parent[x] = IF x = n THEN l ELSE w.parent[x]
    BY <1>1, <1>4 DEF Trees
  <1> HIDE DEF z
  <1>6. /\ u \in Trees
        /\ u.rchild = z.rchild /\ u.lchild = z.lchild
        /\ u.color = z.color /\ u.data = z.data /\ u.empty = z.empty /\ u.size = z.size /\ u.root = z.root
        /\ \A x \in NodeOrNone : u.parent[x] = IF x = c /\ c # NPOS THEN n ELSE z.parent[x]
    <2>1. CASE c = NPOS
      BY <2>1, <1>2, <1>5 DEF Hang
    <2>2. CASE c # NPOS
      <3>1. u = [z EXCEPT !.parent[c] = n]
        BY <2>2, <1>2 DEF Hang
      <3> QED BY <2>2, <3>1, <1>1, <1>5, HangIs
    <2> QED BY <2>1, <2>2
  <1>7. u.color = t.color /\ u.data = t.data /\ u.empty = t.empty /\ u.size = t.size
    BY <1>3, <1>4, <1>5, <1>6
  <1>8. u.root = IF p = NPOS THEN l ELSE t.root
    BY <1>3, <1>4, <1>5, <1>6
  <1>9. ASSUME NEW x \in NodeOrNone
        PROVE  /\ u.lchild[x] = IF x = n THEN c
                                ELSE IF x = p /\ p # NPOS /\ t.lchild[p] = n THEN l ELSE t.lchild[x]
               /\ u.rchild[x] = IF x = l THEN n
                                ELSE IF x = p /\ p # NPOS /\ t.lchild[p] # n THEN l ELSE t.rchild[x]
               /\ u.parent[x] = IF x = n THEN l ELSE IF x = l THEN p
                                ELSE IF x = c /\ c # NPOS THEN n ELSE t.parent[x]
    <2>1. u.lchild[x] = IF x = n THEN c ELSE v.lchild[x]
      BY <1>4, <1>5, <1>6
    <2>2. u.rchild[x] = IF x = l THEN n ELSE v.rchild[x]
      BY <1>4, <1>5, <1>6
    <2>3. u.parent[x] = IF x = c /\ c # NPOS THEN n ELSE IF x = n THEN l ELSE IF x = l THEN p ELSE t.parent[x]
      BY <1>3, <1>4, <1>5, <1>6
    <2>4. u.parent[x] = IF x = n THEN l ELSE IF x = l THEN p
                        ELSE IF x = c /\ c # NPOS THEN n ELSE t.parent[x]
      BY <2>3
    <2> QED BY <2>1, <2>2, <2>4, <1>3
  <1> QED BY <1>6, <1>7, <1>8, <1>9

\* A rotation to the right leaves a search tree of the same nodes.
LEMMA RotateRightShape ==
    ASSUME NEW t \in Trees, NEW U, U \subseteq Node, NEW d, NEW span, Shape(t, U, d, span),
           NEW n \in U, t.lchild[n] # NPOS, NEW u, u = RotateRight(t, n)
    PROVE  /\ \E s : Shape(u, U, d, s)
           /\ u \in Trees
           /\ u.color = t.color /\ u.data = t.data /\ u.empty = t.empty /\ u.size = t.size
           /\ u.root = IF n = t.root THEN t.lchild[n] ELSE t.root
           /\ u.rchild[n] = t.rchild[n] /\ u.lchild[n] = t.rchild[t.lchild[n]]
           /\ \A x \in U : /\ x # n /\ t.lchild[x] # n => u.lchild[x] = t.lchild[x]
                           /\ x # t.lchild[n] /\ t.rchild[x] # n => u.rchild[x] = t.rchild[x]
                           /\ t.lchild[x] = n => u.lchild[x] = t.lchild[n]
                           /\ t.rchild[x] = n => u.rchild[x] = t.lchild[n]
           /\ \A x \in NodeOrNone \ U : u.lchild[x] = t.lchild[x] /\ u.rchild[x] = t.rchild[x]
  <1> DEFINE l == t.lchild[n]
             r == t.rchild[n]
             c == t.rchild[l]
             p == t.parent[n]
             s == [x \in NodeOrNone |-> IF x = l THEN span[n]
                                        ELSE IF x = n THEN {m \in span[n] : d[l] < d[m]} ELSE span[x]]
  <1>1. /\ \A x \in U : /\ Joint(t, U, d, span, x) /\ x \in Node /\ x # NPOS /\ x \in NodeOrNone
                        /\ d[x] \in Nat /\ span[x] \subseteq U
        /\ NPOS \notin U /\ NPOS \in NodeOrNone /\ n \in U /\ l \in U
    BY Positions, Around DEF Shape, Keyed
  <1>2. /\ l # n /\ d[l] < d[n] /\ l \in span[n] /\ r # n /\ r # l /\ t.parent[l] = n
        /\ span[l] = {m \in span[n] : d[m] < d[n]} /\ span[r] = {m \in span[n] : d[n] < d[m]}
        /\ r # NPOS => r \in U /\ t.parent[r] = n /\ d[n] < d[r]
        /\ r \in U \cup {NPOS}
    BY <1>1, Around DEF Joint
  <1>3. /\ c # l /\ t.lchild[l] # l
        /\ c \in U \cup {NPOS} /\ t.lchild[l] \in U \cup {NPOS}
        /\ span[t.lchild[l]] = {m \in span[l] : d[m] < d[l]} /\ span[c] = {m \in span[l] : d[l] < d[m]}
        /\ c # NPOS => c \in U /\ t.parent[c] = l /\ c \in span[l] /\ c # t.lchild[l]
        /\ t.lchild[l] # NPOS => t.lchild[l] \in U /\ t.parent[t.lchild[l]] = l /\ t.lchild[l] \in span[l]
    BY <1>1, Around DEF Joint
  <1>4. n \notin span[l] /\ t.lchild[l] # n
    <2>1. \A m \in span[l] : m # n
      BY <1>1, <1>2
    <2> QED BY <2>1, <1>1, <1>3
  <1>5. c # n /\ (c # NPOS => c # r)
    <2>1. c # NPOS => c \in span[n] /\ d[c] < d[n]
      BY <1>2, <1>3
    <2>2. \A m \in span[n] : ~(d[m] < d[n] /\ d[n] < d[m])
      BY <1>1
    <2> QED BY <2>1, <2>2, <1>1, <1>2, <1>4
  <1>6. p # n /\ p # l /\ p \in U \cup {NPOS} /\ (p = NPOS <=> n = t.root)
        /\ (p # NPOS => /\ t.lchild[p] = n \/ t.rchild[p] = n
                        /\ ~(t.lchild[p] = n /\ t.rchild[p] = n) /\ p # c)
    <2>1. p # n /\ (p = NPOS <=> n = t.root)
      BY <1>1, Around
    <2>2. n # t.root => p \in U /\ (t.lchild[p] = n \/ t.rchild[p] = n)
      BY <1>1 DEF Joint
    <2>3. ASSUME p \in U PROVE n \in span[p] /\ ~(t.lchild[p] = n /\ t.rchild[p] = n)
      <3>1. \A x \in U : /\ t.lchild[x] # NPOS => t.lchild[x] \in span[x] /\ t.lchild[x] # t.rchild[x]
                         /\ t.rchild[x] # NPOS => t.rchild[x] \in span[x]
        BY Around
      <3> QED BY <3>1, <2>2, <2>1, <2>3, <1>1
    <2>4. p # l
      BY <2>3, <1>1, <1>4
    <2>5. ASSUME p # NPOS PROVE p # c
      <3>1. p \in U /\ n \in span[p]
        BY <2>1, <2>2, <2>3, <2>5
      <3>2. span[c] \subseteq span[l]
        BY <1>3
      <3> QED BY <3>1, <3>2, <1>4
    <2> QED BY <2>1, <2>2, <2>3, <2>4, <2>5
  <1>7. /\ u \in Trees
        /\ u.color = t.color /\ u.data = t.data /\ u.empty = t.empty /\ u.size = t.size
        /\ u.root = IF p = NPOS THEN l ELSE t.root
        /\ \A x \in NodeOrNone :
                /\ u.lchild[x] = IF x = n THEN c
                                 ELSE IF x = p /\ p # NPOS /\ t.lchild[p] = n THEN l ELSE t.lchild[x]
                /\ u.rchild[x] = IF x = l THEN n
                                 ELSE IF x = p /\ p # NPOS /\ t.lchild[p] # n THEN l ELSE t.rchild[x]
                /\ u.parent[x] = IF x = n THEN l ELSE IF x = l THEN p
                                 ELSE IF x = c /\ c # NPOS THEN n ELSE t.parent[x]
    <2>1. n \in Node /\ l \in Node /\ c \in NodeOrNone /\ p \in NodeOrNone
      BY <1>1, <1>3, <1>6
    <2> QED BY <2>1, <1>2, <1>3, <1>5, <1>6, RotateRightLinks
  \* a node other than n has n as a child only if it is p
  <1>8. ASSUME NEW x \in U
        PROVE  /\ t.lchild[x] = n \/ t.rchild[x] = n => x = p
               /\ t.lchild[x] = l \/ t.rchild[x] = l => x = n
               /\ c # NPOS /\ (t.lchild[x] = c \/ t.rchild[x] = c) => x = l
    BY <1>1, <1>2, <1>3 DEF Joint
  <1> HIDE DEF c, l, r, p, s
  <1>9. /\ u.rchild[n] = r /\ u.lchild[n] = c
        /\ \A x \in U : /\ x # n /\ t.lchild[x] # n => u.lchild[x] = t.lchild[x]
                        /\ x # l /\ t.rchild[x] # n => u.rchild[x] = t.rchild[x]
                        /\ t.lchild[x] = n => u.lchild[x] = l
                        /\ t.rchild[x] = n => u.rchild[x] = l
        /\ \A x \in NodeOrNone \ U : u.lchild[x] = t.lchild[x] /\ u.rchild[x] = t.rchild[x]
    <2>1. u.rchild[n] = r /\ u.lchild[n] = c
      BY <1>1, <1>2, <1>6, <1>7 DEF r
    <2>2. ASSUME NEW x \in U
          PROVE  /\ x # n /\ t.lchild[x] # n => u.lchild[x] = t.lchild[x]
                 /\ x # l /\ t.rchild[x] # n => u.rchild[x] = t.rchild[x]
                 /\ t.lchild[x] = n => u.lchild[x] = l
                 /\ t.rchild[x] = n => u.rchild[x] = l
      BY <2>2, <1>1, <1>6, <1>7, <1>8
    <2>3. ASSUME NEW x \in NodeOrNone \ U
          PROVE  u.lchild[x] = t.lchild[x] /\ u.rchild[x] = t.rchild[x]
      BY <2>3, <1>1, <1>6, <1>7
    <2> QED BY <2>1, <2>2, <2>3
  <1>10. /\ s \in [NodeOrNone -> SUBSET U] /\ s[l] = span[n]
         /\ s[n] = {m \in span[n] : d[l] < d[m]}
         /\ \A x \in NodeOrNone : x # l /\ x # n => s[x] = span[x]
    <2>1. span \in [NodeOrNone -> SUBSET U]
      BY DEF Shape
    <2>2. l \in NodeOrNone /\ n \in NodeOrNone
      BY <1>1
    <2> QED BY <2>1, <2>2, <1>2 DEF s
  <1>11. Joint(u, U, d, s, l)
    <2>1. u.lchild[l] = t.lchild[l] /\ u.rchild[l] = n /\ u.parent[n] = l /\ u.parent[l] = p
      BY <1>1, <1>2, <1>6, <1>7
    <2>2. s[t.lchild[l]] = {m \in s[l] : d[m] < d[l]}
      <3>1. t.lchild[l] # l /\ t.lchild[l] # n /\ t.lchild[l] \in NodeOrNone
        BY <1>1, <1>3, <1>4
      <3>2. s[t.lchild[l]] = {m \in span[l] : d[m] < d[l]}
        BY <3>1, <1>3, <1>10
      <3>3. \A m \in span[n] : d[m] \in Nat
        BY <1>1
      <3> QED BY <3>2, <3>3, <1>1, <1>2, <1>10
    <2>3. s[n] = {m \in s[l] : d[l] < d[m]}
      BY <1>10
    <2>4. t.lchild[l] # NPOS => u.parent[t.lchild[l]] = l
      <3>1. t.lchild[l] # l /\ t.lchild[l] # n /\ t.lchild[l] \in NodeOrNone /\ (t.lchild[l] # NPOS => t.lchild[l] # c)
        BY <1>1, <1>3, <1>4
      <3> QED BY <3>1, <1>3, <1>7
    <2>5. l # u.root => p \in U /\ (u.lchild[p] = l \/ u.rchild[p] = l)
      BY <1>6, <1>7, <1>9
    <2>6. l \in s[l] /\ u.lchild[l] \in U \cup {NPOS} /\ u.rchild[l] \in U \cup {NPOS}
      BY <2>1, <1>1, <1>2, <1>3, <1>10
    <2> QED BY <2>1, <2>2, <2>3, <2>4, <2>5, <2>6 DEF Joint
  <1>12. Joint(u, U, d, s, n)
    <2>1. u.lchild[n] = c /\ u.rchild[n] = r /\ u.parent[n] = l /\ u.rchild[l] = n
      BY <1>1, <1>7, <1>9
    <2>2. n \in s[n]
      BY <1>1, <1>2, <1>10 DEF Joint
    <2>3. s[c] = {m \in s[n] : d[m] < d[n]}
      <3>1. s[c] = {m \in span[l] : d[l] < d[m]}
        BY <1>1, <1>3, <1>5, <1>10
      <3> QED BY <3>1, <1>2, <1>10
    <2>4. s[r] = {m \in s[n] : d[n] < d[m]}
      <3>1. s[r] = {m \in span[n] : d[n] < d[m]}
        BY <1>1, <1>2, <1>10
      <3>2. \A m \in span[n] : d[n] < d[m] => d[l] < d[m]
        BY <1>1, <1>2
      <3> QED BY <3>1, <3>2, <1>10
    <2>5. c # NPOS => u.parent[c] = n
      BY <1>1, <1>3, <1>5, <1>7
    <2>6. r # NPOS => u.parent[r] = n
      <3>1. r # l /\ r # n /\ (c # NPOS => r # c) /\ r \in NodeOrNone
        BY <1>1, <1>2, <1>5
      <3> QED BY <3>1, <1>2, <1>7
    <2> QED BY <2>1, <2>2, <2>3, <2>4, <2>5, <2>6, <1>1, <1>2, <1>3 DEF Joint
  <1>13. ASSUME NEW x \in U, x # l, x # n PROVE Joint(u, U, d, s, x)
    <2> DEFINE y == t.lchild[x]
               z == t.rchild[x]
               q == t.parent[x]
    <2>1. Joint(t, U, d, span, x) /\ s[x] = span[x] /\ y # l /\ z # l /\ (y # NPOS => y # c) /\ (z # NPOS => z # c)
      <3>1. c = NPOS \/ c # NPOS
        OBVIOUS
      <3> QED BY <3>1, <1>1, <1>8, <1>10, <1>13
    <2>2. /\ u.lchild[x] = IF y = n THEN l ELSE y
          /\ u.rchild[x] = IF z = n THEN l ELSE z
      BY <1>9, <1>13
    <2>3. s[u.lchild[x]] = {m \in s[x] : d[m] < d[x]} /\ s[u.rchild[x]] = {m \in s[x] : d[x] < d[m]}
      <3>1. s[u.lchild[x]] = span[y]
        BY <2>1, <2>2, <1>1, <1>10 DEF Joint
      <3>2. s[u.rchild[x]] = span[z]
        BY <2>1, <2>2, <1>1, <1>10 DEF Joint
      <3> QED BY <3>1, <3>2, <2>1 DEF Joint
    <2>4. u.lchild[x] \in U \cup {NPOS} /\ u.rchild[x] \in U \cup {NPOS}
      BY <2>1, <2>2, <1>1 DEF Joint
    <2>5. u.lchild[x] # NPOS => u.parent[u.lchild[x]] = x
      <3>1. CASE y = n
        BY <3>1, <2>2, <1>1, <1>2, <1>7, <1>8
      <3>2. CASE y # n
        BY <3>2, <2>1, <2>2, <1>1, <1>7 DEF Joint
      <3> QED BY <3>1, <3>2
    <2>6. u.rchild[x] # NPOS => u.parent[u.rchild[x]] = x
      <3>1. CASE z = n
        BY <3>1, <2>2, <1>1, <1>2, <1>7, <1>8
      <3>2. CASE z # n
        BY <3>2, <2>1, <2>2, <1>1, <1>7 DEF Joint
      <3> QED BY <3>1, <3>2
    <2>7. ASSUME x # u.root
          PROVE  u.parent[x] \in U /\ (u.lchild[u.parent[x]] = x \/ u.rchild[u.parent[x]] = x)
      <3>1. x # t.root /\ q \in U /\ (t.lchild[q] = x \/ t.rchild[q] = x)
        BY <2>1, <2>7, <1>6, <1>7, <1>13 DEF Joint
      <3>2. CASE x = c
        BY <3>2, <1>1, <1>7, <1>13
      <3>3. CASE x # c
        <4>1. u.parent[x] = q
          BY <3>3, <1>1, <1>7, <1>13
        <4>2. CASE t.lchild[q] = x
          <5>1. q # n
            BY <4>2, <1>13 DEF l
          <5> QED BY <4>1, <4>2, <5>1, <3>1, <1>9, <1>13
        <4>3. CASE t.rchild[q] = x
          <5>1. q # l
            BY <4>3, <3>3 DEF c
          <5> QED BY <4>1, <4>3, <5>1, <3>1, <1>9, <1>13
        <4> QED BY <4>2, <4>3, <3>1
      <3> QED BY <3>2, <3>3
    <2>8. x \in s[x]
      BY <2>1 DEF Joint
    <2> QED BY <2>3, <2>4, <2>5, <2>6, <2>7, <2>8 DEF Joint
  <1>14. Convex(U, d, s)
    <2> SUFFICES ASSUME NEW x \in U, NEW a \in s[x], NEW b \in s[x], NEW m \in U, d[a] < d[m], d[m] < d[b]
                 PROVE  m \in s[x]
      BY DEF Convex
    <2>1. \A i \in U : \A e, f \in span[i] : \A g \in U : d[e] < d[g] /\ d[g] < d[f] => g \in span[i]
      BY DEF Shape, Convex
    <2>2. CASE x = l
      BY <2>1, <2>2, <1>1, <1>10
    <2>3. CASE x = n
      <3>1. a \in span[n] /\ b \in span[n] /\ d[l] < d[a]
        BY <2>3, <1>10
      <3>2. m \in span[n]
        BY <3>1, <2>1, <1>1
      <3>3. d[l] < d[m]
        BY <3>1, <1>1
      <3> QED BY <3>2, <3>3, <2>3, <1>10
    <2>4. CASE x # l /\ x # n
      BY <2>1, <2>4, <1>1, <1>10
    <2> QED BY <2>2, <2>3, <2>4
  <1>15. /\ s[NPOS] = {} /\ s[u.root] = U /\ u.root \in U \cup {NPOS}
         /\ u.root # NPOS => u.parent[u.root] = NPOS
    <2>1. s[NPOS] = {}
      BY <1>1, <1>10 DEF Shape
    <2>2. CASE p = NPOS
      <3>1. u.root = l /\ n = t.root /\ u.parent[l] = NPOS
        BY <2>2, <1>1, <1>2, <1>6, <1>7
      <3> QED BY <2>1, <3>1, <1>1, <1>10 DEF Shape
    <2>3. CASE p # NPOS
      <3>1. u.root = t.root /\ n # t.root
        BY <2>3, <1>6, <1>7
      <3>2. t.root # NPOS => t.root # l /\ (c # NPOS => t.root # c) /\ t.root \in U /\ t.parent[t.root] = NPOS
        BY <1>1, <1>2, <1>3 DEF Shape
      <3>3. u.root # NPOS => u.parent[u.root] = NPOS
        BY <3>1, <3>2, <1>1, <1>7
      <3>4. s[u.root] = span[t.root]
        BY <3>1, <3>2, <1>1, <1>10
      <3> QED BY <2>1, <3>1, <3>3, <3>4 DEF Shape
    <2> QED BY <2>2, <2>3
  <1>16. Shape(u, U, d, s)
    <2>1. \A x \in U : Joint(u, U, d, s, x)
      BY <1>11, <1>12, <1>13
    <2>2. Keyed(U, d)
      BY DEF Shape
    <2> QED BY <2>1, <2>2, <1>10, <1>14, <1>15 DEF Shape
  <1>17. u.root = IF n = t.root THEN l ELSE t.root
    BY <1>6, <1>7
  <1>18. \E i : Shape(u, U, d, i)
    BY <1>16
  <1> QED BY <1>7, <1>9, <1>17, <1>18 DEF l, r, c

\* What RotateLeft makes of the links.
LEMMA RotateLeftLinks ==
    ASSUME NEW t \in Trees, NEW n \in Node, NEW r \in Node, r = t.rchild[n], r # n,
           NEW c \in NodeOrNone, c = t.lchild[r], c # n, c # r,
           NEW p \in NodeOrNone, p = t.parent[n], p # n, p # r,
           p # NPOS => (t.rchild[p] = n <=> t.lchild[p] # n),
           NEW u, u = RotateLeft(t, n)
    PROVE  /\ u \in Trees
           /\ u.color = t.color /\ u.data = t.data /\ u.empty = t.empty /\ u.size = t.size
           /\ u.root = IF p = NPOS THEN r ELSE t.root
           /\ \A x \in NodeOrNone :
                /\ u.rchild[x] = IF x = n THEN c
                                 ELSE IF x = p /\ p # NPOS /\ t.rchild[p] = n THEN r ELSE t.rchild[x]
                /\ u.lchild[x] = IF x = r THEN n
                                 ELSE IF x = p /\ p # NPOS /\ t.rchild[p] # n THEN r ELSE t.lchild[x]
                /\ u.parent[x] = IF x = n THEN r ELSE IF x = r THEN p
                                 ELSE IF x = c /\ c # NPOS THEN n ELSE t.parent[x]
  <1> DEFINE v == Replace(t, n, r)
             w == [v EXCEPT !.parent[r] = p, !.lchild[r] = n]
             z == [w EXCEPT !.parent[n] = r, !.rchild[n] = c]
  <1>1. n # NPOS /\ r # NPOS /\ n \in NodeOrNone /\ r \in NodeOrNone /\ NPOS \in NodeOrNone
    BY Positions
  <1>2. u = Hang(z, c, n)
    BY <1>1 DEF RotateLeft, Right, Left
  <1>3. /\ v \in Trees
        /\ v.parent = t.parent
        /\ v.color = t.color /\ v.data = t.data /\ v.empty = t.empty /\ v.size = t.size
        /\ v.root = IF p = NPOS THEN r ELSE t.root
        /\ \A x \in NodeOrNone :
             /\ v.rchild[x] = IF x = p /\ p # NPOS /\ t.rchild[p] = n THEN r ELSE t.rchild[x]
             /\ v.lchild[x] = IF x = p /\ p # NPOS /\ t.rchild[p] # n THEN r ELSE t.lchild[x]
    <2>1. CASE p = NPOS
      BY <2>1, <1>1 DEF Replace, Trees
    <2>2. CASE p # NPOS /\ t.rchild[p] = n
      BY <2>2, <1>1 DEF Replace, Trees, Left
    <2>3. CASE p # NPOS /\ t.rchild[p] # n
      BY <2>3, <1>1 DEF Replace, Trees, Left
    <2> QED BY <2>1, <2>2, <2>3
  <1> HIDE DEF v
  <1>4. /\ w \in Trees
        /\ w.rchild = v.rchild
        /\ w.color = v.color /\ w.data = v.data /\ w.empty = v.empty /\ w.size = v.size /\ w.root = v.root
        /\ \A x \in NodeOrNone :
             /\ w.lchild[x] = IF x = r THEN n ELSE v.lchild[x]
             /\ w.parent[x] = IF x = r THEN p ELSE v.parent[x]
    BY <1>1, <1>3 DEF Trees
  <1> HIDE DEF w
  <1>5. /\ z \in Trees
        /\ z.lchild = w.lchild
        /\ z.color = w.color /\ z.data = w.data /\ z.empty = w.empty /\ z.size = w.size /\ z.root = w.root
        /\ \A x \in NodeOrNone :
             /\ z.rchild[x] = IF x = n THEN c ELSE w.rchild[x]
             /\ z.parent[x] = IF x = n THEN r ELSE w.parent[x]
    BY <1>1, <1>4 DEF Trees
  <1> HIDE DEF z
  <1>6. /\ u \in Trees
        /\ u.lchild = z.lchild /\ u.rchild = z.rchild
        /\ u.color = z.color /\ u.data = z.data /\ u.empty = z.empty /\ u.size = z.size /\ u.root = z.root
        /\ \A x \in NodeOrNone : u.parent[x] = IF x = c /\ c # NPOS THEN n ELSE z.parent[x]
    <2>1. CASE c = NPOS
      BY <2>1, <1>2, <1>5 DEF Hang
    <2>2. CASE c # NPOS
      <3>1. u = [z EXCEPT !.parent[c] = n]
        BY <2>2, <1>2 DEF Hang
      <3> QED BY <2>2, <3>1, <1>1, <1>5, HangIs
    <2> QED BY <2>1, <2>2
  <1>7. u.color = t.color /\ u.data = t.data /\ u.empty = t.empty /\ u.size = t.size
    BY <1>3, <1>4, <1>5, <1>6
  <1>8. u.root = IF p = NPOS THEN r ELSE t.root
    BY <1>3, <1>4, <1>5, <1>6
  <1>9. ASSUME NEW x \in NodeOrNone
        PROVE  /\ u.rchild[x] = IF x = n THEN c
                                ELSE IF x = p /\ p # NPOS /\ t.rchild[p] = n THEN r ELSE t.rchild[x]
               /\ u.lchild[x] = IF x = r THEN n
                                ELSE IF x = p /\ p # NPOS /\ t.rchild[p] # n THEN r ELSE t.lchild[x]
               /\ u.parent[x] = IF x = n THEN r ELSE IF x = r THEN p
                                ELSE IF x = c /\ c # NPOS THEN n ELSE t.parent[x]
    <2>1. u.rchild[x] = IF x = n THEN c ELSE v.rchild[x]
      BY <1>4, <1>5, <1>6
    <2>2. u.lchild[x] = IF x = r THEN n ELSE v.lchild[x]
      BY <1>4, <1>5, <1>6
    <2>3. u.parent[x] = IF x = c /\ c # NPOS THEN n ELSE IF x = n THEN r ELSE IF x = r THEN p ELSE t.parent[x]
      BY <1>3, <1>4, <1>5, <1>6
    <2>4. u.parent[x] = IF x = n THEN r ELSE IF x = r THEN p
                        ELSE IF x = c /\ c # NPOS THEN n ELSE t.parent[x]
      BY <2>3
    <2> QED BY <2>1, <2>2, <2>4, <1>3
  <1> QED BY <1>6, <1>7, <1>8, <1>9

\* A rotation to the left leaves a search tree of the same nodes.
LEMMA RotateLeftShape ==
    ASSUME NEW t \in Trees, NEW U, U \subseteq Node, NEW d, NEW span, Shape(t, U, d, span),
           NEW n \in U, t.rchild[n] # NPOS, NEW u, u = RotateLeft(t, n)
    PROVE  /\ \E s : Shape(u, U, d, s)
           /\ u \in Trees
           /\ u.color = t.color /\ u.data = t.data /\ u.empty = t.empty /\ u.size = t.size
           /\ u.root = IF n = t.root THEN t.rchild[n] ELSE t.root
           /\ u.lchild[n] = t.lchild[n] /\ u.rchild[n] = t.lchild[t.rchild[n]]
           /\ \A x \in U : /\ x # n /\ t.rchild[x] # n => u.rchild[x] = t.rchild[x]
                           /\ x # t.rchild[n] /\ t.lchild[x] # n => u.lchild[x] = t.lchild[x]
                           /\ t.rchild[x] = n => u.rchild[x] = t.rchild[n]
                           /\ t.lchild[x] = n => u.lchild[x] = t.rchild[n]
           /\ \A x \in NodeOrNone \ U : u.rchild[x] = t.rchild[x] /\ u.lchild[x] = t.lchild[x]
  <1> DEFINE r == t.rchild[n]
             l == t.lchild[n]
             c == t.lchild[r]
             p == t.parent[n]
             s == [x \in NodeOrNone |-> IF x = r THEN span[n]
                                        ELSE IF x = n THEN {m \in span[n] : d[m] < d[r]} ELSE span[x]]
  <1>1. /\ \A x \in U : /\ Joint(t, U, d, span, x) /\ x \in Node /\ x # NPOS /\ x \in NodeOrNone
                        /\ d[x] \in Nat /\ span[x] \subseteq U
        /\ NPOS \notin U /\ NPOS \in NodeOrNone /\ n \in U /\ r \in U
    BY Positions, Around DEF Shape, Keyed
  <1>2. /\ r # n /\ d[n] < d[r] /\ r \in span[n] /\ l # n /\ l # r /\ t.parent[r] = n
        /\ span[r] = {m \in span[n] : d[n] < d[m]} /\ span[l] = {m \in span[n] : d[m] < d[n]}
        /\ l # NPOS => l \in U /\ t.parent[l] = n /\ d[l] < d[n]
        /\ l \in U \cup {NPOS}
    BY <1>1, Around DEF Joint
  <1>3. /\ c # r /\ t.rchild[r] # r
        /\ c \in U \cup {NPOS} /\ t.rchild[r] \in U \cup {NPOS}
        /\ span[t.rchild[r]] = {m \in span[r] : d[r] < d[m]} /\ span[c] = {m \in span[r] : d[m] < d[r]}
        /\ c # NPOS => c \in U /\ t.parent[c] = r /\ c \in span[r] /\ c # t.rchild[r]
        /\ t.rchild[r] # NPOS => t.rchild[r] \in U /\ t.parent[t.rchild[r]] = r /\ t.rchild[r] \in span[r]
    BY <1>1, Around DEF Joint
  <1>4. n \notin span[r] /\ t.rchild[r] # n
    <2>1. \A m \in span[r] : m # n
      BY <1>1, <1>2
    <2> QED BY <2>1, <1>1, <1>3
  <1>5. c # n /\ (c # NPOS => c # l)
    <2>1. c # NPOS => c \in span[n] /\ d[n] < d[c]
      BY <1>2, <1>3
    <2>2. \A m \in span[n] : ~(d[n] < d[m] /\ d[m] < d[n])
      BY <1>1
    <2> QED BY <2>1, <2>2, <1>1, <1>2, <1>4
  <1>6. p # n /\ p # r /\ p \in U \cup {NPOS} /\ (p = NPOS <=> n = t.root)
        /\ (p # NPOS => /\ t.rchild[p] = n \/ t.lchild[p] = n
                        /\ ~(t.rchild[p] = n /\ t.lchild[p] = n) /\ p # c)
    <2>1. p # n /\ (p = NPOS <=> n = t.root)
      BY <1>1, Around
    <2>2. n # t.root => p \in U /\ (t.rchild[p] = n \/ t.lchild[p] = n)
      BY <1>1 DEF Joint
    <2>3. ASSUME p \in U PROVE n \in span[p] /\ ~(t.rchild[p] = n /\ t.lchild[p] = n)
      <3>1. \A x \in U : /\ t.rchild[x] # NPOS => t.rchild[x] \in span[x] /\ t.rchild[x] # t.lchild[x]
                         /\ t.lchild[x] # NPOS => t.lchild[x] \in span[x]
        BY Around
      <3> QED BY <3>1, <2>2, <2>1, <2>3, <1>1
    <2>4. p # r
      BY <2>3, <1>1, <1>4
    <2>5. ASSUME p # NPOS PROVE p # c
      <3>1. p \in U /\ n \in span[p]
        BY <2>1, <2>2, <2>3, <2>5
      <3>2. span[c] \subseteq span[r]
        BY <1>3
      <3> QED BY <3>1, <3>2, <1>4
    <2> QED BY <2>1, <2>2, <2>3, <2>4, <2>5
  <1>7. /\ u \in Trees
        /\ u.color = t.color /\ u.data = t.data /\ u.empty = t.empty /\ u.size = t.size
        /\ u.root = IF p = NPOS THEN r ELSE t.root
        /\ \A x \in NodeOrNone :
                /\ u.rchild[x] = IF x = n THEN c
                                 ELSE IF x = p /\ p # NPOS /\ t.rchild[p] = n THEN r ELSE t.rchild[x]
                /\ u.lchild[x] = IF x = r THEN n
                                 ELSE IF x = p /\ p # NPOS /\ t.rchild[p] # n THEN r ELSE t.lchild[x]
                /\ u.parent[x] = IF x = n THEN r ELSE IF x = r THEN p
                                 ELSE IF x = c /\ c # NPOS THEN n ELSE t.parent[x]
    <2>1. n \in Node /\ r \in Node /\ c \in NodeOrNone /\ p \in NodeOrNone
          /\ (p # NPOS => (t.rchild[p] = n <=> t.lchild[p] # n))
      BY <1>1, <1>3, <1>6
    <2> QED BY <2>1, <1>2, <1>3, <1>5, <1>6, RotateLeftLinks
  \* a node other than n has n as a child only if it is p
  <1>8. ASSUME NEW x \in U
        PROVE  /\ t.rchild[x] = n \/ t.lchild[x] = n => x = p
               /\ t.rchild[x] = r \/ t.lchild[x] = r => x = n
               /\ c # NPOS /\ (t.rchild[x] = c \/ t.lchild[x] = c) => x = r
    BY <1>1, <1>2, <1>3 DEF Joint
  <1> HIDE DEF c, r, l, p, s
  <1>9. /\ u.lchild[n] = l /\ u.rchild[n] = c
        /\ \A x \in U : /\ x # n /\ t.rchild[x] # n => u.rchild[x] = t.rchild[x]
                        /\ x # r /\ t.lchild[x] # n => u.lchild[x] = t.lchild[x]
                        /\ t.rchild[x] = n => u.rchild[x] = r
                        /\ t.lchild[x] = n => u.lchild[x] = r
        /\ \A x \in NodeOrNone \ U : u.rchild[x] = t.rchild[x] /\ u.lchild[x] = t.lchild[x]
    <2>1. u.lchild[n] = l /\ u.rchild[n] = c
      BY <1>1, <1>2, <1>6, <1>7 DEF l
    <2>2. ASSUME NEW x \in U
          PROVE  /\ x # n /\ t.rchild[x] # n => u.rchild[x] = t.rchild[x]
                 /\ x # r /\ t.lchild[x] # n => u.lchild[x] = t.lchild[x]
                 /\ t.rchild[x] = n => u.rchild[x] = r
                 /\ t.lchild[x] = n => u.lchild[x] = r
      BY <2>2, <1>1, <1>6, <1>7, <1>8
    <2>3. ASSUME NEW x \in NodeOrNone \ U
          PROVE  u.rchild[x] = t.rchild[x] /\ u.lchild[x] = t.lchild[x]
      BY <2>3, <1>1, <1>6, <1>7
    <2> QED BY <2>1, <2>2, <2>3
  <1>10. /\ s \in [NodeOrNone -> SUBSET U] /\ s[r] = span[n]
         /\ s[n] = {m \in span[n] : d[m] < d[r]}
         /\ \A x \in NodeOrNone : x # r /\ x # n => s[x] = span[x]
    <2>1. span \in [NodeOrNone -> SUBSET U]
      BY DEF Shape
    <2>2. r \in NodeOrNone /\ n \in NodeOrNone
      BY <1>1
    <2> QED BY <2>1, <2>2, <1>2 DEF s
  <1>11. Joint(u, U, d, s, r)
    <2>1. u.rchild[r] = t.rchild[r] /\ u.lchild[r] = n /\ u.parent[n] = r /\ u.parent[r] = p
      BY <1>1, <1>2, <1>6, <1>7
    <2>2. s[t.rchild[r]] = {m \in s[r] : d[r] < d[m]}
      <3>1. t.rchild[r] # r /\ t.rchild[r] # n /\ t.rchild[r] \in NodeOrNone
        BY <1>1, <1>3, <1>4
      <3>2. s[t.rchild[r]] = {m \in span[r] : d[r] < d[m]}
        BY <3>1, <1>3, <1>10
      <3>3. \A m \in span[n] : d[m] \in Nat
        BY <1>1
      <3> QED BY <3>2, <3>3, <1>1, <1>2, <1>10
    <2>3. s[n] = {m \in s[r] : d[m] < d[r]}
      BY <1>10
    <2>4. t.rchild[r] # NPOS => u.parent[t.rchild[r]] = r
      <3>1. t.rchild[r] # r /\ t.rchild[r] # n /\ t.rchild[r] \in NodeOrNone /\ (t.rchild[r] # NPOS => t.rchild[r] # c)
        BY <1>1, <1>3, <1>4
      <3> QED BY <3>1, <1>3, <1>7
    <2>5. r # u.root => p \in U /\ (u.rchild[p] = r \/ u.lchild[p] = r)
      BY <1>6, <1>7, <1>9
    <2>6. r \in s[r] /\ u.rchild[r] \in U \cup {NPOS} /\ u.lchild[r] \in U \cup {NPOS}
      BY <2>1, <1>1, <1>2, <1>3, <1>10
    <2> QED BY <2>1, <2>2, <2>3, <2>4, <2>5, <2>6 DEF Joint
  <1>12. Joint(u, U, d, s, n)
    <2>1. u.rchild[n] = c /\ u.lchild[n] = l /\ u.parent[n] = r /\ u.lchild[r] = n
      BY <1>1, <1>7, <1>9
    <2>2. n \in s[n]
      BY <1>1, <1>2, <1>10 DEF Joint
    <2>3. s[c] = {m \in s[n] : d[n] < d[m]}
      <3>1. s[c] = {m \in span[r] : d[m] < d[r]}
        BY <1>1, <1>3, <1>5, <1>10
      <3> QED BY <3>1, <1>2, <1>10
    <2>4. s[l] = {m \in s[n] : d[m] < d[n]}
      <3>1. s[l] = {m \in span[n] : d[m] < d[n]}
        BY <1>1, <1>2, <1>10
      <3>2. \A m \in span[n] : d[m] < d[n] => d[m] < d[r]
        BY <1>1, <1>2
      <3> QED BY <3>1, <3>2, <1>10
    <2>5. c # NPOS => u.parent[c] = n
      BY <1>1, <1>3, <1>5, <1>7
    <2>6. l # NPOS => u.parent[l] = n
      <3>1. l # r /\ l # n /\ (c # NPOS => l # c) /\ l \in NodeOrNone
        BY <1>1, <1>2, <1>5
      <3> QED BY <3>1, <1>2, <1>7
    <2> QED BY <2>1, <2>2, <2>3, <2>4, <2>5, <2>6, <1>1, <1>2, <1>3 DEF Joint
  <1>13. ASSUME NEW x \in U, x # r, x # n PROVE Joint(u, U, d, s, x)
    <2> DEFINE y == t.rchild[x]
               z == t.lchild[x]
               q == t.parent[x]
    <2>1. Joint(t, U, d, span, x) /\ s[x] = span[x] /\ y # r /\ z # r /\ (y # NPOS => y # c) /\ (z # NPOS => z # c)
      <3>1. c = NPOS \/ c # NPOS
        OBVIOUS
      <3> QED BY <3>1, <1>1, <1>8, <1>10, <1>13
    <2>2. /\ u.rchild[x] = IF y = n THEN r ELSE y
          /\ u.lchild[x] = IF z = n THEN r ELSE z
      BY <1>9, <1>13
    <2>3. s[u.rchild[x]] = {m \in s[x] : d[x] < d[m]} /\ s[u.lchild[x]] = {m \in s[x] : d[m] < d[x]}
      <3>1. s[u.rchild[x]] = span[y]
        BY <2>1, <2>2, <1>1, <1>10 DEF Joint
      <3>2. s[u.lchild[x]] = span[z]
        BY <2>1, <2>2, <1>1, <1>10 DEF Joint
      <3> QED BY <3>1, <3>2, <2>1 DEF Joint
    <2>4. u.rchild[x] \in U \cup {NPOS} /\ u.lchild[x] \in U \cup {NPOS}
      BY <2>1, <2>2, <1>1 DEF Joint
    <2>5. u.rchild[x] # NPOS => u.parent[u.rchild[x]] = x
      <3>1. CASE y = n
        BY <3>1, <2>2, <1>1, <1>2, <1>7, <1>8
      <3>2. CASE y # n
        BY <3>2, <2>1, <2>2, <1>1, <1>7 DEF Joint
      <3> QED BY <3>1, <3>2
    <2>6. u.lchild[x] # NPOS => u.parent[u.lchild[x]] = x
      <3>1. CASE z = n
        BY <3>1, <2>2, <1>1, <1>2, <1>7, <1>8
      <3>2. CASE z # n
        BY <3>2, <2>1, <2>2, <1>1, <1>7 DEF Joint
      <3> QED BY <3>1, <3>2
    <2>7. ASSUME x # u.root
          PROVE  u.parent[x] \in U /\ (u.rchild[u.parent[x]] = x \/ u.lchild[u.parent[x]] = x)
      <3>1. x # t.root /\ q \in U /\ (t.rchild[q] = x \/ t.lchild[q] = x)
        BY <2>1, <2>7, <1>6, <1>7, <1>13 DEF Joint
      <3>2. CASE x = c
        BY <3>2, <1>1, <1>7, <1>13
      <3>3. CASE x # c
        <4>1. u.parent[x] = q
          BY <3>3, <1>1, <1>7, <1>13
        <4>2. CASE t.rchild[q] = x
          <5>1. q # n
            BY <4>2, <1>13 DEF r
          <5> QED BY <4>1, <4>2, <5>1, <3>1, <1>9, <1>13
        <4>3. CASE t.lchild[q] = x
          <5>1. q # r
            BY <4>3, <3>3 DEF c
          <5> QED BY <4>1, <4>3, <5>1, <3>1, <1>9, <1>13
        <4> QED BY <4>2, <4>3, <3>1
      <3> QED BY <3>2, <3>3
    <2>8. x \in s[x]
      BY <2>1 DEF Joint
    <2> QED BY <2>3, <2>4, <2>5, <2>6, <2>7, <2>8 DEF Joint
  <1>14. Convex(U, d, s)
    <2> SUFFICES ASSUME NEW x \in U, NEW a \in s[x], NEW b \in s[x], NEW m \in U, d[a] < d[m], d[m] < d[b]
                 PROVE  m \in s[x]
      BY DEF Convex
    <2>1. \A i \in U : \A e, f \in span[i] : \A g \in U : d[e] < d[g] /\ d[g] < d[f] => g \in span[i]
      BY DEF Shape, Convex
    <2>2. CASE x = r
      BY <2>1, <2>2, <1>1, <1>10
    <2>3. CASE x = n
      <3>1. a \in span[n] /\ b \in span[n] /\ d[b] < d[r]
        BY <2>3, <1>10
      <3>2. m \in span[n]
        BY <3>1, <2>1, <1>1
      <3>3. d[m] < d[r]
        BY <3>1, <1>1
      <3> QED BY <3>2, <3>3, <2>3, <1>10
    <2>4. CASE x # r /\ x # n
      BY <2>1, <2>4, <1>1, <1>10
    <2> QED BY <2>2, <2>3, <2>4
  <1>15. /\ s[NPOS] = {} /\ s[u.root] = U /\ u.root \in U \cup {NPOS}
         /\ u.root # NPOS => u.parent[u.root] = NPOS
    <2>1. s[NPOS] = {}
      BY <1>1, <1>10 DEF Shape
    <2>2. CASE p = NPOS
      <3>1. u.root = r /\ n = t.root /\ u.parent[r] = NPOS
        BY <2>2, <1>1, <1>2, <1>6, <1>7
      <3> QED BY <2>1, <3>1, <1>1, <1>10 DEF Shape
    <2>3. CASE p # NPOS
      <3>1. u.root = t.root /\ n # t.root
        BY <2>3, <1>6, <1>7
      <3>2. t.root # NPOS => t.root # r /\ (c # NPOS => t.root # c) /\ t.root \in U /\ t.parent[t.root] = NPOS
        BY <1>1, <1>2, <1>3 DEF Shape
      <3>3. u.root # NPOS => u.parent[u.root] = NPOS
        BY <3>1, <3>2, <1>1, <1>7
      <3>4. s[u.root] = span[t.root]
        BY <3>1, <3>2, <1>1, <1>10
      <3> QED BY <2>1, <3>1, <3>3, <3>4 DEF Shape
    <2> QED BY <2>2, <2>3
  <1>16. Shape(u, U, d, s)
    <2>1. \A x \in U : Joint(u, U, d, s, x)
      BY <1>11, <1>12, <1>13
    <2>2. Keyed(U, d)
      BY DEF Shape
    <2> QED BY <2>1, <2>2, <1>10, <1>14, <1>15 DEF Shape
  <1>17. u.root = IF n = t.root THEN r ELSE t.root
    BY <1>6, <1>7
  <1>18. \E i : Shape(u, U, d, i)
    BY <1>16
  <1> QED BY <1>7, <1>9, <1>17, <1>18 DEF r, l, c

\* The shape is in the links alone.
LEMMA SameShape ==
    ASSUME NEW t, NEW u, NEW U, NEW d, NEW span, Shape(t, U, d, span),
           u.lchild = t.lchild, u.rchild = t.rchild, u.parent = t.parent, u.root = t.root
    PROVE  Shape(u, U, d, span)
  BY DEF Shape, Joint

LEMMA KeptTwice ==
    ASSUME NEW t, NEW u, NEW v, NEW U, Kept(t, u, U), Kept(u, v, U)
    PROVE  Kept(t, v, U)
  BY DEF Kept

-----------------------------------------------------------------------------
(* What the fixups are made of: a node in use is painted, or rotated with  *)
(* a child that is there.                                                  *)

RootBlack(t) == t.color[t.root] = "BLACK"

Painted(t, u, n, c, U, d) ==
    /\ Woods(u, U, d) /\ Kept(t, u, U)
    /\ u.lchild = t.lchild /\ u.rchild = t.rchild /\ u.parent = t.parent /\ u.root = t.root
    /\ \A x \in NodeOrNone : u.color[x] = IF x = n THEN c ELSE t.color[x]

LEMMA PaintKeeps ==
    ASSUME NEW t, NEW U, NEW d, Woods(t, U, d), NEW n \in U, NEW c \in {"BLACK", "RED"},
           NEW u, u = Paint(t, n, c)
    PROVE  Painted(t, u, n, c, U, d) /\ Woods(u, U, d)
  <1>1. t \in Trees /\ n \in Node /\ n \in NodeOrNone /\ NPOS \in NodeOrNone /\ n # NPOS
    BY Positions DEF Woods, Leafy
  <1>2. /\ u \in Trees /\ u.data = t.data /\ u.empty = t.empty /\ u.size = t.size
        /\ u.lchild = t.lchild /\ u.rchild = t.rchild /\ u.parent = t.parent /\ u.root = t.root
        /\ \A x \in NodeOrNone : u.color[x] = IF x = n THEN c ELSE t.color[x]
    BY <1>1 DEF Paint, Trees, Colors
  <1>3. \E span : Shape(u, U, d, span)
    BY <1>2, SameShape DEF Woods
  <1>4. Leafy(u) /\ \A x \in Node : x \in U <=> u.color[x] # "EMPTY"
    BY <1>1, <1>2, Positions DEF Woods, Leafy
  <1> QED BY <1>2, <1>3, <1>4 DEF Woods, Kept, Painted

LEMMA RotateRightKeeps ==
    ASSUME NEW t, NEW U, NEW d, Woods(t, U, d), NEW n \in U, t.lchild[n] # NPOS,
           NEW u, u = RotateRight(t, n)
    PROVE  /\ Woods(u, U, d) /\ Kept(t, u, U) /\ u.color = t.color
           /\ u.root = IF n = t.root THEN t.lchild[n] ELSE t.root
           /\ u.rchild[n] = t.rchild[n] /\ u.lchild[n] = t.rchild[t.lchild[n]]
           /\ \A x \in U : /\ x # n /\ t.lchild[x] # n => u.lchild[x] = t.lchild[x]
                           /\ x # t.lchild[n] /\ t.rchild[x] # n => u.rchild[x] = t.rchild[x]
                           /\ t.lchild[x] = n => u.lchild[x] = t.lchild[n]
                           /\ t.rchild[x] = n => u.rchild[x] = t.lchild[n]
  <1>1. PICK span : Shape(t, U, d, span)
    BY DEF Woods
  <1>2. t \in Trees /\ U \subseteq Node
    BY DEF Woods, Leafy
  <1>3. /\ \E s : Shape(u, U, d, s)
        /\ u \in Trees
        /\ u.color = t.color /\ u.data = t.data /\ u.empty = t.empty /\ u.size = t.size
        /\ u.root = IF n = t.root THEN t.lchild[n] ELSE t.root
        /\ u.rchild[n] = t.rchild[n] /\ u.lchild[n] = t.rchild[t.lchild[n]]
        /\ \A x \in U : /\ x # n /\ t.lchild[x] # n => u.lchild[x] = t.lchild[x]
                        /\ x # t.lchild[n] /\ t.rchild[x] # n => u.rchild[x] = t.rchild[x]
                        /\ t.lchild[x] = n => u.lchild[x] = t.lchild[n]
                        /\ t.rchild[x] = n => u.rchild[x] = t.lchild[n]
        /\ \A x \in NodeOrNone \ U : u.lchild[x] = t.lchild[x] /\ u.rchild[x] = t.rchild[x]
    BY <1>1, <1>2, RotateRightShape
  <1>4. NPOS \in NodeOrNone \ U
    BY <1>2, Positions
  <1>5. Leafy(u) /\ \A x \in Node : x \in U <=> u.color[x] # "EMPTY"
    BY <1>3, <1>4 DEF Woods, Leafy
  <1> QED BY <1>2, <1>3, <1>5 DEF Woods, Kept

LEMMA RotateLeftKeeps ==
    ASSUME NEW t, NEW U, NEW d, Woods(t, U, d), NEW n \in U, t.rchild[n] # NPOS,
           NEW u, u = RotateLeft(t, n)
    PROVE  /\ Woods(u, U, d) /\ Kept(t, u, U) /\ u.color = t.color
           /\ u.root = IF n = t.root THEN t.rchild[n] ELSE t.root
           /\ u.lchild[n] = t.lchild[n] /\ u.rchild[n] = t.lchild[t.rchild[n]]
           /\ \A x \in U : /\ x # n /\ t.rchild[x] # n => u.rchild[x] = t.rchild[x]
                           /\ x # t.rchild[n] /\ t.lchild[x] # n => u.lchild[x] = t.lchild[x]
                           /\ t.rchild[x] = n => u.rchild[x] = t.rchild[n]
                           /\ t.lchild[x] = n => u.lchild[x] = t.rchild[n]
  <1>1. PICK span : Shape(t, U, d, span)
    BY DEF Woods
  <1>2. t \in Trees /\ U \subseteq Node
    BY DEF Woods, Leafy
  <1>3. /\ \E s : Shape(u, U, d, s)
        /\ u \in Trees
        /\ u.color = t.color /\ u.data = t.data /\ u.empty = t.empty /\ u.size = t.size
        /\ u.root = IF n = t.root THEN t.rchild[n] ELSE t.root
        /\ u.lchild[n] = t.lchild[n] /\ u.rchild[n] = t.lchild[t.rchild[n]]
        /\ \A x \in U : /\ x # n /\ t.rchild[x] # n => u.rchild[x] = t.rchild[x]
                        /\ x # t.rchild[n] /\ t.lchild[x] # n => u.lchild[x] = t.lchild[x]
                        /\ t.rchild[x] = n => u.rchild[x] = t.rchild[n]
                        /\ t.lchild[x] = n => u.lchild[x] = t.rchild[n]
        /\ \A x \in NodeOrNone \ U : u.rchild[x] = t.rchild[x] /\ u.lchild[x] = t.lchild[x]
    BY <1>1, <1>2, RotateLeftShape
  <1>4. NPOS \in NodeOrNone \ U
    BY <1>2, Positions
  <1>5. Leafy(u) /\ \A x \in Node : x \in U <=> u.color[x] # "EMPTY"
    BY <1>3, <1>4 DEF Woods, Leafy
  <1> QED BY <1>2, <1>3, <1>5 DEF Woods, Kept

\* A node in use and its neighbours.
LEMMA Neighbours ==
    ASSUME NEW t, NEW U, NEW d, Woods(t, U, d), NEW n \in U
    PROVE  /\ n \in Node /\ n \in NodeOrNone /\ n # NPOS /\ NPOS \notin U
           /\ t.color[n] \in {"BLACK", "RED"}
           /\ t.lchild[n] \in U \cup {NPOS} /\ t.rchild[n] \in U \cup {NPOS}
           /\ t.lchild[n] # n /\ t.rchild[n] # n /\ t.parent[n] # n
           /\ t.lchild[n] # NPOS => t.parent[t.lchild[n]] = n /\ t.lchild[n] # t.rchild[n] /\ t.lchild[n] # t.root
           /\ t.rchild[n] # NPOS => t.parent[t.rchild[n]] = n /\ t.lchild[n] # t.rchild[n] /\ t.rchild[n] # t.root
           /\ t.parent[n] = NPOS <=> n = t.root
           /\ n # t.root => /\ t.parent[n] \in U
                            /\ t.lchild[t.parent[n]] = n \/ t.rchild[t.parent[n]] = n
  <1>1. PICK span : Shape(t, U, d, span)
    BY DEF Woods
  <1>2. t \in Trees /\ U \subseteq Node /\ n \in Node /\ n \in NodeOrNone /\ n # NPOS /\ NPOS \notin U
    BY Positions DEF Woods, Leafy
  <1>3. Joint(t, U, d, span, n) /\ (t.root # NPOS => t.parent[t.root] = NPOS)
    BY <1>1 DEF Shape
  <1>4. t.color[n] \in {"BLACK", "RED"}
    <2>1. t.color[n] \in Colors /\ t.color[n] # "EMPTY"
      BY <1>2 DEF Trees, Woods
    <2> QED BY <2>1 DEF Colors
  <1>5. /\ t.lchild[n] # n /\ t.rchild[n] # n /\ t.parent[n] # n
        /\ t.lchild[n] # NPOS => t.lchild[n] # t.rchild[n]
        /\ t.rchild[n] # NPOS => t.lchild[n] # t.rchild[n]
        /\ t.parent[n] = NPOS <=> n = t.root
    BY <1>1, <1>2, Around
  <1> QED BY <1>2, <1>3, <1>4, <1>5 DEF Joint

LEMMA LeafyLinks ==
    ASSUME NEW t, Leafy(t), NEW p
    PROVE  Left(t, p) = t.lchild[p] /\ Right(t, p) = t.rchild[p]
  BY DEF Leafy, Left, Right

-----------------------------------------------------------------------------
(* The fixup of an insertion.                                              *)

\* where red may be wrong: at new and nowhere else but below it
Fixing(t, u, new, U, d) ==
    /\ Woods(u, U, d) /\ Kept(t, u, U)
    /\ new \in U /\ (RootBlack(u) \/ u.root = new)

\* A red parent is not the root, so that there is a grandparent.
LEMMA RedParent ==
    ASSUME NEW t, NEW u, NEW new, NEW U, NEW d, Fixing(t, u, new, U, d),
           NEW parent, parent = u.parent[new], parent # NPOS, u.color[parent] # "BLACK",
           NEW grand, grand = u.parent[parent]
    PROVE  /\ parent \in U /\ grand \in U /\ new \in U
           /\ new # u.root /\ parent # u.root /\ new # parent /\ grand # parent
           /\ u.lchild[parent] = new \/ u.rchild[parent] = new
           /\ u.lchild[grand] = parent \/ u.rchild[grand] = parent
           /\ u.parent[new] = parent /\ RootBlack(u)
  <1>1. Woods(u, U, d) /\ new \in U /\ (RootBlack(u) \/ u.root = new)
    BY DEF Fixing
  <1>2. new # u.root /\ parent \in U /\ new # parent /\ (u.lchild[parent] = new \/ u.rchild[parent] = new)
    BY <1>1, Neighbours
  <1>3. parent # u.root /\ RootBlack(u)
    BY <1>1, <1>2 DEF RootBlack
  <1>4. grand \in U /\ grand # parent /\ (u.lchild[grand] = parent \/ u.rchild[grand] = parent)
    BY <1>1, <1>2, <1>3, Neighbours
  <1> QED BY <1>2, <1>3, <1>4, <1>1

LEMMA PassRedUpKeeps ==
    ASSUME NEW t, NEW u, NEW new, NEW U, NEW d, Fixing(t, u, new, U, d), UncleIsRed(u, new)
    PROVE  Fixing(t, PassRedUp(u, new), u.parent[u.parent[new]], U, d)
  <1> DEFINE parent == u.parent[new]
             grand == u.parent[parent]
             uncle == BrotherOf(u, parent)
             v == Paint(u, uncle, "BLACK")
             w == Paint(v, parent, "BLACK")
             z == Paint(w, grand, "RED")
  <1>1. parent # NPOS /\ u.color[parent] = "RED" /\ u.color[uncle] = "RED"
    BY DEF UncleIsRed
  <1>2. Woods(u, U, d) /\ Kept(t, u, U) /\ Leafy(u)
    BY DEF Fixing, Woods
  <1>3. parent \in U /\ grand \in U /\ parent # u.root /\ RootBlack(u)
    <2>1. u.color[parent] # "BLACK"
      BY <1>1
    <2> QED BY <1>1, <2>1, RedParent
  <1>4. uncle \in U /\ uncle # u.root
    <2>1. uncle = u.lchild[grand] \/ uncle = u.rchild[grand]
      BY <1>1, <1>2, LeafyLinks DEF BrotherOf
    <2>2. uncle # NPOS
      BY <1>1, <1>2 DEF Leafy
    <2> QED BY <2>1, <2>2, <1>2, <1>3, Neighbours
  <1>5. u.root \in NodeOrNone
    BY <1>2 DEF Leafy, Trees
  <1> HIDE DEF parent, grand, uncle
  <1>6. Painted(u, v, uncle, "BLACK", U, d) /\ Woods(v, U, d)
    BY <1>2, <1>4, PaintKeeps
  <1> HIDE DEF v
  <1>7. Painted(v, w, parent, "BLACK", U, d) /\ Woods(w, U, d)
    BY <1>3, <1>6, PaintKeeps
  <1> HIDE DEF w
  <1>8. Painted(w, z, grand, "RED", U, d) /\ Woods(z, U, d)
    BY <1>3, <1>7, PaintKeeps
  <1> HIDE DEF z
  <1>9. Kept(t, z, U)
    BY <1>2, <1>6, <1>7, <1>8, KeptTwice DEF Painted
  <1>10. RootBlack(z) \/ z.root = grand
    BY <1>3, <1>5, <1>6, <1>7, <1>8 DEF RootBlack, Painted
  <1>11. Fixing(t, z, grand, U, d)
    BY <1>3, <1>8, <1>9, <1>10 DEF Fixing, Painted
  <1>12. z = PassRedUp(u, new)
    BY DEF z, w, v, PassRedUp, parent, grand, uncle
  <1> QED BY <1>11, <1>12 DEF grand, parent

LEMMA LiftParentKeeps ==
    ASSUME NEW t, NEW U, NEW d, Woods(t, U, d), RootBlack(t), NEW parent \in U, NEW grand \in U,
           t.lchild[grand] = parent \/ t.rchild[grand] = parent,
           NEW u, u = LiftParent(t, parent, grand)
    PROVE  Woods(u, U, d) /\ Kept(t, u, U) /\ RootBlack(u)
  <1> DEFINE v == Paint(t, parent, "BLACK")
             w == Paint(v, grand, "RED")
  <1>1. Painted(t, v, parent, "BLACK", U, d) /\ Woods(v, U, d)
    BY PaintKeeps
  <1>2. Leafy(t)
    BY DEF Woods
  <1>3. u = IF parent = t.lchild[grand] THEN RotateRight(w, grand) ELSE RotateLeft(w, grand)
    BY <1>2, LeafyLinks DEF LiftParent
  <1> HIDE DEF v
  <1>4. Painted(v, w, grand, "RED", U, d) /\ Woods(w, U, d)
    BY <1>1, PaintKeeps
  <1> HIDE DEF w
  <1>5. parent # NPOS /\ parent # grand /\ parent \in NodeOrNone /\ parent # t.root
    BY Neighbours
  <1>6. /\ Woods(u, U, d) /\ Kept(w, u, U) /\ u.color = w.color
        /\ u.root = IF grand = w.root THEN parent ELSE w.root
    <2>1. CASE parent = t.lchild[grand]
      BY <2>1, <1>1, <1>3, <1>4, <1>5, RotateRightKeeps DEF Painted
    <2>2. CASE parent # t.lchild[grand]
      BY <2>2, <1>1, <1>3, <1>4, <1>5, RotateLeftKeeps DEF Painted
    <2> QED BY <2>1, <2>2
  <1>7. Kept(t, u, U)
    BY <1>1, <1>4, <1>6, KeptTwice DEF Painted
  <1>8. RootBlack(u)
    <2>1. t.root \in NodeOrNone
      BY <1>2 DEF Leafy, Trees
    <2> QED BY <2>1, <1>1, <1>4, <1>5, <1>6 DEF RootBlack, Painted
  <1> QED BY <1>6, <1>7, <1>8

LEMMA InsertFixupAtKeeps ==
    ASSUME NEW t, NEW u, NEW new, NEW U, NEW d, Fixing(t, u, new, U, d),
           NEW v, v = InsertFixupAt(u, new)
    PROVE  Woods(v, U, d) /\ Kept(t, v, U) /\ RootBlack(v)
  <1> DEFINE parent == u.parent[new]
             grand == u.parent[parent]
  <1>1. /\ Woods(u, U, d) /\ Kept(t, u, U) /\ Leafy(u) /\ new \in U
        /\ RootBlack(u) \/ u.root = new
        /\ u.root \in NodeOrNone
    BY DEF Fixing, Woods, Leafy, Trees
  <1>2. CASE parent = NPOS
    <2>1. v = Paint(u, new, "BLACK")
      BY <1>2 DEF InsertFixupAt
    <2>2. Painted(u, v, new, "BLACK", U, d) /\ Woods(v, U, d)
    BY <2>1, <1>1, PaintKeeps
    <2>3. new = u.root
      BY <1>1, <1>2, Neighbours
    <2> QED BY <2>2, <2>3, <1>1, KeptTwice DEF RootBlack, Painted
  <1>3. CASE parent # NPOS /\ u.color[parent] = "BLACK"
    <2>1. v = u
      BY <1>3 DEF InsertFixupAt
    <2>2. new # u.root
      BY <1>1, <1>3, Neighbours
    <2> QED BY <2>1, <2>2, <1>1 DEF Painted
  <1>4. CASE parent # NPOS /\ u.color[parent] # "BLACK"
    <2>1. /\ parent \in U /\ grand \in U
          /\ new # u.root /\ parent # u.root /\ new # parent /\ grand # parent
          /\ u.lchild[parent] = new \/ u.rchild[parent] = new
          /\ u.lchild[grand] = parent \/ u.rchild[grand] = parent
          /\ RootBlack(u)
      BY <1>4, RedParent
    <2>2. v = IF u.rchild[parent] = new /\ u.lchild[grand] = parent
              THEN LiftParent(RotateLeft(u, parent), new, grand)
              ELSE LiftParent(u, parent, grand)
      BY <1>4, <1>1, LeafyLinks DEF InsertFixupAt, IsInner
    <2> HIDE DEF parent, grand
    <2>3. CASE u.rchild[parent] = new /\ u.lchild[grand] = parent
      <3> DEFINE w == RotateLeft(u, parent)
      <3>1. new # NPOS
        BY <1>1, Neighbours
      <3>2. /\ Woods(w, U, d) /\ Kept(u, w, U) /\ w.color = u.color
            /\ w.root = u.root /\ w.lchild[grand] = new
        BY <3>1, <2>1, <2>3, <1>1, RotateLeftKeeps
      <3> HIDE DEF w
      <3>3. RootBlack(w) /\ v = LiftParent(w, new, grand)
        BY <3>2, <2>1, <2>2, <2>3 DEF RootBlack, w, Painted
      <3>4. Woods(v, U, d) /\ Kept(w, v, U) /\ RootBlack(v)
        BY <3>2, <3>3, <2>1, <1>1, LiftParentKeeps
      <3> QED BY <3>2, <3>4, <1>1, KeptTwice
    <2>4. CASE ~(u.rchild[parent] = new /\ u.lchild[grand] = parent)
      <3>1. Woods(v, U, d) /\ Kept(u, v, U) /\ RootBlack(v)
        BY <2>1, <2>2, <2>4, <1>1, LiftParentKeeps DEF Painted
      <3> QED BY <3>1, <1>1, KeptTwice
    <2> QED BY <2>3, <2>4
  <1> QED BY <1>2, <1>3, <1>4

LEMMA InsertFixupKeeps ==
    ASSUME NEW t, NEW new, NEW U, NEW d, Fixing(t, t, new, U, d), NEW v, v = InsertFixup(t, new)
    PROVE  Woods(v, U, d) /\ Kept(t, v, U) /\ RootBlack(v)
  <1> DEFINE S == {at \in Trees \X NodeOrNone : Fixing(t, at[1], at[2], U, d)}
             last == Steps(PassRedStep, <<t, new>>, TreeNodes)
  <1>1. ASSUME NEW u, NEW n, Fixing(t, u, n, U, d) PROVE <<u, n>> \in S
    <2>1. u \in Trees /\ n \in NodeOrNone
      BY <1>1, Neighbours DEF Fixing, Woods, Leafy
    <2> QED BY <2>1, <1>1
  <1>2. ASSUME NEW at \in S PROVE PassRedStep[at] \in S
    <2>1. PICK u \in Trees, n \in NodeOrNone : at = <<u, n>>
      OBVIOUS
    <2>2. Fixing(t, u, n, U, d) /\ at[1] = u /\ at[2] = n
      BY <2>1
    <2>3. PassRedStep[at] = IF UncleIsRed(u, n) THEN <<PassRedUp(u, n), u.parent[u.parent[n]]>> ELSE at
      BY <2>1, <2>2 DEF PassRedStep
    <2>4. CASE UncleIsRed(u, n)
      BY <2>2, <2>3, <2>4, <1>1, PassRedUpKeeps
    <2>5. CASE ~UncleIsRed(u, n)
      BY <2>3, <2>5
    <2> QED BY <2>4, <2>5
  <1>3. TreeNodes \in Nat /\ <<t, new>> \in S
    BY <1>1, TreeAssumption
  <1> HIDE DEF S
  <1>4. last \in S
    BY <1>2, <1>3, StepsStay
  <1> HIDE DEF last
  <1>5. Fixing(t, last[1], last[2], U, d)
    BY <1>4 DEF S
  <1>6. v = InsertFixupAt(last[1], last[2])
    BY DEF InsertFixup, last
  <1> QED BY <1>5, <1>6, InsertFixupAtKeeps

-----------------------------------------------------------------------------
(* The fixup of a removal.                                                 *)

Under(t, U, parent, pos) ==
    parent \in U /\ (t.lchild[parent] = pos \/ t.rchild[parent] = pos)

\* what is kept while a black node is missing on the paths through pos
Paling(t, u, parent, pos, U, d) ==
    /\ Woods(u, U, d) /\ Kept(t, u, U) /\ RootBlack(u)
    /\ parent # NPOS => Under(u, U, parent, pos)

LEMMA BrotherIs ==
    ASSUME NEW t, NEW U, NEW d, Woods(t, U, d), NEW parent, NEW pos, Under(t, U, parent, pos),
           NEW b, b = Brother(t, parent, pos)
    PROVE  /\ b = IF t.lchild[parent] = pos THEN t.rchild[parent] ELSE t.lchild[parent]
           /\ t.rchild[parent] = pos => b = t.lchild[parent]
           /\ b # NPOS => b \in U /\ b # t.root /\ b # parent /\ t.parent[b] = parent
           /\ parent # NPOS /\ b \in NodeOrNone /\ parent \in U
  <1>1. Leafy(t) /\ parent \in U
    BY DEF Woods, Under
  <1>2. parent # NPOS /\ (pos # NPOS => t.parent[pos] = parent)
    BY <1>1, Neighbours DEF Under
  <1>3. b = IF t.lchild[parent] = pos THEN t.rchild[parent] ELSE t.lchild[parent]
    BY <1>1, <1>2, LeafyLinks DEF Brother, BrotherOf
  <1>4. b = t.lchild[parent] \/ b = t.rchild[parent]
    BY <1>3
  <1>5. b # NPOS => b \in U /\ b # t.root /\ b # parent /\ t.parent[b] = parent
    BY <1>1, <1>4, Neighbours
  <1>6. b \in NodeOrNone
    BY <1>1, <1>4, Neighbours, Positions DEF Woods
  <1> QED BY <1>1, <1>2, <1>3, <1>5, <1>6

\* [1], for pos on the left: a red brother goes up.
LEMMA RedBrotherUp ==
    ASSUME NEW t, NEW u, NEW parent, NEW pos, NEW U, NEW d, Paling(t, u, parent, pos, U, d),
           parent \in U, u.lchild[parent] = pos, NEW b, b = u.rchild[parent], b # NPOS,
           NEW w, w = Paint(u, parent, "RED"), NEW z, z = Paint(w, b, "BLACK"),
           NEW v, v = RotateLeft(z, parent)
    PROVE  Paling(t, v, parent, pos, U, d)
  <1>1. Woods(u, U, d) /\ Kept(t, u, U) /\ RootBlack(u) /\ u.root \in NodeOrNone /\ parent # NPOS
    BY Neighbours DEF Paling, Woods, Leafy, Trees
  <1>2. b \in U /\ b # parent /\ b # u.root /\ b \in NodeOrNone
    BY <1>1, Neighbours
  <1>3. Painted(u, w, parent, "RED", U, d) /\ Woods(w, U, d)
    BY <1>1, PaintKeeps
  <1>4. Painted(w, z, b, "BLACK", U, d) /\ Woods(z, U, d)
    BY <1>2, <1>3, PaintKeeps
  <1>5. /\ Woods(v, U, d) /\ Kept(z, v, U) /\ v.color = z.color
        /\ v.root = IF parent = z.root THEN b ELSE z.root
        /\ v.lchild[parent] = pos
    BY <1>3, <1>4, RotateLeftKeeps DEF Painted
  <1>6. Kept(t, v, U)
    BY <1>1, <1>3, <1>4, <1>5, KeptTwice DEF Painted
  <1>7. RootBlack(v)
    BY <1>1, <1>2, <1>3, <1>4, <1>5 DEF RootBlack, Painted
  <1> QED BY <1>5, <1>6, <1>7 DEF Paling, Under

\* [4], for pos on the left: a red child of the brother goes to the far side.
LEMMA RedNephewUp ==
    ASSUME NEW t, NEW u, NEW parent, NEW pos, NEW U, NEW d, Paling(t, u, parent, pos, U, d),
           parent \in U, u.lchild[parent] = pos, NEW b, b = u.rchild[parent], b # NPOS,
           NEW n, n = u.lchild[b], n # NPOS,
           NEW w, w = Paint(u, b, "RED"), NEW z, z = Paint(w, n, "BLACK"),
           NEW v, v = RotateRight(z, b)
    PROVE  Paling(t, v, parent, pos, U, d)
  <1>1. Woods(u, U, d) /\ Kept(t, u, U) /\ RootBlack(u) /\ u.root \in NodeOrNone /\ parent # NPOS
    BY Neighbours DEF Paling, Woods, Leafy, Trees
  <1>2. b \in U /\ b # parent /\ b # u.root /\ pos # b
    BY <1>1, Neighbours
  <1>3. n \in U /\ n # u.root
    BY <1>1, <1>2, Neighbours
  <1>4. Painted(u, w, b, "RED", U, d) /\ Woods(w, U, d)
    BY <1>1, <1>2, PaintKeeps
  <1>5. Painted(w, z, n, "BLACK", U, d) /\ Woods(z, U, d)
    BY <1>3, <1>4, PaintKeeps
  <1>6. /\ Woods(v, U, d) /\ Kept(z, v, U) /\ v.color = z.color
        /\ v.root = IF b = z.root THEN n ELSE z.root
        /\ v.lchild[parent] = pos
    <2>1. z.lchild = u.lchild /\ z.lchild[b] = n /\ z.lchild[parent] = pos
      BY <1>4, <1>5 DEF Painted
    <2>2. z.lchild[b] # NPOS /\ parent # b /\ z.lchild[parent] # b
      BY <2>1, <1>2
    <2>3. Woods(v, U, d) /\ Kept(z, v, U) /\ v.color = z.color
      BY <1>2, <1>5, <2>2, RotateRightKeeps
    <2>4. v.root = IF b = z.root THEN z.lchild[b] ELSE z.root
      BY <1>2, <1>5, <2>2, RotateRightKeeps
    <2>5. \A x \in U : x # b /\ z.lchild[x] # b => v.lchild[x] = z.lchild[x]
      BY <1>2, <1>5, <2>2, RotateRightKeeps
    <2> QED BY <2>1, <2>2, <2>3, <2>4, <2>5
  <1>7. Kept(t, v, U)
    BY <1>1, <1>4, <1>5, <1>6, KeptTwice DEF Painted
  <1>8. RootBlack(v)
    <2>1. v.root = u.root /\ v.color = z.color
      BY <1>2, <1>4, <1>5, <1>6 DEF Painted
    <2>2. z.color[u.root] = w.color[u.root]
      BY <1>1, <1>3, <1>5 DEF Painted
    <2>3. w.color[u.root] = u.color[u.root]
      BY <1>1, <1>2, <1>4 DEF Painted
    <2> QED BY <2>1, <2>2, <2>3, <1>1 DEF RootBlack
  <1> QED BY <1>6, <1>7, <1>8 DEF Paling, Under

\* [5]: what it paints.
Over(u, b, parent, far) ==
    Paint(Paint(Paint(u, b, u.color[parent]), parent, "BLACK"), far, "BLACK")

LEMMA OverIs ==
    ASSUME NEW u, NEW U, NEW d, Woods(u, U, d), RootBlack(u), NEW b \in U, NEW parent \in U, b # parent,
           NEW far \in U, NEW y, y = Over(u, b, parent, far)
    PROVE  /\ Woods(y, U, d) /\ Kept(u, y, U)
           /\ y.lchild = u.lchild /\ y.rchild = u.rchild /\ y.root = u.root
           /\ IF parent = u.root THEN y.color[b] = "BLACK" ELSE b # u.root => RootBlack(y)
  <1> DEFINE c == u.color[parent]
             w == Paint(u, b, c)
             z == Paint(w, parent, "BLACK")
  <1>1. u.root \in NodeOrNone /\ b \in NodeOrNone /\ c \in {"BLACK", "RED"}
    BY Neighbours DEF Woods, Leafy, Trees
  <1>2. parent = u.root => c = "BLACK"
    BY DEF RootBlack
  <1> HIDE DEF c
  <1>3. Painted(u, w, b, c, U, d) /\ Woods(w, U, d)
    BY <1>1, PaintKeeps
  <1> HIDE DEF w
  <1>4. Painted(w, z, parent, "BLACK", U, d) /\ Woods(z, U, d)
    BY <1>3, PaintKeeps
  <1>5. y = Paint(z, far, "BLACK")
    BY DEF Over, z, w, c
  <1> HIDE DEF z
  <1>6. Painted(z, y, far, "BLACK", U, d) /\ Woods(y, U, d)
    BY <1>4, <1>5, PaintKeeps
  <1>7. Kept(u, y, U)
    BY <1>3, <1>4, <1>6, KeptTwice DEF Painted
  <1>8. y.lchild = u.lchild /\ y.rchild = u.rchild /\ y.root = u.root
    BY <1>3, <1>4, <1>6 DEF Painted
  <1>9. IF parent = u.root THEN y.color[b] = "BLACK" ELSE b # u.root => RootBlack(y)
    <2>1. \A x \in NodeOrNone : y.color[x] = IF x = far \/ x = parent THEN "BLACK"
                                              ELSE IF x = b THEN c ELSE u.color[x]
      BY <1>3, <1>4, <1>6 DEF Painted
    <2> QED BY <2>1, <1>1, <1>2, <1>8 DEF RootBlack
  <1> QED BY <1>6, <1>7, <1>8, <1>9

\* [5], for pos on the left: the brother takes the place of parent.
Lifted(t, u, parent, pos, b, far, U, d) ==
    LET v == RotateLeft(Over(u, b, parent, far), parent)
    IN  /\ Woods(v, U, d) /\ Kept(t, v, U) /\ RootBlack(v)
        /\ v.lchild[parent] = pos /\ v.rchild[parent] = u.lchild[b]
        /\ v.color[NPOS] = "BLACK"

LEMMA BrotherUp ==
    ASSUME NEW t, NEW u, NEW parent, NEW pos, NEW U, NEW d, Paling(t, u, parent, pos, U, d),
           parent \in U, u.lchild[parent] = pos, NEW b, b = u.rchild[parent], b # NPOS,
           NEW far \in U
    PROVE  Lifted(t, u, parent, pos, b, far, U, d)
  <1> DEFINE y == Over(u, b, parent, far)
             v == RotateLeft(y, parent)
  <1>1. Woods(u, U, d) /\ Kept(t, u, U) /\ RootBlack(u)
    BY DEF Paling
  <1>2. b \in U /\ b # parent /\ b # u.root
    BY <1>1, Neighbours
  <1>3. /\ Woods(y, U, d) /\ Kept(u, y, U)
        /\ y.lchild = u.lchild /\ y.rchild = u.rchild /\ y.root = u.root
        /\ IF parent = u.root THEN y.color[b] = "BLACK" ELSE RootBlack(y)
    BY <1>1, <1>2, OverIs
  <1> HIDE DEF y
  <1>4. /\ Woods(v, U, d) /\ Kept(y, v, U) /\ v.color = y.color
        /\ v.root = IF parent = y.root THEN b ELSE y.root
        /\ v.lchild[parent] = pos /\ v.rchild[parent] = u.lchild[b]
    BY <1>3, RotateLeftKeeps
  <1> HIDE DEF v
  <1>5. Kept(t, v, U)
    BY <1>1, <1>3, <1>4, KeptTwice
  <1>6. RootBlack(v)
    BY <1>3, <1>4 DEF RootBlack
  <1> QED BY <1>4, <1>5, <1>6 DEF Woods, Leafy, Lifted, v, y

\* [1], for pos on the right: a red brother goes up.
LEMMA RedBrotherUpRight ==
    ASSUME NEW t, NEW u, NEW parent, NEW pos, NEW U, NEW d, Paling(t, u, parent, pos, U, d),
           parent \in U, u.rchild[parent] = pos, NEW b, b = u.lchild[parent], b # NPOS,
           NEW w, w = Paint(u, parent, "RED"), NEW z, z = Paint(w, b, "BLACK"),
           NEW v, v = RotateRight(z, parent)
    PROVE  Paling(t, v, parent, pos, U, d)
  <1>1. Woods(u, U, d) /\ Kept(t, u, U) /\ RootBlack(u) /\ u.root \in NodeOrNone /\ parent # NPOS
    BY Neighbours DEF Paling, Woods, Leafy, Trees
  <1>2. b \in U /\ b # parent /\ b # u.root /\ b \in NodeOrNone
    BY <1>1, Neighbours
  <1>3. Painted(u, w, parent, "RED", U, d) /\ Woods(w, U, d)
    BY <1>1, PaintKeeps
  <1>4. Painted(w, z, b, "BLACK", U, d) /\ Woods(z, U, d)
    BY <1>2, <1>3, PaintKeeps
  <1>5. /\ Woods(v, U, d) /\ Kept(z, v, U) /\ v.color = z.color
        /\ v.root = IF parent = z.root THEN b ELSE z.root
        /\ v.rchild[parent] = pos
    BY <1>3, <1>4, RotateRightKeeps DEF Painted
  <1>6. Kept(t, v, U)
    BY <1>1, <1>3, <1>4, <1>5, KeptTwice DEF Painted
  <1>7. RootBlack(v)
    BY <1>1, <1>2, <1>3, <1>4, <1>5 DEF RootBlack, Painted
  <1> QED BY <1>5, <1>6, <1>7 DEF Paling, Under

\* [4], for pos on the right: a red child of the brother goes to the far side.
LEMMA RedNephewUpRight ==
    ASSUME NEW t, NEW u, NEW parent, NEW pos, NEW U, NEW d, Paling(t, u, parent, pos, U, d),
           parent \in U, u.rchild[parent] = pos, NEW b, b = u.lchild[parent], b # NPOS,
           NEW n, n = u.rchild[b], n # NPOS,
           NEW w, w = Paint(u, b, "RED"), NEW z, z = Paint(w, n, "BLACK"),
           NEW v, v = RotateLeft(z, b)
    PROVE  Paling(t, v, parent, pos, U, d)
  <1>1. Woods(u, U, d) /\ Kept(t, u, U) /\ RootBlack(u) /\ u.root \in NodeOrNone /\ parent # NPOS
    BY Neighbours DEF Paling, Woods, Leafy, Trees
  <1>2. b \in U /\ b # parent /\ b # u.root /\ pos # b
    BY <1>1, Neighbours
  <1>3. n \in U /\ n # u.root
    BY <1>1, <1>2, Neighbours
  <1>4. Painted(u, w, b, "RED", U, d) /\ Woods(w, U, d)
    BY <1>1, <1>2, PaintKeeps
  <1>5. Painted(w, z, n, "BLACK", U, d) /\ Woods(z, U, d)
    BY <1>3, <1>4, PaintKeeps
  <1>6. /\ Woods(v, U, d) /\ Kept(z, v, U) /\ v.color = z.color
        /\ v.root = IF b = z.root THEN n ELSE z.root
        /\ v.rchild[parent] = pos
    <2>1. z.rchild = u.rchild /\ z.rchild[b] = n /\ z.rchild[parent] = pos
      BY <1>4, <1>5 DEF Painted
    <2>2. z.rchild[b] # NPOS /\ parent # b /\ z.rchild[parent] # b
      BY <2>1, <1>2
    <2>3. Woods(v, U, d) /\ Kept(z, v, U) /\ v.color = z.color
      BY <1>2, <1>5, <2>2, RotateLeftKeeps
    <2>4. v.root = IF b = z.root THEN z.rchild[b] ELSE z.root
      BY <1>2, <1>5, <2>2, RotateLeftKeeps
    <2>5. \A x \in U : x # b /\ z.rchild[x] # b => v.rchild[x] = z.rchild[x]
      BY <1>2, <1>5, <2>2, RotateLeftKeeps, SMTT(30)
    <2> QED BY <2>1, <2>2, <2>3, <2>4, <2>5
  <1>7. Kept(t, v, U)
    BY <1>1, <1>4, <1>5, <1>6, KeptTwice DEF Painted
  <1>8. RootBlack(v)
    <2>1. v.root = u.root /\ v.color = z.color
      BY <1>2, <1>4, <1>5, <1>6 DEF Painted
    <2>2. z.color[u.root] = w.color[u.root]
      BY <1>1, <1>3, <1>5 DEF Painted
    <2>3. w.color[u.root] = u.color[u.root]
      BY <1>1, <1>2, <1>4 DEF Painted
    <2> QED BY <2>1, <2>2, <2>3, <1>1 DEF RootBlack
  <1> QED BY <1>6, <1>7, <1>8 DEF Paling, Under

\* [5], for pos on the right: the brother takes the place of parent.
LiftedRight(t, u, parent, pos, b, far, U, d) ==
    LET v == RotateRight(Over(u, b, parent, far), parent)
    IN  /\ Woods(v, U, d) /\ Kept(t, v, U) /\ RootBlack(v)
        /\ v.rchild[parent] = pos /\ v.lchild[parent] = u.rchild[b]
        /\ v.color[NPOS] = "BLACK"

LEMMA BrotherUpRight ==
    ASSUME NEW t, NEW u, NEW parent, NEW pos, NEW U, NEW d, Paling(t, u, parent, pos, U, d),
           parent \in U, u.rchild[parent] = pos, NEW b, b = u.lchild[parent], b # NPOS,
           NEW far \in U
    PROVE  LiftedRight(t, u, parent, pos, b, far, U, d)
  <1> DEFINE y == Over(u, b, parent, far)
             v == RotateRight(y, parent)
  <1>1. Woods(u, U, d) /\ Kept(t, u, U) /\ RootBlack(u)
    BY DEF Paling
  <1>2. b \in U /\ b # parent /\ b # u.root
    BY <1>1, Neighbours
  <1>3. /\ Woods(y, U, d) /\ Kept(u, y, U)
        /\ y.rchild = u.rchild /\ y.lchild = u.lchild /\ y.root = u.root
        /\ IF parent = u.root THEN y.color[b] = "BLACK" ELSE RootBlack(y)
    BY <1>1, <1>2, OverIs
  <1> HIDE DEF y
  <1>4. /\ Woods(v, U, d) /\ Kept(y, v, U) /\ v.color = y.color
        /\ v.root = IF parent = y.root THEN b ELSE y.root
        /\ v.rchild[parent] = pos /\ v.lchild[parent] = u.rchild[b]
    BY <1>3, RotateRightKeeps
  <1> HIDE DEF v
  <1>5. Kept(t, v, U)
    BY <1>1, <1>3, <1>4, KeptTwice
  <1>6. RootBlack(v)
    BY <1>3, <1>4 DEF RootBlack
  <1> QED BY <1>4, <1>5, <1>6 DEF Woods, Leafy, LiftedRight, v, y

LEMMA RedBrotherKeeps ==
    ASSUME NEW t, NEW u, NEW parent, NEW pos, NEW U, NEW d, Paling(t, u, parent, pos, U, d),
           parent # NPOS
    PROVE  Paling(t, RedBrother(u, parent, pos), parent, pos, U, d)
  <1> DEFINE up(x) == Paint(Paint(x, parent, "RED"), Brother(x, parent, pos), "BLACK")
             l == IF u.color[Brother(u, parent, pos)] = "RED" /\ Left(u, parent) = pos
                  THEN RotateLeft(up(u), parent) ELSE u
             v == IF l.color[Brother(l, parent, pos)] = "RED" /\ Right(l, parent) = pos
                  THEN RotateRight(up(l), parent) ELSE l
  <1>1. v = RedBrother(u, parent, pos)
    BY DEF RedBrother
  <1>2. ASSUME NEW x, Paling(t, x, parent, pos, U, d), x.color[Brother(x, parent, pos)] = "RED"
        PROVE  /\ x.lchild[parent] = pos => Paling(t, RotateLeft(up(x), parent), parent, pos, U, d)
               /\ x.rchild[parent] = pos => Paling(t, RotateRight(up(x), parent), parent, pos, U, d)
    <2> DEFINE b == Brother(x, parent, pos)
               w == Paint(x, parent, "RED")
               z == Paint(w, b, "BLACK")
    <2>1. /\ parent \in U /\ Leafy(x) /\ b # NPOS
          /\ b = IF x.lchild[parent] = pos THEN x.rchild[parent] ELSE x.lchild[parent]
          /\ x.rchild[parent] = pos => b = x.lchild[parent]
      BY <1>2, BrotherIs DEF Paling, Woods, Leafy
    <2>2. up(x) = z
      OBVIOUS
    <2> HIDE DEF b, w, z, up
    <2>3. w = Paint(x, parent, "RED") /\ z = Paint(w, b, "BLACK")
      BY DEF w, z
    <2>4. ASSUME x.lchild[parent] = pos PROVE Paling(t, RotateLeft(z, parent), parent, pos, U, d)
      BY <2>1, <2>3, <2>4, <1>2, RedBrotherUp
    <2>5. ASSUME x.rchild[parent] = pos PROVE Paling(t, RotateRight(z, parent), parent, pos, U, d)
      BY <2>1, <2>3, <2>5, <1>2, RedBrotherUpRight
    <2> QED BY <2>2, <2>4, <2>5
  <1>3. ASSUME NEW x, Paling(t, x, parent, pos, U, d)
        PROVE  Left(x, parent) = x.lchild[parent] /\ Right(x, parent) = x.rchild[parent]
    BY <1>3, LeafyLinks DEF Paling, Woods
  <1> HIDE DEF up
  <1>4. Paling(t, l, parent, pos, U, d)
    BY <1>2, <1>3
  <1> HIDE DEF l
  <1>5. Paling(t, v, parent, pos, U, d)
    BY <1>2, <1>3, <1>4
  <1> QED BY <1>1, <1>5

LEMMA RedNephewOutKeeps ==
    ASSUME NEW t, NEW u, NEW parent, NEW pos, NEW U, NEW d, Paling(t, u, parent, pos, U, d),
           parent # NPOS
    PROVE  Paling(t, RedNephewOut(u, parent, pos), parent, pos, U, d)
  <1> DEFINE brother(x) == Brother(x, parent, pos)
             bl(x) == Left(x, brother(x))
             br(x) == Right(x, brother(x))
             inL(x) == RotateRight(Paint(Paint(x, brother(x), "RED"), bl(x), "BLACK"), brother(x))
             inR(x) == RotateLeft(Paint(Paint(x, brother(x), "RED"), br(x), "BLACK"), brother(x))
             l == IF Left(u, parent) = pos /\ u.color[bl(u)] = "RED" /\ u.color[br(u)] = "BLACK"
                  THEN inL(u) ELSE u
             v == IF Right(l, parent) = pos /\ l.color[bl(l)] = "BLACK" /\ l.color[br(l)] = "RED"
                  THEN inR(l) ELSE l
  <1>1. v = RedNephewOut(u, parent, pos)
    BY DEF RedNephewOut
  <1>2. ASSUME NEW x, Paling(t, x, parent, pos, U, d)
        PROVE  /\ x.lchild[parent] = pos /\ x.color[bl(x)] = "RED" => Paling(t, inL(x), parent, pos, U, d)
               /\ x.rchild[parent] = pos /\ x.color[br(x)] = "RED" => Paling(t, inR(x), parent, pos, U, d)
               /\ Left(x, parent) = x.lchild[parent] /\ Right(x, parent) = x.rchild[parent]
    <2> DEFINE b == Brother(x, parent, pos)
               i == x.lchild[b]
               j == x.rchild[b]
               w == Paint(x, b, "RED")
    <2>1. /\ parent \in U /\ Leafy(x)
          /\ b = IF x.lchild[parent] = pos THEN x.rchild[parent] ELSE x.lchild[parent]
          /\ x.rchild[parent] = pos => b = x.lchild[parent]
      BY <1>2, BrotherIs DEF Paling, Woods
    <2>2. Left(x, parent) = x.lchild[parent] /\ Right(x, parent) = x.rchild[parent] /\ bl(x) = i /\ br(x) = j
      BY <2>1, LeafyLinks
    <2>3. inL(x) = RotateRight(Paint(w, i, "BLACK"), b) /\ inR(x) = RotateLeft(Paint(w, j, "BLACK"), b)
      BY <2>2
    <2>4. /\ x.color[i] = "RED" => i # NPOS /\ b # NPOS
          /\ x.color[j] = "RED" => j # NPOS /\ b # NPOS
      BY <2>1 DEF Leafy
    <2> HIDE DEF b, w, bl, br, inL, inR
    <2>5. w = Paint(x, b, "RED")
      BY DEF w
    <2>6. ASSUME x.lchild[parent] = pos, x.color[i] = "RED"
          PROVE  Paling(t, RotateRight(Paint(w, i, "BLACK"), b), parent, pos, U, d)
      BY <2>1, <2>4, <2>5, <2>6, <1>2, RedNephewUp
    <2>7. ASSUME x.rchild[parent] = pos, x.color[j] = "RED"
          PROVE  Paling(t, RotateLeft(Paint(w, j, "BLACK"), b), parent, pos, U, d)
      BY <2>1, <2>4, <2>5, <2>7, <1>2, RedNephewUpRight
    <2> QED BY <2>2, <2>3, <2>6, <2>7
  <1> HIDE DEF bl, br, inL, inR
  <1>3. Paling(t, l, parent, pos, U, d)
    BY <1>2
  <1> HIDE DEF l
  <1>4. Paling(t, v, parent, pos, U, d)
    BY <1>2, <1>3
  <1> QED BY <1>1, <1>4

LEMMA LiftBrotherKeeps ==
    ASSUME NEW t, NEW u, NEW parent, NEW pos, NEW U, NEW d, Paling(t, u, parent, pos, U, d),
           parent # NPOS, NEW v, v = LiftBrother(u, parent, pos)
    PROVE  Woods(v, U, d) /\ Kept(t, v, U) /\ RootBlack(v)
  <1> DEFINE b == Brother(u, parent, pos)
             i == u.lchild[b]
             j == u.rchild[b]
             l == IF u.lchild[parent] = pos /\ u.color[j] = "RED"
                  THEN RotateLeft(Over(u, b, parent, j), parent) ELSE u
  <1>1. /\ Woods(u, U, d) /\ Kept(t, u, U) /\ RootBlack(u) /\ Leafy(u) /\ parent \in U
        /\ b = IF u.lchild[parent] = pos THEN u.rchild[parent] ELSE u.lchild[parent]
        /\ u.rchild[parent] = pos => b = u.lchild[parent]
        /\ b # NPOS => b \in U
    BY BrotherIs DEF Paling, Woods
  <1>2. Left(u, parent) = u.lchild[parent] /\ Left(u, b) = i /\ Right(u, b) = j
    BY <1>1, LeafyLinks
  <1>3. v = IF Right(l, parent) = pos /\ l.color[i] = "RED" THEN RotateRight(Over(l, b, parent, i), parent) ELSE l
    BY <1>2 DEF LiftBrother, Over
  <1> HIDE DEF b
  <1>4. /\ u.color[i] = "RED" => i \in U /\ b # NPOS
        /\ u.color[j] = "RED" => j \in U /\ b # NPOS
    <2>1. b # NPOS => i \in U \cup {NPOS} /\ j \in U \cup {NPOS}
      BY <1>1, Neighbours
    <2>2. (b = NPOS => i = NPOS /\ j = NPOS) /\ u.color[NPOS] # "RED"
      BY <1>1 DEF Leafy
    <2> QED BY <2>1, <2>2
  <1>5. i = u.lchild[b]
    OBVIOUS
  <1> HIDE DEF i, j
  <1>6. CASE u.lchild[parent] = pos /\ u.color[j] = "RED"
    <2>1. l = RotateLeft(Over(u, b, parent, j), parent)
      BY <1>6
    <2> HIDE DEF l
    <2>3. b = u.rchild[parent] /\ b # NPOS /\ j \in U
      BY <1>1, <1>4, <1>6
    <2>4. /\ Woods(l, U, d) /\ Kept(t, l, U) /\ RootBlack(l)
          /\ l.lchild[parent] = pos /\ l.rchild[parent] = i
          /\ l.color[NPOS] = "BLACK"
      <3>1. Lifted(t, u, parent, pos, b, j, U, d)
        BY <2>3, <1>1, <1>6, BrotherUp
      <3> QED BY <2>1, <3>1, <1>5 DEF Lifted
    <2>5. ~(Right(l, parent) = pos /\ l.color[i] = "RED")
      <3>1. SUFFICES ASSUME Right(l, parent) = pos, l.color[i] = "RED" PROVE FALSE
        OBVIOUS
      <3>2. Right(l, parent) = l.rchild[parent]
        BY <2>4, LeafyLinks DEF Woods
      <3>3. i = NPOS
        BY <3>1, <3>2, <2>4, <1>1, Neighbours
      <3> QED BY <3>1, <3>3, <2>4
    <2> QED BY <2>4, <2>5, <1>3
  <1>7. CASE ~(u.lchild[parent] = pos /\ u.color[j] = "RED")
    <2>1. l = u
      BY <1>7
    <2>2. CASE Right(u, parent) = pos /\ u.color[i] = "RED"
      <3>1. v = RotateRight(Over(u, b, parent, i), parent)
        BY <2>1, <2>2, <1>3
      <3> HIDE DEF l
      <3>2. u.rchild[parent] = pos /\ b = u.lchild[parent] /\ b # NPOS /\ i \in U
        BY <2>2, <1>1, <1>4, LeafyLinks
      <3>3. LiftedRight(t, u, parent, pos, b, i, U, d)
        BY <3>2, <1>1, BrotherUpRight
      <3> QED BY <3>1, <3>3 DEF LiftedRight
    <2>3. CASE ~(Right(u, parent) = pos /\ u.color[i] = "RED")
      BY <2>1, <2>3, <1>1, <1>3
    <2> QED BY <2>2, <2>3
  <1> QED BY <1>6, <1>7

\* The brother, if it is there, is not the root.
LEMMA FadeKeeps ==
    ASSUME NEW t, NEW u, NEW parent, NEW pos, NEW U, NEW d, Paling(t, u, parent, pos, U, d),
           parent # NPOS, NEW v, v = Fade(u, Brother(u, parent, pos))
    PROVE  /\ Woods(v, U, d) /\ Kept(t, v, U) /\ RootBlack(v)
           /\ v.lchild = u.lchild /\ v.rchild = u.rchild /\ v.parent = u.parent /\ v.root = u.root
  <1> DEFINE b == Brother(u, parent, pos)
  <1>1. Woods(u, U, d) /\ Kept(t, u, U) /\ RootBlack(u) /\ u.root \in NodeOrNone
        /\ (b # NPOS => b \in U /\ b # u.root)
    BY BrotherIs DEF Paling, Woods, Leafy, Trees
  <1> HIDE DEF b
  <1>2. CASE b = NPOS
    BY <1>1, <1>2 DEF Fade, b
  <1>3. CASE b # NPOS
    <2>1. v = Paint(u, b, "RED")
      BY <1>3 DEF Fade, b
    <2>2. Painted(u, v, b, "RED", U, d)
      BY <2>1, <1>1, <1>3, PaintKeeps
    <2> QED BY <2>2, <1>1, <1>3, KeptTwice DEF Painted, RootBlack
  <1> QED BY <1>2, <1>3

LEMMA EraseFixupAtKeeps ==
    ASSUME NEW t, NEW u, NEW parent, NEW pos, NEW U, NEW d, Paling(t, u, parent, pos, U, d),
           parent # NPOS, NEW v, v = EraseFixupAt(u, parent, pos)
    PROVE  Woods(v, U, d) /\ Kept(t, v, U) /\ RootBlack(v)
  <1> DEFINE x == RedBrother(u, parent, pos)
             y == Fade(x, Brother(x, parent, pos))
             z == RedNephewOut(x, parent, pos)
  <1>1. v = IF BlackBelow(x, Brother(x, parent, pos)) THEN Paint(y, parent, "BLACK")
            ELSE LiftBrother(z, parent, pos)
    BY DEF EraseFixupAt, Paint
  <1>2. Paling(t, x, parent, pos, U, d)
    BY RedBrotherKeeps
  <1> HIDE DEF x
  <1>3. CASE BlackBelow(x, Brother(x, parent, pos))
    <2>1. Woods(y, U, d) /\ Kept(t, y, U) /\ RootBlack(y)
      BY <1>2, FadeKeeps
    <2>2. v = Paint(y, parent, "BLACK")
      BY <1>1, <1>3
    <2> HIDE DEF y
    <2>3. parent \in U /\ y.root \in NodeOrNone
      BY <2>1, <1>2 DEF Paling, Under, Woods, Leafy, Trees
    <2>4. Painted(y, v, parent, "BLACK", U, d)
      BY <2>1, <2>2, <2>3, PaintKeeps
    <2> QED BY <2>1, <2>3, <2>4, KeptTwice DEF Painted, RootBlack
  <1>4. CASE ~BlackBelow(x, Brother(x, parent, pos))
    <2>1. Paling(t, z, parent, pos, U, d)
      BY <1>2, RedNephewOutKeeps
    <2>2. v = LiftBrother(z, parent, pos)
      BY <1>1, <1>4
    <2> HIDE DEF z
    <2> QED BY <2>1, <2>2, LiftBrotherKeeps
  <1> QED BY <1>3, <1>4

LEMMA EraseFixupKeeps ==
    ASSUME NEW t, NEW parent \in NodeOrNone, NEW pos \in NodeOrNone, NEW U, NEW d,
           Paling(t, t, parent, pos, U, d),
           NEW v, v = EraseFixup(t, parent, pos)
    PROVE  Woods(v, U, d) /\ Kept(t, v, U) /\ RootBlack(v)
  <1> DEFINE S == {at \in Trees \X NodeOrNone \X NodeOrNone : Paling(t, at[1], at[2], at[3], U, d)}
             last == Steps(FadeStep, <<t, parent, pos>>, TreeNodes)
  <1>1. ASSUME NEW u, NEW q \in NodeOrNone, NEW p \in NodeOrNone, Paling(t, u, q, p, U, d)
        PROVE  <<u, q, p>> \in S
    <2>1. u \in Trees
      BY <1>1 DEF Paling, Woods, Leafy
    <2> QED BY <2>1, <1>1
  <1>2. ASSUME NEW at \in S PROVE FadeStep[at] \in S
    <2>1. PICK u \in Trees, q \in NodeOrNone, p \in NodeOrNone : at = <<u, q, p>>
      OBVIOUS
    <2> DEFINE b == Brother(u, q, p)
               f == Fade(u, b)
               C == q # NPOS /\ u.color[q] = "BLACK" /\ BlackBelow(u, b)
    <2>2. Paling(t, u, q, p, U, d)
      BY <2>1
    <2>3. FadeStep[at] = IF C THEN <<f, u.parent[q], q>> ELSE at
      BY <2>1 DEF FadeStep
    <2>4. CASE C
      <3>1. q # NPOS
        BY <2>4
      <3> HIDE DEF C
      <3>2. /\ Woods(f, U, d) /\ Kept(t, f, U) /\ RootBlack(f)
            /\ f.lchild = u.lchild /\ f.rchild = u.rchild /\ f.parent = u.parent /\ f.root = u.root
        BY <2>2, <3>1, FadeKeeps
      <3> HIDE DEF f
      <3>3. q \in U /\ u.parent[q] \in NodeOrNone
        BY <3>1, <2>1, <2>2 DEF Paling, Under, Trees
      <3>4. u.parent[q] # NPOS => Under(f, U, u.parent[q], q)
        BY <3>2, <3>3, Neighbours DEF Under
      <3>5. Paling(t, f, u.parent[q], q, U, d)
        BY <3>2, <3>4 DEF Paling
      <3>6. <<f, u.parent[q], q>> \in S
        BY <3>3, <3>5, <1>1, <2>1
      <3> QED BY <3>6, <2>3, <2>4
    <2>5. CASE ~C
      BY <2>3, <2>5
    <2> QED BY <2>4, <2>5
  <1>3. TreeNodes \in Nat /\ <<t, parent, pos>> \in S
    BY <1>1, TreeAssumption
  <1> HIDE DEF S
  <1>4. last \in S
    BY <1>2, <1>3, StepsStay
  <1> HIDE DEF last
  <1>5. Paling(t, last[1], last[2], last[3], U, d)
    BY <1>4 DEF S
  <1>6. v = IF last[2] = NPOS THEN last[1] ELSE EraseFixupAt(last[1], last[2], last[3])
    BY DEF EraseFixup, last
  <1>7. CASE last[2] = NPOS
    BY <1>5, <1>6, <1>7 DEF Paling
  <1>8. CASE last[2] # NPOS
    BY <1>5, <1>6, <1>8, EraseFixupAtKeeps
  <1> QED BY <1>7, <1>8

-----------------------------------------------------------------------------
(* Walks down the tree.  They end because the subtrees get smaller.        *)

Grown(t, U, d, span) ==
    Leafy(t) /\ U \subseteq Node /\ Shape(t, U, d, span)

LEMMA Fewer ==
    ASSUME NEW U, U \subseteq Node, NEW A, A \subseteq U
    PROVE  /\ IsFiniteSet(A) /\ Cardinality(A) \in Nat /\ Cardinality(A) <= TreeNodes
           /\ \A B \in SUBSET A : /\ IsFiniteSet(B) /\ Cardinality(B) \in Nat
                                  /\ Cardinality(B) <= Cardinality(A)
                                  /\ B # A => Cardinality(B) < Cardinality(A)
  <1>1. IsFiniteSet(Node) /\ Cardinality(Node) = TreeNodes
    <2>1. 1 \in Int /\ TreeNodes \in Int /\ TreeNodes \in Nat \ {0}
      BY TreeAssumption
    <2>2. IsFiniteSet(1..TreeNodes) /\ Cardinality(1..TreeNodes) = IF 1 > TreeNodes THEN 0 ELSE TreeNodes - 1 + 1
      BY <2>1, FS_Interval
    <2> QED BY <2>1, <2>2 DEF Node
  <1>2. A \in SUBSET Node
    OBVIOUS
  <1>3. IsFiniteSet(A) /\ Cardinality(A) <= TreeNodes /\ Cardinality(A) \in Nat
    BY <1>1, <1>2, FS_Subset, FS_CardinalityType
  <1>4. ASSUME NEW B \in SUBSET A
        PROVE  /\ IsFiniteSet(B) /\ Cardinality(B) \in Nat /\ Cardinality(B) <= Cardinality(A)
               /\ B # A => Cardinality(B) < Cardinality(A)
    <2>1. IsFiniteSet(B) /\ Cardinality(B) <= Cardinality(A) /\ (Cardinality(A) = Cardinality(B) => A = B)
      BY <1>3, FS_Subset
    <2>2. Cardinality(B) \in Nat
      BY <2>1, FS_CardinalityType
    <2> QED BY <2>1, <2>2, <1>3
  <1> QED BY <1>3, <1>4

\* A node, its keys and those below it.
LEMMA Below ==
    ASSUME NEW t, NEW U, NEW d, NEW span, Grown(t, U, d, span), NEW n \in U,
           NEW l, l = t.lchild[n], NEW r, r = t.rchild[n]
    PROVE  /\ n \in Node /\ n \in NodeOrNone /\ n # NPOS /\ NPOS \notin U /\ span[NPOS] = {}
           /\ n \in span[n] /\ span[n] \subseteq U /\ d[n] \in Nat
           /\ \A m \in span[n] : d[m] \in Nat /\ (m # n => d[m] < d[n] \/ d[n] < d[m])
           /\ l \in U \cup {NPOS} /\ r \in U \cup {NPOS}
           /\ span[l] = {m \in span[n] : d[m] < d[n]}
           /\ span[r] = {m \in span[n] : d[n] < d[m]}
           /\ l # NPOS => l \in U /\ t.parent[l] = n
           /\ r # NPOS => r \in U /\ t.parent[r] = n
           /\ l # n /\ r # n
           /\ Cardinality(span[n]) \in Nat /\ Cardinality(span[n]) <= TreeNodes
           /\ Cardinality(span[l]) < Cardinality(span[n])
           /\ Cardinality(span[r]) < Cardinality(span[n])
  <1>1. t \in Trees /\ U \subseteq Node /\ Shape(t, U, d, span) /\ Joint(t, U, d, span, n)
    BY DEF Grown, Leafy, Shape
  <1>2. n \in Node /\ n \in NodeOrNone /\ n # NPOS /\ NPOS \notin U /\ span[NPOS] = {}
    BY <1>1, Positions DEF Shape
  <1>3. span[n] \subseteq U /\ l # n /\ r # n
    BY <1>1, Around
  <1>4. \A m \in U : d[m] \in Nat /\ (m # n => d[m] # d[n])
    BY <1>1 DEF Shape, Keyed
  <1>5. \A m \in span[n] : d[m] \in Nat /\ (m # n => d[m] < d[n] \/ d[n] < d[m])
    BY <1>3, <1>4
  <1>6. n \in span[n] /\ span[l] = {m \in span[n] : d[m] < d[n]} /\ span[r] = {m \in span[n] : d[n] < d[m]}
    BY <1>1 DEF Joint
  <1>7. span[l] \in SUBSET span[n] /\ span[r] \in SUBSET span[n] /\ n \notin span[l] /\ n \notin span[r]
    BY <1>4, <1>6
  <1>8. /\ Cardinality(span[n]) \in Nat /\ Cardinality(span[n]) <= TreeNodes
        /\ Cardinality(span[l]) < Cardinality(span[n]) /\ Cardinality(span[r]) < Cardinality(span[n])
    BY <1>1, <1>3, <1>6, <1>7, Fewer
  <1>9. /\ l \in U \cup {NPOS} /\ r \in U \cup {NPOS}
        /\ l # NPOS => l \in U /\ t.parent[l] = n
        /\ r # NPOS => r \in U /\ t.parent[r] = n
    BY <1>1 DEF Joint
  <1> QED BY <1>2, <1>3, <1>4, <1>5, <1>6, <1>8, <1>9

\* The biggest node below a node is at the end of its right children.
LEMMA BiggestIs ==
    ASSUME NEW t, NEW U, NEW d, NEW span, Grown(t, U, d, span), NEW from \in U,
           NEW v, v = FindBiggestPos(t, from)
    PROVE  /\ v \in U /\ v \in span[from] /\ t.rchild[v] = NPOS
           /\ \A m \in span[from] : m # v => d[m] < d[v]
  <1> DEFINE step == [pos \in NodeOrNone |-> IF Right(t, pos) = NPOS THEN pos ELSE Right(t, pos)]
             S == {p \in U : /\ span[p] \subseteq span[from]
                             /\ \A m \in span[from] : m \in span[p] \/ d[m] < d[p]}
             size == [p \in S |-> Cardinality(span[p])]
  <1>1. \A p \in U : Right(t, p) = t.rchild[p]
    BY LeafyLinks DEF Grown
  <1>2. from \in S /\ \A p \in S : size[p] \in Nat /\ size[p] <= TreeNodes
    BY Below
  <1>3. ASSUME NEW p \in S PROVE step[p] \in S /\ (step[p] = p \/ size[step[p]] < size[p])
    <2> DEFINE r == t.rchild[p]
    <2>1. step[p] = IF r = NPOS THEN p ELSE r
      BY <1>1, Below
    <2>2. CASE r = NPOS
      BY <2>1, <2>2
    <2>3. CASE r # NPOS
      <3>1. /\ r \in U /\ span[r] = {m \in span[p] : d[p] < d[m]} /\ Cardinality(span[r]) < Cardinality(span[p])
            /\ d[p] \in Nat /\ \A m \in span[p] : d[m] \in Nat /\ (m # p => d[m] < d[p] \/ d[p] < d[m])
        BY <2>3, Below
      <3>2. r \in span[r] /\ d[r] \in Nat
        BY <3>1, Below
      <3>3. span[r] \subseteq span[from] /\ d[p] < d[r]
        BY <3>1, <3>2
      <3>4. \A m \in U : d[m] \in Nat
        BY Below
      <3>5. span[from] \subseteq U
        BY Below
      <3>6. ASSUME NEW m \in span[from] PROVE m \in span[r] \/ d[m] < d[r]
        BY <3>1, <3>2, <3>3, <3>4, <3>5
      <3> QED BY <2>1, <2>3, <3>1, <3>3, <3>6
    <2> QED BY <2>2, <2>3
  <1>4. TreeNodes \in Nat /\ size \in [S -> Nat] /\ size[from] <= TreeNodes
    BY <1>2, TreeAssumption
  <1>5. v = Steps(step, from, TreeNodes)
    BY DEF FindBiggestPos
  <1>6. from \in S
    BY <1>2
  <1> HIDE DEF S, step, size
  <1>7. v \in S /\ step[v] = v
    BY <1>3, <1>4, <1>5, <1>6, StepsEnd
  <1> USE DEF S, step
  <1>8. v \in U /\ span[v] \subseteq span[from] /\ \A m \in span[from] : m \in span[v] \/ d[m] < d[v]
    BY <1>7
  <1>9. /\ v \in span[v] /\ t.rchild[v] # v /\ v \in NodeOrNone
        /\ span[t.rchild[v]] = {m \in span[v] : d[v] < d[m]} /\ span[NPOS] = {}
        /\ \A m \in span[v] : m # v => d[m] < d[v] \/ d[v] < d[m]
    BY <1>8, Below
  <1>10. t.rchild[v] = NPOS
    BY <1>1, <1>7, <1>8, <1>9
  <1> QED BY <1>8, <1>9, <1>10

\* The smallest node below a node is at the end of its left children.
LEMMA SmallestIs ==
    ASSUME NEW t, NEW U, NEW d, NEW span, Grown(t, U, d, span), NEW from \in U,
           NEW v, v = FindSmallestPos(t, from)
    PROVE  /\ v \in U /\ v \in span[from] /\ t.lchild[v] = NPOS
           /\ \A m \in span[from] : m # v => d[v] < d[m]
  <1> DEFINE step == [pos \in NodeOrNone |-> IF Left(t, pos) = NPOS THEN pos ELSE Left(t, pos)]
             S == {p \in U : /\ span[p] \subseteq span[from]
                             /\ \A m \in span[from] : m \in span[p] \/ d[p] < d[m]}
             size == [p \in S |-> Cardinality(span[p])]
  <1>1. \A p \in U : Left(t, p) = t.lchild[p]
    BY LeafyLinks DEF Grown
  <1>2. from \in S /\ \A p \in S : size[p] \in Nat /\ size[p] <= TreeNodes
    BY Below
  <1>3. ASSUME NEW p \in S PROVE step[p] \in S /\ (step[p] = p \/ size[step[p]] < size[p])
    <2> DEFINE l == t.lchild[p]
    <2>1. step[p] = IF l = NPOS THEN p ELSE l
      BY <1>1, Below
    <2>2. CASE l = NPOS
      BY <2>1, <2>2
    <2>3. CASE l # NPOS
      <3>1. /\ l \in U /\ span[l] = {m \in span[p] : d[m] < d[p]} /\ Cardinality(span[l]) < Cardinality(span[p])
            /\ d[p] \in Nat /\ \A m \in span[p] : d[m] \in Nat /\ (m # p => d[m] < d[p] \/ d[p] < d[m])
        BY <2>3, Below
      <3>2. l \in span[l] /\ d[l] \in Nat
        BY <3>1, Below
      <3>3. span[l] \subseteq span[from] /\ d[l] < d[p]
        BY <3>1, <3>2
      <3>4. \A m \in U : d[m] \in Nat
        BY Below
      <3>5. span[from] \subseteq U
        BY Below
      <3>6. ASSUME NEW m \in span[from] PROVE m \in span[l] \/ d[l] < d[m]
        BY <3>1, <3>2, <3>3, <3>4, <3>5
      <3> QED BY <2>1, <2>3, <3>1, <3>3, <3>6
    <2> QED BY <2>2, <2>3
  <1>4. TreeNodes \in Nat /\ size \in [S -> Nat] /\ size[from] <= TreeNodes
    BY <1>2, TreeAssumption
  <1>5. v = Steps(step, from, TreeNodes)
    BY DEF FindSmallestPos
  <1>6. from \in S
    BY <1>2
  <1> HIDE DEF S, step, size
  <1>7. v \in S /\ step[v] = v
    BY <1>3, <1>4, <1>5, <1>6, StepsEnd
  <1> USE DEF S, step
  <1>8. v \in U /\ span[v] \subseteq span[from] /\ \A m \in span[from] : m \in span[v] \/ d[v] < d[m]
    BY <1>7
  <1>9. /\ v \in span[v] /\ t.lchild[v] # v /\ v \in NodeOrNone
        /\ span[t.lchild[v]] = {m \in span[v] : d[m] < d[v]} /\ span[NPOS] = {}
        /\ \A m \in span[v] : m # v => d[m] < d[v] \/ d[v] < d[m]
    BY <1>8, Below
  <1>10. t.lchild[v] = NPOS
    BY <1>1, <1>7, <1>8, <1>9
  <1> QED BY <1>8, <1>9, <1>10
-----------------------------------------------------------------------------
(* The search for a key.                                                   *)

\* q is where a node with the key k belongs: on a side that is free, and no
\* other key is between k and that of q.
Vacancy(t, U, d, k, q) ==
    IF q = NPOS THEN U = {}
    ELSE /\ q \in U /\ (IF d[q] < k THEN t.rchild[q] ELSE t.lchild[q]) = NPOS
         /\ \A y \in U : y # q => (d[y] < k <=> d[y] < d[q])

\* what the search knows when it looks at p below q
Searching(t, U, d, span, k, p, q) ==
    /\ p \in U \cup {NPOS} /\ q \in U \cup {NPOS}
    /\ \A y \in U : d[y] = k => y \in span[p]
    /\ IF p = NPOS THEN Vacancy(t, U, d, k, q)
       ELSE t.parent[p] = q /\ \A y \in U \ span[p] : \A z \in span[p] : d[y] < k <=> d[y] < d[z]

LEMMA SearchOn ==
    ASSUME NEW t, NEW U, NEW d, NEW span, Grown(t, U, d, span), NEW k \in Nat,
           NEW p, NEW q, Searching(t, U, d, span, k, p, q), p # NPOS, d[p] # k,
           NEW c, c = IF d[p] < k THEN t.rchild[p] ELSE t.lchild[p]
    PROVE  Searching(t, U, d, span, k, c, p)
  <1>1. p \in U /\ \A y \in U : d[y] \in Nat
    BY Below DEF Searching
  <1>2. /\ p \in span[p] /\ span[p] \subseteq U /\ span[NPOS] = {} /\ p # NPOS
        /\ \A m \in span[p] : m # p => d[m] < d[p] \/ d[p] < d[m]
        /\ c \in U \cup {NPOS} /\ (c # NPOS => c \in U /\ t.parent[c] = p)
        /\ span[c] = {m \in span[p] : IF d[p] < k THEN d[p] < d[m] ELSE d[m] < d[p]}
    BY <1>1, Below
  <1>3. \A y \in U : d[y] = k => y \in span[p]
    BY DEF Searching
  <1>4. \A y \in U \ span[p] : \A z \in span[p] : d[y] < k <=> d[y] < d[z]
    BY DEF Searching
  <1>5. \A y \in U : d[y] = k => y \in span[c]
    BY <1>1, <1>2, <1>3
  <1>6. ASSUME NEW y \in U, y \notin span[c], NEW z \in span[c] PROVE d[y] < k <=> d[y] < d[z]
    <2>1. z \in span[p] /\ z \in U /\ d[z] \in Nat /\ d[p] \in Nat /\ d[y] \in Nat
      BY <1>1, <1>2
    <2>2. CASE y \notin span[p]
      BY <2>1, <2>2, <1>4
    <2>3. CASE y \in span[p] /\ d[p] < k
      BY <2>1, <2>3, <1>2, <1>6
    <2>4. CASE y \in span[p] /\ ~(d[p] < k)
      BY <2>1, <2>4, <1>1, <1>2, <1>6
    <2> QED BY <2>2, <2>3, <2>4
  <1>7. ASSUME c = NPOS PROVE Vacancy(t, U, d, k, p)
    <2>1. ASSUME NEW y \in U, y # p PROVE d[y] < k <=> d[y] < d[p]
      <3>1. CASE y \notin span[p]
        BY <3>1, <1>2, <1>4
      <3>2. CASE y \in span[p]
        BY <3>2, <2>1, <1>1, <1>2, <1>7
      <3> QED BY <3>1, <3>2
    <2> QED BY <2>1, <1>1, <1>2, <1>7 DEF Vacancy
  <1>8. p \in U \cup {NPOS} /\ c \in U \cup {NPOS}
    BY <1>1, <1>2
  <1> QED BY <1>2, <1>5, <1>6, <1>7, <1>8 DEF Searching

\* The search ends at the node with the key, or where it belongs.
LEMMA FindNodeIs ==
    ASSUME NEW t, NEW U, NEW span, Grown(t, U, t.data, span), NEW k \in Nat, NEW at, at = FindNode(t, k)
    PROVE  /\ Searching(t, U, t.data, span, k, at[1], at[2])
           /\ at[1] = NPOS \/ t.data[at[1]] = k
  <1> DEFINE d == t.data
             step == FindStep(t, k)
             S == {x \in NodeOrNone \X NodeOrNone : Searching(t, U, d, span, k, x[1], x[2])}
             size == [x \in S |-> Cardinality(span[x[1]])]
  <1> HIDE DEF d
  <1>1. Grown(t, U, d, span) /\ U \subseteq NodeOrNone /\ NPOS \in NodeOrNone
    BY Positions DEF Grown, d
  <1>2. \A x \in U : Left(t, x) = t.lchild[x] /\ Right(t, x) = t.rchild[x]
    BY LeafyLinks DEF Grown
  <1>3. ASSUME NEW x \in S
        PROVE  /\ size[x] \in Nat /\ size[x] <= TreeNodes
               /\ step[x] \in S /\ (step[x] = x \/ size[step[x]] < size[x])
               /\ step[x] = x => x[1] = NPOS \/ d[x[1]] = k
    <2>1. PICK p \in NodeOrNone, q \in NodeOrNone : x = <<p, q>>
      OBVIOUS
    <2> DEFINE c == IF d[p] < k THEN t.rchild[p] ELSE t.lchild[p]
    <2>2. Searching(t, U, d, span, k, p, q) /\ x[1] = p /\ size[x] = Cardinality(span[p])
      BY <2>1
    <2>3. p \in U \cup {NPOS}
      BY <2>2 DEF Searching
    <2>4. step[x] = IF p = NPOS \/ d[p] = k THEN x ELSE <<IF d[p] < k THEN Right(t, p) ELSE Left(t, p), p>>
      BY <2>1 DEF FindStep, d
    <2>5. span[NPOS] = {} /\ Cardinality({}) = 0 /\ 0 <= TreeNodes
      BY <1>1, FS_EmptySet, TreeAssumption DEF Grown, Shape
    <2>6. size[x] \in Nat /\ size[x] <= TreeNodes
      <3>1. p # NPOS => Cardinality(span[p]) \in Nat /\ Cardinality(span[p]) <= TreeNodes
        BY <2>3, <1>1, Below
      <3> QED BY <3>1, <2>2, <2>5
    <2>7. CASE p = NPOS \/ d[p] = k
      BY <2>2, <2>4, <2>6, <2>7
    <2>8. CASE p # NPOS /\ d[p] # k
      <3>1. p \in U /\ step[x] = <<c, p>>
        BY <2>3, <2>4, <2>8, <1>2
      <3>2. c \in U \cup {NPOS} /\ c # p /\ Cardinality(span[c]) < Cardinality(span[p])
        BY <3>1, <1>1, Below
      <3> HIDE DEF c
      <3>3. Searching(t, U, d, span, k, c, p)
        BY <2>2, <2>8, <1>1, SearchOn DEF c
      <3>4. <<c, p>> \in S /\ <<c, p>> # x
        BY <3>1, <3>2, <3>3, <2>1, <1>1
      <3>5. size[<<c, p>>] = Cardinality(span[c])
        BY <3>4
      <3> HIDE DEF size, S, step
      <3> QED BY <3>1, <3>2, <3>4, <3>5, <2>2, <2>6
    <2> QED BY <2>7, <2>8
  <1>4. <<t.root, NPOS>> \in S
    <2>1. /\ span[t.root] = U /\ t.root \in U \cup {NPOS} /\ (t.root # NPOS => t.parent[t.root] = NPOS)
          /\ span[NPOS] = {}
      BY <1>1 DEF Grown, Shape
    <2>2. Searching(t, U, d, span, k, t.root, NPOS)
      BY <2>1 DEF Searching, Vacancy
    <2> QED BY <2>1, <2>2, <1>1
  <1>5. TreeNodes \in Nat /\ size \in [S -> Nat] /\ size[<<t.root, NPOS>>] <= TreeNodes
    BY <1>3, <1>4, TreeAssumption
  <1>6. at = Steps(step, <<t.root, NPOS>>, TreeNodes)
    BY DEF FindNode
  <1> HIDE DEF S, step, size
  <1>7. at \in S /\ step[at] = at
    BY <1>3, <1>4, <1>5, <1>6, StepsEnd
  <1>8. at[1] = NPOS \/ d[at[1]] = k
    BY <1>3, <1>7
  <1>9. Searching(t, U, d, span, k, at[1], at[2])
    BY <1>7 DEF S
  <1> QED BY <1>8, <1>9 DEF d

-----------------------------------------------------------------------------
(* The steps of an iterator.                                               *)

\* b is the next larger after n, or NPOS if there is none.
NextOf(U, d, n, b) ==
    IF \E m \in U : d[n] < d[m]
    THEN b \in U /\ d[n] < d[b] /\ \A m \in U : d[n] < d[m] => ~(d[m] < d[b])
    ELSE b = NPOS

LEMMA ParentIs ==
    ASSUME NEW t, NEW U, NEW d, NEW span, Grown(t, U, d, span), NEW p \in U
    PROVE  /\ t.parent[p] = NPOS => span[p] = U
           /\ t.parent[p] # NPOS => /\ t.parent[p] \in U /\ t.parent[p] # p
                                    /\ t.lchild[t.parent[p]] = p \/ t.rchild[t.parent[p]] = p
  <1>1. Joint(t, U, d, span, p) /\ span[t.root] = U /\ (t.root # NPOS => t.parent[t.root] = NPOS)
    BY DEF Grown, Shape
  <1>2. t.lchild[p] # p /\ t.rchild[p] # p /\ p # NPOS /\ NPOS \notin U
    BY Below
  <1> QED BY <1>1, <1>2 DEF Joint

LEMMA ClimbIs ==
    ASSUME NEW t, NEW U, NEW d, NEW span, Grown(t, U, d, span), NEW n \in U, t.rchild[n] = NPOS,
           NEW b, b = Climb(t, n)
    PROVE  NextOf(U, d, n, b)
  <1> DEFINE stops(p) == t.parent[p] = NPOS \/ Left(t, t.parent[p]) = p
             up == [p \in NodeOrNone |-> IF stops(p) THEN p ELSE t.parent[p]]
             S == {p \in U : n \in span[p] /\ \A m \in span[p] : ~(d[n] < d[m])}
             size == [p \in S |-> TreeNodes - Cardinality(span[p])]
             last == Steps(up, n, TreeNodes)
  <1>1. \A p \in NodeOrNone : Left(t, p) = t.lchild[p]
    BY LeafyLinks DEF Grown
  <1>2. ASSUME NEW p \in U
        PROVE  /\ t.parent[p] = NPOS => span[p] = U
               /\ t.parent[p] # NPOS => /\ t.parent[p] \in U /\ t.parent[p] # p
                                        /\ t.lchild[t.parent[p]] = p \/ t.rchild[t.parent[p]] = p
    BY ParentIs
  <1>3. n \in S
    <2>1. n \in span[n] /\ {m \in span[n] : d[n] < d[m]} = {}
      BY Below
    <2> QED BY <2>1
  <1>4. ASSUME NEW p \in S
        PROVE  size[p] \in Nat /\ size[p] <= TreeNodes
    BY Below, TreeAssumption
  <1>5. ASSUME NEW p \in S PROVE up[p] \in S /\ (up[p] = p \/ size[up[p]] < size[p])
    <2> DEFINE q == t.parent[p]
    <2>1. p \in NodeOrNone /\ up[p] = IF stops(p) THEN p ELSE q
      BY Below
    <2>2. CASE stops(p)
      BY <2>1, <2>2
    <2>3. CASE ~stops(p)
      <3>1. q \in U /\ t.rchild[q] = p /\ q # p
        <4>1. q # NPOS /\ Left(t, q) # p
          BY <2>3
        <4>2. q \in U
          BY <4>1, <1>2
        <4>3. Left(t, q) = t.lchild[q]
          BY <4>2, <1>1, Below
        <4> QED BY <4>1, <4>2, <4>3, <1>2
      <3> HIDE DEF q, stops
      <3>2. /\ span[p] = {m \in span[q] : d[q] < d[m]} /\ Cardinality(span[p]) < Cardinality(span[q])
            /\ Cardinality(span[q]) \in Nat /\ Cardinality(span[q]) <= TreeNodes /\ d[q] \in Nat
            /\ \A m \in span[q] : d[m] \in Nat
        BY <3>1, Below
      <3>3. n \in span[q] /\ d[q] < d[n] /\ \A m \in span[q] : ~(d[n] < d[m])
        <4>1. n \in span[p] /\ \A m \in span[p] : ~(d[n] < d[m])
          OBVIOUS
        <4>2. n \in span[q] /\ d[q] < d[n] /\ d[n] \in Nat
          BY <4>1, <3>2
        <4>3. ASSUME NEW m \in span[q], d[n] < d[m] PROVE FALSE
          <5>1. d[q] < d[m]
            BY <4>2, <4>3, <3>2
          <5> QED BY <5>1, <4>1, <4>3, <3>2
        <4> QED BY <4>2, <4>3
      <3>4. q \in S
        BY <3>1, <3>3
      <3>5. size[q] = TreeNodes - Cardinality(span[q]) /\ size[p] = TreeNodes - Cardinality(span[p])
        BY <3>4
      <3>6. Cardinality(span[p]) \in Nat
        BY Below
      <3>7. size[q] < size[p]
        <4> HIDE DEF size
        <4> QED BY <3>2, <3>5, <3>6, TreeAssumption
      <3> QED BY <2>1, <2>3, <3>4, <3>7 DEF q
    <2> QED BY <2>2, <2>3
  <1>6. TreeNodes \in Nat /\ size \in [S -> Nat] /\ size[n] <= TreeNodes
    BY <1>3, <1>4, TreeAssumption
  <1>7. b = t.parent[last]
    BY DEF Climb
  <1> HIDE DEF S, up, size
  <1>8. last \in S /\ up[last] = last
    BY <1>3, <1>5, <1>6, StepsEnd
  <1> HIDE DEF last
  <1>9. /\ last \in U /\ last \in NodeOrNone /\ n \in span[last] /\ \A m \in span[last] : ~(d[n] < d[m])
        /\ stops(last)
    <2>1. last \in U /\ n \in span[last] /\ \A m \in span[last] : ~(d[n] < d[m])
      BY <1>8 DEF S
    <2>2. last \in NodeOrNone /\ (t.parent[last] = NPOS \/ t.parent[last] # last)
      BY <2>1, <1>2, Below
    <2> QED BY <2>1, <2>2, <1>8 DEF up
  <1>10. CASE b = NPOS
    <2>1. span[last] = U
      BY <1>2, <1>7, <1>9, <1>10
    <2> QED BY <2>1, <1>9, <1>10 DEF NextOf
  <1>11. CASE b # NPOS
    <2>1. b \in U /\ b \in NodeOrNone
      BY <1>2, <1>7, <1>9, <1>11, Below
    <2>2. t.lchild[b] = last
      BY <2>1, <1>1, <1>7, <1>9, <1>11
    <2>3. /\ span[last] = {m \in span[b] : d[m] < d[b]} /\ b \in span[b]
      BY <2>1, <2>2, Below
    <2>4. n \in span[b] /\ d[n] < d[b]
      BY <2>3, <1>9
    <2>5. ASSUME NEW m \in U, d[n] < d[m], d[m] < d[b] PROVE FALSE
      <3>1. m \in span[b]
        BY <2>1, <2>3, <2>4, <2>5 DEF Grown, Shape, Convex
      <3> QED BY <3>1, <2>3, <2>5, <1>9
    <2> QED BY <2>1, <2>4, <2>5 DEF NextOf
  <1> QED BY <1>10, <1>11

LEMMA NextBigIs ==
    ASSUME NEW t, NEW U, NEW d, NEW span, Grown(t, U, d, span), NEW n \in U, NEW b, b = FindNextBigPos(t, n)
    PROVE  NextOf(U, d, n, b)
  <1> DEFINE r == t.rchild[n]
  <1>1. Right(t, n) = r /\ n # NPOS
    BY LeafyLinks, Below DEF Grown
  <1>2. CASE r = NPOS
    BY <1>1, <1>2, ClimbIs DEF FindNextBigPos
  <1>3. CASE r # NPOS
    <2>1. b = FindSmallestPos(t, r)
      BY <1>1, <1>3 DEF FindNextBigPos
    <2>2. /\ r \in U /\ span[r] = {m \in span[n] : d[n] < d[m]} /\ n \in span[n]
      BY <1>3, Below
    <2>3. \A m \in U : d[m] \in Nat
      BY Below
    <2> HIDE DEF r
    <2>4. b \in U /\ b \in span[r] /\ \A m \in span[r] : m # b => d[b] < d[m]
      BY <2>1, <2>2, SmallestIs
    <2>5. b \in span[n] /\ d[n] < d[b]
      BY <2>2, <2>4
    <2>6. ASSUME NEW m \in U, d[n] < d[m], d[m] < d[b] PROVE FALSE
      <3>1. m \in span[n]
        BY <2>2, <2>5, <2>6 DEF Grown, Shape, Convex
      <3>2. m \in span[r] /\ m # b
        BY <3>1, <2>2, <2>3, <2>4, <2>6
      <3> QED BY <3>2, <2>3, <2>4, <2>6
    <2> QED BY <2>4, <2>5, <2>6 DEF NextOf
  <1> QED BY <1>2, <1>3

\* b is the next smaller before n, or NPOS if there is none.
PrevOf(U, d, n, b) ==
    IF \E m \in U : d[m] < d[n]
    THEN b \in U /\ d[b] < d[n] /\ \A m \in U : d[m] < d[n] => ~(d[b] < d[m])
    ELSE b = NPOS

LEMMA ClimbBackIs ==
    ASSUME NEW t, NEW U, NEW d, NEW span, Grown(t, U, d, span), NEW n \in U, t.lchild[n] = NPOS,
           NEW b, b = ClimbBack(t, n)
    PROVE  PrevOf(U, d, n, b)
  <1> DEFINE stops(p) == t.parent[p] = NPOS \/ Right(t, t.parent[p]) = p
             up == [p \in NodeOrNone |-> IF stops(p) THEN p ELSE t.parent[p]]
             S == {p \in U : n \in span[p] /\ \A m \in span[p] : ~(d[m] < d[n])}
             size == [p \in S |-> TreeNodes - Cardinality(span[p])]
             last == Steps(up, n, TreeNodes)
  <1>1. \A p \in NodeOrNone : Right(t, p) = t.rchild[p]
    BY LeafyLinks DEF Grown
  <1>2. ASSUME NEW p \in U
        PROVE  /\ t.parent[p] = NPOS => span[p] = U
               /\ t.parent[p] # NPOS => /\ t.parent[p] \in U /\ t.parent[p] # p
                                        /\ t.rchild[t.parent[p]] = p \/ t.lchild[t.parent[p]] = p
    BY ParentIs
  <1>3. n \in S
    <2>1. n \in span[n] /\ {m \in span[n] : d[m] < d[n]} = {}
      BY Below
    <2> QED BY <2>1
  <1>4. ASSUME NEW p \in S
        PROVE  size[p] \in Nat /\ size[p] <= TreeNodes
    BY Below, TreeAssumption
  <1>5. ASSUME NEW p \in S PROVE up[p] \in S /\ (up[p] = p \/ size[up[p]] < size[p])
    <2> DEFINE q == t.parent[p]
    <2>1. p \in NodeOrNone /\ up[p] = IF stops(p) THEN p ELSE q
      BY Below
    <2>2. CASE stops(p)
      BY <2>1, <2>2
    <2>3. CASE ~stops(p)
      <3>1. q \in U /\ t.lchild[q] = p /\ q # p
        <4>1. q # NPOS /\ Right(t, q) # p
          BY <2>3
        <4>2. q \in U
          BY <4>1, <1>2
        <4>3. Right(t, q) = t.rchild[q]
          BY <4>2, <1>1, Below
        <4> QED BY <4>1, <4>2, <4>3, <1>2
      <3> HIDE DEF q, stops
      <3>2. /\ span[p] = {m \in span[q] : d[m] < d[q]} /\ Cardinality(span[p]) < Cardinality(span[q])
            /\ Cardinality(span[q]) \in Nat /\ Cardinality(span[q]) <= TreeNodes /\ d[q] \in Nat
            /\ \A m \in span[q] : d[m] \in Nat
        BY <3>1, Below
      <3>3. n \in span[q] /\ d[n] < d[q] /\ \A m \in span[q] : ~(d[m] < d[n])
        <4>1. n \in span[p] /\ \A m \in span[p] : ~(d[m] < d[n])
          OBVIOUS
        <4>2. n \in span[q] /\ d[n] < d[q] /\ d[n] \in Nat
          BY <4>1, <3>2
        <4>3. ASSUME NEW m \in span[q], d[m] < d[n] PROVE FALSE
          <5>1. d[m] < d[q]
            BY <4>2, <4>3, <3>2
          <5> QED BY <5>1, <4>1, <4>3, <3>2
        <4> QED BY <4>2, <4>3
      <3>4. q \in S
        BY <3>1, <3>3
      <3>5. size[q] = TreeNodes - Cardinality(span[q]) /\ size[p] = TreeNodes - Cardinality(span[p])
        BY <3>4
      <3>6. Cardinality(span[p]) \in Nat
        BY Below
      <3>7. size[q] < size[p]
        <4> HIDE DEF size
        <4> QED BY <3>2, <3>5, <3>6, TreeAssumption
      <3> QED BY <2>1, <2>3, <3>4, <3>7 DEF q
    <2> QED BY <2>2, <2>3
  <1>6. TreeNodes \in Nat /\ size \in [S -> Nat] /\ size[n] <= TreeNodes
    BY <1>3, <1>4, TreeAssumption
  <1>7. b = t.parent[last]
    BY DEF ClimbBack
  <1> HIDE DEF S, up, size
  <1>8. last \in S /\ up[last] = last
    BY <1>3, <1>5, <1>6, StepsEnd
  <1> HIDE DEF last
  <1>9. /\ last \in U /\ last \in NodeOrNone /\ n \in span[last] /\ \A m \in span[last] : ~(d[m] < d[n])
        /\ stops(last)
    <2>1. last \in U /\ n \in span[last] /\ \A m \in span[last] : ~(d[m] < d[n])
      BY <1>8 DEF S
    <2>2. last \in NodeOrNone /\ (t.parent[last] = NPOS \/ t.parent[last] # last)
      BY <2>1, <1>2, Below
    <2> QED BY <2>1, <2>2, <1>8 DEF up
  <1>10. CASE b = NPOS
    <2>1. span[last] = U
      BY <1>2, <1>7, <1>9, <1>10
    <2> QED BY <2>1, <1>9, <1>10 DEF PrevOf
  <1>11. CASE b # NPOS
    <2>1. b \in U /\ b \in NodeOrNone
      BY <1>2, <1>7, <1>9, <1>11, Below
    <2>2. t.rchild[b] = last
      BY <2>1, <1>1, <1>7, <1>9, <1>11
    <2>3. /\ span[last] = {m \in span[b] : d[b] < d[m]} /\ b \in span[b]
      BY <2>1, <2>2, Below
    <2>4. n \in span[b] /\ d[b] < d[n]
      BY <2>3, <1>9
    <2>5. ASSUME NEW m \in U, d[m] < d[n], d[b] < d[m] PROVE FALSE
      <3>1. m \in span[b]
        BY <2>1, <2>3, <2>4, <2>5 DEF Grown, Shape, Convex
      <3> QED BY <3>1, <2>3, <2>5, <1>9
    <2> QED BY <2>1, <2>4, <2>5 DEF PrevOf
  <1> QED BY <1>10, <1>11

LEMMA NextSmallIs ==
    ASSUME NEW t, NEW U, NEW d, NEW span, Grown(t, U, d, span), NEW n \in U, NEW b, b = FindNextSmallPos(t, n)
    PROVE  PrevOf(U, d, n, b)
  <1> DEFINE l == t.lchild[n]
  <1>1. Left(t, n) = l /\ n # NPOS
    BY LeafyLinks, Below DEF Grown
  <1>2. CASE l = NPOS
    BY <1>1, <1>2, ClimbBackIs DEF FindNextSmallPos
  <1>3. CASE l # NPOS
    <2>1. b = FindBiggestPos(t, l)
      BY <1>1, <1>3 DEF FindNextSmallPos
    <2>2. /\ l \in U /\ span[l] = {m \in span[n] : d[m] < d[n]} /\ n \in span[n]
      BY <1>3, Below
    <2>3. \A m \in U : d[m] \in Nat
      BY Below
    <2> HIDE DEF l
    <2>4. b \in U /\ b \in span[l] /\ \A m \in span[l] : m # b => d[m] < d[b]
      BY <2>1, <2>2, BiggestIs
    <2>5. b \in span[n] /\ d[b] < d[n]
      BY <2>2, <2>4
    <2>6. ASSUME NEW m \in U, d[m] < d[n], d[b] < d[m] PROVE FALSE
      <3>1. m \in span[n]
        BY <2>2, <2>5, <2>6 DEF Grown, Shape, Convex
      <3>2. m \in span[l] /\ m # b
        BY <3>1, <2>2, <2>3, <2>4, <2>6
      <3> QED BY <3>2, <2>3, <2>4, <2>6
    <2> QED BY <2>4, <2>5, <2>6 DEF PrevOf
  <1> QED BY <1>2, <1>3

-----------------------------------------------------------------------------
(* Trees that differ by a leaf, by a node with one child, or by their keys. *)

\* From t to u the node new was linked below q, on the side of the key k.
Sprouted(t, u, U, d, k, q, new) ==
    /\ u.lchild[new] = NPOS /\ u.rchild[new] = NPOS /\ u.parent[new] = q
    /\ u.root = IF q = NPOS THEN new ELSE t.root
    /\ \A x \in U : /\ u.lchild[x] = IF x = q /\ ~(d[q] < k) THEN new ELSE t.lchild[x]
                    /\ u.rchild[x] = IF x = q /\ d[q] < k THEN new ELSE t.rchild[x]
                    /\ u.parent[x] = t.parent[x]

\* A new leaf where the search for its key ended.
LEMMA LeafShape ==
    ASSUME NEW t, NEW U, NEW d, NEW span, Grown(t, U, d, span), NEW k \in Nat, NEW q,
           Vacancy(t, U, d, k, q), \A y \in U : d[y] # k,
           NEW new \in Node, new \notin U, NEW e, e[new] = k, \A x \in U : e[x] = d[x],
           NEW u, Sprouted(t, u, U, d, k, q, new), NEW V, V = U \cup {new}
    PROVE  \E s : Shape(u, V, e, s)
  <1> DEFINE s == [x \in NodeOrNone |-> IF x = new THEN {new}
                                        ELSE IF x \in U /\ q \in span[x] THEN span[x] \cup {new} ELSE span[x]]
  <1>12. /\ u.lchild[new] = NPOS /\ u.rchild[new] = NPOS /\ u.parent[new] = q
         /\ u.root = IF q = NPOS THEN new ELSE t.root
         /\ \A x \in U : /\ u.lchild[x] = IF x = q /\ ~(d[q] < k) THEN new ELSE t.lchild[x]
                         /\ u.rchild[x] = IF x = q /\ d[q] < k THEN new ELSE t.rchild[x]
                         /\ u.parent[x] = t.parent[x]
    BY DEF Sprouted
  <1>1. /\ NPOS \in NodeOrNone /\ NPOS \notin U /\ NPOS \notin V /\ new # NPOS /\ new \in NodeOrNone
        /\ U \subseteq NodeOrNone /\ V \subseteq NodeOrNone
        /\ span[NPOS] = {} /\ (q # NPOS => q \in U)
        /\ \A x \in U : e[x] = d[x] /\ d[x] \in Nat /\ d[x] # k /\ x # new
    <2>1. NPOS \in NodeOrNone /\ NPOS \notin U /\ NPOS \notin V /\ new # NPOS /\ new \in NodeOrNone
          /\ U \subseteq NodeOrNone /\ V \subseteq NodeOrNone
      BY Positions DEF Grown
    <2>2. span[NPOS] = {} /\ (q # NPOS => q \in U) /\ \A x \in U : d[x] \in Nat
      BY DEF Grown, Shape, Vacancy, Keyed
    <2> QED BY <2>1, <2>2
  <1>2. /\ s \in [NodeOrNone -> SUBSET V] /\ s[new] = {new} /\ s[NPOS] = {}
        /\ \A x \in U : s[x] = IF q \in span[x] THEN span[x] \cup {new} ELSE span[x]
    <2>1. span \in [NodeOrNone -> SUBSET U]
      BY DEF Grown, Shape
    <2> QED BY <2>1, <1>1
  <1> HIDE DEF s
  \* k is to every other key as that of q is
  <1>3. q # NPOS => \A y \in U : y # q => (d[y] < k <=> d[y] < d[q]) /\ (k < d[y] <=> d[q] < d[y])
    <2>1. SUFFICES ASSUME q # NPOS, NEW y \in U, y # q
                   PROVE  (d[y] < k <=> d[y] < d[q]) /\ (k < d[y] <=> d[q] < d[y])
      OBVIOUS
    <2>2. d[y] < k <=> d[y] < d[q]
      BY <2>1 DEF Vacancy
    <2>3. d[y] # d[q] /\ d[y] \in Nat /\ d[q] \in Nat /\ d[y] # k
      BY <2>1, <1>1 DEF Grown, Shape, Keyed
    <2> QED BY <2>2, <2>3
  <1>4. ASSUME NEW x \in U
        PROVE  /\ Joint(t, U, d, span, x) /\ x \in span[x] /\ span[x] \subseteq U
               /\ t.lchild[x] \in U \cup {NPOS} /\ t.rchild[x] \in U \cup {NPOS}
               /\ span[t.lchild[x]] = {m \in span[x] : d[m] < d[x]}
               /\ span[t.rchild[x]] = {m \in span[x] : d[x] < d[m]}
    <2>1. Joint(t, U, d, span, x) /\ span \in [NodeOrNone -> SUBSET U]
      BY DEF Grown, Shape
    <2> QED BY <2>1, <1>1 DEF Joint
  <1>5. Joint(u, V, e, s, new)
    <2>1. u.root # new => q \in V /\ (u.lchild[q] = new \/ u.rchild[q] = new)
      BY <1>1, <1>12
    <2> QED BY <2>1, <1>1, <1>2, <1>12 DEF Joint
  <1>6. ASSUME NEW x \in U PROVE Joint(u, V, e, s, x)
    <2> DEFINE l == t.lchild[x]
               r == t.rchild[x]
    <2>1. /\ u.lchild[x] = IF x = q /\ ~(d[q] < k) THEN new ELSE l
          /\ u.rchild[x] = IF x = q /\ d[q] < k THEN new ELSE r
          /\ u.parent[x] = t.parent[x]
      BY <1>12
    <2>8. /\ l \in U \cup {NPOS} /\ span[l] = {m \in span[x] : d[m] < d[x]}
          /\ r \in U \cup {NPOS} /\ span[r] = {m \in span[x] : d[x] < d[m]}
          /\ x \in span[x] /\ span[x] \subseteq U /\ x # new
      BY <1>1, <1>4
    <2>9. /\ s[l] = IF l # NPOS /\ q \in span[l] THEN span[l] \cup {new} ELSE span[l]
          /\ s[r] = IF r # NPOS /\ q \in span[r] THEN span[r] \cup {new} ELSE span[r]
          /\ s[x] = IF q \in span[x] THEN span[x] \cup {new} ELSE span[x]
      <3>1. s[NPOS] = span[NPOS]
        BY <1>1, <1>2
      <3>2. \A y \in U : s[y] = IF y # NPOS /\ q \in span[y] THEN span[y] \cup {new} ELSE span[y]
        BY <1>1, <1>2
      <3>3. s[x] = IF q \in span[x] THEN span[x] \cup {new} ELSE span[x]
        BY <1>2
      <3>4. \A y \in U \cup {NPOS} : s[y] = IF y # NPOS /\ q \in span[y] THEN span[y] \cup {new} ELSE span[y]
        BY <3>1, <3>2
      <3> HIDE DEF l, r
      <3>5. l \in U \cup {NPOS} /\ r \in U \cup {NPOS}
        BY <2>8
      <3> QED BY <3>3, <3>4, <3>5
    <2>10. /\ l = t.lchild[x] /\ r = t.rchild[x]
      OBVIOUS
    <2> HIDE DEF l, r
    <2>2. s[u.lchild[x]] = {m \in s[x] : e[m] < e[x]}
      <3>1. CASE x = q /\ ~(d[q] < k)
        <4>1. l = NPOS /\ q \in span[x] /\ k < d[q]
          BY <3>1, <1>1, <1>4, <2>8, <2>10 DEF Vacancy
        <4>2. {m \in span[x] : d[m] < d[x]} = {}
          BY <4>1, <1>1, <2>8
        <4>3. \A m \in span[x] : e[m] = d[m]
          BY <1>1, <2>8
        <4>4. s[u.lchild[x]] = {new} /\ s[x] = span[x] \cup {new} /\ e[x] = d[q] /\ e[new] = k
          BY <2>1, <3>1, <4>1, <1>1, <1>2, <2>9
        <4> QED BY <3>1, <4>1, <4>2, <4>3, <4>4
      <3>2. CASE ~(x = q /\ ~(d[q] < k))
        <4>1. s[u.lchild[x]] = IF l # NPOS /\ q \in span[l] THEN span[l] \cup {new} ELSE span[l]
          BY <2>1, <2>9, <3>2
        <4>2. \A m \in span[x] : e[m] = d[m]
          BY <1>1, <2>8
        <4>3. CASE q \in span[x]
          <5>1. q \in U /\ q # NPOS /\ s[x] = span[x] \cup {new}
            BY <4>3, <1>1, <1>2, <1>4
          <5>2. CASE x = q
            <6>1. q \notin span[l] /\ d[q] < k /\ ~(k < d[x])
              BY <5>2, <3>2, <1>1, <2>8
            <6> QED BY <6>1, <4>1, <4>2, <5>1, <1>1, <2>8
          <5>3. CASE x # q
            <6>1. k < d[x] <=> d[q] < d[x]
              BY <5>1, <5>3, <1>3
            <6>2. q \in span[l] <=> d[q] < d[x]
              BY <4>3, <2>8
            <6>3. q \in span[l] => l # NPOS
              BY <1>1, <2>8
            <6> QED BY <6>1, <6>2, <6>3, <4>1, <4>2, <5>1, <1>1, <2>8
          <5> QED BY <5>2, <5>3
        <4>4. CASE q \notin span[x]
          <5>1. s[x] = span[x] /\ q \notin span[l]
            BY <4>4, <2>8, <2>9
          <5> QED BY <5>1, <4>1, <4>2, <1>1, <2>8
        <4> QED BY <4>3, <4>4
      <3> QED BY <3>1, <3>2
    <2>3. s[u.rchild[x]] = {m \in s[x] : e[x] < e[m]}
      <3>1. CASE x = q /\ d[q] < k
        <4>1. r = NPOS /\ q \in span[x] /\ d[q] < k
          BY <3>1, <1>1, <1>4, <2>8, <2>10 DEF Vacancy
        <4>2. {m \in span[x] : d[x] < d[m]} = {}
          BY <4>1, <1>1, <2>8
        <4>3. \A m \in span[x] : e[m] = d[m]
          BY <1>1, <2>8
        <4>4. s[u.rchild[x]] = {new} /\ s[x] = span[x] \cup {new} /\ e[x] = d[q] /\ e[new] = k
          BY <2>1, <3>1, <4>1, <1>1, <1>2, <2>9
        <4> QED BY <3>1, <4>1, <4>2, <4>3, <4>4
      <3>2. CASE ~(x = q /\ d[q] < k)
        <4>1. s[u.rchild[x]] = IF r # NPOS /\ q \in span[r] THEN span[r] \cup {new} ELSE span[r]
          BY <2>1, <2>9, <3>2
        <4>2. \A m \in span[x] : e[m] = d[m]
          BY <1>1, <2>8
        <4>3. CASE q \in span[x]
          <5>1. q \in U /\ q # NPOS /\ s[x] = span[x] \cup {new}
            BY <4>3, <1>1, <1>2, <1>4
          <5>2. CASE x = q
            <6>1. q \notin span[r] /\ ~(d[x] < k)
              BY <5>2, <3>2, <1>1, <2>8
            <6> QED BY <6>1, <4>1, <4>2, <5>1, <1>1, <2>8
          <5>3. CASE x # q
            <6>1. d[x] < k <=> d[x] < d[q]
              BY <5>1, <5>3, <1>3
            <6>2. q \in span[r] <=> d[x] < d[q]
              BY <4>3, <2>8
            <6>3. q \in span[r] => r # NPOS
              BY <1>1, <2>8
            <6> QED BY <6>1, <6>2, <6>3, <4>1, <4>2, <5>1, <1>1, <2>8
          <5> QED BY <5>2, <5>3
        <4>4. CASE q \notin span[x]
          <5>1. s[x] = span[x] /\ q \notin span[r]
            BY <4>4, <2>8, <2>9
          <5> QED BY <5>1, <4>1, <4>2, <1>1, <2>8
        <4> QED BY <4>3, <4>4
      <3> QED BY <3>1, <3>2
    <2>4. x \in s[x] /\ u.lchild[x] \in V \cup {NPOS} /\ u.rchild[x] \in V \cup {NPOS}
      BY <2>1, <2>8, <2>9, <1>1
    <2>5. /\ u.lchild[x] # NPOS => u.parent[u.lchild[x]] = x
          /\ u.rchild[x] # NPOS => u.parent[u.rchild[x]] = x
      BY <2>1, <2>8, <2>10, <1>1, <1>4, <1>12 DEF Joint
    <2>6. ASSUME x # u.root
          PROVE  u.parent[x] \in V /\ (u.lchild[u.parent[x]] = x \/ u.rchild[u.parent[x]] = x)
      <3>1. U # {} /\ q # NPOS
        BY DEF Vacancy
      <3>5. x # t.root
        BY <2>6, <3>1, <1>12
      <3>2. t.parent[x] \in U /\ (t.lchild[t.parent[x]] = x \/ t.rchild[t.parent[x]] = x)
        BY <3>5, <1>4 DEF Joint
      <3>3. ~(d[q] < k) => t.lchild[q] = NPOS
        BY <3>1 DEF Vacancy
      <3>4. d[q] < k => t.rchild[q] = NPOS
        BY <3>1 DEF Vacancy
      <3> QED BY <3>2, <3>3, <3>4, <2>1, <1>1, <1>12
    <2> QED BY <2>2, <2>3, <2>4, <2>5, <2>6 DEF Joint
  <1>7. Keyed(V, e)
    <2>1. \A a, b \in U : d[a] = d[b] => a = b
      BY DEF Grown, Shape, Keyed
    <2> QED BY <2>1, <1>1 DEF Keyed
  <1>8. Convex(V, e, s)
    <2> SUFFICES ASSUME NEW x \in V, NEW a \in s[x], NEW b \in s[x], NEW m \in V, e[a] < e[m], e[m] < e[b]
                 PROVE  m \in s[x]
      BY DEF Convex
    <2>1. \A i, j \in span[x] : \A y \in U : x \in U /\ d[i] < d[y] /\ d[y] < d[j] => y \in span[x]
      BY DEF Grown, Shape, Convex
    <2>2. CASE x = new
      <3>1. a = new /\ b = new /\ e[m] \in Nat
        BY <2>2, <1>1, <1>2
      <3> QED BY <3>1
    <2>3. CASE x \in U /\ q \notin span[x]
      <3>1. s[x] = span[x] /\ a \in U /\ b \in U /\ a \in span[x] /\ b \in span[x]
        BY <2>3, <1>2, <1>4
      <3>2. CASE m = new
        <4>1. q # NPOS /\ q \in U
          BY <2>3, <1>1 DEF Vacancy
        <4>2. d[a] < k /\ k < d[b] /\ a # q /\ b # q
          BY <3>1, <3>2, <2>3, <1>1
        <4>3. d[a] < d[q] /\ d[q] < d[b]
          BY <4>1, <4>2, <3>1, <1>3
        <4> QED BY <4>1, <4>3, <3>1, <2>1, <2>3
      <3>3. CASE m \in U
        BY <3>1, <3>3, <2>1, <2>3, <1>1
      <3> QED BY <3>2, <3>3
    <2>4. CASE x \in U /\ q \in span[x]
      <3>1. s[x] = span[x] \cup {new} /\ q \in U /\ q # NPOS /\ a \in V /\ b \in V
        BY <2>4, <1>1, <1>2, <1>4
      <3>2. CASE m = new
        BY <3>1, <3>2
      <3>3. CASE m = q
        BY <3>1, <3>3, <2>4
      <3>4. CASE m \in U /\ m # q
        <4>1. e[m] = d[m] /\ (d[m] < k <=> d[m] < d[q]) /\ (k < d[m] <=> d[q] < d[m])
          BY <3>1, <3>4, <1>1, <1>3
        <4>2. CASE a = new /\ b = new
          BY <4>1, <4>2, <3>4, <1>1
        <4>3. CASE a = new /\ b \in U
          BY <4>1, <4>3, <3>1, <3>4, <2>1, <2>4, <1>1
        <4>4. CASE a \in U /\ b = new
          BY <4>1, <4>4, <3>1, <3>4, <2>1, <2>4, <1>1
        <4>5. CASE a \in U /\ b \in U
          BY <4>1, <4>5, <3>1, <3>4, <2>1, <2>4, <1>1
        <4> QED BY <4>2, <4>3, <4>4, <4>5, <3>1
      <3> QED BY <3>2, <3>3, <3>4
    <2> QED BY <2>2, <2>3, <2>4
  <1>9. /\ s[u.root] = V /\ u.root \in V \cup {NPOS} /\ (u.root # NPOS => u.parent[u.root] = NPOS)
    <2>1. CASE q = NPOS
      BY <2>1, <1>2, <1>12 DEF Vacancy
    <2>2. CASE q # NPOS
      <3>1. span[t.root] = U /\ t.root \in U \cup {NPOS} /\ (t.root # NPOS => t.parent[t.root] = NPOS)
        BY DEF Grown, Shape
      <3>2. t.root \in U
        BY <3>1, <2>2, <1>1
      <3> QED BY <3>1, <3>2, <2>2, <1>1, <1>2, <1>12
    <2> QED BY <2>1, <2>2
  <1>10. \A x \in V : Joint(u, V, e, s, x)
    BY <1>5, <1>6
  <1>11. Shape(u, V, e, s)
    BY <1>2, <1>7, <1>8, <1>9, <1>10 DEF Shape
  <1> QED BY <1>11

\* pos has no other child than c.
Thin(t, pos, c) ==
    \/ t.lchild[pos] = c /\ t.rchild[pos] = NPOS
    \/ t.lchild[pos] = NPOS /\ t.rchild[pos] = c

\* From t to u the node c took the place of pos.
Bypassed(t, u, V, pos, c) ==
    /\ u.root = IF t.root = pos THEN c ELSE t.root
    /\ \A x \in V : /\ u.lchild[x] = IF t.lchild[x] = pos THEN c ELSE t.lchild[x]
                    /\ u.rchild[x] = IF t.rchild[x] = pos THEN c ELSE t.rchild[x]
                    /\ u.parent[x] = IF x = c THEN t.parent[pos] ELSE t.parent[x]

\* A node with one child, or none, gives its place to it.
LEMMA ThinShape ==
    ASSUME NEW t, NEW U, NEW d, NEW span, Grown(t, U, d, span), NEW pos \in U, NEW c,
           Thin(t, pos, c), NEW V, V = U \ {pos}, NEW u, Bypassed(t, u, V, pos, c)
    PROVE  \E s : Shape(u, V, d, s)
  <1>9. /\ \/ t.lchild[pos] = c /\ t.rchild[pos] = NPOS
           \/ t.lchild[pos] = NPOS /\ t.rchild[pos] = c
        /\ u.root = IF t.root = pos THEN c ELSE t.root
    BY DEF Thin, Bypassed
  <1>10. \A x \in V : /\ u.lchild[x] = IF t.lchild[x] = pos THEN c ELSE t.lchild[x]
                      /\ u.rchild[x] = IF t.rchild[x] = pos THEN c ELSE t.rchild[x]
                      /\ u.parent[x] = IF x = c THEN t.parent[pos] ELSE t.parent[x]
    BY DEF Bypassed
  <1> DEFINE s == [x \in NodeOrNone |-> span[x] \ {pos}]
  <1>1. /\ NPOS \notin U /\ NPOS \in NodeOrNone /\ U \subseteq NodeOrNone /\ pos # NPOS
        /\ span \in [NodeOrNone -> SUBSET U] /\ span[NPOS] = {} /\ span[t.root] = U
        /\ t.root \in U \cup {NPOS} /\ (t.root # NPOS => t.parent[t.root] = NPOS)
    BY Positions DEF Grown, Shape
  <1>2. ASSUME NEW x \in U
        PROVE  /\ x \in span[x] /\ span[x] \subseteq U
               /\ t.lchild[x] \in U \cup {NPOS} /\ t.rchild[x] \in U \cup {NPOS}
               /\ t.lchild[x] # x /\ t.rchild[x] # x
               /\ span[t.lchild[x]] = {m \in span[x] : d[m] < d[x]}
               /\ span[t.rchild[x]] = {m \in span[x] : d[x] < d[m]}
               /\ t.lchild[x] # NPOS => t.parent[t.lchild[x]] = x
               /\ t.rchild[x] # NPOS => t.parent[t.rchild[x]] = x
    BY Below
  <1>3. /\ c \in V \cup {NPOS} /\ (c # NPOS => t.parent[c] = pos) /\ span[c] = span[pos] \ {pos}
    <2>1. /\ \A m \in span[pos] : d[m] \in Nat /\ (m # pos => d[m] < d[pos] \/ d[pos] < d[m])
          /\ d[pos] \in Nat
      BY Below
    <2>2. c \in V \cup {NPOS} /\ (c # NPOS => t.parent[c] = pos)
      BY <1>2, <1>9
    <2>3. span[t.lchild[pos]] \cup span[t.rchild[pos]] = span[pos] \ {pos}
      BY <2>1, <1>2
    <2> QED BY <2>2, <2>3, <1>1, <1>9
  <1>4. /\ s \in [NodeOrNone -> SUBSET V] /\ s[NPOS] = {} /\ s[c] = span[pos] \ {pos}
        /\ \A x \in U \cup {NPOS} : s[x] = span[x] \ {pos}
    BY <1>1, <1>3
  <1> HIDE DEF s
  <1>5. ASSUME NEW x \in V PROVE Joint(u, V, d, s, x)
    <2> DEFINE l == t.lchild[x]
               r == t.rchild[x]
    <2>1. /\ u.lchild[x] = IF l = pos THEN c ELSE l
          /\ u.rchild[x] = IF r = pos THEN c ELSE r
      BY <1>10
    <2>2. /\ x \in U /\ x # pos /\ x \in span[x] /\ span[x] \subseteq U
          /\ l \in U \cup {NPOS} /\ span[l] = {m \in span[x] : d[m] < d[x]} /\ (l # NPOS => t.parent[l] = x)
          /\ r \in U \cup {NPOS} /\ span[r] = {m \in span[x] : d[x] < d[m]} /\ (r # NPOS => t.parent[r] = x)
      BY <1>2
    <2>3. l # pos /\ l # NPOS => l # c
      BY <2>2, <1>3
    <2>4. r # pos /\ r # NPOS => r # c
      BY <2>2, <1>3
    <2>5. \A y \in V : u.parent[y] = IF y = c THEN t.parent[pos] ELSE t.parent[y]
      BY <1>10
    <2>6. ASSUME x # u.root
          PROVE  u.parent[x] \in V /\ (u.lchild[u.parent[x]] = x \/ u.rchild[u.parent[x]] = x)
      <3>1. \A y \in U : y # t.root =>
                t.parent[y] \in U /\ (t.lchild[t.parent[y]] = y \/ t.rchild[t.parent[y]] = y)
        BY DEF Grown, Shape, Joint
      <3>2. CASE x = c
        <4>1. pos # t.root
          BY <3>2, <2>6, <1>9
        <4> DEFINE g == t.parent[pos]
        <4>2. g \in U /\ (t.lchild[g] = pos \/ t.rchild[g] = pos) /\ g # pos /\ u.parent[x] = g
          BY <4>1, <3>1, <3>2, <2>5, <1>2
        <4> HIDE DEF g
        <4>3. /\ u.lchild[g] = IF t.lchild[g] = pos THEN c ELSE t.lchild[g]
              /\ u.rchild[g] = IF t.rchild[g] = pos THEN c ELSE t.rchild[g]
          BY <4>2, <1>10
        <4> QED BY <4>2, <4>3, <3>2
      <3>3. CASE x # c
        <4> DEFINE g == t.parent[x]
        <4>1. g \in U /\ (t.lchild[g] = x \/ t.rchild[g] = x) /\ u.parent[x] = g
          BY <3>1, <3>3, <2>2, <2>5, <2>6, <1>9
        <4> HIDE DEF g
        <4>2. g # pos
          BY <4>1, <3>3, <1>1, <1>9, <2>2
        <4>3. /\ u.lchild[g] = IF t.lchild[g] = pos THEN c ELSE t.lchild[g]
              /\ u.rchild[g] = IF t.rchild[g] = pos THEN c ELSE t.rchild[g]
          BY <4>1, <4>2, <1>10
        <4> QED BY <4>1, <4>2, <4>3, <2>2
      <3> QED BY <3>2, <3>3
    <2> HIDE DEF l, r
    <2>7. s[u.lchild[x]] = {m \in s[x] : d[m] < d[x]} /\ s[u.rchild[x]] = {m \in s[x] : d[x] < d[m]}
      <3>1. s[x] = span[x] \ {pos} /\ s[l] = span[l] \ {pos} /\ s[r] = span[r] \ {pos}
        BY <2>2, <1>4
      <3>2. l = pos => s[c] = span[l] \ {pos}
        BY <1>4
      <3>3. r = pos => s[c] = span[r] \ {pos}
        BY <1>4
      <3>4. s[u.lchild[x]] = span[l] \ {pos} /\ s[u.rchild[x]] = span[r] \ {pos}
        BY <3>1, <3>2, <3>3, <2>1
      <3> QED BY <3>1, <3>4, <2>2
    <2>8. x \in s[x] /\ u.lchild[x] \in V \cup {NPOS} /\ u.rchild[x] \in V \cup {NPOS}
      BY <2>1, <2>2, <1>3, <1>4
    <2>9. u.lchild[x] # NPOS => u.parent[u.lchild[x]] = x
      BY <2>1, <2>2, <2>3, <2>5, <1>1, <1>3
    <2>10. u.rchild[x] # NPOS => u.parent[u.rchild[x]] = x
      BY <2>1, <2>2, <2>4, <2>5, <1>1, <1>3
    <2> QED BY <2>6, <2>7, <2>8, <2>9, <2>10 DEF Joint
  <1>6. /\ s[u.root] = V /\ u.root \in V \cup {NPOS} /\ (u.root # NPOS => u.parent[u.root] = NPOS)
    BY <1>1, <1>3, <1>4, <1>9, <1>10
  <1>7. Keyed(V, d) /\ Convex(V, d, s)
    <2>1. Keyed(U, d) /\ Convex(U, d, span)
      BY DEF Grown, Shape
    <2> QED BY <2>1, <1>4 DEF Keyed, Convex
  <1>8. Shape(u, V, d, s)
    BY <1>4, <1>5, <1>6, <1>7 DEF Shape
  <1> QED BY <1>8

\* The shape is a matter of the order of the keys.
LEMMA Rekeyed ==
    ASSUME NEW t, NEW U, U \subseteq Node, NEW d, NEW e, \E span : Shape(t, U, d, span),
           \A x \in U : e[x] \in Nat,
           \A a, b \in U : e[a] < e[b] <=> d[a] < d[b]
    PROVE  \E span : Shape(t, U, e, span)
  <1>1. PICK span : Shape(t, U, d, span)
    OBVIOUS
  <1>2. /\ Keyed(U, d) /\ Convex(U, d, span)
        /\ \A x \in U : Joint(t, U, d, span, x) /\ span[x] \subseteq U
    BY <1>1, Positions DEF Shape
  <1>3. Keyed(U, e)
    <2>1. \A a, b \in U : d[a] \in Nat /\ d[b] \in Nat /\ (d[a] = d[b] => a = b)
      BY <1>2 DEF Keyed
    <2>2. \A a, b \in U : e[a] \in Nat /\ e[b] \in Nat /\ (e[a] < e[b] <=> d[a] < d[b])
      OBVIOUS
    <2> QED BY <2>1, <2>2 DEF Keyed
  <1>4. Convex(U, e, span)
    <2> SUFFICES ASSUME NEW x \in U, NEW a \in span[x], NEW b \in span[x], NEW m \in U, e[a] < e[m], e[m] < e[b]
                 PROVE  m \in span[x]
      BY DEF Convex
    <2>1. a \in U /\ b \in U
      BY <1>2
    <2>2. d[a] < d[m] /\ d[m] < d[b]
      BY <2>1
    <2> QED BY <2>2, <1>2 DEF Convex
  <1>5. ASSUME NEW x \in U PROVE Joint(t, U, e, span, x)
    <2>1. Joint(t, U, d, span, x) /\ span[x] \subseteq U
      BY <1>2
    <2>2. /\ {m \in span[x] : d[m] < d[x]} = {m \in span[x] : e[m] < e[x]}
          /\ {m \in span[x] : d[x] < d[m]} = {m \in span[x] : e[x] < e[m]}
      BY <2>1
    <2> QED BY <2>1, <2>2 DEF Joint
  <1> QED BY <1>1, <1>3, <1>4, <1>5 DEF Shape

-----------------------------------------------------------------------------
(* The ring of unused nodes: g tells what stands at each of its m places.  *)

RingAt(t, g, m) ==
    /\ Order(g, m, Node)
    /\ t.empty = IF m = 0 THEN NPOS ELSE g[1]
    /\ \A i \in 1..m : t.rchild[g[i]] = IF i = m THEN g[1] ELSE g[i + 1]
    /\ \A i \in 1..m : t.lchild[g[i]] = IF i = 1 THEN g[m] ELSE g[i - 1]

\* From t to u nothing changed but the head of the ring and the links in S.
Relinked(t, u, S) ==
    /\ u \in Trees
    /\ u.parent = t.parent /\ u.color = t.color /\ u.data = t.data
    /\ u.root = t.root /\ u.size = t.size
    /\ \A x \in NodeOrNone \ S : u.lchild[x] = t.lchild[x] /\ u.rchild[x] = t.rchild[x]

LEMMA RingPlaces ==
    ASSUME NEW t, NEW m \in Nat, NEW g, RingAt(t, g, m)
    PROVE  /\ \A i \in 1..m : g[i] \in Nodes(g, m) /\ g[i] \in Node /\ g[i] \in NodeOrNone /\ g[i] # NPOS
           /\ \A i, j \in 1..m : g[i] = g[j] => i = j
           /\ Nodes(g, m) \subseteq Node
  BY Positions DEF RingAt, Order, Nodes

\* The ring does not notice a change elsewhere.
LEMMA RingHolds ==
    ASSUME NEW t, NEW m \in Nat, NEW g, RingAt(t, g, m), NEW u, u.empty = t.empty,
           \A x \in Nodes(g, m) : u.lchild[x] = t.lchild[x] /\ u.rchild[x] = t.rchild[x]
    PROVE  RingAt(u, g, m)
  <1>1. \A i \in 1..m : g[i] \in Nodes(g, m)
    BY RingPlaces
  <1> QED BY <1>1 DEF RingAt

\* The links and the fields that the ring is made with.
Bridged(t, u, a, b) ==
    /\ \A x \in NodeOrNone : u.lchild[x] = IF x = a THEN b ELSE t.lchild[x]
    /\ \A x \in NodeOrNone : u.rchild[x] = IF x = b THEN a ELSE t.rchild[x]
    /\ u.empty = a /\ u \in Trees
    /\ u.parent = t.parent /\ u.color = t.color /\ u.data = t.data
    /\ u.root = t.root /\ u.size = t.size

LEMMA BridgeIs ==
    ASSUME NEW t \in Trees, NEW a \in NodeOrNone, NEW b \in NodeOrNone,
           NEW u, u = [t EXCEPT !.lchild[a] = b, !.rchild[b] = a, !.empty = a]
    PROVE  Bridged(t, u, a, b)
  BY DEF Trees, Bridged

Joined(t, u, pos, a, b) ==
    /\ u \in Trees /\ u.parent = t.parent /\ u.color = t.color /\ u.data = t.data
    /\ u.root = t.root /\ u.size = t.size
    /\ \A x \in NodeOrNone : u.rchild[x] = IF x = pos THEN a ELSE IF x = b THEN pos ELSE t.rchild[x]
    /\ \A x \in NodeOrNone : u.lchild[x] = IF x = pos THEN b ELSE IF x = a THEN pos ELSE t.lchild[x]

LEMMA JoinIs ==
    ASSUME NEW t \in Trees, NEW pos \in NodeOrNone, NEW a \in NodeOrNone, NEW b \in NodeOrNone,
           a # pos, b # pos,
           NEW u, u = [t EXCEPT !.rchild[pos] = a, !.lchild[pos] = b,
                                !.lchild[a] = pos, !.rchild[b] = pos]
    PROVE  Joined(t, u, pos, a, b)
  BY DEF Trees, Joined

Cleared(t, u, pos, k) ==
    /\ u \in Trees /\ u.root = t.root /\ u.size = t.size /\ u.empty = pos
    /\ u.lchild = t.lchild /\ u.rchild = t.rchild
    /\ \A x \in NodeOrNone : /\ u.parent[x] = IF x = pos THEN NPOS ELSE t.parent[x]
                             /\ u.color[x] = IF x = pos THEN "EMPTY" ELSE t.color[x]
                             /\ u.data[x] = IF x = pos THEN k ELSE t.data[x]

LEMMA ClearIs ==
    ASSUME NEW t \in Trees, NEW pos \in NodeOrNone, NEW k \in Key,
           NEW u, u = [t EXCEPT !.parent[pos] = NPOS, !.color[pos] = "EMPTY", !.empty = pos, !.data[pos] = k]
    PROVE  Cleared(t, u, pos, k)
  <1>1. NPOS \in NodeOrNone /\ "EMPTY" \in Colors
    BY Positions DEF Colors
  <1>2. u \in Trees
    BY <1>1 DEF Trees
  <1> QED BY <1>1, <1>2 DEF Trees, Cleared

\* Its head is taken.
LEMMA TakeKeeps ==
    ASSUME NEW t \in Trees, NEW m \in Nat \ {0}, NEW g, RingAt(t, g, m),
           NEW h, h = CutAt(g, m, 1), NEW u, u = GetNodeFromEmptyList(t)
    PROVE  /\ RingAt(u, h, m - 1) /\ Nodes(h, m - 1) = Nodes(g, m) \ {t.empty}
           /\ Relinked(t, u, Nodes(g, m)) /\ t.empty \in Nodes(g, m)
  <1>1. /\ \A i \in 1..m : g[i] \in Nodes(g, m) /\ g[i] \in Node /\ g[i] \in NodeOrNone /\ g[i] # NPOS
        /\ \A i, j \in 1..m : g[i] = g[j] => i = j
        /\ 1 \in 1..m /\ m \in 1..m /\ NPOS \in NodeOrNone
        /\ t.empty = g[1] /\ Order(g, m, Node)
    <2>1. m \in Nat /\ 1 \in 1..m /\ m \in 1..m /\ NPOS \in NodeOrNone
      BY Positions
    <2>2. t.empty = g[1] /\ Order(g, m, Node)
      BY DEF RingAt
    <2> QED BY <2>1, <2>2, RingPlaces
  <1>2. Order(h, m - 1, Node) /\ Nodes(h, m - 1) = Nodes(g, m) \ {t.empty}
    <2>1. /\ Order(CutAt(g, m, 1), m - 1, Node)
          /\ Nodes(CutAt(g, m, 1), m - 1) = Nodes(g, m) \ {g[1]}
      BY <1>1, CutAtIs
    <2> QED BY <2>1, <1>1
  <1>3. \A i \in 1..(m - 1) : h[i] = g[i + 1] /\ i + 1 \in 1..m
    BY DEF CutAt
  <1>4. CASE m = 1
    <2>1. t.rchild[t.empty] = t.empty
      BY <1>1, <1>4 DEF RingAt
    <2>2. u = [t EXCEPT !.empty = NPOS]
      BY <2>1 DEF GetNodeFromEmptyList
    <2>3. Relinked(t, u, Nodes(g, m)) /\ u.empty = NPOS
      BY <2>2, <1>1 DEF Relinked, Trees
    <2>4. RingAt(u, h, m - 1)
      BY <2>3, <1>2, <1>4 DEF RingAt
    <2> QED BY <2>3, <2>4, <1>1, <1>2
  <1>5. CASE m # 1
    <2>1. 2 \in 1..m /\ m - 1 \in 1..(m - 1) /\ 1 \in 1..(m - 1)
      BY <1>5
    <2>2. t.rchild[t.empty] = g[2] /\ t.lchild[t.empty] = g[m] /\ g[2] # g[1]
      BY <2>1, <1>1, <1>5 DEF RingAt
    <2>3. u = [t EXCEPT !.lchild[g[2]] = g[m], !.rchild[g[m]] = g[2], !.empty = g[2]]
      BY <2>2, <1>1 DEF GetNodeFromEmptyList
    <2>4. /\ \A x \in NodeOrNone : u.lchild[x] = IF x = g[2] THEN g[m] ELSE t.lchild[x]
          /\ \A x \in NodeOrNone : u.rchild[x] = IF x = g[m] THEN g[2] ELSE t.rchild[x]
          /\ u.empty = g[2] /\ u \in Trees
          /\ u.parent = t.parent /\ u.color = t.color /\ u.data = t.data
          /\ u.root = t.root /\ u.size = t.size
      <3>1. g[2] \in NodeOrNone /\ g[m] \in NodeOrNone
        BY <2>1, <1>1
      <3>2. Bridged(t, u, g[2], g[m])
        BY <2>3, <3>1, BridgeIs
      <3> QED BY <3>2 DEF Bridged
    <2>5. Relinked(t, u, Nodes(g, m))
      BY <2>1, <2>4, <1>1 DEF Relinked
    <2>6. h[1] = g[2] /\ h[m - 1] = g[m]
      BY <2>1, <1>3
    <2>7. ASSUME NEW i \in 1..(m - 1)
          PROVE  /\ u.rchild[h[i]] = IF i = m - 1 THEN h[1] ELSE h[i + 1]
                 /\ u.lchild[h[i]] = IF i = 1 THEN h[m - 1] ELSE h[i - 1]
      <3>1. h[i] = g[i + 1] /\ i + 1 \in 1..m /\ g[i + 1] \in NodeOrNone /\ i + 1 # 1
        BY <1>1, <1>3
      <3>2. /\ t.rchild[g[i + 1]] = IF i + 1 = m THEN g[1] ELSE g[i + 1 + 1]
            /\ t.lchild[g[i + 1]] = g[i + 1 - 1]
        BY <3>1 DEF RingAt
      <3>3. u.rchild[h[i]] = IF i = m - 1 THEN h[1] ELSE h[i + 1]
        <4>1. CASE i = m - 1
          <5>1. i + 1 = m
            BY <4>1
          <5> QED BY <5>1, <4>1, <3>1, <2>4, <2>6
        <4>2. CASE i # m - 1
          <5>1. i + 1 # m /\ i + 1 \in 1..(m - 1)
            BY <4>2
          <5>2. g[i + 1] # g[m] /\ h[i + 1] = g[i + 1 + 1]
            BY <5>1, <3>1, <1>1, <1>3
          <5> QED BY <5>1, <5>2, <4>2, <3>1, <3>2, <2>4
        <4> QED BY <4>1, <4>2
      <3>4. u.lchild[h[i]] = IF i = 1 THEN h[m - 1] ELSE h[i - 1]
        <4>1. CASE i = 1
          <5>1. i + 1 = 2
            BY <4>1
          <5> QED BY <5>1, <4>1, <3>1, <2>4, <2>6
        <4>2. CASE i # 1
          <5>1. i + 1 # 2 /\ i - 1 \in 1..(m - 1) /\ i - 1 + 1 = i /\ i + 1 - 1 = i
            BY <4>2
          <5>2. g[i + 1] # g[2] /\ h[i - 1] = g[i]
            BY <5>1, <3>1, <2>1, <1>1, <1>3
          <5> QED BY <5>1, <5>2, <4>2, <3>1, <3>2, <2>4
        <4> QED BY <4>1, <4>2
      <3> QED BY <3>3, <3>4
    <2>8. u.empty = h[1] /\ m - 1 # 0
      BY <2>4, <2>6, <1>5
    <2>9. RingAt(u, h, m - 1)
      BY <2>7, <2>8, <1>2 DEF RingAt
    <2> QED BY <2>5, <2>9, <1>1, <1>2
  <1> QED BY <1>4, <1>5

\* What GiveKeeps says of the fields of the node that comes back.
Returned(t, u, pos, S) ==
    /\ u \in Trees /\ u.root = t.root /\ u.size = t.size
    /\ \A x \in NodeOrNone : /\ u.parent[x] = IF x = pos THEN NPOS ELSE t.parent[x]
                             /\ u.color[x] = IF x = pos THEN "EMPTY" ELSE t.color[x]
                             /\ u.data[x] = IF x = pos THEN AnyKey ELSE t.data[x]
    /\ \A x \in NodeOrNone \ (S \cup {pos}) : u.lchild[x] = t.lchild[x] /\ u.rchild[x] = t.rchild[x]

\* A node comes back and is the head.
LEMMA GiveKeeps ==
    ASSUME NEW t \in Trees, NEW m \in Nat, NEW g, RingAt(t, g, m),
           NEW pos \in Node, pos \notin Nodes(g, m),
           NEW h, h = PutAt(g, m, 1, pos), NEW u, u = InsertNodeToEmptyList(t, pos)
    PROVE  /\ RingAt(u, h, m + 1) /\ Nodes(h, m + 1) = Nodes(g, m) \cup {pos}
           /\ Returned(t, u, pos, Nodes(g, m))
  <1>1. /\ \A i \in 1..m : g[i] \in Nodes(g, m) /\ g[i] \in NodeOrNone /\ g[i] # NPOS /\ g[i] # pos
        /\ \A i, j \in 1..m : g[i] = g[j] => i = j
        /\ pos \in NodeOrNone /\ NPOS \in NodeOrNone /\ Order(g, m, Node) /\ AnyKey \in Key
    <2>1. pos \in NodeOrNone /\ NPOS \in NodeOrNone /\ Order(g, m, Node)
      BY Positions DEF RingAt
    <2>2. AnyKey \in Key
      BY TreeAssumption DEF AnyKey
    <2>3. /\ \A i \in 1..m : g[i] \in Nodes(g, m) /\ g[i] \in NodeOrNone /\ g[i] # NPOS
          /\ \A i, j \in 1..m : g[i] = g[j] => i = j
      BY RingPlaces
    <2>4. \A i \in 1..m : g[i] # pos
      BY <2>3
    <2> QED BY <2>1, <2>2, <2>3, <2>4
  <1>2. Order(h, m + 1, Node) /\ Nodes(h, m + 1) = Nodes(g, m) \cup {pos}
    <2>1. ASSUME NEW c \in 1..(m + 1)
          PROVE  /\ Order(PutAt(g, m, c, pos), m + 1, Node)
                 /\ Nodes(PutAt(g, m, c, pos), m + 1) = Nodes(g, m) \cup {pos}
      BY <1>1, PutAtIs
    <2>2. 1 \in 1..(m + 1)
      OBVIOUS
    <2> QED BY <2>1, <2>2
  <1>3. /\ h[1] = pos /\ 1 \in 1..(m + 1)
        /\ \A i \in 1..(m + 1) : i # 1 => h[i] = g[i - 1] /\ i - 1 \in 1..m
    BY DEF PutAt
  <1> DEFINE ring == IF m = 0 THEN [t EXCEPT !.rchild[pos] = pos, !.lchild[pos] = pos]
                     ELSE [t EXCEPT !.rchild[pos] = g[1], !.lchild[pos] = g[m],
                                    !.lchild[g[1]] = pos, !.rchild[g[m]] = pos]
  <1>4. u = [ring EXCEPT !.parent[pos] = NPOS, !.color[pos] = "EMPTY", !.empty = pos, !.data[pos] = AnyKey]
    <2>1. CASE m = 0
      <3>1. t.empty = NPOS
        BY <2>1 DEF RingAt
      <3> QED BY <2>1, <3>1 DEF InsertNodeToEmptyList
    <2>2. CASE m # 0
      <3>1. 1 \in 1..m
        BY <2>2
      <3>2. t.empty = g[1] /\ t.empty # NPOS /\ t.lchild[g[1]] = g[m]
        BY <2>2, <3>1, <1>1 DEF RingAt
      <3> QED BY <2>2, <3>2 DEF InsertNodeToEmptyList
    <2> QED BY <2>1, <2>2
  <1>5. /\ ring \in Trees /\ ring.parent = t.parent /\ ring.color = t.color /\ ring.data = t.data
        /\ ring.root = t.root /\ ring.size = t.size
        /\ m = 0 => /\ \A x \in NodeOrNone : ring.rchild[x] = IF x = pos THEN pos ELSE t.rchild[x]
                    /\ \A x \in NodeOrNone : ring.lchild[x] = IF x = pos THEN pos ELSE t.lchild[x]
        /\ m # 0 => /\ \A x \in NodeOrNone :
                          ring.rchild[x] = IF x = pos THEN g[1] ELSE IF x = g[m] THEN pos ELSE t.rchild[x]
                    /\ \A x \in NodeOrNone :
                          ring.lchild[x] = IF x = pos THEN g[m] ELSE IF x = g[1] THEN pos ELSE t.lchild[x]
    <2>1. CASE m = 0
      BY <2>1, <1>1 DEF Trees
    <2>2. CASE m # 0
      <3>1. g[1] \in NodeOrNone /\ g[m] \in NodeOrNone /\ g[1] # pos /\ g[m] # pos
        BY <2>2, <1>1
      <3>2. Joined(t, ring, pos, g[1], g[m])
        BY <2>2, <3>1, <1>1, JoinIs
      <3> HIDE DEF ring
      <3> QED BY <2>2, <3>2 DEF Joined
    <2> QED BY <2>1, <2>2
  <1> HIDE DEF ring
  <1>6. /\ u \in Trees /\ u.root = ring.root /\ u.size = ring.size /\ u.empty = pos
        /\ u.lchild = ring.lchild /\ u.rchild = ring.rchild
        /\ \A x \in NodeOrNone : /\ u.parent[x] = IF x = pos THEN NPOS ELSE ring.parent[x]
                                 /\ u.color[x] = IF x = pos THEN "EMPTY" ELSE ring.color[x]
                                 /\ u.data[x] = IF x = pos THEN AnyKey ELSE ring.data[x]
    <2>1. Cleared(ring, u, pos, AnyKey)
      BY <1>1, <1>4, <1>5, ClearIs
    <2> QED BY <2>1 DEF Cleared
  <1>7. Returned(t, u, pos, Nodes(g, m))
    <2>1. ASSUME NEW x \in NodeOrNone \ (Nodes(g, m) \cup {pos})
          PROVE  u.lchild[x] = t.lchild[x] /\ u.rchild[x] = t.rchild[x]
      <3>1. m # 0 => x # g[1] /\ x # g[m]
        BY <1>1
      <3> QED BY <3>1, <1>5, <1>6
    <2> QED BY <2>1, <1>5, <1>6 DEF Returned
  <1>8. ASSUME NEW i \in 1..(m + 1)
        PROVE  /\ u.rchild[h[i]] = IF i = m + 1 THEN h[1] ELSE h[i + 1]
               /\ u.lchild[h[i]] = IF i = 1 THEN h[m + 1] ELSE h[i - 1]
    <2>1. CASE m = 0
      BY <2>1, <1>1, <1>3, <1>5, <1>6
    <2>2. CASE m # 0 /\ i = 1
      <3>1. i + 1 \in 1..(m + 1) /\ i + 1 # 1 /\ i + 1 - 1 = 1 /\ m + 1 \in 1..(m + 1) /\ m + 1 # 1
            /\ m + 1 - 1 = m /\ i # m + 1
        BY <2>2
      <3>2. h[i + 1] = g[1] /\ h[m + 1] = g[m] /\ h[i] = pos
        BY <2>2, <3>1, <1>3
      <3> QED BY <2>2, <3>1, <3>2, <1>1, <1>5, <1>6
    <2>3. CASE m # 0 /\ i # 1
      <3>1. h[i] = g[i - 1] /\ i - 1 \in 1..m /\ g[i - 1] \in NodeOrNone /\ g[i - 1] # pos
            /\ 1 \in 1..m /\ m \in 1..m
        BY <2>3, <1>1, <1>3
      <3>2. /\ t.rchild[g[i - 1]] = IF i - 1 = m THEN g[1] ELSE g[i - 1 + 1]
            /\ t.lchild[g[i - 1]] = IF i - 1 = 1 THEN g[m] ELSE g[i - 1 - 1]
        BY <3>1 DEF RingAt
      <3>3. (g[i - 1] = g[m] <=> i - 1 = m) /\ (g[i - 1] = g[1] <=> i - 1 = 1)
        BY <3>1, <1>1
      <3>4. u.rchild[h[i]] = IF i = m + 1 THEN h[1] ELSE h[i + 1]
        <4>1. CASE i = m + 1
          BY <4>1, <3>1, <3>3, <2>3, <1>3, <1>5, <1>6
        <4>2. CASE i # m + 1
          <5>1. i - 1 # m /\ i + 1 \in 1..(m + 1) /\ i + 1 # 1 /\ i + 1 - 1 = i /\ i - 1 + 1 = i
            BY <4>2
          <5>2. h[i + 1] = g[i]
            BY <5>1, <1>3
          <5> QED BY <5>1, <5>2, <4>2, <3>1, <3>2, <3>3, <2>3, <1>5, <1>6
        <4> QED BY <4>1, <4>2
      <3>5. u.lchild[h[i]] = h[i - 1]
        <4>1. CASE i - 1 = 1
          BY <4>1, <3>1, <3>3, <2>3, <1>3, <1>5, <1>6
        <4>2. CASE i - 1 # 1
          <5>1. i - 1 \in 1..(m + 1)
            BY <3>1
          <5>2. h[i - 1] = g[i - 1 - 1]
            BY <5>1, <4>2, <1>3
          <5> QED BY <5>2, <4>2, <3>1, <3>2, <3>3, <2>3, <1>5, <1>6
        <4> QED BY <4>1, <4>2
      <3> QED BY <3>4, <3>5, <2>3
    <2> QED BY <2>1, <2>2, <2>3
  <1>9. u.empty = h[1] /\ m + 1 # 0
    BY <1>3, <1>6
  <1>10. RingAt(u, h, m + 1)
    BY <1>2, <1>8, <1>9 DEF RingAt
  <1> QED BY <1>2, <1>7, <1>10

-----------------------------------------------------------------------------
(* The whole block: U are the nodes in use, g the ring of the m others.    *)

Grove(t, U, g, m) ==
    /\ Woods(t, U, t.data) /\ RootBlack(t)
    /\ m \in Nat /\ RingAt(t, g, m) /\ Nodes(g, m) = Node \ U
    /\ t.size + m = TreeNodes

LEMMA WoodsGrow ==
    ASSUME NEW t, NEW U, NEW d, Woods(t, U, d)
    PROVE  \E span : Grown(t, U, d, span)
  BY DEF Woods, Grown

\* What GetNewNodeAndInsert makes of the block before the fixup.
Started(e, w, new, q, k) ==
    /\ w \in Trees /\ w.size = e.size + 1 /\ w.empty = e.empty
    /\ w.root = IF q = NPOS THEN new ELSE e.root
    /\ \A x \in NodeOrNone :
         /\ w.lchild[x] = IF x = new THEN NPOS
                          ELSE IF q # NPOS /\ x = q /\ ~(e.data[q] < k) THEN new ELSE e.lchild[x]
         /\ w.rchild[x] = IF x = new THEN NPOS
                          ELSE IF q # NPOS /\ x = q /\ e.data[q] < k THEN new ELSE e.rchild[x]
         /\ w.parent[x] = IF x = new THEN q ELSE e.parent[x]
         /\ w.color[x] = IF x = new THEN "RED" ELSE e.color[x]
         /\ w.data[x] = IF x = new THEN k ELSE e.data[x]

\* One field written.
Rooted(f, w, p) ==
    /\ w \in Trees /\ w.size = f.size /\ w.empty = f.empty /\ w.root = p
    /\ w.parent = f.parent /\ w.color = f.color /\ w.data = f.data
    /\ \A x \in NodeOrNone : w.lchild[x] = f.lchild[x] /\ w.rchild[x] = f.rchild[x]

LEMMA RootIs ==
    ASSUME NEW f \in Trees, NEW p \in NodeOrNone, NEW w, w = [f EXCEPT !.root = p]
    PROVE  Rooted(f, w, p)
  BY DEF Trees, Rooted

Lefted(f, w, q, p) ==
    /\ w \in Trees /\ w.size = f.size /\ w.empty = f.empty /\ w.root = f.root
    /\ w.parent = f.parent /\ w.color = f.color /\ w.data = f.data
    /\ \A x \in NodeOrNone : /\ w.lchild[x] = IF x = q THEN p ELSE f.lchild[x]
                             /\ w.rchild[x] = f.rchild[x]

LEMMA LeftIs ==
    ASSUME NEW f \in Trees, NEW q \in NodeOrNone, NEW p \in NodeOrNone, NEW w, w = [f EXCEPT !.lchild[q] = p]
    PROVE  Lefted(f, w, q, p)
  BY DEF Trees, Lefted

Righted(f, w, q, p) ==
    /\ w \in Trees /\ w.size = f.size /\ w.empty = f.empty /\ w.root = f.root
    /\ w.parent = f.parent /\ w.color = f.color /\ w.data = f.data
    /\ \A x \in NodeOrNone : /\ w.lchild[x] = f.lchild[x]
                             /\ w.rchild[x] = IF x = q THEN p ELSE f.rchild[x]

LEMMA RightIs ==
    ASSUME NEW f \in Trees, NEW q \in NodeOrNone, NEW p \in NodeOrNone, NEW w, w = [f EXCEPT !.rchild[q] = p]
    PROVE  Righted(f, w, q, p)
  BY DEF Trees, Righted

\* all of it but the link to the new node
Fresh(e, f, new, q, k) ==
    /\ f \in Trees /\ f.size = e.size + 1 /\ f.empty = e.empty /\ f.root = e.root
    /\ \A x \in NodeOrNone :
         /\ f.lchild[x] = IF x = new THEN NPOS ELSE e.lchild[x]
         /\ f.rchild[x] = IF x = new THEN NPOS ELSE e.rchild[x]
         /\ f.parent[x] = IF x = new THEN q ELSE e.parent[x]
         /\ f.color[x] = IF x = new THEN "RED" ELSE e.color[x]
         /\ f.data[x] = IF x = new THEN k ELSE e.data[x]

LEMMA FreshLinked ==
    ASSUME NEW e, NEW f, NEW new, NEW q \in NodeOrNone, q # new, NEW k, Fresh(e, f, new, q, k), NEW w,
           \/ q = NPOS /\ Rooted(f, w, new)
           \/ q # NPOS /\ e.data[q] < k /\ Righted(f, w, q, new)
           \/ q # NPOS /\ ~(e.data[q] < k) /\ Lefted(f, w, q, new)
    PROVE  Started(e, w, new, q, k)
  <1>1. CASE q = NPOS /\ Rooted(f, w, new)
    BY <1>1 DEF Fresh, Started, Rooted
  <1>2. CASE q # NPOS /\ e.data[q] < k /\ Righted(f, w, q, new)
    BY <1>2 DEF Fresh, Started, Righted
  <1>3. CASE q # NPOS /\ ~(e.data[q] < k) /\ Lefted(f, w, q, new)
    BY <1>3 DEF Fresh, Started, Lefted
  <1> QED BY <1>1, <1>2, <1>3

LEMMA NewIs ==
    ASSUME NEW e \in Trees, e.size # TreeNodes, NEW new \in Node, NEW q \in NodeOrNone, q # new, NEW k \in Key,
           NEW f, f = [e EXCEPT !.size = @ + 1, !.lchild[new] = NPOS, !.rchild[new] = NPOS,
                                !.parent[new] = q, !.color[new] = "RED", !.data[new] = k],
           NEW w, w = IF q = NPOS THEN [f EXCEPT !.root = new]
                      ELSE IF e.data[q] < k THEN [f EXCEPT !.rchild[q] = new]
                      ELSE [f EXCEPT !.lchild[q] = new]
    PROVE  Started(e, w, new, q, k)
  <1>1. new \in NodeOrNone /\ NPOS \in NodeOrNone /\ new # NPOS /\ "RED" \in Colors
    BY Positions DEF Colors
  <1>2. e.size + 1 \in 0..TreeNodes
    <2>1. e.size \in 0..TreeNodes /\ TreeNodes \in Nat
      BY TreeAssumption DEF Trees
    <2> QED BY <2>1
  <1>3. Fresh(e, f, new, q, k)
    BY <1>1, <1>2 DEF Trees, Fresh
  <1>4. new \in NodeOrNone /\ f \in Trees
    BY <1>1, <1>3 DEF Fresh
  <1>5. CASE q = NPOS
    <2>1. w = [f EXCEPT !.root = new]
      BY <1>5
    <2>2. Rooted(f, w, new)
      BY <2>1, <1>4, RootIs
    <2> QED BY <2>2, <1>3, <1>5, FreshLinked
  <1>6. CASE q # NPOS /\ e.data[q] < k
    <2>1. w = [f EXCEPT !.rchild[q] = new]
      BY <1>6
    <2>2. Righted(f, w, q, new)
      BY <2>1, <1>4, RightIs
    <2> QED BY <2>2, <1>3, <1>6, FreshLinked
  <1>7. CASE q # NPOS /\ ~(e.data[q] < k)
    <2>1. w = [f EXCEPT !.lchild[q] = new]
      BY <1>7
    <2>2. Lefted(f, w, q, new)
      BY <2>1, <1>4, LeftIs
    <2> QED BY <2>2, <1>3, <1>7, FreshLinked
  <1> QED BY <1>5, <1>6, <1>7

\* A key that was not there is in a node from the ring, and nothing else moved.
Inserted(t, v, U, V, k) ==
    /\ \E g, m : Grove(v, V, g, m)
    /\ \E new \in Node : /\ new \notin U /\ V = U \cup {new} /\ v.data[new] = k
                         /\ \A x \in U : v.data[x] = t.data[x] /\ t.data[x] # k
    /\ v.size = t.size + 1

LEMMA InsertKeeps ==
    ASSUME NEW t, NEW U, NEW g, NEW m, Grove(t, U, g, m), t.size # TreeNodes, NEW k \in Key,
           NEW found, found = FindNode(t, k), found[1] = NPOS,
           NEW v, v = GetNewNodeAndInsert(t, k, found[2])
    PROVE  \E V : Inserted(t, v, U, V, k)
  <1> DEFINE d == t.data
             q == found[2]
             new == t.empty
             V == U \cup {new}
             h == CutAt(g, m, 1)
             e == GetNodeFromEmptyList(t)
  <1>1. PICK span : Grown(t, U, d, span)
    BY WoodsGrow DEF Grove
  <1>2. t \in Trees /\ U \subseteq Node /\ t.size \in 0..TreeNodes /\ m \in Nat /\ m # 0 /\ k \in Nat
    <2>1. t \in Trees /\ U \subseteq Node /\ m \in Nat /\ t.size + m = TreeNodes
      BY DEF Grove, Woods, Leafy
    <2>2. t.size \in 0..TreeNodes /\ k \in Nat /\ TreeNodes \in Nat
      BY <2>1, TreeAssumption DEF Trees
    <2> QED BY <2>1, <2>2
  <1>3. Vacancy(t, U, d, k, q) /\ \A y \in U : d[y] # k
    <2>1. Searching(t, U, d, span, k, found[1], found[2])
      BY <1>1, <1>2, FindNodeIs
    <2>2. span[NPOS] = {}
      BY <1>1 DEF Grown, Shape
    <2> QED BY <2>1, <2>2 DEF Searching
  <1>4. /\ RingAt(e, h, m - 1) /\ Nodes(h, m - 1) = Nodes(g, m) \ {new}
        /\ Relinked(t, e, Nodes(g, m)) /\ new \in Nodes(g, m) /\ Nodes(g, m) = Node \ U
    <2>1. RingAt(t, g, m) /\ Nodes(g, m) = Node \ U /\ m \in Nat \ {0}
      BY <1>2 DEF Grove
    <2> QED BY <2>1, <1>2, TakeKeeps
  <1>5. new \in Node /\ new \notin U /\ q \in U \cup {NPOS} /\ q \in NodeOrNone /\ q # new /\ new # NPOS /\ new \in NodeOrNone
        /\ NPOS \in NodeOrNone /\ NPOS \notin Node /\ Node \subseteq NodeOrNone
    BY <1>2, <1>3, <1>4, Positions DEF Vacancy
  <1> DEFINE f == [e EXCEPT !.size = @ + 1, !.lchild[new] = NPOS, !.rchild[new] = NPOS,
                            !.parent[new] = q, !.color[new] = "RED", !.data[new] = k]
             w == IF q = NPOS THEN [f EXCEPT !.root = new]
                  ELSE IF t.data[q] < k THEN [f EXCEPT !.rchild[q] = new]
                  ELSE [f EXCEPT !.lchild[q] = new]
  <1>6. v = InsertFixup(w, new)
    BY DEF GetNewNodeAndInsert
  <1>7. Started(e, w, new, q, k)
    <2>1. e \in Trees /\ e.size # TreeNodes /\ e.data = t.data
      BY <1>4 DEF Relinked
    <2>2. w = IF q = NPOS THEN [f EXCEPT !.root = new]
              ELSE IF e.data[q] < k THEN [f EXCEPT !.rchild[q] = new]
              ELSE [f EXCEPT !.lchild[q] = new]
      BY <2>1
    <2>3. \A a : \A b : a = f /\ b = w => Started(e, b, new, q, k)
      <3> HIDE DEF e, w, f, q, new
      <3> SUFFICES ASSUME NEW a, NEW b, a = f, b = w PROVE Started(e, b, new, q, k)
        OBVIOUS
      <3>1. a = [e EXCEPT !.size = @ + 1, !.lchild[new] = NPOS, !.rchild[new] = NPOS,
                          !.parent[new] = q, !.color[new] = "RED", !.data[new] = k]
        BY DEF f
      <3>2. b = IF q = NPOS THEN [a EXCEPT !.root = new]
                ELSE IF e.data[q] < k THEN [a EXCEPT !.rchild[q] = new]
                ELSE [a EXCEPT !.lchild[q] = new]
        BY <2>2
      <3> QED BY <3>1, <3>2, <2>1, <1>5, NewIs
    <2> QED BY <2>3
  <1> HIDE DEF w, f, e, h
  <1>8. /\ w \in Trees /\ w.size = t.size + 1 /\ w.empty = e.empty
        /\ w.root = IF q = NPOS THEN new ELSE t.root
        /\ w.lchild[new] = NPOS /\ w.rchild[new] = NPOS /\ w.parent[new] = q
        /\ w.color[new] = "RED" /\ w.data[new] = k
    BY <1>4, <1>5, <1>7 DEF Started, Relinked
  <1>9. ASSUME NEW x \in U \cup {NPOS}
        PROVE  /\ w.lchild[x] = IF q # NPOS /\ x = q /\ ~(d[q] < k) THEN new ELSE t.lchild[x]
               /\ w.rchild[x] = IF q # NPOS /\ x = q /\ d[q] < k THEN new ELSE t.rchild[x]
               /\ w.parent[x] = t.parent[x] /\ w.data[x] = d[x]
    <2>1. x \in NodeOrNone \ Nodes(g, m) /\ x # new
      BY <1>2, <1>4, <1>5
    <2>2. e.lchild[x] = t.lchild[x] /\ e.rchild[x] = t.rchild[x] /\ e.parent[x] = t.parent[x] /\ e.data = d
      BY <2>1, <1>4 DEF Relinked
    <2> QED BY <2>1, <2>2, <1>7 DEF Started
  <1>10. \A x \in NodeOrNone : w.color[x] = IF x = new THEN "RED" ELSE t.color[x]
    BY <1>4, <1>7 DEF Started, Relinked
  <1>11. \E s : Shape(w, V, w.data, s)
    <2>1. \A x \in U : /\ w.lchild[x] = IF x = q /\ ~(d[q] < k) THEN new ELSE t.lchild[x]
                       /\ w.rchild[x] = IF x = q /\ d[q] < k THEN new ELSE t.rchild[x]
                       /\ w.parent[x] = t.parent[x]
      BY <1>2, <1>5, <1>9
    <2>2. \A x \in U : w.data[x] = d[x]
      BY <1>9
    <2> HIDE DEF d, q, new
    <2>3. Sprouted(t, w, U, d, k, q, new)
      BY <2>1, <1>8 DEF Sprouted
    <2> QED BY <2>2, <2>3, <1>1, <1>2, <1>3, <1>5, <1>8, LeafShape
  <1>12. Woods(w, V, w.data)
    <2>1. Leafy(t) /\ \A n \in Node : n \in U <=> t.color[n] # "EMPTY"
      BY DEF Grove, Woods
    <2>2. Leafy(w)
      BY <2>1, <1>5, <1>8, <1>9, <1>10 DEF Leafy
    <2>3. \A n \in Node : n \in V <=> w.color[n] # "EMPTY"
      BY <2>1, <1>5, <1>10
    <2>4. V \subseteq Node
      BY <1>2, <1>5
    <2> QED BY <2>2, <2>3, <2>4, <1>11 DEF Woods
  <1>13. Fixing(w, w, new, V, w.data)
    <2>1. RootBlack(w) \/ w.root = new
      <3>1. q # NPOS => t.root # new /\ t.root \in NodeOrNone
        BY <1>1, <1>2, <1>5 DEF Grown, Shape
      <3> QED BY <3>1, <1>8, <1>10 DEF RootBlack, Grove
    <2> QED BY <2>1, <1>8, <1>12 DEF Fixing, Kept
  <1> HIDE DEF V
  <1>14. Woods(v, V, w.data) /\ Kept(w, v, V) /\ RootBlack(v)
    BY <1>6, <1>13, InsertFixupKeeps
  <1>15. RingAt(v, h, m - 1)
    <2>1. m - 1 \in Nat
      BY <1>2
    <2>2. ASSUME NEW x \in Nodes(h, m - 1)
          PROVE  v.lchild[x] = e.lchild[x] /\ v.rchild[x] = e.rchild[x]
      <3>1. x \in NodeOrNone /\ x # new /\ x \notin U /\ x # q /\ x \notin V
        BY <2>2, <1>4, <1>5 DEF V
      <3>2. w.lchild[x] = e.lchild[x] /\ w.rchild[x] = e.rchild[x]
        BY <3>1, <1>7 DEF Started
      <3>3. v.lchild[x] = w.lchild[x] /\ v.rchild[x] = w.rchild[x]
        BY <3>1, <1>14 DEF Kept
      <3> QED BY <3>2, <3>3
    <2>3. v.empty = e.empty
      BY <1>8, <1>14 DEF Kept
    <2> QED BY <2>1, <2>2, <2>3, <1>4, RingHolds
  <1>16. v.data = w.data /\ v.size = t.size + 1
    BY <1>8, <1>14 DEF Kept
  <1>17. Grove(v, V, h, m - 1)
    <2>1. Nodes(h, m - 1) = Node \ V
      BY <1>4 DEF V
    <2>2. m - 1 \in Nat /\ v.size + (m - 1) = TreeNodes
      <3>1. t.size + m = TreeNodes
        BY DEF Grove
      <3> QED BY <3>1, <1>2, <1>16
    <2> QED BY <2>1, <2>2, <1>14, <1>15, <1>16 DEF Grove
  <1>18. /\ new \notin U /\ V = U \cup {new} /\ v.data[new] = k
         /\ \A x \in U : v.data[x] = t.data[x] /\ t.data[x] # k
    BY <1>3, <1>5, <1>8, <1>9, <1>16 DEF V
  <1> QED BY <1>5, <1>16, <1>17, <1>18 DEF Inserted

-----------------------------------------------------------------------------
(* A node that goes.                                                       *)

\* What Replace makes of the links: c is where pos was.
Replaced(t, r, pos, c, U) ==
    /\ r \in Trees /\ r.size = t.size /\ r.empty = t.empty
    /\ r.root = IF t.root = pos THEN c ELSE t.root
    /\ r.parent = t.parent /\ r.color = t.color /\ r.data = t.data
    /\ \A x \in U : /\ r.lchild[x] = IF t.lchild[x] = pos THEN c ELSE t.lchild[x]
                    /\ r.rchild[x] = IF t.rchild[x] = pos THEN c ELSE t.rchild[x]
    /\ \A x \in NodeOrNone \ U : r.lchild[x] = t.lchild[x] /\ r.rchild[x] = t.rchild[x]

LEMMA ReplaceIs ==
    ASSUME NEW t, NEW U, NEW d, NEW span, Grown(t, U, d, span), NEW pos \in U,
           NEW c \in NodeOrNone, NEW r, r = Replace(t, pos, c)
    PROVE  Replaced(t, r, pos, c, U)
  <1> DEFINE q == t.parent[pos]
  <1>1. t \in Trees /\ U \subseteq Node /\ Shape(t, U, d, span) /\ U \subseteq NodeOrNone
    BY Positions DEF Grown, Leafy
  <1>2. /\ q \in NodeOrNone /\ (q = NPOS <=> pos = t.root)
        /\ q # NPOS => q \in U /\ (t.lchild[q] = pos \/ t.rchild[q] = pos)
    <2>1. q \in NodeOrNone
      BY <1>1 DEF Trees
    <2>2. q = NPOS <=> pos = t.root
      <3>1. t.parent[pos] = NPOS <=> pos = t.root
        <4> HIDE DEF q
        <4> QED BY <1>1, RootAlone
      <3> QED BY <3>1
    <2> QED BY <2>1, <2>2, ParentIs
  <1>3. ASSUME NEW x \in U
        PROVE  /\ t.lchild[x] = pos => x = q /\ t.rchild[x] # pos
               /\ t.rchild[x] = pos => x = q /\ t.lchild[x] # pos
    <2>1. pos # NPOS
      BY <1>1, Positions
    <2> QED BY <2>1, <1>1, Around, Below
  <1>4. \A x \in U : x # NPOS
    BY <1>1, Positions
  <1> HIDE DEF q
  <1>5. CASE q = NPOS
    <2>1. r = [t EXCEPT !.root = c]
      BY <1>5 DEF Replace, q
    <2>2. Rooted(t, r, c)
      BY <2>1, <1>1, RootIs
    <2> QED BY <2>2, <1>1, <1>2, <1>3, <1>4, <1>5 DEF Rooted, Replaced
  <1>6. CASE q # NPOS /\ t.lchild[q] = pos
    <2>1. r = [t EXCEPT !.lchild[q] = c]
      BY <1>6 DEF Replace, Left, q
    <2>2. Lefted(t, r, q, c)
      BY <2>1, <1>1, <1>2, LeftIs
    <2> QED BY <2>2, <1>1, <1>2, <1>3, <1>6 DEF Lefted, Replaced
  <1>7. CASE q # NPOS /\ t.lchild[q] # pos
    <2>1. r = [t EXCEPT !.rchild[q] = c]
      BY <1>7 DEF Replace, Left, q
    <2>2. Righted(t, r, q, c)
      BY <2>1, <1>1, <1>2, RightIs
    <2>3. t.rchild[q] = pos /\ q \in U
      BY <1>2, <1>7
    <2> QED BY <2>2, <2>3, <1>1, <1>2, <1>3, <1>7 DEF Righted, Replaced
  <1> QED BY <1>5, <1>6, <1>7

\* What DeleteAndFreeNode makes of the block: pos went to the ring.
Dropped(t, v, pos, c, U, d, g, m) ==
    /\ Woods(v, U \ {pos}, d)
    /\ \E h : RingAt(v, h, m + 1) /\ Nodes(h, m + 1) = Nodes(g, m) \cup {pos}
    /\ v.root = (IF t.root = pos THEN c ELSE t.root) /\ v.size = t.size
    /\ \A x \in NodeOrNone \ {pos} : v.color[x] = t.color[x] /\ v.data[x] = t.data[x]
    /\ t.parent[pos] # NPOS => Under(v, U \ {pos}, t.parent[pos], c)

LEMMA DropKeeps ==
    ASSUME NEW t, NEW U, NEW d, Woods(t, U, d), NEW pos \in U, NEW c, Thin(t, pos, c),
           NEW m \in Nat, NEW g, RingAt(t, g, m), Nodes(g, m) = Node \ U,
           NEW v, v = DeleteAndFreeNode(t, pos, c)
    PROVE  Dropped(t, v, pos, c, U, d, g, m)
  <1> DEFINE q == t.parent[pos]
             V == U \ {pos}
             r == Replace(t, pos, c)
             w == Hang(r, c, q)
             h == PutAt(g, m, 1, pos)
  <1>1. PICK span : Grown(t, U, d, span)
    BY WoodsGrow
  <1>2. /\ t \in Trees /\ U \subseteq Node /\ U \subseteq NodeOrNone /\ pos \in Node /\ pos \in NodeOrNone /\ pos # NPOS
        /\ NPOS \in NodeOrNone /\ NPOS \notin Node
        /\ Leafy(t) /\ \A n \in Node : n \in U <=> t.color[n] # "EMPTY"
    BY Positions DEF Woods, Leafy
  <1>3. c \in V \cup {NPOS} /\ c \in NodeOrNone /\ (c # NPOS => t.parent[c] = pos)
    <2>1. /\ t.lchild[pos] \in U \cup {NPOS} /\ t.rchild[pos] \in U \cup {NPOS}
          /\ t.lchild[pos] # pos /\ t.rchild[pos] # pos
          /\ t.lchild[pos] # NPOS => t.parent[t.lchild[pos]] = pos
          /\ t.rchild[pos] # NPOS => t.parent[t.rchild[pos]] = pos
      BY <1>1, Below
    <2> QED BY <2>1, <1>2 DEF Thin
  <1>4. /\ q \in NodeOrNone /\ (q = NPOS <=> pos = t.root)
        /\ q # NPOS => q \in V /\ (t.lchild[q] = pos \/ t.rchild[q] = pos)
    <2>1. Shape(t, U, d, span)
      BY <1>1 DEF Grown
    <2> QED BY <2>1, <1>1, <1>2, Around, ParentIs DEF Trees
  <1>5. Replaced(t, r, pos, c, U)
    BY <1>1, <1>3, ReplaceIs
  <1>6. v = InsertNodeToEmptyList(w, pos)
    BY DEF DeleteAndFreeNode
  <1> HIDE DEF r
  <1>7. /\ w \in Trees /\ w.size = r.size /\ w.empty = r.empty /\ w.root = r.root
        /\ w.lchild = r.lchild /\ w.rchild = r.rchild /\ w.color = r.color /\ w.data = r.data
        /\ \A x \in NodeOrNone : w.parent[x] = IF x = c /\ c # NPOS THEN q ELSE r.parent[x]
    <2>1. r \in Trees
      BY <1>5 DEF Replaced
    <2>2. CASE c = NPOS
      BY <2>1, <2>2 DEF Hang
    <2>3. CASE c # NPOS
      <3>1. w = [r EXCEPT !.parent[c] = q]
        BY <2>3 DEF Hang
      <3> HIDE DEF w, q
      <3> QED BY <3>1, <2>1, <2>3, <1>3, <1>4 DEF Trees
    <2> QED BY <2>2, <2>3
  <1> HIDE DEF w, q
  <1>8. RingAt(w, g, m)
    <2>1. ASSUME NEW x \in Nodes(g, m) PROVE w.lchild[x] = t.lchild[x] /\ w.rchild[x] = t.rchild[x]
      <3>1. x \in NodeOrNone \ U
        BY <2>1, Positions
      <3> QED BY <3>1, <1>5, <1>7 DEF Replaced
    <2>2. w.empty = t.empty
      BY <1>5, <1>7 DEF Replaced
    <2> QED BY <2>1, <2>2, RingHolds
  <1>9. pos \notin Nodes(g, m)
    OBVIOUS
  <1>10. /\ RingAt(v, h, m + 1) /\ Nodes(h, m + 1) = Nodes(g, m) \cup {pos}
         /\ Returned(w, v, pos, Nodes(g, m))
    BY <1>2, <1>6, <1>7, <1>8, <1>9, GiveKeeps
  <1>11. /\ v \in Trees /\ v.size = t.size /\ v.root = IF t.root = pos THEN c ELSE t.root
         /\ \A x \in NodeOrNone : v.color[x] = IF x = pos THEN "EMPTY" ELSE t.color[x]
         /\ \A x \in NodeOrNone \ {pos} : v.data[x] = t.data[x]
    BY <1>5, <1>7, <1>10 DEF Returned, Replaced
  <1>12. ASSUME NEW x \in V
         PROVE  /\ v.lchild[x] = IF t.lchild[x] = pos THEN c ELSE t.lchild[x]
                /\ v.rchild[x] = IF t.rchild[x] = pos THEN c ELSE t.rchild[x]
                /\ v.parent[x] = IF x = c THEN q ELSE t.parent[x]
    <2>1. x \in U /\ x # pos /\ x # NPOS /\ x \in NodeOrNone /\ x \notin Nodes(g, m)
      BY <1>2
    <2>2. v.lchild[x] = w.lchild[x] /\ v.rchild[x] = w.rchild[x] /\ v.parent[x] = w.parent[x]
      BY <2>1, <1>10 DEF Returned
    <2> QED BY <2>1, <2>2, <1>5, <1>7 DEF Replaced
  <1>13. Leafy(v)
    <2>1. NPOS \notin U /\ NPOS \notin Nodes(g, m) /\ NPOS # pos
      BY <1>2
    <2>2. v.lchild[NPOS] = t.lchild[NPOS] /\ v.rchild[NPOS] = t.rchild[NPOS]
      BY <2>1, <1>2, <1>5, <1>7, <1>10 DEF Returned, Replaced
    <2> QED BY <2>2, <1>2, <1>11 DEF Leafy
  <1>14. \E s : Shape(v, V, d, s)
    <2>1. \A x \in V : /\ v.lchild[x] = IF t.lchild[x] = pos THEN c ELSE t.lchild[x]
                       /\ v.rchild[x] = IF t.rchild[x] = pos THEN c ELSE t.rchild[x]
                       /\ v.parent[x] = IF x = c THEN t.parent[pos] ELSE t.parent[x]
      BY <1>12 DEF q
    <2>2. Bypassed(t, v, V, pos, c)
      BY <2>1, <1>11 DEF Bypassed
    <2> QED BY <2>2, <1>1, ThinShape
  <1>15. Woods(v, V, d)
    <2>1. \A n \in Node : n \in V <=> v.color[n] # "EMPTY"
      BY <1>2, <1>11, Positions
    <2>2. V \subseteq Node
      BY <1>2
    <2> QED BY <2>1, <2>2, <1>13, <1>14 DEF Woods
  <1>16. q # NPOS => Under(v, V, q, c)
    <2> SUFFICES ASSUME q # NPOS PROVE Under(v, V, q, c)
      OBVIOUS
    <2>1. q \in V /\ (t.lchild[q] = pos \/ t.rchild[q] = pos)
      BY <1>4
    <2>2. /\ v.lchild[q] = IF t.lchild[q] = pos THEN c ELSE t.lchild[q]
          /\ v.rchild[q] = IF t.rchild[q] = pos THEN c ELSE t.rchild[q]
      BY <2>1, <1>12
    <2> QED BY <2>1, <2>2 DEF Under
  <1> QED BY <1>10, <1>11, <1>15, <1>16 DEF Dropped, q

\* pos went, and the colors are in order for it.
Trimmed(t, v, pos, U, d, m) ==
    /\ Woods(v, U \ {pos}, d) /\ RootBlack(v)
    /\ \E h : RingAt(v, h, m + 1) /\ Nodes(h, m + 1) = Node \ (U \ {pos})
    /\ v.size = t.size /\ \A x \in U \ {pos} : v.data[x] = t.data[x]

\* Where no black node is missing, or nothing is above it, DeleteAndFreeNode is enough.
LEMMA DropTrims ==
    ASSUME NEW t, NEW U, NEW d, Woods(t, U, d), NEW pos \in U, NEW c,
           NEW m \in Nat, NEW g, Nodes(g, m) = Node \ U,
           NEW v, Dropped(t, v, pos, c, U, d, g, m), RootBlack(v)
    PROVE  Trimmed(t, v, pos, U, d, m)
  <1>1. U \subseteq Node /\ U \subseteq NodeOrNone /\ pos \in Node
    BY Positions DEF Woods
  <1>2. PICK h : RingAt(v, h, m + 1) /\ Nodes(h, m + 1) = Nodes(g, m) \cup {pos}
    BY DEF Dropped
  <1>3. Nodes(h, m + 1) = Node \ (U \ {pos})
    BY <1>1, <1>2
  <1>4. \A x \in U \ {pos} : v.data[x] = t.data[x]
    BY <1>1 DEF Dropped
  <1> QED BY <1>2, <1>3, <1>4 DEF Trimmed, Dropped

LEMMA ThinKeeps ==
    ASSUME NEW t, NEW U, NEW d, Woods(t, U, d), RootBlack(t), NEW pos \in U, NPOS \in {t.lchild[pos], t.rchild[pos]},
           NEW m \in Nat, NEW g, RingAt(t, g, m), Nodes(g, m) = Node \ U,
           NEW v, v = EraseThin(t, pos, t.parent[pos])
    PROVE  Trimmed(t, v, pos, U, d, m)
  <1> DEFINE l == t.lchild[pos]
             r == t.rchild[pos]
             q == t.parent[pos]
             child == IF l # NPOS THEN l ELSE r
             redChild == IF t.color[l] = "RED" THEN l ELSE r
  <1>1. PICK span : Grown(t, U, d, span)
    BY WoodsGrow
  <1>2. /\ t \in Trees /\ U \subseteq Node /\ pos \in Node /\ pos # NPOS /\ NPOS \in NodeOrNone
        /\ U \subseteq NodeOrNone /\ NPOS \notin U
        /\ t.color[NPOS] = "BLACK" /\ \A n \in Node : n \in U <=> t.color[n] # "EMPTY"
    BY Positions DEF Woods, Leafy
  <1>3. /\ l \in U \cup {NPOS} /\ r \in U \cup {NPOS} /\ l # pos /\ r # pos
        /\ Left(t, pos) = l /\ Right(t, pos) = r
    BY <1>1, Below, LeafyLinks DEF Grown
  <1>4. child \in U \cup {NPOS} /\ child \in NodeOrNone /\ child # pos
    BY <1>2, <1>3
  <1>5. Thin(t, pos, child)
    BY DEF Thin
  <1>6. q \in NodeOrNone /\ t.root \in U \cup {NPOS} /\ span[t.root] = U
    BY <1>1, <1>2 DEF Grown, Shape, Trees
  <1>7. v = IF t.color[pos] = "RED" THEN DeleteAndFreeNode(t, pos, child)
            ELSE IF t.color[redChild] = "RED"
                 THEN DeleteAndFreeNode(Paint(t, redChild, "BLACK"), pos, redChild)
            ELSE EraseFixup(DeleteAndFreeNode(t, pos, child), q, child)
    BY <1>3 DEF EraseThin
  <1>8. redChild = child \/ t.color[redChild] # "RED"
    BY <1>2
  <1>9. t.color[redChild] # "RED" => t.color[child] = "BLACK"
    <2>1. t.color[child] \in {"BLACK", "RED", "EMPTY"}
      BY <1>2, <1>4 DEF Trees, Colors
    <2>2. child \in U => t.color[child] # "EMPTY"
      BY <1>2
    <2> QED BY <2>1, <2>2, <1>2, <1>4
  <1> HIDE DEF child, redChild, q
  <1>10. CASE t.color[pos] = "RED"
    <2>1. v = DeleteAndFreeNode(t, pos, child)
      BY <1>7, <1>10
    <2>2. Dropped(t, v, pos, child, U, d, g, m)
      BY <2>1, <1>5, DropKeeps
    <2>3. t.root # pos
      BY <1>10 DEF RootBlack
    <2>4. v.root = t.root /\ t.root \in NodeOrNone
      BY <2>2, <2>3, <1>2, <1>6 DEF Dropped
    <2>5. RootBlack(v)
      BY <2>2, <2>3, <2>4 DEF RootBlack, Dropped
    <2> QED BY <2>2, <2>5, DropTrims
  <1>11. CASE t.color[pos] # "RED" /\ t.color[redChild] = "RED"
    <2> DEFINE u == Paint(t, child, "BLACK")
    <2>1. child \in U /\ redChild = child
      BY <1>2, <1>4, <1>8, <1>11
    <2>2. v = DeleteAndFreeNode(u, pos, child)
      BY <2>1, <1>7, <1>11
    <2>3. Painted(t, u, child, "BLACK", U, d) /\ Woods(u, U, d)
      BY <2>1, PaintKeeps
    <2> HIDE DEF u
    <2>4. /\ u.lchild = t.lchild /\ u.rchild = t.rchild /\ u.root = t.root
          /\ u.data = t.data /\ u.size = t.size /\ u.empty = t.empty
          /\ \A x \in NodeOrNone : u.color[x] = IF x = child THEN "BLACK" ELSE t.color[x]
      BY <2>3 DEF Painted, Kept
    <2>5. RingAt(u, g, m) /\ Thin(u, pos, child)
      <3>1. \A x \in Nodes(g, m) : u.lchild[x] = t.lchild[x] /\ u.rchild[x] = t.rchild[x]
        BY <2>4
      <3> QED BY <3>1, <2>4, <1>5, RingHolds DEF Thin
    <2>6. Dropped(u, v, pos, child, U, d, g, m)
      BY <2>2, <2>3, <2>5, DropKeeps
    <2>7. RootBlack(v)
      <3>1. v.root = (IF t.root = pos THEN child ELSE t.root) /\ v.root # pos /\ v.root \in NodeOrNone
        BY <2>4, <2>6, <1>2, <1>4, <1>6 DEF Dropped
      <3>2. v.color[v.root] = u.color[v.root]
        BY <2>6, <3>1 DEF Dropped
      <3>3. t.root # pos => t.color[t.root] = "BLACK"
        BY DEF RootBlack
      <3> QED BY <3>1, <3>2, <3>3, <2>4 DEF RootBlack
    <2>8. Trimmed(u, v, pos, U, d, m)
      BY <2>3, <2>6, <2>7, DropTrims
    <2> QED BY <2>4, <2>8 DEF Trimmed
  <1>12. CASE t.color[pos] # "RED" /\ t.color[redChild] # "RED"
    <2> DEFINE z == DeleteAndFreeNode(t, pos, child)
               V == U \ {pos}
    <2>1. v = EraseFixup(z, q, child)
      BY <1>7, <1>12
    <2>2. Dropped(t, z, pos, child, U, d, g, m)
      BY <1>5, DropKeeps
    <2> HIDE DEF z
    <2>3. RootBlack(z)
      <3>1. z.root = (IF t.root = pos THEN child ELSE t.root) /\ z.root # pos /\ z.root \in NodeOrNone
        BY <2>2, <1>2, <1>4, <1>6 DEF Dropped
      <3>2. z.color[z.root] = t.color[z.root]
        BY <2>2, <3>1 DEF Dropped
      <3>3. t.root # pos => t.color[t.root] = "BLACK"
        BY DEF RootBlack
      <3> QED BY <3>1, <3>2, <3>3, <1>9, <1>12 DEF RootBlack
    <2>4. Paling(z, z, q, child, V, d)
      <3>1. Woods(z, V, d) /\ (q # NPOS => Under(z, V, q, child))
        BY <2>2 DEF Dropped, q
      <3>2. Kept(z, z, V)
        BY <3>1 DEF Kept, Woods, Leafy
      <3> QED BY <3>1, <3>2, <2>3 DEF Paling
    <2> HIDE DEF V
    <2>5. Woods(v, V, d) /\ Kept(z, v, V) /\ RootBlack(v)
      BY <2>1, <2>4, <1>4, <1>6, EraseFixupKeeps
    <2>6. PICK h : RingAt(z, h, m + 1) /\ Nodes(h, m + 1) = Nodes(g, m) \cup {pos}
      BY <2>2 DEF Dropped
    <2>7. Nodes(h, m + 1) = Node \ V
      BY <2>6, <1>2 DEF V
    <2>8. RingAt(v, h, m + 1)
      <3>1. \A x \in Nodes(h, m + 1) : v.lchild[x] = z.lchild[x] /\ v.rchild[x] = z.rchild[x]
        BY <2>5, <2>7, Positions DEF Kept
      <3>2. m + 1 \in Nat /\ v.empty = z.empty
        BY <2>5 DEF Kept
      <3> QED BY <3>1, <3>2, <2>6, RingHolds
    <2>9. v.size = t.size /\ \A x \in V : v.data[x] = t.data[x]
      <3>1. v.data = z.data /\ v.size = z.size
        BY <2>5 DEF Kept
      <3>2. z.size = t.size /\ \A x \in V : z.data[x] = t.data[x]
        BY <2>2, <1>2 DEF Dropped, V
      <3> QED BY <3>1, <3>2
    <2> QED BY <2>5, <2>7, <2>8, <2>9 DEF Trimmed, V
  <1> QED BY <1>10, <1>11, <1>12

\* The node of k went, or took over the element of the next smaller one, which
\* went in its place.
Erased(t, v, U, V, k) ==
    /\ \E g, m : Grove(v, V, g, m)
    /\ V \subseteq U
    /\ {v.data[x] : x \in V} = {t.data[x] : x \in U} \ {k}
    /\ \A x \in U : t.data[x] > k => x \in V /\ v.data[x] = t.data[x]

LEMMA EraseKeeps ==
    ASSUME NEW t, NEW U, NEW g, NEW m, Grove(t, U, g, m), t.size # 0, NEW k \in Key,
           NEW found, found = FindNode(t, k), found[1] # NPOS,
           NEW v, v = EraseNode(t, found[1], found[2])
    PROVE  \E V : Erased(t, v, U, V, k)
  <1> DEFINE d == t.data
             pos == found[1]
             l == t.lchild[pos]
             less == [t EXCEPT !.size = @ - 1]
             victim == FindBiggestPos(t, l)
             thin == NPOS \in {t.lchild[pos], t.rchild[pos]}
  <1>1. PICK span : Grown(t, U, d, span)
    BY WoodsGrow DEF Grove
  <1>2. /\ t \in Trees /\ U \subseteq Node /\ m \in Nat /\ Woods(t, U, d) /\ RootBlack(t)
        /\ RingAt(t, g, m) /\ Nodes(g, m) = Node \ U /\ k \in Nat /\ t.size - 1 \in 0..TreeNodes
        /\ t.size - 1 + (m + 1) = TreeNodes
    <2>1. /\ t \in Trees /\ U \subseteq Node /\ m \in Nat /\ Woods(t, U, d) /\ RootBlack(t)
          /\ RingAt(t, g, m) /\ Nodes(g, m) = Node \ U /\ t.size + m = TreeNodes
      BY DEF Grove, Woods, Leafy
    <2>2. t.size \in 0..TreeNodes /\ k \in Nat /\ TreeNodes \in Nat
      BY <2>1, TreeAssumption DEF Trees
    <2> QED BY <2>1, <2>2
  <1>3. pos \in U /\ pos # NPOS /\ d[pos] = k /\ t.parent[pos] = found[2] /\ NPOS \notin U
    <2>1. /\ Searching(t, U, d, span, k, found[1], found[2])
          /\ found[1] = NPOS \/ d[found[1]] = k
      BY <1>1, <1>2, FindNodeIs, ZenonT(30)
    <2> QED BY <2>1, <1>2, Positions DEF Searching
  <1>4. /\ less \in Trees /\ less.size = t.size - 1 /\ less.empty = t.empty /\ less.root = t.root
        /\ less.lchild = t.lchild /\ less.rchild = t.rchild /\ less.parent = t.parent
        /\ less.color = t.color /\ less.data = t.data
    BY <1>2 DEF Trees
  <1>5. Left(t, pos) = l /\ Right(t, pos) = t.rchild[pos]
    BY <1>1, LeafyLinks DEF Grown
  <1>6. v = IF thin THEN EraseThin(less, pos, less.parent[pos])
            ELSE EraseThin([less EXCEPT !.data[pos] = d[victim]], victim, less.parent[victim])
    BY <1>3, <1>4, <1>5 DEF EraseNode
  <1>7. \A a, b \in U : d[a] \in Nat /\ (d[a] = d[b] => a = b)
    BY <1>1 DEF Grown, Shape, Keyed
  <1> HIDE DEF less, d, pos
  <1>8. ASSUME NEW u, u \in Trees, u.size = t.size - 1, u.empty = t.empty, u.root = t.root,
               u.lchild = t.lchild, u.rchild = t.rchild, u.parent = t.parent, u.color = t.color
        PROVE  Woods(u, U, d) /\ RootBlack(u) /\ RingAt(u, g, m)
    <2>1. \E s : Shape(u, U, d, s)
      BY <1>2, <1>8, SameShape DEF Woods
    <2>2. Woods(u, U, d) /\ RootBlack(u)
      BY <2>1, <1>2, <1>8 DEF Woods, Leafy, RootBlack
    <2> QED BY <2>2, <1>2, <1>8 DEF RingAt
  <1>9. CASE thin
    <2> DEFINE V == U \ {pos}
    <2>1. v = EraseThin(less, pos, less.parent[pos])
      BY <1>6, <1>9
    <2>2. Woods(less, U, d) /\ RootBlack(less) /\ RingAt(less, g, m) /\ NPOS \in {less.lchild[pos], less.rchild[pos]}
      BY <1>4, <1>8, <1>9
    <2>3. Trimmed(less, v, pos, U, d, m)
      BY <2>1, <2>2, <1>2, <1>3, ThinKeeps
    <2>4. v.size = t.size - 1 /\ \A x \in V : v.data[x] = d[x]
      BY <2>3, <1>4 DEF Trimmed, d
    <2>5. Woods(v, V, d) /\ RootBlack(v)
      BY <2>3 DEF Trimmed
    <2>6. PICK h : RingAt(v, h, m + 1) /\ Nodes(h, m + 1) = Node \ V
      BY <2>3 DEF Trimmed
    <2>7. Woods(v, V, v.data)
      <3>1. \E s : Shape(v, V, d, s)
        BY <2>5 DEF Woods
      <3>2. V \subseteq Node /\ \A a \in V : v.data[a] \in Nat
        BY <2>4, <1>2, <1>7
      <3>3. \A a, b \in V : v.data[a] < v.data[b] <=> d[a] < d[b]
        BY <2>4
      <3> HIDE DEF V
      <3>4. \E s : Shape(v, V, v.data, s)
        BY <3>1, <3>2, <3>3, Rekeyed
      <3> QED BY <3>4, <2>5 DEF Woods
    <2>8. m + 1 \in Nat /\ v.size + (m + 1) = TreeNodes
      BY <2>4, <1>2
    <2>9. Grove(v, V, h, m + 1)
      BY <2>5, <2>6, <2>7, <2>8 DEF Grove
    <2>10. {v.data[x] : x \in V} = {d[x] : x \in U} \ {k}
      BY <2>4, <1>3, <1>7
    <2>11. \A x \in U : d[x] > k => x \in V /\ v.data[x] = d[x]
      BY <2>4, <1>2, <1>3
    <2> QED BY <2>9, <2>10, <2>11 DEF Erased, d
  <1>10. CASE ~thin
    <2> DEFINE V == U \ {victim}
               swap == [less EXCEPT !.data[pos] = d[victim]]
    <2>1. v = EraseThin(swap, victim, less.parent[victim])
      BY <1>6, <1>10
    <2>2. /\ l \in U /\ l # NPOS /\ span[l] = {x \in span[pos] : d[x] < d[pos]} /\ pos \in span[pos]
      BY <1>1, <1>3, <1>10, Below
    <2>3. /\ victim \in U /\ victim \in span[l] /\ t.rchild[victim] = NPOS
          /\ \A x \in span[l] : x # victim => d[x] < d[victim]
      BY <2>2, <1>1, BiggestIs
    <2> HIDE DEF victim, l
    <2>4. victim # pos /\ d[victim] < d[pos] /\ victim \in span[pos]
      BY <2>2, <2>3, <1>3, <1>7
    \* no other key is between theirs
    <2>5. ASSUME NEW x \in U, x # victim, x # pos PROVE d[x] < d[pos] <=> d[x] < d[victim]
      <3>1. d[x] \in Nat /\ d[pos] \in Nat /\ d[victim] \in Nat /\ d[x] # d[pos] /\ d[x] # d[victim]
        BY <2>3, <2>5, <1>3, <1>7
      <3>2. ASSUME d[victim] < d[x], d[x] < d[pos] PROVE FALSE
        <4>1. x \in span[pos]
          BY <3>2, <2>2, <2>4, <1>1, <1>3 DEF Grown, Shape, Convex
        <4>2. x \in span[l]
          BY <4>1, <3>2, <2>2
        <4> QED BY <4>2, <3>1, <3>2, <2>3, <2>5
      <3> QED BY <3>1, <3>2, <2>4
    <2>6. /\ swap \in Trees /\ swap.size = t.size - 1 /\ swap.empty = t.empty /\ swap.root = t.root
          /\ swap.lchild = t.lchild /\ swap.rchild = t.rchild /\ swap.parent = t.parent /\ swap.color = t.color
          /\ \A x \in U : swap.data[x] = IF x = pos THEN d[victim] ELSE d[x]
      <3>1. d[victim] \in Key /\ pos \in NodeOrNone /\ U \subseteq NodeOrNone
        BY <2>3, <1>2, <1>3, Positions DEF Trees, d
      <3> QED BY <3>1, <1>4 DEF Trees, d
    <2> HIDE DEF swap
    <2>7. Woods(swap, U, d) /\ RootBlack(swap) /\ RingAt(swap, g, m)
          /\ NPOS \in {swap.lchild[victim], swap.rchild[victim]} /\ less.parent[victim] = swap.parent[victim]
      BY <2>3, <2>6, <1>4, <1>8
    <2>8. Trimmed(swap, v, victim, U, d, m)
      BY <2>1, <2>3, <2>7, <1>2, ThinKeeps
    <2>9. v.size = t.size - 1 /\ \A x \in V : v.data[x] = IF x = pos THEN d[victim] ELSE d[x]
      BY <2>6, <2>8 DEF Trimmed
    <2>10. Woods(v, V, d) /\ RootBlack(v)
      BY <2>8 DEF Trimmed
    <2>11. PICK h : RingAt(v, h, m + 1) /\ Nodes(h, m + 1) = Node \ V
      BY <2>8 DEF Trimmed
    <2>12. Woods(v, V, v.data)
      <3>1. \E s : Shape(v, V, d, s)
        BY <2>10 DEF Woods
      <3>2. V \subseteq Node /\ \A a \in V : v.data[a] \in Nat
        BY <2>3, <2>9, <1>2, <1>7
      <3>3. ASSUME NEW a \in V, NEW b \in V PROVE v.data[a] < v.data[b] <=> d[a] < d[b]
        <4>1. /\ a \in U /\ a # victim /\ b \in U /\ b # victim
              /\ v.data[a] = (IF a = pos THEN d[victim] ELSE d[a])
              /\ v.data[b] = (IF b = pos THEN d[victim] ELSE d[b])
              /\ d[a] \in Nat /\ d[b] \in Nat /\ d[pos] \in Nat /\ d[victim] \in Nat
          BY <2>3, <2>9, <1>3, <1>7
        <4>2. a # pos => (d[a] < d[pos] <=> d[a] < d[victim]) /\ d[a] # d[pos] /\ d[a] # d[victim]
          BY <4>1, <2>3, <2>5, <1>3, <1>7
        <4>3. b # pos => (d[b] < d[pos] <=> d[b] < d[victim]) /\ d[b] # d[pos] /\ d[b] # d[victim]
          BY <4>1, <2>3, <2>5, <1>3, <1>7
        <4> QED BY <4>1, <4>2, <4>3
      <3> HIDE DEF V
      <3>4. \E s : Shape(v, V, v.data, s)
        BY <3>1, <3>2, <3>3, Rekeyed
      <3> QED BY <3>4, <2>10 DEF Woods
    <2>13. m + 1 \in Nat /\ v.size + (m + 1) = TreeNodes
      BY <2>9, <1>2
    <2>14. Grove(v, V, h, m + 1)
      BY <2>10, <2>11, <2>12, <2>13 DEF Grove
    <2>15. {v.data[x] : x \in V} = {d[x] : x \in U} \ {k}
      <3>1. \A x \in V : v.data[x] \in {d[y] : y \in U} /\ v.data[x] # k
        BY <2>3, <2>4, <2>9, <1>3, <1>7
      <3>2. ASSUME NEW y \in U, d[y] # k PROVE d[y] \in {v.data[x] : x \in V}
        <4>1. CASE y = victim
          BY <4>1, <2>4, <2>9, <1>3
        <4>2. CASE y # victim
          BY <4>2, <3>2, <2>9, <1>3
        <4> QED BY <4>1, <4>2
      <3> QED BY <3>1, <3>2
    <2>16. ASSUME NEW x \in U, d[x] > k PROVE x \in V /\ v.data[x] = d[x]
      <3>1. x # pos /\ x # victim
        BY <2>3, <2>4, <2>16, <1>3, <1>7
      <3> QED BY <3>1, <2>9
    <2> QED BY <2>14, <2>15, <2>16 DEF Erased, d
  <1> QED BY <1>9, <1>10

-----------------------------------------------------------------------------
(* The steps of the tree.                                                  *)

\* Surjections count: a row names as many nodes as it has places.
LEMMA RowCounts ==
    ASSUME NEW m \in Nat, NEW g, Order(g, m, Node)
    PROVE  IsFiniteSet(Nodes(g, m)) /\ Cardinality(Nodes(g, m)) = m
  <1>1. IsFiniteSet(1..m) /\ Cardinality(1..m) = m
    <2>1. 1 \in Int /\ m \in Int
      OBVIOUS
    <2>2. IsFiniteSet(1..m) /\ Cardinality(1..m) = IF 1 > m THEN 0 ELSE m - 1 + 1
      BY <2>1, FS_Interval
    <2> QED BY <2>2
  <1>2. g \in Surjection(1..m, Nodes(g, m)) /\ g \in Injection(1..m, Nodes(g, m))
    <2>1. g \in [1..m -> Nodes(g, m)]
      BY DEF Order, Nodes
    <2>2. \A n \in Nodes(g, m) : \E i \in 1..m : g[i] = n
      BY DEF Nodes
    <2>3. \A i, j \in 1..m : g[i] = g[j] => i = j
      BY DEF Order
    <2> QED BY <2>1, <2>2, <2>3 DEF Surjection, Injection, IsInjective
  <1> QED BY <1>1, <1>2, FS_Surjection

LEMMA GroveCounts ==
    ASSUME NEW t, NEW U, NEW g, NEW m, Grove(t, U, g, m)
    PROVE  /\ U = InUse(t) /\ IsFiniteSet(U) /\ Cardinality(U) = t.size
           /\ IsFiniteSet(Elements(t)) /\ Cardinality(Elements(t)) = t.size
           /\ Elements(t) = {t.data[x] : x \in U}
           /\ t \in Trees
  <1>1. /\ U \subseteq Node /\ t \in Trees /\ m \in Nat /\ Order(g, m, Node) /\ Nodes(g, m) = Node \ U
        /\ t.size + m = TreeNodes /\ \A n \in Node : n \in U <=> t.color[n] # "EMPTY"
    BY DEF Grove, Woods, Leafy, RingAt
  <1>2. U = InUse(t) /\ Elements(t) = {t.data[x] : x \in U}
    <2>1. U = InUse(t)
      BY <1>1 DEF InUse
    <2> QED BY <2>1 DEF Elements
  <1>3. IsFiniteSet(Node) /\ Cardinality(Node) = TreeNodes /\ TreeNodes \in Nat
    <2>1. 1 \in Int /\ TreeNodes \in Int /\ TreeNodes \in Nat \ {0}
      BY TreeAssumption
    <2>2. IsFiniteSet(1..TreeNodes) /\ Cardinality(1..TreeNodes) = IF 1 > TreeNodes THEN 0 ELSE TreeNodes - 1 + 1
      BY <2>1, FS_Interval
    <2> QED BY <2>1, <2>2 DEF Node
  <1>4. IsFiniteSet(U) /\ Cardinality(U) \in Nat /\ Cardinality(U) = t.size
    <2>1. Cardinality(Nodes(g, m)) = m
      BY <1>1, RowCounts
    <2>2. /\ IsFiniteSet(Node \ Nodes(g, m))
          /\ Cardinality(Node \ Nodes(g, m)) = Cardinality(Node) - Cardinality(Node \cap Nodes(g, m))
      BY <1>3, FS_Difference
    <2>3. Node \ Nodes(g, m) = U /\ Node \cap Nodes(g, m) = Nodes(g, m)
      BY <1>1
    <2>4. t.size \in 0..TreeNodes
      BY <1>1 DEF Trees
    <2>5. Cardinality(U) = TreeNodes - m /\ IsFiniteSet(U)
      BY <2>1, <2>2, <2>3, <1>3
    <2>6. Cardinality(U) = t.size
      BY <2>4, <2>5, <1>1, <1>3
    <2> QED BY <2>4, <2>5, <2>6
  <1>5. IsFiniteSet({t.data[x] : x \in U}) /\ Cardinality({t.data[x] : x \in U}) = Cardinality(U)
    <2> DEFINE f == [x \in U |-> t.data[x]]
               T == {t.data[x] : x \in U}
    <2>1. \A a, b \in U : t.data[a] = t.data[b] => a = b
      BY DEF Grove, Woods, Shape, Keyed
    <2>2. f \in Surjection(U, T) /\ f \in Injection(U, T)
      BY <2>1 DEF Surjection, Injection, IsInjective
    <2> HIDE DEF f, T
    <2>3. IsFiniteSet(T) /\ Cardinality(T) = Cardinality(U)
      BY <2>2, <1>4, FS_Surjection
    <2> QED BY <2>3 DEF T
  <1> QED BY <1>1, <1>2, <1>4, <1>5

\* The inductive invariant: what is in use is a search tree, and the rest is a ring.
TreeShape == \E U, g, m : Grove(tree, U, g, m)

LEMMA TreeBegins ==
    ASSUME TreeInit PROVE Grove(tree, {}, [i \in 1..TreeNodes |-> i], TreeNodes)
  <1> DEFINE g == [i \in 1..TreeNodes |-> i]
             span == [x \in NodeOrNone |-> {}]
  <1>1. /\ TreeNodes \in Nat \ {0} /\ AnyKey \in Key /\ NPOS \in NodeOrNone /\ 1 \in NodeOrNone
        /\ NodeOrNone = 0..TreeNodes /\ Node = 1..TreeNodes /\ NPOS = 0
    BY TreeAssumption DEF AnyKey, NPOS, NodeOrNone, Node
  <1>2. /\ tree.lchild = [p \in NodeOrNone |-> IF p = NPOS THEN NPOS ELSE IF p = 1 THEN TreeNodes ELSE p - 1]
        /\ tree.rchild = [p \in NodeOrNone |-> IF p = NPOS THEN NPOS ELSE IF p = TreeNodes THEN 1 ELSE p + 1]
        /\ tree.parent = [p \in NodeOrNone |-> NPOS]
        /\ tree.color = [p \in NodeOrNone |-> IF p = NPOS THEN "BLACK" ELSE "EMPTY"]
        /\ tree.data = [p \in NodeOrNone |-> AnyKey]
        /\ tree.root = NPOS /\ tree.empty = 1 /\ tree.size = 0
    BY DEF TreeInit
  <1>3. tree \in Trees
    <2>1. /\ [p \in NodeOrNone |-> IF p = NPOS THEN NPOS ELSE IF p = 1 THEN TreeNodes ELSE p - 1] \in [NodeOrNone -> NodeOrNone]
          /\ [p \in NodeOrNone |-> IF p = NPOS THEN NPOS ELSE IF p = TreeNodes THEN 1 ELSE p + 1] \in [NodeOrNone -> NodeOrNone]
          /\ [p \in NodeOrNone |-> NPOS] \in [NodeOrNone -> NodeOrNone]
          /\ [p \in NodeOrNone |-> AnyKey] \in [NodeOrNone -> Key]
          /\ 0 \in 0..TreeNodes
      BY <1>1
    <2>2. [p \in NodeOrNone |-> IF p = NPOS THEN "BLACK" ELSE "EMPTY"] \in [NodeOrNone -> Colors]
      BY DEF Colors
    <2> QED BY <2>1, <2>2, <1>1 DEF Trees, TreeInit
  <1>4. Leafy(tree) /\ \A n \in Node : tree.color[n] = "EMPTY"
    BY <1>1, <1>2, <1>3, Positions DEF Leafy
  <1>5. Shape(tree, {}, tree.data, span)
    BY <1>1, <1>2 DEF Shape, Keyed, Convex
  <1>6. Woods(tree, {}, tree.data) /\ RootBlack(tree)
    BY <1>1, <1>2, <1>4, <1>5 DEF Woods, RootBlack, Leafy
  <1>7. Order(g, TreeNodes, Node) /\ Nodes(g, TreeNodes) = Node
    BY <1>1 DEF Order, Nodes
  <1>8. RingAt(tree, g, TreeNodes)
    <2>1. tree.empty = g[1] /\ TreeNodes # 0
      BY <1>1, <1>2
    <2>2. \A i \in 1..TreeNodes : /\ tree.rchild[g[i]] = IF i = TreeNodes THEN g[1] ELSE g[i + 1]
                                  /\ tree.lchild[g[i]] = IF i = 1 THEN g[TreeNodes] ELSE g[i - 1]
      <3> SUFFICES ASSUME NEW i \in 1..TreeNodes
                   PROVE  /\ tree.rchild[i] = IF i = TreeNodes THEN g[1] ELSE g[i + 1]
                          /\ tree.lchild[i] = IF i = 1 THEN g[TreeNodes] ELSE g[i - 1]
        OBVIOUS
      <3>1. i \in NodeOrNone /\ i # NPOS
        BY <1>1
      <3>2. /\ tree.rchild[i] = IF i = TreeNodes THEN 1 ELSE i + 1
            /\ tree.lchild[i] = IF i = 1 THEN TreeNodes ELSE i - 1
        BY <3>1, <1>2
      <3> QED BY <3>2, <1>1
    <2> QED BY <2>1, <2>2, <1>7 DEF RingAt
  <1>9. tree.size + TreeNodes = TreeNodes /\ TreeNodes \in Nat
    BY <1>1, <1>2
  <1> QED BY <1>6, <1>7, <1>8, <1>9 DEF Grove

\* What SetInsert does, told of the elements.
LEMMA InsertStep ==
    ASSUME TreeShape, NEW k \in Key, SetInsert(k)
    PROVE  TreeShape' /\ Set!Insert(k) /\ Elements(tree) \subseteq Elements(tree')
  <1>1. PICK U, g, m : Grove(tree, U, g, m)
    BY DEF TreeShape
  <1> DEFINE found == FindNode(tree, k)
             fits == k \notin Elements(tree) /\ Cardinality(Elements(tree)) < TreeNodes
  <1>2. PICK span : Grown(tree, U, tree.data, span)
    BY <1>1, WoodsGrow DEF Grove
  <1>3. /\ Elements(tree) = {tree.data[x] : x \in U} /\ Cardinality(Elements(tree)) = tree.size
        /\ tree.size \in 0..TreeNodes /\ TreeNodes \in Nat /\ k \in Nat
    <2>1. tree \in Trees /\ Elements(tree) = {tree.data[x] : x \in U} /\ Cardinality(Elements(tree)) = tree.size
      BY <1>1, GroveCounts
    <2> QED BY <2>1, TreeAssumption DEF Trees
  <1>4. found[1] = NPOS <=> k \notin Elements(tree)
    <2>1. /\ Searching(tree, U, tree.data, span, k, found[1], found[2])
          /\ found[1] = NPOS \/ tree.data[found[1]] = k
      BY <1>2, <1>3, FindNodeIs
    <2>2. span[NPOS] = {}
      BY <1>2 DEF Grown, Shape
    <2> QED BY <2>1, <2>2, <1>3 DEF Searching
  <1>5. fits <=> ~(tree.size = TreeNodes \/ found[1] # NPOS)
    BY <1>3, <1>4
  <1>6. CASE tree.size = TreeNodes \/ found[1] # NPOS
    <2>1. treeDid' = <<"Insert", k, FALSE>> /\ tree' = tree
      BY <1>6 DEF SetInsert
    <2>2. TreeShape' /\ Elements(tree') = Elements(tree)
      BY <2>1 DEF TreeShape
    <2>3. (fits) = FALSE
      BY <1>5, <1>6
    <2>4. /\ Elements(tree') = IF fits THEN Elements(tree) \cup {k} ELSE Elements(tree)
          /\ treeDid' = <<"Insert", k, fits>>
      <3> HIDE DEF fits
      <3> QED BY <2>1, <2>2, <2>3
    <2>5. Set!Insert(k)
      BY <2>4 DEF Set!Insert, Set!Cardinality, Cardinality
    <2> QED BY <2>2, <2>5
  <1>7. CASE ~(tree.size = TreeNodes \/ found[1] # NPOS)
    <2>1. treeDid' = <<"Insert", k, TRUE>> /\ tree' = GetNewNodeAndInsert(tree, k, found[2])
      BY <1>7 DEF SetInsert
    <2>2. PICK V : Inserted(tree, tree', U, V, k)
      BY <2>1, <1>1, <1>7, InsertKeeps
    <2>3. TreeShape'
      BY <2>2 DEF Inserted, TreeShape
    <2>4. Elements(tree') = {tree'.data[x] : x \in V}
      BY <2>2, GroveCounts DEF Inserted
    <2>5. Elements(tree') = Elements(tree) \cup {k}
      <3>1. PICK new \in Node : /\ V = U \cup {new} /\ tree'.data[new] = k
                                /\ \A x \in U : tree'.data[x] = tree.data[x]
        BY <2>2 DEF Inserted
      <3> QED BY <3>1, <2>4, <1>3
    <2>6. (fits) = TRUE
      BY <1>5, <1>7
    <2>7. /\ Elements(tree') = IF fits THEN Elements(tree) \cup {k} ELSE Elements(tree)
          /\ treeDid' = <<"Insert", k, fits>>
      <3> HIDE DEF fits
      <3> QED BY <2>1, <2>5, <2>6
    <2>8. Set!Insert(k)
      BY <2>7 DEF Set!Insert, Set!Cardinality, Cardinality
    <2> QED BY <2>3, <2>5, <2>8
  <1> QED BY <1>6, <1>7

\* and SetErase
LEMMA EraseStep ==
    ASSUME TreeShape, NEW k \in Key, SetErase(k)
    PROVE  /\ TreeShape' /\ Set!Erase(k)
           /\ \A n \in InUse(tree) : k \in Elements(tree) /\ tree.data[n] > k
                                     => n \in InUse(tree') /\ tree'.data[n] = tree.data[n]
  <1>1. PICK U, g, m : Grove(tree, U, g, m)
    BY DEF TreeShape
  <1> DEFINE found == FindNode(tree, k)
             there == k \in Elements(tree)
  <1>2. PICK span : Grown(tree, U, tree.data, span)
    BY <1>1, WoodsGrow DEF Grove
  <1>3. /\ Elements(tree) = {tree.data[x] : x \in U} /\ Cardinality(Elements(tree)) = tree.size
        /\ IsFiniteSet(Elements(tree)) /\ k \in Nat /\ InUse(tree) = U
    BY <1>1, GroveCounts, TreeAssumption
  <1>4. found[1] = NPOS <=> k \notin Elements(tree)
    <2>1. /\ Searching(tree, U, tree.data, span, k, found[1], found[2])
          /\ found[1] = NPOS \/ tree.data[found[1]] = k
      BY <1>2, <1>3, FindNodeIs, ZenonT(30)
    <2>2. span[NPOS] = {}
      BY <1>2 DEF Grown, Shape
    <2> QED BY <2>1, <2>2, <1>3 DEF Searching
  <1>5. tree.size = 0 => ~there
    BY <1>3, FS_EmptySet
  <1>6. CASE tree.size = 0 \/ found[1] = NPOS
    <2>1. treeDid' = <<"Erase", k, FALSE>> /\ tree' = tree
      BY <1>6 DEF SetErase
    <2>2. TreeShape' /\ Elements(tree') = Elements(tree)
      BY <2>1 DEF TreeShape
    <2>3. (there) = FALSE
      BY <1>4, <1>5, <1>6
    <2>4. Elements(tree) \ {k} = Elements(tree)
      BY <2>3
    <2> QED BY <2>1, <2>2, <2>3, <2>4 DEF Set!Erase
  <1>7. CASE ~(tree.size = 0 \/ found[1] = NPOS)
    <2>1. treeDid' = <<"Erase", k, TRUE>> /\ tree' = EraseNode(tree, found[1], found[2])
      BY <1>7 DEF SetErase
    <2>2. PICK V : Erased(tree, tree', U, V, k)
      BY <2>1, <1>1, <1>7, EraseKeeps
    <2>3. TreeShape'
      BY <2>2 DEF Erased, TreeShape
    <2>4. Elements(tree') = {tree'.data[x] : x \in V} /\ InUse(tree') = V
      BY <2>2, GroveCounts DEF Erased
    <2>5. Elements(tree') = Elements(tree) \ {k}
      BY <2>2, <2>4, <1>3 DEF Erased
    <2>6. (there) = TRUE
      BY <1>4, <1>7
    <2>7. \A n \in InUse(tree) : tree.data[n] > k => n \in InUse(tree') /\ tree'.data[n] = tree.data[n]
      BY <2>2, <2>4, <1>3 DEF Erased
    <2> QED BY <2>1, <2>3, <2>5, <2>6, <2>7 DEF Set!Erase
  <1> QED BY <1>6, <1>7

LEMMA TreeShapeStep == TreeShape /\ [TreeNext]_treeVars => TreeShape'
  <1> SUFFICES ASSUME TreeShape, [TreeNext]_treeVars PROVE TreeShape'
    OBVIOUS
  <1>1. CASE TreeNext
    BY <1>1, InsertStep, EraseStep DEF TreeNext
  <1>2. CASE UNCHANGED treeVars
    BY <1>2 DEF treeVars, TreeShape
  <1> QED BY <1>1, <1>2

LEMMA TreeKeepsItsShape == TreeSpec => []TreeShape
  <1>1. TreeInit => TreeShape
    BY TreeBegins DEF TreeShape
  <1> QED BY <1>1, TreeShapeStep, PTL DEF TreeSpec

TreeAnswered == treeDid = <<>> \/ treeDid \in {"Insert", "Erase"} \X Key \X BOOLEAN

TreeInv == TreeShape /\ TreeAnswered

LEMMA TreeInvBegins == TreeInit => TreeInv
  BY TreeBegins DEF TreeInit, TreeInv, TreeShape, TreeAnswered

LEMMA TreeInvStep == TreeInv /\ [TreeNext]_treeVars => TreeInv'
  <1> SUFFICES ASSUME TreeInv, [TreeNext]_treeVars PROVE TreeInv'
    OBVIOUS
  <1>1. TreeShape'
    BY TreeShapeStep DEF TreeInv
  <1>2. ASSUME NEW k \in Key, SetInsert(k) PROVE TreeAnswered'
    <2>1. PICK b \in BOOLEAN : treeDid' = <<"Insert", k, b>>
      BY <1>2 DEF SetInsert
    <2> QED BY <2>1 DEF TreeAnswered
  <1>3. ASSUME NEW k \in Key, SetErase(k) PROVE TreeAnswered'
    <2>1. PICK b \in BOOLEAN : treeDid' = <<"Erase", k, b>>
      BY <1>3 DEF SetErase
    <2> QED BY <2>1 DEF TreeAnswered
  <1>4. ASSUME UNCHANGED treeVars PROVE TreeAnswered'
    BY <1>4 DEF treeVars, TreeAnswered, TreeInv
  <1>5. TreeAnswered'
    BY <1>2, <1>3, <1>4 DEF TreeNext
  <1> QED BY <1>1, <1>5 DEF TreeInv

LEMMA TreeInvTypes == TreeInv => TreeTypeOK
  <1>1. TreeShape => tree \in Trees
    BY GroveCounts DEF TreeShape
  <1> QED BY <1>1 DEF TreeInv, TreeAnswered, TreeTypeOK

\* Whatever the operations, the block is one of the trees the type describes,
\* and what was answered is an answer.
THEOREM TreeKeepsItsType == TreeSpec => []TreeTypeOK
  BY TreeInvBegins, TreeInvStep, TreeInvTypes, PTL DEF TreeSpec

\* The tree implements the set: an insertion or erasure changes what is in it
\* exactly as the answer says, for any number of nodes and any keys.
THEOREM TreeIsASet == TreeSpec => SetSpec
  <1>1. TreeInit => Set!Init
    <2> SUFFICES ASSUME TreeInit PROVE Set!Init
      OBVIOUS
    <2>1. Elements(tree) = {}
      BY TreeBegins, GroveCounts
    <2> QED BY <2>1 DEF Set!Init, TreeInit
  <1>2. TreeShape /\ [TreeNext]_treeVars => [Set!Next]_<<Elements(tree), treeDid>>
    <2> SUFFICES ASSUME TreeShape, [TreeNext]_treeVars PROVE [Set!Next]_<<Elements(tree), treeDid>>
      OBVIOUS
    <2>1. CASE TreeNext
      BY <2>1, InsertStep, EraseStep DEF TreeNext, Set!Next
    <2>2. CASE UNCHANGED treeVars
      BY <2>2 DEF treeVars
    <2> QED BY <2>1, <2>2
  <1> QED BY <1>1, <1>2, TreeKeepsItsShape, PTL DEF TreeSpec, SetSpec, Set!Spec

\* An erasure leaves every larger element in its node, where an iterator that
\* was stepped past the erased one finds it.
THEOREM IteratorsLiveOn == TreeSpec => LargerStay
  <1>1. TreeShape /\ [TreeNext]_treeVars =>
          [\A k \in Elements(tree) \ Elements(tree'), n \in InUse(tree) :
             tree.data[n] > k => n \in InUse(tree') /\ tree'.data[n] = tree.data[n]]_treeVars
    <2> SUFFICES ASSUME TreeShape, TreeNext,
                        NEW k \in Elements(tree) \ Elements(tree'), NEW n \in InUse(tree), tree.data[n] > k
                 PROVE  n \in InUse(tree') /\ tree'.data[n] = tree.data[n]
      OBVIOUS
    <2>1. PICK j \in Key : SetInsert(j) \/ SetErase(j)
      BY DEF TreeNext
    <2>2. CASE SetInsert(j)
      BY <2>2, InsertStep
    <2>3. CASE SetErase(j)
      <3>1. Elements(tree') = Elements(tree) \ {j}
        BY <2>3, EraseStep DEF Set!Erase
      <3>2. k = j
        BY <3>1
      <3> QED BY <3>2, <2>3, EraseStep
    <2> QED BY <2>1, <2>2, <2>3
  <1> QED BY <1>1, TreeKeepsItsShape, PTL DEF TreeSpec, LargerStay

-----------------------------------------------------------------------------
(* What CheckConsist walks: the ring, and the nodes an iterator visits.    *)

\* The walk around the ring meets the nodes in it.
LEMMA RingIs ==
    ASSUME NEW t, NEW U, NEW g, NEW m, Grove(t, U, g, m)
    PROVE  Ring(t) = Node \ U
  <1> DEFINE at(i) == Steps(t.rchild, t.empty, i)
  <1>1. /\ m \in Nat /\ RingAt(t, g, m) /\ Nodes(g, m) = Node \ U /\ m <= TreeNodes /\ TreeNodes \in Nat
        /\ NPOS \notin Node /\ NodeOrNone = 0..TreeNodes /\ t.rchild[NPOS] = NPOS
    <2>1. t \in Trees /\ t.rchild[NPOS] = NPOS /\ t.size + m = TreeNodes /\ m \in Nat
      BY DEF Grove, Woods, Leafy
    <2>2. t.size \in 0..TreeNodes /\ TreeNodes \in Nat
      BY <2>1, TreeAssumption DEF Trees
    <2>3. m <= TreeNodes
      BY <2>1, <2>2
    <2> QED BY <2>1, <2>2, <2>3, Positions DEF Grove, NodeOrNone
  <1>2. CASE m = 0
    <2>1. t.empty = NPOS /\ Nodes(g, m) = {}
      BY <1>1, <1>2 DEF RingAt, Nodes
    <2>2. ASSUME NEW i \in NodeOrNone PROVE at(i) \in {NPOS}
      <3>1. i \in Nat
        BY <1>1
      <3> QED BY <3>1, <2>1, <1>1, StepsStay
    <2> QED BY <2>1, <2>2, <1>1 DEF Ring
  <1>3. CASE m # 0
    <2>1. t.empty = g[1] /\ 1 \in 1..m
      BY <1>1, <1>3 DEF RingAt
    <2>2. \A i \in 1..m : g[i] \in Nodes(g, m) /\ g[i] # NPOS
      BY <1>1, RingPlaces
    <2>3. \A n \in Nodes(g, m) : t.rchild[n] \in Nodes(g, m)
      <3> SUFFICES ASSUME NEW i \in 1..m PROVE t.rchild[g[i]] \in Nodes(g, m)
        BY DEF Nodes
      <3>1. t.rchild[g[i]] = IF i = m THEN g[1] ELSE g[i + 1]
        BY <1>1 DEF RingAt
      <3>2. i # m => i + 1 \in 1..m
        BY <1>1
      <3> QED BY <3>1, <3>2, <2>1, <2>2
    <2>4. ASSUME NEW i \in NodeOrNone PROVE at(i) \in Nodes(g, m)
      <3>1. i \in Nat /\ t.empty \in Nodes(g, m)
        BY <1>1, <2>1, <2>2
      <3> QED BY <3>1, <2>3, StepsStay
    <2> DEFINE Apart == {i \in Nat : i < m /\ at(i) # g[i + 1]}
    <2>5. Apart = {}
      <3> SUFFICES ASSUME Apart # {} PROVE FALSE
        OBVIOUS
      <3>1. PICK i \in Apart : \A j \in Apart : i <= j
        BY LeastExists
      <3>2. i \in Nat /\ i < m /\ at(i) # g[i + 1]
        OBVIOUS
      <3> HIDE DEF Apart
      <3>3. i # 0
        BY <3>2, <2>1, StepsAre
      <3>4. i - 1 \in Nat /\ i - 1 < m /\ i - 1 \notin Apart /\ (i - 1) + 1 = i /\ i \in 1..m /\ i # m
        BY <3>1, <3>2, <3>3, <1>1
      <3>5. at(i - 1) = g[i]
        BY <3>4 DEF Apart
      <3>6. at(i) = t.rchild[at(i - 1)]
        BY <3>4, StepsAre
      <3> QED BY <3>2, <3>4, <3>5, <3>6, <1>1 DEF RingAt
    <2>6. ASSUME NEW n \in Nodes(g, m) PROVE \E i \in NodeOrNone : n = at(i)
      <3>1. PICK j \in 1..m : n = g[j]
        BY DEF Nodes
      <3>2. j - 1 \in Nat /\ j - 1 < m /\ (j - 1) + 1 = j /\ j - 1 \in NodeOrNone
        BY <1>1
      <3>3. at(j - 1) = g[j]
        BY <3>2, <2>5
      <3> QED BY <3>1, <3>2, <3>3
    <2> HIDE DEF at
    <2>7. {at(i) : i \in NodeOrNone} = Nodes(g, m)
      BY <2>4, <2>6
    <2>8. Ring(t) = {at(i) : i \in NodeOrNone} \ {NPOS}
      BY DEF Ring, at
    <2> QED BY <2>7, <2>8, <1>1
  <1> QED BY <1>2, <1>3

\* how many keys are smaller than that of n
Rank(U, d, n) == Cardinality({y \in U : d[y] < d[n]})

LEMMA RankOrders ==
    ASSUME NEW U, U \subseteq Node, NEW d, Keyed(U, d), NEW a \in U
    PROVE  /\ Rank(U, d, a) \in Nat /\ Rank(U, d, a) < Cardinality(U)
           /\ \A b \in U : /\ d[a] < d[b] => Rank(U, d, a) < Rank(U, d, b)
                           /\ Rank(U, d, a) < Rank(U, d, b) => d[a] < d[b]
                           /\ Rank(U, d, a) = Rank(U, d, b) => a = b
  <1> DEFINE below(n) == {y \in U : d[y] < d[n]}
  <1>1. \A x, y \in U : d[x] \in Nat /\ d[y] \in Nat /\ (d[x] = d[y] => x = y)
    BY DEF Keyed
  <1>2. \A n \in U : below(n) \in SUBSET U /\ below(n) # U
    BY <1>1
  <1>3. \A n \in U : Cardinality(below(n)) \in Nat /\ Cardinality(below(n)) < Cardinality(U)
    BY <1>2, Fewer
  <1>4. ASSUME NEW x \in U, NEW y \in U, d[x] < d[y] PROVE Cardinality(below(x)) < Cardinality(below(y))
    <2>1. below(x) \in SUBSET below(y)
      BY <1>1, <1>4
    <2>2. x \in below(y) /\ x \notin below(x)
      BY <1>1, <1>4
    <2> HIDE DEF below
    <2>3. below(x) # below(y)
      BY <2>2
    <2> QED BY <2>1, <2>3, <1>2, Fewer
  <1>5. \A n : Rank(U, d, n) = Cardinality(below(n))
    BY DEF Rank
  <1> HIDE DEF below
  <1>6. ASSUME NEW b \in U
        PROVE  /\ d[a] < d[b] => Rank(U, d, a) < Rank(U, d, b)
               /\ Rank(U, d, a) < Rank(U, d, b) => d[a] < d[b]
               /\ Rank(U, d, a) = Rank(U, d, b) => a = b
    <2>1. /\ d[a] < d[b] => Rank(U, d, a) < Rank(U, d, b)
          /\ d[b] < d[a] => Rank(U, d, b) < Rank(U, d, a)
          /\ Rank(U, d, a) \in Nat /\ Rank(U, d, b) \in Nat
      BY <1>3, <1>4, <1>5
    <2>2. d[a] < d[b] \/ d[b] < d[a] \/ a = b
      BY <1>1
    <2> QED BY <2>1, <2>2
  <1> QED BY <1>3, <1>5, <1>6

\* n is at place i in the order of the keys, or NPOS if there are no more.
InPlace(U, d, n, i) ==
    IF i < Cardinality(U) THEN n \in U /\ Rank(U, d, n) = i ELSE n = NPOS

LEMMA NextInPlace ==
    ASSUME NEW U, U \subseteq Node, NEW d, Keyed(U, d), NEW n \in U, NEW b, NextOf(U, d, n, b)
    PROVE  InPlace(U, d, b, Rank(U, d, n) + 1)
  <1> DEFINE below(x) == {y \in U : d[y] < d[x]}
  <1>1. \A x \in U : d[x] \in Nat /\ (d[x] = d[n] => x = n)
    BY DEF Keyed
  <1>2. /\ IsFiniteSet(U) /\ Cardinality(U) \in Nat /\ IsFiniteSet(below(n)) /\ n \notin below(n)
        /\ Cardinality(below(n) \cup {n}) = Cardinality(below(n)) + 1
    <2>1. below(n) \in SUBSET U /\ n \notin below(n)
      BY <1>1
    <2>2. IsFiniteSet(U) /\ Cardinality(U) \in Nat /\ IsFiniteSet(below(n))
      BY <2>1, Fewer
    <2> HIDE DEF below
    <2> QED BY <2>1, <2>2, FS_AddElement
  <1>3. CASE \E m \in U : d[n] < d[m]
    <2>1. b \in U /\ d[n] < d[b] /\ \A m \in U : d[n] < d[m] => ~(d[m] < d[b])
      BY <1>3 DEF NextOf
    <2>2. below(b) = below(n) \cup {n}
      <3>1. ASSUME NEW y \in U PROVE d[y] < d[b] <=> d[y] < d[n] \/ y = n
        BY <2>1, <1>1
      <3> QED BY <3>1
    <2>3. Rank(U, d, b) = Rank(U, d, n) + 1 /\ Rank(U, d, b) < Cardinality(U)
      BY <2>1, <2>2, <1>2, RankOrders DEF Rank
    <2> QED BY <2>1, <2>3 DEF InPlace
  <1>4. CASE ~\E m \in U : d[n] < d[m]
    <2>1. below(n) \cup {n} = U
      <3>1. ASSUME NEW y \in U PROVE d[y] < d[n] \/ y = n
        BY <1>1, <1>4
      <3> QED BY <3>1
    <2>2. b = NPOS
      BY <1>4 DEF NextOf
    <2>3. Rank(U, d, n) + 1 = Cardinality(U)
      BY <2>1, <1>2 DEF Rank
    <2> QED BY <2>2, <2>3, <1>2 DEF InPlace
  <1> QED BY <1>3, <1>4

\* An iterator is at each place in turn.
LEMMA VisitIs ==
    ASSUME NEW t, NEW U, NEW span, Grown(t, U, t.data, span), NEW i \in Nat
    PROVE  InPlace(U, t.data,
                   Steps([pos \in NodeOrNone |-> IF pos = NPOS THEN NPOS ELSE FindNextBigPos(t, pos)],
                         FindSmallestPos(t, t.root), i), i)
  <1> DEFINE d == t.data
             next == [pos \in NodeOrNone |-> IF pos = NPOS THEN NPOS ELSE FindNextBigPos(t, pos)]
             first == FindSmallestPos(t, t.root)
             at(j) == Steps(next, first, j)
             Out == {j \in Nat : ~InPlace(U, d, at(j), j)}
  <1>1. /\ U \subseteq Node /\ Keyed(U, d) /\ Cardinality(U) \in Nat /\ IsFiniteSet(U)
        /\ NPOS \in NodeOrNone /\ U \subseteq NodeOrNone /\ NPOS \notin U
        /\ t.root \in U \cup {NPOS} /\ span[t.root] = U /\ span[NPOS] = {}
    <2>1. U \subseteq Node /\ Keyed(U, d) /\ t.root \in U \cup {NPOS} /\ span[t.root] = U /\ span[NPOS] = {}
      BY DEF Grown, Shape
    <2> QED BY <2>1, Fewer, Positions
  <1>2. InPlace(U, d, first, 0)
    <2>1. CASE U = {}
      <3> DEFINE down == [pos \in NodeOrNone |-> IF Left(t, pos) = NPOS THEN pos ELSE Left(t, pos)]
      <3>1. t.root = NPOS
        BY <2>1, <1>1
      <3>2. down[NPOS] = NPOS
        BY <1>1 DEF Left
      <3>3. first = Steps(down, NPOS, TreeNodes) /\ TreeNodes \in Nat
        BY <3>1, TreeAssumption DEF FindSmallestPos
      <3> HIDE DEF down, first
      <3>4. first \in {NPOS}
        BY <3>2, <3>3, StepsStay
      <3> QED BY <3>4, <2>1, FS_EmptySet DEF InPlace
    <2>2. CASE U # {}
      <3>1. t.root \in U
        BY <2>2, <1>1
      <3>2. first \in U /\ \A m \in U : m # first => d[first] < d[m]
        BY <3>1, <1>1, SmallestIs
      <3>3. {y \in U : d[y] < d[first]} = {}
        <4>1. \A x \in U : d[x] \in Nat
          BY <1>1 DEF Keyed
        <4> HIDE DEF first, d
        <4>2. ASSUME NEW y \in U, d[y] < d[first] PROVE FALSE
          BY <4>1, <4>2, <3>2
        <4> QED BY <4>2
      <3>4. Rank(U, d, first) = 0
        BY <3>3, FS_EmptySet DEF Rank
      <3>5. Rank(U, d, first) < Cardinality(U)
        BY <3>2, <1>1, RankOrders
      <3> HIDE DEF first
      <3> QED BY <3>2, <3>4, <3>5 DEF InPlace
    <2> QED BY <2>1, <2>2
  <1>3. ASSUME NEW j \in Nat, NEW n, InPlace(U, d, n, j) PROVE InPlace(U, d, next[n], j + 1)
    <2>1. CASE j < Cardinality(U)
      <3>1. n \in U /\ Rank(U, d, n) = j
        BY <2>1, <1>3 DEF InPlace
      <3>2. next[n] = FindNextBigPos(t, n)
        BY <3>1, <1>1
      <3>3. NextOf(U, d, n, next[n])
        BY <3>1, <3>2, NextBigIs
      <3> HIDE DEF next
      <3> QED BY <3>1, <3>3, <1>1, NextInPlace
    <2>2. CASE ~(j < Cardinality(U))
      <3>1. n = NPOS /\ ~(j + 1 < Cardinality(U))
        BY <2>2, <1>1, <1>3 DEF InPlace
      <3>2. next[n] = NPOS
        BY <3>1, <1>1
      <3> QED BY <3>1, <3>2 DEF InPlace
    <2> QED BY <2>1, <2>2
  <1> HIDE DEF next, first, d
  <1>4. Out = {}
    <2> SUFFICES ASSUME Out # {} PROVE FALSE
      OBVIOUS
    <2>1. PICK j \in Out : \A k \in Out : j <= k
      BY LeastExists
    <2>2. j # 0
      BY <1>2, StepsAre
    <2>3. j - 1 \in Nat /\ j - 1 \notin Out /\ (j - 1) + 1 = j
      BY <2>1, <2>2
    <2>4. InPlace(U, d, at(j - 1), j - 1)
      BY <2>3
    <2>5. at(j) = next[at(j - 1)]
      BY <2>3, StepsAre
    <2>6. InPlace(U, d, next[at(j - 1)], j)
      <3> HIDE DEF at
      <3>1. InPlace(U, d, next[at(j - 1)], (j - 1) + 1)
        BY <2>3, <2>4, <1>3
      <3> QED BY <3>1, <2>3
    <2> QED BY <2>5, <2>6
  <1> QED BY <1>4 DEF d, next, first

\* From begin() to end() an iterator is at each node in use, in the order of the keys.
Enumerates(t, U, w) ==
    /\ Len(w) = Cardinality(U) /\ w \in [1..Cardinality(U) -> U] /\ ToSet(w) = U
    /\ \A i \in 1..Cardinality(U) : Rank(U, t.data, w[i]) = i - 1

LEMMA VisitedIs ==
    ASSUME NEW t, NEW U, NEW span, Grown(t, U, t.data, span), NEW w, w = Visited(t)
    PROVE  Enumerates(t, U, w)
  <1> DEFINE d == t.data
             next == [pos \in NodeOrNone |-> IF pos = NPOS THEN NPOS ELSE FindNextBigPos(t, pos)]
             first == FindSmallestPos(t, t.root)
             at(i) == Steps(next, first, i - 1)
             N == Cardinality(U)
             S == {j \in 1..(TreeNodes + 1) : at(j) # NPOS}
  <1>1. /\ U \subseteq Node /\ Keyed(U, d) /\ N \in Nat /\ IsFiniteSet(U) /\ N <= TreeNodes
        /\ NPOS \notin U /\ TreeNodes \in Nat
    <2>1. U \subseteq Node /\ Keyed(U, d)
      BY DEF Grown, Shape
    <2> QED BY <2>1, Fewer, Positions, TreeAssumption
  <1>2. w = [i \in 1..Cardinality(S) |-> at(i)]
    BY DEF Visited
  <1>3. ASSUME NEW i \in Nat \ {0} PROVE InPlace(U, d, at(i), i - 1)
    <2>1. i - 1 \in Nat
      OBVIOUS
    <2> QED BY <2>1, VisitIs
  <1> HIDE DEF at, d
  <1>4. ASSUME NEW i \in Nat \ {0}
        PROVE  IF i <= N THEN at(i) \in U /\ Rank(U, d, at(i)) = i - 1 /\ at(i) # NPOS ELSE at(i) = NPOS
    <2>1. i - 1 < N <=> i <= N
      BY <1>1
    <2> QED BY <2>1, <1>1, <1>3 DEF InPlace
  <1>5. S = 1..N
    <2>1. \A i \in 1..(TreeNodes + 1) : at(i) # NPOS <=> i <= N
      BY <1>4
    <2> HIDE DEF N
    <2> QED BY <2>1, <1>1
  <1>6. Cardinality(S) = N
    <2>1. 1 \in Int /\ N \in Int
      BY <1>1
    <2>2. Cardinality(1..N) = IF 1 > N THEN 0 ELSE N - 1 + 1
      BY <2>1, FS_Interval
    <2> HIDE DEF S, N
    <2> QED BY <2>2, <1>1, <1>5
  <1> HIDE DEF S, N
  <1>7. w = [i \in 1..N |-> at(i)]
    BY <1>2, <1>6
  <1>8. \A i \in 1..N : w[i] \in U /\ Rank(U, d, w[i]) = i - 1
    BY <1>4, <1>7
  <1>9. w \in [1..N -> U] /\ DOMAIN w = 1..N /\ Len(w) = N
    <2>1. w \in [1..N -> U] /\ DOMAIN w = 1..N
      BY <1>7, <1>8
    <2>2. w \in Seq(U)
      BY <2>1, <1>1
    <2>3. Len(w) \in Nat /\ DOMAIN w = 1..Len(w)
      BY <2>2, LenProperties
    <2>4. Len(w) = N
      BY <2>1, <2>3, <1>1
    <2> QED BY <2>1, <2>4
  <1>10. ToSet(w) = U
    <2>1. w \in Injection(1..N, U)
      <3>1. \A i, j \in 1..N : w[i] = w[j] => i = j
        <4> SUFFICES ASSUME NEW i \in 1..N, NEW j \in 1..N, w[i] = w[j] PROVE i = j
          OBVIOUS
        <4>1. i - 1 = j - 1
          BY <1>8
        <4> QED BY <4>1, <1>1
      <3> QED BY <3>1, <1>9 DEF Injection, IsInjective
    <2>2. IsFiniteSet(1..N) /\ Cardinality(1..N) = N
      <3>1. 1 \in Int /\ N \in Int
        BY <1>1
      <3>2. IsFiniteSet(1..N) /\ Cardinality(1..N) = IF 1 > N THEN 0 ELSE N - 1 + 1
        BY <3>1, FS_Interval
      <3> QED BY <3>2, <1>1
    <2>3. w \in Surjection(1..N, U)
      BY <2>1, <2>2, <1>1, FS_Injection DEF N
    <2>4. \A n \in U : \E i \in 1..N : w[i] = n
      BY <2>3 DEF Surjection
    <2> QED BY <2>4, <1>8, <1>9 DEF ToSet
  <1> QED BY <1>8, <1>9, <1>10 DEF Enumerates, N, d

\* CheckConsist holds after any operations: every node is in the tree, colored
\* and met by an iterator, or in the ring and empty, the root and NPOS are
\* black, and the number in use is size.
THEOREM TreeIsConsistent == TreeSpec => []CheckConsist
  <1>1. ASSUME TreeShape PROVE CheckConsist
    <2>1. PICK U, g, m : Grove(tree, U, g, m)
      BY <1>1 DEF TreeShape
    <2> DEFINE w == Visited(tree)
               ring == Ring(tree)
    <2>2. PICK span : Grown(tree, U, tree.data, span)
      BY <2>1, WoodsGrow DEF Grove
    <2>3. Enumerates(tree, U, w)
      BY <2>2, VisitedIs
    <2>4. Len(w) = tree.size /\ ToSet(w) = U
      BY <2>1, <2>3, GroveCounts DEF Enumerates
    <2>5. ring = Node \ U
      BY <2>1, RingIs
    <2>6. /\ U \subseteq Node /\ m \in Nat /\ RingAt(tree, g, m) /\ Nodes(g, m) = Node \ U
          /\ tree.size + m = TreeNodes /\ tree.color[NPOS] = "BLACK" /\ tree.color[tree.root] = "BLACK"
          /\ \A n \in Node : n \in U <=> tree.color[n] # "EMPTY"
          /\ tree \in Trees /\ Order(g, m, Node)
      BY <2>1 DEF Grove, Woods, Leafy, RootBlack, RingAt
    <2> HIDE DEF w, ring
    <2>7. ASSUME NEW n \in ring PROVE tree.color[n] = "EMPTY" /\ tree.rchild[tree.lchild[n]] = n
      <3>1. n \in Node /\ n \notin U
        BY <2>5
      <3>2. PICK i \in 1..m : n = g[i]
        BY <3>1, <2>6 DEF Nodes
      <3>3. tree.lchild[n] = IF i = 1 THEN g[m] ELSE g[i - 1]
        BY <3>2, <2>6 DEF RingAt
      <3>4. CASE i = 1
        <4>1. m \in 1..m
          BY <2>6
        <4>2. tree.rchild[g[m]] = g[1]
          BY <4>1, <2>6 DEF RingAt
        <4> QED BY <4>2, <3>1, <3>2, <3>3, <3>4, <2>6
      <3>5. CASE i # 1
        <4>1. i - 1 \in 1..m /\ i - 1 # m /\ i - 1 + 1 = i
          BY <3>5, <2>6
        <4>2. tree.rchild[g[i - 1]] = g[i - 1 + 1]
          BY <4>1, <2>6 DEF RingAt
        <4> QED BY <4>1, <4>2, <3>1, <3>2, <3>3, <3>5, <2>6
      <3> QED BY <3>4, <3>5
    <2>8. Cardinality(ring) = TreeNodes - tree.size
      <3>1. Cardinality(Nodes(g, m)) = m
        BY <2>6, RowCounts
      <3>2. tree.size \in 0..TreeNodes /\ TreeNodes \in Nat
        BY <2>6, TreeAssumption DEF Trees
      <3> QED BY <3>1, <3>2, <2>5, <2>6
    <2>9. ToSet(w) = Node \ ring /\ \A n \in ToSet(w) : tree.color[n] # "EMPTY"
      BY <2>4, <2>5, <2>6
    <2> QED BY <2>4, <2>6, <2>7, <2>8, <2>9 DEF CheckConsist, w, ring
  <1> QED BY <1>1, TreeKeepsItsShape, PTL

\* An iterator meets the elements in ascending order and steps back the way it
\* came, whatever was inserted and erased before.
THEOREM TreeIsAscending == TreeSpec => []Ascending
  <1>1. ASSUME TreeShape PROVE Ascending
    <2>1. PICK U, g, m : Grove(tree, U, g, m)
      BY <1>1 DEF TreeShape
    <2> DEFINE w == Visited(tree)
               d == tree.data
               N == Cardinality(U)
               back(i) == FindNextSmallPos(tree, IF i = Len(w) THEN NPOS ELSE w[i + 1])
    <2>2. PICK span : Grown(tree, U, d, span)
      BY <2>1, WoodsGrow DEF Grove
    <2>3. Enumerates(tree, U, w)
      BY <2>2, VisitedIs
    <2>4. /\ U \subseteq Node /\ Keyed(U, d) /\ N \in Nat /\ IsFiniteSet(U) /\ NPOS \notin U
          /\ tree.root \in U \cup {NPOS} /\ span[tree.root] = U /\ span[NPOS] = {}
      <3>1. /\ U \subseteq Node /\ Keyed(U, d)
            /\ tree.root \in U \cup {NPOS} /\ span[tree.root] = U /\ span[NPOS] = {}
        BY <2>2 DEF Grown, Shape
      <3> QED BY <3>1, Fewer, Positions
    <2> HIDE DEF w, d, N
    <2>5. Len(w) = N /\ \A i \in 1..N : w[i] \in U /\ Rank(U, d, w[i]) = i - 1
      BY <2>3 DEF Enumerates, N, d
    <2>6. ASSUME NEW i \in 1..N, NEW j \in 1..N, i < j PROVE d[w[i]] < d[w[j]]
      <3>1. w[i] \in U /\ w[j] \in U /\ Rank(U, d, w[i]) = i - 1 /\ Rank(U, d, w[j]) = j - 1
        BY <2>5
      <3>2. Rank(U, d, w[i]) < Rank(U, d, w[j])
        BY <3>1, <2>4, <2>6
      <3> QED BY <3>1, <3>2, <2>4, RankOrders
    <2>7. \A x \in U : d[x] \in Nat
      BY <2>4 DEF Keyed
    <2>8. ASSUME NEW i \in 1..N PROVE back(i) = w[i]
      <3>1. w[i] \in U /\ Rank(U, d, w[i]) = i - 1
        BY <2>5
      <3>2. ASSUME NEW b \in U, Rank(U, d, b) = i - 1 PROVE b = w[i]
        BY <3>1, <3>2, <2>4, RankOrders
      <3>3. CASE i = N
        <4> DEFINE b == FindBiggestPos(tree, tree.root)
        <4>1. tree.root \in U
          BY <3>1, <2>4
        <4>2. b \in U /\ \A x \in U : x # b => d[x] < d[b]
          BY <4>1, <2>2, <2>4, BiggestIs
        <4>3. back(i) = b
          BY <3>3, <2>5 DEF FindNextSmallPos
        <4> HIDE DEF b
        <4>4. {y \in U : d[y] < d[b]} = U \ {b}
          BY <4>2, <2>7
        <4>5. Cardinality(U \ {b}) = N - 1
          BY <4>2, <2>4, FS_RemoveElement DEF N
        <4>6. Rank(U, d, b) = i - 1
          BY <4>4, <4>5, <3>3 DEF Rank
        <4> QED BY <4>2, <4>3, <4>6, <3>2
      <3>4. CASE i # N
        <4> DEFINE n == w[i + 1]
                   b == FindNextSmallPos(tree, n)
        <4>1. i + 1 \in 1..N /\ (i + 1) - 1 = i
          BY <3>4, <2>4
        <4>2. n \in U /\ Rank(U, d, n) = i
          BY <4>1, <2>5
        <4>3. back(i) = b
          BY <3>4, <2>5
        <4>4. PrevOf(U, d, n, b)
          BY <4>2, <2>2, NextSmallIs
        <4>5. d[w[i]] < d[n]
          BY <4>1, <2>6
        <4> HIDE DEF n, b
        <4>6. b \in U /\ d[b] < d[n] /\ \A y \in U : d[y] < d[n] => ~(d[b] < d[y])
          BY <4>4, <4>5, <3>1 DEF PrevOf
        <4>7. {y \in U : d[y] < d[n]} = {y \in U : d[y] < d[b]} \cup {b}
          <5>1. ASSUME NEW y \in U PROVE d[y] < d[n] <=> d[y] < d[b] \/ y = b
            <6>1. d[y] \in Nat /\ d[b] \in Nat /\ d[n] \in Nat /\ (d[y] = d[b] => y = b)
              BY <4>2, <4>6, <2>4, <2>7 DEF Keyed
            <6> QED BY <6>1, <4>6
          <5> QED BY <5>1, <4>6
        <4>8. Rank(U, d, n) = Rank(U, d, b) + 1
          <5> DEFINE A == {y \in U : d[y] < d[b]}
          <5>1. A \in SUBSET U /\ b \notin A
            BY <4>6, <2>7
          <5>2. IsFiniteSet(A)
            BY <5>1, <2>4, FS_Subset
          <5> HIDE DEF A
          <5>3. Cardinality(A \cup {b}) = Cardinality(A) + 1
            BY <5>1, <5>2, FS_AddElement
          <5> QED BY <5>3, <4>7 DEF A, Rank
        <4>9. Rank(U, d, b) = i - 1
          <5>1. Rank(U, d, b) \in Nat
            BY <4>6, <2>4, RankOrders
          <5> QED BY <5>1, <4>2, <4>8
        <4> QED BY <4>3, <4>6, <4>9, <3>2
      <3> QED BY <3>3, <3>4
    <2>9. /\ \A i, j \in 1..Len(w) : i < j => d[w[i]] < d[w[j]]
          /\ \A i \in 1..Len(w) : FindNextSmallPos(tree, IF i = Len(w) THEN NPOS ELSE w[i + 1]) = w[i]
      BY <2>5, <2>6, <2>8
    <2> QED BY <2>9 DEF Ascending, w, d
  <1> QED BY <1>1, TreeKeepsItsShape, PTL
-----------------------------------------------------------------------------
\* Whichever container is looked at, what it keeps.
ContainerInv == QueueTypeOK /\ ListTypeOK /\ TreeInv /\ (kind = "pool" => PoolShape)

LEMMA ContainerStep == MCSpec => []ContainerInv
  <1>1. MCInit => ContainerInv
    <2> SUFFICES ASSUME MCInit PROVE ContainerInv
      OBVIOUS
    <2>1. list \in ListType /\ adrift = FALSE /\ PoolShape
      BY ListBegins, PoolBegins DEF MCInit, ListInit
    <2>2. QueueTypeOK /\ TreeInv
      BY QueueTypeBegins, TreeInvBegins DEF MCInit
    <2>3. ListTypeOK
      BY <2>1, ListTypeIs
    <2> QED BY <2>1, <2>2, <2>3 DEF ContainerInv
  <1>2. ContainerInv /\ [MCNext]_containerVars => ContainerInv'
    <2> SUFFICES ASSUME ContainerInv, [MCNext]_containerVars PROVE ContainerInv'
      OBVIOUS
    <2>1. UNCHANGED listVars => (PoolShape => PoolShape')
      BY DEF PoolShape, listVars
    <2>2. [Next]_vars /\ [TreeNext]_treeVars
      BY DEF MCNext, containerVars
    <2>3. [ListNext]_listVars /\ (kind' = "pool" => PoolShape')
      <3>1. CASE kind = "pool" /\ PoolNext /\ UNCHANGED kind
        BY <3>1, PoolStep DEF ContainerInv
      <3>2. CASE kind = "list" /\ ListNext /\ UNCHANGED kind
        BY <3>2
      <3>3. CASE UNCHANGED <<kind, listVars>>
        BY <3>3, <2>1 DEF ContainerInv
      <3>4. UNCHANGED containerVars => UNCHANGED <<kind, listVars>>
        BY DEF containerVars
      <3> QED BY <3>1, <3>2, <3>3, <3>4 DEF MCNext
    <2>4. QueueTypeOK' /\ ListTypeOK' /\ TreeInv'
      BY <2>2, <2>3, QueueTypeStep, ListTypeStep, TreeInvStep DEF ContainerInv
    <2> QED BY <2>3, <2>4 DEF ContainerInv
  <1> QED BY <1>1, <1>2, PTL DEF MCSpec

\* Each container keeps its type, whichever of them is looked at.
THEOREM ContainerTypes == MCSpec => []TypeOK
  <1>1. ContainerInv => TypeOK
    BY TreeInvTypes DEF TypeOK, ContainerInv
  <1> QED BY <1>1, ContainerStep, PTL

\* No pool goes adrift or gives its mark of the end out (pool.hpp).
THEOREM PoolsKeepTheirEnd == MCSpec => []PoolKeepsEnd
  <1>1. ContainerInv => PoolKeepsEnd
    BY PoolEnds DEF PoolKeepsEnd, ContainerInv
  <1> QED BY <1>1, ContainerStep, PTL
=============================================================================
