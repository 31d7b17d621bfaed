-------------------------- MODULE BraSessionProofs --------------------------
(***************************************************************************)
(* What the two sessions know and agree on.                                *)
(*                                                                         *)
(* What the operations on the directory tree return, for every tree, and   *)
(* type correctness of BraArchive.  TypeInv adds to ATypeOK what each      *)
(* phase of a session knows: that the entry it works on exists, that the   *)
(* reader's tree is well formed, and that its output file is there.        *)
(*                                                                         *)
(* For every plan, unless a byte was changed, the reader's tree is a       *)
(* prefix of the writer's, and the name of every entry the one the writer  *)
(* was given (RestoreInv).  An entry that was written to its end is what   *)
(* the writer was given, and what a fault does to the archive file         *)
(* contradicts the sum of some entry or leaves one without (SealInv).      *)
(*                                                                         *)
(* The prover has no induction over data; the recursive functions of       *)
(* BraTreeDir are reasoned about with least counterexamples (LeastNat).    *)
(***************************************************************************)
EXTENDS BraArchive, TLAPS, WellFoundedInduction, SequenceTheorems

----------------------------------------------------------------------------
(* The directory tree. *)
Tree(S) == Seq([parent : Nat, name : S])

(* A nonempty set of naturals has a least element. *)
LEMMA LeastNat ==
  ASSUME NEW T, T \subseteq Nat, T # {}
  PROVE  \E m \in T : \A k \in T : m <= k
<1>1. IsWellFoundedOn(OpToRel(<, Nat), Nat)
  BY NatLessThanWellFounded
<1>2. PICK m \in T : \A k \in T : ~(<<k, m>> \in OpToRel(<, Nat))
  BY <1>1, WFMin
<1>3. \A k \in T : m \in Nat /\ k \in Nat /\ ~(k < m)
  BY <1>2 DEF OpToRel
<1>4. \A k \in T : m <= k
  BY <1>3
<1> QED
  BY <1>4

----------------------------------------------------------------------------
PathStep(t, f, i) == IF i = Root THEN <<>> ELSE Append(f[t[i].parent], t[i].name)

(* The equation that defines the paths of a tree has a solution. *)
LEMMA PathsExist ==
  ASSUME NEW S, NEW t \in Tree(S), WellFormed(t)
  PROVE  \E f : f = [i \in Nodes(t) |-> PathStep(t, f, i)]
<1> DEFINE Solves(f, n) == f = [i \in 0 .. n |-> PathStep(t, f, i)]
           Bad == {n \in 0 .. Len(t) : ~\E f : Solves(f, n)}
<1>1. Len(t) \in Nat
  BY DEF Tree
<1>2. \A i \in 1 .. Len(t) : t[i].parent \in 0 .. i - 1
  BY DEF WellFormed
<1>3. SUFFICES Bad = {}
  BY <1>1 DEF Nodes
<1>4. SUFFICES ASSUME Bad # {} PROVE FALSE
  OBVIOUS
<1>5. PICK m \in Bad : \A k \in Bad : m <= k
  <2>1. Bad \subseteq Nat
    BY <1>1
  <2> HIDE DEF Bad
  <2> QED
    BY <2>1, <1>4, LeastNat
<1>6. CASE m = 0
  <2>1. Solves([i \in 0 .. 0 |-> <<>>], 0)
    BY DEF PathStep, Root
  <2> QED
    BY <2>1, <1>5, <1>6
<1>7. CASE m # 0
  <2>1. m \in 1 .. Len(t) /\ m - 1 \in 0 .. Len(t)
    BY <1>1, <1>5, <1>7
  <2>2. ~(m <= m - 1)
    BY <2>1, <1>1
  <2>3. m - 1 \notin Bad
    <3> HIDE DEF Bad
    <3> QED
      BY <1>5, <2>2
  <2>4. PICK g : Solves(g, m - 1)
    BY <2>1, <2>3
  <2> DEFINE h == [i \in 0 .. m |-> IF i = m THEN Append(g[t[m].parent], t[m].name) ELSE g[i]]
  <2>5. \A i \in 0 .. m - 1 : h[i] = g[i]
    BY <2>1, <1>1
  <2>6. \A i \in 1 .. m : t[i].parent \in 0 .. m - 1 /\ h[t[i].parent] = g[t[i].parent]
    BY <2>1, <1>1, <1>2, <2>5
  <2>7. \A i \in 0 .. m - 1 : g[i] = PathStep(t, g, i)
    BY <2>4
  <2>8. \A i \in 0 .. m : h[i] = PathStep(t, h, i)
    <3> TAKE i \in 0 .. m
    <3>1. CASE i = m
      <4>1. h[m] = Append(g[t[m].parent], t[m].name) /\ m \in 1 .. m
        BY <2>1, <1>1
      <4>2. g[t[m].parent] = h[t[m].parent]
        BY <4>1, <2>6
      <4> HIDE DEF h
      <4> QED
        BY <3>1, <4>1, <4>2, <1>7 DEF PathStep, Root
    <3>2. CASE i # m
      <4>1. i \in 0 .. m - 1
        BY <3>2, <2>1, <1>1
      <4>2. h[i] = PathStep(t, g, i)
        BY <4>1, <2>5, <2>7
      <4>3. i = 0 \/ i \in 1 .. m
        BY <4>1, <2>1, <1>1
      <4> HIDE DEF h
      <4> QED
        BY <4>2, <4>3, <2>6 DEF PathStep, Root
    <3> QED
      BY <3>1, <3>2
  <2>9. Solves(h, m)
    <3>1. h = [i \in 0 .. m |-> h[i]]
      OBVIOUS
    <3> HIDE DEF h
    <3> QED
      BY <3>1, <2>8
  <2> QED
    BY <2>9, <1>5
<1> QED
  BY <1>6, <1>7

(* The path of a node is its parent's path and its name. *)
LEMMA PathOfNode ==
  ASSUME NEW S, NEW t \in Tree(S), WellFormed(t), NEW i \in Nodes(t)
  PROVE  PathOf(t, i) = IF i = Root THEN <<>> ELSE Append(PathOf(t, t[i].parent), t[i].name)
<1>1. PICK f : f = [j \in Nodes(t) |-> PathStep(t, f, j)]
  BY PathsExist
<1>2. Paths(t) = [j \in Nodes(t) |-> PathStep(t, Paths(t), j)]
  BY <1>1 DEF Paths, PathStep
<1> QED
  BY <1>2 DEF PathOf, PathStep

LEMMA NodeType ==
  ASSUME NEW S, NEW t \in Tree(S), NEW i \in 1 .. Len(t)
  PROVE  /\ t[i].parent \in Nat /\ t[i].name \in S
         /\ t[i] = Node(t[i].parent, t[i].name)
<1>1. t[i] \in [parent : Nat, name : S]
  BY ElementOfSeq DEF Tree
<1> QED
  BY <1>1 DEF Node

(* A path is a sequence of names. *)
LEMMA PathOfIsPath ==
  ASSUME NEW S, NEW t \in Tree(S), WellFormed(t), NEW i \in Nodes(t)
  PROVE  PathOf(t, i) \in Seq(S)
<1> DEFINE Bad == {j \in Nodes(t) : PathOf(t, j) \notin Seq(S)}
<1>1. Len(t) \in Nat
  BY DEF Tree
<1>2. SUFFICES ASSUME Bad # {} PROVE FALSE
  OBVIOUS
<1>3. PICK m \in Bad : \A k \in Bad : m <= k
  <2>1. Bad \subseteq Nat
    BY <1>1 DEF Nodes
  <2> HIDE DEF Bad
  <2> QED
    BY <2>1, <1>2, LeastNat
<1>4. m \in Nodes(t) /\ m \in Nat /\ PathOf(t, m) \notin Seq(S)
  BY <1>1 DEF Nodes
<1>5. CASE m = Root
  <2>1. PathOf(t, m) = <<>>
    BY <1>4, <1>5, PathOfNode
  <2> QED
    BY <2>1, <1>4
<1>6. CASE m # Root
  <2>1. m \in 1 .. Len(t)
    BY <1>4, <1>6, <1>1 DEF Nodes, Root
  <2>2. t[m].parent \in 0 .. m - 1 /\ t[m].name \in S
    BY <2>1, NodeType DEF WellFormed
  <2>3. t[m].parent \in Nodes(t) /\ ~(m <= t[m].parent)
    BY <2>1, <2>2, <1>1 DEF Nodes
  <2>4. t[m].parent \notin Bad
    <3> HIDE DEF Bad
    <3> QED
      BY <2>3, <1>3
  <2>5. PathOf(t, t[m].parent) \in Seq(S)
    BY <2>3, <2>4
  <2>6. PathOf(t, m) = Append(PathOf(t, t[m].parent), t[m].name)
    BY <1>4, <1>6, PathOfNode
  <2> QED
    BY <2>2, <2>5, <2>6, <1>4
<1> QED
  BY <1>5, <1>6

(* Distinct nodes are distinct siblings: a lookup finds the node itself. *)
LEMMA LookupFindsNode ==
  ASSUME NEW S, NEW t \in Tree(S), WellFormed(t), NEW i \in 1 .. Len(t)
  PROVE  AddChild(t, t[i].parent, t[i].name) = Found(t, i)
<1>1. t[i] = Node(t[i].parent, t[i].name)
  BY NodeType
<1>2. Siblings(t, t[i].parent, t[i].name) = {i}
  BY <1>1 DEF Siblings, WellFormed
<1> QED
  BY <1>2 DEF AddChild

----------------------------------------------------------------------------
WalkStep(t, path, f, k) ==
  IF k = 0 THEN Found(t, Root) ELSE AddChild(f[k - 1].tree, f[k - 1].node, path[k])

LEMMA WalksExist ==
  ASSUME NEW t, NEW path, NEW n \in Nat
  PROVE  \E f : f = [k \in 0 .. n |-> WalkStep(t, path, f, k)]
<1> DEFINE Solves(f, b) == f = [k \in 0 .. b |-> WalkStep(t, path, f, k)]
           Bad == {b \in Nat : ~\E f : Solves(f, b)}
<1>1. SUFFICES ASSUME Bad # {} PROVE FALSE
  OBVIOUS
<1>2. PICK m \in Bad : \A b \in Bad : m <= b
  <2>1. Bad \subseteq Nat
    OBVIOUS
  <2> HIDE DEF Bad
  <2> QED
    BY <2>1, <1>1, LeastNat
<1>3. CASE m = 0
  <2>1. Solves([k \in 0 .. 0 |-> Found(t, Root)], 0)
    BY DEF WalkStep
  <2> QED
    BY <2>1, <1>3
<1>4. CASE m # 0
  <2>1. m \in Nat \ {0} /\ m - 1 \in Nat /\ ~(m <= m - 1)
    BY <1>4
  <2>2. m - 1 \notin Bad
    <3> HIDE DEF Bad
    <3> QED
      BY <1>2, <2>1
  <2>3. PICK g : Solves(g, m - 1)
    BY <2>1, <2>2
  <2> DEFINE h == [k \in 0 .. m |-> WalkStep(t, path, g, k)]
  <2>4. \A k \in 0 .. m - 1 : h[k] = g[k]
    <3>1. \A k \in 0 .. m - 1 : g[k] = WalkStep(t, path, g, k)
      BY <2>3
    <3> QED
      BY <3>1, <2>1
  <2>5. \A k \in 0 .. m : WalkStep(t, path, g, k) = WalkStep(t, path, h, k)
    <3> TAKE k \in 0 .. m
    <3>1. CASE k = 0
      BY <3>1 DEF WalkStep
    <3>2. CASE k # 0
      <4>1. k - 1 \in 0 .. m - 1
        BY <3>2, <2>1
      <4>2. h[k - 1] = g[k - 1]
        BY <4>1, <2>4
      <4> HIDE DEF h
      <4> QED
        BY <4>2, <3>2 DEF WalkStep
    <3> QED
      BY <3>1, <3>2
  <2>6. Solves(h, m)
    BY <2>5
  <2> QED
    BY <2>6
<1> QED
  BY <1>3, <1>4

(* The equation of a walk. *)
LEMMA WalkEquation ==
  ASSUME NEW t, NEW path, Len(path) \in Nat
  PROVE  Walk(t, path) = [k \in 0 .. Len(path) |-> WalkStep(t, path, Walk(t, path), k)]
<1>1. PICK f : f = [k \in 0 .. Len(path) |-> WalkStep(t, path, f, k)]
  BY WalksExist
<1> QED
  BY <1>1 DEF Walk, WalkStep

(* A longer path is walked like a shorter one first. *)
LEMMA WalkOfAppend ==
  ASSUME NEW S, NEW t, NEW p \in Seq(S), NEW n \in S
  PROVE  LET q == Append(p, n)
             end == Walk(t, p)[Len(p)]
         IN  Walk(t, q)[Len(q)] = AddChild(end.tree, end.node, n)
<1> DEFINE q == Append(p, n)
           Bad == {k \in 0 .. Len(p) : Walk(t, q)[k] # Walk(t, p)[k]}
<1>1. /\ Len(p) \in Nat /\ Len(q) = Len(p) + 1
      /\ \A k \in 1 .. Len(p) : q[k] = p[k]
      /\ q[Len(p) + 1] = n
  OBVIOUS
<1> HIDE DEF q
<1>2. /\ \A k \in 0 .. Len(p) : Walk(t, p)[k] = WalkStep(t, p, Walk(t, p), k)
      /\ \A k \in 0 .. Len(p) + 1 : Walk(t, q)[k] = WalkStep(t, q, Walk(t, q), k)
  <2>1. Walk(t, p) = [k \in 0 .. Len(p) |-> WalkStep(t, p, Walk(t, p), k)]
    BY <1>1, WalkEquation
  <2>2. Walk(t, q) = [k \in 0 .. Len(p) + 1 |-> WalkStep(t, q, Walk(t, q), k)]
    <3>1. Walk(t, q) = [k \in 0 .. Len(q) |-> WalkStep(t, q, Walk(t, q), k)]
      BY <1>1, WalkEquation
    <3> QED
      BY <3>1, <1>1
  <2>3. \A f : f = [k \in 0 .. Len(p) |-> WalkStep(t, p, f, k)] =>
          \A k \in 0 .. Len(p) : f[k] = WalkStep(t, p, f, k)
    OBVIOUS
  <2>4. \A f : f = [k \in 0 .. Len(p) + 1 |-> WalkStep(t, q, f, k)] =>
          \A k \in 0 .. Len(p) + 1 : f[k] = WalkStep(t, q, f, k)
    OBVIOUS
  <2> QED
    BY <2>1, <2>2, <2>3, <2>4
<1>3. Bad = {}
  <2>1. SUFFICES ASSUME Bad # {} PROVE FALSE
    OBVIOUS
  <2>2. PICK m \in Bad : \A k \in Bad : m <= k
    <3>1. Bad \subseteq Nat
      BY <1>1
    <3> HIDE DEF Bad
    <3> QED
      BY <2>1, <3>1, LeastNat
  <2>3. m \in 0 .. Len(p) /\ Walk(t, q)[m] # Walk(t, p)[m]
    OBVIOUS
  <2>4. CASE m = 0
    BY <2>3, <2>4, <1>1, <1>2 DEF WalkStep
  <2>5. CASE m # 0
    <3>1. m - 1 \in 0 .. Len(p) /\ m \in 1 .. Len(p) /\ ~(m <= m - 1)
      BY <2>3, <2>5, <1>1
    <3>2. m - 1 \notin Bad
      <4> HIDE DEF Bad
      <4> QED
        BY <2>2, <3>1
    <3>3. Walk(t, q)[m - 1] = Walk(t, p)[m - 1]
      BY <3>1, <3>2
    <3> QED
      BY <2>3, <2>5, <3>1, <3>3, <1>1, <1>2 DEF WalkStep
  <2> QED
    BY <2>4, <2>5
<1>4. Walk(t, q)[Len(p)] = Walk(t, p)[Len(p)]
  BY <1>1, <1>3
<1>5. Walk(t, q)[Len(p) + 1] = WalkStep(t, q, Walk(t, q), Len(p) + 1)
  BY <1>1, <1>2
<1>6. Len(p) + 1 # 0 /\ (Len(p) + 1) - 1 = Len(p)
  BY <1>1
<1>7. Walk(t, q)[Len(q)] = AddChild(Walk(t, p)[Len(p)].tree, Walk(t, p)[Len(p)].node, n)
  BY <1>1, <1>4, <1>5, <1>6 DEF WalkStep
<1> QED
  BY <1>7 DEF q

(* The path of a node leads to that node, and adds nothing to the tree. *)
LEMMA WalkToNode ==
  ASSUME NEW S, NEW t \in Tree(S), WellFormed(t), NEW i \in Nodes(t)
  PROVE  Walk(t, PathOf(t, i))[Len(PathOf(t, i))] = Found(t, i)
<1> DEFINE End(j) == Walk(t, PathOf(t, j))[Len(PathOf(t, j))]
           Bad == {j \in Nodes(t) : End(j) # Found(t, j)}
<1>1. Len(t) \in Nat
  BY DEF Tree
<1>2. SUFFICES ASSUME Bad # {} PROVE FALSE
  OBVIOUS
<1>3. PICK m \in Bad : \A k \in Bad : m <= k
  <2>1. Bad \subseteq Nat
    BY <1>1 DEF Nodes
  <2> HIDE DEF Bad
  <2> QED
    BY <2>1, <1>2, LeastNat
<1>4. m \in Nodes(t) /\ m \in Nat /\ End(m) # Found(t, m)
  BY <1>1 DEF Nodes
<1>5. CASE m = Root
  <2>1. PathOf(t, m) = <<>> /\ Len(<<>>) = 0
    BY <1>4, <1>5, PathOfNode
  <2>2. Walk(t, <<>>) = [k \in 0 .. 0 |-> WalkStep(t, <<>>, Walk(t, <<>>), k)]
    BY <2>1, WalkEquation
  <2>3. \A f : f = [k \in 0 .. 0 |-> WalkStep(t, <<>>, f, k)] => f[0] = Found(t, Root)
    BY DEF WalkStep
  <2>4. Walk(t, <<>>)[0] = Found(t, Root)
    BY <2>2, <2>3
  <2> QED
    BY <2>1, <2>4, <1>4, <1>5
<1>6. CASE m # Root
  <2>1. m \in 1 .. Len(t)
    BY <1>4, <1>6, <1>1 DEF Nodes, Root
  <2> DEFINE par == t[m].parent
             p   == PathOf(t, par)
  <2>2. par \in 0 .. m - 1 /\ t[m].name \in S
    BY <2>1, NodeType DEF WellFormed
  <2>3. par \in Nodes(t) /\ ~(m <= par)
    BY <2>1, <2>2, <1>1 DEF Nodes
  <2>4. par \notin Bad
    <3> HIDE DEF Bad, par
    <3> QED
      BY <2>3, <1>3
  <2>5. End(par) = Found(t, par)
    BY <2>3, <2>4
  <2>6. PathOf(t, m) = Append(p, t[m].name)
    BY <1>4, <1>6, PathOfNode
  <2>7. p \in Seq(S)
    BY <2>3, PathOfIsPath
  <2>8. End(m) = AddChild(Walk(t, p)[Len(p)].tree, Walk(t, p)[Len(p)].node, t[m].name)
    <3> HIDE DEF p
    <3> QED
      BY <2>2, <2>6, <2>7, WalkOfAppend
  <2>9. End(m) = AddChild(t, par, t[m].name)
    BY <2>5, <2>8 DEF Found
  <2> QED
    BY <2>1, <2>9, <1>4, LookupFindsNode
<1> QED
  BY <1>5, <1>6

----------------------------------------------------------------------------
(* The writer adds a directory by its path, the reader by the number of    *)
(* its parent and its name.  For a directory that is new below one that is *)
(* there, both build the same tree and give it the same number: the next.  *)
(* This is what lets the file hold a number in place of a path.            *)
THEOREM SameNumbering ==
  ASSUME NEW S, NEW t \in Tree(S), WellFormed(t), NEW i \in Nodes(t), NEW n \in S,
         Siblings(t, i, n) = {}
  PROVE  /\ DirAdd(t, Append(PathOf(t, i), n)) = Found(Append(t, Node(i, n)), Len(t) + 1)
         /\ InsertAtParent(t, i, n) = Found(Append(t, Node(i, n)), Len(t) + 1)
<1> DEFINE new == Append(t, Node(i, n))
           q   == Append(PathOf(t, i), n)
<1>1. AddChild(t, i, n) = Found(new, Len(t) + 1)
  BY DEF AddChild
<1>2. PathOf(t, i) \in Seq(S)
  BY PathOfIsPath
<1>3. Walk(t, q)[Len(q)] = AddChild(t, i, n)
  <2>1. Walk(t, PathOf(t, i))[Len(PathOf(t, i))] = Found(t, i)
    BY WalkToNode
  <2>2. Found(t, i).tree = t /\ Found(t, i).node = i
    BY DEF Found
  <2> QED
    BY <1>2, <2>1, <2>2, WalkOfAppend
<1>4. new # t
  <2>1. Len(new) = Len(t) + 1 /\ Len(t) \in Nat
    BY DEF Tree
  <2> QED
    BY <2>1
<1>5. Found(new, Len(t) + 1).tree = new
  BY DEF Found
<1> QED
  BY <1>1, <1>3, <1>4, <1>5 DEF DirAdd, InsertAtParent

(* Adding the path of a node that is there already is refused. *)
THEOREM NoDirTwice ==
  ASSUME NEW S, NEW t \in Tree(S), WellFormed(t), NEW i \in Nodes(t)
  PROVE  DirAdd(t, PathOf(t, i)) = Found(t, NoNode)
<1>1. Walk(t, PathOf(t, i))[Len(PathOf(t, i))] = Found(t, i)
  BY WalkToNode
<1> QED
  BY <1>1 DEF DirAdd, Found

----------------------------------------------------------------------------
(* What a lookup or an insertion returns is a node of the tree returned,   *)
(* and the tree keeps its shape.                                           *)
LEMMA AddChildType ==
  ASSUME NEW S, NEW t \in Tree(S), NEW p \in Nodes(t), NEW n \in S
  PROVE  LET r == AddChild(t, p, n)
         IN  /\ r.tree \in Tree(S)
             /\ r.node \in 1 .. Len(r.tree)
             /\ WellFormed(t) => WellFormed(r.tree)
<1>1. Len(t) \in Nat /\ p \in Nat /\ p \in 0 .. Len(t)
  BY DEF Tree, Nodes
<1>2. CASE Siblings(t, p, n) # {}
  <2>1. AddChild(t, p, n).tree = t /\ AddChild(t, p, n).node \in Siblings(t, p, n)
    BY <1>2 DEF AddChild, Found
  <2> QED
    BY <2>1 DEF Siblings
<1>3. CASE Siblings(t, p, n) = {}
  <2> DEFINE new == Append(t, Node(p, n))
  <2>1. AddChild(t, p, n).tree = new /\ AddChild(t, p, n).node = Len(t) + 1
    BY <1>3 DEF AddChild, Found
  <2>2. Node(p, n) \in [parent : Nat, name : S]
    BY <1>1 DEF Node
  <2>3. new \in Tree(S) /\ Len(new) = Len(t) + 1
    BY <2>2 DEF Tree
  <2>4. /\ \A i \in 1 .. Len(t) : new[i] = t[i]
        /\ new[Len(t) + 1] = Node(p, n)
    BY DEF Tree
  <2>5. \A i \in 1 .. Len(t) : t[i] # Node(p, n)
    BY <1>3 DEF Siblings
  <2>6. ASSUME WellFormed(t) PROVE WellFormed(new)
    <3> HIDE DEF new
    <3>1. ASSUME NEW i \in 1 .. Len(new) PROVE new[i].parent \in 0 .. i - 1
      <4>1. CASE i \in 1 .. Len(t)
        BY <4>1, <2>4, <2>6 DEF WellFormed
      <4>2. CASE i = Len(t) + 1
        BY <4>2, <2>4, <1>1 DEF Node
      <4> QED
        BY <4>1, <4>2, <2>3, <1>1
    <3>2. ASSUME NEW i \in 1 .. Len(new), NEW j \in 1 .. Len(new), new[i] = new[j]
          PROVE  i = j
      <4>1. \A k \in 1 .. Len(new) : k \in 1 .. Len(t) \/ k = Len(t) + 1
        BY <2>3, <1>1
      <4> QED
        BY <4>1, <3>2, <2>4, <2>5, <2>6 DEF WellFormed
    <3> QED
      BY <3>1, <3>2 DEF WellFormed
  <2> QED
    BY <2>1, <2>3, <2>6, <1>1
<1> QED
  BY <1>2, <1>3

LEMMA DirAddType ==
  ASSUME NEW S, NEW t \in Tree(S), NEW path \in Seq(S), path # <<>>
  PROVE  LET r == DirAdd(t, path)
         IN  /\ r.tree \in Tree(S)
             /\ r.node # NoNode => r.node \in 1 .. Len(r.tree)
<1> DEFINE W == Walk(t, path)
           Good(k) == /\ W[k].tree \in Tree(S)
                      /\ W[k].node \in Nodes(W[k].tree)
                      /\ k # 0 => W[k].node \in 1 .. Len(W[k].tree)
           Bad == {k \in 0 .. Len(path) : ~Good(k)}
<1>1. Len(path) \in Nat \ {0}
  OBVIOUS
<1>2. \A k \in 0 .. Len(path) : W[k] = WalkStep(t, path, W, k)
  <2>1. W = [k \in 0 .. Len(path) |-> WalkStep(t, path, W, k)]
    BY <1>1, WalkEquation
  <2>2. \A f : f = [k \in 0 .. Len(path) |-> WalkStep(t, path, f, k)] =>
          \A k \in 0 .. Len(path) : f[k] = WalkStep(t, path, f, k)
    OBVIOUS
  <2> HIDE DEF W
  <2> QED
    BY <2>1, <2>2
<1> HIDE DEF W
<1>3. Bad = {}
  <2>1. SUFFICES ASSUME Bad # {} PROVE FALSE
    OBVIOUS
  <2>2. PICK m \in Bad : \A k \in Bad : m <= k
    <3>1. Bad \subseteq Nat
      BY <1>1
    <3> HIDE DEF Bad
    <3> QED
      BY <2>1, <3>1, LeastNat
  <2>3. m \in 0 .. Len(path) /\ ~Good(m)
    OBVIOUS
  <2>4. CASE m = 0
    <3>1. W[m] = Found(t, Root)
      BY <2>3, <2>4, <1>2 DEF WalkStep
    <3> QED
      BY <3>1, <2>3, <2>4 DEF Found, Nodes, Root, Tree
  <2>5. CASE m # 0
    <3>1. m - 1 \in 0 .. Len(path) /\ m \in 1 .. Len(path) /\ ~(m <= m - 1)
      BY <2>3, <2>5, <1>1
    <3>2. Good(m - 1)
      <4>1. m - 1 \notin Bad
        <5> HIDE DEF Bad
        <5> QED
          BY <2>2, <3>1
      <4> QED
        BY <4>1, <3>1
    <3>3. path[m] \in S
      BY <3>1, ElementOfSeq
    <3>4. W[m] = AddChild(W[m - 1].tree, W[m - 1].node, path[m])
      BY <2>3, <2>5, <1>2 DEF WalkStep
    <3>5. W[m].tree \in Tree(S) /\ W[m].node \in 1 .. Len(W[m].tree)
      BY <3>2, <3>3, <3>4, AddChildType
    <3>6. W[m].node \in Nodes(W[m].tree)
      BY <3>5 DEF Nodes, Tree
    <3> QED
      BY <3>5, <3>6, <2>3
  <2> QED
    BY <2>4, <2>5
<1>4. Good(Len(path))
  BY <1>1, <1>3
<1> QED
  BY <1>1, <1>4 DEF DirAdd, Found, W

----------------------------------------------------------------------------
(* A tree that goes on from another has the same paths to its nodes. *)
LEMMA SamePaths ==
  ASSUME NEW S, NEW t \in Tree(S), NEW u \in Tree(S), WellFormed(t), WellFormed(u),
         Len(t) <= Len(u), \A i \in 1 .. Len(t) : u[i] = t[i]
  PROVE  \A i \in Nodes(t) : PathOf(u, i) = PathOf(t, i)
<1> DEFINE Bad == {i \in Nodes(t) : PathOf(u, i) # PathOf(t, i)}
<1>1. Len(t) \in Nat /\ Len(u) \in Nat
  BY DEF Tree
<1>2. SUFFICES ASSUME Bad # {} PROVE FALSE
  OBVIOUS
<1>3. PICK m \in Bad : \A k \in Bad : m <= k
  <2>1. Bad \subseteq Nat
    BY <1>1 DEF Nodes
  <2> HIDE DEF Bad
  <2> QED
    BY <1>2, <2>1, LeastNat
<1>4. m \in Nodes(t) /\ m \in Nodes(u) /\ PathOf(u, m) # PathOf(t, m)
  BY <1>1, <1>3 DEF Nodes
<1>5. CASE m = Root
  BY <1>4, <1>5, PathOfNode
<1>6. CASE m # Root
  <2>1. m \in 1 .. Len(t) /\ u[m] = t[m]
    BY <1>1, <1>4, <1>6 DEF Nodes, Root
  <2>2. t[m].parent \in 0 .. m - 1
    BY <2>1 DEF WellFormed
  <2>3. t[m].parent \in Nodes(t) /\ ~(m <= t[m].parent)
    BY <1>1, <2>1, <2>2 DEF Nodes
  <2>4. PathOf(u, t[m].parent) = PathOf(t, t[m].parent)
    <3>1. t[m].parent \notin Bad
      <4> HIDE DEF Bad
      <4> QED
        BY <1>3, <2>3
    <3> QED
      BY <3>1, <2>3
  <2>5. PathOf(t, m) = Append(PathOf(t, t[m].parent), t[m].name)
    BY <1>4, <1>6, PathOfNode
  <2>6. PathOf(u, m) = Append(PathOf(u, u[m].parent), u[m].name)
    BY <1>4, <1>6, PathOfNode
  <2> QED
    BY <1>4, <2>1, <2>4, <2>5, <2>6
<1> QED
  BY <1>5, <1>6

(* The beginning of a tree. *)
LEMMA Beginning ==
  ASSUME NEW S, NEW t \in Tree(S), WellFormed(t), NEW m \in 0 .. Len(t)
  PROVE  LET b == SubSeq(t, 1, m)
         IN  /\ b \in Tree(S) /\ WellFormed(b) /\ Len(b) = m
             /\ \A i \in 1 .. m : b[i] = t[i]
             /\ \A i \in 0 .. m : PathOf(b, i) = PathOf(t, i)
<1> DEFINE b == SubSeq(t, 1, m)
<1>1. t \in Seq([parent : Nat, name : S]) /\ Len(t) \in Nat
  BY DEF Tree
<1>2. b \in Seq([parent : Nat, name : S]) /\ Len(b) = m /\ \A i \in 1 .. m : b[i] = t[i]
  <2>1. ASSUME NEW i \in 1 .. m PROVE t[i] \in [parent : Nat, name : S]
    <3>1. i \in 1 .. Len(t)
      BY <1>1
    <3> QED
      BY <1>1, <3>1, ElementOfSeq
  <2>2. m \in Nat /\ 1 \in Int /\ m \in Int
    BY <1>1
  <2>3. /\ b \in Seq([parent : Nat, name : S])
        /\ Len(b) = IF 1 <= m THEN m - 1 + 1 ELSE 0
        /\ \A i \in 1 .. m - 1 + 1 : b[i] = t[1 + i - 1]
    BY ONLY <2>1, <2>2, SubSeqProperties
  <2> HIDE DEF b
  <2>4. Len(b) = m
    BY <2>2, <2>3
  <2>5. ASSUME NEW i \in 1 .. m PROVE b[i] = t[i]
    <3>1. i \in 1 .. m - 1 + 1 /\ 1 + i - 1 = i
      BY <2>2
    <3> QED
      BY <2>3, <3>1
  <2> QED
    BY <2>3, <2>4, <2>5
<1> HIDE DEF b
<1>3. WellFormed(b)
  <2>1. \A i \in 1 .. Len(b) : i \in 1 .. Len(t) /\ b[i] = t[i]
    BY <1>1, <1>2
  <2> QED
    BY <2>1 DEF WellFormed
<1>4. b \in Tree(S)
  BY <1>2 DEF Tree
<1>5. \A i \in 0 .. m : PathOf(b, i) = PathOf(t, i)
  <2>1. Nodes(b) = 0 .. m
    BY <1>2 DEF Nodes
  <2>2. Len(b) <= Len(t) /\ \A i \in 1 .. Len(b) : t[i] = b[i]
    BY <1>1, <1>2
  <2>3. \A i \in Nodes(b) : PathOf(t, i) = PathOf(b, i)
    BY <1>3, <1>4, <2>2, SamePaths
  <2> QED
    BY <2>1, <2>3
<1> QED
  BY <1>2, <1>3, <1>4, <1>5 DEF b

(* The reader's insertion of the next node of the writer's tree. *)
LEMMA InsertNext ==
  ASSUME NEW S, NEW t \in Tree(S), WellFormed(t), NEW m \in 1 .. Len(t)
  PROVE  InsertAtParent(SubSeq(t, 1, m - 1), t[m].parent, t[m].name)
           = Found(SubSeq(t, 1, m), m)
<1> DEFINE b == SubSeq(t, 1, m - 1)
           p == t[m].parent
           n == t[m].name
<1>1. t \in Seq([parent : Nat, name : S]) /\ Len(t) \in Nat /\ m - 1 \in 0 .. Len(t)
  BY DEF Tree
<1>2. Len(b) = m - 1 /\ \A i \in 1 .. m - 1 : b[i] = t[i]
  BY <1>1, Beginning
<1>3. t[m] = Node(p, n)
  BY NodeType
<1>4. p \in 0 .. m - 1
  BY DEF WellFormed
<1>5. Siblings(b, p, n) = {}
  <2> SUFFICES ASSUME NEW i \in 1 .. Len(b), b[i] = Node(p, n) PROVE FALSE
    BY DEF Siblings
  <2>1. i \in 1 .. Len(t) /\ t[i] = t[m] /\ i # m
    BY <1>1, <1>2, <1>3
  <2> QED
    BY <2>1 DEF WellFormed
<1>6. Append(b, t[m]) = SubSeq(t, 1, m)
  <2> HIDE DEF p, n
  <2> QED
    BY <1>1, <1>2
<1>7. p \in Nodes(b) /\ Len(b) + 1 = m
  BY <1>2, <1>4 DEF Nodes
<1> QED
  BY <1>3, <1>5, <1>6, <1>7 DEF InsertAtParent, AddChild

(* The writer adds a node at the end, or finds that it is there. *)
LEMMA AddsAtEnd ==
  ASSUME NEW S, NEW t \in Tree(S), WellFormed(t), NEW i \in Nodes(t), NEW n \in S,
         DirAdd(t, Append(PathOf(t, i), n)).node # NoNode
  PROVE  LET u == Append(t, Node(i, n))
         IN  /\ DirAdd(t, Append(PathOf(t, i), n)) = Found(u, Len(t) + 1)
             /\ u \in Tree(S) /\ WellFormed(u) /\ Len(u) = Len(t) + 1
             /\ u[Len(t) + 1] = Node(i, n)
             /\ \A j \in 1 .. Len(t) : u[j] = t[j]
             /\ \A j \in Nodes(t) : PathOf(u, j) = PathOf(t, j)
             /\ PathOf(u, Len(t) + 1) = Append(PathOf(t, i), n)
<1> DEFINE u == Append(t, Node(i, n))
<1>1. t \in Seq([parent : Nat, name : S]) /\ Len(t) \in Nat /\ i \in 0 .. Len(t)
  BY DEF Tree, Nodes
<1>2. Siblings(t, i, n) = {}
  <2> SUFFICES ASSUME NEW j \in 1 .. Len(t), t[j] = Node(i, n) PROVE FALSE
    BY DEF Siblings
  <2>1. j \in Nodes(t) /\ j # Root
    BY <1>1 DEF Nodes, Root
  <2>2. PathOf(t, j) = Append(PathOf(t, i), n)
    BY <2>1, PathOfNode DEF Node
  <2>3. DirAdd(t, PathOf(t, j)) = Found(t, NoNode)
    BY <2>1, NoDirTwice
  <2> QED
    BY <2>2, <2>3 DEF Found
<1>3. DirAdd(t, Append(PathOf(t, i), n)) = Found(u, Len(t) + 1)
  BY <1>2, SameNumbering
<1>4. AddChild(t, i, n) = Found(u, Len(t) + 1)
  BY <1>2 DEF AddChild
<1>5. u \in Tree(S) /\ WellFormed(u)
  <2>1. AddChild(t, i, n).tree = u
    BY <1>4 DEF Found
  <2> HIDE DEF u
  <2> QED
    BY <2>1, AddChildType
<1>6. Len(u) = Len(t) + 1 /\ u[Len(t) + 1] = Node(i, n) /\ \A j \in 1 .. Len(t) : u[j] = t[j]
  <2>1. Node(i, n) \in [parent : Nat, name : S]
    BY <1>1 DEF Node
  <2> QED
    BY ONLY <1>1, <2>1, AppendProperties
<1> HIDE DEF u
<1>7. \A j \in Nodes(t) : PathOf(u, j) = PathOf(t, j)
  BY <1>1, <1>5, <1>6, SamePaths
<1>8. PathOf(u, Len(t) + 1) = Append(PathOf(t, i), n)
  <2>1. Len(t) + 1 \in Nodes(u) /\ Len(t) + 1 # Root
    BY <1>1, <1>6 DEF Nodes, Root
  <2>2. PathOf(u, Len(t) + 1) = Append(PathOf(u, i), n)
    BY <1>5, <1>6, <2>1, PathOfNode DEF Node
  <2> QED
    BY <1>7, <2>2
<1> QED
  BY <1>3, <1>5, <1>6, <1>7, <1>8 DEF u

----------------------------------------------------------------------------
(* Sizes. *)
SizeStep(s, f, k) == IF k = 0 THEN 0 ELSE f[k - 1] + Bytes(s[k])

LEMMA SizesExist ==
  ASSUME NEW s, NEW n \in Nat
  PROVE  \E f : f = [k \in 0 .. n |-> SizeStep(s, f, k)]
<1> DEFINE Solves(f, b) == f = [k \in 0 .. b |-> SizeStep(s, f, k)]
           Bad == {b \in Nat : ~\E f : Solves(f, b)}
<1>1. SUFFICES ASSUME Bad # {} PROVE FALSE
  OBVIOUS
<1>2. PICK m \in Bad : \A b \in Bad : m <= b
  <2>1. Bad \subseteq Nat
    OBVIOUS
  <2> HIDE DEF Bad
  <2> QED
    BY <2>1, <1>1, LeastNat
<1>3. CASE m = 0
  <2>1. Solves([k \in 0 .. 0 |-> 0], 0)
    BY DEF SizeStep
  <2> QED
    BY <2>1, <1>3
<1>4. CASE m # 0
  <2>1. m \in Nat \ {0} /\ m - 1 \in Nat /\ ~(m <= m - 1)
    BY <1>4
  <2>2. m - 1 \notin Bad
    <3> HIDE DEF Bad
    <3> QED
      BY <1>2, <2>1
  <2>3. PICK g : Solves(g, m - 1)
    BY <2>1, <2>2
  <2> DEFINE h == [k \in 0 .. m |-> SizeStep(s, g, k)]
  <2>4. \A k \in 0 .. m - 1 : h[k] = g[k]
    <3>1. \A k \in 0 .. m - 1 : g[k] = SizeStep(s, g, k)
      BY <2>3
    <3> QED
      BY <3>1, <2>1
  <2>5. \A k \in 0 .. m : SizeStep(s, g, k) = SizeStep(s, h, k)
    <3> TAKE k \in 0 .. m
    <3>1. CASE k = 0
      BY <3>1 DEF SizeStep
    <3>2. CASE k # 0
      <4>1. k - 1 \in 0 .. m - 1
        BY <3>2, <2>1
      <4>2. h[k - 1] = g[k - 1]
        BY <4>1, <2>4
      <4> HIDE DEF h
      <4> QED
        BY <4>2, <3>2 DEF SizeStep
    <3> QED
      BY <3>1, <3>2
  <2>6. Solves(h, m)
    BY <2>5
  <2> QED
    BY <2>6
<1> QED
  BY <1>3, <1>4

LEMMA UnitBytes ==
  ASSUME NEW u \in Unit
  PROVE  Bytes(u) \in Nat
  BY ChunkAssumption DEF Unit, Bytes

(* The size of a payload is a number. *)
LEMMA TotalBytesType ==
  ASSUME NEW s \in Seq(Unit)
  PROVE  TotalBytes(s) \in Nat
<1> DEFINE f == CHOOSE g : g = [k \in 0 .. Len(s) |-> SizeStep(s, g, k)]
           Bad == {k \in 0 .. Len(s) : f[k] \notin Nat}
<1>1. Len(s) \in Nat
  OBVIOUS
<1>2. f = [k \in 0 .. Len(s) |-> SizeStep(s, f, k)]
  <2>1. PICK g : g = [k \in 0 .. Len(s) |-> SizeStep(s, g, k)]
    BY <1>1, SizesExist
  <2> QED
    BY <2>1
<1>3. \A k \in 0 .. Len(s) : f[k] = SizeStep(s, f, k)
  <2>1. \A g : g = [k \in 0 .. Len(s) |-> SizeStep(s, g, k)] =>
          \A k \in 0 .. Len(s) : g[k] = SizeStep(s, g, k)
    OBVIOUS
  <2> HIDE DEF f
  <2> QED
    BY <1>2, <2>1
<1>4. TotalBytes(s) = f[Len(s)]
  BY DEF TotalBytes, SizeStep
<1> HIDE DEF f
<1>5. Bad = {}
  <2>1. SUFFICES ASSUME Bad # {} PROVE FALSE
    OBVIOUS
  <2>2. PICK m \in Bad : \A k \in Bad : m <= k
    <3>1. Bad \subseteq Nat
      BY <1>1
    <3> HIDE DEF Bad
    <3> QED
      BY <2>1, <3>1, LeastNat
  <2>3. m \in 0 .. Len(s) /\ f[m] \notin Nat
    OBVIOUS
  <2>4. CASE m = 0
    BY <2>3, <2>4, <1>3 DEF SizeStep
  <2>5. CASE m # 0
    <3>1. m - 1 \in 0 .. Len(s) /\ m \in 1 .. Len(s) /\ ~(m <= m - 1)
      BY <2>3, <2>5, <1>1
    <3>2. m - 1 \notin Bad
      <4> HIDE DEF Bad
      <4> QED
        BY <2>2, <3>1
    <3>3. Bytes(s[m]) \in Nat
      BY <3>1, ElementOfSeq, UnitBytes
    <3> QED
      BY <2>3, <2>5, <3>1, <3>2, <3>3, <1>3 DEF SizeStep
  <2> QED
    BY <2>4, <2>5
<1> QED
  BY <1>1, <1>4, <1>5

----------------------------------------------------------------------------
(* Small facts about the values that are built. *)
LEMMA UnitValues ==
  /\ \A c \in Chunk : Raw(c) \in Unit /\ Enc(c) \in Unit
  /\ \A u \in Unit : Decoded(u) \in Unit /\ Damaged(u) \in Unit
  BY DEF Unit, Raw, Enc, Decoded, Damaged

LEMMA MappedSeq ==
  ASSUME NEW S, NEW T, NEW s \in Seq(S), NEW f \in [S -> T]
  PROVE  [k \in 1 .. Len(s) |-> f[s[k]]] \in Seq(T)
<1>1. Len(s) \in Nat /\ \A k \in 1 .. Len(s) : s[k] \in S
  BY ElementOfSeq
<1> QED
  BY <1>1

LEMMA RawUnitsType ==
  ASSUME NEW chunks \in Seq(Chunk)
  PROVE  RawUnits(chunks) \in Seq(Unit)
<1>1. \A k \in 1 .. Len(chunks) : Raw(chunks[k]) \in Unit
  BY ElementOfSeq, UnitValues
<1> QED
  BY <1>1 DEF RawUnits

LEMMA DecodedAllType ==
  ASSUME NEW units \in Seq(Unit)
  PROVE  DecodedAll(units) \in Seq(Unit)
<1>1. \A k \in 1 .. Len(units) : Decoded(units[k]) \in Unit
  BY ElementOfSeq, UnitValues
<1> QED
  BY <1>1 DEF DecodedAll

LEMMA HeaderCrcType ==
  ASSUME NEW type \in Types, NEW comp \in Comps, NEW path \in Path
  PROVE  /\ HeaderCrc(type, comp, path) \in Crc
         /\ \A n \in Nat : [HeaderCrc(type, comp, path) EXCEPT !.num = n] \in Crc
<1>1. <<>> \in Seq(Unit)
  OBVIOUS
<1> HIDE DEF Unit, Types, Comps, Path
<1>2. HeaderCrc(type, comp, path) \in Crc
  BY <1>1 DEF HeaderCrc, Crc
<1>3. ASSUME NEW n \in Nat
      PROVE  [HeaderCrc(type, comp, path) EXCEPT !.num = n] \in Crc
  BY <1>2 DEF Crc
<1> QED
  BY <1>2, <1>3

LEMMA CrcUpdates ==
  ASSUME NEW c \in Crc
  PROVE  /\ \A n \in Nat : [c EXCEPT !.num = n] \in Crc
         /\ \A n \in Nat, d \in Seq(Unit) : [c EXCEPT !.num = n, !.data = d] \in Crc
         /\ \A u \in Unit : [c EXCEPT !.data = Append(@, u)] \in Crc
         /\ \A b \in BOOLEAN : [c EXCEPT !.ok = b] \in Crc
<1>1. c.data \in Seq(Unit)
  BY DEF Crc
<1>2. \A n \in Nat : [c EXCEPT !.num = n] \in Crc
  BY DEF Crc
<1>3. \A n \in Nat, d \in Seq(Unit) : [c EXCEPT !.num = n, !.data = d] \in Crc
  BY DEF Crc
<1>4. \A d \in Seq(Unit) : [c EXCEPT !.data = d] \in Crc
  BY DEF Crc
<1>5. \A u \in Unit : Append(c.data, u) \in Seq(Unit)
  BY <1>1
<1>6. \A u \in Unit : [c EXCEPT !.data = Append(@, u)] = [c EXCEPT !.data = Append(c.data, u)]
  OBVIOUS
<1>7. \A b \in BOOLEAN : [c EXCEPT !.ok = b] \in Crc
  BY DEF Crc
<1> QED
  BY <1>2, <1>3, <1>4, <1>5, <1>6, <1>7

LEMMA EntryUpdates ==
  ASSUME NEW e \in Entry
  PROVE  /\ \A n \in Nat : [e EXCEPT !.num = n] \in Entry
         /\ \A c \in Comps : [e EXCEPT !.comp = c] \in Entry
         /\ \A u \in Unit : [e EXCEPT !.data = Append(@, u)] \in Entry
         /\ \A c \in Crc : [e EXCEPT !.crc = c] \in Entry
         /\ \A n \in Path \ {<<>>} : [e EXCEPT !.name = n] \in Entry
         /\ \A d \in Seq(Unit) : [e EXCEPT !.data = d, !.crc = NoCrc] \in Entry
         /\ \A d \in Seq(Unit) : [e EXCEPT !.data = d] \in Entry
         /\ [e EXCEPT !.num = Unwritten, !.data = <<>>, !.crc = NoCrc] \in Entry
<1>1. e.data \in Seq(Unit) /\ <<>> \in Seq(Unit)
  BY DEF Entry
<1>2. \A n \in Nat : [e EXCEPT !.num = n] \in Entry
  BY DEF Entry
<1>3. \A c \in Comps : [e EXCEPT !.comp = c] \in Entry
  BY DEF Entry
<1>4. \A c \in Crc : [e EXCEPT !.crc = c] \in Entry
  BY DEF Entry
<1>5. \A n \in Path \ {<<>>} : [e EXCEPT !.name = n] \in Entry
  BY DEF Entry
<1>6. \A d \in Seq(Unit) : [e EXCEPT !.data = d, !.crc = NoCrc] \in Entry
  BY DEF Entry
<1>7. \A d \in Seq(Unit) : [e EXCEPT !.data = d] \in Entry
  BY DEF Entry
<1>8. [e EXCEPT !.num = Unwritten, !.data = <<>>, !.crc = NoCrc] \in Entry
  BY <1>1 DEF Entry
<1>9. \A u \in Unit : Append(e.data, u) \in Seq(Unit)
  BY <1>1
<1>10. \A u \in Unit : [e EXCEPT !.data = Append(@, u)] = [e EXCEPT !.data = Append(e.data, u)]
  OBVIOUS
<1> QED
  BY <1>2, <1>3, <1>4, <1>5, <1>6, <1>7, <1>8, <1>9, <1>10

----------------------------------------------------------------------------
InEntry == wpc \in {"size", "compress", "copy", "crc"}

WriterFacts == InEntry => wpos < Len(input) /\ arc # <<>>

ReaderFacts ==
  /\ WellFormed(rtree)
  /\ rpc # "idle" => WEnded
  /\ rpc \in {"ask", "data", "mkdir", "crc"} =>
       Len(rlog) < Len(arc) /\ Reading.num # Unwritten
  /\ rpc \in {"ask", "data"} => Reading.type = "file"
  /\ rpc = "mkdir" => Reading.type # "file"
  /\ rpc \in {"data", "crc"} /\ mode = "extract" /\ Reading.type = "file" =>
       rfn \in DOMAIN files

TypeInv == ATypeOK /\ WriterFacts /\ ReaderFacts

LEMMA TypeInit == Init => TypeInv
<1> SUFFICES ASSUME Init PROVE TypeInv
  OBVIOUS
<1>1. HeaderCrc("dir", "stored", <<>>) \in Crc
  <2>1. "dir" \in Types /\ "stored" \in Comps /\ <<>> \in Path
    BY DEF Types, Comps, Path
  <2> QED
    BY <2>1, HeaderCrcType
<1>2. input \in Seq(Source) /\ Len(input) \in Nat
  BY InputsAssumption DEF Init, WInit
<1>3. WTypeOK
  BY <1>1, <1>2 DEF Init, WInit, WTypeOK, FormatTypeOK, WPhases, Path, Nodes, Root
<1>4. RTypeOK
  <2>1. PICK d \in Disks : files = d.files /\ dirs = d.dirs
    BY DEF Init, RInit
  <2> QED
    BY <1>1, <2>1, ModesAssumption, DisksAssumption
       DEF Init, RInit, RTypeOK, RPhases, Path, Nodes, Root
<1>5. WriterFacts /\ ReaderFacts
  BY DEF Init, WInit, RInit, WriterFacts, InEntry, ReaderFacts, WellFormed
<1> QED
  BY <1>3, <1>4, <1>5 DEF TypeInv, ATypeOK, Init

----------------------------------------------------------------------------
(* The writer. *)
LEMMA CurrentType ==
  ASSUME TypeInv, wpos < Len(input)
  PROVE  /\ Current \in Source /\ Current.chunks \in Seq(Chunk)
         /\ Current.path \in Path /\ Current.path # <<>>
<1>1. input \in Seq(Source) /\ wpos \in 0 .. Len(input) /\ Len(input) \in Nat
  BY DEF TypeInv, ATypeOK, WTypeOK
<1>2. input[wpos + 1] \in Source
  BY <1>1, ElementOfSeq
<1> QED
  BY <1>2 DEF Current, Source

LEMMA LastType ==
  ASSUME TypeInv, arc # <<>>
  PROVE  /\ Last \in 1 .. Len(arc)
         /\ arc[Last] \in Entry
         /\ \A e \in Entry : /\ [arc EXCEPT ![Last] = e] \in Seq(Entry)
                             /\ [arc EXCEPT ![Last] = e] # <<>>
<1>1. arc \in Seq(Entry) /\ Len(arc) \in Nat \ {0}
  BY EmptySeq DEF TypeInv, ATypeOK, WTypeOK, FormatTypeOK
<1>2. Last \in 1 .. Len(arc)
  BY <1>1 DEF Last
<1>3. \A e \in Entry : /\ [arc EXCEPT ![Last] = e] \in Seq(Entry)
                       /\ Len([arc EXCEPT ![Last] = e]) = Len(arc)
  BY <1>1, <1>2, ExceptSeq
<1>4. \A e : Len([arc EXCEPT ![Last] = e]) = Len(arc) => [arc EXCEPT ![Last] = e] # <<>>
  BY <1>1, EmptySeq
<1> QED
  BY <1>1, <1>2, <1>3, <1>4, ElementOfSeq

(* What a step of the writer leaves as it is. *)
LEMMA WriterFrame ==
  ASSUME TypeInv, ~WEnded, UNCHANGED rvars, UNCHANGED <<faults, before>>,
         WTypeOK', WriterFacts'
  PROVE  TypeInv'
<1>1. rpc = "idle"
  BY DEF TypeInv, ReaderFacts
<1>2. RTypeOK'
  BY DEF TypeInv, ATypeOK, RTypeOK, rvars
<1>3. ReaderFacts'
  BY <1>1 DEF TypeInv, ReaderFacts, rvars
<1> QED
  BY <1>2, <1>3 DEF TypeInv, ATypeOK

LEMMA TypeWriteDir ==
  ASSUME TypeInv, WriteDir
  PROVE  WTypeOK' /\ WriterFacts'
<1> USE DEF TypeInv, ATypeOK
<1> DEFINE added == DirAdd(wtree, Current.path)
           node  == added.tree[added.node]
           type  == IF node.parent = Root THEN "dir" ELSE "subdir"
<1>1. wpos < Len(input) /\ wpc = "entry"
  BY DEF WriteDir
<1>2. CASE added.node = NoNode
  BY <1>1, <1>2 DEF WriteDir, GiveUp, WTypeOK, FormatTypeOK, WPhases, WriterFacts, InEntry
<1>3. CASE added.node # NoNode
  <2>1. Current.path \in Seq(Name) /\ Current.path # <<>> /\ wtree \in Tree(Name)
    BY <1>1, CurrentType DEF WTypeOK, Path, Tree
  <2>2. added.tree \in Tree(Name) /\ added.node \in 1 .. Len(added.tree)
    BY <1>3, <2>1, DirAddType
  <2>3. node.parent \in Nat /\ node.name \in Name
    BY <2>2, NodeType
  <2>4. type \in Types /\ "stored" \in Comps
    BY DEF Types, Comps
  <2>5. [HeaderCrc(type, "stored", Current.path) EXCEPT !.num = node.parent] \in Crc
    BY <2>1, <2>3, <2>4, HeaderCrcType DEF Path
  <2>6. [type |-> type, comp |-> "stored", name |-> <<node.name>>,
         num |-> node.parent, data |-> <<>>, crc |-> NoCrc] \in Entry
    <3>1. <<node.name>> \in Path \ {<<>>} /\ <<>> \in Seq(Unit)
      BY <2>3 DEF Path
    <3> HIDE DEF type, node
    <3> QED
      BY <3>1, <2>3, <2>4 DEF Entry
  <2> HIDE DEF added, node, type
  <2>7. /\ wtree' = added.tree /\ wnode' = added.node /\ wdir' = Current.path
        /\ arc' = Append(arc, [type |-> type, comp |-> "stored", name |-> <<node.name>>,
                     num |-> node.parent, data |-> <<>>, crc |-> NoCrc])
        /\ wcrc' = [HeaderCrc(type, "stored", Current.path) EXCEPT !.num = node.parent]
        /\ wpc' = "crc"
        /\ UNCHANGED <<hdr, input, compress, wpos, wbuf, wcnt, wopen>>
    BY <1>3 DEF WriteDir, added, node, type
  <2>8. arc' \in Seq(Entry) /\ arc' # <<>>
    <3>1. arc \in Seq(Entry)
      BY DEF WTypeOK, FormatTypeOK
    <3>2. \A e \in Entry : Append(arc, e) \in Seq(Entry) /\ Len(Append(arc, e)) # 0
      BY <3>1
    <3> QED
      BY <3>2, <2>6, <2>7
  <2>9. wnode' \in Nodes(wtree') /\ wtree' \in Seq([parent : Nat, name : Name])
    BY <2>2, <2>7 DEF Nodes, Tree
  <2>10. wdir' \in Path /\ wcrc' \in Crc
    BY <2>1, <2>5, <2>7 DEF Path
  <2>11. WTypeOK'
    BY <2>7, <2>8, <2>9, <2>10 DEF WTypeOK, FormatTypeOK, WPhases
  <2> QED
    BY <1>1, <2>7, <2>8, <2>11 DEF WriterFacts
<1> QED
  BY <1>2, <1>3

LEMMA TypeWriteFileHeader ==
  ASSUME TypeInv, WriteFileHeader
  PROVE  WTypeOK' /\ WriterFacts'
<1> USE DEF TypeInv, ATypeOK
<1> DEFINE comp == IF compress THEN "compressed" ELSE "stored"
           name == SubSeq(Current.path, Len(wdir) + 1, Len(Current.path))
<1>1. wpos < Len(input) /\ wpc = "entry"
  BY DEF WriteFileHeader
<1>2. CASE ~InLastDir(Current.path)
  BY <1>1, <1>2 DEF WriteFileHeader, GiveUp, WTypeOK, FormatTypeOK, WPhases, WriterFacts, InEntry
<1>3. CASE InLastDir(Current.path)
  <2>1. Current.path \in Path /\ Current.chunks \in Seq(Chunk)
    BY <1>1, CurrentType
  <2>2. name \in Path \ {<<>>}
    <3>1. /\ Len(wdir) \in Nat /\ Len(Current.path) \in Nat
          /\ Len(wdir) < Len(Current.path)
      BY <1>3, <2>1 DEF InLastDir, WTypeOK, Path
    <3>2. \A i \in Len(wdir) + 1 .. Len(Current.path) : Current.path[i] \in Name
      BY <2>1, <3>1, ElementOfSeq DEF Path
    <3>3. name \in Seq(Name) /\ Len(name) = Len(Current.path) - (Len(wdir) + 1) + 1
      BY <3>1, <3>2, SubSeqProperties
    <3> HIDE DEF name
    <3>4. Len(name) # 0
      BY <3>1, <3>3
    <3> QED
      BY <3>3, <3>4, EmptySeq DEF Path
  <2>3. comp \in Comps /\ "file" \in Types
    BY DEF Comps, Types
  <2>4. HeaderCrc("file", comp, Current.path) \in Crc
    BY <2>1, <2>3, HeaderCrcType
  <2>5. RawUnits(Current.chunks) \in Seq(Unit) /\ <<>> \in Seq(Unit)
    BY <2>1, RawUnitsType
  <2> HIDE DEF comp, name
  <2>6. [type |-> "file", comp |-> comp, name |-> name, num |-> Unwritten,
         data |-> <<>>, crc |-> NoCrc] \in Entry
    BY <2>2, <2>3, <2>5 DEF Entry
  <2>7. /\ arc' = Append(arc, [type |-> "file", comp |-> comp, name |-> name,
                     num |-> Unwritten, data |-> <<>>, crc |-> NoCrc])
        /\ wcrc' = HeaderCrc("file", comp, Current.path)
        /\ wbuf' = IF compress THEN <<>> ELSE RawUnits(Current.chunks)
        /\ wcnt' = 0
        /\ wpc' = IF compress THEN "compress" ELSE "size"
        /\ wopen' = wopen \union (IF compress THEN {"src", "tmp"} ELSE {"src"})
        /\ UNCHANGED <<hdr, input, compress, wpos, wtree, wnode, wdir>>
    BY <1>3 DEF WriteFileHeader, comp, name
  <2>8. arc' \in Seq(Entry) /\ arc' # <<>>
    <3>1. arc \in Seq(Entry)
      BY DEF WTypeOK, FormatTypeOK
    <3>2. \A e \in Entry : Append(arc, e) \in Seq(Entry) /\ Len(Append(arc, e)) # 0
      BY <3>1
    <3> QED
      BY <3>2, <2>6, <2>7
  <2>9. wbuf' \in Seq(Unit) /\ wcrc' \in Crc
    BY <2>4, <2>5, <2>7
  <2>10. WTypeOK'
    BY <2>7, <2>8, <2>9 DEF WTypeOK, FormatTypeOK, WPhases
  <2> QED
    BY <1>1, <2>7, <2>8, <2>10 DEF WriterFacts
<1> QED
  BY <1>2, <1>3

LEMMA TypeCompress ==
  ASSUME TypeInv, CompressChunk \/ KeepCompressed \/ FallBackToStored
  PROVE  WTypeOK' /\ WriterFacts'
<1> USE DEF TypeInv, ATypeOK
<1>1. wpc = "compress" /\ wpos < Len(input) /\ arc # <<>>
  BY DEF CompressChunk, KeepCompressed, FallBackToStored, WriterFacts, InEntry
<1>2. /\ Current.chunks \in Seq(Chunk) /\ Current.path \in Path
      /\ RawUnits(Current.chunks) \in Seq(Unit)
  BY <1>1, CurrentType, RawUnitsType
<1>3. wbuf \in Seq(Unit) /\ wcrc \in Crc /\ wcnt \in Nat
  BY DEF WTypeOK
<1>4. TotalBytes(wbuf) \in Nat
  BY <1>3, TotalBytesType
<1>5. arc[Last] \in Entry /\ Last \in 1 .. Len(arc)
  BY <1>1, LastType
<1>6. \A e \in Entry : [arc EXCEPT ![Last] = e] \in Seq(Entry) /\ [arc EXCEPT ![Last] = e] # <<>>
  BY <1>1, LastType
<1>7. CASE CompressChunk
  <2>1. wcnt + 1 \in 1 .. Len(Current.chunks)
    BY <1>2, <1>3, <1>7 DEF CompressChunk
  <2>2. Enc(Current.chunks[wcnt + 1]) \in Unit
    BY <1>2, <2>1, ElementOfSeq, UnitValues
  <2>3. wbuf' \in Seq(Unit)
    BY <1>3, <1>7, <2>2 DEF CompressChunk
  <2> QED
    BY <1>1, <1>7, <2>3 DEF CompressChunk, WTypeOK, FormatTypeOK, WPhases, WriterFacts, InEntry
<1>8. CASE KeepCompressed
  <2>1. [arc[Last] EXCEPT !.num = TotalBytes(wbuf)] \in Entry
    BY <1>4, <1>5, EntryUpdates
  <2>2. arc' = [arc EXCEPT ![Last] = [arc[Last] EXCEPT !.num = TotalBytes(wbuf)]]
    BY <1>8 DEF KeepCompressed
  <2>3. wcrc' \in Crc
    BY <1>3, <1>4, <1>8, CrcUpdates DEF KeepCompressed
  <2>4. arc' \in Seq(Entry) /\ arc' # <<>>
    BY <1>6, <2>1, <2>2
  <2> QED
    BY <1>1, <1>8, <2>3, <2>4
       DEF KeepCompressed, WTypeOK, FormatTypeOK, WPhases, WriterFacts, InEntry
<1>9. CASE FallBackToStored
  <2>1. "stored" \in Comps /\ "file" \in Types
    BY DEF Comps, Types
  <2>2. [arc[Last] EXCEPT !.comp = "stored"] \in Entry
    BY <1>5, <2>1, EntryUpdates
  <2>3. arc' = [arc EXCEPT ![Last] = [arc[Last] EXCEPT !.comp = "stored"]]
    BY <1>9 DEF FallBackToStored
  <2>4. arc' \in Seq(Entry) /\ arc' # <<>>
    BY <1>6, <2>2, <2>3
  <2>5. HeaderCrc("file", "stored", Current.path) \in Crc
    BY <1>2, <2>1, HeaderCrcType
  <2> QED
    BY <1>1, <1>2, <1>9, <2>4, <2>5
       DEF FallBackToStored, WTypeOK, FormatTypeOK, WPhases, WriterFacts, InEntry
<1> QED
  BY <1>7, <1>8, <1>9

LEMMA TypePayload ==
  ASSUME TypeInv, WriteSize \/ CopyUnit \/ CopyEnd \/ WriteCrc
  PROVE  WTypeOK' /\ WriterFacts'
<1> USE DEF TypeInv, ATypeOK
<1>1. wpc \in {"size", "copy", "crc"} /\ wpos < Len(input) /\ arc # <<>>
  BY DEF WriteSize, CopyUnit, CopyEnd, WriteCrc, WriterFacts, InEntry
<1>2. wbuf \in Seq(Unit) /\ wcrc \in Crc /\ wcnt \in Nat
  BY DEF WTypeOK
<1>3. TotalBytes(wbuf) \in Nat
  BY <1>2, TotalBytesType
<1>4. arc[Last] \in Entry /\ Last \in 1 .. Len(arc)
  BY <1>1, LastType
<1>5. \A e \in Entry : [arc EXCEPT ![Last] = e] \in Seq(Entry) /\ [arc EXCEPT ![Last] = e] # <<>>
  BY <1>1, LastType
<1>6. CASE WriteSize
  <2>1. arc' = [arc EXCEPT ![Last] = [arc[Last] EXCEPT !.num = TotalBytes(wbuf)]]
    BY <1>6 DEF WriteSize
  <2>2. arc' \in Seq(Entry) /\ arc' # <<>>
    BY <1>3, <1>4, <1>5, <2>1, EntryUpdates
  <2>3. wcrc' \in Crc
    BY <1>2, <1>3, <1>6, CrcUpdates DEF WriteSize
  <2> QED
    BY <1>1, <1>6, <2>2, <2>3
       DEF WriteSize, WTypeOK, FormatTypeOK, WPhases, WriterFacts, InEntry
<1>7. CASE CopyUnit
  <2>1. wcnt + 1 \in 1 .. Len(wbuf)
    BY <1>2, <1>7 DEF CopyUnit
  <2>2. wbuf[wcnt + 1] \in Unit
    BY <1>2, <2>1, ElementOfSeq
  <2>3. [arc[Last] EXCEPT !.data = Append(@, wbuf[wcnt + 1])] \in Entry
    BY <1>4, <2>2, EntryUpdates
  <2>4. arc' = [arc EXCEPT ![Last] = [arc[Last] EXCEPT !.data = Append(@, wbuf[wcnt + 1])]]
    BY <1>7 DEF CopyUnit
  <2>5. arc' \in Seq(Entry) /\ arc' # <<>>
    BY <1>5, <2>3, <2>4
  <2>6. wcrc' \in Crc
    BY <1>2, <1>7, <2>2, CrcUpdates DEF CopyUnit
  <2> QED
    BY <1>1, <1>2, <1>7, <2>5, <2>6
       DEF CopyUnit, WTypeOK, FormatTypeOK, WPhases, WriterFacts, InEntry
<1>8. CASE CopyEnd
  BY <1>1, <1>8 DEF CopyEnd, WTypeOK, FormatTypeOK, WPhases, WriterFacts, InEntry
<1>9. CASE WriteCrc
  <2>1. arc' = [arc EXCEPT ![Last] = [arc[Last] EXCEPT !.crc = wcrc]]
    BY <1>9 DEF WriteCrc
  <2>2. arc' \in Seq(Entry)
    BY <1>2, <1>4, <1>5, <2>1, EntryUpdates
  <2>3. wpos' \in 0 .. Len(input) /\ input' = input
    BY <1>1, <1>9 DEF WriteCrc, WTypeOK
  <2> QED
    BY <1>9, <2>2, <2>3 DEF WriteCrc, WTypeOK, FormatTypeOK, WPhases, WriterFacts, InEntry
<1> QED
  BY <1>6, <1>7, <1>8, <1>9

LEMMA TypeWriter ==
  ASSUME TypeInv, WStep \/ WIoError
  PROVE  ~WEnded /\ WTypeOK' /\ WriterFacts'
<1> USE DEF TypeInv, ATypeOK
<1>1. CASE OpenArchive
  BY <1>1 DEF OpenArchive, WEnded, WTypeOK, FormatTypeOK, WPhases, WriterFacts, InEntry
<1>2. CASE WriteHeader
  <2>1. Len(input) \in Nat
    BY DEF WTypeOK
  <2> QED
    BY <1>2, <2>1 DEF WriteHeader, WEnded, WTypeOK, FormatTypeOK, WPhases, WriterFacts, InEntry
<1>3. CASE WriteDir
  BY <1>3, TypeWriteDir DEF WriteDir, WEnded
<1>4. CASE WriteFileHeader
  BY <1>4, TypeWriteFileHeader DEF WriteFileHeader, WEnded
<1>5. CASE CompressChunk \/ KeepCompressed \/ FallBackToStored
  BY <1>5, TypeCompress DEF CompressChunk, KeepCompressed, FallBackToStored, WEnded
<1>6. CASE WriteSize \/ CopyUnit \/ CopyEnd \/ WriteCrc
  BY <1>6, TypePayload DEF WriteSize, CopyUnit, CopyEnd, WriteCrc, WEnded
<1>7. CASE CloseArchive
  BY <1>7 DEF CloseArchive, WEnded, WTypeOK, FormatTypeOK, WPhases, WriterFacts, InEntry
<1>8. CASE WIoError
  BY <1>8 DEF WIoError, WEnded, WTypeOK, FormatTypeOK, WPhases, WriterFacts, InEntry
<1> QED
  BY <1>1, <1>2, <1>3, <1>4, <1>5, <1>6, <1>7, <1>8 DEF WStep

----------------------------------------------------------------------------
(* The reader. *)
LEMMA PlacedType ==
  ASSUME TypeInv, NEW e \in Entry, e.num # Unwritten, Placed(e).node # NoNode
  PROVE  /\ Placed(e).tree \in Tree(Name) /\ WellFormed(Placed(e).tree)
         /\ Placed(e).node \in Nodes(Placed(e).tree)
         /\ FullName(e, Placed(e)) \in Path
<1>1. /\ rtree \in Tree(Name) /\ WellFormed(rtree) /\ rnode \in Nodes(rtree)
  BY DEF TypeInv, ATypeOK, RTypeOK, ReaderFacts, Tree
<1>2. /\ e.type \in {"file", "dir", "subdir"} /\ e.num \in Nat
      /\ e.name \in Seq(Name) /\ e.name # <<>>
  BY DEF Entry, Types, Path
<1>3. e.name[1] \in Name
  BY <1>2, EmptySeq, ElementOfSeq
<1>4. ASSUME NEW p, InsertAtParent(rtree, p, e.name[1]).node # NoNode
      PROVE  LET r == InsertAtParent(rtree, p, e.name[1])
             IN  /\ r.tree \in Tree(Name) /\ WellFormed(r.tree)
                 /\ r.node \in Nodes(r.tree)
  <2>1. p \in Nodes(rtree)
    BY <1>4 DEF InsertAtParent, Found
  <2>2. InsertAtParent(rtree, p, e.name[1]) = AddChild(rtree, p, e.name[1])
    BY <2>1 DEF InsertAtParent
  <2> DEFINE r == AddChild(rtree, p, e.name[1])
  <2>3. r.tree \in Tree(Name) /\ r.node \in 1 .. Len(r.tree) /\ WellFormed(r.tree)
    BY <1>1, <1>3, <2>1, AddChildType
  <2>4. r.node \in Nodes(r.tree)
    BY <2>3 DEF Nodes, Tree
  <2> QED
    BY <2>2, <2>3, <2>4
<1>5. /\ Placed(e).tree \in Tree(Name) /\ WellFormed(Placed(e).tree)
      /\ Placed(e).node \in Nodes(Placed(e).tree)
  <2>1. CASE e.type = "subdir"
    <3>1. Placed(e) = InsertAtParent(rtree, e.num, e.name[1])
      BY <2>1 DEF Placed
    <3> QED
      BY <3>1, <1>4
  <2>2. CASE e.type = "dir"
    <3>1. Placed(e) = InsertAtParent(rtree, Root, e.name[1])
      BY <2>2 DEF Placed
    <3> QED
      BY <3>1, <1>4
  <2>3. CASE e.type = "file"
    <3>1. Placed(e) = Found(rtree, rnode)
      BY <2>3 DEF Placed
    <3> QED
      BY <3>1, <1>1 DEF Found
  <2> QED
    BY <1>2, <2>1, <2>2, <2>3
<1>6. PathOf(Placed(e).tree, Placed(e).node) \in Seq(Name)
  BY <1>5, PathOfIsPath
<1>7. FullName(e, Placed(e)) \in Path
  BY <1>2, <1>6, ConcatProperties DEF FullName, Path
<1> QED
  BY <1>5, <1>7

LEMMA ReadingType ==
  ASSUME TypeInv, Len(rlog) < Len(arc)
  PROVE  Reading \in Entry
<1>1. arc \in Seq(Entry) /\ Len(arc) \in Nat /\ Len(rlog) \in Nat
  BY DEF TypeInv, ATypeOK, WTypeOK, FormatTypeOK, RTypeOK
<1> QED
  BY <1>1, ElementOfSeq DEF Reading, rpos

LEMMA TypeReadMetaEntry ==
  ASSUME TypeInv, WEnded, ReadMetaEntry, UNCHANGED <<hdr, arc, wvars>>
  PROVE  RTypeOK' /\ ReaderFacts'
<1> USE DEF TypeInv, ATypeOK
<1> DEFINE placed == Placed(Reading)
           name   == FullName(Reading, placed)
           num    == IF Reading.type = "dir" THEN 0 ELSE Reading.num
           phase  == CASE Reading.type = "file" ->
                            IF mode = "extract" THEN "ask" ELSE "data"
                       [] OTHER -> IF mode = "extract" THEN "mkdir" ELSE "crc"
<1>1. WEnded' /\ arc' = arc
  BY DEF wvars, WEnded
<1>2. CASE Refuse
  BY <1>1, <1>2 DEF Refuse, RTypeOK, RPhases, ReaderFacts
<1>3. CASE ~Refuse
  <2>1. /\ ~(rpos >= Len(arc) \/ (rpos < Len(arc) /\ Reading.num = Unwritten))
        /\ placed.node # NoNode
        /\ rtree' = placed.tree
        /\ rnode' = placed.node
        /\ rfn' = name
        /\ rcrc' = [HeaderCrc(Reading.type, Reading.comp, name) EXCEPT !.num = num]
        /\ rcnt' = 0
        /\ rpc' = phase
        /\ UNCHANGED <<mode, policy, rnum, files, dirs, ropen, rlog>>
    BY <1>3 DEF ReadMetaEntry
  <2>2. Len(rlog) < Len(arc) /\ Reading.num # Unwritten
    <3>1. Len(rlog) \in Nat /\ Len(arc) \in Nat
      BY DEF RTypeOK, WTypeOK, FormatTypeOK
    <3> QED
      BY <2>1, <3>1 DEF rpos
  <2>3. Reading \in Entry
    BY <2>2, ReadingType
  <2>4. /\ placed.tree \in Tree(Name) /\ WellFormed(placed.tree)
        /\ placed.node \in Nodes(placed.tree) /\ name \in Path
    BY <2>1, <2>2, <2>3, PlacedType
  <2>5. Reading.type \in Types /\ Reading.comp \in Comps /\ num \in Nat
    BY <2>2, <2>3 DEF Entry
  <2> HIDE DEF placed, name, num
  <2>6. rcrc' \in Crc
    BY <2>1, <2>4, <2>5, HeaderCrcType
  <2>7. Reading' = Reading
    BY <1>1, <2>1 DEF Reading, rpos
  <2>8. /\ phase \in {"ask", "data", "mkdir", "crc"}
        /\ phase \in {"ask", "data"} => Reading.type = "file"
        /\ phase = "mkdir" => Reading.type # "file"
        /\ phase = "data" => mode # "extract"
        /\ phase = "crc" => mode # "extract"
    OBVIOUS
  <2> HIDE DEF phase
  <2>9. RTypeOK'
    BY <2>1, <2>4, <2>6, <2>8 DEF RTypeOK, RPhases, Tree
  <2>10. ReaderFacts'
    BY <1>1, <2>1, <2>2, <2>4, <2>7, <2>8 DEF ReaderFacts
  <2> QED
    BY <2>9, <2>10
<1> QED
  BY <1>2, <1>3

LEMMA TypeTake ==
  ASSUME TypeInv, WEnded, UNCHANGED <<hdr, arc, wvars>>, rpc = "data",
         NEW u \in Unit, NEW w \in Unit, Take(u, w)
  PROVE  RTypeOK' /\ ReaderFacts'
<1> USE DEF TypeInv, ATypeOK
<1>1. /\ WEnded' /\ arc' = arc
      /\ UNCHANGED <<mode, policy, rpc, rnum, rtree, rnode, rfn, dirs, ropen, rlog>>
      /\ rcrc' = [rcrc EXCEPT !.data = Append(@, u)] /\ rcnt' = rcnt + 1
  BY DEF wvars, WEnded, Take
<1>2. rcrc' \in Crc /\ rcnt' \in Nat
  <2>1. rcrc \in Crc /\ rcnt \in Nat
    BY DEF RTypeOK
  <2>2. [rcrc EXCEPT !.data = Append(@, u)] \in Crc
    BY <2>1, CrcUpdates
  <2> QED
    BY <1>1, <2>1, <2>2
<1>3. Reading' = Reading
  BY <1>1 DEF Reading, rpos
<1>4. /\ DOMAIN files' = DOMAIN files
      /\ \A p \in DOMAIN files : files'[p] \in Seq(Unit)
  <2>1. CASE mode = "extract"
    <3>1. rfn \in DOMAIN files
      BY <2>1 DEF ReaderFacts
    <3>2. files' = [files EXCEPT ![rfn] = Append(files[rfn], w)]
      BY <2>1 DEF Take
    <3>3. \A p \in DOMAIN files : files[p] \in Seq(Unit)
      BY DEF RTypeOK
    <3>4. Append(files[rfn], w) \in Seq(Unit)
      BY <3>1, <3>3
    <3> QED
      BY <3>2, <3>3, <3>4
  <2>2. CASE mode # "extract"
    BY <2>2 DEF Take, RTypeOK
  <2> QED
    BY <2>1, <2>2
<1>5. RTypeOK'
  BY <1>1, <1>2, <1>4 DEF RTypeOK
<1>6. ReaderFacts'
  BY <1>1, <1>3, <1>4 DEF ReaderFacts
<1> QED
  BY <1>5, <1>6

LEMMA TypeReader ==
  ASSUME TypeInv, WEnded, RStep, UNCHANGED <<hdr, arc, wvars>>
  PROVE  RTypeOK' /\ ReaderFacts'
<1> USE DEF TypeInv, ATypeOK
<1>1. WEnded' /\ arc' = arc
  BY DEF wvars, WEnded
<1>2. rlog' = rlog => Reading' = Reading
  BY <1>1 DEF Reading, rpos
<1>3. CASE Refuse
  BY <1>1, <1>3 DEF Refuse, RTypeOK, RPhases, ReaderFacts
<1>4. CASE ReadHeader
  <2>1. hdr \in Nat \union {NoHeader}
    BY DEF WTypeOK, FormatTypeOK
  <2> QED
    BY <1>1, <1>3, <1>4, <2>1 DEF ReadHeader, RTypeOK, RPhases, ReaderFacts
<1>5. CASE ReadMetaEntry
  BY <1>5, TypeReadMetaEntry
<1>6. CASE KeepFile
  <2>1. policy' \in {"ask", "yes", "no"}
    BY <1>6 DEF KeepFile, Answers, Remembered, RTypeOK
  <2>2. [how |-> "kept", path |-> rfn, data |-> <<>>] \in Outcome
    BY DEF Outcome, RTypeOK
  <2>3. rlog' \in Seq(Outcome)
    BY <1>6, <2>2 DEF KeepFile, RTypeOK
  <2> QED
    BY <1>1, <1>6, <2>1, <2>3 DEF KeepFile, RTypeOK, RPhases, ReaderFacts
<1>7. CASE OpenOutput
  <2>1. policy' \in {"ask", "yes", "no"}
    BY <1>7 DEF OpenOutput, Answers, Remembered, RTypeOK
  <2>2. rfn \in Path
    BY DEF RTypeOK
  <2>3. \/ files' = files /\ rpc' = "failed" /\ ropen' = {}
        \/ files' = Opened(rfn) /\ rpc' = "data" /\ ropen' = ropen \union {"out"}
    BY <1>7 DEF OpenOutput
  <2>4. /\ DOMAIN Opened(rfn) = DOMAIN files \union {rfn}
        /\ \A p \in DOMAIN Opened(rfn) : Opened(rfn)[p] \in Seq(Unit)
    BY DEF Opened, RTypeOK
  <2>5. UNCHANGED <<mode, rnum, rtree, rnode, rfn, rcrc, rcnt, dirs, rlog>>
    BY <1>7 DEF OpenOutput
  <2>6. /\ DOMAIN files' \subseteq Path
        /\ \A p \in DOMAIN files' : files'[p] \in Seq(Unit)
        /\ rpc' = "data" => rfn \in DOMAIN files'
    BY <2>2, <2>3, <2>4 DEF RTypeOK
  <2>7. RTypeOK'
    BY <2>1, <2>3, <2>5, <2>6 DEF RTypeOK, RPhases
  <2>8. rpc = "ask" => Reading.type = "file"
    BY <1>7 DEF ReaderFacts
  <2>9. ReaderFacts'
    BY <1>1, <1>2, <1>7, <2>3, <2>5, <2>6, <2>8 DEF OpenOutput, ReaderFacts
  <2> QED
    BY <2>7, <2>9
<1>8. CASE CopyStored
  <2>1. Reading.data[rcnt + 1] \in Unit
    <3>1. Reading \in Entry /\ rcnt \in Nat
      BY <1>8, ReadingType DEF CopyStored, ReaderFacts, RTypeOK
    <3>2. Reading.data \in Seq(Unit)
      BY <3>1 DEF Entry
    <3>3. rcnt + 1 \in 1 .. Len(Reading.data)
      BY <1>8, <3>1, <3>2 DEF CopyStored, Left
    <3> QED
      BY <3>2, <3>3, ElementOfSeq
  <2> QED
    BY <1>8, <2>1, TypeTake DEF CopyStored
<1>9. CASE Decompress
  <2> DEFINE unit == Reading.data[rcnt + 1]
  <2>1. unit \in Unit
    <3>1. Reading \in Entry /\ rcnt \in Nat
      BY <1>9, ReadingType DEF Decompress, ReaderFacts, RTypeOK
    <3>2. Reading.data \in Seq(Unit)
      BY <3>1 DEF Entry
    <3>3. rcnt + 1 \in 1 .. Len(Reading.data)
      BY <1>9, <3>1, <3>2 DEF Decompress, Left
    <3> QED
      BY <3>2, <3>3, ElementOfSeq
  <2> DEFINE u == IF unit.enc THEN unit ELSE Damaged(unit)
             w == IF Decodable(unit) THEN Decoded(unit) ELSE Damaged(Decoded(unit))
  <2>2. u \in Unit /\ w \in Unit
    BY <2>1, UnitValues
  <2>3. Refuse \/ Take(u, w)
    BY <1>9 DEF Decompress
  <2> HIDE DEF u, w
  <2> QED
    BY <1>3, <1>9, <2>2, <2>3, TypeTake DEF Decompress
<1>10. CASE MissingData
  BY <1>3, <1>10 DEF MissingData
<1>11. CASE DataEnd
  <2> SUFFICES ASSUME ~Refuse PROVE RTypeOK' /\ ReaderFacts'
    BY <1>3
  <2>1. /\ rpc = "data" /\ rpc' = "crc" /\ ropen' = ropen \ {"out"}
        /\ UNCHANGED <<mode, policy, rnum, rtree, rnode, rfn, rcrc, rcnt, files, dirs, rlog>>
    BY <1>11 DEF DataEnd
  <2> QED
    BY <1>1, <1>2, <2>1 DEF RTypeOK, RPhases, ReaderFacts
<1>12. CASE MakeDir
  <2> SUFFICES ASSUME ~Refuse PROVE RTypeOK' /\ ReaderFacts'
    BY <1>3
  <2>1. /\ rpc = "mkdir" /\ rpc' = "crc" /\ dirs' = dirs \union Ancestry(rfn)
        /\ UNCHANGED <<mode, policy, rnum, rtree, rnode, rfn, rcrc, rcnt, files, ropen, rlog>>
    BY <1>12 DEF MakeDir
  <2>2. Ancestry(rfn) \subseteq Path
    <3> SUFFICES ASSUME NEW k \in 1 .. Len(rfn) PROVE SubSeq(rfn, 1, k) \in Path
      BY DEF Ancestry
    <3>1. rfn \in Seq(Name) /\ Len(rfn) \in Nat
      BY DEF RTypeOK, Path
    <3>2. \A i \in 1 .. k : rfn[i] \in Name
      BY <3>1, ElementOfSeq
    <3> QED
      BY <3>1, <3>2, SubSeqProperties DEF Path
  <2>3. Reading.type # "file"
    BY <2>1 DEF ReaderFacts
  <2> QED
    BY <1>1, <1>2, <2>1, <2>2, <2>3 DEF RTypeOK, RPhases, ReaderFacts
<1>13. CASE CheckCrc
  <2> SUFFICES ASSUME ~Refuse PROVE RTypeOK' /\ ReaderFacts'
    BY <1>3
  <2> DEFINE how  == IF mode = "list" THEN "listed" ELSE "done"
             data == IF mode = "extract" /\ Reading.type = "file"
                       THEN files[rfn] ELSE DecodedAll(rcrc.data)
  <2>1. /\ rpc = "crc" /\ rpc' = "entry"
        /\ rlog' = Append(rlog, [how |-> how, path |-> rfn, data |-> data])
        /\ UNCHANGED <<mode, policy, rnum, rtree, rnode, rfn, rcrc, rcnt, files, dirs, ropen>>
    BY <1>13 DEF CheckCrc
  <2>2. data \in Seq(Unit)
    <3>1. rcrc.data \in Seq(Unit)
      BY DEF RTypeOK, Crc
    <3>2. DecodedAll(rcrc.data) \in Seq(Unit)
      BY <3>1, DecodedAllType
    <3> QED
      BY <2>1, <3>2 DEF RTypeOK, ReaderFacts
  <2>3. how \in {"done", "kept", "listed"} /\ rfn \in Path
    BY DEF RTypeOK
  <2> HIDE DEF how, data
  <2>4. [how |-> how, path |-> rfn, data |-> data] \in Outcome
    BY <2>2, <2>3 DEF Outcome
  <2>5. rlog' \in Seq(Outcome)
    BY <2>1, <2>4 DEF RTypeOK
  <2> QED
    BY <1>1, <2>1, <2>5 DEF RTypeOK, RPhases, ReaderFacts
<1>14. CASE CloseInput
  BY <1>1, <1>14 DEF CloseInput, RTypeOK, RPhases, ReaderFacts
<1> QED
  BY <1>4, <1>5, <1>6, <1>7, <1>8, <1>9, <1>10, <1>11, <1>12, <1>13, <1>14 DEF RStep

----------------------------------------------------------------------------
(* What happens to the archive file. *)
LEMMA StumpsType ==
  ASSUME NEW e \in Entry
  PROVE  Stumps(e) \subseteq Entry
<1>1. e.data \in Seq(Unit) /\ Len(e.data) \in Nat
  BY DEF Entry
<1>2. ASSUME NEW k \in 0 .. Len(e.data)
      PROVE  [e EXCEPT !.data = SubSeq(@, 1, k), !.crc = NoCrc] \in Entry
  <2>1. \A i \in 1 .. k : e.data[i] \in Unit
    BY <1>1, ElementOfSeq
  <2>2. SubSeq(e.data, 1, k) \in Seq(Unit)
    BY <1>1, <2>1, SubSeqProperties
  <2>3. [e EXCEPT !.data = SubSeq(@, 1, k), !.crc = NoCrc] =
        [e EXCEPT !.data = SubSeq(e.data, 1, k), !.crc = NoCrc]
    OBVIOUS
  <2> QED
    BY <2>2, <2>3, EntryUpdates
<1>3. [e EXCEPT !.num = Unwritten, !.data = <<>>, !.crc = NoCrc] \in Entry
  BY EntryUpdates
<1> QED
  BY <1>2, <1>3 DEF Stumps

LEMMA DamagesType ==
  ASSUME NEW e \in Entry, Len(arc) \in Nat
  PROVE  Damages(e) \subseteq Entry
<1>1. ASSUME NEW n \in Name PROVE [e EXCEPT !.name = <<n>>] \in Entry
  <2>1. <<n>> \in Path \ {<<>>}
    BY DEF Path
  <2> QED
    BY <2>1, EntryUpdates
<1>2. ASSUME NEW k \in 1 .. Len(e.data)
      PROVE  [e EXCEPT !.data[k] = Damaged(@)] \in Entry
  <2>1. e.data \in Seq(Unit)
    BY DEF Entry
  <2>2. Damaged(e.data[k]) \in Unit
    BY <2>1, ElementOfSeq, UnitValues
  <2>3. [e.data EXCEPT ![k] = Damaged(e.data[k])] \in Seq(Unit)
    BY <2>1, <2>2, ExceptSeq
  <2>4. [e EXCEPT !.data[k] = Damaged(@)] =
        [e EXCEPT !.data = [e.data EXCEPT ![k] = Damaged(e.data[k])]]
    OBVIOUS
  <2> QED
    BY <2>3, <2>4, EntryUpdates
<1>3. ASSUME e.crc # NoCrc PROVE [e EXCEPT !.crc.ok = FALSE] \in Entry
  <2>1. e.crc \in Crc
    BY <1>3 DEF Entry
  <2>2. [e.crc EXCEPT !.ok = FALSE] \in Crc
    BY <2>1, CrcUpdates
  <2>3. [e EXCEPT !.crc.ok = FALSE] = [e EXCEPT !.crc = [e.crc EXCEPT !.ok = FALSE]]
    OBVIOUS
  <2> QED
    BY <2>2, <2>3, EntryUpdates
<1>4. \A p \in 0 .. Len(arc) : [e EXCEPT !.num = p] \in Entry
  <2>1. \A p \in 0 .. Len(arc) : p \in Nat
    OBVIOUS
  <2> QED
    BY <2>1, EntryUpdates
<1>5. \A c \in Comps : [e EXCEPT !.comp = c] \in Entry
  BY EntryUpdates
<1> QED
  BY <1>1, <1>2, <1>3, <1>4, <1>5, ZenonT(40) DEF Damages

LEMMA TypeMedium ==
  ASSUME TypeInv, Cut \/ Damage
  PROVE  TypeInv'
<1> USE DEF TypeInv, ATypeOK
<1>1. /\ WEnded /\ rpc = "idle" /\ UNCHANGED wvars /\ UNCHANGED rvars
      /\ faults' \subseteq {"cut", "damage", "io"}
  BY DEF Cut, Damage, AtRest
<1>2. arc \in Seq(Entry) /\ Len(arc) \in Nat
  BY DEF WTypeOK, FormatTypeOK
<1>3. \A k \in 1 .. Len(arc) : arc[k] \in Entry
  BY <1>2, ElementOfSeq
<1>4. hdr' \in Nat \union {NoHeader} /\ arc' \in Seq(Entry)
  <2>1. CASE Cut
    <3>1. ASSUME NEW k \in 1 .. Len(arc)
          PROVE  SubSeq(arc, 1, k - 1) \in Seq(Entry)
      <4>1. \A i \in 1 .. k - 1 : arc[i] \in Entry
        BY <1>2, <1>3
      <4> QED
        BY <1>2, <4>1, SubSeqProperties
    <3>2. ASSUME NEW k \in 1 .. Len(arc), NEW e \in Stumps(arc[k])
          PROVE  Append(SubSeq(arc, 1, k - 1), e) \in Seq(Entry)
      <4>1. e \in Entry
        BY <1>3, StumpsType
      <4> QED
        BY <3>1, <4>1
    <3>3. <<>> \in Seq(Entry)
      OBVIOUS
    <3>4. hdr' \in {hdr, NoHeader}
      BY <2>1 DEF Cut
    <3> QED
      BY <2>1, <3>1, <3>2, <3>3, <3>4 DEF Cut, WTypeOK, FormatTypeOK
  <2>2. CASE Damage
    <3>1. PICK k \in 1 .. Len(arc) : \E e \in Damages(arc[k]) : arc' = [arc EXCEPT ![k] = e]
      BY <2>2 DEF Damage
    <3>2. PICK e \in Damages(arc[k]) : arc' = [arc EXCEPT ![k] = e]
      BY <3>1
    <3>3. e \in Entry
      BY <1>2, <1>3, <3>2, DamagesType
    <3>4. arc' \in Seq(Entry)
      BY <1>2, <3>2, <3>3, ExceptSeq
    <3> QED
      BY <2>2, <3>4 DEF Damage, WTypeOK, FormatTypeOK
  <2> QED
    BY <2>1, <2>2
<1>5. WTypeOK'
  BY <1>1, <1>4 DEF WTypeOK, FormatTypeOK, wvars
<1>6. RTypeOK'
  BY <1>1 DEF RTypeOK, rvars
<1>7. WriterFacts'
  BY <1>1 DEF WriterFacts, InEntry, WEnded, wvars
<1>8. ReaderFacts'
  BY <1>1 DEF ReaderFacts, WEnded, wvars, rvars
<1> QED
  BY <1>1, <1>5, <1>6, <1>7, <1>8

LEMMA TypeStep == TypeInv /\ [Next]_avars => TypeInv'
<1> SUFFICES ASSUME TypeInv, [Next]_avars PROVE TypeInv'
  OBVIOUS
<1>1. CASE WriterStep \/ WriterError
  <2>1. ~WEnded /\ WTypeOK' /\ WriterFacts'
    BY <1>1, TypeWriter DEF WriterStep, WriterError
  <2>2. UNCHANGED rvars /\ UNCHANGED <<faults, before>>
    BY <1>1 DEF WriterStep, WriterError
  <2> QED
    BY <2>1, <2>2, WriterFrame
<1>2. CASE Crash
  <2>1. WTypeOK' /\ WriterFacts'
    BY <1>2 DEF Crash, TypeInv, ATypeOK, WTypeOK, FormatTypeOK, WPhases, WriterFacts, InEntry
  <2>2. ~WEnded /\ UNCHANGED rvars /\ UNCHANGED <<faults, before>>
    BY <1>2 DEF Crash
  <2> QED
    BY <2>1, <2>2, WriterFrame
<1>3. CASE Cut \/ Damage
  BY <1>3, TypeMedium
<1>4. CASE ReaderStep \/ ReaderError
  <2>1. WEnded /\ UNCHANGED <<hdr, arc, wvars>>
    BY <1>4 DEF ReaderStep, ReaderError
  <2>2. RTypeOK' /\ ReaderFacts'
    <3>1. CASE RStep
      BY <2>1, <3>1, TypeReader
    <3>2. CASE RIoError
      BY <2>1, <3>2 DEF RIoError, TypeInv, ATypeOK, RTypeOK, RPhases, ReaderFacts,
                        WEnded, wvars
    <3> QED
      BY <1>4, <3>1, <3>2 DEF ReaderStep, ReaderError
  <2>3. faults' \subseteq {"cut", "damage", "io"}
    BY <1>4 DEF ReaderStep, ReaderError, TypeInv, ATypeOK
  <2>4. WTypeOK' /\ WriterFacts'
    BY <2>1 DEF TypeInv, ATypeOK, WTypeOK, FormatTypeOK, WriterFacts, InEntry, wvars
  <2> QED
    BY <2>2, <2>3, <2>4 DEF TypeInv, ATypeOK
<1>5. CASE UNCHANGED avars
  <2>1. UNCHANGED <<hdr, arc, wvars, rvars, faults>>
    BY <1>5 DEF avars
  <2> QED
    BY <2>1 DEF TypeInv, ATypeOK, WTypeOK, RTypeOK, FormatTypeOK, WriterFacts, InEntry,
                ReaderFacts, Reading, rpos, WEnded, wvars, rvars
<1> QED
  BY <1>1, <1>2, <1>3, <1>4, <1>5 DEF Next, Over

(* Every value the model computes is of its kind, for all inputs, output   *)
(* directories, chunk sizes and faults: in particular no step looks at an  *)
(* entry that is not there, and every tree and every path the reader       *)
(* builds from a damaged file is a tree and a path.                        *)
THEOREM TypesAlwaysOK == Spec => []ATypeOK
<1>1. Init => TypeInv
  BY TypeInit
<1>2. TypeInv /\ [Next]_avars => TypeInv'
  BY TypeStep
<1>3. TypeInv => ATypeOK
  BY DEF TypeInv
<1> QED
  BY <1>1, <1>2, <1>3, PTL DEF Spec

----------------------------------------------------------------------------
(* Node j of tree t is the directory that is the last one after entry e,   *)
(* as node i was before it; x is what the writer was given for e.          *)
Restores(e, x, t, i, j) ==
  IF e.type = "file"
    THEN /\ j = i /\ x.kind = "file"
         /\ x.path = PathOf(t, j) \o e.name
    ELSE /\ j = i + 1 /\ j \in 1 .. Len(t) /\ x.kind = "dir"
         /\ x.path = PathOf(t, j)
         /\ e.name = <<t[j].name>>
         /\ e.type = "dir" => t[j].parent = Root
         /\ e.type = "subdir" => e.num \in {t[j].parent, Unwritten}

(* c numbers the last directory after each entry of archive s, as both     *)
(* programs count them.                                                    *)
Numbered(s, x, t, c) ==
  /\ Len(s) <= Len(x)
  /\ c \in [0 .. Len(x) -> Nat]
  /\ c[0] = Root
  /\ \A k \in 0 .. Len(s) : c[k] \in Nodes(t)
  /\ \A k \in 1 .. Len(s) : Restores(s[k], x[k], t, c[k - 1], c[k])

(* The session that writes: its directory is the last of its tree. *)
WSession(c) ==
  ~WEnded =>
    /\ Len(arc) = IF InEntry THEN wpos + 1 ELSE wpos
    /\ c[Len(arc)] = Len(wtree)
    /\ wdir = PathOf(wtree, Len(wtree))
    /\ wpc = "open" => wpos = 0
    /\ wpc \in {"size", "compress", "copy"} => arc[Last].type = "file"

(* The session that reads: its tree is the one of the entries it read. *)
RSession(c) ==
  /\ rpc = "idle" => rtree = <<>> /\ rlog = <<>> /\ rnode = Root
  /\ Len(rtree) <= Len(wtree)
  /\ rtree = SubSeq(wtree, 1, Len(rtree))
  /\ rpc = "entry" =>
       rpos <= Len(arc) /\ Len(rtree) = c[rpos] /\ rnode = Len(rtree)
  /\ rpc \in {"ask", "data", "mkdir", "crc"} =>
       /\ Len(rtree) = c[rpos + 1] /\ rnode = Len(rtree)
       /\ rfn = input[rpos + 1].path

Intact == \E c : Numbered(arc, input, wtree, c) /\ WSession(c) /\ RSession(c)

RestoreInv ==
  /\ TypeInv
  /\ IsPlan(input)
  /\ WellFormed(wtree)
  /\ ~WEnded => faults = {}
  /\ "damage" \notin faults => Intact

----------------------------------------------------------------------------
(* What may change of an archive under its numbering: entries disappear at *)
(* its end, and those that stay keep their type, their name and, but for   *)
(* files, their number or lose it.                                         *)
SameEntry(new, old) ==
  /\ new.type = old.type /\ new.name = old.name
  /\ old.type = "file" \/ new.num \in {old.num, Unwritten}

LEMMA Renumbered ==
  ASSUME NEW s, NEW r, NEW x, NEW t, NEW c, Len(s) \in Nat, Len(r) \in Nat,
         Numbered(s, x, t, c), Len(x) \in Nat,
         Len(r) <= Len(s), \A k \in 1 .. Len(r) : SameEntry(r[k], s[k])
  PROVE  Numbered(r, x, t, c)
<1>1. /\ \A k \in 0 .. Len(r) : k \in 0 .. Len(s)
      /\ \A k \in 1 .. Len(r) : k \in 1 .. Len(s)
      /\ Len(r) <= Len(x)
  BY DEF Numbered
<1>2. ASSUME NEW k \in 1 .. Len(r)
      PROVE  Restores(r[k], x[k], t, c[k - 1], c[k])
  <2>1. Restores(s[k], x[k], t, c[k - 1], c[k]) /\ SameEntry(r[k], s[k])
    BY <1>1 DEF Numbered
  <2> QED
    BY <2>1 DEF Restores, SameEntry
<1> QED
  BY <1>1, <1>2 DEF Numbered

(* The numbering of an archive holds in a tree that went on growing. *)
LEMMA Regrown ==
  ASSUME NEW S, NEW s, NEW x, NEW t \in Tree(S), NEW u \in Tree(S), NEW c,
         Len(s) \in Nat, Len(x) \in Nat, Numbered(s, x, t, c),
         Len(t) <= Len(u), \A i \in 1 .. Len(t) : u[i] = t[i],
         \A i \in Nodes(t) : PathOf(u, i) = PathOf(t, i)
  PROVE  Numbered(s, x, u, c)
<1>1. Len(t) \in Nat /\ Len(u) \in Nat
  BY DEF Tree
<1>2. \A i \in Nodes(t) : i \in Nodes(u)
  BY <1>1 DEF Nodes
<1>3. ASSUME NEW k \in 1 .. Len(s)
      PROVE  Restores(s[k], x[k], u, c[k - 1], c[k])
  <2>1. Restores(s[k], x[k], t, c[k - 1], c[k]) /\ c[k] \in Nodes(t)
    BY DEF Numbered
  <2>2. PathOf(u, c[k]) = PathOf(t, c[k])
    BY <2>1
  <2>3. c[k] \in 1 .. Len(t) => c[k] \in 1 .. Len(u) /\ u[c[k]] = t[c[k]]
    BY <1>1
  <2> QED
    BY <2>1, <2>2, <2>3 DEF Restores
<1> QED
  BY <1>2, <1>3 DEF Numbered

(* One more entry at the end of the archive. *)
LEMMA Extended ==
  ASSUME NEW s, NEW e, NEW S, s \in Seq(S), e \in S, NEW x, NEW t, NEW c, NEW j \in Nodes(t),
         Nodes(t) \subseteq Nat, Len(x) \in Nat, Numbered(s, x, t, c), Len(s) < Len(x),
         Restores(e, x[Len(s) + 1], t, c[Len(s)], j)
  PROVE  Numbered(Append(s, e), x, t, [c EXCEPT ![Len(s) + 1] = j])
<1> DEFINE r == Append(s, e)
           d == [c EXCEPT ![Len(s) + 1] = j]
           n == Len(s) + 1
<1>1. /\ Len(s) \in Nat /\ Len(r) = n /\ r[n] = e
      /\ \A k \in 1 .. Len(s) : r[k] = s[k]
  BY AppendProperties
<1>2. n \in 0 .. Len(x) /\ n \in Nat
  BY <1>1
<1>3. c \in [0 .. Len(x) -> Nat]
  BY DEF Numbered
<1>4. d \in [0 .. Len(x) -> Nat] /\ d[n] = j /\ \A k \in 0 .. Len(x) : k # n => d[k] = c[k]
  BY <1>2, <1>3
<1>5. \A k \in 0 .. Len(s) : d[k] = c[k] /\ c[k] \in Nodes(t)
  <2>1. \A k \in 0 .. Len(s) : k \in 0 .. Len(x) /\ k # n
    BY <1>1
  <2> HIDE DEF d, n
  <2> QED
    BY <2>1, <1>4 DEF Numbered
<1> HIDE DEF r, d
<1>6. ASSUME NEW k \in 1 .. n
      PROVE  Restores(r[k], x[k], t, d[k - 1], d[k])
  <2>1. CASE k = n
    <3>1. k - 1 = Len(s) /\ Len(s) \in 0 .. Len(s)
      BY <1>1, <2>1
    <3> QED
      BY <1>1, <1>4, <1>5, <2>1, <3>1
  <2>2. CASE k # n
    <3>1. k \in 1 .. Len(s) /\ k \in 0 .. Len(s) /\ k - 1 \in 0 .. Len(s)
      BY <1>1, <2>2
    <3> QED
      BY <1>1, <1>5, <3>1 DEF Numbered
  <2> QED
    BY <2>1, <2>2
<1>7. \A k \in 0 .. n : d[k] \in Nodes(t)
  <2> TAKE k \in 0 .. n
  <2>1. k = n \/ k \in 0 .. Len(s)
    BY <1>1
  <2> QED
    BY <2>1, <1>4, <1>5
<1>8. d[0] = Root
  <2>1. 0 \in 0 .. Len(s)
    BY <1>1
  <2> QED
    BY <2>1, <1>5 DEF Numbered
<1> QED
  BY <1>1, <1>2, <1>4, <1>6, <1>7, <1>8 DEF Numbered, r, d

----------------------------------------------------------------------------
(* The writer. *)
LEMMA PathSplits ==
  ASSUME NEW S, NEW path \in Seq(S), path # <<>>
  PROVE  /\ Parent(path) \in Seq(S) /\ path[Len(path)] \in S
         /\ path = Append(Parent(path), path[Len(path)])
<1>1. Len(path) \in Nat \ {0}
  BY EmptySeq
<1>2. path[Len(path)] \in S /\ \A i \in 1 .. Len(path) - 1 : path[i] \in S
  BY <1>1, ElementOfSeq
<1>3. Parent(path) \in Seq(S)
  BY <1>1, <1>2, SubSeqProperties DEF Parent
<1>4. path = Append(SubSeq(path, 1, Len(path) - 1), path[Len(path)])
  BY <1>1
<1> QED
  BY <1>2, <1>3, <1>4 DEF Parent

LEMMA SuffixOf ==
  ASSUME NEW S, NEW path \in Seq(S), NEW d \in Seq(S),
         Len(d) < Len(path), SubSeq(path, 1, Len(d)) = d
  PROVE  path = d \o SubSeq(path, Len(d) + 1, Len(path))
<1>1. Len(d) \in Nat /\ Len(path) \in Nat
  OBVIOUS
<1>2. path = SubSeq(path, 1, Len(d)) \o SubSeq(path, Len(d) + 1, Len(path))
  <2>1. SubSeq(path, 1, Len(path)) = path
    BY SubSeqFull
  <2>2. Len(d) \in 1 - 1 .. Len(path) /\ 1 \in 1 .. Len(path) + 1 /\ Len(path) \in Len(d) .. Len(path)
    BY <1>1
  <2> QED
    BY <2>1, <2>2, ConcatAdjacentSubSeq
<1> QED
  BY <1>2

(* While the writer is at work the reader has not begun. *)
LEMMA IdleReader ==
  ASSUME RestoreInv, ~WEnded, UNCHANGED rvars, Len(wtree') \in Nat
  PROVE  \A c : (RSession(c))'
<1>1. rpc = "idle" /\ "damage" \notin faults
  BY DEF RestoreInv, TypeInv, ReaderFacts
<1>2. rtree = <<>> /\ rlog = <<>> /\ rnode = Root
  BY <1>1 DEF RestoreInv, Intact, RSession
<1>3. SubSeq(wtree', 1, 0) = <<>> /\ Len(<<>>) = 0
  BY SubSeqEmpty
<1> QED
  BY <1>1, <1>2, <1>3 DEF RSession, rvars

LEMMA RestoreUpdate ==
  ASSUME RestoreInv, ~WEnded, TypeInv', UNCHANGED <<rvars, faults, input, wtree, wdir>>,
         Len(arc') = Len(arc), \A k \in 1 .. Len(arc) : SameEntry(arc'[k], arc[k]),
         \/ WEnded'
         \/ ~InEntry /\ ~InEntry' /\ wpos' = wpos /\ wpc' # "open"
         \/ /\ InEntry /\ InEntry' /\ wpos' = wpos
            /\ wpc' \in {"size", "compress", "copy"} => wpc \in {"size", "compress", "copy"}
         \/ InEntry /\ wpc' = "entry" /\ wpos' = wpos + 1
  PROVE  RestoreInv'
<1>1. "damage" \notin faults /\ faults = {}
  BY DEF RestoreInv
<1>2. PICK c : Numbered(arc, input, wtree, c) /\ WSession(c) /\ RSession(c)
  BY <1>1 DEF RestoreInv, Intact
<1>3. Len(arc) \in Nat /\ Len(input) \in Nat /\ Len(wtree) \in Nat /\ wpos \in Nat
  BY DEF RestoreInv, TypeInv, ATypeOK, WTypeOK, FormatTypeOK
<1>4. Numbered(arc', input, wtree, c)
  BY <1>2, <1>3, Renumbered
<1>5. (WSession(c))'
  <2> SUFFICES ASSUME ~WEnded' PROVE (WSession(c))'
    BY DEF WSession
  <2>1. /\ Len(arc) = IF InEntry THEN wpos + 1 ELSE wpos
        /\ c[Len(arc)] = Len(wtree) /\ wdir = PathOf(wtree, Len(wtree))
        /\ wpc \in {"size", "compress", "copy"} => arc[Last].type = "file"
    BY <1>2 DEF WSession
  <2>2. Len(arc') = IF InEntry' THEN wpos' + 1 ELSE wpos'
    BY <1>3, <2>1 DEF InEntry
  <2>3. wpc' # "open"
    BY DEF InEntry
  <2>4. wpc' \in {"size", "compress", "copy"} => (arc[Last].type)' = "file"
    <3> SUFFICES ASSUME wpc' \in {"size", "compress", "copy"} PROVE (arc[Last].type)' = "file"
      OBVIOUS
    <3>1. InEntry /\ arc[Last].type = "file" /\ Last \in 1 .. Len(arc)
      BY <1>3, <2>1 DEF InEntry, Last
    <3>2. arc'[Last].type = arc[Last].type /\ Last' = Last
      BY <3>1 DEF SameEntry, Last
    <3> QED
      BY <3>1, <3>2
  <2> QED
    BY <2>1, <2>2, <2>3, <2>4 DEF WSession
<1>6. (RSession(c))'
  BY <1>3, IdleReader
<1>7. Intact'
  BY <1>4, <1>5, <1>6 DEF Intact
<1> QED
  BY <1>1, <1>7 DEF RestoreInv

LEMMA RestoreWriteDir ==
  ASSUME RestoreInv, TypeInv', WriteDir, UNCHANGED <<rvars, faults>>
  PROVE  RestoreInv'
<1> DEFINE x == Current
           i0 == Len(wtree)
<1>1. /\ wpc = "entry" /\ wpos < Len(input) /\ x.kind = "dir" /\ ~WEnded /\ ~InEntry
      /\ x = input[wpos + 1]
  BY DEF WriteDir, WEnded, InEntry, Current
<1>2. "damage" \notin faults /\ faults = {}
  BY <1>1 DEF RestoreInv
<1>3. PICK c : Numbered(arc, input, wtree, c) /\ WSession(c) /\ RSession(c)
  BY <1>2 DEF RestoreInv, Intact
<1>4. /\ Len(arc) \in Nat /\ Len(input) \in Nat /\ Len(wtree) \in Nat /\ wpos \in Nat
      /\ arc \in Seq(Entry) /\ wtree \in Tree(Name) /\ WellFormed(wtree)
      /\ x.path \in Seq(Name) /\ x.path # <<>>
  <2>1. x.path \in Path /\ x.path # <<>>
    BY <1>1, CurrentType DEF RestoreInv
  <2>2. /\ input \in Seq(Source) /\ wpos \in Nat /\ arc \in Seq(Entry)
        /\ wtree \in Tree(Name) /\ WellFormed(wtree)
    BY DEF RestoreInv, TypeInv, ATypeOK, WTypeOK, FormatTypeOK, Tree
  <2>3. Len(wtree) \in Nat
    BY <2>2 DEF Tree
  <2> QED
    BY <2>1, <2>2, <2>3 DEF Path
<1>5. Len(arc) = wpos /\ c[wpos] = i0
  BY <1>1, <1>3 DEF WSession
<1>6. CASE DirAdd(wtree, x.path).node = NoNode
  <2>1. GiveUp
    BY <1>6 DEF WriteDir
  <2>2. WEnded' /\ UNCHANGED <<arc, input, wtree, wdir>>
    BY <2>1 DEF GiveUp, WEnded
  <2>3. \A k \in 1 .. Len(arc) : SameEntry(arc'[k], arc[k])
    BY <2>2 DEF SameEntry
  <2> QED
    BY <1>1, <2>2, <2>3, RestoreUpdate
<1>7. CASE DirAdd(wtree, x.path).node # NoNode
  <2> DEFINE n == x.path[Len(x.path)]
  <2>1. /\ Parent(x.path) \in Seq(Name) /\ n \in Name
        /\ x.path = Append(Parent(x.path), n)
    BY <1>4, PathSplits
  <2>2. PICK i \in Nodes(wtree) : PathOf(wtree, i) = Parent(x.path)
    <3>1. CASE Parent(x.path) = <<>>
      <4>1. Root \in Nodes(wtree)
        BY <1>4 DEF Root, Nodes
      <4> QED
        BY <1>4, <3>1, <4>1, PathOfNode
    <3>2. CASE Parent(x.path) # <<>>
      <4>1. wpos + 1 \in 1 .. Len(input) /\ 1 .. (wpos + 1) - 1 = 1 .. wpos
        BY <1>1, <1>4
      <4>2. PICK j \in 1 .. wpos : input[j].kind = "dir" /\ input[j].path = Parent(x.path)
        BY <1>1, <3>2, <4>1 DEF RestoreInv, IsPlan
      <4>3. Restores(arc[j], input[j], wtree, c[j - 1], c[j]) /\ c[j] \in Nodes(wtree)
        <5>1. j \in 1 .. Len(arc) /\ j \in 0 .. Len(arc)
          BY <1>5, <4>2
        <5> QED
          BY <1>3, <5>1 DEF Numbered
      <4> QED
        BY <4>2, <4>3 DEF Restores
    <3> QED
      BY <3>1, <3>2
  <2> DEFINE u == Append(wtree, Node(i, n))
             m == i0 + 1
  <2>3. /\ DirAdd(wtree, x.path) = Found(u, m)
        /\ u \in Tree(Name) /\ WellFormed(u) /\ Len(u) = m /\ u[m] = Node(i, n)
        /\ \A j \in 1 .. Len(wtree) : u[j] = wtree[j]
        /\ \A j \in Nodes(wtree) : PathOf(u, j) = PathOf(wtree, j)
        /\ PathOf(u, m) = x.path
    <3>1. DirAdd(wtree, Append(PathOf(wtree, i), n)).node # NoNode
      BY <1>7, <2>1, <2>2
    <3> HIDE DEF n
    <3>2. Append(PathOf(wtree, i), n) = x.path
      BY <2>1, <2>2
    <3> HIDE DEF x
    <3>3. /\ DirAdd(wtree, Append(PathOf(wtree, i), n)) = Found(u, Len(wtree) + 1)
          /\ u \in Tree(Name) /\ WellFormed(u) /\ Len(u) = Len(wtree) + 1
          /\ u[Len(wtree) + 1] = Node(i, n)
          /\ \A j \in 1 .. Len(wtree) : u[j] = wtree[j]
          /\ \A j \in Nodes(wtree) : PathOf(u, j) = PathOf(wtree, j)
          /\ PathOf(u, Len(wtree) + 1) = Append(PathOf(wtree, i), n)
      BY <1>4, <2>1, <3>1, AddsAtEnd
    <3> HIDE DEF u
    <3> QED
      BY <3>2, <3>3
  <2> HIDE DEF u, n
  <2> DEFINE type == IF i = Root THEN "dir" ELSE "subdir"
             e == [type |-> type, comp |-> "stored", name |-> <<n>>,
                   num |-> i, data |-> <<>>, crc |-> NoCrc]
  <2>4. /\ wtree' = u /\ wdir' = x.path /\ arc' = Append(arc, e) /\ wpc' = "crc"
        /\ UNCHANGED <<input, wpos>>
    <3>1. DirAdd(wtree, Current.path).tree = u /\ DirAdd(wtree, Current.path).node = m
      BY <2>3 DEF Found
    <3>2. u[m].parent = i /\ u[m].name = n
      BY <2>3 DEF Node
    <3> QED
      BY <1>7, <3>1, <3>2 DEF WriteDir
  <2>5. Numbered(arc, input, u, c)
    BY <1>3, <1>4, <2>3, Regrown
  <2>6. Restores(e, input[Len(arc) + 1], u, c[Len(arc)], m)
    <3>1. m \in 1 .. Len(u) /\ u[m].parent = i /\ u[m].name = n
      BY <1>4, <2>3 DEF Node
    <3>2. e.type # "file" /\ e.name = <<n>> /\ e.num = i /\ (e.type = "dir" => i = Root)
      OBVIOUS
    <3> HIDE DEF e
    <3> QED
      BY <1>1, <1>5, <2>3, <3>1, <3>2 DEF Restores
  <2> PICK d : d = [c EXCEPT ![Len(arc) + 1] = m]
    OBVIOUS
  <2>7. Numbered(arc', input, u, d) /\ Len(arc') = wpos + 1 /\ d[Len(arc')] = m
    <3>1. m \in Nodes(u) /\ Nodes(u) \subseteq Nat
      BY <1>4, <2>3 DEF Nodes
    <3>2. c \in [0 .. Len(input) -> Nat] /\ Len(arc) + 1 \in 0 .. Len(input)
      BY <1>1, <1>3, <1>4, <1>5 DEF Numbered
    <3> HIDE DEF e
    <3>3. Len(Append(arc, e)) = Len(arc) + 1
      BY <1>4
    <3>4. d[Len(arc) + 1] = m
      BY <3>2
    <3>5. arc \in Seq(Entry \union {e}) /\ e \in Entry \union {e}
      BY <1>4, SeqMonotonic
    <3> HIDE DEF m
    <3>6. Numbered(Append(arc, e), input, u, d)
      BY <1>1, <1>4, <1>5, <2>5, <2>6, <3>1, <3>5, Extended
    <3> QED
      BY <1>5, <2>4, <3>3, <3>4, <3>6
  <2> HIDE DEF e, type
  <2>8. (WSession(d))'
    <3>1. InEntry' /\ wpc' = "crc"
      BY <2>4 DEF InEntry
    <3>2. d[Len(arc')] = Len(wtree')
      BY <2>3, <2>4, <2>7
    <3>3. wdir' = PathOf(wtree', Len(wtree'))
      BY <2>3, <2>4
    <3> QED
      BY <2>4, <2>7, <3>1, <3>2, <3>3 DEF WSession
  <2>9. (RSession(d))'
    <3>1. Len(wtree') \in Nat
      BY <1>4, <2>3, <2>4
    <3> QED
      BY <1>1, <3>1, IdleReader
  <2>10. Intact'
    BY <2>4, <2>7, <2>8, <2>9 DEF Intact
  <2> QED
    BY <1>2, <2>3, <2>4, <2>10 DEF RestoreInv
<1> QED
  BY <1>6, <1>7

LEMMA RestoreWriteFileHeader ==
  ASSUME RestoreInv, TypeInv', WriteFileHeader, UNCHANGED <<rvars, faults>>
  PROVE  RestoreInv'
<1> DEFINE x == Current
           l == Len(wtree)
<1>1. /\ wpc = "entry" /\ wpos < Len(input) /\ x.kind = "file" /\ ~WEnded /\ ~InEntry
      /\ x = input[wpos + 1]
  BY DEF WriteFileHeader, WEnded, InEntry, Current
<1>2. "damage" \notin faults /\ faults = {}
  BY <1>1 DEF RestoreInv
<1>3. PICK c : Numbered(arc, input, wtree, c) /\ WSession(c) /\ RSession(c)
  BY <1>2 DEF RestoreInv, Intact
<1>4. /\ Len(arc) \in Nat /\ Len(input) \in Nat /\ l \in Nat /\ wpos \in Nat
      /\ arc \in Seq(Entry) /\ wdir \in Seq(Name) /\ x.path \in Seq(Name)
  <2>1. x.path \in Path
    BY <1>1, CurrentType DEF RestoreInv
  <2>2. /\ input \in Seq(Source) /\ wpos \in Nat /\ arc \in Seq(Entry)
        /\ wtree \in Tree(Name) /\ wdir \in Path
    BY DEF RestoreInv, TypeInv, ATypeOK, WTypeOK, FormatTypeOK, Tree
  <2>3. l \in Nat
    BY <2>2 DEF Tree
  <2> QED
    BY <2>1, <2>2, <2>3 DEF Path
<1>5. Len(arc) = wpos /\ c[wpos] = l /\ wdir = PathOf(wtree, l)
  BY <1>1, <1>3 DEF WSession
<1>6. CASE ~InLastDir(x.path)
  <2>1. GiveUp
    BY <1>6 DEF WriteFileHeader
  <2>2. WEnded' /\ UNCHANGED <<arc, input, wtree, wdir>>
    BY <2>1 DEF GiveUp, WEnded
  <2>3. \A k \in 1 .. Len(arc) : SameEntry(arc'[k], arc[k])
    BY <2>2 DEF SameEntry
  <2> QED
    BY <1>1, <2>2, <2>3, RestoreUpdate
<1>7. CASE InLastDir(x.path)
  <2> DEFINE comp == IF compress THEN "compressed" ELSE "stored"
             name == SubSeq(x.path, Len(wdir) + 1, Len(x.path))
             e == [type |-> "file", comp |-> comp, name |-> name,
                   num |-> Unwritten, data |-> <<>>, crc |-> NoCrc]
  <2>1. /\ arc' = Append(arc, e) /\ wpc' \in {"compress", "size"}
        /\ UNCHANGED <<input, wpos, wtree, wdir>>
    BY <1>7 DEF WriteFileHeader
  <2>2. x.path = wdir \o name
    BY <1>4, <1>7, SuffixOf DEF InLastDir
  <2>3. Restores(e, input[Len(arc) + 1], wtree, c[Len(arc)], l)
    <3>1. e.type = "file" /\ e.name = name
      OBVIOUS
    <3> HIDE DEF e, name
    <3> QED
      BY <1>1, <1>5, <2>2, <3>1 DEF Restores
  <2> PICK d : d = [c EXCEPT ![Len(arc) + 1] = l]
    OBVIOUS
  <2>4. /\ Numbered(arc', input, wtree, d) /\ Len(arc') = wpos + 1 /\ d[Len(arc')] = l
        /\ arc'[Len(arc')].type = "file"
    <3>1. l \in Nodes(wtree) /\ Nodes(wtree) \subseteq Nat
      BY <1>4 DEF Nodes
    <3>2. c \in [0 .. Len(input) -> Nat] /\ Len(arc) + 1 \in 0 .. Len(input)
      BY <1>1, <1>3, <1>4, <1>5 DEF Numbered
    <3>3. e.type = "file"
      OBVIOUS
    <3> HIDE DEF e
    <3>4. Len(Append(arc, e)) = Len(arc) + 1 /\ Append(arc, e)[Len(arc) + 1] = e
      BY <1>4
    <3>5. d[Len(arc) + 1] = l
      BY <3>2
    <3>6. arc \in Seq(Entry \union {e}) /\ e \in Entry \union {e}
      BY <1>4, SeqMonotonic
    <3> HIDE DEF l
    <3>7. Numbered(Append(arc, e), input, wtree, d)
      BY <1>1, <1>3, <1>4, <1>5, <2>3, <3>1, <3>6, Extended
    <3> QED
      BY <1>5, <2>1, <3>3, <3>4, <3>5, <3>7
  <2> HIDE DEF e
  <2>5. (WSession(d))'
    <3>1. InEntry' /\ wpc' # "open"
      BY <2>1 DEF InEntry
    <3>2. (arc[Last].type)' = "file"
      BY <2>4 DEF Last
    <3> QED
      BY <1>5, <2>1, <2>4, <3>1, <3>2 DEF WSession
  <2>6. (RSession(d))'
    <3>1. Len(wtree') \in Nat
      BY <1>4, <2>1
    <3> QED
      BY <1>1, <3>1, IdleReader
  <2>7. Intact'
    BY <2>1, <2>4, <2>5, <2>6 DEF Intact
  <2> QED
    BY <1>2, <2>1, <2>7 DEF RestoreInv
<1> QED
  BY <1>6, <1>7

(* The other steps of the writer change one field of the last entry. *)
LEMMA LastChanged ==
  ASSUME RestoreInv, wpc \in {"size", "compress", "copy", "crc"},
         NEW e, SameEntry(e, arc[Last]), arc' = [arc EXCEPT ![Last] = e]
  PROVE  Len(arc') = Len(arc) /\ \A k \in 1 .. Len(arc) : SameEntry(arc'[k], arc[k])
<1>1. arc \in Seq(Entry) /\ Last \in 1 .. Len(arc)
  <2>1. arc # <<>> /\ TypeInv
    BY DEF RestoreInv, TypeInv, WriterFacts, InEntry
  <2> QED
    BY <2>1, LastType DEF TypeInv, ATypeOK, WTypeOK, FormatTypeOK
<1>2. Len(arc') = Len(arc) /\ \A k \in 1 .. Len(arc) : arc'[k] = IF k = Last THEN e ELSE arc[k]
  <2>1. arc \in Seq(Entry \union {e}) /\ e \in Entry \union {e}
    BY <1>1, SeqMonotonic
  <2> QED
    BY <1>1, <2>1, ExceptSeq
<1> QED
  BY <1>2 DEF SameEntry

LEMMA RestoreWriter ==
  ASSUME RestoreInv, ~WEnded, WStep \/ WIoError \/ Crash, TypeInv',
         UNCHANGED <<rvars, faults>>
  PROVE  RestoreInv'
<1> DEFINE Alike == Len(arc') = Len(arc) /\ \A k \in 1 .. Len(arc) : SameEntry(arc'[k], arc[k])
<1>1. arc' = arc => Alike
  BY DEF SameEntry
<1>2. "damage" \notin faults
  BY DEF RestoreInv
<1>3. PICK c : Numbered(arc, input, wtree, c) /\ WSession(c)
  BY <1>2 DEF RestoreInv, Intact
<1>4. arc \in Seq(Entry) /\ wpos \in Nat
  BY DEF RestoreInv, TypeInv, ATypeOK, WTypeOK, FormatTypeOK
<1>5. wpc \in {"size", "compress", "copy"} => arc[Last].type = "file"
  BY <1>3 DEF WSession
<1>6. CASE WriteDir
  BY <1>6, RestoreWriteDir
<1>7. CASE WriteFileHeader
  BY <1>7, RestoreWriteFileHeader
<1>8. CASE OpenArchive
  <2>1. arc = <<>> /\ arc' = <<>>
    BY <1>3, <1>4, <1>8, EmptySeq DEF OpenArchive, WSession, InEntry
  <2> QED
    BY <1>1, <1>8, <2>1, RestoreUpdate DEF OpenArchive, InEntry
<1>9. CASE WriteHeader
  BY <1>1, <1>9, RestoreUpdate DEF WriteHeader, InEntry
<1>10. CASE CompressChunk \/ CopyEnd
  BY <1>1, <1>10, RestoreUpdate DEF CompressChunk, CopyEnd, InEntry
<1>11. CASE KeepCompressed \/ WriteSize
  <2>1. SameEntry([arc[Last] EXCEPT !.num = TotalBytes(wbuf)], arc[Last])
    <3>1. arc[Last] \in Entry /\ arc[Last].type = "file"
      BY <1>5, <1>11, LastType
         DEF KeepCompressed, WriteSize, RestoreInv, TypeInv, WriterFacts, InEntry
    <3> QED
      BY <3>1 DEF SameEntry, Entry
  <2>2. arc' = [arc EXCEPT ![Last] = [arc[Last] EXCEPT !.num = TotalBytes(wbuf)]]
    BY <1>11 DEF KeepCompressed, WriteSize
  <2>3. Alike
    BY <1>11, <2>1, <2>2, LastChanged DEF KeepCompressed, WriteSize
  <2> HIDE DEF Alike
  <2>4. /\ UNCHANGED <<input, wtree, wdir, wpos>> /\ wpc' = "copy"
        /\ wpc \in {"size", "compress"}
    BY <1>11 DEF KeepCompressed, WriteSize
  <2> QED
    BY <2>3, <2>4, RestoreUpdate DEF InEntry, Alike
<1>12. CASE FallBackToStored
  <2>1. SameEntry([arc[Last] EXCEPT !.comp = "stored"], arc[Last])
    <3>1. arc[Last] \in Entry /\ arc[Last].type = "file"
      BY <1>5, <1>12, LastType
         DEF FallBackToStored, RestoreInv, TypeInv, WriterFacts, InEntry
    <3> QED
      BY <3>1 DEF SameEntry, Entry
  <2>2. arc' = [arc EXCEPT ![Last] = [arc[Last] EXCEPT !.comp = "stored"]]
    BY <1>12 DEF FallBackToStored
  <2>3. Alike
    BY <1>12, <2>1, <2>2, LastChanged DEF FallBackToStored
  <2> HIDE DEF Alike
  <2>4. UNCHANGED <<input, wtree, wdir, wpos>> /\ wpc' = "size" /\ wpc = "compress"
    BY <1>12 DEF FallBackToStored
  <2> QED
    BY <2>3, <2>4, RestoreUpdate DEF InEntry, Alike
<1>13. CASE CopyUnit
  <2> DEFINE e == [arc[Last] EXCEPT !.data = Append(@, wbuf[wcnt + 1])]
  <2>1. SameEntry(e, arc[Last])
    <3>1. arc[Last] \in Entry /\ arc[Last].type = "file"
      BY <1>5, <1>13, LastType DEF CopyUnit, RestoreInv, TypeInv, WriterFacts, InEntry
    <3> QED
      BY <3>1 DEF SameEntry, Entry
  <2>2. arc' = [arc EXCEPT ![Last] = e]
    BY <1>13 DEF CopyUnit
  <2> HIDE DEF e
  <2>3. Alike
    BY <1>13, <2>1, <2>2, LastChanged DEF CopyUnit
  <2> HIDE DEF Alike
  <2>4. UNCHANGED <<input, wtree, wdir, wpos, wpc>> /\ wpc = "copy"
    BY <1>13 DEF CopyUnit
  <2> QED
    BY <2>3, <2>4, RestoreUpdate DEF InEntry, Alike
<1>14. CASE WriteCrc
  <2>1. SameEntry([arc[Last] EXCEPT !.crc = wcrc], arc[Last])
    <3>1. arc[Last] \in Entry
      BY <1>14, LastType DEF WriteCrc, RestoreInv, TypeInv, WriterFacts, InEntry
    <3> QED
      BY <3>1 DEF SameEntry, Entry
  <2>2. arc' = [arc EXCEPT ![Last] = [arc[Last] EXCEPT !.crc = wcrc]]
    BY <1>14 DEF WriteCrc
  <2>3. Alike
    BY <1>14, <2>1, <2>2, LastChanged DEF WriteCrc
  <2> HIDE DEF Alike
  <2>4. UNCHANGED <<input, wtree, wdir>> /\ wpos' = wpos + 1 /\ wpc' = "entry" /\ wpc = "crc"
    BY <1>14 DEF WriteCrc
  <2> QED
    BY <2>3, <2>4, RestoreUpdate DEF InEntry, Alike
<1>15. CASE CloseArchive \/ WIoError \/ Crash
  <2>1. WEnded' /\ UNCHANGED <<arc, input, wtree, wdir>>
    BY <1>15 DEF CloseArchive, WIoError, Crash, WEnded
  <2> QED
    BY <1>1, <2>1, RestoreUpdate
<1> QED
  BY <1>6, <1>7, <1>8, <1>9, <1>10, <1>11, <1>12, <1>13, <1>14, <1>15 DEF WStep

----------------------------------------------------------------------------
(* The archive file loses its end. *)
LEMMA StumpsAlike ==
  ASSUME NEW e \in Entry, NEW r \in Stumps(e)
  PROVE  SameEntry(r, e)
<1>1. \A d : SameEntry([e EXCEPT !.data = d, !.crc = NoCrc], e)
  BY DEF SameEntry, Entry
<1>2. SameEntry([e EXCEPT !.num = Unwritten, !.data = <<>>, !.crc = NoCrc], e)
  BY DEF SameEntry, Entry
<1>3. \A k : [e EXCEPT !.data = SubSeq(@, 1, k), !.crc = NoCrc] =
             [e EXCEPT !.data = SubSeq(e.data, 1, k), !.crc = NoCrc]
  OBVIOUS
<1> QED
  BY <1>1, <1>2, <1>3 DEF Stumps

LEMMA CutAlike ==
  ASSUME RestoreInv, Cut
  PROVE  Len(arc') <= Len(arc) /\ \A k \in 1 .. Len(arc') : SameEntry(arc'[k], arc[k])
<1>1. arc \in Seq(Entry) /\ Len(arc) \in Nat
  BY DEF RestoreInv, TypeInv, ATypeOK, WTypeOK, FormatTypeOK
<1>2. CASE arc' = <<>>
  BY <1>1, <1>2
<1>3. ASSUME NEW k \in 1 .. Len(arc)
      PROVE  /\ SubSeq(arc, 1, k - 1) \in Seq(Entry) /\ Len(SubSeq(arc, 1, k - 1)) = k - 1
             /\ \A i \in 1 .. k - 1 : SubSeq(arc, 1, k - 1)[i] = arc[i]
  <2>1. \A i \in 1 .. k - 1 : arc[i] \in Entry
    BY <1>1, ElementOfSeq
  <2> QED
    BY <1>1, <2>1, SubSeqProperties
<1>4. CASE \E k \in 1 .. Len(arc) : arc' = SubSeq(arc, 1, k - 1)
  <2>1. PICK k \in 1 .. Len(arc) : arc' = SubSeq(arc, 1, k - 1)
    BY <1>4
  <2>2. Len(arc') = k - 1 /\ \A i \in 1 .. k - 1 : arc'[i] = arc[i]
    BY <1>3, <2>1
  <2> QED
    BY <1>1, <2>2 DEF SameEntry
<1>5. CASE \E k \in 1 .. Len(arc) : \E e \in Stumps(arc[k]) :
             arc' = Append(SubSeq(arc, 1, k - 1), e)
  <2>1. PICK k \in 1 .. Len(arc) : \E e \in Stumps(arc[k]) :
          arc' = Append(SubSeq(arc, 1, k - 1), e)
    BY <1>5
  <2> PICK e \in Stumps(arc[k]) : arc' = Append(SubSeq(arc, 1, k - 1), e)
    BY <2>1
  <2>2. arc[k] \in Entry
    BY <1>1, ElementOfSeq
  <2>3. e \in Entry /\ SameEntry(e, arc[k])
    BY <2>2, StumpsType, StumpsAlike
  <2>4. Len(arc') = (k - 1) + 1 /\ arc'[(k - 1) + 1] = e /\ \A i \in 1 .. k - 1 : arc'[i] = arc[i]
    BY <1>3, <2>3, AppendProperties
  <2>5. (k - 1) + 1 = k
    BY <1>1
  <2>6. ASSUME NEW i \in 1 .. k PROVE SameEntry(arc'[i], arc[i])
    <3>1. i = k \/ i \in 1 .. k - 1
      OBVIOUS
    <3> QED
      BY <2>3, <2>4, <2>5, <3>1 DEF SameEntry
  <2> QED
    BY <1>1, <2>4, <2>5, <2>6
<1> QED
  BY <1>2, <1>4, <1>5 DEF Cut

LEMMA RestoreMedium ==
  ASSUME RestoreInv, TypeInv', Cut \/ Damage
  PROVE  RestoreInv'
<1>1. /\ WEnded /\ rpc = "idle" /\ UNCHANGED wvars /\ UNCHANGED rvars
  BY DEF Cut, Damage, AtRest
<1>2. WEnded' /\ UNCHANGED <<input, wtree>>
  BY <1>1 DEF WEnded, wvars
<1>3. CASE Damage
  BY <1>2, <1>3 DEF RestoreInv, Damage
<1>4. CASE Cut
  <2> SUFFICES ASSUME "damage" \notin faults' PROVE Intact'
    BY <1>2 DEF RestoreInv
  <2>1. "damage" \notin faults
    BY <1>4 DEF Cut
  <2>2. PICK c : Numbered(arc, input, wtree, c) /\ RSession(c)
    BY <2>1 DEF RestoreInv, Intact
  <2>3. Len(arc) \in Nat /\ Len(arc') \in Nat /\ Len(input) \in Nat
    BY DEF RestoreInv, TypeInv, ATypeOK, WTypeOK, FormatTypeOK
  <2>4. Numbered(arc', input, wtree, c)
    BY <1>4, <2>2, <2>3, CutAlike, Renumbered
  <2>5. (WSession(c))'
    BY <1>2 DEF WSession
  <2>6. (RSession(c))'
    BY <1>1, <1>2, <2>2 DEF RSession, rvars
  <2> QED
    BY <1>2, <2>4, <2>5, <2>6 DEF Intact
<1> QED
  BY <1>3, <1>4

----------------------------------------------------------------------------
(* The reader. *)
LEMMA PlacedAlike ==
  ASSUME RestoreInv, NEW c, Numbered(arc, input, wtree, c), RSession(c),
         rpc = "entry", rpos < Len(arc), Reading.num # Unwritten
  PROVE  LET placed == Placed(Reading)
             m      == c[rpos + 1]
         IN  /\ m \in 0 .. Len(wtree)
             /\ placed = Found(SubSeq(wtree, 1, m), m)
             /\ FullName(Reading, placed) = input[rpos + 1].path
<1> DEFINE m == c[rpos + 1]
           x == input[rpos + 1]
<1>1. /\ wtree \in Tree(Name) /\ WellFormed(wtree) /\ Len(wtree) \in Nat
      /\ arc \in Seq(Entry) /\ rpos \in Nat
  BY DEF RestoreInv, TypeInv, ATypeOK, WTypeOK, FormatTypeOK, RTypeOK, Tree, rpos
<1>2. /\ rtree = SubSeq(wtree, 1, Len(rtree))
      /\ Len(rtree) = c[rpos] /\ rnode = c[rpos]
  BY DEF RSession
<1>3. /\ rpos + 1 \in 1 .. Len(arc) /\ (rpos + 1) - 1 = rpos
      /\ rpos \in 0 .. Len(arc) /\ rpos + 1 \in 0 .. Len(arc)
  BY <1>1
<1>4. /\ Restores(Reading, x, wtree, c[rpos], m)
      /\ m \in 0 .. Len(wtree) /\ c[rpos] \in 0 .. Len(wtree)
  BY <1>3 DEF Numbered, Reading, Nodes
<1>5. Reading \in Entry /\ Reading.type \in Types
  <2>1. Reading \in Entry
    BY <1>1, <1>3, ElementOfSeq DEF Reading
  <2> QED
    BY <2>1 DEF Entry
<1> HIDE DEF m, x
<1>6. PathOf(SubSeq(wtree, 1, m), m) = PathOf(wtree, m)
  BY <1>1, <1>4, Beginning
<1>7. CASE Reading.type = "file"
  <2>1. m = c[rpos] /\ x.path = PathOf(wtree, m) \o Reading.name
    BY <1>4, <1>7 DEF Restores
  <2>2. Placed(Reading) = Found(rtree, rnode)
    BY <1>7 DEF Placed
  <2>3. Placed(Reading) = Found(SubSeq(wtree, 1, m), m)
    BY <1>2, <2>1, <2>2
  <2>4. \A b, i : FullName(Reading, Found(b, i)) = PathOf(b, i) \o Reading.name
    BY <1>7 DEF FullName, Found
  <2>5. FullName(Reading, Placed(Reading)) = PathOf(SubSeq(wtree, 1, m), m) \o Reading.name
    BY <2>3, <2>4
  <2> QED
    BY <1>4, <1>6, <2>1, <2>3, <2>5 DEF m, x
<1>8. CASE Reading.type # "file"
  <2>1. /\ m = c[rpos] + 1 /\ m \in 1 .. Len(wtree) /\ x.path = PathOf(wtree, m)
        /\ Reading.name = <<wtree[m].name>>
        /\ Reading.type = "dir" => wtree[m].parent = Root
        /\ Reading.type = "subdir" => Reading.num \in {wtree[m].parent, Unwritten}
    BY <1>4, <1>8 DEF Restores
  <2>2. Reading.type \in {"dir", "subdir"} /\ Reading.name[1] = wtree[m].name
    BY <1>5, <1>8, <2>1 DEF Types
  <2>3. Placed(Reading) = InsertAtParent(rtree, wtree[m].parent, wtree[m].name)
    BY <2>1, <2>2 DEF Placed
  <2>4. m - 1 = c[rpos]
    BY <1>4, <2>1
  <2>5. Placed(Reading) = Found(SubSeq(wtree, 1, m), m)
    BY <1>1, <1>2, <2>1, <2>3, <2>4, InsertNext
  <2>6. FullName(Reading, Placed(Reading)) = PathOf(SubSeq(wtree, 1, m), m)
    BY <1>8, <2>5 DEF FullName, Found
  <2> QED
    BY <1>4, <1>6, <2>1, <2>5, <2>6 DEF m, x
<1> QED
  BY <1>7, <1>8

LEMMA RestoreReader ==
  ASSUME RestoreInv, TypeInv', WEnded, RStep \/ RIoError, UNCHANGED <<hdr, arc, wvars>>,
         "damage" \in faults => "damage" \in faults'
  PROVE  RestoreInv'
<1>1. WEnded' /\ UNCHANGED <<arc, input, wtree>>
  BY DEF WEnded, wvars
<1>2. SUFFICES ASSUME "damage" \notin faults' PROVE Intact'
  BY <1>1 DEF RestoreInv
<1>3. PICK c : Numbered(arc, input, wtree, c) /\ RSession(c)
  BY <1>2 DEF RestoreInv, Intact
<1>4. SUFFICES (RSession(c))'
  BY <1>1, <1>3 DEF Intact, WSession
<1>5. wtree \in Tree(Name) /\ WellFormed(wtree) /\ Len(arc) \in Nat /\ rpos \in Nat
  BY DEF RestoreInv, TypeInv, ATypeOK, WTypeOK, FormatTypeOK, RTypeOK, Tree, rpos
<1>6. CASE rpc' \in {"failed", "ok"} /\ UNCHANGED <<rtree, rlog, rnode>>
  BY <1>1, <1>3, <1>6 DEF RSession
<1>7. CASE Refuse \/ RIoError \/ CloseInput \/ MissingData
  BY <1>6, <1>7 DEF Refuse, RIoError, CloseInput, MissingData
<1>8. CASE ReadHeader
  <2> SUFFICES ASSUME ~Refuse PROVE (RSession(c))'
    BY <1>7
  <2>1. rpc = "idle" /\ rpc' = "entry" /\ UNCHANGED <<rtree, rnode, rlog>>
    BY <1>8 DEF ReadHeader
  <2>2. c[0] = 0 /\ Len(<<>>) = 0
    BY <1>3 DEF Numbered, Root
  <2> QED
    BY <1>1, <1>3, <1>5, <2>1, <2>2 DEF RSession, rpos, Root
<1>9. CASE ReadMetaEntry
  <2> SUFFICES ASSUME ~Refuse PROVE (RSession(c))'
    BY <1>7
  <2> DEFINE placed == Placed(Reading)
             m == c[rpos + 1]
  <2>1. /\ rpc = "entry" /\ rpos < Len(arc) /\ Reading.num # Unwritten
        /\ rtree' = placed.tree /\ rnode' = placed.node
        /\ rfn' = FullName(Reading, placed)
        /\ rpc' \in {"ask", "data", "mkdir", "crc"} /\ UNCHANGED rlog
    <3>1. ~(rpos >= Len(arc))
      BY <1>9 DEF ReadMetaEntry
    <3> QED
      BY <1>5, <1>9, <3>1 DEF ReadMetaEntry
  <2>2. /\ m \in 0 .. Len(wtree)
        /\ placed = Found(SubSeq(wtree, 1, m), m)
        /\ FullName(Reading, placed) = input[rpos + 1].path
    BY <1>3, <2>1, PlacedAlike
  <2> HIDE DEF placed, m
  <2>3. Len(SubSeq(wtree, 1, m)) = m
    BY <1>5, <2>2, Beginning
  <2>4. rtree' = SubSeq(wtree, 1, m) /\ rnode' = m /\ Len(rtree') = m
    BY <2>1, <2>2, <2>3 DEF Found
  <2>5. rpos' = rpos
    BY <2>1 DEF rpos
  <2>6. m <= Len(wtree)
    BY <1>5, <2>2 DEF Tree
  <2> QED
    BY <1>1, <2>1, <2>2, <2>4, <2>5, <2>6 DEF RSession, m
<1>10. CASE /\ rpc \in {"ask", "data", "mkdir", "crc"}
            /\ rpc' \in {"ask", "data", "mkdir", "crc", "failed"}
            /\ UNCHANGED <<rtree, rlog, rnode, rfn>>
  <2>1. rpos' = rpos
    BY <1>10 DEF rpos
  <2> QED
    BY <1>1, <1>3, <1>10, <2>1 DEF RSession
<1>11. CASE OpenOutput \/ CopyStored \/ DataEnd \/ MakeDir \/ Decompress
  <2> SUFFICES ASSUME ~Refuse PROVE (RSession(c))'
    BY <1>7
  <2> QED
    BY <1>10, <1>11 DEF OpenOutput, CopyStored, DataEnd, MakeDir, Decompress, Take
<1>12. CASE KeepFile \/ CheckCrc
  <2> SUFFICES ASSUME ~Refuse PROVE (RSession(c))'
    BY <1>7
  <2>1. /\ rpc \in {"ask", "crc"} /\ rpc' = "entry" /\ UNCHANGED <<rtree, rnode>>
        /\ \E o : rlog' = Append(rlog, o)
    BY <1>12 DEF KeepFile, CheckCrc
  <2>2. rpos' = rpos + 1
    <3>1. rlog \in Seq(Outcome)
      BY DEF RestoreInv, TypeInv, ATypeOK, RTypeOK
    <3> QED
      BY <2>1, <3>1 DEF rpos
  <2>3. rpos < Len(arc)
    BY <2>1 DEF RestoreInv, TypeInv, ReaderFacts, rpos
  <2>4. rpos' <= Len(arc')
    BY <1>1, <1>5, <2>2, <2>3
  <2> QED
    BY <1>1, <1>3, <2>1, <2>2, <2>4 DEF RSession
<1> QED
  BY <1>7, <1>8, <1>9, <1>11, <1>12 DEF RStep

----------------------------------------------------------------------------
LEMMA RestoreInit == Init => RestoreInv
<1> SUFFICES ASSUME Init PROVE RestoreInv
  OBVIOUS
<1>1. TypeInv
  BY TypeInit
<1>2. IsPlan(input) /\ Len(input) \in Nat
  BY InputsAssumption DEF Init, WInit
<1>3. WellFormed(wtree) /\ faults = {} /\ ~WEnded
  BY DEF Init, WInit, WellFormed, WEnded
<1>4. Intact
  <2>1. PICK c : c = [k \in 0 .. Len(input) |-> 0]
    OBVIOUS
  <2>2. Numbered(arc, input, wtree, c)
    BY <1>2, <2>1 DEF Init, WInit, Numbered, Nodes, Root
  <2>3. PathOf(<<>>, 0) = <<>>
    <3>1. <<>> \in Tree(Name) /\ WellFormed(<<>>) /\ Root \in Nodes(<<>>)
      BY DEF Tree, WellFormed, Nodes, Root
    <3> QED
      BY <3>1, PathOfNode DEF Root
  <2>4. WSession(c)
    BY <1>2, <2>1, <2>3 DEF Init, WInit, WSession, InEntry
  <2>5. SubSeq(<<>>, 1, 0) = <<>>
    BY SubSeqEmpty
  <2>6. RSession(c)
    BY <2>5 DEF Init, WInit, RInit, RSession
  <2> QED
    BY <2>2, <2>4, <2>6 DEF Intact
<1> QED
  BY <1>1, <1>2, <1>3, <1>4 DEF RestoreInv

LEMMA RestoreStep == RestoreInv /\ [Next]_avars => RestoreInv'
<1> SUFFICES ASSUME RestoreInv, [Next]_avars PROVE RestoreInv'
  OBVIOUS
<1>1. TypeInv'
  BY TypeStep DEF RestoreInv
<1>2. CASE WriterStep \/ WriterError \/ Crash
  <2>1. ~WEnded
    <3>1. CASE WriterStep \/ WriterError
      BY <3>1, TypeWriter DEF RestoreInv, WriterStep, WriterError
    <3> QED
      BY <1>2, <3>1 DEF Crash
  <2>2. WStep \/ WIoError \/ Crash
    BY <1>2 DEF WriterStep, WriterError
  <2>3. UNCHANGED <<rvars, faults>>
    BY <1>2 DEF WriterStep, WriterError, Crash
  <2> QED
    BY <1>1, <2>1, <2>2, <2>3, RestoreWriter
<1>3. CASE Cut \/ Damage
  BY <1>1, <1>3, RestoreMedium
<1>4. CASE ReaderStep \/ ReaderError
  BY <1>1, <1>4, RestoreReader DEF ReaderStep, ReaderError
<1>5. CASE UNCHANGED avars
  <2>1. UNCHANGED <<arc, wvars, rvars, faults>>
    BY <1>5 DEF avars
  <2>2. WEnded' = WEnded /\ UNCHANGED <<input, wtree>>
    BY <2>1 DEF WEnded, wvars
  <2>3. ASSUME NEW c, Numbered(arc, input, wtree, c) /\ WSession(c) /\ RSession(c)
        PROVE  (Numbered(arc, input, wtree, c) /\ WSession(c) /\ RSession(c))'
    BY <2>1, <2>3 DEF WSession, RSession, InEntry, Last, rpos, WEnded, wvars, rvars
  <2>4. Intact => Intact'
    BY <2>3 DEF Intact
  <2> QED
    BY <1>1, <2>1, <2>2, <2>4 DEF RestoreInv
<1> QED
  BY <1>2, <1>3, <1>4, <1>5 DEF Next, Over

(* For every plan, in whatever order its directories come: the index under *)
(* which the reader inserts a directory is the one the writer gave it,     *)
(* unless the archive file was damaged; that it ends early, or that either *)
(* program failed or crashed, does not disturb the numbering.              *)
THEOREM TreesStayAlike == Spec => []TreesAlike
<1>1. RestoreInv => TreesAlike
  BY DEF RestoreInv, Intact, RSession, TreesAlike
<1> QED
  BY <1>1, RestoreInit, RestoreStep, PTL DEF Spec

(* For every plan: the full path the reader gives to an entry - its last   *)
(* directory and the name in the archive, or the path of a node of its own *)
(* tree - is the path the writer was given, unless the file was damaged.   *)
THEOREM NamesAreRestored == Spec => []NamesRestored
<1>1. RestoreInv => NamesRestored
  BY DEF RestoreInv, Intact, RSession, NamesRestored
<1> QED
  BY <1>1, RestoreInit, RestoreStep, PTL DEF Spec

----------------------------------------------------------------------------
LastName(path) == path[Len(path)]

EncUnits(chunks) == [k \in 1 .. Len(chunks) |-> Enc(chunks[k])]

Payload(x, comp) == IF comp = "compressed" THEN EncUnits(x.chunks) ELSE RawUnits(x.chunks)

(* The sum of header, number and payload of an entry. *)
SumOf(type, comp, path, num, data) ==
  [HeaderCrc(type, comp, path) EXCEPT !.num = num, !.data = data]

(* Entry e was written to its end for source x. *)
Sealed(e, x) ==
  /\ e.type = "file" <=> x.kind = "file"
  /\ e.type # "file" => e.comp = "stored"
  /\ e.name = <<LastName(x.path)>>
  /\ e.data = Payload(x, e.comp)
  /\ e.num \in Nat
  /\ e.type = "file" => e.num = TotalBytes(e.data)
  /\ e.type = "dir" => e.num = Root
  /\ e.comp = "compressed" => e.num < TotalBytes(Content(x))
  /\ e.crc = SumOf(e.type, e.comp, x.path, e.num, e.data)

(* The sum of e is the one of such an entry, if it has one at all. *)
Vouched(e, x) ==
  e.crc = NoCrc \/ ~e.crc.ok \/ \E s \in Entry : Sealed(s, x) /\ s.crc = e.crc

(* The sum of e cannot be the one a reader computes. *)
Spoiled(e, x) ==
  \/ e.crc = NoCrc
  \/ ~e.crc.ok
  \/ e.crc.comp # e.comp
  \/ e.type = "subdir" /\ e.crc.num # e.num
  \/ \E j \in 1 .. Len(e.data) : ~e.data[j].ok
  \/ e.name # <<LastName(x.path)>>

Tainted ==
  \/ hdr = NoHeader
  \/ Len(arc) < Len(input)
  \/ \E k \in 1 .. Len(arc) : Spoiled(arc[k], input[k])

(* j is the last directory among the first n entries, or 0. *)
LastDirectory(j, n) ==
  /\ j > 0 => input[j].kind = "dir"
  /\ \A k \in j + 1 .. n : input[k].kind = "file"
  /\ wdir = IF j = 0 THEN <<>> ELSE input[j].path

(* What the writer knows in each phase of an entry. *)
Writing ==
  /\ \E j \in 0 .. Len(arc) : LastDirectory(j, Len(arc))
  /\ wpc \notin {"open", "header"} => hdr = Len(input)
  /\ InEntry =>
       /\ arc[Last].crc = NoCrc
       /\ arc[Last].name = <<LastName(Current.path)>>
  /\ wpc \in {"compress", "size", "copy"} => Current.kind = "file"
  /\ wpc \in {"compress", "size"} => arc[Last].data = <<>>
  /\ wpc = "compress" =>
       /\ arc[Last].comp = "compressed"
       /\ wcnt <= Len(Current.chunks)
       /\ wbuf = [k \in 1 .. wcnt |-> Enc(Current.chunks[k])]
       /\ wcrc = HeaderCrc("file", "compressed", Current.path)
  /\ wpc = "size" =>
       /\ arc[Last].comp = "stored"
       /\ wcnt = 0
       /\ wbuf = RawUnits(Current.chunks)
       /\ wcrc = HeaderCrc("file", "stored", Current.path)
  /\ wpc = "copy" =>
       /\ wcnt <= Len(wbuf)
       /\ wbuf = Payload(Current, arc[Last].comp)
       /\ arc[Last].data = SubSeq(wbuf, 1, wcnt)
       /\ arc[Last].num = TotalBytes(wbuf)
       /\ arc[Last].comp = "compressed" => TotalBytes(wbuf) < TotalBytes(Content(Current))
       /\ wcrc = SumOf("file", arc[Last].comp, Current.path, TotalBytes(wbuf),
                       IF arc[Last].comp = "stored" THEN SubSeq(wbuf, 1, wcnt) ELSE wbuf)
  /\ wpc = "crc" => Sealed([arc[Last] EXCEPT !.crc = wcrc], Current)

(* An entry of the archive, through any fault. *)
Kept(e, x) ==
  /\ e.type = "file" <=> x.kind = "file"
  /\ \E n \in Name : e.name = <<n>>
  /\ e.type # "file" => e.data = <<>>
  /\ Vouched(e, x)

Unharmed == "cut" \notin faults /\ "damage" \notin faults

SealInv ==
  /\ RestoreInv
  /\ Len(arc) <= Len(input)
  /\ hdr \in {NoHeader, Len(input)}
  /\ \A k \in 1 .. Len(arc) : Kept(arc[k], input[k])
  /\ "damage" \notin faults =>
       \A k \in 1 .. Len(arc) : arc[k].crc = NoCrc \/ Sealed(arc[k], input[k])
  /\ Unharmed => wpos <= Len(arc) /\ \A k \in 1 .. wpos : Sealed(arc[k], input[k])
  /\ Unharmed /\ wpc = "done" => hdr = Len(input) /\ wpos = Len(input) /\ Len(arc) = Len(input)
  /\ ~Unharmed => Tainted
  /\ ~WEnded => Writing

----------------------------------------------------------------------------
(* Where the writer is in the archive, and what it works on. *)
LEMMA WriterPlace ==
  ASSUME SealInv, ~WEnded
  PROVE  /\ Len(arc) = IF InEntry THEN wpos + 1 ELSE wpos
         /\ Len(arc) \in Nat /\ wpos \in Nat /\ Len(input) \in Nat
         /\ arc \in Seq(Entry) /\ Unharmed /\ "damage" \notin faults
         /\ InEntry => Last = wpos + 1 /\ Last \in 1 .. Len(arc) /\ arc[Last] \in Entry
         /\ wpc \in {"compress", "size", "copy"} => arc[Last].type = "file"
         /\ wpos < Len(input) => Current \in Source /\ Current.path \in Path \ {<<>>}
<1>1. faults = {}
  BY DEF SealInv, RestoreInv
<1>2. PICK c : WSession(c)
  BY <1>1 DEF SealInv, RestoreInv, Intact
<1>3. TypeInv
  BY DEF SealInv, RestoreInv
<1>4. Len(arc) \in Nat /\ wpos \in Nat /\ Len(input) \in Nat /\ arc \in Seq(Entry)
  BY <1>3 DEF TypeInv, ATypeOK, WTypeOK, FormatTypeOK
<1>5. Len(arc) = IF InEntry THEN wpos + 1 ELSE wpos
  BY <1>2 DEF WSession
<1>6. InEntry => Last = wpos + 1 /\ Last \in 1 .. Len(arc) /\ arc[Last] \in Entry
  BY <1>4, <1>5, ElementOfSeq DEF Last
<1>7. wpc \in {"compress", "size", "copy"} => arc[Last].type = "file"
  BY <1>2 DEF WSession
<1>8. wpos < Len(input) => Current \in Source /\ Current.path \in Path \ {<<>>}
  BY <1>3, CurrentType
<1> QED
  BY <1>1, <1>4, <1>5, <1>6, <1>7, <1>8 DEF Unharmed

(* A step of the writer changes nothing but the entry at its place. *)
LEMMA SealFrame ==
  ASSUME SealInv, ~WEnded, RestoreInv', UNCHANGED <<input, faults>>,
         hdr' \in {NoHeader, Len(input)},
         Len(arc) <= Len(arc'), Len(arc') <= Len(input),
         \A k \in 1 .. Len(arc') : k = wpos + 1 \/ (k <= Len(arc) /\ arc'[k] = arc[k]),
         wpos + 1 <= Len(arc') =>
           LET e == arc'[wpos + 1]
           IN  /\ e.type = "file" <=> input[wpos + 1].kind = "file"
               /\ \E n \in Name : e.name = <<n>>
               /\ e.type # "file" => e.data = <<>>
               /\ e.crc = NoCrc \/ (e \in Entry /\ Sealed(e, input[wpos + 1])),
         \/ wpos' = wpos
         \/ wpos' = wpos + 1 /\ wpos + 1 <= Len(arc') /\ Sealed(arc'[wpos + 1], input[wpos + 1]),
         ~WEnded' => Writing',
         wpc' = "done" => hdr' = Len(input) /\ wpos' = Len(input) /\ Len(arc') = Len(input)
  PROVE  SealInv'
<1>1. /\ Len(arc) \in Nat /\ wpos \in Nat /\ Unharmed /\ "damage" \notin faults
      /\ Len(arc) \in {wpos, wpos + 1}
  BY WriterPlace
<1>2. ASSUME NEW k \in 1 .. Len(arc')
      PROVE  Kept(arc'[k], input[k]) /\ (arc'[k].crc = NoCrc \/ Sealed(arc'[k], input[k]))
  <2>1. CASE k = wpos + 1
    BY <2>1 DEF Kept, Vouched
  <2>2. CASE k # wpos + 1
    <3>1. k \in 1 .. Len(arc) /\ arc'[k] = arc[k]
      BY <1>1, <2>2
    <3> QED
      BY <1>1, <3>1 DEF SealInv
  <2> QED
    BY <2>1, <2>2
<1>3. ASSUME NEW k \in 1 .. wpos'
      PROVE  Sealed(arc'[k], input[k])
  <2>1. CASE k = wpos + 1
    BY <1>1, <2>1
  <2>2. CASE k # wpos + 1
    <3>1. k \in 1 .. wpos /\ k \in 1 .. Len(arc')
      BY <1>1, <2>2
    <3> QED
      BY <1>1, <2>2, <3>1 DEF SealInv
  <2> QED
    BY <2>1, <2>2
<1>4. wpos' <= Len(arc')
  <2>1. Len(arc') \in Nat
    BY DEF RestoreInv, TypeInv, ATypeOK, WTypeOK, FormatTypeOK
  <2> QED
    BY <1>1, <2>1
<1>5. Unharmed'
  BY <1>1 DEF Unharmed
<1> QED
  BY <1>2, <1>3, <1>4, <1>5 DEF SealInv

(* A step that leaves the archive alone. *)
LEMMA SealSame ==
  ASSUME SealInv, ~WEnded, RestoreInv', UNCHANGED <<input, faults, arc, wpos>>,
         hdr' \in {hdr, NoHeader, Len(input)},
         ~WEnded' => Writing',
         wpc' = "done" => hdr' = Len(input) /\ wpos = Len(input) /\ Len(arc) = Len(input)
  PROVE  SealInv'
<1>1. hdr' \in {NoHeader, Len(input)} /\ Len(arc) <= Len(input)
  BY DEF SealInv
<1>2. Len(arc) \in Nat /\ wpos \in Nat /\ "damage" \notin faults /\ arc \in Seq(Entry)
  BY WriterPlace
<1>3. ASSUME wpos + 1 <= Len(arc)
      PROVE  LET e == arc[wpos + 1]
             IN  /\ e.type = "file" <=> input[wpos + 1].kind = "file"
                 /\ \E n \in Name : e.name = <<n>>
                 /\ e.type # "file" => e.data = <<>>
                 /\ e.crc = NoCrc \/ (e \in Entry /\ Sealed(e, input[wpos + 1]))
  <2>1. wpos + 1 \in 1 .. Len(arc)
    BY <1>2, <1>3
  <2>2. arc[wpos + 1] \in Entry
    BY <1>2, <2>1, ElementOfSeq
  <2> QED
    BY <1>2, <2>1, <2>2 DEF SealInv, Kept
<1> QED
  BY <1>1, <1>2, <1>3, SealFrame

(* A step that changes the entry at the writer's place. *)
LEMMA SealLast ==
  ASSUME SealInv, RestoreInv', InEntry, NEW e \in Entry, arc' = [arc EXCEPT ![Last] = e],
         e.type = arc[Last].type, e.name = arc[Last].name, e.type # "file" => e.data = <<>>,
         e.crc = NoCrc \/ Sealed(e, Current),
         UNCHANGED <<hdr, input, faults>>,
         wpos' = wpos \/ (wpos' = wpos + 1 /\ Sealed(e, Current)),
         ~WEnded', Writing'
  PROVE  SealInv'
<1>1. ~WEnded
  BY DEF InEntry, WEnded
<1>2. /\ Len(arc) = wpos + 1 /\ Last = wpos + 1 /\ wpos \in Nat /\ arc \in Seq(Entry)
      /\ Len(input) \in Nat
  BY <1>1, WriterPlace
<1>3. Len(arc') = Len(arc) /\ \A k \in 1 .. Len(arc) : arc'[k] = IF k = wpos + 1 THEN e ELSE arc[k]
  BY <1>2, ExceptSeq
<1>4. /\ e.type = "file" <=> input[wpos + 1].kind = "file"
      /\ \E n \in Name : e.name = <<n>>
  BY <1>2 DEF SealInv, Kept
<1>5. arc'[wpos + 1] = e /\ Current = input[wpos + 1]
  BY <1>2, <1>3 DEF Current
<1>6. \A k \in 1 .. Len(arc') : k = wpos + 1 \/ (k <= Len(arc) /\ arc'[k] = arc[k])
  BY <1>2, <1>3
<1>7. hdr' \in {NoHeader, Len(input)} /\ Len(arc) <= Len(arc') /\ Len(arc') <= Len(input)
  BY <1>2, <1>3 DEF SealInv
<1>8. wpc' # "done"
  BY DEF WEnded
<1>9. \/ wpos' = wpos
      \/ wpos' = wpos + 1 /\ wpos + 1 <= Len(arc') /\ Sealed(arc'[wpos + 1], input[wpos + 1])
  BY <1>2, <1>3, <1>5
<1> QED
  BY <1>1, <1>4, <1>5, <1>6, <1>7, <1>8, <1>9, SealFrame

----------------------------------------------------------------------------
(* Sums are records: what they hold, and what adding to one gives. *)
HoldsSum(c, type, comp, path, n, d) ==
  /\ c \in Crc /\ c.type = type /\ c.comp = comp /\ c.path = path
  /\ c.num = n /\ c.data = d /\ c.ok = TRUE

LEMMA EqualCrc ==
  ASSUME NEW type, NEW comp, NEW path, NEW n, NEW d, NEW a, NEW b,
         HoldsSum(a, type, comp, path, n, d), HoldsSum(b, type, comp, path, n, d)
  PROVE  a = b
  BY DEF HoldsSum, Crc

LEMMA SumFields ==
  ASSUME NEW type \in Types, NEW comp \in Comps, NEW path \in Path,
         NEW n \in Nat, NEW d \in Seq(Unit)
  PROVE  HoldsSum(SumOf(type, comp, path, n, d), type, comp, path, n, d)
<1> DEFINE h == HeaderCrc(type, comp, path)
<1>1. HoldsSum(h, type, comp, path, 0, <<>>)
  BY HeaderCrcType DEF HeaderCrc, HoldsSum
<1> HIDE DEF h
<1>2. [h EXCEPT !.num = n, !.data = d] \in Crc
  BY <1>1, CrcUpdates DEF HoldsSum
<1>3. HoldsSum([h EXCEPT !.num = n, !.data = d], type, comp, path, n, d)
  BY <1>1, <1>2 DEF HoldsSum, Crc
<1> QED
  BY <1>3 DEF SumOf, h

LEMMA SumSteps ==
  ASSUME NEW type \in Types, NEW comp \in Comps, NEW path \in Path,
         NEW n \in Nat, NEW d \in Seq(Unit)
  PROVE  /\ HeaderCrc(type, comp, path) = SumOf(type, comp, path, 0, <<>>)
         /\ [HeaderCrc(type, comp, path) EXCEPT !.num = n] = SumOf(type, comp, path, n, <<>>)
         /\ \A u \in Unit : [SumOf(type, comp, path, n, d) EXCEPT !.data = Append(@, u)]
                              = SumOf(type, comp, path, n, Append(d, u))
<1> DEFINE h == HeaderCrc(type, comp, path)
           c == SumOf(type, comp, path, n, d)
<1>1. HoldsSum(h, type, comp, path, 0, <<>>)
  BY HeaderCrcType DEF HeaderCrc, HoldsSum
<1>2. <<>> \in Seq(Unit) /\ 0 \in Nat
  OBVIOUS
<1> HIDE DEF h
<1>3. h = SumOf(type, comp, path, 0, <<>>)
  <2>1. HoldsSum(SumOf(type, comp, path, 0, <<>>), type, comp, path, 0, <<>>)
    BY <1>2, SumFields
  <2> QED
    BY <1>1, <2>1, EqualCrc
<1>4. [h EXCEPT !.num = n] = SumOf(type, comp, path, n, <<>>)
  <2>1. HoldsSum([h EXCEPT !.num = n], type, comp, path, n, <<>>)
    BY <1>1 DEF HoldsSum, Crc
  <2>2. HoldsSum(SumOf(type, comp, path, n, <<>>), type, comp, path, n, <<>>)
    BY <1>2, SumFields
  <2> QED
    BY <2>1, <2>2, EqualCrc
<1>5. ASSUME NEW u \in Unit
      PROVE  [c EXCEPT !.data = Append(@, u)] = SumOf(type, comp, path, n, Append(d, u))
  <2>1. HoldsSum(c, type, comp, path, n, d)
    BY SumFields
  <2> HIDE DEF c
  <2>2. Append(d, u) \in Seq(Unit)
    OBVIOUS
  <2>3. HoldsSum([c EXCEPT !.data = Append(@, u)], type, comp, path, n, Append(d, u))
    <3>1. [c EXCEPT !.data = Append(@, u)] \in Crc
      BY <2>1, CrcUpdates DEF HoldsSum
    <3> QED
      BY <2>1, <3>1 DEF Crc, HoldsSum
  <2>4. HoldsSum(SumOf(type, comp, path, n, Append(d, u)), type, comp, path, n, Append(d, u))
    BY <2>2, SumFields
  <2> QED
    BY <2>3, <2>4, EqualCrc
<1> QED
  BY <1>3, <1>4, <1>5 DEF h, c

----------------------------------------------------------------------------
(* Payloads. *)
LEMMA PayloadUnits ==
  ASSUME NEW chunks \in Seq(Chunk)
  PROVE  /\ Len(RawUnits(chunks)) = Len(chunks) /\ RawUnits(chunks) \in Seq(Unit)
         /\ Len(EncUnits(chunks)) = Len(chunks) /\ EncUnits(chunks) \in Seq(Unit)
         /\ \A k \in 1 .. Len(chunks) :
              /\ RawUnits(chunks)[k] = Raw(chunks[k]) /\ EncUnits(chunks)[k] = Enc(chunks[k])
         /\ chunks = <<>> => RawUnits(chunks) = <<>>
<1>1. Len(chunks) \in Nat
  OBVIOUS
<1>2. \A k \in 1 .. Len(chunks) : Enc(chunks[k]) \in Unit
  BY ElementOfSeq, UnitValues
<1>3. RawUnits(chunks) \in Seq(Unit) /\ Len(RawUnits(chunks)) = Len(chunks)
  BY <1>1, RawUnitsType DEF RawUnits
<1>4. EncUnits(chunks) \in Seq(Unit) /\ Len(EncUnits(chunks)) = Len(chunks)
  BY <1>1, <1>2 DEF EncUnits
<1>5. chunks = <<>> => RawUnits(chunks) = <<>>
  BY <1>3, EmptySeq
<1> QED
  BY <1>3, <1>4, <1>5 DEF RawUnits, EncUnits

(* What the units of an entry that was written to its end decode to. *)
LEMMA SealedContent ==
  ASSUME NEW x \in Source, NEW comp
  PROVE  /\ Len(Payload(x, comp)) = Len(x.chunks) /\ Payload(x, comp) \in Seq(Unit)
         /\ \A k \in 1 .. Len(x.chunks) :
              LET u == Payload(x, comp)[k]
              IN  /\ u.ok /\ (u.enc <=> comp = "compressed")
                  /\ Decoded(u) = Content(x)[k]
         /\ Content(x) \in Seq(Unit) /\ Len(Content(x)) = Len(x.chunks)
         /\ [k \in 1 .. Len(Payload(x, comp)) |-> Decoded(Payload(x, comp)[k])] = Content(x)
<1>1. x.chunks \in Seq(Chunk) /\ Len(x.chunks) \in Nat
  BY DEF Source
<1>2. /\ Len(Payload(x, comp)) = Len(x.chunks) /\ Payload(x, comp) \in Seq(Unit)
      /\ Content(x) \in Seq(Unit) /\ Len(Content(x)) = Len(x.chunks)
  BY <1>1, PayloadUnits DEF Payload, Content
<1>3. ASSUME NEW k \in 1 .. Len(x.chunks)
      PROVE  LET u == Payload(x, comp)[k]
             IN  /\ u.ok /\ (u.enc <=> comp = "compressed")
                 /\ Decoded(u) = Content(x)[k]
  <2>1. Content(x)[k] = Raw(x.chunks[k])
    BY <1>1, PayloadUnits DEF Content
  <2>2. /\ Decoded(Raw(x.chunks[k])) = Raw(x.chunks[k])
        /\ Decoded(Enc(x.chunks[k])) = Raw(x.chunks[k])
    <3>1. Raw(x.chunks[k]) \in Unit /\ Enc(x.chunks[k]) \in Unit
      BY <1>1, ElementOfSeq, UnitValues
    <3>2. \A u \in Unit : /\ Decoded(u) \in Unit /\ Decoded(u).chunk = u.chunk
                          /\ Decoded(u).enc = FALSE /\ Decoded(u).ok = u.ok
      BY DEF Decoded, Unit
    <3>3. \A u, v \in Unit : u.chunk = v.chunk /\ u.enc = v.enc /\ u.ok = v.ok => u = v
      BY DEF Unit
    <3>4. /\ Raw(x.chunks[k]).chunk = x.chunks[k] /\ Enc(x.chunks[k]).chunk = x.chunks[k]
          /\ Raw(x.chunks[k]).enc = FALSE /\ Raw(x.chunks[k]).ok = TRUE
          /\ Enc(x.chunks[k]).ok = TRUE
      BY DEF Raw, Enc
    <3>5. /\ Decoded(Raw(x.chunks[k])) \in Unit
          /\ Decoded(Raw(x.chunks[k])).chunk = Raw(x.chunks[k]).chunk
          /\ Decoded(Raw(x.chunks[k])).enc = Raw(x.chunks[k]).enc
          /\ Decoded(Raw(x.chunks[k])).ok = Raw(x.chunks[k]).ok
      BY <3>1, <3>2, <3>4
    <3>6. /\ Decoded(Enc(x.chunks[k])) \in Unit
          /\ Decoded(Enc(x.chunks[k])).chunk = Raw(x.chunks[k]).chunk
          /\ Decoded(Enc(x.chunks[k])).enc = Raw(x.chunks[k]).enc
          /\ Decoded(Enc(x.chunks[k])).ok = Raw(x.chunks[k]).ok
      BY <3>1, <3>2, <3>4
    <3> QED
      BY <3>1, <3>3, <3>5, <3>6
  <2>3. Payload(x, comp)[k] = IF comp = "compressed" THEN Enc(x.chunks[k]) ELSE Raw(x.chunks[k])
    BY <1>1, PayloadUnits DEF Payload
  <2> QED
    BY <2>1, <2>2, <2>3 DEF Raw, Enc
<1>4. [k \in 1 .. Len(Payload(x, comp)) |-> Decoded(Payload(x, comp)[k])] = Content(x)
  <2> DEFINE f == [k \in 1 .. Len(x.chunks) |-> Decoded(Payload(x, comp)[k])]
  <2>1. f \in Seq(Unit) /\ Len(f) = Len(x.chunks)
    <3>1. \A k \in 1 .. Len(x.chunks) : Decoded(Payload(x, comp)[k]) \in Unit
      BY <1>2, ElementOfSeq, UnitValues
    <3> QED
      BY <1>1, <3>1
  <2>2. \A k \in 1 .. Len(x.chunks) : f[k] = Content(x)[k]
    BY <1>3
  <2> HIDE DEF f
  <2>3. f = Content(x)
    <3>1. /\ Content(x) \in Seq(Unit) /\ Len(f) = Len(Content(x))
          /\ \A k \in 1 .. Len(f) : f[k] = Content(x)[k]
      BY <1>2, <2>1, <2>2
    <3> QED
      BY ONLY <2>1, <3>1, SeqEqual
  <2> QED
    BY <1>2, <2>3 DEF f
<1> QED
  BY <1>2, <1>3, <1>4

----------------------------------------------------------------------------
(* A file is in the directory that was written last. *)
LEMMA FileName ==
  ASSUME SealInv, wpc = "entry", wpos < Len(input), Current.kind = "file"
  PROVE  /\ wdir = Parent(Current.path)
         /\ SubSeq(Current.path, Len(wdir) + 1, Len(Current.path)) = <<LastName(Current.path)>>
<1>1. ~WEnded /\ ~InEntry
  BY DEF WEnded, InEntry
<1>2. /\ Len(arc) = wpos /\ wpos \in Nat /\ Len(input) \in Nat
      /\ Current.path \in Path \ {<<>>}
  BY <1>1, WriterPlace
<1>3. PICK j \in 0 .. wpos : LastDirectory(j, wpos)
  BY <1>1, <1>2 DEF SealInv, Writing
<1>4. wpos + 1 \in 1 .. Len(input) /\ (wpos + 1) - 1 = wpos
  BY <1>2
<1>5. PICK i \in 0 .. wpos :
        /\ Parent(Current.path) = IF i = 0 THEN <<>> ELSE input[i].path
        /\ i > 0 => input[i].kind = "dir"
        /\ \A k \in i + 1 .. wpos : input[k].kind = "file"
  BY <1>4 DEF SealInv, RestoreInv, IsPlan, Current
<1>6. i = j
  <2>1. CASE i < j
    <3>1. j \in i + 1 .. wpos /\ j > 0
      BY <1>2, <2>1
    <3> QED
      BY <1>3, <1>5, <3>1 DEF LastDirectory
  <2>2. CASE j < i
    <3>1. i \in j + 1 .. wpos /\ i > 0
      BY <1>2, <2>2
    <3> QED
      BY <1>3, <1>5, <3>1 DEF LastDirectory
  <2> QED
    BY <1>2, <2>1, <2>2
<1>7. wdir = Parent(Current.path)
  BY <1>3, <1>5, <1>6 DEF LastDirectory
<1>8. Current.path \in Seq(Name) /\ Len(Current.path) \in Nat \ {0}
  BY <1>2, EmptySeq DEF Path
<1>9. Len(Parent(Current.path)) = Len(Current.path) - 1
  BY <1>8 DEF Parent
<1>10. SubSeq(Current.path, Len(Current.path), Len(Current.path)) = <<LastName(Current.path)>>
  <2> SUFFICES ASSUME NEW p \in Seq(Name), Len(p) \in Nat \ {0}
               PROVE  SubSeq(p, Len(p), Len(p)) = <<p[Len(p)]>>
    BY <1>8 DEF LastName
  <2> DEFINE l == Len(p)
             s == SubSeq(p, l, l)
  <2>1. l \in Int /\ \A n \in l .. l : p[n] \in Name
    BY ElementOfSeq
  <2>2. /\ s \in Seq(Name) /\ Len(s) = IF l <= l THEN l - l + 1 ELSE 0
        /\ \A n \in 1 .. l - l + 1 : s[n] = p[l + n - 1]
    BY ONLY <2>1, SubSeqProperties
  <2>3. s \in Seq(Name) /\ Len(s) = 1 /\ s[1] = p[l]
    BY <2>1, <2>2
  <2> HIDE DEF s, l
  <2>4. p[l] \in Name
    BY <2>1 DEF l
  <2>5. s = <<p[l]>>
    BY <2>3, <2>4
  <2> QED
    BY <2>5 DEF s, l
<1> QED
  BY <1>7, <1>8, <1>9, <1>10

LEMMA LastNameType ==
  ASSUME NEW path \in Path \ {<<>>}
  PROVE  LastName(path) \in Name
<1>1. path \in Seq(Name) /\ Len(path) \in Nat \ {0}
  BY EmptySeq DEF Path
<1> QED
  BY <1>1, ElementOfSeq DEF LastName

LEMMA SealWriteFileHeader ==
  ASSUME SealInv, RestoreInv', WriteFileHeader, UNCHANGED faults
  PROVE  SealInv'
<1>1. wpc = "entry" /\ wpos < Len(input) /\ Current.kind = "file" /\ ~WEnded /\ ~InEntry
  BY DEF WriteFileHeader, WEnded, InEntry
<1>2. /\ Len(arc) = wpos /\ wpos \in Nat /\ Len(input) \in Nat /\ arc \in Seq(Entry)
      /\ Current \in Source /\ Current.path \in Path \ {<<>>}
  BY <1>1, WriterPlace
<1>3. CASE ~InLastDir(Current.path)
  <2>1. GiveUp
    BY <1>3 DEF WriteFileHeader
  <2> QED
    BY <1>1, <2>1, SealSame DEF GiveUp, WEnded
<1>4. CASE InLastDir(Current.path)
  <2> DEFINE comp == IF compress THEN "compressed" ELSE "stored"
             e == [type |-> "file", comp |-> comp,
                   name |-> SubSeq(Current.path, Len(wdir) + 1, Len(Current.path)),
                   num |-> Unwritten, data |-> <<>>, crc |-> NoCrc]
  <2>1. /\ arc' = Append(arc, e)
        /\ wcrc' = HeaderCrc("file", comp, Current.path)
        /\ wbuf' = IF compress THEN <<>> ELSE RawUnits(Current.chunks)
        /\ wcnt' = 0
        /\ wpc' = IF compress THEN "compress" ELSE "size"
        /\ UNCHANGED <<hdr, input, compress, wpos, wtree, wnode, wdir>>
    BY <1>4 DEF WriteFileHeader
  <2>2. /\ e.type = "file" /\ e.comp = comp /\ e.data = <<>> /\ e.crc = NoCrc
        /\ e.name = <<LastName(Current.path)>>
    BY <1>1, FileName
  <2> HIDE DEF e
  <2>3. /\ Len(arc') = wpos + 1 /\ arc'[wpos + 1] = e
        /\ \A k \in 1 .. wpos : arc'[k] = arc[k]
    BY <1>2, <2>1
  <2>4. Current' = Current /\ Last' = wpos + 1
    BY <2>1, <2>3 DEF Current, Last
  <2>5. (\E j \in 0 .. Len(arc) : LastDirectory(j, Len(arc)))'
    <3>1. PICK j \in 0 .. wpos : LastDirectory(j, wpos)
      BY <1>1, <1>2 DEF SealInv, Writing
    <3>2. input[wpos + 1].kind = "file"
      BY <1>1 DEF Current
    <3>3. \A k \in j + 1 .. wpos + 1 : input[k].kind = "file"
      BY <1>2, <3>1, <3>2 DEF LastDirectory
    <3>4. (LastDirectory(j, Len(arc)))'
      BY <2>1, <2>3, <3>1, <3>3 DEF LastDirectory
    <3> QED
      BY <1>2, <2>3, <3>4
  <2>6. Writing'
    <3>1. compress => wbuf' = [k \in 1 .. 0 |-> Enc(Current.chunks[k])]
      BY <2>1
    <3>2. Len(Current.chunks) \in Nat
      BY <1>2 DEF Source
    <3>3. wpc' = "compress" => compress /\ comp = "compressed"
      BY <2>1
    <3>4. wpc' = "size" => ~compress /\ comp = "stored"
      BY <2>1
    <3>5. wpc' \in {"compress", "size"}
      BY <2>1
    <3>6. hdr' = Len(input')
      BY <1>1, <2>1 DEF SealInv, Writing
    <3> HIDE DEF comp
    <3> QED
      BY <1>1, <2>1, <2>2, <2>3, <2>4, <2>5, <3>1, <3>2, <3>3, <3>4, <3>5, <3>6 DEF Writing
  <2>7. \E n \in Name : e.name = <<n>>
    BY <1>2, <2>2, LastNameType
  <2>8. Len(arc') <= Len(input) /\ Len(arc) <= Len(arc') /\ hdr' \in {NoHeader, Len(input)}
    BY <1>1, <1>2, <2>1, <2>3 DEF SealInv
  <2>9. wpc' # "done" /\ input[wpos + 1].kind = "file"
    BY <1>1, <2>1 DEF Current
  <2>10. \A k \in 1 .. Len(arc') : k = wpos + 1 \/ (k <= Len(arc) /\ arc'[k] = arc[k])
    BY <1>2, <2>3
  <2> QED
    BY <1>1, <2>1, <2>2, <2>3, <2>6, <2>7, <2>8, <2>9, <2>10, SealFrame
<1> QED
  BY <1>3, <1>4

(* What the steps between the header of an entry and its sum have in common. *)
LEMMA WriterStays ==
  ASSUME SealInv, ~WEnded, wpc \notin {"open", "header"},
         UNCHANGED <<hdr, input, wdir>>, Len(arc') = Len(arc)
  PROVE  /\ (\E j \in 0 .. Len(arc) : LastDirectory(j, Len(arc)))'
         /\ hdr' = Len(input')
<1>1. PICK j \in 0 .. Len(arc) : LastDirectory(j, Len(arc))
  BY DEF SealInv, Writing
<1>2. (LastDirectory(j, Len(arc)))'
  BY <1>1 DEF LastDirectory
<1>3. hdr = Len(input)
  BY DEF SealInv, Writing
<1> QED
  BY <1>1, <1>2, <1>3

LEMMA ChunkOfCurrent ==
  ASSUME SealInv, wpc = "compress"
  PROVE  /\ Current \in Source /\ Current.chunks \in Seq(Chunk) /\ Len(Current.chunks) \in Nat
         /\ Current.path \in Path /\ wpos < Len(input) /\ InEntry /\ ~WEnded
         /\ Last \in 1 .. Len(arc) /\ Last = wpos + 1 /\ arc \in Seq(Entry) /\ arc[Last] \in Entry
         /\ arc[Last].type = "file" /\ arc[Last].data = <<>> /\ arc[Last].crc = NoCrc
         /\ arc[Last].comp = "compressed" /\ wcnt \in Nat /\ wcnt <= Len(Current.chunks)
         /\ wbuf = [k \in 1 .. wcnt |-> Enc(Current.chunks[k])]
         /\ wcrc = HeaderCrc("file", "compressed", Current.path)
         /\ Current.kind = "file" /\ arc[Last].name = <<LastName(Current.path)>>
<1>1. InEntry /\ ~WEnded
  BY DEF InEntry, WEnded
<1>2. Writing /\ TypeInv
  BY <1>1 DEF SealInv, RestoreInv
<1>3. wpos < Len(input) /\ wcnt \in Nat
  BY <1>1, <1>2 DEF TypeInv, WriterFacts, ATypeOK, WTypeOK
<1>4. Current \in Source /\ Current.chunks \in Seq(Chunk) /\ Current.path \in Path
  BY <1>2, <1>3, CurrentType
<1>5. Len(Current.chunks) \in Nat
  BY <1>4
<1> QED
  BY <1>1, <1>2, <1>3, <1>4, <1>5, WriterPlace DEF Writing

LEMMA SealCompressChunk ==
  ASSUME SealInv, RestoreInv', CompressChunk, UNCHANGED faults
  PROVE  SealInv'
<1>1. wpc = "compress" /\ wcnt < Len(Current.chunks)
  BY DEF CompressChunk
<1>2. /\ wbuf' = Append(wbuf, Enc(Current.chunks[wcnt + 1])) /\ wcnt' = wcnt + 1
      /\ UNCHANGED <<hdr, arc, input, wpc, wpos, wdir, wcrc>>
  BY DEF CompressChunk
<1>3. Current' = Current /\ Last' = Last /\ InEntry' = InEntry
  BY <1>2 DEF Current, Last, InEntry
<1>4. wbuf' = [k \in 1 .. wcnt' |-> Enc(Current.chunks[k])]
  <2> DEFINE E(k) == Enc(Current.chunks[k])
             f(n) == [k \in 1 .. n |-> E(k)]
  <2>1. wcnt \in Nat /\ wbuf = f(wcnt) /\ \A k \in 1 .. Len(Current.chunks) : E(k) \in Unit
    <3>1. \A k \in 1 .. Len(Current.chunks) : Current.chunks[k] \in Chunk
      BY <1>1, ChunkOfCurrent, ElementOfSeq
    <3> QED
      BY <1>1, <3>1, ChunkOfCurrent, UnitValues
  <2>2. wcnt + 1 \in 1 .. Len(Current.chunks) /\ Len(Current.chunks) \in Nat
    BY <1>1, <2>1, ChunkOfCurrent
  <2> HIDE DEF E
  <2>3. f(wcnt) \in Seq(Unit) /\ Len(f(wcnt)) = wcnt /\ f(wcnt + 1) \in Seq(Unit) /\ Len(f(wcnt + 1)) = wcnt + 1
    BY <2>1, <2>2
  <2>4. Append(f(wcnt), E(wcnt + 1)) = f(wcnt + 1)
    BY <2>1, <2>2, <2>3
  <2> QED
    BY <1>2, <2>1, <2>4 DEF E
<1>5. wcnt' <= Len(Current.chunks)
  BY <1>1, <1>2, ChunkOfCurrent
<1>6. Writing'
  BY <1>1, <1>2, <1>3, <1>4, <1>5, ChunkOfCurrent, WriterStays DEF Writing
<1> QED
  BY <1>1, <1>2, <1>6, SealSame, ChunkOfCurrent

(* The updates of an entry, field by field. *)
HoldsEntry(e, type, comp, name, n, d, c) ==
  /\ e \in Entry /\ e.type = type /\ e.comp = comp /\ e.name = name
  /\ e.num = n /\ e.data = d /\ e.crc = c

LEMMA EntrySteps ==
  ASSUME NEW e, NEW type, NEW comp, NEW name, NEW n, NEW d, NEW c,
         HoldsEntry(e, type, comp, name, n, d, c)
  PROVE  /\ \A m \in Nat : HoldsEntry([e EXCEPT !.num = m], type, comp, name, m, d, c)
         /\ \A b \in Comps : HoldsEntry([e EXCEPT !.comp = b], type, b, name, n, d, c)
         /\ \A u \in Unit :
              HoldsEntry([e EXCEPT !.data = Append(@, u)], type, comp, name, n, Append(d, u), c)
         /\ \A b \in Crc : HoldsEntry([e EXCEPT !.crc = b], type, comp, name, n, d, b)
<1>1. e \in Entry
  BY DEF HoldsEntry
<1>2. ASSUME NEW m \in Nat
      PROVE  HoldsEntry([e EXCEPT !.num = m], type, comp, name, m, d, c)
  <2>1. [e EXCEPT !.num = m] \in Entry
    BY <1>1, EntryUpdates
  <2> QED
    BY <1>1, <2>1 DEF HoldsEntry, Entry
<1>3. ASSUME NEW b \in Comps
      PROVE  HoldsEntry([e EXCEPT !.comp = b], type, b, name, n, d, c)
  <2>1. [e EXCEPT !.comp = b] \in Entry
    BY <1>1, EntryUpdates
  <2> QED
    BY <1>1, <2>1 DEF HoldsEntry, Entry
<1>4. ASSUME NEW u \in Unit
      PROVE  HoldsEntry([e EXCEPT !.data = Append(@, u)], type, comp, name, n, Append(d, u), c)
  <2>1. [e EXCEPT !.data = Append(@, u)] \in Entry
    BY <1>1, EntryUpdates
  <2> QED
    BY <1>1, <2>1 DEF HoldsEntry, Entry
<1>5. ASSUME NEW b \in Crc
      PROVE  HoldsEntry([e EXCEPT !.crc = b], type, comp, name, n, d, b)
  <2>1. [e EXCEPT !.crc = b] \in Entry
    BY <1>1, EntryUpdates
  <2> QED
    BY <1>1, <2>1 DEF HoldsEntry, Entry
<1> QED
  BY <1>2, <1>3, <1>4, <1>5

LEMMA SealKeepCompressed ==
  ASSUME SealInv, RestoreInv', KeepCompressed, UNCHANGED faults
  PROVE  SealInv'
<1> DEFINE size == TotalBytes(wbuf)
           e == [arc[Last] EXCEPT !.num = size]
<1>1. /\ wpc = "compress" /\ wcnt = Len(Current.chunks)
      /\ size < TotalBytes(RawUnits(Current.chunks))
      /\ arc' = [arc EXCEPT ![Last] = e]
      /\ wcrc' = [wcrc EXCEPT !.num = size, !.data = wbuf]
      /\ wcnt' = 0 /\ wpc' = "copy"
      /\ UNCHANGED <<hdr, input, wpos, wdir, wbuf>>
  BY DEF KeepCompressed
<1>2. wbuf = Payload(Current, "compressed") /\ wbuf \in Seq(Unit)
  <2>1. wbuf = EncUnits(Current.chunks)
    BY <1>1, ChunkOfCurrent DEF EncUnits
  <2> QED
    BY <1>1, <2>1, ChunkOfCurrent, PayloadUnits DEF Payload
<1>3. size \in Nat
  BY <1>2, TotalBytesType
<1>4. HoldsEntry(arc[Last], "file", "compressed", <<LastName(Current.path)>>, arc[Last].num,
                 <<>>, NoCrc)
  BY <1>1, ChunkOfCurrent DEF HoldsEntry
<1>5. HoldsEntry(e, "file", "compressed", <<LastName(Current.path)>>, size, <<>>, NoCrc)
  BY <1>3, <1>4, EntrySteps
<1> HIDE DEF size, e
<1>6. /\ Len(arc') = Len(arc) /\ arc'[Last] = e
      /\ Current' = Current /\ Last' = Last /\ InEntry' = InEntry /\ InEntry
  <2>1. Len(arc') = Len(arc) /\ arc'[Last] = e
    <3>1. e \in Entry
      BY <1>5 DEF HoldsEntry
    <3> QED
      BY <1>1, <3>1, ChunkOfCurrent, ExceptSeq
  <2> QED
    BY <1>1, <2>1, ChunkOfCurrent DEF Current, Last, InEntry
<1>7. wcrc' = SumOf("file", "compressed", Current.path, size, wbuf)
  BY <1>1, ChunkOfCurrent DEF SumOf
<1>8. SubSeq(wbuf, 1, 0) = <<>> /\ Len(wbuf) \in Nat
  BY <1>2, SubSeqEmpty
<1>9. /\ (\E j \in 0 .. Len(arc) : LastDirectory(j, Len(arc)))'
      /\ hdr' = Len(input')
  BY <1>1, <1>6, ChunkOfCurrent, WriterStays
<1>10. size < TotalBytes(Content(Current))
  BY <1>1 DEF Content
<1>11. Writing'
  <2>1. /\ e.comp = "compressed" /\ e.data = <<>> /\ e.num = size /\ e.crc = NoCrc
        /\ e.name = <<LastName(Current.path)>>
    BY <1>5 DEF HoldsEntry
  <2>2. /\ TotalBytes(wbuf)' = size
        /\ SubSeq(wbuf, 1, wcnt)' = <<>>
        /\ Payload(Current, arc[Last].comp)' = wbuf
        /\ TotalBytes(Content(Current))' = TotalBytes(Content(Current))
        /\ Len(wbuf)' = Len(wbuf)
    <3>1. arc[Last].comp' = "compressed"
      BY <1>6, <2>1
    <3> QED
      BY <1>1, <1>2, <1>6, <1>8, <3>1 DEF size
  <2>3. Current' = Current /\ Current.kind = "file"
    BY <1>1, <1>6, ChunkOfCurrent
  <2>4. wcrc' = SumOf("file", arc[Last].comp, Current.path, TotalBytes(wbuf),
                      IF arc[Last].comp = "stored" THEN SubSeq(wbuf, 1, wcnt) ELSE wbuf)'
    <3>1. arc[Last].comp' = "compressed"
      BY <1>6, <2>1
    <3> QED
      BY <1>1, <1>7, <2>2, <2>3, <3>1
  <2>5. (/\ wcnt <= Len(wbuf)
         /\ wbuf = Payload(Current, arc[Last].comp)
         /\ arc[Last].data = SubSeq(wbuf, 1, wcnt)
         /\ arc[Last].num = TotalBytes(wbuf)
         /\ TotalBytes(wbuf) < TotalBytes(Content(Current)))'
    <3>1. (wcnt <= Len(wbuf))'
      BY <1>1, <1>8, <2>2
    <3>2. (wbuf = Payload(Current, arc[Last].comp))'
      BY <1>1, <2>2
    <3>3. (arc[Last].data = SubSeq(wbuf, 1, wcnt))'
      BY <1>6, <2>1, <2>2
    <3>4. (arc[Last].num = TotalBytes(wbuf))'
      BY <1>6, <2>1, <2>2
    <3>5. (TotalBytes(wbuf) < TotalBytes(Content(Current)))'
      BY <1>10, <2>2
    <3> QED
      BY <3>1, <3>2, <3>3, <3>4, <3>5
  <2>6. (InEntry => arc[Last].crc = NoCrc /\ arc[Last].name = <<LastName(Current.path)>>)'
    BY <1>6, <2>1, <2>3
  <2> QED
    BY <1>1, <1>9, <2>3, <2>4, <2>5, <2>6 DEF Writing
<1>12. ~WEnded'
  BY <1>1 DEF WEnded
<1>13. e \in Entry /\ e.type = arc[Last].type /\ e.name = arc[Last].name /\ e.type = "file" /\ e.crc = NoCrc
  BY <1>4, <1>5 DEF HoldsEntry
<1> QED
  BY <1>1, <1>6, <1>11, <1>12, <1>13, SealLast

LEMMA SealFallBack ==
  ASSUME SealInv, RestoreInv', FallBackToStored, UNCHANGED faults
  PROVE  SealInv'
<1> DEFINE e == [arc[Last] EXCEPT !.comp = "stored"]
<1>1. /\ wpc = "compress"
      /\ arc' = [arc EXCEPT ![Last] = e]
      /\ wcrc' = HeaderCrc("file", "stored", Current.path)
      /\ wbuf' = RawUnits(Current.chunks)
      /\ wcnt' = 0 /\ wpc' = "size"
      /\ UNCHANGED <<hdr, input, wpos, wdir>>
  BY DEF FallBackToStored
<1>2. HoldsEntry(arc[Last], "file", "compressed", <<LastName(Current.path)>>, arc[Last].num,
                 <<>>, NoCrc)
  BY <1>1, ChunkOfCurrent DEF HoldsEntry
<1>3. HoldsEntry(e, "file", "stored", <<LastName(Current.path)>>, arc[Last].num, <<>>, NoCrc)
  BY <1>2, EntrySteps DEF Comps
<1> HIDE DEF e
<1>4. /\ Len(arc') = Len(arc) /\ arc'[Last] = e
      /\ Current' = Current /\ Last' = Last /\ InEntry' = InEntry /\ InEntry
  <2>1. Len(arc') = Len(arc) /\ arc'[Last] = e
    <3>1. e \in Entry
      BY <1>3 DEF HoldsEntry
    <3> QED
      BY <1>1, <3>1, ChunkOfCurrent, ExceptSeq
  <2> QED
    BY <1>1, <2>1, ChunkOfCurrent DEF Current, Last, InEntry
<1>5. /\ (\E j \in 0 .. Len(arc) : LastDirectory(j, Len(arc)))'
      /\ hdr' = Len(input')
  BY <1>1, <1>4, ChunkOfCurrent, WriterStays
<1>6. Writing'
  BY <1>1, <1>3, <1>4, <1>5, ChunkOfCurrent DEF Writing, HoldsEntry
<1>7. ~WEnded'
  BY <1>1 DEF WEnded
<1>8. e \in Entry /\ e.type = arc[Last].type /\ e.name = arc[Last].name /\ e.type = "file" /\ e.crc = NoCrc
  BY <1>2, <1>3 DEF HoldsEntry
<1> QED
  BY <1>1, <1>4, <1>6, <1>7, <1>8, SealLast

LEMMA PayloadOfCurrent ==
  ASSUME SealInv, wpc \in {"size", "copy", "crc"}
  PROVE  /\ InEntry /\ ~WEnded /\ Writing /\ wpos < Len(input)
         /\ Current \in Source /\ Current.path \in Path
         /\ Last \in 1 .. Len(arc) /\ Last = wpos + 1 /\ arc \in Seq(Entry) /\ arc[Last] \in Entry
         /\ arc[Last].crc = NoCrc /\ arc[Last].name = <<LastName(Current.path)>>
         /\ wpc # "crc" => arc[Last].type = "file" /\ Current.kind = "file"
         /\ wbuf \in Seq(Unit) /\ Len(wbuf) \in Nat /\ TotalBytes(wbuf) \in Nat /\ wcnt \in Nat
         /\ wcrc \in Crc /\ arc[Last].comp \in Comps
<1>1. InEntry /\ ~WEnded
  BY DEF InEntry, WEnded
<1>2. Writing /\ TypeInv
  BY <1>1 DEF SealInv, RestoreInv
<1>3. wpos < Len(input) /\ wcnt \in Nat /\ wbuf \in Seq(Unit) /\ wcrc \in Crc
  BY <1>1, <1>2 DEF TypeInv, WriterFacts, ATypeOK, WTypeOK
<1>4. Current \in Source /\ Current.path \in Path
  BY <1>2, <1>3, CurrentType
<1>5. Len(wbuf) \in Nat /\ TotalBytes(wbuf) \in Nat
  BY <1>3, TotalBytesType
<1>6. arc[Last] \in Entry
  BY <1>1, WriterPlace
<1>7. arc[Last].comp \in Comps
  BY <1>6 DEF Entry
<1> QED
  BY <1>1, <1>2, <1>3, <1>4, <1>5, <1>6, <1>7, WriterPlace DEF Writing

(* The phase of the writer that copies a payload, opaque and written out. *)
Copying ==
  /\ wcnt <= Len(wbuf)
  /\ wbuf = Payload(Current, arc[Last].comp)
  /\ arc[Last].data = SubSeq(wbuf, 1, wcnt)
  /\ arc[Last].num = TotalBytes(wbuf)
  /\ arc[Last].comp = "compressed" => TotalBytes(wbuf) < TotalBytes(Content(Current))
  /\ wcrc = SumOf("file", arc[Last].comp, Current.path, TotalBytes(wbuf),
                  IF arc[Last].comp = "stored" THEN SubSeq(wbuf, 1, wcnt) ELSE wbuf)

LEMMA NowCopying ==
  ASSUME SealInv, wpc \in {"size", "copy"}, wpc' = "copy", Copying',
         NEW e \in Entry, arc' = [arc EXCEPT ![Last] = e],
         e.type = "file", e.name = arc[Last].name, e.crc = NoCrc,
         UNCHANGED <<hdr, input, wpos, wdir, faults>>, RestoreInv'
  PROVE  SealInv'
<1>1. /\ Len(arc') = Len(arc) /\ arc'[Last] = e
  BY PayloadOfCurrent, ExceptSeq
<1>2. Current' = Current /\ Last' = Last /\ InEntry' /\ InEntry
  BY <1>1, PayloadOfCurrent DEF Current, Last, InEntry
<1>3. /\ (\E j \in 0 .. Len(arc) : LastDirectory(j, Len(arc)))'
      /\ hdr' = Len(input')
  BY <1>1, PayloadOfCurrent, WriterStays
<1>4. (arc[Last].crc = NoCrc /\ arc[Last].name = <<LastName(Current.path)>>)'
  BY <1>1, <1>2, PayloadOfCurrent
<1>5. Current'.kind = "file"
  BY <1>2, PayloadOfCurrent
<1>6. Writing'
  BY <1>3, <1>4, <1>5 DEF Writing, Copying
<1>7. ~WEnded'
  BY DEF WEnded
<1>8. arc[Last].type = "file"
  BY PayloadOfCurrent
<1> QED
  BY <1>2, <1>6, <1>7, <1>8, SealLast

LEMMA SealWriteSize ==
  ASSUME SealInv, RestoreInv', WriteSize, UNCHANGED faults
  PROVE  SealInv'
<1> DEFINE size == TotalBytes(wbuf)
           e == [arc[Last] EXCEPT !.num = size]
<1>1. /\ wpc = "size"
      /\ arc' = [arc EXCEPT ![Last] = e]
      /\ wcrc' = [wcrc EXCEPT !.num = size]
      /\ wpc' = "copy"
      /\ UNCHANGED <<hdr, input, wpos, wdir, wbuf, wcnt>>
  BY DEF WriteSize
<1>2. /\ arc[Last].data = <<>> /\ arc[Last].comp = "stored" /\ wcnt = 0
      /\ wbuf = RawUnits(Current.chunks)
      /\ wcrc = HeaderCrc("file", "stored", Current.path)
  BY <1>1, PayloadOfCurrent DEF Writing
<1>3. HoldsEntry(arc[Last], "file", "stored", arc[Last].name, arc[Last].num, <<>>, NoCrc)
  BY <1>1, <1>2, PayloadOfCurrent DEF HoldsEntry
<1>4. size \in Nat
  BY <1>1, PayloadOfCurrent
<1>5. HoldsEntry(e, "file", "stored", arc[Last].name, size, <<>>, NoCrc)
  BY <1>3, <1>4, EntrySteps
<1>6. /\ e \in Entry /\ e.type = "file" /\ e.comp = "stored" /\ e.name = arc[Last].name
      /\ e.num = size /\ e.data = <<>> /\ e.crc = NoCrc
  BY <1>5 DEF HoldsEntry
<1>7. wcrc' = SumOf("file", "stored", Current.path, size, <<>>)
  <2>1. "file" \in Types /\ "stored" \in Comps /\ <<>> \in Seq(Unit)
    BY DEF Types, Comps
  <2>2. \A n \in Nat : [HeaderCrc("file", "stored", Current.path) EXCEPT !.num = n]
                         = SumOf("file", "stored", Current.path, n, <<>>)
    BY <1>1, <2>1, PayloadOfCurrent, SumSteps
  <2> HIDE DEF size
  <2> QED
    BY <1>1, <1>2, <1>4, <2>2
<1> HIDE DEF e
<1>8. /\ Len(arc') = Len(arc) /\ arc'[Last] = e
      /\ Current' = Current /\ Last' = Last
  <2>1. Len(arc') = Len(arc) /\ arc'[Last] = e
    BY <1>1, <1>6, PayloadOfCurrent, ExceptSeq
  <2> QED
    BY <1>1, <2>1 DEF Current, Last
<1>9. SubSeq(wbuf, 1, 0) = <<>> /\ Len(wbuf) \in Nat
  BY <1>1, PayloadOfCurrent, SubSeqEmpty
<1>10. Copying'
  <2>1. (wcnt <= Len(wbuf))'
    BY <1>1, <1>2, <1>9
  <2>2. arc[Last].comp' = "stored"
    BY <1>6, <1>8
  <2>3. (wbuf = Payload(Current, arc[Last].comp))'
    BY <1>1, <1>2, <1>8, <2>2 DEF Payload
  <2>4. SubSeq(wbuf, 1, wcnt)' = <<>> /\ TotalBytes(wbuf)' = size
    BY <1>1, <1>2, <1>9
  <2>5. (arc[Last].data = SubSeq(wbuf, 1, wcnt) /\ arc[Last].num = TotalBytes(wbuf))'
    BY <1>6, <1>8, <2>4
  <2>6. wcrc' = SumOf("file", arc[Last].comp, Current.path, TotalBytes(wbuf),
                      IF arc[Last].comp = "stored" THEN SubSeq(wbuf, 1, wcnt) ELSE wbuf)'
    BY <1>7, <1>8, <2>2, <2>4
  <2> QED
    BY <2>1, <2>2, <2>3, <2>5, <2>6 DEF Copying
<1> QED
  BY <1>1, <1>6, <1>10, NowCopying

LEMMA SealCopyUnit ==
  ASSUME SealInv, RestoreInv', CopyUnit, UNCHANGED faults
  PROVE  SealInv'
<1> DEFINE u == wbuf[wcnt + 1]
           e == [arc[Last] EXCEPT !.data = Append(@, u)]
           comp == arc[Last].comp
           size == TotalBytes(wbuf)
<1>1. /\ wpc = "copy" /\ wcnt < Len(wbuf)
      /\ arc' = [arc EXCEPT ![Last] = e]
      /\ wcrc' = IF comp = "stored" THEN [wcrc EXCEPT !.data = Append(@, u)] ELSE wcrc
      /\ wcnt' = wcnt + 1
      /\ UNCHANGED <<hdr, input, wpc, wpos, wdir, wbuf>>
  BY DEF CopyUnit
<1>2. Copying
  BY <1>1, PayloadOfCurrent DEF Writing, Copying
<1>3. u \in Unit /\ comp \in Comps /\ size \in Nat
  <2>1. wcnt + 1 \in 1 .. Len(wbuf)
    BY <1>1, PayloadOfCurrent
  <2> QED
    BY <1>1, <2>1, PayloadOfCurrent, ElementOfSeq
<1>4. SubSeq(wbuf, 1, wcnt + 1) = Append(SubSeq(wbuf, 1, wcnt), u) /\ SubSeq(wbuf, 1, wcnt) \in Seq(Unit)
  <2>1. wbuf \in Seq(Unit) /\ wcnt + 1 \in 1 .. Len(wbuf) /\ wcnt \in Nat
    BY <1>1, PayloadOfCurrent
  <2> SUFFICES ASSUME NEW s \in Seq(Unit), NEW n \in Nat, n + 1 \in 1 .. Len(s)
               PROVE  /\ SubSeq(s, 1, n + 1) = Append(SubSeq(s, 1, n), s[n + 1])
                      /\ SubSeq(s, 1, n) \in Seq(Unit)
    BY <2>1
  <2> QED
    OBVIOUS
<1>5. HoldsEntry(arc[Last], "file", comp, arc[Last].name, size, SubSeq(wbuf, 1, wcnt), NoCrc)
  BY <1>1, <1>2, PayloadOfCurrent DEF HoldsEntry, Copying
<1>6. HoldsEntry(e, "file", comp, arc[Last].name, size, SubSeq(wbuf, 1, wcnt + 1), NoCrc)
  <2> DEFINE d == SubSeq(wbuf, 1, wcnt)
             n == arc[Last].name
  <2>1. HoldsEntry(arc[Last], "file", comp, n, size, d, NoCrc)
    BY <1>5
  <2> HIDE DEF comp, size, u, d, n
  <2>2. HoldsEntry([arc[Last] EXCEPT !.data = Append(@, u)], "file", comp, n, size, Append(d, u), NoCrc)
    BY <1>3, <2>1, EntrySteps
  <2> QED
    BY <1>4, <2>2 DEF d, n, u
<1>7. /\ e \in Entry /\ e.type = "file" /\ e.comp = comp /\ e.name = arc[Last].name
      /\ e.num = size /\ e.data = SubSeq(wbuf, 1, wcnt + 1) /\ e.crc = NoCrc
  BY <1>6 DEF HoldsEntry
<1>8. wcrc' = SumOf("file", comp, Current.path, size,
                    IF comp = "stored" THEN SubSeq(wbuf, 1, wcnt + 1) ELSE wbuf)
  <2>1. "file" \in Types /\ Current.path \in Path
    BY <1>1, PayloadOfCurrent DEF Types
  <2>2. comp = "stored" => wcrc = SumOf("file", comp, Current.path, size, SubSeq(wbuf, 1, wcnt))
    BY <1>2 DEF Copying
  <2>3. comp # "stored" => wcrc = SumOf("file", comp, Current.path, size, wbuf)
    BY <1>2 DEF Copying
  <2> HIDE DEF comp, size, u
  <2>4. CASE comp = "stored"
    <3> DEFINE p == Current.path
               d == SubSeq(wbuf, 1, wcnt)
    <3>1. p \in Path /\ d \in Seq(Unit) /\ wcrc = SumOf("file", comp, p, size, d)
      BY <1>4, <2>1, <2>2, <2>4
    <3> HIDE DEF p, d
    <3>2. [SumOf("file", comp, p, size, d) EXCEPT !.data = Append(@, u)]
            = SumOf("file", comp, p, size, Append(d, u))
      BY <1>3, <2>1, <3>1, SumSteps
    <3> QED
      BY <1>1, <1>4, <2>4, <3>1, <3>2 DEF p, d, u
  <2> QED
    BY <1>1, <2>3, <2>4
<1> HIDE DEF e
<1>9. /\ Len(arc') = Len(arc) /\ arc'[Last] = e
      /\ Current' = Current /\ Last' = Last
  <2>1. Len(arc') = Len(arc) /\ arc'[Last] = e
    BY <1>1, <1>7, PayloadOfCurrent, ExceptSeq
  <2> QED
    BY <1>1, <2>1 DEF Current, Last
<1>10. Copying'
  <2>1. (wcnt <= Len(wbuf))'
    BY <1>1, PayloadOfCurrent
  <2>2. arc[Last].comp' = comp /\ TotalBytes(wbuf)' = size /\ SubSeq(wbuf, 1, wcnt)' = SubSeq(wbuf, 1, wcnt + 1)
    BY <1>1, <1>7, <1>9
  <2>3. (wbuf = Payload(Current, arc[Last].comp))'
    BY <1>1, <1>2, <1>9, <2>2 DEF Copying
  <2>4. (arc[Last].data = SubSeq(wbuf, 1, wcnt) /\ arc[Last].num = TotalBytes(wbuf))'
    BY <1>7, <1>9, <2>2
  <2>5. (arc[Last].comp = "compressed" => TotalBytes(wbuf) < TotalBytes(Content(Current)))'
    BY <1>2, <1>9, <2>2 DEF Copying
  <2>6. wcrc' = SumOf("file", arc[Last].comp, Current.path, TotalBytes(wbuf),
                      IF arc[Last].comp = "stored" THEN SubSeq(wbuf, 1, wcnt) ELSE wbuf)'
    <3> HIDE DEF comp, size
    <3> QED
      BY <1>1, <1>8, <1>9, <2>2
  <2> QED
    BY <2>1, <2>3, <2>4, <2>5, <2>6 DEF Copying
<1> QED
  BY <1>1, <1>7, <1>10, NowCopying

LEMMA SealCopyEnd ==
  ASSUME SealInv, RestoreInv', CopyEnd, UNCHANGED faults
  PROVE  SealInv'
<1> DEFINE e == [arc[Last] EXCEPT !.crc = wcrc]
           comp == arc[Last].comp
<1>1. /\ wpc = "copy" /\ wcnt = Len(wbuf) /\ wpc' = "crc"
      /\ UNCHANGED <<hdr, arc, input, wpos, wdir, wcrc>>
  BY DEF CopyEnd
<1>2. Copying
  BY <1>1, PayloadOfCurrent DEF Writing, Copying
<1>3. SubSeq(wbuf, 1, wcnt) = wbuf
  BY <1>1, PayloadOfCurrent, SubSeqFull
<1>4. /\ arc[Last].type = "file" /\ Current.kind = "file" /\ Writing /\ ~WEnded
      /\ arc[Last].crc = NoCrc /\ arc[Last].name = <<LastName(Current.path)>>
  BY <1>1, PayloadOfCurrent
<1>5. Sealed(e, Current)
  <2>1. /\ arc[Last].data = wbuf /\ wbuf = Payload(Current, comp)
        /\ arc[Last].num = TotalBytes(wbuf) /\ TotalBytes(wbuf) \in Nat
        /\ comp = "compressed" => TotalBytes(wbuf) < TotalBytes(Content(Current))
    BY <1>1, <1>2, <1>3, PayloadOfCurrent DEF Copying
  <2>2. wcrc = SumOf("file", comp, Current.path, TotalBytes(wbuf), wbuf)
    BY <1>2, <1>3 DEF Copying
  <2>3. HoldsEntry(arc[Last], "file", comp, <<LastName(Current.path)>>, TotalBytes(wbuf), wbuf, NoCrc)
    BY <1>1, <1>4, <2>1, PayloadOfCurrent DEF HoldsEntry
  <2>4. HoldsEntry(e, "file", comp, <<LastName(Current.path)>>, TotalBytes(wbuf), wbuf, wcrc)
    BY <1>1, <2>3, PayloadOfCurrent, EntrySteps
  <2> HIDE DEF e, comp
  <2> QED
    BY <1>4, <2>1, <2>2, <2>4 DEF HoldsEntry, Sealed
<1>6. Current' = Current /\ Last' = Last /\ e' = e
  BY <1>1 DEF Current, Last
<1>7. /\ (\E j \in 0 .. Len(arc) : LastDirectory(j, Len(arc)))'
      /\ hdr' = Len(input')
  BY <1>1, <1>4, WriterStays
<1>8. Writing'
  <2>1. (arc[Last].crc = NoCrc /\ arc[Last].name = <<LastName(Current.path)>>)'
    BY <1>1, <1>4, <1>6
  <2>2. Sealed(e, Current)'
    BY <1>5, <1>6
  <2> QED
    BY <1>1, <1>7, <2>1, <2>2 DEF Writing
<1> QED
  BY <1>1, <1>4, <1>8, SealSame

LEMMA SealWriteCrc ==
  ASSUME SealInv, RestoreInv', WriteCrc, UNCHANGED faults
  PROVE  SealInv'
<1> DEFINE e == [arc[Last] EXCEPT !.crc = wcrc]
<1>1. /\ wpc = "crc" /\ wpc' = "entry" /\ wpos' = wpos + 1
      /\ arc' = [arc EXCEPT ![Last] = e]
      /\ UNCHANGED <<hdr, input, wdir>>
  BY DEF WriteCrc
<1>2. Sealed(e, Current) /\ InEntry /\ ~WEnded
  BY <1>1, PayloadOfCurrent DEF Writing
<1>3. HoldsEntry(arc[Last], arc[Last].type, arc[Last].comp, arc[Last].name, arc[Last].num,
                 arc[Last].data, NoCrc)
  BY <1>1, PayloadOfCurrent DEF HoldsEntry
<1>4. HoldsEntry(e, arc[Last].type, arc[Last].comp, arc[Last].name, arc[Last].num,
                 arc[Last].data, wcrc)
  BY <1>1, <1>3, PayloadOfCurrent, EntrySteps
<1>5. e \in Entry /\ e.type = arc[Last].type /\ e.name = arc[Last].name /\ e.data = arc[Last].data
  BY <1>4 DEF HoldsEntry
<1>6. arc[Last].type # "file" => arc[Last].data = <<>>
  BY <1>1, PayloadOfCurrent DEF SealInv, Kept
<1> HIDE DEF e
<1>7. Len(arc') = Len(arc)
  BY <1>1, <1>5, PayloadOfCurrent, ExceptSeq
<1>8. Writing'
  BY <1>1, <1>2, <1>7, WriterStays DEF Writing, InEntry
<1>9. ~WEnded'
  BY <1>1 DEF WEnded
<1> QED
  BY <1>1, <1>2, <1>5, <1>6, <1>8, <1>9, SealLast

LEMMA SealWriteDir ==
  ASSUME SealInv, RestoreInv', WriteDir, UNCHANGED faults
  PROVE  SealInv'
<1> DEFINE added == DirAdd(wtree, Current.path)
           node  == added.tree[added.node]
           type  == IF node.parent = Root THEN "dir" ELSE "subdir"
           p     == Current.path
<1>1. wpc = "entry" /\ wpos < Len(input) /\ Current.kind = "dir" /\ ~WEnded /\ ~InEntry
  BY DEF WriteDir, WEnded, InEntry
<1>2. /\ Len(arc) = wpos /\ wpos \in Nat /\ Len(input) \in Nat /\ arc \in Seq(Entry)
      /\ Current \in Source /\ p \in Path \ {<<>>} /\ "damage" \notin faults
  BY <1>1, WriterPlace
<1>3. CASE added.node = NoNode
  <2>1. GiveUp
    BY <1>3 DEF WriteDir
  <2> QED
    BY <1>1, <2>1, SealSame DEF GiveUp, WEnded
<1>4. CASE added.node # NoNode
  <2> DEFINE e == [type |-> type, comp |-> "stored", name |-> <<node.name>>,
                   num |-> node.parent, data |-> <<>>, crc |-> NoCrc]
  <2>1. /\ wtree' = added.tree /\ wdir' = p /\ arc' = Append(arc, e)
        /\ wcrc' = [HeaderCrc(type, "stored", p) EXCEPT !.num = node.parent]
        /\ wpc' = "crc" /\ UNCHANGED <<hdr, input, wpos>>
    BY <1>4 DEF WriteDir
  <2>2. node.parent \in Nat
    <3>1. p \in Seq(Name) /\ p # <<>> /\ wtree \in Tree(Name) /\ WellFormed(wtree)
      BY <1>2 DEF SealInv, RestoreInv, TypeInv, ATypeOK, WTypeOK, Path, Tree
    <3>2. added.tree \in Tree(Name) /\ added.node \in 1 .. Len(added.tree)
      BY <1>4, <3>1, DirAddType
    <3> QED
      BY <3>2, NodeType
  <2>4. type \in Types /\ type # "file" /\ (type = "dir" => node.parent = Root)
    BY DEF Types
  <2>5. e.type = type /\ e.comp = "stored" /\ e.num = node.parent /\ e.data = <<>> /\ e.crc = NoCrc
    OBVIOUS
  <2> HIDE DEF e, type
  <2>3. /\ Len(arc') = wpos + 1 /\ arc'[wpos + 1] = e
        /\ \A k \in 1 .. wpos : arc'[k] = arc[k]
    BY <1>2, <2>1
  <2>6. e.name = <<LastName(p)>>
    <3>1. Intact' /\ WellFormed(wtree') /\ wtree' \in Tree(Name)
      BY <1>2 DEF RestoreInv, TypeInv, ATypeOK, WTypeOK, Tree
    <3>2. PICK c : Numbered(arc', input, wtree', c)
      BY <2>1, <3>1 DEF Intact
    <3>3. wpos + 1 \in 1 .. Len(arc')
      BY <1>2, <2>3
    <3>4. Restores(e, input[wpos + 1], wtree', c[(wpos + 1) - 1], c[wpos + 1])
      BY <2>3, <3>2, <3>3 DEF Numbered
    <3> DEFINE j == c[wpos + 1]
    <3>5. /\ j \in 1 .. Len(wtree') /\ p = PathOf(wtree', j) /\ e.name = <<(wtree'[j]).name>>
      BY <2>4, <2>5, <3>4 DEF Restores, Current
    <3> HIDE DEF j
    <3>6. Len(wtree') \in Nat /\ j \in Nodes(wtree') /\ j # Root
      BY <3>1, <3>5 DEF Tree, Nodes, Root
    <3>7. p = Append(PathOf(wtree', (wtree'[j]).parent), (wtree'[j]).name)
      BY <3>1, <3>5, <3>6, PathOfNode
    <3>8. PathOf(wtree', (wtree'[j]).parent) \in Seq(Name) /\ (wtree'[j]).name \in Name
      <4>1. (wtree'[j]).parent \in Nodes(wtree')
        BY <3>1, <3>5, <3>6 DEF WellFormed, Nodes
      <4> QED
        BY <3>1, <3>5, <4>1, PathOfIsPath, NodeType
    <3>9. LastName(p) = (wtree'[j]).name
      <4> SUFFICES ASSUME NEW q \in Seq(Name), NEW n \in Name
                   PROVE  Append(q, n)[Len(Append(q, n))] = n
        BY <3>7, <3>8 DEF LastName
      <4> QED
        OBVIOUS
    <3> QED
      BY <3>5, <3>9
  <2>7. wcrc' = SumOf(type, "stored", p, node.parent, <<>>) /\ wcrc' \in Crc
    <3>1. "stored" \in Comps /\ <<>> \in Seq(Unit) /\ p \in Path
      BY <1>2 DEF Comps
    <3>2. \A n \in Nat : /\ [HeaderCrc(type, "stored", p) EXCEPT !.num = n]
                              = SumOf(type, "stored", p, n, <<>>)
                         /\ [HeaderCrc(type, "stored", p) EXCEPT !.num = n] \in Crc
      BY <2>4, <3>1, SumSteps, HeaderCrcType
    <3> HIDE DEF node, p
    <3> QED
      BY <2>1, <2>2, <3>2
  <2>8. e \in Entry
    <3>1. arc' \in Seq(Entry) /\ wpos + 1 \in 1 .. Len(arc')
      BY <1>2, <2>3 DEF RestoreInv, TypeInv, ATypeOK, WTypeOK, FormatTypeOK
    <3> QED
      BY <2>3, <3>1, ElementOfSeq
  <2>9. Sealed([e EXCEPT !.crc = wcrc'], Current)
    <3>1. HoldsEntry(e, type, "stored", <<LastName(p)>>, node.parent, <<>>, NoCrc)
      BY <2>5, <2>6, <2>8 DEF HoldsEntry
    <3>2. HoldsEntry([e EXCEPT !.crc = wcrc'], type, "stored", <<LastName(p)>>, node.parent, <<>>, wcrc')
      BY <2>7, <3>1, EntrySteps
    <3>3. Payload(Current, "stored") = <<>>
      <4>1. Current.chunks = <<>> /\ Current.chunks \in Seq(Chunk)
        BY <1>1, <1>2 DEF Source
      <4> QED
        BY <4>1, PayloadUnits DEF Payload
    <3> QED
      BY <1>1, <2>2, <2>4, <2>7, <3>2, <3>3 DEF HoldsEntry, Sealed
  <2>10. Current' = Current /\ Last' = wpos + 1
    BY <2>1, <2>3 DEF Current, Last
  <2>11. (\E j \in 0 .. Len(arc) : LastDirectory(j, Len(arc)))'
    <3>1. input[wpos + 1].kind = "dir" /\ wdir' = input[wpos + 1].path
      BY <1>1, <2>1 DEF Current
    <3> PICK j : j = wpos + 1
      OBVIOUS
    <3>2. (LastDirectory(j, Len(arc)))'
      BY <1>2, <2>1, <2>3, <3>1 DEF LastDirectory
    <3> QED
      BY <1>2, <2>3, <3>2
  <2>12. Writing'
    <3>1. (Sealed([arc[Last] EXCEPT !.crc = wcrc], Current))'
      BY <2>3, <2>9, <2>10
    <3>2. hdr' = Len(input')
      BY <1>1, <2>1 DEF SealInv, Writing
    <3>3. (arc[Last].crc = NoCrc /\ arc[Last].name = <<LastName(Current.path)>>)'
      BY <2>3, <2>5, <2>6, <2>10
    <3> QED
      BY <2>1, <2>11, <3>1, <3>2, <3>3 DEF Writing
  <2>13. \E n \in Name : e.name = <<n>>
    BY <1>2, <2>6, LastNameType
  <2>14. Len(arc') <= Len(input) /\ Len(arc) <= Len(arc') /\ hdr' \in {NoHeader, Len(input)}
    BY <1>1, <1>2, <2>1, <2>3 DEF SealInv
  <2>15. wpc' # "done" /\ (e.type = "file" <=> input[wpos + 1].kind = "file")
    BY <1>1, <2>1, <2>4, <2>5 DEF Current
  <2>16. \A k \in 1 .. Len(arc') : k = wpos + 1 \/ (k <= Len(arc) /\ arc'[k] = arc[k])
    BY <1>2, <2>3
  <2> QED
    BY <1>1, <2>1, <2>3, <2>5, <2>12, <2>13, <2>14, <2>15, <2>16, SealFrame
<1> QED
  BY <1>3, <1>4

LEMMA SealWriter ==
  ASSUME SealInv, ~WEnded, WStep \/ WIoError \/ Crash, RestoreInv', UNCHANGED faults
  PROVE  SealInv'
<1>1. CASE OpenArchive
  <2>1. wpc = "open" /\ arc' = <<>> /\ hdr' = NoHeader /\ wpc' = "header" /\ UNCHANGED <<input, wpos, wdir>>
    BY <1>1 DEF OpenArchive
  <2>2. arc = <<>>
    <3>1. PICK c : WSession(c)
      BY WriterPlace DEF SealInv, RestoreInv, Intact
    <3> QED
      BY <2>1, <3>1, WriterPlace, EmptySeq DEF WSession, InEntry
  <2>3. Writing'
    <3>1. PICK j \in 0 .. Len(arc) : LastDirectory(j, Len(arc))
      BY DEF SealInv, Writing
    <3>2. arc' = arc
      BY <2>1, <2>2
    <3>3. (LastDirectory(j, Len(arc)))'
      BY <2>1, <3>1, <3>2 DEF LastDirectory
    <3> QED
      BY <2>1, <3>2, <3>3 DEF Writing, InEntry
  <2> QED
    BY <2>1, <2>2, <2>3, SealSame
<1>2. CASE WriteHeader
  <2>1. wpc = "header" /\ hdr' = Len(input) /\ wpc' = "entry" /\ UNCHANGED <<arc, input, wpos, wdir>>
    BY <1>2 DEF WriteHeader
  <2>2. Writing'
    <3>1. PICK j \in 0 .. Len(arc) : LastDirectory(j, Len(arc))
      BY DEF SealInv, Writing
    <3>2. (LastDirectory(j, Len(arc)))'
      BY <2>1, <3>1 DEF LastDirectory
    <3> QED
      BY <2>1, <3>2 DEF Writing, InEntry
  <2> QED
    BY <2>1, <2>2, SealSame
<1>3. CASE CloseArchive
  <2>1. /\ wpc = "entry" /\ wpos = Len(input) /\ wpc' = "done"
        /\ UNCHANGED <<arc, hdr, input, wpos>>
    BY <1>3 DEF CloseArchive
  <2>2. hdr = Len(input) /\ Len(arc) = Len(input)
    BY <2>1, WriterPlace DEF SealInv, Writing, InEntry
  <2> QED
    BY <2>1, <2>2, SealSame DEF WEnded
<1>4. CASE WIoError \/ Crash
  BY <1>4, SealSame DEF WIoError, Crash, WEnded
<1> QED
  BY <1>1, <1>2, <1>3, <1>4, SealWriteDir, SealWriteFileHeader, SealCompressChunk,
     SealKeepCompressed, SealFallBack, SealWriteSize, SealCopyUnit, SealCopyEnd, SealWriteCrc
     DEF WStep

----------------------------------------------------------------------------
(* What may happen to the archive file between the sessions. *)
Stump(r, e) ==
  /\ r.type = e.type /\ r.name = e.name /\ r.crc = NoCrc
  /\ e.data = <<>> => r.data = <<>>

LEMMA StumpsAreStumps ==
  ASSUME NEW e \in Entry, NEW r \in Stumps(e)
  PROVE  Stump(r, e)
<1>1. e.data \in Seq(Unit) /\ Len(e.data) \in Nat
  BY DEF Entry
<1>2. ASSUME NEW k \in 0 .. Len(e.data)
      PROVE  Stump([e EXCEPT !.data = SubSeq(@, 1, k), !.crc = NoCrc], e)
  <2>1. [e EXCEPT !.data = SubSeq(@, 1, k), !.crc = NoCrc] =
        [e EXCEPT !.data = SubSeq(e.data, 1, k), !.crc = NoCrc]
    OBVIOUS
  <2>2. e.data = <<>> => SubSeq(e.data, 1, k) = <<>>
    <3> SUFFICES ASSUME e.data = <<>> PROVE SubSeq(e.data, 1, k) = <<>>
      OBVIOUS
    <3>1. k = 0
      BY <1>1, EmptySeq
    <3> QED
      BY <1>1, <3>1, SubSeqEmpty
  <2> HIDE DEF Stump
  <2>3. \A d : (e.data = <<>> => d = <<>>) => Stump([e EXCEPT !.data = d, !.crc = NoCrc], e)
    BY DEF Stump, Entry
  <2> QED
    BY <2>1, <2>2, <2>3
<1>3. Stump([e EXCEPT !.num = Unwritten, !.data = <<>>, !.crc = NoCrc], e)
  BY DEF Stump, Entry
<1> QED
  BY <1>2, <1>3 DEF Stumps

LEMMA CutShape ==
  ASSUME SealInv, Cut
  PROVE  /\ Len(arc') \in Nat /\ Len(arc') <= Len(arc)
         /\ \A k \in 1 .. Len(arc') : arc'[k] = arc[k] \/ Stump(arc'[k], arc[k])
         /\ \/ hdr' = NoHeader
            \/ hdr' = hdr /\ Len(arc') < Len(arc)
            \/ hdr' = hdr /\ \E k \in 1 .. Len(arc') : Stump(arc'[k], arc[k])
<1>1. arc \in Seq(Entry) /\ Len(arc) \in Nat
  BY DEF SealInv, RestoreInv, TypeInv, ATypeOK, WTypeOK, FormatTypeOK
<1>2. CASE hdr' = NoHeader /\ arc' = <<>>
  BY <1>1, <1>2
<1>3. ASSUME NEW k \in 1 .. Len(arc)
      PROVE  /\ SubSeq(arc, 1, k - 1) \in Seq(Entry) /\ Len(SubSeq(arc, 1, k - 1)) = k - 1
             /\ \A i \in 1 .. k - 1 : SubSeq(arc, 1, k - 1)[i] = arc[i]
  <2>1. \A i \in 1 .. k - 1 : arc[i] \in Entry
    BY <1>1, ElementOfSeq
  <2> QED
    BY <1>1, <2>1, SubSeqProperties
<1>4. CASE hdr' = hdr /\ \E k \in 1 .. Len(arc) : arc' = SubSeq(arc, 1, k - 1)
  <2>1. PICK k \in 1 .. Len(arc) : arc' = SubSeq(arc, 1, k - 1)
    BY <1>4
  <2>2. Len(arc') = k - 1 /\ \A i \in 1 .. k - 1 : arc'[i] = arc[i]
    BY <1>3, <2>1
  <2> QED
    BY <1>1, <1>4, <2>2
<1>5. CASE hdr' = hdr /\ \E k \in 1 .. Len(arc) : \E e \in Stumps(arc[k]) :
             arc' = Append(SubSeq(arc, 1, k - 1), e)
  <2>1. PICK k \in 1 .. Len(arc) : \E e \in Stumps(arc[k]) :
          arc' = Append(SubSeq(arc, 1, k - 1), e)
    BY <1>5
  <2> PICK e \in Stumps(arc[k]) : arc' = Append(SubSeq(arc, 1, k - 1), e)
    BY <2>1
  <2>2. arc[k] \in Entry
    BY <1>1, ElementOfSeq
  <2>3. e \in Entry /\ Stump(e, arc[k])
    BY <2>2, StumpsType, StumpsAreStumps
  <2>4. Len(arc') = (k - 1) + 1 /\ arc'[(k - 1) + 1] = e /\ \A i \in 1 .. k - 1 : arc'[i] = arc[i]
    BY <1>3, <2>3, AppendProperties
  <2>5. (k - 1) + 1 = k /\ k \in Nat /\ k <= Len(arc) /\ k \in 1 .. k
    BY <1>1
  <2>6. ASSUME NEW i \in 1 .. k PROVE arc'[i] = arc[i] \/ Stump(arc'[i], arc[i])
    <3>1. i = k \/ i \in 1 .. k - 1
      OBVIOUS
    <3> QED
      BY <2>3, <2>4, <2>5, <3>1
  <2>7. Len(arc') = k /\ Stump(arc'[k], arc[k])
    BY <2>3, <2>4, <2>5
  <2> QED
    BY <1>5, <2>5, <2>6, <2>7
<1> QED
  BY <1>2, <1>4, <1>5 DEF Cut

LEMMA SealCut ==
  ASSUME SealInv, RestoreInv', Cut
  PROVE  SealInv'
<1>1. /\ WEnded' /\ UNCHANGED <<input, wpc, wpos>> /\ ~Unharmed'
      /\ "damage" \in faults <=> "damage" \in faults'
  BY DEF Cut, AtRest, WEnded, wvars, Unharmed
<1>2. Len(arc) \in Nat /\ Len(arc') \in Nat /\ Len(input) \in Nat /\ Len(arc) <= Len(input)
  BY CutShape DEF SealInv, RestoreInv, TypeInv, ATypeOK, WTypeOK, FormatTypeOK
<1>3. Len(arc') <= Len(input') /\ hdr' \in {NoHeader, Len(input')}
  BY <1>1, <1>2, CutShape DEF SealInv
<1>4. ASSUME NEW k \in 1 .. Len(arc')
      PROVE  /\ Kept(arc'[k], input'[k])
             /\ "damage" \notin faults' => arc'[k].crc = NoCrc \/ Sealed(arc'[k], input'[k])
  <2>1. k \in 1 .. Len(arc) /\ (arc'[k] = arc[k] \/ Stump(arc'[k], arc[k]))
    BY <1>2, CutShape
  <2>2. Kept(arc[k], input[k])
    BY <2>1 DEF SealInv
  <2>3. CASE arc'[k] = arc[k]
    BY <1>1, <2>1, <2>2, <2>3 DEF SealInv
  <2>4. CASE Stump(arc'[k], arc[k])
    BY <1>1, <2>2, <2>4 DEF Kept, Stump, Vouched
  <2> QED
    BY <2>1, <2>3, <2>4
<1>5. Tainted'
  <2>1. CASE hdr' = NoHeader
    BY <2>1 DEF Tainted
  <2>2. CASE Len(arc') < Len(arc)
    BY <1>1, <1>2, <2>2 DEF Tainted
  <2>3. CASE \E k \in 1 .. Len(arc') : Stump(arc'[k], arc[k])
    BY <2>3 DEF Stump, Spoiled, Tainted
  <2> QED
    BY <2>1, <2>2, <2>3, CutShape
<1> QED
  BY <1>1, <1>3, <1>4, <1>5 DEF SealInv

(* Damage to a sealed entry shows in it; its sum stays or is no sum. *)
LEMMA DamageShows ==
  ASSUME NEW x, NEW e \in Entry, NEW r \in Damages(e), e.crc = NoCrc \/ Sealed(e, x)
  PROVE  /\ Spoiled(r, x) /\ r.type = e.type
         /\ (r.name = e.name \/ \E n \in Name : r.name = <<n>>)
         /\ e.data = <<>> => r.data = <<>>
         /\ r.crc = e.crc \/ (e.crc # NoCrc /\ r.crc.ok = FALSE)
<1> DEFINE Shows(d) ==
      /\ Spoiled(d, x) /\ d.type = e.type
      /\ (d.name = e.name \/ \E n \in Name : d.name = <<n>>)
      /\ e.data = <<>> => d.data = <<>>
      /\ d.crc = e.crc \/ (e.crc # NoCrc /\ d.crc.ok = FALSE)
<1>1. e.crc # NoCrc => Sealed(e, x) /\ e.crc \in Crc
  BY DEF Entry
<1>2. ASSUME NEW n \in Name, e.name # <<n>>
      PROVE  Shows([e EXCEPT !.name = <<n>>])
  BY <1>1, <1>2 DEF Spoiled, Sealed, Entry
<1>3. ASSUME NEW k \in 1 .. Len(e.data)
      PROVE  Shows([e EXCEPT !.data[k] = Damaged(@)])
  <2> DEFINE d == [e.data EXCEPT ![k] = Damaged(e.data[k])]
             f == [e EXCEPT !.data = d]
  <2>1. e.data \in Seq(Unit) /\ e.data[k] \in Unit /\ Damaged(e.data[k]) \in Unit
    <3>1. e.data \in Seq(Unit)
      BY DEF Entry
    <3> QED
      BY <3>1, ElementOfSeq, UnitValues
  <2>2. Len(d) = Len(e.data) /\ d[k] = Damaged(e.data[k])
    BY <2>1, ExceptSeq
  <2>3. Damaged(e.data[k]).ok = FALSE
    BY <2>1 DEF Damaged, Unit
  <2>4. e.data # <<>>
    BY <2>1, EmptySeq
  <2> HIDE DEF d
  <2>5. f.data = d /\ f.type = e.type /\ f.name = e.name /\ f.crc = e.crc
    BY DEF Entry
  <2> HIDE DEF f
  <2>6. Shows(f)
    BY <2>2, <2>3, <2>4, <2>5 DEF Spoiled
  <2> QED
    BY <2>6 DEF f, d
<1>4. ASSUME e.crc # NoCrc
      PROVE  Shows([e EXCEPT !.crc.ok = FALSE])
  <2> DEFINE c == [e.crc EXCEPT !.ok = FALSE]
             f == [e EXCEPT !.crc = c]
  <2>1. c.ok = FALSE
    BY <1>1, <1>4 DEF Crc
  <2> HIDE DEF c
  <2>2. f.crc = c /\ f.type = e.type /\ f.name = e.name /\ f.data = e.data
    BY DEF Entry
  <2> HIDE DEF f
  <2>3. Shows(f)
    BY <1>4, <2>1, <2>2 DEF Spoiled
  <2> QED
    BY <2>3 DEF f, c
<1>5. ASSUME e.type = "subdir", NEW p, p # e.num
      PROVE  Shows([e EXCEPT !.num = p])
  <2> DEFINE f == [e EXCEPT !.num = p]
  <2>1. f.num = p /\ f.type = e.type /\ f.name = e.name /\ f.data = e.data /\ f.crc = e.crc
    BY DEF Entry
  <2> HIDE DEF f
  <2>2. e.crc # NoCrc => e.crc.num = e.num
    <3>1. \A t, b, q, n, d : SumOf(t, b, q, n, d).num = n
      BY DEF SumOf, HeaderCrc
    <3> QED
      BY <1>1, <3>1 DEF Sealed
  <2>3. Shows(f)
    BY <1>5, <2>1, <2>2 DEF Spoiled
  <2> QED
    BY <2>3 DEF f
<1>6. ASSUME NEW b, b # e.comp
      PROVE  Shows([e EXCEPT !.comp = b])
  <2> DEFINE f == [e EXCEPT !.comp = b]
  <2>1. f.comp = b /\ f.type = e.type /\ f.name = e.name /\ f.data = e.data /\ f.crc = e.crc
    BY DEF Entry
  <2> HIDE DEF f
  <2>2. e.crc # NoCrc => e.crc.comp = e.comp
    <3>1. \A t, d, q, n, g : SumOf(t, d, q, n, g).comp = d
      BY DEF SumOf, HeaderCrc
    <3> QED
      BY <1>1, <3>1 DEF Sealed
  <2>3. Shows(f)
    BY <1>6, <2>1, <2>2 DEF Spoiled
  <2> QED
    BY <2>3 DEF f
<1>7. Shows(r)
  <2> HIDE DEF Shows
  <2> QED
    BY <1>2, <1>3, <1>4, <1>5, <1>6 DEF Damages
<1> QED
  BY <1>7

LEMMA SealDamage ==
  ASSUME SealInv, RestoreInv', Damage
  PROVE  SealInv'
<1>1. /\ WEnded' /\ UNCHANGED <<hdr, input, wpc, wpos>> /\ ~Unharmed'
      /\ "damage" \notin faults /\ "damage" \in faults'
  BY DEF Damage, AtRest, WEnded, wvars, Unharmed
<1>2. PICK j \in 1 .. Len(arc) : \E r \in Damages(arc[j]) : arc' = [arc EXCEPT ![j] = r]
  BY DEF Damage
<1> PICK r \in Damages(arc[j]) : arc' = [arc EXCEPT ![j] = r]
  BY <1>2
<1>3. arc \in Seq(Entry) /\ Len(arc) \in Nat /\ arc[j] \in Entry
  <2>1. arc \in Seq(Entry)
    BY DEF SealInv, RestoreInv, TypeInv, ATypeOK, WTypeOK, FormatTypeOK
  <2> QED
    BY <2>1, ElementOfSeq
<1>4. r \in Entry
  BY <1>3, DamagesType
<1>5. Len(arc') = Len(arc) /\ \A k \in 1 .. Len(arc) : arc'[k] = IF k = j THEN r ELSE arc[k]
  BY <1>3, <1>4, ExceptSeq
<1>6. /\ arc[j].crc = NoCrc \/ Sealed(arc[j], input[j])
      /\ Kept(arc[j], input[j]) /\ Len(arc) <= Len(input)
  BY <1>1 DEF SealInv
<1>7. /\ Spoiled(r, input[j]) /\ r.type = arc[j].type
      /\ r.name = arc[j].name \/ \E n \in Name : r.name = <<n>>
      /\ arc[j].data = <<>> => r.data = <<>>
      /\ r.crc = arc[j].crc \/ (arc[j].crc # NoCrc /\ r.crc.ok = FALSE)
  BY <1>3, <1>6, DamageShows
<1>8. Kept(r, input[j])
  <2>1. Vouched(r, input[j])
    BY <1>3, <1>6, <1>7 DEF Vouched
  <2> QED
    BY <1>6, <1>7, <2>1 DEF Kept
<1>9. \A k \in 1 .. Len(arc') : Kept(arc'[k], input[k])
  BY <1>5, <1>8 DEF SealInv
<1>10. Tainted'
  BY <1>1, <1>5, <1>7 DEF Tainted
<1>11. Len(arc') <= Len(input') /\ hdr' \in {NoHeader, Len(input')}
  BY <1>1, <1>5 DEF SealInv
<1> QED
  BY <1>1, <1>9, <1>10, <1>11 DEF SealInv

----------------------------------------------------------------------------
(* No step but a writer's, a cut or a damage changes any of this. *)
LEMMA SealKept ==
  ASSUME SealInv, RestoreInv', UNCHANGED <<hdr, arc, wvars>>,
         "cut" \in faults <=> "cut" \in faults', "damage" \in faults <=> "damage" \in faults'
  PROVE  SealInv'
<1>1. UNCHANGED <<input, wpc, wpos, wdir, wcnt, wbuf, wcrc>> /\ Unharmed' = Unharmed /\ WEnded' = WEnded
  BY DEF wvars, Unharmed, WEnded
<1>2. Tainted' = Tainted
  BY <1>1 DEF Tainted
<1>3. Writing => Writing'
  BY <1>1 DEF Writing, LastDirectory, InEntry, Current, Last
<1> QED
  BY <1>1, <1>2, <1>3 DEF SealInv

LEMMA SealInit == Init => SealInv
<1> SUFFICES ASSUME Init PROVE SealInv
  OBVIOUS
<1>1. RestoreInv
  BY RestoreInit
<1>2. /\ arc = <<>> /\ Len(arc) = 0 /\ hdr = NoHeader /\ wpos = 0 /\ wpc = "open"
      /\ wdir = <<>> /\ faults = {} /\ Len(input) \in Nat
  BY InputsAssumption DEF Init, WInit
<1>3. Unharmed /\ ~InEntry
  BY <1>2 DEF Unharmed, InEntry
<1>4. LastDirectory(0, 0)
  BY <1>2 DEF LastDirectory
<1>5. Writing
  BY <1>2, <1>3, <1>4 DEF Writing
<1> QED
  BY <1>1, <1>2, <1>3, <1>5 DEF SealInv

LEMMA SealStep == SealInv /\ [Next]_avars => SealInv'
<1> SUFFICES ASSUME SealInv, [Next]_avars PROVE SealInv'
  OBVIOUS
<1>1. RestoreInv'
  BY RestoreStep DEF SealInv
<1>2. CASE WriterStep \/ WriterError \/ Crash
  <2>1. ~WEnded
    <3>1. CASE WriterStep \/ WriterError
      BY <3>1, TypeWriter DEF SealInv, RestoreInv, WriterStep, WriterError
    <3> QED
      BY <1>2, <3>1 DEF Crash
  <2>2. WStep \/ WIoError \/ Crash
    BY <1>2 DEF WriterStep, WriterError
  <2>3. UNCHANGED faults
    BY <1>2 DEF WriterStep, WriterError, Crash
  <2> QED
    BY <1>1, <2>1, <2>2, <2>3, SealWriter
<1>3. CASE Cut
  BY <1>1, <1>3, SealCut
<1>4. CASE Damage
  BY <1>1, <1>4, SealDamage
<1>5. CASE ReaderStep \/ ReaderError \/ UNCHANGED avars
  <2>1. /\ UNCHANGED <<hdr, arc, wvars>>
        /\ "cut" \in faults <=> "cut" \in faults'
        /\ "damage" \in faults <=> "damage" \in faults'
    BY <1>5 DEF ReaderStep, ReaderError, avars
  <2> QED
    BY <1>1, <2>1, SealKept
<1> QED
  BY <1>2, <1>3, <1>4, <1>5 DEF Next, Over

(* For every plan and all chunks: each entry that is complete in an        *)
(* untouched archive says of itself what the reader will compute, on every *)
(* way through bra_io_file_ctx_write_meta_entry: its size is the one of    *)
(* its payload, which is smaller than the file if it is compressed; its    *)
(* payload decodes to the file; its sum covers attributes, full path,      *)
(* size or parent, and payload, the rewound attempt left out.              *)
THEOREM EntriesAreSealed == Spec => []EntriesSealed
<1>1. SealInv => EntriesSealed
  <2> SUFFICES ASSUME SealInv, Unharmed, NEW k \in 1 .. wpos
               PROVE  LET e == arc[k]
                      IN  /\ e.type = "file" => e.num = TotalBytes(e.data)
                          /\ e.comp = "compressed" => e.num < TotalBytes(Content(input[k]))
                          /\ [j \in 1 .. Len(e.data) |-> Decoded(e.data[j])] = Content(input[k])
                          /\ \A j \in 1 .. Len(e.data) : e.data[j].enc <=> e.comp = "compressed"
                          /\ e.crc = [HeaderCrc(e.type, e.comp, input[k].path)
                                        EXCEPT !.num = e.num, !.data = e.data]
    BY DEF EntriesSealed, Unharmed
  <2>1. Sealed(arc[k], input[k])
    BY DEF SealInv
  <2>2. input[k] \in Source
    <3>1. input \in Seq(Source) /\ wpos \in Nat /\ wpos <= Len(input) /\ Len(input) \in Nat
      BY DEF SealInv, RestoreInv, TypeInv, ATypeOK, WTypeOK
    <3> QED
      BY <3>1, ElementOfSeq
  <2>3. arc[k].data = Payload(input[k], arc[k].comp)
    BY <2>1 DEF Sealed
  <2> DEFINE x == input[k]
             e == arc[k]
  <2>4. [j \in 1 .. Len(e.data) |-> Decoded(e.data[j])] = Content(x)
    BY <2>2, <2>3, SealedContent
  <2>5. \A j \in 1 .. Len(e.data) : e.data[j].enc <=> e.comp = "compressed"
    <3> DEFINE comp == e.comp
    <3>1. /\ Len(Payload(x, comp)) = Len(x.chunks)
          /\ \A j \in 1 .. Len(x.chunks) : Payload(x, comp)[j].enc <=> comp = "compressed"
      <4> HIDE DEF comp
      <4> QED
        BY <2>2, SealedContent
    <3> QED
      BY <2>3, <3>1
  <2>6. e.crc = [HeaderCrc(e.type, e.comp, x.path) EXCEPT !.num = e.num, !.data = e.data]
    BY <2>1 DEF Sealed, SumOf
  <2> QED
    BY <2>1, <2>4, <2>5, <2>6 DEF Sealed
<1> QED
  BY <1>1, SealInit, SealStep, PTL DEF Spec

=============================================================================
