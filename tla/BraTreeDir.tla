---------------------------- MODULE BraTreeDir ----------------------------
(***************************************************************************)
(* The directory tree of an archive session (utils/bra_tree_dir.c).        *)
(*                                                                         *)
(* A tree is a sequence of nodes [parent, name].  Node i of the sequence   *)
(* is the node the code numbers i (bra_tree_node_t.index); the root, which *)
(* the code allocates first and numbers 0, has no name and no entry.  New  *)
(* nodes take the index num_nodes, so they go to the end of the sequence.  *)
(* A directory name is one path component; a path is a sequence of them.   *)
(*                                                                         *)
(* The writer adds a directory by its path, the reader by the index of its *)
(* parent: the file format relies on both sides numbering the nodes alike. *)
(***************************************************************************)
EXTENDS Integers, Sequences

Root == 0

Nodes(t) == 0 .. Len(t)

Node(p, n) == [parent |-> p, name |-> n]

(* What an operation on the tree returns: the tree and a node of it. *)
Found(t, i) == [tree |-> t, node |-> i]

NoNode == -1

----------------------------------------------------------------------------
(* The node a child lookup finds: strcmp over the siblings under p. *)
Siblings(t, p, n) == {i \in 1 .. Len(t) : t[i] = Node(p, n)}

(* _bra_tree_dir_add_child_node: the node already there, or a new one. *)
AddChild(t, p, n) ==
  IF Siblings(t, p, n) # {}
    THEN Found(t, CHOOSE i \in Siblings(t, p, n) : TRUE)
    ELSE Found(Append(t, Node(p, n)), Len(t) + 1)

(* bra_tree_dir_add: walk the components of a path from the root, adding   *)
(* those that are missing; a path that is there already is an error.       *)
Walk(t, path) ==
  LET walk[k \in 0 .. Len(path)] ==
        IF k = 0 THEN Found(t, Root)
                 ELSE AddChild(walk[k - 1].tree, walk[k - 1].node, path[k])
  IN  walk

DirAdd(t, path) ==
  LET end == Walk(t, path)[Len(path)]
  IN  IF end.tree = t THEN Found(t, NoNode) ELSE end

(* bra_tree_dir_insert_at_parent, for a name that is one component: fails  *)
(* when no node has the parent index.  (And one that counts from 1.)       *)
InsertOneOff(t, p, n) ==
  IF p \in Nodes(t) THEN AddChild(t, IF p = Root THEN Root ELSE p - 1, n)
                     ELSE Found(t, NoNode)

InsertAtParent(t, p, n) ==
  IF p \in Nodes(t) THEN AddChild(t, p, n) ELSE Found(t, NoNode)

(* bra_tree_dir_reconstruct_path: the names from the root down to a node. *)
Paths(t) ==
  LET path[i \in Nodes(t)] ==
        IF i = Root THEN <<>> ELSE Append(path[t[i].parent], t[i].name)
  IN  path

PathOf(t, i) == Paths(t)[i]

----------------------------------------------------------------------------
(* The shape every reachable tree has: a node comes after its parent, and  *)
(* no parent has two children of one name.                                 *)
WellFormed(t) ==
  /\ \A i \in 1 .. Len(t) : t[i].parent \in 0 .. i - 1
  /\ \A i, j \in 1 .. Len(t) : t[i] = t[j] => i = j
============================================================================
