-------------------------- MODULE PromiseTreeProofs --------------------------
(***************************************************************************)
(* Proofs about PromiseTree: builders and promises are trees, the daemon   *)
(* rebuilds what the client has built, and inodes are unique and keep      *)
(* their meaning, for every set of clients and of paths.                   *)
(***************************************************************************)
EXTENDS PromiseTree, FiniteSetTheorems, TLAPS

\* What the daemon has added is what the client has built, without what is left.
RebuiltAgrees ==
    \A c \in Clients : pc[c] = "Sent" =>
        /\ body[c] \subseteq Present(builder[c]) \ {<<>>}
        /\ \A p \in Paths : rebuilt[c].nodes[p] = IF p \in body[c] THEN None ELSE builder[c].nodes[p]

\* Numbers that have not been given out are free.
NotYet == \A m \in PromiseIds : m >= nextPromise => promises[m] = None

TreeInv == TreeTypeOK /\ TreesAreTrees /\ RebuiltAgrees /\ NotYet /\ InodesUnique

-----------------------------------------------------------------------------
(* Trees *)

\* PromiseBuilder::new makes a tree of the root alone.
LEMMA NewBuilderIsTree == NewBuilder \in Trees /\ IsTree(NewBuilder)
<1>1. NewBuilder \in Trees
  BY Zenon DEF NewBuilder, Trees, Kinds
<1>2. Present(NewBuilder) = {<<>>}
  BY PathAssumptions, Zenon DEF NewBuilder, Present
<1> QED BY <1>1, <1>2, PathAssumptions, Zenon DEF IsTree, NewBuilder

\* add_node, where its checks succeed, makes a tree of a tree.
LEMMA AddKeepsTree ==
    ASSUME NEW tree \in Trees, IsTree(tree), NEW p \in Paths, CanAdd(tree, p), NEW kind \in Kinds
    PROVE  add_node(tree, p, kind) \in Trees /\ IsTree(add_node(tree, p, kind))
<1> DEFINE new == add_node(tree, p, kind)
           d == parent_path(p)
<1>1. d \in Paths /\ p # <<>> /\ tree.nodes[p] = None /\ tree.nodes[d] = "Directory"
  BY PathAssumptions, Zenon DEF CanAdd
<1>2. kind # None /\ "Directory" # None
  BY PathAssumptions, Zenon DEF Kinds
<1>3. tree.nodes \in [Paths -> Kinds \cup {None}] /\ tree.children \in [Paths -> SUBSET Paths]
  BY Zenon DEF Trees
<1>4. /\ new.nodes = [tree.nodes EXCEPT ![p] = kind]
      /\ new.children = [tree.children EXCEPT ![d] = @ \cup {p}]
  BY Zenon DEF add_node
<1>5. new \in Trees
  BY <1>1, <1>3, Zenon DEF add_node, Trees
<1>6. Present(new) = Present(tree) \cup {p}
  BY <1>2, <1>3, <1>4, Zenon DEF Present
<1>7. new.nodes[<<>>] = "Directory"
  BY <1>1, <1>3, <1>4, PathAssumptions, Zenon DEF IsTree
<1>8. d # p
  BY <1>1, <1>2, Zenon
<1>9. ASSUME NEW q \in Present(new) \ {<<>>} PROVE new.nodes[parent_path(q)] = "Directory"
  <2>1. q \in Paths /\ parent_path(q) \in Paths
    BY PathAssumptions, Zenon DEF Present
  <2>2. tree.nodes[parent_path(q)] = "Directory"
    BY <1>1, <1>6, <1>9, Zenon DEF IsTree
  <2>3. parent_path(q) # p
    BY <1>1, <1>2, <2>2, Zenon
  <2> QED BY <1>3, <1>4, <2>1, <2>2, <2>3, Zenon
<1>10. ASSUME NEW q \in Paths
       PROVE  new.children[q] = {r \in Present(new) \ {<<>>} : parent_path(r) = q}
  <2>1. tree.children[q] = {r \in Present(tree) \ {<<>>} : parent_path(r) = q}
    BY Zenon DEF IsTree
  <2>2. CASE q = d
    <3>1. new.children[q] = tree.children[q] \cup {p}
      BY <1>1, <1>3, <1>4, <2>2, Zenon
    <3> QED BY <1>1, <1>6, <2>1, <2>2, <3>1, Zenon
  <2>3. CASE q # d
    <3>1. new.children[q] = tree.children[q]
      BY <1>1, <1>3, <1>4, <2>3, Zenon
    <3> QED BY <1>1, <1>6, <2>1, <2>3, <3>1, Zenon
  <2> QED BY <2>2, <2>3, Zenon
<1> HIDE DEF new
<1>11. IsTree(new)
  BY <1>7, <1>9, <1>10, Zenon DEF IsTree
<1> QED BY <1>5, <1>11, Zenon DEF new

\* Two trees with the same nodes have the same children.
LEMMA SameNodes ==
    ASSUME NEW s \in Trees, NEW t \in Trees, IsTree(s), IsTree(t),
           \A p \in Paths : s.nodes[p] = t.nodes[p]
    PROVE  s = t
<1>1. s.nodes = t.nodes
  BY DEF Trees
<1>0. Present(s) = Present(t)
  BY Zenon DEF Present
<1>2. \A p \in Paths : s.children[p] = t.children[p]
  BY <1>0, Zenon DEF IsTree
<1>3. s.children = t.children
  BY <1>2 DEF Trees
<1> QED BY <1>1, <1>3 DEF Trees

\* The next node that the daemon adds can be added: its directory is not behind it.
LEMMA NextCanBeAdded ==
    ASSUME TreeTypeOK, TreesAreTrees, RebuiltAgrees,
           NEW c \in Clients, pc[c] = "Sent", NEW p \in body[c], IsNext(c, p)
    PROVE  CanAdd(rebuilt[c], p)
<1> DEFINE d == parent_path(p)
<1>1. p \in Paths /\ p # <<>> /\ p \in Present(builder[c])
  BY Zenon DEF RebuiltAgrees, Present
<1>2. d \in Paths /\ Before(d, p) /\ ~Before(p, d)
  BY <1>1, PathAssumptions, Zenon
<1>3. d \notin body[c]
  <2>1. SUFFICES ASSUME d \in body[c] PROVE FALSE
    BY Zenon
  <2>2. d # p
    BY <1>2, Zenon
  <2> QED BY <1>2, <2>1, <2>2, Zenon DEF IsNext
<1>4. builder[c].nodes[d] = "Directory"
  BY <1>1, Zenon DEF TreesAreTrees, IsTree
<1>5. rebuilt[c].nodes[d] = "Directory" /\ rebuilt[c].nodes[p] = None
  BY <1>1, <1>2, <1>3, <1>4, Zenon DEF RebuiltAgrees
<1> QED BY <1>1, <1>5, Zenon DEF CanAdd

-----------------------------------------------------------------------------
(* Numbers *)

\* The nodes of a tree are finitely many.
LEMMA PresentIsFinite ==
    ASSUME NEW tree
    PROVE  IsFiniteSet(Present(tree)) /\ Cardinality(Present(tree)) \in Nat
<1>1. Present(tree) \in SUBSET Paths
  BY Zenon DEF Present
<1>2. IsFiniteSet(Present(tree))
  BY <1>1, FS_Subset, PathAssumptions, Zenon
<1> QED BY <1>2, FS_CardinalityType, Zenon

\* A node has a rank below the number of nodes.
LEMMA RankIsBelow ==
    ASSUME NEW tree, NEW p \in Present(tree)
    PROVE  Rank(tree, p) \in Nat /\ Rank(tree, p) < Cardinality(Present(tree))
<1> DEFINE S == Present(tree)
           T == {q \in Present(tree) : Before(q, p)}
<1>1. IsFiniteSet(S) /\ Cardinality(S) \in Nat /\ T \in SUBSET S
  BY PresentIsFinite, Zenon
<1>2. p \in S /\ p \notin T
  BY PathAssumptions, Zenon DEF Present
<1>3. IsFiniteSet(T) /\ Cardinality(T) <= Cardinality(S) /\ (Cardinality(S) = Cardinality(T) => S = T)
  BY <1>1, FS_Subset, Zenon
<1>4. Cardinality(T) \in Nat
  BY <1>3, FS_CardinalityType, Zenon
<1> QED BY <1>1, <1>2, <1>3, <1>4 DEF Rank

\* A node that comes later has a greater rank.
LEMMA RankGrows ==
    ASSUME NEW tree, NEW p \in Present(tree), NEW q \in Present(tree), Before(p, q)
    PROVE  Rank(tree, p) < Rank(tree, q)
<1> DEFINE S == {r \in Present(tree) : Before(r, q)}
           T == {r \in Present(tree) : Before(r, p)}
<1>1. T \in SUBSET S /\ p \in S /\ p \notin T
  BY PathAssumptions, Zenon DEF Present
<1>2. S \in SUBSET Present(tree) /\ IsFiniteSet(Present(tree))
  BY PresentIsFinite, Zenon
<1>3. IsFiniteSet(S)
  BY <1>2, FS_Subset, Zenon
<1>4. IsFiniteSet(T) /\ Cardinality(T) <= Cardinality(S) /\ (Cardinality(S) = Cardinality(T) => S = T)
  BY <1>1, <1>3, FS_Subset, Zenon
<1>5. Cardinality(S) \in Nat /\ Cardinality(T) \in Nat
  BY <1>3, <1>4, FS_CardinalityType, Zenon
<1> QED BY <1>1, <1>4, <1>5 DEF Rank

\* assign_runtime_ids gives the nodes of a tree distinct numbers, from next_inode on.
LEMMA NumbersOfTree ==
    ASSUME next_inode \in Nat, NEW tree
    PROVE  LET ids == assign_runtime_ids(tree)
           IN  /\ \A p \in Present(tree) :
                     /\ ids[p] \in Nat
                     /\ ids[p] >= next_inode /\ ids[p] < next_inode + Cardinality(Present(tree))
               /\ \A p, q \in Present(tree) : ids[p] = ids[q] => p = q
<1> DEFINE ids == assign_runtime_ids(tree)
<1>1. \A p \in Present(tree) : ids[p] = next_inode + Rank(tree, p)
  BY Zenon DEF assign_runtime_ids, Present
<1> HIDE DEF ids
<1>2. Cardinality(Present(tree)) \in Nat
  BY PresentIsFinite, Zenon
<1>3. ASSUME NEW p \in Present(tree)
      PROVE  ids[p] \in Nat /\ ids[p] >= next_inode /\ ids[p] < next_inode + Cardinality(Present(tree))
  <2>1. Rank(tree, p) \in Nat /\ Rank(tree, p) < Cardinality(Present(tree))
    BY RankIsBelow, Zenon
  <2> QED BY <1>1, <1>2, <2>1
<1>4. ASSUME NEW p \in Present(tree), NEW q \in Present(tree), p # q PROVE ids[p] # ids[q]
  <2>1. Rank(tree, p) \in Nat /\ Rank(tree, q) \in Nat
    BY RankIsBelow, Zenon
  <2>2. Before(p, q) \/ Before(q, p)
    BY <1>4, PathAssumptions, Zenon DEF Present
  <2>3. Rank(tree, p) # Rank(tree, q)
    BY <2>1, <2>2, RankGrows
  <2> QED BY <1>1, <2>1, <2>3
<1> QED BY <1>3, <1>4, Zenon DEF ids

-----------------------------------------------------------------------------
(* The invariant *)

\* The initial state satisfies the invariant.
LEMMA TreeInit == Init => TreeInv
<1> SUFFICES ASSUME Init PROVE TreeInv
  BY Zenon
<1>1. TreeTypeOK
  BY NewBuilderIsTree, PathAssumptions DEF Init, TreeTypeOK, FUSE_ROOT_INODE, PromiseIds
<1>2. TreesAreTrees
  BY NewBuilderIsTree, Zenon DEF Init, TreesAreTrees
<1>3. RebuiltAgrees
  BY Zenon DEF Init, RebuiltAgrees
<1>4. NotYet
  BY Zenon DEF Init, NotYet
<1>5. InodesUnique
  BY Zenon DEF Init, InodesUnique, Nodes
<1> QED BY <1>1, <1>2, <1>3, <1>4, <1>5, Zenon DEF TreeInv

\* A step that changes no promise and takes no number keeps what is said of them.
LEMMA PromisesKept ==
    ASSUME TreeInv, UNCHANGED <<promises, inode>>, nextPromise' \in Nat, nextPromise' >= nextPromise,
           next_inode' \in Nat, next_inode' >= next_inode
    PROVE  NotYet' /\ InodesUnique'
<1>1. nextPromise \in Nat /\ next_inode \in Nat /\ PromiseIds \subseteq Nat
  BY PathAssumptions DEF TreeInv, TreeTypeOK, PromiseIds, FUSE_ROOT_INODE
<1>2. NotYet'
  BY <1>1 DEF TreeInv, NotYet
<1>3. Nodes' = Nodes /\ \A n \in Nodes : InodeOf(n)' = InodeOf(n)
  BY Zenon DEF Nodes, InodeOf
<1>4. \A n \in Nodes : InodeOf(n) \in Nat
  BY DEF TreeInv, TreeTypeOK, Nodes, InodeOf
<1> QED BY <1>1, <1>2, <1>3, <1>4 DEF TreeInv, InodesUnique, FUSE_ROOT_INODE

\* fp_promise_add keeps the invariant.
LEMMA AddKeeps ==
    ASSUME TreeInv, NEW c \in Clients, NEW input \in Inputs, NEW kind \in Kinds,
           fp_promise_add(c, input, kind)
    PROVE  TreeInv'
<1> DEFINE p == normalize_relative_path(input)
<1>1. /\ pc[c] = "Build" /\ p \in Paths /\ CanAdd(builder[c], p)
      /\ builder' = [builder EXCEPT ![c] = add_node(@, p, kind)]
      /\ UNCHANGED <<pc, body, rebuilt, live, promiseVars, state>>
  BY Zenon DEF fp_promise_add
<1> HIDE DEF p
<1>2. TreeTypeOK /\ TreesAreTrees /\ builder[c] \in Trees /\ IsTree(builder[c])
  BY Zenon DEF TreeInv, TreeTypeOK, TreesAreTrees
<1>3. add_node(builder[c], p, kind) \in Trees /\ IsTree(add_node(builder[c], p, kind))
  BY <1>1, <1>2, AddKeepsTree, Zenon
<1>4. /\ builder' \in [Clients -> Trees] /\ builder'[c] = add_node(builder[c], p, kind)
      /\ \A e \in Clients \ {c} : builder'[e] = builder[e]
  BY <1>1, <1>2, <1>3, Zenon DEF TreeTypeOK
<1>5. TreeTypeOK'
  BY <1>1, <1>2, <1>4, Zenon DEF TreeTypeOK, promiseVars
<1>6. TreesAreTrees'
  BY <1>1, <1>2, <1>3, <1>4, Zenon DEF TreesAreTrees, promiseVars
<1>7. RebuiltAgrees'
  BY <1>1, <1>4, Zenon DEF TreeInv, RebuiltAgrees, Present
<1>8. NotYet' /\ InodesUnique'
  BY <1>1, <1>2, PromisesKept, PathAssumptions DEF promiseVars, TreeTypeOK, FUSE_ROOT_INODE
<1> QED BY <1>5, <1>6, <1>7, <1>8, Zenon DEF TreeInv

\* fp_promise_commit keeps the invariant.
LEMMA SendKeeps ==
    ASSUME TreeInv, NEW c \in Clients, fp_promise_commit(c)
    PROVE  TreeInv'
<1>1. /\ pc[c] = "Build" /\ pc' = [pc EXCEPT ![c] = "Sent"]
      /\ body' = [body EXCEPT ![c] = Present(builder[c]) \ {<<>>}]
      /\ rebuilt' = [rebuilt EXCEPT ![c] = NewBuilder]
      /\ UNCHANGED <<builder, live, promiseVars, state>>
  BY Zenon DEF fp_promise_commit
<1>2. TreeTypeOK /\ TreesAreTrees /\ RebuiltAgrees /\ IsTree(builder[c])
  BY Zenon DEF TreeInv, TreesAreTrees
<1>3. TreeTypeOK'
  BY <1>1, <1>2, NewBuilderIsTree, Zenon DEF TreeTypeOK, promiseVars, Present
<1>4. TreesAreTrees'
  BY <1>1, <1>2, NewBuilderIsTree, Zenon DEF TreesAreTrees, promiseVars, TreeTypeOK
<1>5. RebuiltAgrees'
  <2> SUFFICES ASSUME NEW e \in Clients, pc'[e] = "Sent"
      PROVE  /\ body'[e] \subseteq Present(builder'[e]) \ {<<>>}
             /\ \A p \in Paths : rebuilt'[e].nodes[p] = IF p \in body'[e] THEN None ELSE builder'[e].nodes[p]
    BY Zenon DEF RebuiltAgrees, Present
  <2>1. CASE e # c
    BY <1>1, <1>2, <2>1, Zenon DEF RebuiltAgrees, TreeTypeOK
  <2>2. CASE e = c
    <3>1. body'[c] = Present(builder[c]) \ {<<>>} /\ rebuilt'[c] = NewBuilder /\ builder' = builder
      BY <1>1, <1>2, Zenon DEF TreeTypeOK
    <3>2. ASSUME NEW p \in Paths
          PROVE  NewBuilder.nodes[p] = IF p \in Present(builder[c]) \ {<<>>} THEN None ELSE builder[c].nodes[p]
      <4>1. CASE p = <<>>
        BY <1>2, <4>1, PathAssumptions, Zenon DEF NewBuilder, IsTree
      <4>2. CASE p # <<>>
        BY <4>2, Zenon DEF NewBuilder, Present
      <4> QED BY <4>1, <4>2, Zenon
    <3> QED BY <2>2, <3>1, <3>2, Zenon
  <2> QED BY <2>1, <2>2, Zenon
<1>6. NotYet' /\ InodesUnique'
  BY <1>1, <1>2, PromisesKept, PathAssumptions DEF promiseVars, TreeTypeOK, FUSE_ROOT_INODE
<1> QED BY <1>3, <1>4, <1>5, <1>6, Zenon DEF TreeInv

\* When the request ends, in whatever way, client and daemon agree as before.
LEMMA EndKeeps ==
    ASSUME TreeInv, NEW c \in Clients, NEW place \in {"Build", "Reply"},
           EndRequest(c, place), builder' = builder
    PROVE  /\ pc' \in [Clients -> {"Build", "Sent", "Reply", "Committed"}]
           /\ body' \in [Clients -> SUBSET Paths] /\ rebuilt' \in [Clients -> Trees]
           /\ \A e \in Clients : IsTree(rebuilt'[e])
           /\ RebuiltAgrees'
<1>1. /\ pc' = [pc EXCEPT ![c] = place]
      /\ body' = [body EXCEPT ![c] = {}]
      /\ rebuilt' = [rebuilt EXCEPT ![c] = NewBuilder]
  BY Zenon DEF EndRequest
<1>2. TreeTypeOK /\ TreesAreTrees /\ RebuiltAgrees
  BY Zenon DEF TreeInv
<1>3. /\ pc' \in [Clients -> {"Build", "Sent", "Reply", "Committed"}]
      /\ body' \in [Clients -> SUBSET Paths] /\ rebuilt' \in [Clients -> Trees]
  BY <1>1, <1>2, NewBuilderIsTree, Zenon DEF TreeTypeOK
<1>4. \A e \in Clients : IsTree(rebuilt'[e])
  BY <1>1, <1>2, NewBuilderIsTree, Zenon DEF TreesAreTrees, TreeTypeOK
<1>5. \A e \in Clients : pc'[e] = "Sent" => e # c /\ pc[e] = "Sent" /\ body'[e] = body[e] /\ rebuilt'[e] = rebuilt[e]
  BY <1>1, <1>2, Zenon DEF TreeTypeOK
<1>6. RebuiltAgrees'
  BY <1>2, <1>5 DEF RebuiltAgrees, Present
<1> QED BY <1>3, <1>4, <1>6, Zenon

\* AddNext keeps the invariant; the daemon refuses nothing.
LEMMA AddNextKeeps ==
    ASSUME TreeInv, NEW c \in Clients, AddNext(c)
    PROVE  TreeInv'
<1>0. TreeTypeOK /\ TreesAreTrees /\ RebuiltAgrees /\ pc[c] = "Sent"
  BY Zenon DEF TreeInv, AddNext
<1>1. PICK p \in body[c] :
          /\ IsNext(c, p)
          /\ IF CanAdd(rebuilt[c], p)
             THEN /\ rebuilt' = [rebuilt EXCEPT ![c] = add_node(@, p, builder[c].nodes[p])]
                  /\ body' = [body EXCEPT ![c] = @ \ {p}]
                  /\ UNCHANGED pc
             ELSE EndRequest(c, "Build")
  BY Zenon DEF AddNext
<1>2. UNCHANGED <<builder, live, promiseVars, state>>
  BY Zenon DEF AddNext
<1>3. CanAdd(rebuilt[c], p)
  BY <1>0, <1>1, NextCanBeAdded, Zenon
<1>4. /\ rebuilt' = [rebuilt EXCEPT ![c] = add_node(@, p, builder[c].nodes[p])]
      /\ body' = [body EXCEPT ![c] = @ \ {p}]
      /\ UNCHANGED pc
  BY <1>1, <1>3, Zenon
<1>5. p \in Paths /\ builder[c].nodes[p] \in Kinds /\ rebuilt[c] \in Trees /\ IsTree(rebuilt[c])
  BY <1>0 DEF RebuiltAgrees, Present, TreeTypeOK, Trees, TreesAreTrees
<1> DEFINE new == add_node(rebuilt[c], p, builder[c].nodes[p])
<1>6. new \in Trees /\ IsTree(new)
  BY <1>3, <1>5, AddKeepsTree, Zenon
<1>7. new.nodes = [rebuilt[c].nodes EXCEPT ![p] = builder[c].nodes[p]]
  BY Zenon DEF add_node
<1> HIDE DEF new
<1>8. /\ rebuilt' \in [Clients -> Trees] /\ rebuilt'[c] = new
      /\ \A e \in Clients \ {c} : rebuilt'[e] = rebuilt[e] /\ body'[e] = body[e]
      /\ body' \in [Clients -> SUBSET Paths] /\ body'[c] = body[c] \ {p}
  BY <1>0, <1>4, <1>6, Zenon DEF TreeTypeOK, new
<1>9. TreeTypeOK'
  BY <1>0, <1>2, <1>4, <1>8, Zenon DEF TreeTypeOK, promiseVars
<1>10. TreesAreTrees'
  BY <1>0, <1>2, <1>6, <1>8, Zenon DEF TreesAreTrees, promiseVars
<1>11. RebuiltAgrees'
  <2> SUFFICES ASSUME NEW e \in Clients, pc[e] = "Sent"
      PROVE  /\ body'[e] \subseteq Present(builder[e]) \ {<<>>}
             /\ \A q \in Paths : rebuilt'[e].nodes[q] = IF q \in body'[e] THEN None ELSE builder[e].nodes[q]
    BY <1>2, <1>4 DEF RebuiltAgrees, Present
  <2>1. CASE e # c
    BY <1>0, <1>8, <2>1 DEF RebuiltAgrees
  <2>2. CASE e = c
    <3>1. body[c] \subseteq Present(builder[c]) \ {<<>>}
      BY <1>0, Zenon DEF RebuiltAgrees
    <3>2. ASSUME NEW q \in Paths
          PROVE  new.nodes[q] = IF q \in body[c] \ {p} THEN None ELSE builder[c].nodes[q]
      <4>1. rebuilt[c].nodes[q] = IF q \in body[c] THEN None ELSE builder[c].nodes[q]
        BY <1>0, Zenon DEF RebuiltAgrees
      <4>2. rebuilt[c].nodes \in [Paths -> Kinds \cup {None}]
        BY <1>5, Zenon DEF Trees
      <4> QED BY <1>5, <1>7, <4>1, <4>2, Zenon
    <3> QED BY <1>8, <2>2, <3>1, <3>2, Zenon
  <2> QED BY <2>1, <2>2, Zenon
<1>12. NotYet' /\ InodesUnique'
  BY <1>0, <1>2, PromisesKept, PathAssumptions DEF promiseVars, TreeTypeOK, FUSE_ROOT_INODE
<1> QED BY <1>9, <1>10, <1>11, <1>12, Zenon DEF TreeInv

\* commit_promise keeps the invariant: the new inodes are above all others.
LEMMA CommitKeeps ==
    ASSUME TreeInv, NEW c \in Clients, commit_promise(c)
    PROVE  TreeInv'
<1> DEFINE m == nextPromise
           tree == rebuilt[c]
           ids == assign_runtime_ids(rebuilt[c])
           count == Cardinality(Present(rebuilt[c]))
<1>0. TreeTypeOK /\ TreesAreTrees /\ NotYet /\ InodesUnique
  BY Zenon DEF TreeInv
<1>1. /\ nextPromise <= MaxPromises /\ next_inode + count <= MaxId
      /\ EndRequest(c, "Reply")
      /\ promises' = [promises EXCEPT ![m] = tree]
      /\ inode' = [inode EXCEPT ![m] = ids]
      /\ owner' = [owner EXCEPT ![m] = c]
      /\ state' = [state EXCEPT ![m] = "Available"]
      /\ next_inode' = next_inode + count
      /\ builder' = builder /\ live' = live
      /\ nextPromise' = nextPromise + 1
  BY Zenon DEF commit_promise, Ready, InodesLeft, Install
<1>2. /\ next_inode \in Nat /\ next_inode > FUSE_ROOT_INODE /\ count \in Nat /\ MaxId \in Nat
      /\ m \in PromiseIds /\ m \in Nat /\ MaxPromises \in Nat /\ PromiseIds \subseteq Nat
  BY <1>0, <1>1, PresentIsFinite, PathAssumptions DEF TreeTypeOK, PromiseIds, FUSE_ROOT_INODE
<1>3. tree \in Trees /\ IsTree(tree) /\ tree # None
  BY <1>0, PathAssumptions DEF TreeTypeOK, TreesAreTrees
<1>4. /\ \A p \in Present(tree) : ids[p] \in Nat /\ ids[p] >= next_inode /\ ids[p] < next_inode + count
      /\ \A p, q \in Present(tree) : ids[p] = ids[q] => p = q
  BY <1>2, NumbersOfTree, Zenon
<1>5. ids \in [Paths -> 0 .. MaxId]
  <2>1. \A p \in Paths : ids[p] \in 0 .. MaxId
    <3> SUFFICES ASSUME NEW p \in Paths PROVE ids[p] \in 0 .. MaxId
      BY Zenon
    <3>1. CASE tree.nodes[p] = None
      BY <1>2, <3>1 DEF assign_runtime_ids
    <3>2. CASE tree.nodes[p] # None
      <4>1. p \in Present(tree)
        BY <3>2, Zenon DEF Present
      <4>2. ids[p] \in Nat /\ ids[p] < next_inode + count
        BY <1>4, <4>1, Zenon
      <4> HIDE DEF ids, count
      <4> QED BY <1>1, <1>2, <4>2
    <3> QED BY <3>1, <3>2, Zenon
  <2>2. ids = [p \in Paths |-> ids[p]]
    BY Zenon DEF assign_runtime_ids
  <2> HIDE DEF ids
  <2> QED BY <2>1, <2>2, Zenon
<1> HIDE DEF ids, count
<1>6. /\ pc' \in [Clients -> {"Build", "Sent", "Reply", "Committed"}]
      /\ body' \in [Clients -> SUBSET Paths] /\ rebuilt' \in [Clients -> Trees]
      /\ \A e \in Clients : IsTree(rebuilt'[e])
      /\ RebuiltAgrees'
  BY <1>1, EndKeeps, Zenon
<1>7. /\ promises' \in [PromiseIds -> Trees \cup {None}] /\ inode' \in [PromiseIds -> [Paths -> 0 .. MaxId]]
      /\ promises'[m] = tree /\ inode'[m] = ids
      /\ \A k \in PromiseIds \ {m} : promises'[k] = promises[k] /\ inode'[k] = inode[k]
  BY <1>0, <1>1, <1>2, <1>3, <1>5, Zenon DEF TreeTypeOK
<1>8. TreeTypeOK'
  <2>1. nextPromise' \in 1 .. MaxPromises + 1 /\ next_inode' \in FUSE_ROOT_INODE + 1 .. MaxId
    BY <1>1, <1>2 DEF FUSE_ROOT_INODE, PromiseIds
  <2>2. owner' \in [PromiseIds -> Clients \cup {None}] /\ state' \in [PromiseIds -> {"Available", "ProviderGone"}]
    BY <1>0, <1>1, <1>2, Zenon DEF TreeTypeOK
  <2> QED BY <1>0, <1>1, <1>6, <1>7, <2>1, <2>2, Zenon DEF TreeTypeOK
<1>9. TreesAreTrees'
  <2>1. \A k \in PromiseIds : promises'[k] # None => IsTree(promises'[k])
    BY <1>0, <1>3, <1>7, Zenon DEF TreesAreTrees
  <2> QED BY <1>0, <1>1, <1>6, <2>1, Zenon DEF TreesAreTrees
<1>10. NotYet'
  <2> SUFFICES ASSUME NEW k \in PromiseIds, k >= nextPromise' PROVE promises'[k] = None
    BY Zenon DEF NotYet
  <2>1. k >= nextPromise /\ k # m
    BY <1>1, <1>2
  <2> QED BY <1>0, <1>7, <2>1, Zenon DEF NotYet
<1>11. \A n \in Nodes' : \/ n[1] # m /\ n \in Nodes /\ InodeOf(n)' = InodeOf(n)
                         \/ n[1] = m /\ n[2] \in Present(tree) /\ InodeOf(n)' = ids[n[2]]
  BY <1>7, Zenon DEF Nodes, InodeOf, Present
<1>12. \A n \in Nodes : InodeOf(n) \in Nat /\ InodeOf(n) > FUSE_ROOT_INODE /\ InodeOf(n) < next_inode
  BY <1>0 DEF TreeTypeOK, Nodes, InodeOf, InodesUnique
<1>13. ASSUME NEW n \in Nodes' PROVE InodeOf(n)' > FUSE_ROOT_INODE /\ InodeOf(n)' < next_inode'
  <2>1. CASE n[1] # m /\ n \in Nodes /\ InodeOf(n)' = InodeOf(n)
    BY <1>1, <1>2, <1>12, <2>1
  <2>2. CASE n[1] = m /\ n[2] \in Present(tree) /\ InodeOf(n)' = ids[n[2]]
    <3>1. ids[n[2]] \in Nat /\ ids[n[2]] >= next_inode /\ ids[n[2]] < next_inode + count
      BY <1>4, <2>2, Zenon
    <3>2. ids[n[2]] > FUSE_ROOT_INODE /\ ids[n[2]] < next_inode'
      BY <1>1, <1>2, <3>1 DEF FUSE_ROOT_INODE
    <3> QED BY <2>2, <3>2, Zenon
  <2> QED BY <1>11, <2>1, <2>2, Zenon
<1>14. ASSUME NEW n1 \in Nodes', NEW n2 \in Nodes', InodeOf(n1)' = InodeOf(n2)' PROVE n1 = n2
  <2>0. n1 = <<n1[1], n1[2]>> /\ n2 = <<n2[1], n2[2]>>
    BY DEF Nodes
  <2>1. CASE n1[1] # m /\ n2[1] # m
    BY <1>0, <1>11, <1>14, <2>1, Zenon DEF InodesUnique
  <2>2. CASE n1[1] = m /\ n2[1] = m
    BY <1>4, <1>11, <1>14, <2>0, <2>2
  <2>3. CASE n1[1] = m /\ n2[1] # m
    <3>1. ids[n1[2]] \in Nat /\ ids[n1[2]] >= next_inode /\ InodeOf(n1)' = ids[n1[2]]
      BY <1>4, <1>11, <2>3, Zenon
    <3>2. InodeOf(n2)' = InodeOf(n2) /\ InodeOf(n2) \in Nat /\ InodeOf(n2) < next_inode
      BY <1>11, <1>12, <2>3, Zenon
    <3>3. ids[n1[2]] # InodeOf(n2)
      BY <1>2, <3>1, <3>2
    <3> QED BY <1>14, <3>1, <3>2, <3>3, Zenon
  <2>4. CASE n1[1] # m /\ n2[1] = m
    <3>1. ids[n2[2]] \in Nat /\ ids[n2[2]] >= next_inode /\ InodeOf(n2)' = ids[n2[2]]
      BY <1>4, <1>11, <2>4, Zenon
    <3>2. InodeOf(n1)' = InodeOf(n1) /\ InodeOf(n1) \in Nat /\ InodeOf(n1) < next_inode
      BY <1>11, <1>12, <2>4, Zenon
    <3>3. ids[n2[2]] # InodeOf(n1)
      BY <1>2, <3>1, <3>2
    <3> QED BY <1>14, <3>1, <3>2, <3>3, Zenon
  <2> QED BY <2>1, <2>2, <2>3, <2>4, Zenon
<1>15. InodesUnique'
  BY <1>13, <1>14, Zenon DEF InodesUnique
<1> QED BY <1>6, <1>8, <1>9, <1>10, <1>15, Zenon DEF TreeInv

\* The answers that install nothing, the builder that follows a commit and
\* unregister_provider keep the invariant.
LEMMA OtherKeeps ==
    ASSUME TreeInv, NEW c \in Clients,
           \/ CommitRunsOut(c) \/ CommitGone(c) \/ Committed(c)
           \/ fp_promise_builder_new(c) \/ unregister_provider(c)
    PROVE  TreeInv'
<1>0. TreeTypeOK /\ TreesAreTrees /\ RebuiltAgrees
  BY Zenon DEF TreeInv
<1>1. /\ next_inode \in Nat /\ next_inode <= MaxId /\ nextPromise \in Nat
      /\ MaxId \in FUSE_ROOT_INODE + 1 .. MaxId /\ MaxId \in Nat /\ MaxPromises \in Nat
  BY <1>0, PathAssumptions DEF TreeTypeOK, FUSE_ROOT_INODE
<1>2. CASE CommitRunsOut(c)
  <2>1. /\ EndRequest(c, "Build") /\ nextPromise <= MaxPromises
        /\ nextPromise' = nextPromise + 1 /\ next_inode' = MaxId
        /\ UNCHANGED <<builder, live, promises, inode, owner, state>>
    BY <1>2, Zenon DEF CommitRunsOut, Ready
  <2>2. /\ pc' \in [Clients -> {"Build", "Sent", "Reply", "Committed"}]
        /\ body' \in [Clients -> SUBSET Paths] /\ rebuilt' \in [Clients -> Trees]
        /\ \A e \in Clients : IsTree(rebuilt'[e])
        /\ RebuiltAgrees'
    BY <2>1, EndKeeps, Zenon
  <2>3. nextPromise' \in 1 .. MaxPromises + 1
    BY <1>0, <1>1, <2>1 DEF TreeTypeOK
  <2>4. TreeTypeOK' /\ TreesAreTrees'
    BY <1>0, <1>1, <2>1, <2>2, <2>3, Zenon DEF TreeTypeOK, TreesAreTrees
  <2>5. NotYet' /\ InodesUnique'
    BY <1>1, <2>1, PromisesKept
  <2> QED BY <2>2, <2>4, <2>5, Zenon DEF TreeInv
<1>3. CASE CommitGone(c)
  <2>1. EndRequest(c, "Build") /\ UNCHANGED <<builder, live, promiseVars, state>>
    BY <1>3, Zenon DEF CommitGone
  <2>2. /\ pc' \in [Clients -> {"Build", "Sent", "Reply", "Committed"}]
        /\ body' \in [Clients -> SUBSET Paths] /\ rebuilt' \in [Clients -> Trees]
        /\ \A e \in Clients : IsTree(rebuilt'[e])
        /\ RebuiltAgrees'
    BY <2>1, EndKeeps, Zenon
  <2>3. TreeTypeOK' /\ TreesAreTrees'
    BY <1>0, <2>1, <2>2, Zenon DEF TreeTypeOK, TreesAreTrees, promiseVars
  <2>4. NotYet' /\ InodesUnique'
    BY <1>1, <2>1, PromisesKept DEF promiseVars
  <2> QED BY <2>2, <2>3, <2>4, Zenon DEF TreeInv
<1>4. CASE Committed(c)
  <2>1. PICK place \in {"Committed", "Build"} : pc' = [pc EXCEPT ![c] = place]
    BY <1>4, Zenon DEF Committed
  <2>2. UNCHANGED <<builder, body, rebuilt, live, promiseVars, state>>
    BY <1>4, Zenon DEF Committed
  <2>3. TreeTypeOK' /\ TreesAreTrees'
    BY <1>0, <2>1, <2>2, Zenon DEF TreeTypeOK, TreesAreTrees, promiseVars
  <2>4. \A e \in Clients : pc'[e] = "Sent" => pc[e] = "Sent"
    BY <1>0, <2>1, Zenon DEF TreeTypeOK
  <2>5. RebuiltAgrees'
    BY <1>0, <2>2, <2>4, Zenon DEF RebuiltAgrees, Present
  <2>6. NotYet' /\ InodesUnique'
    BY <1>1, <2>2, PromisesKept DEF promiseVars
  <2> QED BY <2>3, <2>5, <2>6, Zenon DEF TreeInv
<1>5. CASE fp_promise_builder_new(c)
  <2>1. /\ pc[c] = "Committed" /\ pc' = [pc EXCEPT ![c] = "Build"]
        /\ builder' = [builder EXCEPT ![c] = NewBuilder]
        /\ UNCHANGED <<body, rebuilt, live, promiseVars, state>>
    BY <1>5, Zenon DEF fp_promise_builder_new
  <2>2. TreeTypeOK' /\ TreesAreTrees'
    BY <1>0, <2>1, NewBuilderIsTree, Zenon DEF TreeTypeOK, TreesAreTrees, promiseVars
  <2>3. \A e \in Clients : pc'[e] = "Sent" => pc[e] = "Sent" /\ builder'[e] = builder[e]
    BY <1>0, <2>1, Zenon DEF TreeTypeOK
  <2>4. RebuiltAgrees'
    BY <1>0, <2>1, <2>3 DEF RebuiltAgrees, Present
  <2>5. NotYet' /\ InodesUnique'
    BY <1>1, <2>1, PromisesKept DEF promiseVars
  <2> QED BY <2>2, <2>4, <2>5, Zenon DEF TreeInv
<1>6. CASE unregister_provider(c)
  <2>1. /\ live' = [live EXCEPT ![c] = FALSE]
        /\ state' = [m \in PromiseIds |-> IF owner[m] = c THEN "ProviderGone" ELSE state[m]]
        /\ UNCHANGED <<clientVars, promiseVars>>
    BY <1>6, Zenon DEF unregister_provider
  <2>2. TreeTypeOK' /\ TreesAreTrees' /\ RebuiltAgrees'
    BY <1>0, <2>1, Zenon DEF TreeTypeOK, TreesAreTrees, RebuiltAgrees, Present, clientVars, promiseVars
  <2>3. UNCHANGED <<promises, inode, nextPromise, next_inode>>
    BY <2>1, Zenon DEF promiseVars
  <2>4. NotYet' /\ InodesUnique'
    BY <1>1, <2>3, PromisesKept
  <2> QED BY <2>2, <2>4, Zenon DEF TreeInv
<1> QED BY <1>2, <1>3, <1>4, <1>5, <1>6, Zenon

\* Every step keeps the invariant.
LEMMA TreeStep == TreeInv /\ [Next]_vars => TreeInv'
<1> SUFFICES ASSUME TreeInv, [Next]_vars PROVE TreeInv'
  BY Zenon
<1>1. CASE UNCHANGED vars
  <2>1. TreeTypeOK'
    BY <1>1, Zenon DEF vars, clientVars, promiseVars, TreeInv, TreeTypeOK
  <2>2. TreesAreTrees'
    BY <1>1, Zenon DEF vars, clientVars, promiseVars, TreeInv, TreesAreTrees
  <2>3. RebuiltAgrees' /\ NotYet'
    BY <1>1, Zenon DEF vars, clientVars, promiseVars, TreeInv, RebuiltAgrees, Present, NotYet
  <2>4. InodesUnique'
    <3>1. promises' = promises /\ inode' = inode /\ next_inode' = next_inode
      BY <1>1, Zenon DEF vars, promiseVars
    <3>2. Nodes' = Nodes /\ \A n \in Nodes : InodeOf(n)' = InodeOf(n)
      BY <3>1, Zenon DEF Nodes, InodeOf
    <3>3. InodesUnique
      BY Zenon DEF TreeInv
    <3>4. \A n \in Nodes' : InodeOf(n)' > FUSE_ROOT_INODE /\ InodeOf(n)' < next_inode'
      BY <3>1, <3>2, <3>3, Zenon DEF InodesUnique
    <3>5. ASSUME NEW n1 \in Nodes', NEW n2 \in Nodes', InodeOf(n1)' = InodeOf(n2)' PROVE n1 = n2
      <4>1. n1 \in Nodes /\ n2 \in Nodes
        BY <3>2, Zenon
      <4>2. InodeOf(n1) = InodeOf(n2)
        BY <3>2, <3>5, <4>1, Zenon
      <4> QED BY <3>3, <4>1, <4>2, Zenon DEF InodesUnique
    <3> QED BY <3>4, <3>5, Zenon DEF InodesUnique
  <2> QED BY <2>1, <2>2, <2>3, <2>4, Zenon DEF TreeInv
<1>2. CASE Next
  <2>1. PICK c \in Clients :
            \/ \E input \in Inputs, kind \in Kinds : fp_promise_add(c, input, kind)
            \/ fp_promise_commit(c) \/ AddNext(c) \/ commit_promise(c)
            \/ CommitRunsOut(c) \/ CommitGone(c) \/ Committed(c)
            \/ fp_promise_builder_new(c) \/ unregister_provider(c)
    BY <1>2, Zenon DEF Next
  <2> QED BY <2>1, AddKeeps, SendKeeps, AddNextKeeps, CommitKeeps, OtherKeeps, Zenon
<1> QED BY <1>1, <1>2, Zenon

\* The invariant holds throughout.
THEOREM TreeTheorem == Spec => []TreeInv
BY TreeInit, TreeStep, PTL DEF Spec

\* The lists of children agree with the parents of the nodes, in every builder and
\* every promise (PromiseBuilder::add_node, the only writer of both).
THEOREM TreesTheorem == Spec => []TreesAreTrees
<1>1. TreeInv => TreesAreTrees
  BY Zenon DEF TreeInv
<1> QED BY <1>1, TreeTheorem, PTL

\* The daemon refuses no node of a request and commits what the client has built
\* (handle_promise_commit, from_builder_with_owner_token).
THEOREM RebuiltTheorem == Spec => []RebuiltIsBuilt
<1>1. TreeInv => RebuiltIsBuilt
  <2> SUFFICES ASSUME TreeInv, NEW c \in Clients, pc[c] = "Sent"
      PROVE  /\ \A p \in body[c] : IsNext(c, p) => CanAdd(rebuilt[c], p)
             /\ body[c] = {} => rebuilt[c] = builder[c]
    BY Zenon DEF RebuiltIsBuilt
  <2>1. TreeTypeOK /\ TreesAreTrees /\ RebuiltAgrees
    BY Zenon DEF TreeInv
  <2>2. \A p \in body[c] : IsNext(c, p) => CanAdd(rebuilt[c], p)
    BY <2>1, NextCanBeAdded, Zenon
  <2>3. ASSUME body[c] = {} PROVE rebuilt[c] = builder[c]
    <3>1. \A p \in Paths : rebuilt[c].nodes[p] = builder[c].nodes[p]
      BY <2>1, <2>3, Zenon DEF RebuiltAgrees
    <3>2. rebuilt[c] \in Trees /\ builder[c] \in Trees /\ IsTree(rebuilt[c]) /\ IsTree(builder[c])
      BY <2>1, Zenon DEF TreeTypeOK, TreesAreTrees
    <3> QED BY <3>1, <3>2, SameNodes, Zenon
  <2> QED BY <2>2, <2>3, Zenon
<1> QED BY <1>1, TreeTheorem, PTL

\* No two nodes of the mount share an inode (assign_runtime_ids, allocate_inode).
THEOREM InodesTheorem == Spec => []InodesUnique
<1>1. TreeInv => InodesUnique
  BY Zenon DEF TreeInv
<1> QED BY <1>1, TreeTheorem, PTL

\* An inode found once is the same node after every step (lookup_inode).
THEOREM MeaningTheorem == Spec => InodesKeepMeaning
<1>1. ASSUME TreeInv, TreeInv', [Next]_vars
      PROVE  [\A i \in 0 .. MaxId : lookup_inode(i) # None => lookup_inode(i)' = lookup_inode(i)]_vars
  <2> SUFFICES ASSUME NEW i \in 0 .. MaxId, lookup_inode(i) # None
      PROVE  lookup_inode(i)' = lookup_inode(i)
    BY Zenon
  <2>1. PICK n \in PromiseIds \X Paths : n = lookup_inode(i) /\ n \in Nodes /\ InodeOf(n) = i
    <3>1. lookup_inode(i) \in Nodes /\ InodeOf(lookup_inode(i)) = i
      BY Zenon DEF lookup_inode
    <3> QED BY <3>1, Zenon DEF Nodes
  <2>2. \A k \in PromiseIds : promises[k] # None => promises'[k] = promises[k] /\ inode'[k] = inode[k]
    <3>0. TreeTypeOK /\ NotYet
      BY <1>1, Zenon DEF TreeInv
    <3>1. CASE UNCHANGED <<promises, inode>>
      BY <3>1, Zenon
    <3>2. ASSUME NEW c \in Clients, commit_promise(c)
          PROVE  \A k \in PromiseIds : promises[k] # None => promises'[k] = promises[k] /\ inode'[k] = inode[k]
      <4>1. /\ nextPromise <= MaxPromises
            /\ promises' = [promises EXCEPT ![nextPromise] = rebuilt[c]]
            /\ inode' = [inode EXCEPT ![nextPromise] = assign_runtime_ids(rebuilt[c])]
        BY <3>2, Zenon DEF commit_promise, Ready, Install
      <4>2. nextPromise \in PromiseIds /\ promises[nextPromise] = None
        BY <3>0, <4>1, PathAssumptions DEF TreeTypeOK, NotYet, PromiseIds
      <4> QED BY <3>0, <4>1, <4>2, Zenon DEF TreeTypeOK
    <3>3. UNCHANGED <<promises, inode>> \/ \E c \in Clients : commit_promise(c)
      BY <1>1, Zenon DEF Next, vars, promiseVars, fp_promise_add, fp_promise_commit, AddNext, CommitRunsOut,
                  CommitGone, Committed, fp_promise_builder_new, unregister_provider
    <3> QED BY <3>1, <3>2, <3>3, Zenon
  <2>3. n \in Nodes' /\ InodeOf(n)' = i
    BY <2>1, <2>2, Zenon DEF Nodes, InodeOf
  <2>4. \A n2 \in Nodes' : InodeOf(n2)' = i => n2 = n
    BY <1>1, <2>3, Zenon DEF TreeInv, InodesUnique
  <2>5. lookup_inode(i)' = n
    BY <2>3, <2>4, Zenon DEF lookup_inode
  <2> QED BY <2>1, <2>5, Zenon
<1> QED BY <1>1, TreeTheorem, TreeStep, PTL DEF Spec, InodesKeepMeaning

\* The directory and the name of a path make up the path.
LEMMA ChildOfParent ==
    ASSUME NEW p \in Paths, p # <<>>
    PROVE  child_path(parent_path(p), leaf_name(p)) = p /\ leaf_name(p) \notin {".", ".."}
<1>1. p \in Seq(STRING) /\ Len(p) \in Nat \ {0}
  BY PathAssumptions
<1>2. p[Len(p)] \notin {".", ".."}
  BY <1>1, PathAssumptions
<1>3. Append(SubSeq(p, 1, Len(p) - 1), p[Len(p)]) = p
  BY <1>1
<1> QED BY <1>2, <1>3 DEF child_path, parent_path, leaf_name

\* A node is the one that its inode leads to.
LEMMA InodeLeadsBack ==
    ASSUME TreeInv, NEW n \in Nodes
    PROVE  lookup_inode(InodeOf(n)) = n
BY DEF TreeInv, InodesUnique, lookup_inode

\* What a node's directory leads to: itself, and the node.
LEMMA WalkFinds == TreeInv => WalkFindsNodes
<1> SUFFICES ASSUME TreeInv, NEW m \in PromiseIds, NEW p \in Paths, <<m, p>> \in Nodes, p # <<>>
             PROVE  /\ lookup_child(inode[m][parent_path(p)], leaf_name(p)) = <<m, p>>
                    /\ [name |-> leaf_name(p), inode |-> inode[m][p]] \in read_dir(inode[m][parent_path(p)])
                    /\ lookup_inode(inode[m][parent_path(p)]) = <<m, parent_path(p)>>
  BY DEF WalkFindsNodes, Nodes, InodeOf, parent_inode
<1> DEFINE d == parent_path(p)
<1>1. promises[m] # None /\ promises[m].nodes[p] # None /\ IsTree(promises[m])
  BY DEF Nodes, TreeInv, TreesAreTrees
<1>2. d \in Paths /\ "Directory" # None
  BY PathAssumptions
<1>3. /\ promises[m].nodes[d] = "Directory" /\ <<m, d>> \in Nodes
      /\ p \in promises[m].children[d]
  BY <1>1, <1>2 DEF IsTree, Present, Nodes
<1>4. lookup_inode(inode[m][d]) = <<m, d>>
  BY <1>3, InodeLeadsBack DEF InodeOf
<1>5. child_path(d, leaf_name(p)) = p /\ leaf_name(p) \notin {".", ".."}
  BY ChildOfParent
<1> HIDE DEF d
<1>6. <<m, d>> # None
  BY <1>2, PathAssumptions
<1>7. lookup_child(inode[m][d], leaf_name(p)) = <<m, p>>
  BY <1>3, <1>4, <1>5, <1>6 DEF lookup_child, KindOf
<1>8. [name |-> leaf_name(p), inode |-> inode[m][p]] \in read_dir(inode[m][d])
  BY <1>3, <1>4 DEF read_dir
<1> QED BY <1>4, <1>7, <1>8 DEF d

\* Every node of every promise is found below its directory under its name, is listed
\* there with its inode, and ".." leads back, for every set of paths.
THEOREM WalkTheorem == Spec => []WalkFindsNodes
BY TreeTheorem, WalkFinds, PTL
=============================================================================
