----------------------------- MODULE PromiseTree -----------------------------
(***************************************************************************)
(* Promise trees, from the builder of a client to the inodes of the mount. *)
(* A client adds nodes to its builder; to commit, the nodes are sent to    *)
(* the daemon, which adds them to a builder of its own, one by one, and    *)
(* commits that.  The commit gives every node an inode, by which the FUSE  *)
(* callbacks find it.                                                      *)
(*                                                                         *)
(* A path is a sequence of names.  Attributes and the node ids of the      *)
(* provider travel with a node unchanged and are left out, with the        *)
(* refusals that concern them alone; so is NodeId, which is counted like   *)
(* the inode and is only shown.                                            *)
(***************************************************************************)
EXTENDS Naturals, Sequences, FiniteSets

CONSTANTS
    Clients,
    Paths,          \* the paths of the model, <<>> for the root of a promise
    Inputs,         \* paths as a client gives them, with "." and ".." in them
    Before(_, _),   \* the order of the strings, in which a BTreeMap keeps its keys
    MaxPromises,    \* bound on next_promise_id
    MaxId,          \* the largest u64
    None

FUSE_ROOT_INODE == 1

parent_path(p) == SubSeq(p, 1, Len(p) - 1)
leaf_name(p) == p[Len(p)]
child_path(p, n) == Append(p, n)

PromiseIds == 1 .. MaxPromises
Kinds == {"File", "Directory"}

\* Nodes and children of a PromiseTree or a PromiseBuilder.
Trees == [nodes : [Paths -> Kinds \cup {None}], children : [Paths -> SUBSET Paths]]

\* The paths are ones that normalize_relative_path returns.  A string sorts after its
\* prefixes.
ASSUME PathAssumptions ==
    /\ IsFiniteSet(Paths) /\ <<>> \in Paths /\ Paths \subseteq Seq(STRING)
    /\ \A p \in Paths : \A k \in 1 .. Len(p) : p[k] \notin {".", ".."}
    /\ None \notin {"File", "Directory"} /\ None \notin PromiseIds \X Paths
    /\ None \notin Trees
    /\ \A p \in Paths \ {<<>>} : parent_path(p) \in Paths /\ Before(parent_path(p), p)
    /\ \A p, q \in Paths : p # q => Before(p, q) \/ Before(q, p)
    /\ \A p, q \in Paths : Before(p, q) => ~Before(q, p)
    /\ \A p, q, r \in Paths : Before(p, q) /\ Before(q, r) => Before(p, r)
    /\ MaxPromises \in Nat /\ MaxId \in Nat /\ MaxId > FUSE_ROOT_INODE

VARIABLES
    builder,        \* builder[c]: the PromiseBuilder of the client
    pc,             \* what the client and its connection thread are doing
    body,           \* body[c]: the nodes of the request that the daemon has still to add
    rebuilt,        \* rebuilt[c]: the daemon's PromiseBuilder
    live,           \* live[c]: the provider session of the client is Live
    nextPromise,    \* next_promise_id
    next_inode,
    promises,       \* promises[m]: nodes and children of promise-m, or None
    inode,          \* inode[m][p]: the inode of a node, 0 if there is none
    owner,          \* owner[m]: whose promise it is, or None
    state           \* state[m]: PromiseState

clientVars  == <<builder, pc, body, rebuilt>>
promiseVars == <<nextPromise, next_inode, promises, inode, owner>>
vars == <<clientVars, live, promiseVars, state>>

TreeTypeOK ==
    /\ builder \in [Clients -> Trees] /\ rebuilt \in [Clients -> Trees]
    /\ pc \in [Clients -> {"Build", "Sent", "Reply", "Committed"}]
    /\ body \in [Clients -> SUBSET Paths]
    /\ live \in [Clients -> BOOLEAN]
    /\ nextPromise \in 1 .. MaxPromises + 1
    /\ next_inode \in FUSE_ROOT_INODE + 1 .. MaxId
    /\ promises \in [PromiseIds -> Trees \cup {None}]
    /\ inode \in [PromiseIds -> [Paths -> 0 .. MaxId]]
    /\ owner \in [PromiseIds -> Clients \cup {None}]
    /\ state \in [PromiseIds -> {"Available", "ProviderGone"}]

\* PromiseBuilder::new
NewBuilder ==
    [nodes    |-> [p \in Paths |-> IF p = <<>> THEN "Directory" ELSE None],
     children |-> [p \in Paths |-> {}]]

Init ==
    /\ builder = [c \in Clients |-> NewBuilder]
    /\ pc = [c \in Clients |-> "Build"]
    /\ body = [c \in Clients |-> {}]
    /\ rebuilt = [c \in Clients |-> NewBuilder]
    /\ live = [c \in Clients |-> TRUE]
    /\ nextPromise = 1 /\ next_inode = FUSE_ROOT_INODE + 1
    /\ promises = [m \in PromiseIds |-> None]
    /\ inode = [m \in PromiseIds |-> [p \in Paths |-> 0]]
    /\ owner = [m \in PromiseIds |-> None]
    /\ state = [m \in PromiseIds |-> "Available"]

-----------------------------------------------------------------------------
(* PromiseBuilder *)

\* normalize_relative_path: None stands for InvalidArgument.
normalize_relative_path(input) ==
    IF \E k \in DOMAIN input : input[k] = ".." THEN None
    ELSE SelectSeq(input, LAMBDA part : part # ".")

\* The conditions under which add_node succeeds; otherwise it changes nothing.
CanAdd(tree, p) ==
    /\ p # <<>> /\ tree.nodes[p] = None
    /\ tree.nodes[parent_path(p)] = "Directory"

\* Mutant: the node is entered in its own list of children.
add_node_to_itself(tree, p, kind) ==
    [nodes    |-> [tree.nodes EXCEPT ![p] = kind],
     children |-> [tree.children EXCEPT ![p] = @ \cup {p}]]

add_node(tree, p, kind) ==
    [nodes    |-> [tree.nodes EXCEPT ![p] = kind],
     children |-> [tree.children EXCEPT ![parent_path(p)] = @ \cup {p}]]

\* fp_promise_add_dir, fp_promise_add_file
fp_promise_add(c, input, kind) ==
    LET p == normalize_relative_path(input) IN
    /\ pc[c] = "Build"
    /\ p \in Paths /\ CanAdd(builder[c], p)
    /\ builder' = [builder EXCEPT ![c] = add_node(@, p, kind)]
    /\ UNCHANGED <<pc, body, rebuilt, live, promiseVars, state>>

-----------------------------------------------------------------------------
(* The commit *)

Present(tree) == {p \in Paths : tree.nodes[p] # None}

\* fp_promise_commit sends the nodes, without the root, in the order of the map;
\* handle_promise_commit begins with a new builder.  The client's builder is
\* locked until the answer is there.
fp_promise_commit(c) ==
    /\ pc[c] = "Build"
    /\ pc' = [pc EXCEPT ![c] = "Sent"]
    /\ body' = [body EXCEPT ![c] = Present(builder[c]) \ {<<>>}]
    /\ rebuilt' = [rebuilt EXCEPT ![c] = NewBuilder]
    /\ UNCHANGED <<builder, live, promiseVars, state>>

\* Mutant: the nodes come in the opposite order.
IsLast(c, p) == p \in body[c] /\ \A q \in body[c] \ {p} : Before(q, p)

IsNext(c, p) == p \in body[c] /\ \A q \in body[c] \ {p} : Before(p, q)

\* handle_promise_commit returns, and its builder is gone.
EndRequest(c, place) ==
    /\ pc' = [pc EXCEPT ![c] = place]
    /\ body' = [body EXCEPT ![c] = {}]
    /\ rebuilt' = [rebuilt EXCEPT ![c] = NewBuilder]

\* handle_promise_commit adds the next node; a refusal is the answer.
AddNext(c) ==
    /\ pc[c] = "Sent"
    /\ \E p \in body[c] :
          /\ IsNext(c, p)
          /\ IF CanAdd(rebuilt[c], p)
             THEN /\ rebuilt' = [rebuilt EXCEPT ![c] = add_node(@, p, builder[c].nodes[p])]
                  /\ body' = [body EXCEPT ![c] = @ \ {p}]
                  /\ UNCHANGED pc
             ELSE EndRequest(c, "Build")
    /\ UNCHANGED <<builder, live, promiseVars, state>>

\* How many nodes of the tree come before p.
Rank(tree, p) == Cardinality({q \in Present(tree) : Before(q, p)})

\* assign_runtime_ids numbers the nodes in the order of the map.
assign_runtime_ids(tree) ==
    [p \in Paths |-> IF tree.nodes[p] = None THEN 0 ELSE next_inode + Rank(tree, p)]

\* allocate_inode fails when there is no number after the one it gives out.
InodesLeft(tree) == next_inode + Cardinality(Present(tree)) <= MaxId

Ready(c) == pc[c] = "Sent" /\ body[c] = {} /\ live[c] /\ nextPromise <= MaxPromises

Install(c, numbers) ==
    /\ EndRequest(c, "Reply")
    /\ promises' = [promises EXCEPT ![nextPromise] = rebuilt[c]]
    /\ inode' = [inode EXCEPT ![nextPromise] = numbers]
    /\ owner' = [owner EXCEPT ![nextPromise] = c]
    /\ state' = [state EXCEPT ![nextPromise] = "Available"]
    /\ next_inode' = next_inode + Cardinality(Present(rebuilt[c]))
    /\ UNCHANGED <<builder, live>>

\* Mutant: every tree is numbered from 1, as in the builder.
commit_promise_builder_ids(c) ==
    /\ Ready(c) /\ InodesLeft(rebuilt[c])
    /\ Install(c, [p \in Paths |-> IF rebuilt[c].nodes[p] = None THEN 0 ELSE 1 + Rank(rebuilt[c], p)])
    /\ nextPromise' = nextPromise + 1

\* Mutant: the promise is given the number of the last one.
commit_promise_again(c) ==
    /\ Ready(c) /\ InodesLeft(rebuilt[c])
    /\ Install(c, assign_runtime_ids(rebuilt[c]))
    /\ UNCHANGED nextPromise

\* Runtime::commit_promise, with the runtime locked.
commit_promise(c) ==
    /\ Ready(c) /\ InodesLeft(rebuilt[c])
    /\ Install(c, assign_runtime_ids(rebuilt[c]))
    /\ nextPromise' = nextPromise + 1

\* The numbers run out on the way: they are used up, and so is that of the promise.
CommitRunsOut(c) ==
    /\ Ready(c) /\ ~InodesLeft(rebuilt[c])
    /\ EndRequest(c, "Build")
    /\ nextPromise' = nextPromise + 1
    /\ next_inode' = MaxId
    /\ UNCHANGED <<builder, live, promises, inode, owner, state>>

CommitGone(c) ==
    /\ pc[c] = "Sent" /\ body[c] = {} /\ ~live[c]
    /\ EndRequest(c, "Build")
    /\ UNCHANGED <<builder, live, promiseVars, state>>

\* The client learns of the commit and gives up the builder, or the answer is lost
\* and the client may commit the builder once more.
Committed(c) ==
    /\ pc[c] = "Reply"
    /\ \E place \in {"Committed", "Build"} : pc' = [pc EXCEPT ![c] = place]
    /\ UNCHANGED <<builder, body, rebuilt, live, promiseVars, state>>

fp_promise_builder_new(c) ==
    /\ pc[c] = "Committed"
    /\ pc' = [pc EXCEPT ![c] = "Build"]
    /\ builder' = [builder EXCEPT ![c] = NewBuilder]
    /\ UNCHANGED <<body, rebuilt, live, promiseVars, state>>

unregister_provider(c) ==
    /\ live[c] /\ live' = [live EXCEPT ![c] = FALSE]
    /\ state' = [m \in PromiseIds |-> IF owner[m] = c THEN "ProviderGone" ELSE state[m]]
    /\ UNCHANGED <<clientVars, promiseVars>>

Next ==
    \E c \in Clients :
        \/ \E input \in Inputs, kind \in Kinds : fp_promise_add(c, input, kind)
        \/ fp_promise_commit(c) \/ AddNext(c)
        \/ commit_promise(c) \/ CommitRunsOut(c) \/ CommitGone(c) \/ Committed(c)
        \/ fp_promise_builder_new(c) \/ unregister_provider(c)

Spec == Init /\ [][Next]_vars

-----------------------------------------------------------------------------
(* What the FUSE callbacks see: a node is <<m, p>>. *)

Nodes == {n \in PromiseIds \X Paths : promises[n[1]] # None /\ promises[n[1]].nodes[n[2]] # None}

InodeOf(n) == inode[n[1]][n[2]]
KindOf(n) == promises[n[1]].nodes[n[2]]

\* Runtime::lookup_inode, for an inode other than that of the mount.
lookup_inode(i) ==
    IF \E n \in Nodes : InodeOf(n) = i THEN CHOOSE n \in Nodes : InodeOf(n) = i ELSE None

\* Mutant: a child is looked for by its name alone.
lookup_child_anywhere(i, name) ==
    LET m == lookup_inode(i)[1]
        found == {p \in Paths \ {<<>>} : <<m, p>> \in Nodes /\ leaf_name(p) = name}
    IN  IF found = {} THEN None ELSE <<m, CHOOSE p \in found : TRUE>>

\* Runtime::lookup_child, below the inode of a node.
lookup_child(i, name) ==
    LET n == lookup_inode(i)
        child == child_path(n[2], name)
    IN  IF n = None \/ name \in {".", ".."} THEN None
        ELSE IF KindOf(n) # "Directory" THEN None
        ELSE IF child \in promises[n[1]].children[n[2]] /\ <<n[1], child>> \in Nodes
        THEN <<n[1], child>> ELSE None

\* Runtime::read_dir of a node that is a directory: names and inodes.
read_dir(i) ==
    LET n == lookup_inode(i) IN
    {[name |-> leaf_name(p), inode |-> inode[n[1]][p]] : p \in promises[n[1]].children[n[2]]}

\* parent_inode, which is the entry "..".
parent_inode(n) ==
    IF n[2] = <<>> THEN FUSE_ROOT_INODE ELSE inode[n[1]][parent_path(n[2])]

-----------------------------------------------------------------------------
IsTree(tree) ==
    /\ tree.nodes[<<>>] = "Directory"
    /\ \A p \in Present(tree) \ {<<>>} : tree.nodes[parent_path(p)] = "Directory"
    /\ \A p \in Paths : tree.children[p] = {q \in Present(tree) \ {<<>>} : parent_path(q) = p}

\* In a builder and in a committed promise, every node but the root is in a
\* directory, and the lists of children, which lookups and listings use, agree with
\* the parents of the nodes, whatever was added in which order.
TreesAreTrees ==
    /\ \A c \in Clients : IsTree(builder[c]) /\ IsTree(rebuilt[c])
    /\ \A m \in PromiseIds : promises[m] # None => IsTree(promises[m])

\* handle_promise_commit never refuses a node that the builder of the client has
\* accepted, and ends with the tree that the client has built.
RebuiltIsBuilt ==
    \A c \in Clients : pc[c] = "Sent" =>
        /\ \A p \in body[c] : IsNext(c, p) => CanAdd(rebuilt[c], p)
        /\ body[c] = {} => rebuilt[c] = builder[c]

\* No two nodes of the mount have the same inode, and none has that of its root.
InodesUnique ==
    /\ \A n \in Nodes : InodeOf(n) > FUSE_ROOT_INODE /\ InodeOf(n) < next_inode
    /\ \A n1, n2 \in Nodes : InodeOf(n1) = InodeOf(n2) => n1 = n2

\* lookup, readdir and "..": a node is found below its directory under its name,
\* is listed there with its own inode, and leads back to it.
WalkFindsNodes ==
    \A n \in Nodes : n[2] # <<>> =>
        LET dir == parent_inode(n) IN
        /\ lookup_child(dir, leaf_name(n[2])) = n
        /\ [name |-> leaf_name(n[2]), inode |-> InodeOf(n)] \in read_dir(dir)
        /\ lookup_inode(dir) = <<n[1], parent_path(n[2])>>

\* An inode that the kernel has been told of means the same node ever after: the
\* kernel keeps it, and lookup replies with generation 0.
InodesKeepMeaning ==
    [][\A i \in 0 .. MaxId : lookup_inode(i) # None => lookup_inode(i)' = lookup_inode(i)]_vars
=============================================================================
