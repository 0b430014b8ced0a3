-------------------------- MODULE MaterializeProofs --------------------------
(***************************************************************************)
(* Proofs about Materialize, for every tree and every number of threads:   *)
(* what the user had is safe, what is marked as materialized is whole, the *)
(* types, and what a failed materialize leaves.                            *)
(***************************************************************************)
EXTENDS Materialize, TLAPS

Places == {"Idle", "Directory", "Mkdir", "File", "New", "Temp", "Write", "Metadata", "Mark",
           "Restore", "Check", "Remove", "Done"}

Codes == {"None", "Ok", "ProviderGone", "AlreadyExists", "Cancelled", "Io", "Permission or NotFound",
          "Unavailable or NotFound"}

\* The thread is in the loop over the files.
InFiles == {"File", "New", "Temp", "Write"}

LastPath(t) == created[t][Len(created[t])].path

\* Where thread t is, and what it holds there.
PhaseOf(t) ==
    /\ pc[t] = "Idle" => created[t] = <<>> /\ index[t] = 1
    /\ pc[t] \in {"Directory", "Mkdir"} => index[t] \in 1 .. Len(DirSeq)
    /\ pc[t] \in InFiles => index[t] \in 1 .. Len(FileSeq)
    /\ pc[t] = "Temp" => policy[t] = "Overwrite"
    /\ pc[t] = "Write" =>
          /\ created[t] # <<>>
          /\ \/ LastPath(t) = Temp(t) /\ policy[t] = "Overwrite"
             \/ LastPath(t) = Target(t, File(t))
    /\ pc[t] = "Check" => left[t] \in 0 .. Len(created[t])
    /\ pc[t] = "Remove" =>
          left[t] \in 1 .. Len(created[t]) /\ created[t][left[t]].remove_on_cleanup
    /\ status[t] = "Ok" => pc[t] = "Done"

\* A thread removes only what it made.
RemovesOwn(t) ==
    \A k \in 1 .. Len(created[t]) :
        created[t][k].remove_on_cleanup => created[t][k].identity[1] = t

TypeInv ==
    /\ fs \in [Paths -> Identities \cup {None}]
    /\ written \in [Threads \X Files -> Nat]
    /\ marked \in [Entries -> Paths \cup {None}]
    /\ own \subseteq Entries
    /\ pc \in [Threads -> Places]
    /\ policy \in [Threads -> Policies] /\ root \in [Threads -> Roots]
    /\ index \in [Threads -> Nat] /\ left \in [Threads -> Nat]
    /\ created \in [Threads -> Seq(CreatedTarget)]
    /\ status \in [Threads -> Codes]

BaseInv == TypeInv /\ \A t \in Threads : PhaseOf(t) /\ RemovesOwn(t)

\* The paths that the cleanup of thread t would remove.
Removable(t) ==
    {created[t][k].path : k \in {j \in 1 .. Len(created[t]) : created[t][j].remove_on_cleanup}}

UserPaths == {<<0, e>> : e \in own}

\* What was there before is there, or replaced by a complete file.
UserInv ==
    /\ \A e \in own :
          \/ fs[<<0, e>>] = <<User, e>>
          \/ /\ e \in Files
             /\ \E t \in Threads : /\ fs[<<0, e>>] = <<t, e>> /\ Whole(<<t, e>>)
                                   /\ policy[t] = "Overwrite"
    /\ \A t \in Threads : Removable(t) \cap UserPaths = {}

\* A complete file is at p, of a thread whose cleanup spares it.
Good(p) ==
    \E v \in Threads : /\ fs[p] = <<v, p[2]>> /\ Whole(<<v, p[2]>>)
                       /\ status[v] = "Ok" \/ p \notin Removable(v)

\* The files that thread t is done with, and those it has not come to.
Finished(t) ==
    IF pc[t] \in InFiles THEN {FileSeq[j] : j \in 1 .. index[t] - 1}
    ELSE IF pc[t] \in {"Metadata", "Mark"} THEN Files ELSE {}

Ahead(t) ==
    IF pc[t] \in {"Idle", "Directory", "Mkdir"} THEN Files
    ELSE IF pc[t] \in InFiles
    THEN {FileSeq[j] : j \in {k \in 1 .. Len(FileSeq) :
             IF pc[t] = "Write" /\ LastPath(t) # Temp(t) THEN k > index[t] ELSE k >= index[t]}}
    ELSE {}

\* A complete file is at p and stays there, unless a cleanup has strayed there.
Kept(p) == p \in strayed \/ Good(p)

\* What t is not yet done with it would not remove, and what it has made stays in
\* place or gives way to a complete file.
MarkedOf(t) ==
    /\ \A e \in Ahead(t) : Target(t, e) \notin Removable(t)
    /\ \A e \in Finished(t) :
          Kept(Target(t, e)) \/ (fs[Target(t, e)] = <<t, e>> /\ Whole(<<t, e>>))
    /\ (pc[t] = "Write" /\ LastPath(t) # Temp(t)) =>
          Kept(Target(t, File(t))) \/ fs[Target(t, File(t))] = <<t, File(t)>>

MarkedInv ==
    /\ \A e \in Files : marked[e] # None => marked[e] \in Roots \X {e} /\ Kept(marked[e])
    /\ \A t \in Threads : MarkedOf(t)

-----------------------------------------------------------------------------
\* Facts about the constants: a path tells the entry and the root, and a
\* temporary file is neither a target nor the file of another thread.
LEMMA Facts ==
    /\ \A j \in 1 .. Len(FileSeq) : FileSeq[j] \in Files
    /\ \A j \in 1 .. Len(DirSeq) : DirSeq[j] \in Dirs
    /\ \A e \in Files : \E j \in 1 .. Len(FileSeq) : e = FileSeq[j]
    /\ \A j, k \in 1 .. Len(FileSeq) : FileSeq[j] = FileSeq[k] => j = k
    /\ Len(FileSeq) \in Nat /\ Len(DirSeq) \in Nat
    /\ FileSeq = <<>> => DirSeq # <<>>
    /\ DirSeq # <<>> => Len(DirSeq) >= 1
    /\ FileSeq # <<>> => Len(FileSeq) >= 1
    /\ \A r \in Roots, e \in Entries : <<r, e>> \in Paths
    /\ \A t \in Threads : Temp(t) \in Paths
    /\ \A r \in Roots, e \in Entries, t \in Threads : <<r, e>> # Temp(t)
    /\ 0 \in Roots /\ None \notin Paths /\ None \notin Identities
    /\ \A t \in Threads : t # User
    /\ Dirs \cap Files = {} /\ Dirs \subseteq Entries /\ Files \subseteq Entries
<1>1. DirSeq \in Seq(Dirs) /\ FileSeq \in Seq(Files)
  BY TreeAssumptions, Zenon
<1>2. /\ \A e \in Files : \E j \in 1 .. Len(FileSeq) : e = FileSeq[j]
      /\ \A j, k \in 1 .. Len(FileSeq) : FileSeq[j] = FileSeq[k] => j = k
  BY <1>1, TreeAssumptions DEF Files
<1>3. FileSeq = <<>> => DirSeq # <<>>
  <2>1. ASSUME FileSeq = <<>>, DirSeq = <<>> PROVE FALSE
    BY <2>1, TreeAssumptions DEF Entries, Dirs, Files
  <2> QED BY <2>1, Zenon
<1>4. MaxRename \in Nat
  BY TreeAssumptions, Zenon
<1>5. \A r \in Roots, e \in Entries, t \in Threads : <<r, e>> # Temp(t)
  BY <1>4 DEF Roots, Temp
<1>6. /\ \A r \in Roots, e \in Entries : <<r, e>> \in Paths
      /\ \A t \in Threads : Temp(t) \in Paths
  BY Zenon DEF Paths
<1>7. /\ 0 \in Roots /\ None \notin Paths /\ None \notin Identities
      /\ \A t \in Threads : t # User
      /\ Dirs \cap Files = {} /\ Dirs \subseteq Entries /\ Files \subseteq Entries
  BY <1>4, TreeAssumptions DEF Roots, Entries
<1> QED BY <1>1, <1>2, <1>3, <1>5, <1>6, <1>7

\* A sequence that grows by one, or whose last element is exchanged.
LEMMA Appended ==
    ASSUME NEW S, NEW q \in Seq(S), NEW x \in S
    PROVE  /\ Append(q, x) \in Seq(S) /\ Len(Append(q, x)) = Len(q) + 1 /\ Len(q) \in Nat
           /\ Append(q, x)[Len(q) + 1] = x
           /\ \A k \in 1 .. Len(q) : Append(q, x)[k] = q[k]
           /\ Append(q, x) # <<>>
OBVIOUS

\* The last element of a sequence is exchanged.
LEMMA Exchanged ==
    ASSUME NEW S, NEW q \in Seq(S), q # <<>>, NEW x \in S, NEW r, r = [q EXCEPT ![Len(q)] = x]
    PROVE  /\ r \in Seq(S) /\ Len(r) = Len(q) /\ Len(q) \in Nat \ {0}
           /\ \A k \in 1 .. Len(q) - 1 : r[k] = q[k]
           /\ r[Len(q)] = x
<1>1. Len(q) \in Nat \ {0} /\ DOMAIN q = 1 .. Len(q) /\ q \in [1 .. Len(q) -> S]
  OBVIOUS
<1> DEFINE n == Len(q)
<1>2. n \in Nat \ {0} /\ DOMAIN q = 1 .. n /\ q \in [1 .. n -> S] /\ r = [q EXCEPT ![n] = x]
  BY <1>1, Zenon
<1> HIDE DEF n
<1>3. r \in [1 .. n -> S]
  BY <1>2, Zenon
<1>4. r \in Seq(S) /\ Len(r) = n
  BY <1>2, <1>3
<1>5. n \in 1 .. n /\ \A k \in 1 .. n - 1 : k \in 1 .. n /\ k # n
  BY <1>2
<1>6. r[n] = x /\ \A k \in 1 .. n - 1 : r[k] = q[k]
  BY <1>2, <1>5, Zenon
<1> QED BY <1>2, <1>4, <1>6, Zenon DEF n

-----------------------------------------------------------------------------
\* A step of thread t leaves alone what the others hold.
Keeps(t) ==
    /\ own' = own /\ policy' = policy
    /\ \A u \in Threads \ {t} :
          /\ pc'[u] = pc[u] /\ index'[u] = index[u] /\ root'[u] = root[u]
          /\ created'[u] = created[u] /\ left'[u] = left[u] /\ status'[u] = status[u]

\* Thread t goes to one of these places, without success.
Moved(t, there) ==
    \E x \in there, c \in Codes \ {"Ok"} :
        pc' = [pc EXCEPT ![t] = x] /\ status' = [status EXCEPT ![t] = c]

\* What a step of thread t has to give.
BaseOf(t) == TypeInv' /\ Keeps(t) /\ PhaseOf(t)' /\ RemovesOwn(t)'

\* A step of t that gives it keeps the invariant.
LEMMA BaseKept ==
    ASSUME BaseInv, NEW t \in Threads, BaseOf(t)
    PROVE  BaseInv'
<1>1. ASSUME NEW u \in Threads \ {t} PROVE PhaseOf(u)'
  <2>1. /\ pc'[u] = pc[u] /\ index'[u] = index[u] /\ root'[u] = root[u] /\ policy'[u] = policy[u]
        /\ created'[u] = created[u] /\ left'[u] = left[u] /\ status'[u] = status[u]
    BY Zenon DEF BaseOf, Keeps
  <2>2. PhaseOf(u)
    BY Zenon DEF BaseInv
  <2> QED BY <2>1, <2>2, Zenon DEF PhaseOf, LastPath, Target, File, Temp
<1>2. ASSUME NEW u \in Threads \ {t} PROVE RemovesOwn(u)'
  BY DEF BaseOf, Keeps, BaseInv, RemovesOwn
<1> QED BY <1>1, <1>2, Zenon DEF BaseInv, BaseOf

\* Goto, Fail and Report move the thread.
LEMMA Moving ==
    ASSUME BaseInv, NEW t \in Threads, pc[t] # "Done", NEW x \in Places
    PROVE  /\ Goto(t, x) => Moved(t, {x})
           /\ \A c \in Codes \ {"Ok"} : Fail(t, c) => Moved(t, {"Restore"})
           /\ Report(t, x) => Moved(t, {x, "Restore"})
<1>1. status \in [Threads -> Codes] /\ status[t] \in Codes \ {"Ok"}
  BY Zenon DEF BaseInv, TypeInv, PhaseOf
<1>2. Goto(t, x) => Moved(t, {x})
  BY <1>1, Zenon DEF Goto, Moved
<1>3. \A c \in Codes \ {"Ok"} : Fail(t, c) => Moved(t, {"Restore"})
  BY Zenon DEF Fail, Moved
<1>4. "Cancelled" \in Codes \ {"Ok"}
  BY Zenon DEF Codes
<1> QED BY <1>2, <1>3, <1>4, Zenon DEF Report, Moved

\* What a move does, to the thread and to the others.
LEMMA MovedTo ==
    ASSUME TypeInv, NEW t \in Threads, NEW there \in SUBSET Places, Moved(t, there)
    PROVE  /\ pc' \in [Threads -> Places] /\ status' \in [Threads -> Codes]
           /\ pc'[t] \in there /\ status'[t] # "Ok"
           /\ \A u \in Threads \ {t} : pc'[u] = pc[u] /\ status'[u] = status[u]
BY Zenon DEF TypeInv, Moved

\* The loop goes on to the next entry, or it ends.
LEMMA Advancing ==
    ASSUME BaseInv, NEW t \in Threads, pc[t] # "Done", NEW S, NEW seq \in Seq(S),
           index[t] \in 1 .. Len(seq),
           NEW here \in Places, NEW after \in Places, Advance(t, seq, here, after)
    PROVE  /\ index' \in [Threads -> Nat]
           /\ \A u \in Threads \ {t} : index'[u] = index[u]
           /\ \/ /\ index[t] < Len(seq) /\ index'[t] = index[t] + 1
                 /\ index'[t] \in 1 .. Len(seq) /\ Moved(t, {here, "Restore"})
              \/ index[t] = Len(seq) /\ index'[t] = 1 /\ Moved(t, {after, "Restore"})
<1>1. index \in [Threads -> Nat] /\ Len(seq) \in Nat
  BY DEF BaseInv, TypeInv
<1>2. /\ Report(t, here) => Moved(t, {here, "Restore"})
      /\ Report(t, after) => Moved(t, {after, "Restore"})
  BY Moving, Zenon
<1> QED BY <1>1, <1>2 DEF Advance

\* A created target is kept at the end.
LEMMA Pushing ==
    ASSUME BaseInv, NEW t \in Threads, NEW p \in Paths, NEW i \in Identities, NEW r \in BOOLEAN,
           r => i[1] = t, Push(t, CreatedAs(p, i, r))
    PROVE  /\ created' \in [Threads -> Seq(CreatedTarget)]
           /\ \A u \in Threads \ {t} : created'[u] = created[u]
           /\ created'[t] = Append(created[t], CreatedAs(p, i, r))
           /\ created'[t] # <<>> /\ LastPath(t)' = p /\ RemovesOwn(t)'
<1> DEFINE c == CreatedAs(p, i, r)
<1>1. created \in [Threads -> Seq(CreatedTarget)] /\ created[t] \in Seq(CreatedTarget)
  BY Zenon DEF BaseInv, TypeInv
<1>2. c \in CreatedTarget /\ c.path = p /\ c.identity = i /\ c.remove_on_cleanup = r
  BY Zenon DEF CreatedAs, CreatedTarget
<1> HIDE DEF c
<1>3. /\ Append(created[t], c) \in Seq(CreatedTarget) /\ Append(created[t], c) # <<>>
      /\ Len(Append(created[t], c)) = Len(created[t]) + 1 /\ Len(created[t]) \in Nat
      /\ Append(created[t], c)[Len(created[t]) + 1] = c
      /\ \A k \in 1 .. Len(created[t]) : Append(created[t], c)[k] = created[t][k]
  BY <1>1, <1>2, Appended
<1>4. created' = [created EXCEPT ![t] = Append(created[t], c)]
  BY <1>1, Zenon DEF Push, c
<1>5. /\ created'[t] = Append(created[t], c)
      /\ created' \in [Threads -> Seq(CreatedTarget)]
      /\ \A u \in Threads \ {t} : created'[u] = created[u]
  BY <1>1, <1>3, <1>4, Zenon
<1>6. RemovesOwn(t)
  BY Zenon DEF BaseInv
<1>7. RemovesOwn(t)'
  <2> SUFFICES ASSUME NEW k \in 1 .. Len(created[t]) + 1, created'[t][k].remove_on_cleanup
               PROVE  created'[t][k].identity[1] = t
    BY <1>3, <1>5, Zenon DEF RemovesOwn
  <2>1. CASE k = Len(created[t]) + 1
    BY <2>1, <1>2, <1>3, <1>5, Zenon
  <2>2. CASE k # Len(created[t]) + 1
    <3>1. k \in 1 .. Len(created[t])
      BY <1>3, <2>2
    <3> QED BY <3>1, <1>3, <1>5, <1>6 DEF RemovesOwn
  <2> QED BY <2>1, <2>2, Zenon
<1>8. LastPath(t)' = p
  BY <1>2, <1>3, <1>5, Zenon DEF LastPath
<1> QED BY <1>3, <1>5, <1>7, <1>8, Zenon DEF c

\* A step that makes nothing and stays at its entry.
LEMMA Quiet ==
    ASSUME BaseInv, NEW t \in Threads, NEW there \in SUBSET Places, Moved(t, there),
           pc[t] # "Idle", "Idle" \notin there, "Check" \notin there, "Remove" \notin there,
           there \cap {"Directory", "Mkdir"} # {} => pc[t] \in {"Directory", "Mkdir"},
           there \cap InFiles # {} => pc[t] \in InFiles,
           "Temp" \in there => policy[t] = "Overwrite",
           "Write" \in there => pc[t] = "Write",
           UNCHANGED <<fs, own, marked, policy, root, left, index, created>>,
           written' \in [Threads \X Files -> Nat]
    PROVE  BaseOf(t)
<1>1. TypeInv /\ PhaseOf(t) /\ RemovesOwn(t)
  BY Zenon DEF BaseInv
<1>2. /\ pc' \in [Threads -> Places] /\ status' \in [Threads -> Codes]
      /\ pc'[t] \in there /\ status'[t] # "Ok"
      /\ \A u \in Threads \ {t} : pc'[u] = pc[u] /\ status'[u] = status[u]
  BY <1>1, MovedTo, Zenon
<1>3. TypeInv'
  BY <1>1, <1>2, Zenon DEF TypeInv
<1>4. Keeps(t)
  BY <1>2, Zenon DEF Keeps
<1>5. RemovesOwn(t)'
  BY <1>1, Zenon DEF RemovesOwn
<1>6. PhaseOf(t)'
  <2>1. /\ pc'[t] # "Idle" /\ pc'[t] # "Check" /\ pc'[t] # "Remove"
        /\ pc'[t] \in {"Directory", "Mkdir"} => pc[t] \in {"Directory", "Mkdir"}
        /\ pc'[t] \in InFiles => pc[t] \in InFiles
        /\ pc'[t] = "Temp" => policy'[t] = "Overwrite"
        /\ pc'[t] = "Write" => pc[t] = "Write"
    BY <1>2, Zenon
  <2>2. /\ LastPath(t)' = LastPath(t) /\ Target(t, File(t))' = Target(t, File(t))
        /\ index'[t] = index[t] /\ created'[t] = created[t] /\ policy'[t] = policy[t]
    BY Zenon DEF LastPath, Target, File
  <2> QED BY <1>1, <1>2, <2>1, <2>2, Zenon DEF PhaseOf, Temp
<1> QED BY <1>3, <1>4, <1>5, <1>6, Zenon DEF BaseOf

\* After the loop over the directories there is a file, or nothing but directories.
LEMMA Firsts ==
    /\ FirstFiles \in {"Metadata", "File"} /\ (FirstFiles = "File" => 1 \in 1 .. Len(FileSeq))
    /\ FirstDirs \in {"File", "Directory"} /\ (FirstDirs = "File" => 1 \in 1 .. Len(FileSeq))
    /\ FirstDirs = "Directory" => 1 \in 1 .. Len(DirSeq)
    /\ LastDirs \in {"Mark", "Metadata"}
BY Facts DEF FirstFiles, FirstDirs, LastDirs

\* Preflight, and the first report, keep the invariant.
LEMMA PlanBase ==
    ASSUME BaseInv, NEW t \in Threads, plan_materialize(t)
    PROVE  BaseOf(t)
<1>1. /\ TypeInv /\ PhaseOf(t) /\ RemovesOwn(t) /\ pc[t] = "Idle"
      /\ created[t] = <<>> /\ index[t] = 1
  BY Zenon DEF BaseInv, plan_materialize, PhaseOf
<1>2. UNCHANGED <<fs, own, written, marked, policy, left, index, created>>
  BY Zenon DEF plan_materialize, fileVars, restVars
<1>3. \/ root' = root /\ Moved(t, {"Done"})
      \/ (\E r \in Roots : root' = [root EXCEPT ![t] = r]) /\ Moved(t, {FirstDirs, "Restore"})
  <2>1. FirstDirs \in Places
    BY Firsts, Zenon DEF Places
  <2>2. Report(t, FirstDirs) => Moved(t, {FirstDirs, "Restore"})
    BY <1>1, <2>1, Moving, Zenon
  <2>3. \A c \in Codes \ {"Ok"} : Refuse(t, c) => root' = root /\ Moved(t, {"Done"})
    BY Zenon DEF Refuse, Moved
  <2>4. "ProviderGone" \in Codes \ {"Ok"} /\ "AlreadyExists" \in Codes \ {"Ok"}
    BY Zenon DEF Codes
  <2> QED BY <2>2, <2>3, <2>4, Zenon DEF plan_materialize
<1>4. /\ pc' \in [Threads -> Places] /\ status' \in [Threads -> Codes]
      /\ pc'[t] \in {"Done", FirstDirs, "Restore"} /\ status'[t] # "Ok"
      /\ \A u \in Threads \ {t} : pc'[u] = pc[u] /\ status'[u] = status[u]
  <2>1. /\ FirstDirs \in Places /\ {"Done"} \subseteq Places /\ {FirstDirs, "Restore"} \subseteq Places
    BY Firsts, Zenon DEF Places
  <2> QED BY <1>1, <1>3, <2>1, MovedTo
<1>5. root' \in [Threads -> Roots] /\ \A u \in Threads \ {t} : root'[u] = root[u]
  BY <1>1, <1>3, Zenon DEF TypeInv
<1>6. TypeInv' /\ Keeps(t) /\ RemovesOwn(t)'
  BY <1>1, <1>2, <1>4, <1>5, Zenon DEF TypeInv, Keeps, RemovesOwn
<1>7. PhaseOf(t)'
  <2>1. pc'[t] \in {"Done", "File", "Directory", "Restore"} /\ index'[t] = 1
    BY <1>1, <1>2, <1>4, Firsts, Zenon
  <2>2. /\ pc'[t] = "File" => index'[t] \in 1 .. Len(FileSeq)
        /\ pc'[t] = "Directory" => index'[t] \in 1 .. Len(DirSeq)
    BY <2>1, <1>4, Firsts, Zenon
  <2> QED BY <1>4, <2>1, <2>2, Zenon DEF PhaseOf, InFiles
<1> QED BY <1>6, <1>7, Zenon DEF BaseOf

\* A failure, and the steps that only look.
LEMMA LookBase ==
    ASSUME BaseInv, NEW t \in Threads, Error(t) \/ OpenFile(t) \/ WriteChunk(t)
    PROVE  BaseOf(t)
<1>1. TypeInv /\ pc[t] \in Places /\ PhaseOf(t)
  BY Zenon DEF BaseInv, TypeInv
<1>2. "Io" \in Codes \ {"Ok"} /\ "AlreadyExists" \in Codes \ {"Ok"}
  BY Zenon DEF Codes
<1>3. CASE Error(t)
  <2>1. pc[t] \notin {"Done", "Idle"} /\ "Restore" \in Places
    BY <1>3, Zenon DEF Error, Places
  <2>2. Moved(t, {"Restore"})
    BY <1>2, <1>3, <2>1, Moving, Zenon DEF Error
  <2>3. UNCHANGED <<fs, own, marked, policy, root, left, index, created, written>>
    BY <1>3, Zenon DEF Error, fileVars, restVars, taskVars
  <2>4. written' \in [Threads \X Files -> Nat]
    BY <1>1, <2>3, Zenon DEF TypeInv
  <2>5. {"Restore"} \in SUBSET Places
    BY <2>1, Zenon
  <2> QED BY <2>1, <2>2, <2>3, <2>4, <2>5, Quiet, Zenon DEF InFiles
<1>4. CASE OpenFile(t)
  <2>1. pc[t] = "File" /\ {"New", "Temp", "Restore"} \subseteq Places
    BY <1>4, Zenon DEF OpenFile, Places
  <2>2. Moved(t, {"New", "Restore"}) \/ (Moved(t, {"Temp"}) /\ policy[t] = "Overwrite")
    <3>1. /\ Goto(t, "New") => Moved(t, {"New"})
          /\ Goto(t, "Temp") => Moved(t, {"Temp"})
          /\ Fail(t, "AlreadyExists") => Moved(t, {"Restore"})
      BY <1>2, <2>1, Moving, Zenon
    <3> QED BY <3>1, <1>4, Zenon DEF OpenFile, Moved, validate_existing_materialize_target
  <2>3. UNCHANGED <<fs, own, marked, policy, root, left, index, created, written>>
    BY <1>4, Zenon DEF OpenFile, fileVars, restVars, taskVars
  <2>4. written' \in [Threads \X Files -> Nat]
    BY <1>1, <2>3, Zenon DEF TypeInv
  <2>5. CASE Moved(t, {"New", "Restore"})
    BY <2>1, <2>3, <2>4, <2>5, Quiet, Zenon DEF InFiles
  <2>6. CASE Moved(t, {"Temp"}) /\ policy[t] = "Overwrite"
    BY <2>1, <2>3, <2>4, <2>6, Quiet, Zenon DEF InFiles
  <2> QED BY <2>2, <2>5, <2>6, Zenon
<1>5. CASE WriteChunk(t)
  <2>1. pc[t] = "Write" /\ {"Write", "Restore"} \subseteq Places
    BY <1>5, Zenon DEF WriteChunk, Places
  <2>2. Moved(t, {"Write", "Restore"})
    BY <1>5, <2>1, Moving, Zenon DEF WriteChunk
  <2>3. UNCHANGED <<fs, own, marked, policy, root, left, index, created>>
    BY <1>5, Zenon DEF WriteChunk, restVars, taskVars
  <2>4. written' \in [Threads \X Files -> Nat]
    <3> DEFINE i == <<t, File(t)>>
    <3>1. index[t] \in 1 .. Len(FileSeq)
      BY <1>1, <2>1, Zenon DEF PhaseOf, InFiles
    <3>2. i \in Threads \X Files
      BY <3>1, Facts, Zenon DEF File
    <3>3. written' = [written EXCEPT ![i] = @ + 1]
      BY <1>5, Zenon DEF WriteChunk
    <3> HIDE DEF i
    <3> QED BY <1>1, <3>2, <3>3 DEF TypeInv
  <2> QED BY <2>1, <2>2, <2>3, <2>4, Quiet, Zenon DEF InFiles
<1> QED BY <1>3, <1>4, <1>5, Zenon

\* An attempt to create a file, or a directory, fails.
LEMMA CreateFailsBase ==
    ASSUME BaseInv, NEW t \in Threads, NEW p \in Paths, pc[t] \in {"Mkdir", "New", "Temp"},
           CreateFails(t, p), UNCHANGED <<readonly, written, restVars, marked, taskVars>>
    PROVE  BaseOf(t)
<1>1. /\ "AlreadyExists" \in Codes \ {"Ok"} /\ "Permission or NotFound" \in Codes \ {"Ok"}
      /\ "Restore" \in Places
  BY Zenon DEF Codes, Places
<1>2. Moved(t, {"Restore"})
  BY <1>1, Moving, Zenon DEF CreateFails
<1>3. UNCHANGED <<fs, own, marked, policy, root, left, index, created, written>>
  BY Zenon DEF CreateFails, restVars, taskVars
<1>4. written' \in [Threads \X Files -> Nat]
  BY <1>3, Zenon DEF TypeInv, BaseInv
<1>5. {"Restore"} \in SUBSET Places
  BY <1>1, Zenon
<1> QED BY <1>2, <1>3, <1>4, <1>5, Quiet, Zenon DEF InFiles

\* A target is made, or found, and the loop over the directories advances.
LEMMA DirectoryBase ==
    ASSUME BaseInv, NEW t \in Threads, Directory(t) \/ Mkdir(t)
    PROVE  BaseOf(t)
<1> DEFINE e == DirSeq[index[t]]
           p == Target(t, e)
<1>1. /\ TypeInv /\ PhaseOf(t) /\ pc[t] \in {"Directory", "Mkdir"}
      /\ index[t] \in 1 .. Len(DirSeq) /\ DirSeq \in Seq(Dirs)
  BY TreeAssumptions, Zenon DEF BaseInv, PhaseOf, Directory, Mkdir
<1>2. e \in Dirs /\ e \in Entries /\ p \in Paths
  BY <1>1, Facts, Zenon DEF Target, TypeInv
<1>3. FirstFiles \in Places /\ {"Directory", "Mkdir", "Restore", FirstFiles} \subseteq Places
  BY Firsts, Zenon DEF Places
<1>4. UNCHANGED <<own, marked, policy, root, left, written>>
  BY Zenon DEF Directory, Mkdir, fileVars, restVars, taskVars
<1>5. ASSUME NEW i \in Identities, NEW r \in BOOLEAN, r => i[1] = t,
             Push(t, CreatedAs(p, i, r)), Advance(t, DirSeq, "Directory", FirstFiles),
             fs' \in [Paths -> Identities \cup {None}]
      PROVE  BaseOf(t)
  <2>1. /\ index' \in [Threads -> Nat]
        /\ \A u \in Threads \ {t} : index'[u] = index[u]
        /\ \/ index'[t] \in 1 .. Len(DirSeq) /\ Moved(t, {"Directory", "Restore"})
           \/ index'[t] = 1 /\ Moved(t, {FirstFiles, "Restore"})
    BY <1>1, <1>3, <1>5, Advancing, Zenon
  <2>2. /\ created' \in [Threads -> Seq(CreatedTarget)]
        /\ \A u \in Threads \ {t} : created'[u] = created[u]
        /\ RemovesOwn(t)'
    BY <1>2, <1>5, Pushing, Zenon
  <2>3. /\ pc' \in [Threads -> Places] /\ status' \in [Threads -> Codes] /\ status'[t] # "Ok"
        /\ \/ index'[t] \in 1 .. Len(DirSeq) /\ pc'[t] \in {"Directory", "Restore"}
           \/ index'[t] = 1 /\ pc'[t] \in {FirstFiles, "Restore"}
        /\ \A u \in Threads \ {t} : pc'[u] = pc[u] /\ status'[u] = status[u]
    BY <1>1, <1>3, <2>1, MovedTo, Zenon
  <2>4. TypeInv' /\ Keeps(t)
    BY <1>1, <1>4, <1>5, <2>1, <2>2, <2>3, Zenon DEF TypeInv, Keeps
  <2>5. PhaseOf(t)'
    BY <2>3, Firsts, Zenon DEF PhaseOf, InFiles
  <2> QED BY <2>2, <2>4, <2>5, Zenon DEF BaseOf
<1>6. CASE Directory(t)
  <2>1. pc[t] = "Directory" /\ UNCHANGED fs
    BY <1>6, Zenon DEF Directory, fileVars
  <2>2. \/ /\ Goto(t, "Mkdir") \/ Fail(t, "AlreadyExists")
           /\ UNCHANGED <<index, created>>
        \/ /\ fs[p] # None /\ Push(t, CreatedAs(p, fs[p], FALSE))
           /\ Advance(t, DirSeq, "Directory", FirstFiles)
    BY <1>6, Zenon DEF Directory
  <2>3. ASSUME Goto(t, "Mkdir") \/ Fail(t, "AlreadyExists"), UNCHANGED <<index, created>>
        PROVE  BaseOf(t)
    <3>1. "AlreadyExists" \in Codes \ {"Ok"} /\ "Mkdir" \in Places
      BY Zenon DEF Codes, Places
    <3>2. Moved(t, {"Mkdir"}) \/ Moved(t, {"Restore"})
      BY <2>1, <2>3, <3>1, Moving, Zenon
    <3>3. Moved(t, {"Mkdir", "Restore"})
      BY <3>2, Zenon DEF Moved
    <3>4. written' \in [Threads \X Files -> Nat]
      BY <1>1, <1>4, Zenon DEF TypeInv
    <3> QED BY <1>3, <1>4, <2>1, <2>3, <3>3, <3>4, Quiet, Zenon DEF InFiles
  <2>4. ASSUME fs[p] # None, Push(t, CreatedAs(p, fs[p], FALSE)),
               Advance(t, DirSeq, "Directory", FirstFiles)
        PROVE  BaseOf(t)
    <3>1. fs[p] \in Identities /\ fs' \in [Paths -> Identities \cup {None}]
      BY <1>1, <1>2, <2>1, <2>4, Zenon DEF TypeInv
    <3> QED BY <1>5, <2>4, <3>1, Zenon
  <2> QED BY <2>2, <2>3, <2>4, Zenon
<1>7. CASE Mkdir(t)
  <2>1. pc[t] = "Mkdir" /\ UNCHANGED <<readonly, written, restVars, marked, taskVars>>
    BY <1>7, Zenon DEF Mkdir
  <2>2. \/ Create(t, p, e) /\ Advance(t, DirSeq, "Directory", FirstFiles)
        \/ CreateFails(t, p)
    BY <1>7, Zenon DEF Mkdir
  <2>3. CASE CreateFails(t, p)
    BY <1>2, <2>1, <2>3, CreateFailsBase, Zenon
  <2>4. CASE Create(t, p, e) /\ Advance(t, DirSeq, "Directory", FirstFiles)
    <3>1. <<t, e>> \in Identities /\ <<t, e>>[1] = t
      BY <1>2, Zenon DEF Identities
    <3>2. fs' \in [Paths -> Identities \cup {None}]
      BY <1>1, <1>2, <2>4, <3>1, Zenon DEF TypeInv, Create
    <3>3. Push(t, CreatedAs(p, <<t, e>>, TRUE))
      BY <2>4, Zenon DEF Create
    <3> QED BY <1>5, <2>4, <3>1, <3>2, <3>3, Zenon
  <2> QED BY <2>2, <2>3, <2>4, Zenon
<1> QED BY <1>6, <1>7, Zenon

\* A file is opened, new or beside the one it replaces.
LEMMA OpenBase ==
    ASSUME BaseInv, NEW t \in Threads,
           open_final_materialized_file(t) \/ open_replacement_materialized_file(t)
    PROVE  BaseOf(t)
<1>1. /\ TypeInv /\ PhaseOf(t) /\ pc[t] \in {"New", "Temp"}
      /\ index[t] \in 1 .. Len(FileSeq)
  BY Zenon DEF BaseInv, PhaseOf, InFiles, open_final_materialized_file, open_replacement_materialized_file,
         OpenAt
<1>2. File(t) \in Files /\ File(t) \in Entries /\ Target(t, File(t)) \in Paths
  BY <1>1, Facts, Zenon DEF Target, File, TypeInv
<1>3. PICK p \in Paths :
         /\ OpenAt(t, pc[t], p)
         /\ p = Target(t, File(t)) \/ (p = Temp(t) /\ policy[t] = "Overwrite")
  <2>1. Temp(t) \in Paths
    BY Facts, Zenon
  <2>2. CASE open_final_materialized_file(t)
    BY <1>2, <2>2, Zenon DEF open_final_materialized_file, OpenAt
  <2>3. CASE open_replacement_materialized_file(t)
    BY <1>1, <2>1, <2>3, Zenon DEF open_replacement_materialized_file, OpenAt, PhaseOf
  <2> QED BY <2>2, <2>3, Zenon
<1>4. UNCHANGED <<readonly, written, restVars, marked, taskVars>>
  BY <1>3, Zenon DEF OpenAt
<1>5. CASE CreateFails(t, p)
  BY <1>1, <1>4, <1>5, CreateFailsBase, Zenon
<1>6. CASE Create(t, p, File(t)) /\ Goto(t, "Write") /\ UNCHANGED index
  <2>1. <<t, File(t)>> \in Identities /\ <<t, File(t)>>[1] = t
    BY <1>2, Zenon DEF Identities
  <2>2. fs' \in [Paths -> Identities \cup {None}]
    BY <1>1, <1>6, <2>1, Zenon DEF TypeInv, Create
  <2>3. /\ created' \in [Threads -> Seq(CreatedTarget)]
        /\ \A u \in Threads \ {t} : created'[u] = created[u]
        /\ created'[t] # <<>> /\ LastPath(t)' = p /\ RemovesOwn(t)'
    BY <1>6, <2>1, Pushing, Zenon DEF Create
  <2>4. "Write" \in Places /\ {"Write"} \in SUBSET Places
    BY Zenon DEF Places
  <2>5. Moved(t, {"Write"})
    BY <1>1, <1>6, <2>4, Moving, Zenon
  <2>6. /\ pc' \in [Threads -> Places] /\ status' \in [Threads -> Codes]
        /\ pc'[t] = "Write" /\ status'[t] # "Ok"
        /\ \A u \in Threads \ {t} : pc'[u] = pc[u] /\ status'[u] = status[u]
    BY <1>1, <2>4, <2>5, MovedTo, Zenon
  <2>7. UNCHANGED <<written, own, marked, policy, root, left, index>>
    BY <1>4, <1>6, Zenon DEF restVars, taskVars
  <2>8. TypeInv' /\ Keeps(t)
    BY <1>1, <2>2, <2>3, <2>6, <2>7, Zenon DEF TypeInv, Keeps
  <2>9. PhaseOf(t)'
    <3>1. Target(t, File(t))' = Target(t, File(t))
      BY <2>7, Zenon DEF Target, File
    <3> QED BY <1>1, <1>3, <2>3, <2>6, <2>7, <3>1, Zenon DEF PhaseOf, InFiles, Temp
  <2> QED BY <2>3, <2>8, <2>9, Zenon DEF BaseOf
<1> QED BY <1>3, <1>5, <1>6, Zenon DEF OpenAt

\* A replacement takes the place of its temporary file, also in what was created.
LEMMA Replacing ==
    ASSUME BaseInv, NEW t \in Threads, created[t] # <<>>, File(t) \in Files, NEW p \in Paths,
           Replace(t, p)
    PROVE  /\ fs' \in [Paths -> Identities \cup {None}]
           /\ \A q \in Paths : fs'[q] = IF q = Temp(t) THEN None
                                        ELSE IF q = p THEN <<t, File(t)>> ELSE fs[q]
           /\ created' \in [Threads -> Seq(CreatedTarget)]
           /\ \A u \in Threads \ {t} : created'[u] = created[u]
           /\ Len(created[t]) \in Nat \ {0} /\ Len(created'[t]) = Len(created[t])
           /\ \A k \in 1 .. Len(created[t]) - 1 : created'[t][k] = created[t][k]
           /\ ~created'[t][Len(created[t])].remove_on_cleanup
           /\ created'[t][Len(created[t])] = CreatedAs(p, <<t, File(t)>>, FALSE)
           /\ RemovesOwn(t)'
<1> DEFINE i == <<t, File(t)>>
           c == CreatedAs(p, i, FALSE)
           n == Len(created[t])
           f == [created[t] EXCEPT ![n] = c]
<1>1. /\ created \in [Threads -> Seq(CreatedTarget)] /\ created[t] \in Seq(CreatedTarget)
      /\ fs \in [Paths -> Identities \cup {None}] /\ RemovesOwn(t)
  BY Zenon DEF BaseInv, TypeInv
<1>2. i \in Identities /\ Temp(t) \in Paths
  BY Facts, Zenon DEF Identities
<1>3. /\ fs' = [fs EXCEPT ![p] = i, ![Temp(t)] = None]
      /\ created' = [created EXCEPT ![t] = f]
  BY <1>1, Zenon DEF Replace
<1>4. c \in CreatedTarget /\ ~c.remove_on_cleanup
  BY <1>2, Zenon DEF CreatedAs, CreatedTarget
<1> HIDE DEF c, i
<1>5. /\ f \in Seq(CreatedTarget) /\ Len(f) = n /\ n \in Nat \ {0}
      /\ \A k \in 1 .. n - 1 : f[k] = created[t][k]
      /\ f[n] = c
  BY <1>1, <1>4, Exchanged
<1> HIDE DEF f, n
<1>7. /\ created'[t] = f /\ created' \in [Threads -> Seq(CreatedTarget)]
      /\ \A u \in Threads \ {t} : created'[u] = created[u]
  BY <1>1, <1>3, <1>5, Zenon
<1>8. /\ Len(created'[t]) = n /\ \A k \in 1 .. n - 1 : created'[t][k] = created[t][k]
      /\ ~created'[t][n].remove_on_cleanup /\ created'[t][n] = c
  BY <1>4, <1>5, <1>7, Zenon
<1>9. RemovesOwn(t)'
  <2> SUFFICES ASSUME NEW k \in 1 .. n, created'[t][k].remove_on_cleanup
               PROVE  created'[t][k].identity[1] = t
    BY <1>8, Zenon DEF RemovesOwn
  <2>1. k \in 1 .. n - 1 /\ k \in 1 .. Len(created[t])
    BY <1>5, <1>8 DEF n
  <2> QED BY <1>1, <1>8, <2>1, Zenon DEF RemovesOwn
<1>10. /\ fs' \in [Paths -> Identities \cup {None}]
       /\ \A q \in Paths : fs'[q] = IF q = Temp(t) THEN None ELSE IF q = p THEN i ELSE fs[q]
  BY <1>1, <1>2, <1>3, Zenon
<1> QED BY <1>5, <1>7, <1>8, <1>9, <1>10, Zenon DEF c, i, n

\* A file is complete.
LEMMA FinalizeBase ==
    ASSUME BaseInv, NEW t \in Threads, finalize_materialized_file(t)
    PROVE  BaseOf(t)
<1> DEFINE p == Target(t, File(t))
<1>1. /\ TypeInv /\ PhaseOf(t) /\ RemovesOwn(t) /\ pc[t] = "Write" /\ created[t] # <<>>
      /\ index[t] \in 1 .. Len(FileSeq) /\ FileSeq \in Seq(Files)
  BY TreeAssumptions, Zenon DEF BaseInv, PhaseOf, InFiles, finalize_materialized_file
<1>2. File(t) \in Files /\ p \in Paths
  BY <1>1, Facts, Zenon DEF Target, File, TypeInv
<1>3. UNCHANGED <<own, marked, policy, root, left, written>>
  BY Zenon DEF finalize_materialized_file, restVars, taskVars
<1>4. \/ (Replace(t, p) \/ UNCHANGED <<fs, created>>) /\ Advance(t, FileSeq, "File", LastDirs)
      \/ Fail(t, "Io") /\ UNCHANGED <<fs, index, created>>
  BY Zenon DEF finalize_materialized_file
<1>5. CASE Fail(t, "Io") /\ UNCHANGED <<fs, index, created>>
  <2>1. "Io" \in Codes \ {"Ok"} /\ "Restore" \in Places /\ {"Restore"} \in SUBSET Places
    BY Zenon DEF Codes, Places
  <2>2. Moved(t, {"Restore"})
    BY <1>1, <1>5, <2>1, Moving, Zenon
  <2>3. written' \in [Threads \X Files -> Nat]
    BY <1>1, <1>3, Zenon DEF TypeInv
  <2> QED BY <1>1, <1>3, <1>5, <2>1, <2>2, <2>3, Quiet, Zenon DEF InFiles
<1>6. CASE (Replace(t, p) \/ UNCHANGED <<fs, created>>) /\ Advance(t, FileSeq, "File", LastDirs)
  <2>1. LastDirs \in Places /\ "File" \in Places /\ {"File", "Restore", LastDirs} \subseteq Places
    BY Firsts, Zenon DEF Places
  <2>2. /\ index' \in [Threads -> Nat]
        /\ \A u \in Threads \ {t} : index'[u] = index[u]
        /\ \/ index'[t] \in 1 .. Len(FileSeq) /\ Moved(t, {"File", "Restore"})
           \/ index'[t] = 1 /\ Moved(t, {LastDirs, "Restore"})
    BY <1>1, <1>6, <2>1, Advancing, Zenon
  <2>3. /\ pc' \in [Threads -> Places] /\ status' \in [Threads -> Codes] /\ status'[t] # "Ok"
        /\ \/ index'[t] \in 1 .. Len(FileSeq) /\ pc'[t] \in {"File", "Restore"}
           \/ pc'[t] \in {LastDirs, "Restore"}
        /\ \A u \in Threads \ {t} : pc'[u] = pc[u] /\ status'[u] = status[u]
    BY <1>1, <2>1, <2>2, MovedTo, Zenon
  <2>4. /\ fs' \in [Paths -> Identities \cup {None}]
        /\ created' \in [Threads -> Seq(CreatedTarget)]
        /\ \A u \in Threads \ {t} : created'[u] = created[u]
        /\ RemovesOwn(t)'
    <3>1. CASE Replace(t, p)
      BY <1>1, <1>2, <3>1, Replacing, Zenon
    <3>2. CASE UNCHANGED <<fs, created>>
      BY <1>1, <3>2, Zenon DEF TypeInv, RemovesOwn
    <3> QED BY <1>6, <3>1, <3>2, Zenon
  <2>5. TypeInv' /\ Keeps(t)
    BY <1>1, <1>3, <2>2, <2>3, <2>4, Zenon DEF TypeInv, Keeps
  <2>6. PhaseOf(t)'
    BY <2>3, Firsts, Zenon DEF PhaseOf, InFiles
  <2> QED BY <2>4, <2>5, <2>6, Zenon DEF BaseOf
<1> QED BY <1>4, <1>5, <1>6, Zenon

\* The metadata of the directories, and the mark at the end.
LEMMA EndBase ==
    ASSUME BaseInv, NEW t \in Threads, apply_directory_metadata(t) \/ Mark(t)
    PROVE  BaseOf(t)
<1>1. TypeInv /\ PhaseOf(t) /\ RemovesOwn(t)
  BY Zenon DEF BaseInv
<1>2. UNCHANGED <<fs, own, written, policy, root, left, created>>
  BY Zenon DEF apply_directory_metadata, Mark, fileVars, restVars, taskVars
<1>3. RemovesOwn(t)'
  BY <1>1, <1>2, Zenon DEF RemovesOwn
<1>4. CASE apply_directory_metadata(t)
  <2>1. pc[t] = "Metadata" /\ UNCHANGED marked
    BY <1>4, Zenon DEF apply_directory_metadata
  <2>2. \/ index' = [index EXCEPT ![t] = index[t] + 1] /\ (Goto(t, "Mark") \/ Goto(t, "Metadata"))
        \/ UNCHANGED index /\ Fail(t, "Unavailable or NotFound")
    BY <1>4, Zenon DEF apply_directory_metadata
  <2>3. index' \in [Threads -> Nat] /\ \A u \in Threads \ {t} : index'[u] = index[u]
    <3>1. index \in [Threads -> Nat] /\ index[t] + 1 \in Nat
      BY <1>1 DEF TypeInv
    <3> QED BY <2>2, <3>1, Zenon
  <2>4. {"Mark", "Metadata", "Restore"} \subseteq Places /\ "Unavailable or NotFound" \in Codes \ {"Ok"}
    BY Zenon DEF Places, Codes
  <2>5. Moved(t, {"Mark"}) \/ Moved(t, {"Metadata"}) \/ Moved(t, {"Restore"})
    BY <2>1, <2>2, <2>4, Moving, Zenon
  <2>6. Moved(t, {"Mark", "Metadata", "Restore"})
    BY <2>5, Zenon DEF Moved
  <2>7. /\ pc' \in [Threads -> Places] /\ status' \in [Threads -> Codes]
        /\ pc'[t] \in {"Mark", "Metadata", "Restore"} /\ status'[t] # "Ok"
        /\ \A u \in Threads \ {t} : pc'[u] = pc[u] /\ status'[u] = status[u]
    BY <1>1, <2>4, <2>6, MovedTo, Zenon
  <2>8. TypeInv' /\ Keeps(t)
    BY <1>1, <1>2, <2>1, <2>3, <2>7, Zenon DEF TypeInv, Keeps
  <2>9. PhaseOf(t)'
    BY <2>7, Zenon DEF PhaseOf, InFiles
  <2> QED BY <1>3, <2>8, <2>9, Zenon DEF BaseOf
<1>5. CASE Mark(t)
  <2>1. /\ marked' = [e \in Entries |-> Target(t, e)] /\ UNCHANGED index
        /\ pc' = [pc EXCEPT ![t] = "Done"] /\ status' = [status EXCEPT ![t] = "Ok"]
    BY <1>5, Zenon DEF Mark
  <2>2. marked' \in [Entries -> Paths \cup {None}]
    BY <1>1, <2>1, Facts, Zenon DEF Target, TypeInv
  <2>3. "Done" \in Places /\ "Ok" \in Codes
    BY Zenon DEF Places, Codes
  <2>4. /\ pc' \in [Threads -> Places] /\ status' \in [Threads -> Codes] /\ pc'[t] = "Done"
        /\ \A u \in Threads \ {t} : pc'[u] = pc[u] /\ status'[u] = status[u]
    BY <1>1, <2>1, <2>3, Zenon DEF TypeInv
  <2>5. TypeInv' /\ Keeps(t)
    BY <1>1, <1>2, <2>1, <2>2, <2>4, Zenon DEF TypeInv, Keeps
  <2>6. PhaseOf(t)'
    BY <2>4, Zenon DEF PhaseOf, InFiles
  <2> QED BY <1>3, <2>5, <2>6, Zenon DEF BaseOf
<1> QED BY <1>4, <1>5, Zenon

\* The cleanup, from the last target to the first.
LEMMA CleanupBase ==
    ASSUME BaseInv, NEW t \in Threads,
           restore_created_directory_permissions(t) \/ CheckTarget(t) \/ RemoveTarget(t)
    PROVE  BaseOf(t)
<1>1. TypeInv /\ PhaseOf(t) /\ RemovesOwn(t)
  BY Zenon DEF BaseInv
<1>2. UNCHANGED <<own, written, marked, policy, root, index, created>>
  BY Zenon DEF restore_created_directory_permissions, CheckTarget, RemoveTarget, fileVars, restVars
<1>3. /\ RemovesOwn(t)' /\ created[t] \in Seq(CreatedTarget) /\ Len(created[t]) \in Nat
      /\ left \in [Threads -> Nat] /\ fs \in [Paths -> Identities \cup {None}]
  BY <1>1, <1>2 DEF RemovesOwn, TypeInv
<1>4. ASSUME NEW x \in {"Check", "Remove", "Done"}, Moved(t, {x}), pc[t] # "Idle",
             NEW n \in 0 .. Len(created[t]), left' = [left EXCEPT ![t] = n],
             x = "Remove" => n # 0 /\ created[t][n].remove_on_cleanup,
             fs' \in [Paths -> Identities \cup {None}]
      PROVE  BaseOf(t)
  <2>1. x \in Places /\ {x} \subseteq Places
    BY Zenon DEF Places
  <2>2. /\ pc' \in [Threads -> Places] /\ status' \in [Threads -> Codes]
        /\ pc'[t] = x /\ status'[t] # "Ok"
        /\ \A u \in Threads \ {t} : pc'[u] = pc[u] /\ status'[u] = status[u]
    BY <1>1, <1>4, <2>1, MovedTo
  <2>3. /\ left' \in [Threads -> Nat] /\ left'[t] = n
        /\ \A u \in Threads \ {t} : left'[u] = left[u]
    BY <1>3, <1>4
  <2>4. TypeInv' /\ Keeps(t)
    BY <1>1, <1>2, <1>4, <2>2, <2>3, Zenon DEF TypeInv, Keeps
  <2>5. PhaseOf(t)'
    BY <1>2, <1>3, <1>4, <2>2, <2>3 DEF PhaseOf, InFiles
  <2> QED BY <1>3, <2>4, <2>5, Zenon DEF BaseOf
<1>5. "Check" \in Places /\ "Remove" \in Places /\ "Done" \in Places
  BY Zenon DEF Places
<1>6. CASE restore_created_directory_permissions(t)
  <2>1. /\ pc[t] = "Restore" /\ UNCHANGED fs /\ Goto(t, "Check")
        /\ left' = [left EXCEPT ![t] = Len(created[t])]
    BY <1>6, Zenon DEF restore_created_directory_permissions
  <2>2. Moved(t, {"Check"})
    BY <1>5, <2>1, Moving, Zenon
  <2>3. Len(created[t]) \in 0 .. Len(created[t]) /\ pc[t] # "Idle"
    BY <1>3, <2>1
  <2>4. fs' \in [Paths -> Identities \cup {None}]
    BY <1>3, <2>1, Zenon
  <2> QED BY <1>4, <2>1, <2>2, <2>3, <2>4, Zenon
<1>7. CASE CheckTarget(t)
  <2>1. pc[t] = "Check" /\ UNCHANGED fs /\ left[t] \in 0 .. Len(created[t])
    BY <1>1, <1>7, Zenon DEF CheckTarget, fileVars, PhaseOf
  <2>2. left = [left EXCEPT ![t] = left[t]]
    BY <1>3, Zenon
  <2>3. \/ Goto(t, "Done") /\ UNCHANGED left
        \/ Goto(t, "Remove") /\ UNCHANGED left /\ left[t] # 0 /\ created[t][left[t]].remove_on_cleanup
        \/ UNCHANGED <<pc, status>> /\ left' = [left EXCEPT ![t] = left[t] - 1] /\ left[t] # 0
    BY <1>7, Zenon DEF CheckTarget
  <2>4. CASE Goto(t, "Done") /\ UNCHANGED left
    <3>1. Moved(t, {"Done"})
      BY <1>5, <2>1, <2>4, Moving, Zenon
    <3> QED BY <1>3, <1>4, <2>1, <2>2, <2>4, <3>1, Zenon
  <2>5. CASE Goto(t, "Remove") /\ UNCHANGED left /\ left[t] # 0 /\ created[t][left[t]].remove_on_cleanup
    <3>1. Moved(t, {"Remove"})
      BY <1>5, <2>1, <2>5, Moving, Zenon
    <3> QED BY <1>3, <1>4, <2>1, <2>2, <2>5, <3>1, Zenon
  <2>6. CASE UNCHANGED <<pc, status>> /\ left' = [left EXCEPT ![t] = left[t] - 1] /\ left[t] # 0
    <3>1. pc' = [pc EXCEPT ![t] = "Check"]
      BY <1>1, <2>1, <2>6, Zenon DEF TypeInv
    <3>2. Goto(t, "Check")
      BY <2>6, <3>1, Zenon DEF Goto
    <3>3. Moved(t, {"Check"})
      BY <1>5, <2>1, <3>2, Moving, Zenon
    <3>4. left[t] - 1 \in 0 .. Len(created[t])
      BY <1>3, <2>1, <2>6
    <3> QED BY <1>3, <1>4, <2>1, <2>6, <3>3, <3>4, Zenon
  <2> QED BY <2>3, <2>4, <2>5, <2>6, Zenon
<1>8. CASE RemoveTarget(t)
  <2>1. /\ pc[t] = "Remove" /\ Goto(t, "Check") /\ left' = [left EXCEPT ![t] = left[t] - 1]
        /\ left[t] \in 1 .. Len(created[t])
    BY <1>1, <1>8, Zenon DEF RemoveTarget, PhaseOf
  <2>2. fs' \in [Paths -> Identities \cup {None}]
    BY <1>3, <1>8, Zenon DEF RemoveTarget
  <2>3. Moved(t, {"Check"})
    BY <1>5, <2>1, Moving, Zenon
  <2>4. left[t] - 1 \in 0 .. Len(created[t])
    BY <1>3, <2>1
  <2> QED BY <1>4, <2>1, <2>2, <2>3, <2>4, Zenon
<1> QED BY <1>6, <1>7, <1>8, Zenon

\* Types and places hold at first.
LEMMA BaseInit == Init => BaseInv
<1> SUFFICES ASSUME Init PROVE BaseInv
  BY Zenon
<1>1. Len(<<>>) = 0 /\ <<>> \in Seq(CreatedTarget)
  OBVIOUS
<1>2. TypeInv
  <2>1. fs \in [Paths -> Identities \cup {None}]
    BY Zenon DEF Init, Identities
  <2> QED BY <1>1, <2>1, Facts, Zenon DEF Init, TypeInv, Places, Codes
<1>3. ASSUME NEW t \in Threads PROVE PhaseOf(t) /\ RemovesOwn(t)
  BY <1>1 DEF Init, PhaseOf, InFiles, RemovesOwn
<1> QED BY <1>2, <1>3, Zenon DEF BaseInv

\* A step of a thread gives what BaseOf states.
LEMMA BaseThread ==
    ASSUME BaseInv, NEW t \in Threads, ThreadNext(t)
    PROVE  BaseOf(t)
BY PlanBase, LookBase, DirectoryBase, OpenBase, FinalizeBase, EndBase, CleanupBase, Zenon DEF ThreadNext

\* Types and places are kept by every step.
LEMMA BaseStep == BaseInv /\ [Next]_vars => BaseInv'
<1> SUFFICES ASSUME BaseInv, [Next]_vars PROVE BaseInv'
  BY Zenon
<1>1. ASSUME NEW t \in Threads, ThreadNext(t) PROVE BaseInv'
  BY <1>1, BaseThread, BaseKept, Zenon
<1>2. ASSUME UNCHANGED <<fs, own, written, marked, pc, policy, root, index, created, left, status>>
      PROVE  BaseInv'
  <2>1. TypeInv'
    BY <1>2, Zenon DEF BaseInv, TypeInv
  <2>2. ASSUME NEW t \in Threads PROVE PhaseOf(t)' /\ RemovesOwn(t)'
    <3>1. /\ LastPath(t)' = LastPath(t) /\ Temp(t)' = Temp(t)
          /\ Target(t, File(t))' = Target(t, File(t))
      BY <1>2, Zenon DEF LastPath, Temp, Target, File
    <3>2. PhaseOf(t)'
      BY <1>2, <2>2, <3>1, Zenon DEF BaseInv, PhaseOf
    <3>3. RemovesOwn(t)'
      BY <1>2, <2>2, Zenon DEF BaseInv, RemovesOwn
    <3> QED BY <3>2, <3>3, Zenon
  <2> QED BY <2>1, <2>2, Zenon DEF BaseInv
<1>3. ProviderGoes \/ UNCHANGED vars =>
         UNCHANGED <<fs, own, written, marked, pc, policy, root, index, created, left, status>>
  BY Zenon DEF ProviderGoes, vars, fileVars, taskVars
<1> QED BY <1>1, <1>2, <1>3, Zenon DEF Next

-----------------------------------------------------------------------------
(* What a step of a thread does to the files. *)

Looks(t) == fs' = fs /\ written' = written /\ strayed' = strayed /\ Removable(t)' = Removable(t)

Makes(t, p, e) ==
    /\ fs[p] = None /\ fs' = [fs EXCEPT ![p] = <<t, e>>]
    /\ written' = written /\ strayed' = strayed /\ Removable(t)' = Removable(t) \cup {p}

Writes(t) ==
    LET i == <<t, File(t)>> IN
    /\ written[i] < Chunks[File(t)] /\ written' = [written EXCEPT ![i] = @ + 1]
    /\ fs' = fs /\ strayed' = strayed /\ Removable(t)' = Removable(t)

Replaces(t) ==
    /\ pc[t] = "Write" /\ LastPath(t) = Temp(t) /\ policy[t] = "Overwrite" /\ Whole(<<t, File(t)>>)
    /\ \A q \in Paths : fs'[q] = IF q = Temp(t) THEN None
                                 ELSE IF q = Target(t, File(t)) THEN <<t, File(t)>> ELSE fs[q]
    /\ written' = written /\ strayed' = strayed /\ Removable(t)' \subseteq Removable(t)

Removes(t, p) ==
    /\ pc[t] = "Remove" /\ p \in Removable(t) /\ fs' = [fs EXCEPT ![p] = None]
    /\ \/ strayed' = strayed /\ (fs[p] = None \/ fs[p][1] = t)
       \/ strayed' = strayed \cup {p}
    /\ written' = written /\ Removable(t)' = Removable(t)

Effect(t) ==
    \/ Looks(t)
    \/ pc[t] \in {"Mkdir", "New", "Temp"} /\ \E p \in Paths, e \in Entries : Makes(t, p, e)
    \/ Writes(t) /\ pc[t] = "Write"
    \/ Replaces(t)
    \/ \E p \in Paths : Removes(t, p)

\* A target that was pushed is removable if it is to be removed.
LEMMA RemovablePushed ==
    ASSUME BaseInv, NEW t \in Threads, NEW p \in Paths, NEW i \in Identities, NEW r \in BOOLEAN,
           created'[t] = Append(created[t], CreatedAs(p, i, r))
    PROVE  Removable(t)' = Removable(t) \cup (IF r THEN {p} ELSE {})
<1> DEFINE c == CreatedAs(p, i, r)
           q == created[t]
<1>1. q \in Seq(CreatedTarget)
  BY Zenon DEF BaseInv, TypeInv
<1>2. c \in CreatedTarget /\ c.path = p /\ c.remove_on_cleanup = r
  BY Zenon DEF CreatedAs, CreatedTarget
<1> HIDE DEF c
<1>3. /\ Len(created'[t]) = Len(q) + 1 /\ Len(q) \in Nat
      /\ created'[t][Len(q) + 1] = c /\ \A k \in 1 .. Len(q) : created'[t][k] = q[k]
  BY <1>1, <1>2, Appended DEF c
<1>4. ASSUME NEW x \in Removable(t)' PROVE x \in Removable(t) \cup (IF r THEN {p} ELSE {})
  <2>1. PICK k \in 1 .. Len(q) + 1 : created'[t][k].remove_on_cleanup /\ x = created'[t][k].path
    BY <1>3, Zenon DEF Removable
  <2>2. CASE k = Len(q) + 1
    BY <1>2, <1>3, <2>1, <2>2, Zenon
  <2>3. CASE k # Len(q) + 1
    <3>1. k \in 1 .. Len(q)
      BY <1>3, <2>3
    <3> QED BY <1>3, <2>1, <3>1, Zenon DEF Removable
  <2> QED BY <2>2, <2>3, Zenon
<1>5. ASSUME NEW x \in Removable(t) PROVE x \in Removable(t)'
  <2>1. PICK k \in 1 .. Len(q) : q[k].remove_on_cleanup /\ x = q[k].path
    BY Zenon DEF Removable
  <2>2. k \in 1 .. Len(created'[t]) /\ created'[t][k] = q[k]
    BY <1>3
  <2> QED BY <2>1, <2>2, Zenon DEF Removable
<1>6. r => p \in Removable(t)'
  <2>1. Len(q) + 1 \in 1 .. Len(created'[t])
    BY <1>3
  <2> QED BY <1>2, <1>3, <2>1, Zenon DEF Removable
<1> QED BY <1>4, <1>5, <1>6, Zenon

\* What is pushed as not to be removed is not.
LEMMA RemovableReplaced ==
    ASSUME BaseInv, NEW t \in Threads, Len(created[t]) \in Nat \ {0},
           Len(created'[t]) = Len(created[t]),
           \A k \in 1 .. Len(created[t]) - 1 : created'[t][k] = created[t][k],
           ~created'[t][Len(created[t])].remove_on_cleanup
    PROVE  Removable(t)' \subseteq Removable(t)
<1> SUFFICES ASSUME NEW x \in Removable(t)' PROVE x \in Removable(t)
  BY Zenon
<1>1. PICK k \in 1 .. Len(created[t]) : created'[t][k].remove_on_cleanup /\ x = created'[t][k].path
  BY Zenon DEF Removable
<1>2. k \in 1 .. Len(created[t]) - 1
  BY <1>1
<1> QED BY <1>1, <1>2, Zenon DEF Removable

\* A thread that goes to make something makes it, or not.
LEMMA MakesOrLooks ==
    ASSUME BaseInv, NEW t \in Threads, pc[t] \in {"Mkdir", "New", "Temp"},
           NEW p \in Paths, NEW e \in Entries, Create(t, p, e) \/ CreateFails(t, p),
           written' = written, strayed' = strayed
    PROVE  Effect(t)
<1>1. CASE CreateFails(t, p)
  BY <1>1, Zenon DEF CreateFails, Effect, Looks, Removable
<1>2. CASE Create(t, p, e)
  <2>1. <<t, e>> \in Identities /\ <<t, e>>[1] = t
    BY Zenon DEF Identities
  <2>2. created'[t] = Append(created[t], CreatedAs(p, <<t, e>>, TRUE))
    BY <1>2, <2>1, Pushing, Zenon DEF Create
  <2>3. Removable(t)' = Removable(t) \cup {p}
    BY <2>1, <2>2, RemovablePushed, Zenon
  <2>4. Makes(t, p, e)
    BY <1>2, <2>3, Zenon DEF Makes, Create
  <2> QED BY <2>4, Zenon DEF Effect
<1> QED BY <1>1, <1>2, Zenon

\* Every step of a thread has one of these effects.
LEMMA Effects ==
    ASSUME BaseInv, NEW t \in Threads, ThreadNext(t)
    PROVE  Effect(t)
<1>1. TypeInv /\ PhaseOf(t)
  BY Zenon DEF BaseInv
<1>2. ASSUME UNCHANGED <<fs, written, strayed, created>> PROVE Effect(t)
  BY <1>2, Zenon DEF Effect, Looks, Removable
<1>3. CASE plan_materialize(t) \/ Error(t) \/ OpenFile(t) \/ apply_directory_metadata(t) \/ Mark(t)
           \/ restore_created_directory_permissions(t) \/ CheckTarget(t)
  BY <1>2, <1>3, Zenon DEF plan_materialize, Error, OpenFile, apply_directory_metadata, Mark,
     restore_created_directory_permissions, CheckTarget, fileVars, taskVars
<1>4. CASE Directory(t)
  <2> DEFINE p == Target(t, DirSeq[index[t]])
  <2>1. UNCHANGED <<fs, written, strayed>>
    BY <1>4, Zenon DEF Directory, fileVars, taskVars
  <2>2. UNCHANGED created \/ (fs[p] # None /\ Push(t, CreatedAs(p, fs[p], FALSE)))
    BY <1>4, Zenon DEF Directory
  <2>3. CASE Push(t, CreatedAs(p, fs[p], FALSE)) /\ fs[p] # None
    <3>1. DirSeq[index[t]] \in Dirs /\ DirSeq[index[t]] \in Entries
      BY <1>1, <1>4, Facts, Zenon DEF Directory, PhaseOf
    <3>2. p \in Paths
      BY <1>1, <3>1, Facts, Zenon DEF TypeInv, Target
    <3>3. fs[p] \in Identities
      BY <1>1, <2>3, <3>2, Zenon DEF TypeInv
    <3>4. created'[t] = Append(created[t], CreatedAs(p, fs[p], FALSE))
      BY <2>3, <3>2, <3>3, Pushing, Zenon
    <3>5. Removable(t)' = Removable(t)
      <4>1. FALSE \in BOOLEAN
        BY Zenon
      <4>2. Removable(t)' = Removable(t) \cup (IF FALSE THEN {p} ELSE {})
        BY <3>2, <3>3, <3>4, <4>1, RemovablePushed, Zenon
      <4> QED BY <4>2, Zenon
    <3> QED BY <2>1, <3>5, Zenon DEF Effect, Looks
  <2> QED BY <1>2, <2>1, <2>2, <2>3, Zenon
<1>5. CASE Mkdir(t)
  <2> DEFINE e == DirSeq[index[t]]
             p == Target(t, e)
  <2>1. pc[t] = "Mkdir" /\ e \in Entries
    BY <1>1, <1>5, Facts, Zenon DEF Mkdir, PhaseOf
  <2>2. p \in Paths
    BY <1>1, <2>1, Facts, Zenon DEF TypeInv, Target
  <2>3. Create(t, p, e) \/ CreateFails(t, p)
    BY <1>5, Zenon DEF Mkdir
  <2>4. written' = written /\ strayed' = strayed
    BY <1>5, Zenon DEF Mkdir, taskVars
  <2> QED BY <2>1, <2>2, <2>3, <2>4, MakesOrLooks, Zenon
<1>6. CASE open_final_materialized_file(t) \/ open_replacement_materialized_file(t)
  <2>1. pc[t] \in {"New", "Temp"}
    BY <1>6, Zenon DEF open_final_materialized_file, open_replacement_materialized_file, OpenAt
  <2>2. File(t) \in Entries
    BY <1>1, <2>1, Facts, Zenon DEF PhaseOf, InFiles, File
  <2>3. Target(t, File(t)) \in Paths /\ Temp(t) \in Paths
    BY <1>1, <2>2, Facts, Zenon DEF TypeInv, Target
  <2>4. \E p \in Paths : Create(t, p, File(t)) \/ CreateFails(t, p)
    BY <1>6, <2>3, Zenon DEF open_final_materialized_file, open_replacement_materialized_file, OpenAt
  <2>5. written' = written /\ strayed' = strayed
    BY <1>6, Zenon DEF open_final_materialized_file, open_replacement_materialized_file, OpenAt, taskVars
  <2> QED BY <2>1, <2>2, <2>4, <2>5, MakesOrLooks, Zenon
<1>7. CASE WriteChunk(t)
  BY <1>7, Zenon DEF WriteChunk, taskVars, Effect, Writes, Removable
<1>8. CASE finalize_materialized_file(t)
  <2> DEFINE p == Target(t, File(t))
  <2>1. /\ pc[t] = "Write" /\ created[t] # <<>> /\ Whole(<<t, File(t)>>)
        /\ UNCHANGED <<written, strayed>>
    BY <1>1, <1>8, Zenon DEF finalize_materialized_file, PhaseOf, Whole, taskVars
  <2>2. File(t) \in Files /\ File(t) \in Entries
    BY <1>1, <2>1, Facts, Zenon DEF PhaseOf, InFiles, File
  <2>3. p \in Paths
    BY <1>1, <2>2, Facts, Zenon DEF TypeInv, Target
  <2>4. UNCHANGED <<fs, created>> \/ (LastPath(t) = Temp(t) /\ Replace(t, p))
    BY <1>8, Zenon DEF finalize_materialized_file, LastPath, Current
  <2>5. CASE LastPath(t) = Temp(t) /\ Replace(t, p)
    <3>1. /\ \A q \in Paths : fs'[q] = IF q = Temp(t) THEN None
                                       ELSE IF q = p THEN <<t, File(t)>> ELSE fs[q]
          /\ Len(created[t]) \in Nat \ {0} /\ Len(created'[t]) = Len(created[t])
          /\ \A k \in 1 .. Len(created[t]) - 1 : created'[t][k] = created[t][k]
          /\ ~created'[t][Len(created[t])].remove_on_cleanup
      BY <2>1, <2>2, <2>3, <2>5, Replacing, Zenon
    <3>2. Removable(t)' \subseteq Removable(t)
      BY <3>1, RemovableReplaced, Zenon
    <3>3. Temp(t) # p
      BY <1>1, <2>2, Facts, Zenon DEF TypeInv, Target
    <3>4. policy[t] = "Overwrite"
      BY <1>1, <2>1, <2>5, <3>3, Zenon DEF PhaseOf
    <3> QED BY <2>1, <2>5, <3>1, <3>2, <3>4, Zenon DEF Effect, Replaces
  <2> QED BY <1>2, <2>1, <2>4, <2>5, Zenon
<1>9. CASE RemoveTarget(t)
  <2> DEFINE c == created[t][left[t]]
             p == c.path
  <2>1. /\ pc[t] = "Remove" /\ left[t] \in 1 .. Len(created[t]) /\ c.remove_on_cleanup
        /\ UNCHANGED <<written, created>>
    BY <1>1, <1>9, Zenon DEF RemoveTarget, PhaseOf
  <2>2. c \in CreatedTarget
    BY <1>1, <2>1 DEF TypeInv
  <2>3. p \in Paths /\ c.identity \in Identities /\ c.identity[1] = t
    BY <2>1, <2>2, Zenon DEF CreatedTarget, BaseInv, RemovesOwn
  <2>4. p \in Removable(t) /\ Removable(t)' = Removable(t)
    BY <2>1, Zenon DEF Removable
  <2>5. \/ UNCHANGED <<fs, strayed>>
        \/ /\ fs' = [fs EXCEPT ![p] = None]
           /\ strayed' = IF fs[p] \notin {None, c.identity} THEN strayed \cup {p} ELSE strayed
    BY <1>9, Zenon DEF RemoveTarget
  <2>6. UNCHANGED <<fs, strayed>> => Effect(t)
    BY <2>1, <2>4, Zenon DEF Effect, Looks
  <2>7. ASSUME fs' = [fs EXCEPT ![p] = None],
               strayed' = IF fs[p] \notin {None, c.identity} THEN strayed \cup {p} ELSE strayed
        PROVE  Removes(t, p)
    BY <2>1, <2>3, <2>4, <2>7, Zenon DEF Removes
  <2> QED BY <2>3, <2>5, <2>6, <2>7, Zenon DEF Effect
<1> QED BY <1>3, <1>4, <1>5, <1>6, <1>7, <1>8, <1>9, Zenon DEF ThreadNext

-----------------------------------------------------------------------------
(* What the user had. *)

\* A step of one thread leaves alone what another would remove.
LEMMA OthersRemovable ==
    ASSUME NEW t \in Threads, Keeps(t), NEW u \in Threads \ {t}
    PROVE  Removable(u)' = Removable(u)
BY DEF Keeps, Removable

\* A complete file stays complete: nobody writes past the end.
LEMMA StaysWhole ==
    ASSUME BaseInv, NEW t \in Threads, Effect(t), NEW v \in Threads, NEW e \in Files, Whole(<<v, e>>)
    PROVE  Whole(<<v, e>>)'
<1>1. CASE written' = written
  BY <1>1, Zenon DEF Whole
<1>2. CASE Writes(t) /\ pc[t] = "Write"
  <2>1. <<v, e>> # <<t, File(t)>>
    <3>1. written[<<t, File(t)>>] < Chunks[File(t)] /\ File(t) \in Files
      BY <1>2, Facts, Zenon DEF Writes, BaseInv, PhaseOf, InFiles, File
    <3>2. written[<<t, File(t)>>] \in Nat
      BY <3>1, Zenon DEF BaseInv, TypeInv
    <3>3. Chunks[File(t)] \in Nat /\ <<t, File(t)>>[2] = File(t)
      BY <3>1, TreeAssumptions, Zenon
    <3>4. ~Whole(<<t, File(t)>>)
      BY <3>1, <3>2, <3>3 DEF Whole
    <3> QED BY <3>4, Zenon
  <2>2. written'[<<v, e>>] = written[<<v, e>>]
    BY <1>2, <2>1, Zenon DEF Writes, BaseInv, TypeInv
  <2> QED BY <2>2, Zenon DEF Whole
<1> QED BY <1>1, <1>2, Zenon DEF Effect, Looks, Makes, Replaces, Removes

\* At first what the user had is there.
LEMMA UserInit == Init => UserInv
<1> SUFFICES ASSUME Init PROVE UserInv
  BY Zenon
<1>1. ASSUME NEW e \in own PROVE fs[<<0, e>>] = <<User, e>>
  <2>1. <<0, e>> \in Paths
    BY Facts, Zenon DEF Init
  <2> QED BY <2>1, Zenon DEF Init
<1>2. ASSUME NEW t \in Threads PROVE Removable(t) = {}
  BY DEF Init, Removable
<1> QED BY <1>1, <1>2, Zenon DEF UserInv

\* The step of a thread leaves the user a file, the one that was there or a
\* complete one of a thread that overwrites.
LEMMA UserThread ==
    ASSUME BaseInv, UserInv, NEW t \in Threads, Effect(t), Keeps(t)
    PROVE  UserInv'
<1>1. own' = own /\ policy' = policy /\ own \subseteq Entries /\ TypeInv
  BY Zenon DEF Keeps, BaseInv, TypeInv
<1>2. ASSUME NEW e \in own PROVE <<0, e>> \in Paths /\ fs[<<0, e>>] # None /\ <<0, e>> # Temp(t)
  <2>1. <<0, e>> \in Paths /\ <<0, e>> # Temp(t)
    BY <1>1, Facts, Zenon
  <2>2. fs[<<0, e>>] \in Identities
    <3>1. e \in Entries
      BY <1>1, Zenon
    <3>2. \A v \in Threads \cup {User} : <<v, e>> \in Identities
      BY <3>1, Zenon DEF Identities
    <3> QED BY <3>2, Zenon DEF UserInv
  <2> QED BY <2>1, <2>2, Facts, Zenon
<1>3. ASSUME NEW e \in own, fs'[<<0, e>>] = fs[<<0, e>>]
      PROVE  \/ fs'[<<0, e>>] = <<User, e>>
             \/ /\ e \in Files
                /\ \E v \in Threads : /\ fs'[<<0, e>>] = <<v, e>> /\ Whole(<<v, e>>)'
                                      /\ policy'[v] = "Overwrite"
  BY <1>1, <1>3, StaysWhole, Zenon DEF UserInv
<1>4. ASSUME \A e \in own : fs'[<<0, e>>] = fs[<<0, e>>],
             Removable(t)' \cap UserPaths = {}
      PROVE  UserInv'
  <2>1. ASSUME NEW u \in Threads PROVE (Removable(u) \cap UserPaths)' = {}
    BY <1>1, <1>4, OthersRemovable, Zenon DEF UserInv, UserPaths
  <2> QED BY <1>1, <1>3, <1>4, <2>1, Zenon DEF UserInv
<1>5. CASE Looks(t) \/ Writes(t)
  BY <1>4, <1>5, Zenon DEF Looks, Writes, UserInv
<1>6. CASE \E p \in Paths, e \in Entries : Makes(t, p, e)
  <2>1. PICK p \in Paths, e \in Entries : Makes(t, p, e)
    BY <1>6, Zenon
  <2>2. p \notin UserPaths
    BY <1>2, <2>1, Zenon DEF Makes, UserPaths
  <2>3. \A f \in own : fs'[<<0, f>>] = fs[<<0, f>>]
    BY <1>1, <1>2, <2>1, <2>2, Zenon DEF Makes, UserPaths, TypeInv
  <2>4. Removable(t)' \cap UserPaths = {}
    BY <2>1, <2>2, Zenon DEF Makes, UserInv
  <2> QED BY <1>4, <2>3, <2>4, Zenon
<1>7. CASE \E p \in Paths : Removes(t, p)
  <2>1. PICK p \in Paths : Removes(t, p)
    BY <1>7, Zenon
  <2>2. p \notin UserPaths
    BY <2>1, Zenon DEF Removes, UserInv
  <2>3. \A f \in own : fs'[<<0, f>>] = fs[<<0, f>>]
    BY <1>1, <1>2, <2>1, <2>2, Zenon DEF Removes, UserPaths, TypeInv
  <2>4. Removable(t)' \cap UserPaths = {}
    BY <2>1, Zenon DEF Removes, UserInv
  <2> QED BY <1>4, <2>3, <2>4, Zenon
<1>8. CASE Replaces(t)
  <2>1. File(t) \in Files
    BY <1>8, Facts, Zenon DEF Replaces, BaseInv, PhaseOf, InFiles, File
  <2>2. ASSUME NEW e \in own, fs'[<<0, e>>] # fs[<<0, e>>]
        PROVE  /\ e \in Files
               /\ \E v \in Threads : /\ fs'[<<0, e>>] = <<v, e>> /\ Whole(<<v, e>>)'
                                     /\ policy'[v] = "Overwrite"
    <3>1. <<0, e>> = Target(t, File(t)) /\ fs'[<<0, e>>] = <<t, File(t)>>
      BY <1>2, <1>8, <2>2, Zenon DEF Replaces
    <3>2. e = File(t)
      BY <3>1, Zenon DEF Target
    <3> QED BY <1>1, <1>8, <2>1, <3>1, <3>2, StaysWhole, Zenon DEF Replaces
  <2>3. \A u \in Threads : (Removable(u) \cap UserPaths)' = {}
    BY <1>1, <1>8, OthersRemovable, Zenon DEF Replaces, UserInv, UserPaths
  <2> QED BY <1>1, <1>3, <2>2, <2>3, Zenon DEF UserInv
<1> QED BY <1>5, <1>6, <1>7, <1>8, Zenon DEF Effect

\* So does every step.
LEMMA UserStep == BaseInv /\ UserInv /\ [Next]_vars => UserInv'
<1> SUFFICES ASSUME BaseInv, UserInv, [Next]_vars PROVE UserInv'
  BY Zenon
<1>1. ASSUME NEW t \in Threads, ThreadNext(t) PROVE UserInv'
  <2>1. Effect(t) /\ Keeps(t)
    BY <1>1, Effects, BaseThread, Zenon DEF BaseOf
  <2> QED BY <2>1, UserThread, Zenon
<1>2. ProviderGoes \/ UNCHANGED vars => UNCHANGED <<fs, own, written, policy, created>>
  BY Zenon DEF ProviderGoes, vars, fileVars, taskVars
<1>3. ASSUME UNCHANGED <<fs, own, written, policy, created>> PROVE UserInv'
  <2>1. UserPaths' = UserPaths /\ \A t \in Threads : Removable(t)' = Removable(t)
    BY <1>3, Zenon DEF UserPaths, Removable
  <2>2. \A i : Whole(i)' = Whole(i)
    BY <1>3, Zenon DEF Whole
  <2> QED BY <1>3, <2>1, <2>2, Zenon DEF UserInv
<1> QED BY <1>1, <1>2, <1>3, Zenon DEF Next

\* What the user had before is safe, for every tree, however many threads
\* materialize it at once, under every policy and whatever fails: it is there, or it
\* is a file that a complete one has replaced (finalize_materialized_file).
THEOREM UserDataTheorem == Spec => []UserDataIsSafe
<1>1. Init => BaseInv /\ UserInv
  BY BaseInit, UserInit, Zenon
<1>2. (BaseInv /\ UserInv) /\ [Next]_vars => (BaseInv /\ UserInv)'
  BY BaseStep, UserStep, Zenon
<1>3. BaseInv /\ UserInv => UserDataIsSafe
  <2> SUFFICES ASSUME BaseInv, UserInv, NEW e \in own, fs[<<0, e>>] # <<User, e>>
               PROVE  /\ e \in Files /\ fs[<<0, e>>] # None /\ Whole(fs[<<0, e>>])
                      /\ policy[fs[<<0, e>>][1]] = "Overwrite"
    BY Zenon DEF UserDataIsSafe
  <2>1. e \in Files /\ e \in Entries
    BY Zenon DEF UserInv, BaseInv, TypeInv
  <2>2. PICK t \in Threads : fs[<<0, e>>] = <<t, e>> /\ Whole(<<t, e>>) /\ policy[t] = "Overwrite"
    BY Zenon DEF UserInv
  <2>3. <<t, e>> # None /\ <<t, e>>[1] = t
    BY <2>1, Facts DEF Identities
  <2> QED BY <2>1, <2>2, <2>3, Zenon
<1> QED BY <1>1, <1>2, <1>3, PTL DEF Spec

-----------------------------------------------------------------------------
(* What is marked. *)

\* A thread that is done takes no step.
LEMMA NotDone ==
    ASSUME NEW t \in Threads, ThreadNext(t)
    PROVE  pc[t] # "Done"
BY Zenon DEF ThreadNext, plan_materialize, Error, Directory, Mkdir, OpenFile, open_final_materialized_file,
   open_replacement_materialized_file, OpenAt, WriteChunk, finalize_materialized_file,
   apply_directory_metadata, Mark, restore_created_directory_permissions, CheckTarget, RemoveTarget

\* A complete file that cleanups spare stays, or another takes its place; a file that
\* its own thread is not about to remove stays too, or a complete one takes its place.
LEMMA KeptStep ==
    ASSUME BaseInv, NEW t \in Threads, MarkedOf(t), Effect(t), Keeps(t), pc[t] # "Done",
           NEW r \in Roots, NEW e \in Files
    PROVE  /\ Kept(<<r, e>>) => Kept(<<r, e>>)'
           /\ \A u \in Threads : (fs[<<r, e>>] = <<u, e>> /\ (u = t => pc[t] # "Remove")) =>
                 Kept(<<r, e>>)' \/ fs'[<<r, e>>] = <<u, e>>
<1> DEFINE p == <<r, e>>
<1>1. /\ p \in Paths /\ p # Temp(t) /\ p[2] = e /\ e \in Entries /\ TypeInv
      /\ \A v \in Threads : <<v, e>> # None /\ <<v, e>>[1] = v
  BY Facts DEF BaseInv, Identities
<1>2. status[t] # "Ok" /\ \A v \in Threads \ {t} : status'[v] = status[v]
  BY Zenon DEF BaseInv, PhaseOf, Keeps
<1>3. strayed \subseteq strayed'
  BY Zenon DEF Effect, Looks, Makes, Writes, Replaces, Removes
<1>4. ASSUME NEW v \in Threads, fs[p] = <<v, e>>, p \notin Removable(v) PROVE p \notin Removable(v)'
  <2>1. CASE v # t
    BY <1>4, <2>1, OthersRemovable, Zenon
  <2>2. CASE v = t
    BY <1>1, <1>4, <2>2, Zenon DEF Effect, Looks, Makes, Writes, Replaces, Removes
  <2> QED BY <2>1, <2>2, Zenon
<1>5. ASSUME Replaces(t), p = Target(t, File(t)) PROVE Good(p)'
  <2>1. e = File(t) /\ index[t] \in 1 .. Len(FileSeq)
    BY <1>5, Zenon DEF Target, Replaces, BaseInv, PhaseOf, InFiles
  <2>2. e \in Ahead(t)
    <3>1. pc[t] = "Write" /\ LastPath(t) = Temp(t) /\ index[t] >= index[t]
      BY <1>5, <2>1 DEF Replaces
    <3> QED BY <2>1, <3>1, Zenon DEF Ahead, InFiles, File
  <2>3. p \notin Removable(t)'
    BY <1>5, <2>1, <2>2, Zenon DEF MarkedOf, Replaces
  <2>4. fs'[p] = <<t, e>> /\ Whole(<<t, e>>)'
    BY <1>1, <1>5, <2>1, StaysWhole, Zenon DEF Replaces
  <2> QED BY <1>1, <2>3, <2>4, Zenon DEF Good
<1>6. ASSUME NEW v \in Threads, fs[p] = <<v, e>>, fs'[p] # fs[p]
      PROVE  \/ Good(p)'
             \/ p \in strayed'
             \/ v = t /\ pc[t] = "Remove" /\ p \in Removable(t)
  <2>1. CASE Looks(t) \/ Writes(t)
    BY <1>6, <2>1, Zenon DEF Looks, Writes
  <2>2. CASE \E q \in Paths, f \in Entries : Makes(t, q, f)
    BY <1>1, <1>6, <2>2, Zenon DEF Makes, TypeInv
  <2>3. CASE Replaces(t)
    BY <1>1, <1>5, <1>6, <2>3, Zenon DEF Replaces
  <2>4. CASE \E q \in Paths : Removes(t, q)
    <3>1. PICK q \in Paths : Removes(t, q)
      BY <2>4, Zenon
    <3>2. q = p
      BY <1>1, <1>6, <3>1, Zenon DEF Removes, TypeInv
    <3> QED BY <1>1, <1>6, <3>1, <3>2, Zenon DEF Removes
  <2> QED BY <2>1, <2>2, <2>3, <2>4, Zenon DEF Effect
<1>7. ASSUME Good(p) PROVE Kept(p)'
  <2>1. PICK v \in Threads : /\ fs[p] = <<v, e>> /\ Whole(<<v, e>>)
                             /\ status[v] = "Ok" \/ p \notin Removable(v)
    BY <1>1, <1>7, Zenon DEF Good
  <2>2. status'[v] = "Ok" \/ p \notin Removable(v)'
    BY <1>2, <1>4, <2>1, Zenon
  <2>3. CASE fs'[p] = fs[p]
    BY <1>1, <2>1, <2>2, <2>3, StaysWhole, Zenon DEF Kept, Good
  <2>4. CASE fs'[p] # fs[p]
    BY <1>2, <1>6, <2>1, <2>4, Zenon DEF Kept
  <2> QED BY <2>3, <2>4, Zenon
<1>8. ASSUME NEW u \in Threads, fs[p] = <<u, e>>, u = t => pc[t] # "Remove"
      PROVE  Kept(p)' \/ fs'[p] = <<u, e>>
  BY <1>6, <1>8, Zenon DEF Kept
<1>9. Kept(p) => Kept(p)'
  BY <1>3, <1>7, Zenon DEF Kept
<1> QED BY <1>8, <1>9, Zenon

\* The invariant of one thread, in terms of its root and its file.
LEMMA Regained ==
    ASSUME NEW u \in Threads, NEW r, r = root'[u], NEW f, f = FileSeq[index'[u]],
           \A e \in Ahead(u)' : <<r, e>> \notin Removable(u)',
           \A e \in Finished(u)' :
              Kept(<<r, e>>)' \/ (fs'[<<r, e>>] = <<u, e>> /\ Whole(<<u, e>>)'),
           (pc'[u] = "Write" /\ LastPath(u)' # Temp(u)) =>
              Kept(<<r, f>>)' \/ fs'[<<r, f>>] = <<u, f>>
    PROVE  MarkedOf(u)'
<1>1. ASSUME NEW e PROVE Kept(<<r, e>>)' <=> Kept(Target(u, e))'
  BY Zenon DEF Kept, Good, Target, Whole
<1>2. Kept(<<r, f>>)' <=> Kept(Target(u, File(u)))'
  BY Zenon DEF Kept, Good, Target, Whole, File
<1> QED BY <1>1, <1>2, Zenon DEF MarkedOf, Target, File, Temp

\* Where a thread is after Goto, Fail and Report.
LEMMA Landing ==
    ASSUME TypeInv, NEW t \in Threads, NEW x
    PROVE  /\ Goto(t, x) => pc'[t] = x
           /\ \A c : Fail(t, c) => pc'[t] = "Restore"
           /\ Report(t, x) => pc'[t] \in {x, "Restore"}
BY Zenon DEF TypeInv, Goto, Fail, Report

\* The others keep what the invariant says of them.
LEMMA OthersMarked ==
    ASSUME BaseInv, MarkedInv, NEW t \in Threads, Effect(t), Keeps(t), pc[t] # "Done",
           NEW u \in Threads \ {t}
    PROVE  MarkedOf(u)'
<1>1. /\ pc'[u] = pc[u] /\ index'[u] = index[u] /\ root'[u] = root[u] /\ created'[u] = created[u]
      /\ root[u] \in Roots /\ PhaseOf(u) /\ MarkedOf(u) /\ MarkedOf(t)
  BY Zenon DEF Keeps, BaseInv, TypeInv, MarkedInv
<1>2. /\ LastPath(u)' = LastPath(u) /\ Temp(u)' = Temp(u) /\ Removable(u)' = Removable(u)
  BY <1>1, Zenon DEF LastPath, Temp, Removable
<1>3. Ahead(u)' = Ahead(u) /\ Finished(u)' = Finished(u)
  BY <1>1, <1>2, Zenon DEF Ahead, Finished
<1>4. Ahead(u) \subseteq Files /\ Finished(u) \subseteq Files
  <2>1. pc[u] \in InFiles => index[u] \in 1 .. Len(FileSeq)
    BY <1>1, Zenon DEF PhaseOf
  <2> QED BY <2>1, Facts DEF Ahead, Finished
<1> DEFINE r == root[u]
           f == FileSeq[index[u]]
<1>5. \A e \in Ahead(u) : <<r, e>> \notin Removable(u)'
  BY <1>1, <1>2, Zenon DEF MarkedOf, Target
<1>6. ASSUME NEW e \in Finished(u)
      PROVE  Kept(<<r, e>>)' \/ (fs'[<<r, e>>] = <<u, e>> /\ Whole(<<u, e>>)')
  <2>1. e \in Files
    BY <1>4, Zenon
  <2>2. Kept(<<r, e>>) \/ (fs[<<r, e>>] = <<u, e>> /\ Whole(<<u, e>>))
    BY <1>1, Zenon DEF MarkedOf, Target
  <2> QED BY <1>1, <2>1, <2>2, KeptStep, StaysWhole, Zenon
<1>7. ASSUME pc[u] = "Write", LastPath(u) # Temp(u)
      PROVE  Kept(<<r, f>>)' \/ fs'[<<r, f>>] = <<u, f>>
  <2>1. f \in Files
    BY <1>1, <1>7, Facts, Zenon DEF PhaseOf, InFiles
  <2>2. Kept(<<r, f>>) \/ fs[<<r, f>>] = <<u, f>>
    BY <1>1, <1>7, Zenon DEF MarkedOf, Target, File
  <2> QED BY <1>1, <2>1, <2>2, KeptStep
<1> HIDE DEF r, f
<1> QED BY <1>1, <1>2, <1>3, <1>5, <1>6, <1>7, Regained, Zenon DEF r, f

\* Nothing is said of a thread that has failed, or is done.
LEMMA OutMarked ==
    ASSUME NEW t \in Threads, pc'[t] \in {"Restore", "Check", "Remove", "Done"}
    PROVE  MarkedOf(t)'
BY Zenon DEF MarkedOf, Ahead, Finished, InFiles

\* The thread before the files: it has made directories at most.
LEMMA EarlyMarked ==
    ASSUME BaseInv, MarkedInv, NEW t \in Threads, ThreadNext(t),
           plan_materialize(t) \/ Directory(t) \/ Mkdir(t)
    PROVE  MarkedOf(t)'
<1>1. TypeInv /\ PhaseOf(t) /\ MarkedOf(t) /\ TypeInv' /\ PhaseOf(t)' /\ pc'[t] \in Places
  BY BaseThread, Zenon DEF BaseInv, MarkedInv, BaseOf, TypeInv
<1>2. /\ \/ pc'[t] \in {"Mkdir", "Directory", "Restore", "Done"}
         \/ pc'[t] = FirstFiles /\ index'[t] = 1
         \/ pc'[t] = FirstDirs /\ index'[t] = 1
  <2>1. CASE plan_materialize(t)
    <3>1. pc[t] = "Idle" /\ index'[t] = index[t] /\ index[t] = 1
      BY <1>1, <2>1, Zenon DEF plan_materialize, PhaseOf
    <3>2. \A c : Refuse(t, c) => pc'[t] = "Done"
      BY <1>1, Zenon DEF Refuse, TypeInv
    <3>3. pc'[t] = "Done" \/ Report(t, FirstDirs)
      BY <2>1, <3>2, Zenon DEF plan_materialize
    <3> QED BY <1>1, <3>1, <3>3, Landing, Zenon
  <2>2. ASSUME Advance(t, DirSeq, "Directory", FirstFiles)
        PROVE  \/ pc'[t] \in {"Directory", "Restore"}
               \/ pc'[t] = FirstFiles /\ index'[t] = 1
    <3>1. \/ Report(t, "Directory")
          \/ Report(t, FirstFiles) /\ index'[t] = 1
      BY <1>1, <2>2, Zenon DEF Advance, TypeInv
    <3> QED BY <1>1, <3>1, Landing, Zenon
  <2>3. CASE Directory(t)
    <3>1. \/ Goto(t, "Mkdir") \/ Fail(t, "AlreadyExists")
          \/ Advance(t, DirSeq, "Directory", FirstFiles)
      BY <2>3, Zenon DEF Directory
    <3> QED BY <1>1, <2>2, <3>1, Landing, Zenon
  <2>4. CASE Mkdir(t)
    <3>1. \/ Fail(t, "AlreadyExists") \/ Fail(t, "Permission or NotFound")
          \/ Advance(t, DirSeq, "Directory", FirstFiles)
      BY <2>4, Zenon DEF Mkdir, CreateFails
    <3> QED BY <1>1, <2>2, <3>1, Landing, Zenon
  <2> QED BY <2>1, <2>3, <2>4, Zenon
<1>3. Ahead(t)' \subseteq Files /\ Finished(t)' = {} /\ pc'[t] # "Write"
  <2>1. pc'[t] \in {"Mkdir", "Directory", "Restore", "Done", "Metadata", "File"}
    BY <1>2, Firsts, Zenon
  <2>2. pc'[t] = "File" => index'[t] = 1 /\ 1 .. index'[t] - 1 = {}
    BY <1>2
  <2>3. pc'[t] = "Metadata" => Files = {}
    <3>1. pc'[t] = "Metadata" => FileSeq = <<>>
      BY <1>2, Firsts, Zenon DEF FirstFiles
    <3> QED BY <3>1, Facts
  <2> QED BY <2>1, <2>2, <2>3, Facts DEF Ahead, Finished, InFiles
<1>4. ASSUME NEW e \in Files PROVE <<root'[t], e>> \notin Removable(t)'
  <2>1. CASE plan_materialize(t)
    <3>1. created'[t] = <<>>
      BY <1>1, <2>1, Zenon DEF plan_materialize, PhaseOf
    <3> QED BY <3>1 DEF Removable
  <2>2. CASE Directory(t) \/ Mkdir(t)
    <3>1. root'[t] = root[t] /\ pc[t] \in {"Directory", "Mkdir"} /\ root[t] \in Roots
      BY <1>1, <2>2, Zenon DEF Directory, Mkdir, taskVars, TypeInv
    <3>2. <<root[t], e>> \notin Removable(t)
      BY <1>1, <3>1, Zenon DEF MarkedOf, Ahead, Target
    <3>3. index[t] \in 1 .. Len(DirSeq)
      BY <1>1, <3>1, Zenon DEF PhaseOf
    <3> DEFINE d == DirSeq[index[t]]
               p == Target(t, d)
    <3>4. d \in Dirs /\ d \in Entries /\ p # <<root[t], e>>
      BY <3>3, Facts DEF Target
    <3>5. p \in Paths
      BY <3>1, <3>4, Facts, Zenon DEF Target
    <3>6. \/ UNCHANGED created
          \/ fs[p] # None /\ Push(t, CreatedAs(p, fs[p], FALSE))
          \/ Push(t, CreatedAs(p, <<t, d>>, TRUE))
      BY <2>2, Zenon DEF Directory, Mkdir, Create, CreateFails
    <3>7. ASSUME NEW i \in Identities, NEW b \in BOOLEAN, b => i[1] = t, Push(t, CreatedAs(p, i, b))
          PROVE  Removable(t)' \subseteq Removable(t) \cup {p}
      <4>1. created'[t] = Append(created[t], CreatedAs(p, i, b))
        BY <3>5, <3>7, Pushing, Zenon
      <4>2. Removable(t)' = Removable(t) \cup (IF b THEN {p} ELSE {})
        BY <3>5, <4>1, RemovablePushed
      <4> QED BY <4>2, Zenon
    <3>8. fs[p] # None => fs[p] \in Identities
      BY <1>1, <3>5, Zenon DEF TypeInv
    <3>9. <<t, d>> \in Identities /\ <<t, d>>[1] = t
      BY <3>4, Zenon DEF Identities
    <3>10. UNCHANGED created => Removable(t)' = Removable(t)
      BY Zenon DEF Removable
    <3>11. Removable(t)' \subseteq Removable(t) \cup {p}
      BY <3>6, <3>7, <3>8, <3>9, <3>10, Zenon
    <3> QED BY <3>1, <3>2, <3>4, <3>11, Zenon
  <2> QED BY <2>1, <2>2, Zenon
<1> DEFINE r == root'[t]
           f == FileSeq[index'[t]]
<1>5. \A e \in Ahead(t)' : <<r, e>> \notin Removable(t)'
  BY <1>3, <1>4, Zenon
<1> HIDE DEF r, f
<1> QED BY <1>3, <1>5, Regained, Zenon DEF r, f

\* The thread in the loop over the files, and after it.
LEMMA FileMarked ==
    ASSUME BaseInv, MarkedInv, NEW t \in Threads, ThreadNext(t),
           NEW r, r = root[t], NEW f, f = File(t),
           OpenFile(t) \/ open_final_materialized_file(t) \/ open_replacement_materialized_file(t)
              \/ WriteChunk(t) \/ finalize_materialized_file(t) \/ apply_directory_metadata(t)
    PROVE  MarkedOf(t)'
<1> DEFINE p == <<r, f>>
           Holds(e) == Kept(<<r, e>>)' \/ (fs'[<<r, e>>] = <<t, e>> /\ Whole(<<t, e>>)')
<1>1. /\ TypeInv /\ PhaseOf(t) /\ MarkedOf(t) /\ Effect(t) /\ Keeps(t) /\ pc[t] # "Done" /\ TypeInv'
      /\ r \in Roots
  BY BaseThread, Effects, NotDone, Zenon DEF BaseInv, MarkedInv, BaseOf, TypeInv
<1>2. pc[t] \in InFiles \cup {"Metadata"} /\ root'[t] = root[t]
  BY Zenon DEF OpenFile, open_final_materialized_file, open_replacement_materialized_file, OpenAt,
     WriteChunk, finalize_materialized_file, apply_directory_metadata, taskVars, InFiles
<1>3. pc[t] # "Remove"
  BY <1>2, Zenon DEF InFiles
<1>4. pc[t] \in InFiles => index[t] \in 1 .. Len(FileSeq) /\ f \in Files /\ f \in Entries
  BY <1>1, Facts, Zenon DEF PhaseOf, File
<1>5. Ahead(t) \subseteq Files /\ Finished(t) \subseteq Files
  <2>1. ASSUME NEW n \in 1 .. Len(FileSeq), NEW j \in 1 .. n - 1 PROVE j \in 1 .. Len(FileSeq)
    BY Facts
  <2>2. ASSUME pc[t] \in InFiles, NEW j \in 1 .. index[t] - 1 PROVE FileSeq[j] \in Files
    BY <1>4, <2>1, <2>2, Facts, Zenon
  <2>3. Finished(t) \subseteq Files
    BY <2>2, Zenon DEF Finished
  <2>4. Ahead(t) \subseteq Files
    BY Facts DEF Ahead
  <2> QED BY <2>3, <2>4, Zenon
<1>6. \A e \in Ahead(t) : <<r, e>> \notin Removable(t)
  BY <1>1, Zenon DEF MarkedOf, Target
<1>7. ASSUME NEW e \in Finished(t) PROVE Holds(e)
  <2>1. e \in Files
    BY <1>5, Zenon
  <2>2. Kept(<<r, e>>) \/ (fs[<<r, e>>] = <<t, e>> /\ Whole(<<t, e>>))
    BY <1>1, Zenon DEF MarkedOf, Target
  <2> QED BY <1>1, <1>3, <2>1, <2>2, KeptStep, StaysWhole, Zenon
<1>8. ASSUME pc[t] = "Write", LastPath(t) # Temp(t)
      PROVE  Kept(p)' \/ fs'[p] = <<t, f>>
  <2>1. f \in Files
    BY <1>4, <1>8, Zenon DEF InFiles
  <2>2. Kept(p) \/ fs[p] = <<t, f>>
    BY <1>1, <1>8, Zenon DEF MarkedOf, Target
  <2> QED BY <1>1, <1>3, <2>1, <2>2, KeptStep, Zenon
<1>9. ASSUME \A e \in Ahead(t)' : <<r, e>> \notin Removable(t)', \A e \in Finished(t)' : Holds(e),
             (pc'[t] = "Write" /\ LastPath(t)' # Temp(t)) =>
                index'[t] = index[t] /\ (Kept(p)' \/ fs'[p] = <<t, f>>)
      PROVE  MarkedOf(t)'
  <2>1. ASSUME NEW g, g = FileSeq[index'[t]]
        PROVE  (pc'[t] = "Write" /\ LastPath(t)' # Temp(t)) => Kept(<<r, g>>)' \/ fs'[<<r, g>>] = <<t, g>>
    <3>1. index'[t] = index[t] => g = f
      BY <2>1, Zenon DEF File
    <3> QED BY <1>9, <3>1, Zenon
  <2>2. r = root'[t]
    BY <1>2, Zenon
  <2> QED BY <1>9, <2>1, <2>2, Regained, Zenon
<1>10. CASE OpenFile(t)
  <2>1. /\ pc[t] = "File" /\ pc'[t] \in {"New", "Temp", "Restore"} /\ index'[t] = index[t]
        /\ UNCHANGED created
    BY <1>1, <1>10, Landing, Zenon DEF OpenFile
  <2>2. Ahead(t)' \subseteq Ahead(t) /\ Finished(t)' \subseteq Finished(t)
    BY <2>1, Zenon DEF Ahead, Finished, InFiles
  <2>3. Removable(t)' = Removable(t)
    BY <2>1, Zenon DEF Removable
  <2> QED BY <1>6, <1>7, <1>9, <2>1, <2>2, <2>3, Zenon
<1>11. CASE open_final_materialized_file(t) \/ open_replacement_materialized_file(t)
  <2>1. PICK q : /\ OpenAt(t, pc[t], q)
                 /\ (q = p /\ pc[t] = "New") \/ (q = Temp(t) /\ pc[t] = "Temp")
    BY <1>11, Zenon DEF open_final_materialized_file, open_replacement_materialized_file, OpenAt, Target
  <2>2. CASE CreateFails(t, q)
    <3>1. pc'[t] = "Restore"
      BY <1>1, <2>2, Landing, Zenon DEF CreateFails
    <3> QED BY <3>1, OutMarked, Zenon
  <2>3. CASE Create(t, q, f) /\ Goto(t, "Write") /\ UNCHANGED index
    <3>1. /\ index[t] \in 1 .. Len(FileSeq) /\ f \in Files /\ f \in Entries /\ q \in Paths
          /\ p \in Paths /\ p # Temp(t) /\ pc'[t] = "Write" /\ index'[t] = index[t]
      BY <1>1, <1>4, <2>1, <2>3, Facts, Landing DEF InFiles
    <3>2. <<t, f>> \in Identities /\ <<t, f>>[1] = t
      BY <3>1, Zenon DEF Identities
    <3>3. /\ LastPath(t)' = q /\ created'[t] = Append(created[t], CreatedAs(q, <<t, f>>, TRUE))
      BY <2>3, <3>1, <3>2, Pushing, Zenon DEF Create
    <3>4. Removable(t)' = Removable(t) \cup {q}
      <4>1. ASSUME NEW i \in Identities, NEW b \in BOOLEAN,
                   created'[t] = Append(created[t], CreatedAs(q, i, b))
            PROVE  Removable(t)' = Removable(t) \cup (IF b THEN {q} ELSE {})
        <5>1. q \in Paths
          BY <3>1, Zenon
        <5> QED BY <4>1, <5>1, RemovablePushed
      <4>2. created'[t] = Append(created[t], CreatedAs(q, <<t, f>>, TRUE))
        BY <3>3, Zenon
      <4> QED BY <3>2, <4>1, <4>2, Zenon
    <3>5. Finished(t)' = Finished(t)
      BY <2>1, <3>1, Zenon DEF Finished, InFiles
    <3>6. ASSUME NEW e \in Ahead(t)' PROVE e \in Ahead(t) /\ <<r, e>> # q
      <4>1. PICK k \in 1 .. Len(FileSeq) :
               e = FileSeq[k] /\ (IF q # Temp(t) THEN k > index[t] ELSE k >= index[t])
        BY <3>1, <3>3, Zenon DEF Ahead, InFiles, Temp
      <4>2. k >= index[t]
        BY <3>1, <4>1
      <4>3. e \in Ahead(t) /\ e \in Files /\ e \in Entries
        BY <2>1, <4>1, <4>2, Facts, Zenon DEF Ahead, InFiles
      <4>4. CASE q = p
        <5>1. k # index[t]
          BY <3>1, <4>1, <4>4
        <5>2. e # f
          BY <3>1, <4>1, <5>1, Facts, Zenon DEF File
        <5> QED BY <4>3, <4>4, <5>2, Zenon
      <4>5. CASE q = Temp(t)
        BY <1>1, <4>3, <4>5, Facts, Zenon
      <4> QED BY <2>1, <4>4, <4>5, Zenon
    <3>7. q = p => fs'[p] = <<t, f>>
      BY <1>1, <2>3, <3>1, Zenon DEF Create, TypeInv
    <3>8. \A e \in Ahead(t)' : <<r, e>> \notin Removable(t)'
      BY <1>6, <3>4, <3>6, Zenon
    <3>9. \A e \in Finished(t)' : Holds(e)
      BY <1>7, <3>5, Zenon
    <3>10. LastPath(t)' # Temp(t) => fs'[p] = <<t, f>>
      BY <2>1, <3>3, <3>7, Zenon
    <3> HIDE DEF Holds, p
    <3> QED BY <1>9, <3>1, <3>8, <3>9, <3>10, Zenon
  <2> QED BY <2>1, <2>2, <2>3, Zenon DEF OpenAt
<1>12. CASE WriteChunk(t)
  <2>1. /\ pc[t] = "Write" /\ pc'[t] \in {"Write", "Restore"} /\ index'[t] = index[t]
        /\ UNCHANGED created
    BY <1>1, <1>12, Landing, Zenon DEF WriteChunk
  <2>2. LastPath(t)' = LastPath(t) /\ Temp(t)' = Temp(t) /\ Removable(t)' = Removable(t)
    BY <2>1, Zenon DEF LastPath, Temp, Removable
  <2>3. CASE pc'[t] = "Write"
    <3>1. Ahead(t)' = Ahead(t) /\ Finished(t)' = Finished(t)
      BY <2>1, <2>2, <2>3, Zenon DEF Ahead, Finished
    <3> QED BY <1>6, <1>7, <1>8, <1>9, <2>1, <2>2, <3>1, Zenon
  <2> QED BY <2>1, <2>3, OutMarked, Zenon
<1>13. CASE finalize_materialized_file(t)
  <2>1. /\ pc[t] = "Write" /\ Whole(<<t, f>>) /\ f \in Files /\ index[t] \in 1 .. Len(FileSeq)
        /\ p \in Paths /\ p # Temp(t)
    <3>1. pc[t] = "Write" /\ Whole(<<t, f>>)
      BY <1>13, Zenon DEF finalize_materialized_file, Whole
    <3> QED BY <1>1, <1>4, <3>1, Facts, Zenon DEF InFiles
  <2>2. \/ Fail(t, "Io")
        \/ (LastPath(t) = Temp(t) /\ Replace(t, p) /\ Advance(t, FileSeq, "File", LastDirs))
        \/ (LastPath(t) # Temp(t) /\ UNCHANGED <<fs, created>> /\ Advance(t, FileSeq, "File", LastDirs))
    BY <1>13, Zenon DEF finalize_materialized_file, LastPath, Current, Target
  <2>3. CASE Fail(t, "Io")
    BY <1>1, <2>3, Landing, OutMarked, Zenon
  <2>4. ASSUME Advance(t, FileSeq, "File", LastDirs), Holds(f), Removable(t)' \subseteq Removable(t)
        PROVE  MarkedOf(t)'
    <3>1. \/ index[t] < Len(FileSeq) /\ index'[t] = index[t] + 1 /\ pc'[t] \in {"File", "Restore"}
          \/ index[t] = Len(FileSeq) /\ pc'[t] \in {LastDirs, "Restore"}
      <4>1. \/ index[t] < Len(FileSeq) /\ index' = [index EXCEPT ![t] = @ + 1] /\ Report(t, "File")
            \/ index[t] = Len(FileSeq) /\ Report(t, LastDirs)
        <5>1. ~(index[t] < Len(FileSeq)) => index[t] = Len(FileSeq)
          BY <2>1, Facts
        <5> QED BY <2>4, <5>1, Zenon DEF Advance
      <4> QED BY <1>1, <4>1, Landing, Zenon DEF TypeInv
    <3>2. CASE index[t] < Len(FileSeq) /\ index'[t] = index[t] + 1 /\ pc'[t] = "File"
      <4>1. Finished(t)' \subseteq Finished(t) \cup {f}
        <5> SUFFICES ASSUME NEW j \in 1 .. index[t] PROVE FileSeq[j] \in Finished(t) \cup {f}
          <6>1. index'[t] - 1 = index[t] /\ pc'[t] \in InFiles
            BY <2>1, <3>2 DEF InFiles
          <6> QED BY <6>1, Zenon DEF Finished
        <5>1. CASE j = index[t]
          BY <5>1, Zenon DEF File
        <5>2. CASE j # index[t]
          <6>1. j \in 1 .. index[t] - 1
            BY <2>1, <5>2
          <6> QED BY <2>1, <6>1, Zenon DEF Finished, InFiles
        <5> QED BY <5>1, <5>2, Zenon
      <4>2. Ahead(t)' \subseteq Ahead(t)
        <5> SUFFICES ASSUME NEW k \in 1 .. Len(FileSeq), k >= index[t] + 1 PROVE FileSeq[k] \in Ahead(t)
          BY <2>1, <3>2, Zenon DEF Ahead, InFiles
        <5>1. k >= index[t] /\ k > index[t]
          BY <2>1
        <5> QED BY <2>1, <5>1, Zenon DEF Ahead, InFiles
      <4> QED BY <1>6, <1>7, <1>9, <2>4, <3>2, <4>1, <4>2, Zenon
    <3>3. CASE index[t] = Len(FileSeq) /\ pc'[t] = LastDirs
      <4>1. pc'[t] \in {"Mark", "Metadata"} /\ Ahead(t)' = {} /\ Finished(t)' = Files
        BY <3>3, Firsts, Zenon DEF Ahead, Finished, InFiles
      <4>2. ASSUME NEW e \in Files PROVE Holds(e)
        <5>1. PICK j \in 1 .. Len(FileSeq) : e = FileSeq[j]
          BY Facts, Zenon
        <5>2. CASE j = index[t]
          BY <2>4, <5>1, <5>2, Zenon DEF File
        <5>3. CASE j # index[t]
          <6>1. j \in 1 .. index[t] - 1
            BY <2>1, <3>3, <5>3
          <6>2. e \in Finished(t)
            BY <2>1, <5>1, <6>1, Zenon DEF Finished, InFiles
          <6> QED BY <1>7, <6>2, Zenon
        <5> QED BY <5>2, <5>3, Zenon
      <4> QED BY <1>9, <4>1, <4>2, Zenon
    <3>4. CASE pc'[t] = "Restore"
      BY <3>4, OutMarked, Zenon
    <3> QED BY <3>1, <3>2, <3>3, <3>4, Zenon
  <2>5. CASE LastPath(t) = Temp(t) /\ Replace(t, p) /\ Advance(t, FileSeq, "File", LastDirs)
    <3>1. /\ \A q \in Paths : fs'[q] = IF q = Temp(t) THEN None ELSE IF q = p THEN <<t, f>> ELSE fs[q]
          /\ Len(created[t]) \in Nat \ {0} /\ Len(created'[t]) = Len(created[t])
          /\ \A k \in 1 .. Len(created[t]) - 1 : created'[t][k] = created[t][k]
          /\ ~created'[t][Len(created[t])].remove_on_cleanup
      <4>1. created[t] # <<>>
        BY <1>1, <2>1, Zenon DEF PhaseOf
      <4>2. File(t) \in Files /\ Replace(t, p)
        BY <2>1, <2>5, Zenon
      <4>3. /\ \A q \in Paths : fs'[q] = IF q = Temp(t) THEN None
                                         ELSE IF q = p THEN <<t, File(t)>> ELSE fs[q]
            /\ Len(created[t]) \in Nat \ {0} /\ Len(created'[t]) = Len(created[t])
            /\ \A k \in 1 .. Len(created[t]) - 1 : created'[t][k] = created[t][k]
            /\ ~created'[t][Len(created[t])].remove_on_cleanup
        BY <2>1, <4>1, <4>2, Replacing, Zenon
      <4> QED BY <4>3, Zenon
    <3>2. Removable(t)' \subseteq Removable(t)
      BY <3>1, RemovableReplaced, Zenon
    <3>3. Holds(f)
      BY <1>1, <2>1, <3>1, StaysWhole, Zenon
    <3> QED BY <2>4, <2>5, <3>2, <3>3, Zenon
  <2>6. CASE LastPath(t) # Temp(t) /\ UNCHANGED <<fs, created>> /\ Advance(t, FileSeq, "File", LastDirs)
    <3>1. Removable(t)' = Removable(t)
      BY <2>6, Zenon DEF Removable
    <3>2. Holds(f)
      BY <1>1, <1>8, <2>1, <2>6, StaysWhole, Zenon
    <3> QED BY <2>4, <2>6, <3>1, <3>2, Zenon
  <2> QED BY <2>2, <2>3, <2>5, <2>6, Zenon
<1>14. CASE apply_directory_metadata(t)
  <2>1. /\ pc[t] = "Metadata" /\ pc'[t] \in {"Metadata", "Mark", "Restore"} /\ UNCHANGED created
    BY <1>1, <1>14, Landing, Zenon DEF apply_directory_metadata
  <2>2. Ahead(t)' = {} /\ Finished(t)' \subseteq Finished(t) /\ pc'[t] # "Write"
    BY <2>1, Zenon DEF Ahead, Finished, InFiles
  <2> QED BY <1>7, <1>9, <2>2, Zenon
<1> QED BY <1>10, <1>11, <1>12, <1>13, <1>14, Zenon

\* The invariant at first: nothing is marked and nothing is made.
LEMMA MarkedInit == Init => MarkedInv
<1> SUFFICES ASSUME Init PROVE MarkedInv
  BY Zenon
<1>1. \A e \in Files : marked[e] = None
  BY Facts, Zenon DEF Init
<1>2. ASSUME NEW t \in Threads PROVE MarkedOf(t)
  BY SMTT(30) DEF Init, MarkedOf, Ahead, Finished, InFiles, Removable
<1> QED BY <1>1, <1>2, Zenon DEF MarkedInv

\* A step of a thread keeps what the invariant says of that thread.
LEMMA OwnMarked ==
    ASSUME BaseInv, MarkedInv, NEW t \in Threads, ThreadNext(t)
    PROVE  MarkedOf(t)'
<1>1. TypeInv
  BY Zenon DEF BaseInv
<1>2. CASE plan_materialize(t) \/ Directory(t) \/ Mkdir(t)
  BY <1>2, EarlyMarked, Zenon
<1>3. CASE OpenFile(t) \/ open_final_materialized_file(t) \/ open_replacement_materialized_file(t)
              \/ WriteChunk(t) \/ finalize_materialized_file(t) \/ apply_directory_metadata(t)
  BY <1>3, FileMarked, Zenon
<1>4. CASE Error(t) \/ Mark(t) \/ restore_created_directory_permissions(t) \/ CheckTarget(t) \/ RemoveTarget(t)
  <2>1. pc'[t] \in {"Restore", "Check", "Remove", "Done"}
    <3>1. CASE Error(t)
      BY <1>1, <3>1, Landing, Zenon DEF Error
    <3>2. CASE Mark(t)
      BY <1>1, <3>2, Zenon DEF Mark, TypeInv
    <3>3. CASE restore_created_directory_permissions(t) \/ RemoveTarget(t)
      BY <1>1, <3>3, Landing, Zenon DEF restore_created_directory_permissions, RemoveTarget
    <3>4. CASE CheckTarget(t)
      <4>1. Goto(t, "Done") \/ Goto(t, "Remove") \/ (UNCHANGED pc /\ pc[t] = "Check")
        BY <3>4, Zenon DEF CheckTarget
      <4> QED BY <1>1, <4>1, Landing, Zenon
    <3> QED BY <1>4, <3>1, <3>2, <3>3, <3>4, Zenon
  <2> QED BY <2>1, OutMarked, Zenon
<1> QED BY <1>2, <1>3, <1>4, Zenon DEF ThreadNext

\* What is marked holds a complete file after a step of a thread: what was marked
\* stays, and the thread that marks has made its files, or found complete ones.
LEMMA MarksKept ==
    ASSUME BaseInv, MarkedInv, NEW t \in Threads, ThreadNext(t), NEW e \in Files, marked'[e] # None
    PROVE  marked'[e] \in Roots \X {e} /\ Kept(marked[e])'
<1>1. /\ TypeInv /\ MarkedOf(t) /\ Effect(t) /\ Keeps(t) /\ pc[t] # "Done" /\ e \in Entries
  BY BaseThread, Effects, NotDone, Facts, Zenon DEF BaseInv, MarkedInv, BaseOf
<1>2. ASSUME NEW r \in Roots, marked'[e] = <<r, e>>, Kept(<<r, e>>)'
      PROVE  marked'[e] \in Roots \X {e} /\ Kept(marked[e])'
  BY <1>2 DEF Kept, Good, Whole
<1>3. CASE Mark(t)
  <2>1. /\ pc[t] = "Mark" /\ marked'[e] = <<root[t], e>> /\ UNCHANGED <<fs, written, created, strayed>>
        /\ status' = [status EXCEPT ![t] = "Ok"] /\ root[t] \in Roots
    BY <1>1, <1>3, Zenon DEF Mark, Target, fileVars, taskVars, TypeInv
  <2>2. ASSUME NEW r \in Roots, r = root[t] PROVE Kept(<<r, e>>)'
    <3>1. Kept(<<r, e>>) \/ (fs[<<r, e>>] = <<t, e>> /\ Whole(<<t, e>>))
      BY <1>1, <2>1, <2>2, Zenon DEF MarkedOf, Finished, InFiles, Target
    <3>2. Kept(<<r, e>>) => Kept(<<r, e>>)'
      BY <1>1, KeptStep, Zenon
    <3>3. (fs[<<r, e>>] = <<t, e>> /\ Whole(<<t, e>>)) => Good(<<r, e>>)'
      <4>1. status'[t] = "Ok" /\ <<r, e>>[2] = e
        BY <1>1, <2>1, Zenon DEF TypeInv
      <4> QED BY <2>1, <4>1, Zenon DEF Good, Whole
    <3> QED BY <3>1, <3>2, <3>3, Zenon DEF Kept
  <2> QED BY <1>2, <2>1, <2>2, Zenon
<1>4. CASE ~Mark(t)
  <2>1. marked' = marked
    BY <1>4, Zenon DEF ThreadNext, plan_materialize, Error, Directory, Mkdir, OpenFile,
       open_final_materialized_file, open_replacement_materialized_file, OpenAt, WriteChunk,
       finalize_materialized_file, apply_directory_metadata, restore_created_directory_permissions,
       CheckTarget, RemoveTarget
  <2>2. PICK r \in Roots : marked[e] = <<r, e>> /\ Kept(<<r, e>>)
    <3>1. marked[e] \in Roots \X {e} /\ Kept(marked[e])
      BY <2>1, Zenon DEF MarkedInv
    <3> QED BY <3>1
  <2>3. Kept(<<r, e>>)'
    BY <1>1, <2>2, KeptStep, Zenon
  <2> QED BY <1>2, <2>1, <2>2, <2>3, Zenon
<1> QED BY <1>3, <1>4, Zenon

\* Every step keeps it.
LEMMA MarkedStep == BaseInv /\ MarkedInv /\ [Next]_vars => MarkedInv'
<1> SUFFICES ASSUME BaseInv, MarkedInv, [Next]_vars PROVE MarkedInv'
  BY Zenon
<1>1. ASSUME NEW t \in Threads, ThreadNext(t) PROVE MarkedInv'
  <2>1. Effect(t) /\ Keeps(t) /\ pc[t] # "Done"
    BY <1>1, Effects, BaseThread, NotDone, Zenon DEF BaseOf
  <2>2. \A u \in Threads : MarkedOf(u)'
    BY <1>1, <2>1, OwnMarked, OthersMarked, Zenon
  <2> QED BY <1>1, <2>2, MarksKept, Zenon DEF MarkedInv
<1>2. ProviderGoes \/ UNCHANGED vars =>
         UNCHANGED <<fs, written, marked, pc, root, index, created, status, strayed>>
  BY Zenon DEF ProviderGoes, vars, fileVars, taskVars
<1>3. ASSUME UNCHANGED <<fs, written, marked, pc, root, index, created, status, strayed>>
      PROVE  MarkedInv'
  <2>1. /\ \A t : Removable(t)' = Removable(t) /\ \A i : Whole(i)' = Whole(i)
    BY <1>3, Zenon DEF Removable, Whole
  <2>2. ASSUME NEW p PROVE Kept(p)' <=> Kept(p)
    BY <1>3, <2>1, Zenon DEF Kept, Good
  <2>3. ASSUME NEW e \in Files, marked'[e] # None
        PROVE  marked'[e] \in Roots \X {e} /\ Kept(marked[e])'
    <3>1. PICK r \in Roots : marked[e] = <<r, e>> /\ Kept(<<r, e>>)
      <4>1. marked[e] \in Roots \X {e} /\ Kept(marked[e])
        BY <1>3, <2>3, Zenon DEF MarkedInv
      <4> QED BY <4>1
    <3>2. marked'[e] = <<r, e>> /\ Kept(<<r, e>>)'
      BY <1>3, <2>2, <3>1, Zenon
    <3> QED BY <3>2 DEF Kept, Good, Whole
  <2>4. ASSUME NEW t \in Threads PROVE MarkedOf(t)'
    <3>1. /\ Ahead(t)' = Ahead(t) /\ Finished(t)' = Finished(t) /\ LastPath(t)' = LastPath(t)
          /\ Temp(t)' = Temp(t)
      BY <1>3, Zenon DEF Ahead, Finished, LastPath, Temp
    <3>2. MarkedOf(t)
      BY Zenon DEF MarkedInv
    <3>3. ASSUME NEW r, r = root'[t], NEW f, f = FileSeq[index'[t]] PROVE MarkedOf(t)'
      <4>1. \A e \in Ahead(t) : <<r, e>> \notin Removable(t)'
        BY <1>3, <2>1, <3>2, <3>3, Zenon DEF MarkedOf, Target
      <4>2. \A e \in Finished(t) : Kept(<<r, e>>)' \/ (fs'[<<r, e>>] = <<t, e>> /\ Whole(<<t, e>>)')
        BY <1>3, <2>1, <2>2, <3>2, <3>3, Zenon DEF MarkedOf, Target
      <4>3. (pc'[t] = "Write" /\ LastPath(t)' # Temp(t)) => Kept(<<r, f>>)' \/ fs'[<<r, f>>] = <<t, f>>
        BY <1>3, <2>2, <3>1, <3>2, <3>3, Zenon DEF MarkedOf, Target, File
      <4> QED BY <3>1, <3>3, <4>1, <4>2, <4>3, Regained, Zenon
    <3> QED BY <3>3, Zenon
  <2> QED BY <2>3, <2>4, Zenon DEF MarkedInv
<1> QED BY <1>1, <1>2, <1>3, Zenon DEF Next

\* What is marked as materialized holds a complete file, for every tree and however
\* many threads materialize it, replace it, fail and clean up: except where a cleanup
\* removed the file of another thread, in the window between the check and the removal
\* of cleanup_created_targets.
THEOREM MarkedTheorem == Spec => []MarkedIsWhole
<1>1. Init => BaseInv /\ MarkedInv
  BY BaseInit, MarkedInit, Zenon
<1>2. (BaseInv /\ MarkedInv) /\ [Next]_vars => (BaseInv /\ MarkedInv)'
  BY BaseStep, MarkedStep, Zenon
<1>3. BaseInv /\ MarkedInv => MarkedIsWhole
  <2> SUFFICES ASSUME BaseInv, MarkedInv, NEW e \in Files, marked[e] # None, marked[e] \notin strayed
               PROVE  fs[marked[e]] # None /\ Whole(fs[marked[e]])
    BY Zenon DEF MarkedIsWhole
  <2>1. marked[e] \in Roots \X {e} /\ Good(marked[e])
    BY Zenon DEF MarkedInv, Kept
  <2>2. PICK v \in Threads : fs[marked[e]] = <<v, e>> /\ Whole(<<v, e>>)
    BY <2>1, Zenon DEF Good
  <2>3. <<v, e>> # None
    BY Facts DEF Identities
  <2> QED BY <2>2, <2>3, Zenon
<1> QED BY <1>1, <1>2, <1>3, PTL DEF Spec

-----------------------------------------------------------------------------
(* How far a thread has come, and the types. *)

\* How far thread t has come, by what it has created.
CountOf(t) ==
    /\ pc[t] \in {"Directory", "Mkdir"} => Len(created[t]) + 1 = index[t]
    /\ pc[t] \in {"File", "New", "Temp"} => Len(created[t]) + 1 = Len(DirSeq) + index[t]
    /\ pc[t] = "Write" => Len(created[t]) = Len(DirSeq) + index[t]
    /\ pc[t] = "Metadata" => Len(created[t]) >= Len(DirSeq) /\ index[t] \in 1 .. Len(DirSeq)
    /\ Len(created[t]) <= Len(DirSeq) + Len(FileSeq)
    /\ index[t] \in 1 .. Len(DirSeq) + Len(FileSeq) + 1

CountInv == \A t \in Threads : CountOf(t)

\* Where a move leads.
LEMMA Going ==
    ASSUME TypeInv, NEW t \in Threads
    PROVE  /\ \A x : Goto(t, x) => pc'[t] = x /\ status'[t] = status[t]
           /\ \A c : Fail(t, c) => pc'[t] = "Restore" /\ status'[t] = c
           /\ \A x : Report(t, x) => pc'[t] \in {x, "Restore"}
<1>1. pc \in [Threads -> Places] /\ status \in [Threads -> Codes]
  BY Zenon DEF TypeInv
<1> QED BY <1>1, Zenon DEF Goto, Fail, Report

\* Lengths and indices are numbers.
LEMMA Numbers ==
    ASSUME TypeInv, NEW t \in Threads
    PROVE  /\ Len(created[t]) \in Nat /\ index[t] \in Nat /\ left[t] \in Nat
           /\ Len(DirSeq) \in Nat /\ Len(FileSeq) \in Nat
           /\ created[t] \in Seq(CreatedTarget)
<1>1. created[t] \in Seq(CreatedTarget) /\ index[t] \in Nat /\ left[t] \in Nat
  BY Zenon DEF TypeInv
<1>2. Len(created[t]) \in Nat
  BY <1>1
<1> QED BY <1>1, <1>2, Facts, Zenon

\* A step that creates nothing and stays at its entry.
LEMMA CountQuiet ==
    ASSUME TypeInv, NEW t \in Threads, CountOf(t), created'[t] = created[t], index'[t] = index[t],
           \/ pc'[t] \in {"Mark", "Restore", "Check", "Remove", "Done"}
           \/ pc[t] = "Directory" /\ pc'[t] = "Mkdir"
           \/ pc[t] = "File" /\ pc'[t] \in {"New", "Temp"}
           \/ pc'[t] = pc[t]
    PROVE  CountOf(t)'
BY Zenon DEF CountOf

\* A created target is pushed.
LEMMA PushedLen ==
    ASSUME TypeInv, NEW t \in Threads, NEW p \in Paths, NEW i \in Identities, NEW r \in BOOLEAN,
           Push(t, CreatedAs(p, i, r))
    PROVE  Len(created'[t]) = Len(created[t]) + 1
<1>1. created[t] \in Seq(CreatedTarget) /\ created'[t] = Append(created[t], CreatedAs(p, i, r))
  BY Zenon DEF TypeInv, Push
<1>2. CreatedAs(p, i, r) \in CreatedTarget
  BY Zenon DEF CreatedAs, CreatedTarget
<1> QED BY <1>1, <1>2, Appended, ZenonT(60)

\* The loop over the directories goes on.
LEMMA CountDirs ==
    ASSUME BaseInv, NEW t \in Threads, CountOf(t), pc[t] \in {"Directory", "Mkdir"},
           Len(created'[t]) = Len(created[t]) + 1, Advance(t, DirSeq, "Directory", FirstFiles)
    PROVE  CountOf(t)'
<1>0. /\ TypeInv /\ PhaseOf(t) /\ pc[t] # "Done" /\ DirSeq \in Seq(Dirs)
      /\ index[t] \in 1 .. Len(DirSeq) /\ Len(created[t]) + 1 = index[t]
  BY Zenon, TreeAssumptions DEF BaseInv, PhaseOf, CountOf
<1>1. "Directory" \in Places /\ FirstFiles \in Places /\ FirstFiles \in {"Metadata", "File"}
  BY Zenon, Firsts DEF Places
<1>2. \/ index[t] < Len(DirSeq) /\ index'[t] = index[t] + 1 /\ Moved(t, {"Directory", "Restore"})
      \/ index[t] = Len(DirSeq) /\ index'[t] = 1 /\ Moved(t, {FirstFiles, "Restore"})
  BY Zenon, <1>0, <1>1, Advancing
<1>3. \/ index[t] < Len(DirSeq) /\ index'[t] = index[t] + 1 /\ pc'[t] \in {"Directory", "Restore"}
      \/ index[t] = Len(DirSeq) /\ index'[t] = 1 /\ pc'[t] \in {"Metadata", "File", "Restore"}
  <2>1. {"Directory", "Restore"} \in SUBSET Places /\ {FirstFiles, "Restore"} \in SUBSET Places
    BY Zenon, <1>1 DEF Places
  <2> QED BY Zenon, <1>0, <1>1, <1>2, <2>1, MovedTo
<1>4. Len(created[t]) \in Nat /\ Len(DirSeq) \in Nat /\ Len(FileSeq) \in Nat /\ index[t] \in Nat
  BY Zenon, <1>0, Numbers
<1>5. CASE index[t] < Len(DirSeq) /\ index'[t] = index[t] + 1 /\ pc'[t] \in {"Directory", "Restore"}
  <2>1. /\ Len(created'[t]) + 1 = index'[t] /\ Len(created'[t]) <= Len(DirSeq) + Len(FileSeq)
        /\ index'[t] \in 1 .. Len(DirSeq) + Len(FileSeq) + 1
    BY <1>0, <1>4, <1>5
  <2> QED BY Zenon, <1>5, <2>1 DEF CountOf
<1>6. CASE index[t] = Len(DirSeq) /\ index'[t] = 1 /\ pc'[t] \in {"Metadata", "File", "Restore"}
  <2>1. /\ Len(created'[t]) + 1 = Len(DirSeq) + index'[t] /\ Len(created'[t]) <= Len(DirSeq) + Len(FileSeq)
        /\ index'[t] \in 1 .. Len(DirSeq) + Len(FileSeq) + 1
        /\ Len(created'[t]) >= Len(DirSeq) /\ index'[t] \in 1 .. Len(DirSeq)
    BY <1>0, <1>4, <1>6
  <2> QED BY Zenon, <1>6, <2>1 DEF CountOf
<1> QED BY Zenon, <1>3, <1>5, <1>6

\* The loop over the files goes on.
LEMMA CountFiles ==
    ASSUME BaseInv, NEW t \in Threads, CountOf(t), pc[t] = "Write",
           Len(created'[t]) = Len(created[t]), Advance(t, FileSeq, "File", LastDirs)
    PROVE  CountOf(t)'
<1>0. /\ TypeInv /\ PhaseOf(t) /\ pc[t] # "Done" /\ FileSeq \in Seq(Files)
      /\ index[t] \in 1 .. Len(FileSeq) /\ Len(created[t]) = Len(DirSeq) + index[t]
  BY Zenon, TreeAssumptions DEF BaseInv, PhaseOf, CountOf, InFiles
<1>1. /\ "File" \in Places /\ LastDirs \in Places /\ LastDirs \in {"Mark", "Metadata"}
      /\ LastDirs = "Metadata" => 1 \in 1 .. Len(DirSeq)
  <2>1. LastDirs = "Metadata" => DirSeq # <<>>
    BY Zenon DEF LastDirs
  <2>2. DirSeq # <<>> => 1 \in 1 .. Len(DirSeq)
    BY Facts
  <2> QED BY Zenon, <2>1, <2>2, Firsts DEF Places
<1>2. \/ index[t] < Len(FileSeq) /\ index'[t] = index[t] + 1 /\ Moved(t, {"File", "Restore"})
      \/ index[t] = Len(FileSeq) /\ index'[t] = 1 /\ Moved(t, {LastDirs, "Restore"})
  BY Zenon, <1>0, <1>1, Advancing
<1>3. \/ index[t] < Len(FileSeq) /\ index'[t] = index[t] + 1 /\ pc'[t] \in {"File", "Restore"}
      \/ /\ index[t] = Len(FileSeq) /\ index'[t] = 1 /\ pc'[t] \in {"Mark", "Metadata", "Restore"}
         /\ pc'[t] = "Metadata" => 1 \in 1 .. Len(DirSeq)
  <2>1. {"File", "Restore"} \in SUBSET Places /\ {LastDirs, "Restore"} \in SUBSET Places
    BY Zenon, <1>1 DEF Places
  <2> QED BY Zenon, <1>0, <1>1, <1>2, <2>1, MovedTo
<1>4. Len(created[t]) \in Nat /\ Len(DirSeq) \in Nat /\ Len(FileSeq) \in Nat /\ index[t] \in Nat
  BY Zenon, <1>0, Numbers
<1>5. CASE index[t] < Len(FileSeq) /\ index'[t] = index[t] + 1 /\ pc'[t] \in {"File", "Restore"}
  <2>1. /\ Len(created'[t]) + 1 = Len(DirSeq) + index'[t] /\ Len(created'[t]) <= Len(DirSeq) + Len(FileSeq)
        /\ index'[t] \in 1 .. Len(DirSeq) + Len(FileSeq) + 1
    BY <1>0, <1>4, <1>5
  <2> QED BY Zenon, <1>5, <2>1 DEF CountOf
<1>6. CASE /\ index[t] = Len(FileSeq) /\ index'[t] = 1 /\ pc'[t] \in {"Mark", "Metadata", "Restore"}
           /\ pc'[t] = "Metadata" => 1 \in 1 .. Len(DirSeq)
  <2>1. /\ Len(created'[t]) >= Len(DirSeq) /\ Len(created'[t]) <= Len(DirSeq) + Len(FileSeq)
        /\ index'[t] \in 1 .. Len(DirSeq) + Len(FileSeq) + 1
    BY <1>0, <1>4, <1>6
  <2> QED BY Zenon, <1>6, <2>1 DEF CountOf
<1> QED BY Zenon, <1>3, <1>5, <1>6

\* Every step of a thread counts.
LEMMA CountThread ==
    ASSUME BaseInv, NEW t \in Threads, CountOf(t), ThreadNext(t)
    PROVE  CountOf(t)'
<1>0. /\ TypeInv /\ PhaseOf(t)
      /\ \A x : Goto(t, x) => pc'[t] = x
      /\ \A c : Fail(t, c) => pc'[t] = "Restore"
      /\ \A x : Report(t, x) => pc'[t] \in {x, "Restore"}
  BY Zenon, Going DEF BaseInv
<1>n. Len(created[t]) \in Nat /\ Len(DirSeq) \in Nat /\ Len(FileSeq) \in Nat /\ index[t] \in Nat
  BY Zenon, <1>0, Numbers
<1>1. CASE plan_materialize(t)
  <2>1. /\ pc[t] = "Idle" /\ created[t] = <<>> /\ index[t] = 1
        /\ created'[t] = created[t] /\ index'[t] = index[t]
    BY Zenon, <1>0, <1>1 DEF plan_materialize, PhaseOf
  <2>2. pc'[t] \in {"Done", FirstDirs, "Restore"}
    <3>1. pc \in [Threads -> Places]
      BY Zenon, <1>0 DEF TypeInv
    <3>2. \A c : Refuse(t, c) => pc'[t] = "Done"
      BY Zenon, <3>1 DEF Refuse
    <3> QED BY Zenon, <1>0, <1>1, <3>2 DEF plan_materialize
  <2>3. /\ FirstDirs \in {"File", "Directory"} /\ (FirstDirs = "File" => DirSeq = <<>>)
    BY Zenon DEF FirstDirs
  <2>4. Len(created[t]) = 0 /\ (DirSeq = <<>> => Len(DirSeq) = 0)
    BY <2>1
  <2> QED BY <1>n, <2>1, <2>2, <2>3, <2>4 DEF CountOf
<1>2. CASE Error(t) \/ OpenFile(t) \/ WriteChunk(t) \/ Mark(t)
           \/ restore_created_directory_permissions(t) \/ CheckTarget(t) \/ RemoveTarget(t)
  <2>1. created'[t] = created[t] /\ index'[t] = index[t]
    BY Zenon, <1>2 DEF Error, OpenFile, WriteChunk, Mark, restore_created_directory_permissions,
       CheckTarget, RemoveTarget
  <2>2. \/ pc'[t] \in {"Mark", "Restore", "Check", "Remove", "Done"}
        \/ pc[t] = "File" /\ pc'[t] \in {"New", "Temp"}
        \/ pc'[t] = pc[t]
    <3>1. CASE Error(t) \/ OpenFile(t) \/ WriteChunk(t)
      BY Zenon, <1>0, <3>1 DEF Error, OpenFile, WriteChunk
    <3>2. CASE Mark(t)
      BY Zenon, <1>0, <3>2 DEF Mark, TypeInv
    <3>3. CASE restore_created_directory_permissions(t) \/ CheckTarget(t) \/ RemoveTarget(t)
      BY Zenon, <1>0, <3>3 DEF restore_created_directory_permissions, CheckTarget, RemoveTarget
    <3> QED BY Zenon, <1>2, <3>1, <3>2, <3>3
  <2> QED BY Zenon, <1>0, <2>1, <2>2, CountQuiet
<1>3. ASSUME NEW p \in Paths, CreateFails(t, p) PROVE CountOf(t)'
  <2>1. created'[t] = created[t] /\ index'[t] = index[t] /\ pc'[t] = "Restore"
    BY Zenon, <1>0, <1>3 DEF CreateFails
  <2> QED BY Zenon, <1>0, <2>1, CountQuiet
<1>4. CASE Directory(t) \/ Mkdir(t)
  <2> DEFINE e == DirSeq[index[t]]
             p == Target(t, e)
  <2>1. pc[t] \in {"Directory", "Mkdir"} /\ e \in Dirs /\ e \in Entries
    BY Zenon, <1>0, <1>4, Facts DEF Directory, Mkdir, PhaseOf
  <2>2. p \in Paths /\ (fs[p] # None => fs[p] \in Identities) /\ <<t, e>> \in Identities
    BY Zenon, <1>0, <2>1, Facts DEF TypeInv, Target, Identities
  <2>3. \/ /\ pc'[t] = "Restore" \/ (pc[t] = "Directory" /\ pc'[t] = "Mkdir")
           /\ created'[t] = created[t] /\ index'[t] = index[t]
        \/ /\ Len(created'[t]) = Len(created[t]) + 1
           /\ Advance(t, DirSeq, "Directory", FirstFiles)
        \/ CreateFails(t, p)
    <3>1. CASE Directory(t)
      <4>1. fs[p] # None /\ Push(t, CreatedAs(p, fs[p], FALSE)) => Len(created'[t]) = Len(created[t]) + 1
        BY Zenon, <1>0, <2>2, PushedLen
      <4> QED BY Zenon, <1>0, <3>1, <4>1 DEF Directory
    <3>2. CASE Mkdir(t)
      <4>1. Push(t, CreatedAs(p, <<t, e>>, TRUE)) => Len(created'[t]) = Len(created[t]) + 1
        BY Zenon, <1>0, <2>2, PushedLen
      <4> QED BY Zenon, <3>2, <4>1 DEF Mkdir, Create
    <3> QED BY Zenon, <1>4, <3>1, <3>2
  <2> QED BY Zenon, <1>0, <1>3, <2>1, <2>2, <2>3, CountQuiet, CountDirs
<1>5. CASE open_final_materialized_file(t) \/ open_replacement_materialized_file(t)
  <2>1. /\ pc[t] \in {"New", "Temp"} /\ index[t] \in 1 .. Len(FileSeq) /\ File(t) \in Entries
    BY Zenon, <1>0, <1>5, Facts DEF open_final_materialized_file, open_replacement_materialized_file,
       OpenAt, PhaseOf, InFiles, File
  <2>2. Target(t, File(t)) \in Paths /\ Temp(t) \in Paths /\ <<t, File(t)>> \in Identities
    BY Zenon, <1>0, <2>1, Facts DEF TypeInv, Target, Identities
  <2>3. PICK p \in Paths : \/ Create(t, p, File(t)) /\ Goto(t, "Write") /\ UNCHANGED index
                           \/ CreateFails(t, p)
    BY Zenon, <1>5, <2>2 DEF open_final_materialized_file, open_replacement_materialized_file, OpenAt
  <2>4. CASE Create(t, p, File(t)) /\ Goto(t, "Write") /\ UNCHANGED index
    <3>1. Len(created'[t]) = Len(created[t]) + 1 /\ pc'[t] = "Write" /\ index'[t] = index[t]
      BY Zenon, <1>0, <2>2, <2>4, PushedLen DEF Create
    <3> QED BY <1>n, <2>1, <3>1 DEF CountOf
  <2> QED BY Zenon, <1>3, <2>3, <2>4
<1>6. CASE finalize_materialized_file(t)
  <2> DEFINE p == Target(t, File(t))
  <2>1. /\ pc[t] = "Write" /\ created[t] # <<>> /\ File(t) \in Files
    BY Zenon, <1>0, <1>6, Facts DEF finalize_materialized_file, PhaseOf, InFiles, File
  <2>2. p \in Paths
    BY Zenon, <1>0, <2>1, Facts DEF TypeInv, Target
  <2>3. Replace(t, p) => Len(created'[t]) = Len(created[t])
    BY Zenon, <2>1, <2>2, Replacing
  <2>4. \/ pc'[t] = "Restore" /\ created'[t] = created[t] /\ index'[t] = index[t]
        \/ Len(created'[t]) = Len(created[t]) /\ Advance(t, FileSeq, "File", LastDirs)
    BY Zenon, <1>0, <1>6, <2>3 DEF finalize_materialized_file
  <2> QED BY Zenon, <1>0, <2>1, <2>4, CountQuiet, CountFiles
<1>7. CASE apply_directory_metadata(t)
  <2>1. pc[t] = "Metadata" /\ created'[t] = created[t] /\ index \in [Threads -> Nat]
    BY Zenon, <1>0, <1>7 DEF apply_directory_metadata, TypeInv
  <2>2. \/ pc'[t] = "Restore" /\ index'[t] = index[t]
        \/ /\ index'[t] = index[t] + 1
           /\ IF index[t] = Len(DirSeq) THEN pc'[t] = "Mark" ELSE pc'[t] = "Metadata"
    BY Zenon, <1>0, <1>7, <2>1 DEF apply_directory_metadata
  <2> QED BY <1>n, <2>1, <2>2 DEF CountOf
<1> QED BY Zenon, <1>1, <1>2, <1>4, <1>5, <1>6, <1>7 DEF ThreadNext

\* The counts are kept by every step.
LEMMA CountStep == BaseInv /\ CountInv /\ [Next]_vars => CountInv'
<1> SUFFICES ASSUME BaseInv, CountInv, [Next]_vars PROVE CountInv'
  BY Zenon
<1>1. ASSUME NEW t \in Threads, ThreadNext(t) PROVE CountInv'
  <2>1. CountOf(t)' /\ Keeps(t)
    BY Zenon, <1>1, CountThread, BaseThread DEF CountInv, BaseOf
  <2>2. ASSUME NEW u \in Threads \ {t} PROVE CountOf(u)'
    <3>1. pc'[u] = pc[u] /\ index'[u] = index[u] /\ created'[u] = created[u] /\ CountOf(u)
      BY Zenon, <2>1 DEF Keeps, CountInv
    <3> QED BY Zenon, <3>1 DEF CountOf
  <2> QED BY Zenon, <2>1, <2>2 DEF CountInv
<1>2. ProviderGoes \/ UNCHANGED vars => UNCHANGED <<pc, index, created>>
  BY Zenon DEF ProviderGoes, vars
<1>3. ASSUME UNCHANGED <<pc, index, created>> PROVE CountInv'
  BY Zenon, <1>3 DEF CountInv, CountOf
<1> QED BY Zenon, <1>1, <1>2, <1>3 DEF Next

\* The types of the rest.
RestInv ==
    /\ userKind \in [Entries -> {"File", "Directory", "Symlink"}] /\ live \in BOOLEAN
    /\ readonly \subseteq Identities /\ strayed \subseteq Paths
    /\ \A i \in Threads \X Files : written[i] <= Chunks[i[2]]
    /\ refused \in [Threads -> SUBSET Paths]

\* They are kept by every step.
LEMMA RestStep == BaseInv /\ CountInv /\ RestInv /\ [Next]_vars => RestInv'
<1> SUFFICES ASSUME BaseInv, CountInv, RestInv, [Next]_vars PROVE RestInv'
  BY Zenon
<1>0. TypeInv
  BY Zenon DEF BaseInv
<1>1. ASSUME UNCHANGED <<userKind, readonly, written, refused, strayed>>, live' \in BOOLEAN PROVE RestInv'
  BY Zenon, <1>1 DEF RestInv
<1>2. live \in BOOLEAN
  BY Zenon DEF RestInv
<1>3. CASE ProviderGoes \/ UNCHANGED vars
  BY Zenon, <1>1, <1>2, <1>3 DEF ProviderGoes, vars, fileVars, taskVars
<1>4. ASSUME NEW t \in Threads, ThreadNext(t) PROVE RestInv'
  <2>0. PhaseOf(t) /\ CountOf(t)
    BY Zenon DEF BaseInv, CountInv
  <2>1. CASE plan_materialize(t) \/ Error(t) \/ Directory(t) \/ OpenFile(t) \/ Mark(t) \/ CheckTarget(t)
    BY Zenon, <1>1, <1>2, <2>1 DEF plan_materialize, Error, Directory, OpenFile, Mark, CheckTarget,
       fileVars, restVars, taskVars
  <2>2. CASE Mkdir(t) \/ open_final_materialized_file(t) \/ open_replacement_materialized_file(t)
             \/ finalize_materialized_file(t)
    BY Zenon, <1>1, <1>2, <2>2 DEF Mkdir, open_final_materialized_file,
       open_replacement_materialized_file, OpenAt, finalize_materialized_file, restVars, taskVars
  <2>3. CASE WriteChunk(t)
    <3> DEFINE i == <<t, File(t)>>
    <3>1. /\ pc[t] = "Write" /\ written[i] < Chunks[File(t)] /\ written' = [written EXCEPT ![i] = @ + 1]
          /\ UNCHANGED <<userKind, live, readonly, refused, strayed>>
      BY Zenon, <2>3 DEF WriteChunk, restVars, taskVars
    <3>2. File(t) \in Files /\ i \in Threads \X Files /\ i[2] = File(t)
      BY Zenon, <2>0, <3>1, Facts DEF PhaseOf, InFiles, File
    <3>3. written[i] \in Nat /\ Chunks[File(t)] \in Nat
      BY Zenon, <1>0, <3>2, TreeAssumptions DEF TypeInv
    <3> HIDE DEF i
    <3>4. written[i] + 1 <= Chunks[i[2]]
      BY <3>1, <3>2, <3>3
    <3>5. \A j \in Threads \X Files : written'[j] = written[j] \/ (j = i /\ written'[j] = written[i] + 1)
      BY Zenon, <1>0, <3>1, <3>2 DEF TypeInv
    <3>6. \A j \in Threads \X Files : written'[j] <= Chunks[j[2]]
      BY Zenon, <3>4, <3>5 DEF RestInv
    <3> QED BY Zenon, <3>1, <3>6 DEF RestInv
  <2>4. CASE apply_directory_metadata(t)
    <3> DEFINE k == Len(DirSeq) + 1 - index[t]
               i == created[t][k].identity
    <3>1. /\ pc[t] = "Metadata" /\ UNCHANGED <<userKind, live, written, refused, strayed>>
          /\ readonly' \subseteq readonly \cup {i}
      BY Zenon, <2>4 DEF apply_directory_metadata, restVars, taskVars
    <3>2. k \in 1 .. Len(created[t])
      <4>1. Len(created[t]) \in Nat /\ Len(DirSeq) \in Nat
        BY Zenon, <1>0, Numbers
      <4>2. Len(created[t]) >= Len(DirSeq) /\ index[t] \in 1 .. Len(DirSeq)
        BY Zenon, <2>0, <3>1 DEF CountOf
      <4> QED BY <4>1, <4>2
    <3> HIDE DEF k
    <3>3. created[t][k] \in CreatedTarget
      <4>1. created[t] \in Seq(CreatedTarget)
        BY Zenon, <1>0 DEF TypeInv
      <4> QED BY <3>2, <4>1
    <3>4. i \in Identities
      BY Zenon, <3>3 DEF CreatedTarget
    <3> QED BY Zenon, <3>1, <3>4 DEF RestInv
  <2>5. CASE restore_created_directory_permissions(t)
    <3>1. readonly' \subseteq readonly /\ UNCHANGED <<userKind, live, written, refused, strayed>>
      BY Zenon, <2>5 DEF restore_created_directory_permissions, restVars
    <3> QED BY Zenon, <3>1 DEF RestInv
  <2>6. CASE RemoveTarget(t)
    <3> DEFINE p == created[t][left[t]].path
    <3>1. /\ pc[t] = "Remove" /\ UNCHANGED <<userKind, live, readonly, written>>
          /\ refused' = refused \/ refused' = [refused EXCEPT ![t] = @ \cup {p}]
          /\ strayed' \subseteq strayed \cup {p}
      BY Zenon, <2>6 DEF RemoveTarget, restVars
    <3>2. created[t] \in Seq(CreatedTarget) /\ left[t] \in 1 .. Len(created[t])
      BY Zenon, <1>0, <2>0, <3>1 DEF TypeInv, PhaseOf
    <3>3. created[t][left[t]] \in CreatedTarget
      BY <3>2
    <3>4. p \in Paths
      BY Zenon, <3>3 DEF CreatedTarget
    <3> QED BY ZenonT(60), <3>1, <3>4 DEF RestInv
  <2> QED BY Zenon, <1>4, <2>1, <2>2, <2>3, <2>4, <2>5, <2>6 DEF ThreadNext
<1> QED BY Zenon, <1>3, <1>4 DEF Next

\* Both hold at first.
LEMMA CountInit == Init => CountInv /\ RestInv
<1> SUFFICES ASSUME Init PROVE CountInv /\ RestInv
  BY Zenon
<1>1. ASSUME NEW t \in Threads PROVE CountOf(t)
  <2>1. pc[t] = "Idle" /\ created[t] = <<>> /\ index[t] = 1
    BY Zenon DEF Init
  <2>2. Len(created[t]) = 0 /\ Len(DirSeq) \in Nat /\ Len(FileSeq) \in Nat
    BY <2>1, Facts
  <2> QED BY <2>1, <2>2 DEF CountOf
<1>2. \A i \in Threads \X Files : written[i] = 0 /\ Chunks[i[2]] \in Nat
  BY Zenon, TreeAssumptions DEF Init
<1>3. \A i \in Threads \X Files : written[i] <= Chunks[i[2]]
  BY <1>2
<1>4. RestInv
  BY Zenon, <1>3 DEF Init, RestInv
<1> QED BY Zenon, <1>1, <1>4 DEF CountInv

\* Every variable has its type: nobody writes past the end of a file, and the loops
\* of materialize_node_in_state stay within the plan.
THEOREM MaterializeTypes == Spec => []MaterializeTypeOK
<1>1. Init => BaseInv /\ CountInv /\ RestInv
  BY Zenon, BaseInit, CountInit
<1>2. BaseInv /\ CountInv /\ RestInv /\ [Next]_vars => (BaseInv /\ CountInv /\ RestInv)'
  BY Zenon, BaseStep, CountStep, RestStep
<1>3. BaseInv /\ CountInv /\ RestInv => MaterializeTypeOK
  <2> SUFFICES ASSUME BaseInv, CountInv, RestInv PROVE MaterializeTypeOK
    BY Zenon
  <2>1. TypeInv
    BY Zenon DEF BaseInv
  <2>2. ASSUME NEW i \in Threads \X Files PROVE written[i] \in 0 .. Chunks[i[2]]
    <3>1. written[i] \in Nat /\ Chunks[i[2]] \in Nat /\ written[i] <= Chunks[i[2]]
      BY Zenon, <2>1, TreeAssumptions DEF TypeInv, RestInv
    <3> QED BY <3>1
  <2>3. ASSUME NEW t \in Threads, NEW k \in DOMAIN created[t] PROVE created[t][k] \in CreatedTarget
    <3>1. created[t] \in Seq(CreatedTarget)
      BY Zenon, <2>1 DEF TypeInv
    <3> QED BY <3>1
  <2> QED BY Zenon, <2>1, <2>2, <2>3 DEF TypeInv, RestInv, CountInv, CountOf, MaterializeTypeOK
<1> QED BY <1>1, <1>2, <1>3, PTL DEF Spec

-----------------------------------------------------------------------------
(* What a failed materialize leaves. *)

\* The entry that the k-th target of a thread is for.
EntryAt(k) == IF k <= Len(DirSeq) THEN DirSeq[k] ELSE FileSeq[k - Len(DirSeq)]

\* The cleanup of thread t has dealt with its k-th target.
Past(t, k) ==
    \/ pc[t] \in {"Check", "Remove"} /\ k > left[t]
    \/ pc[t] = "Done" /\ status[t] # "Ok"

\* What thread t has made is among its targets, and the cleanup has not come to it,
\* or spares it, or could not remove it.
Accounted(t) ==
    \A p \in Paths : fs[p] # None /\ fs[p][1] = t =>
        \E k \in 1 .. Len(created[t]) :
            /\ created[t][k].path = p /\ created[t][k].identity = fs[p]
            /\ created[t][k].remove_on_cleanup /\ Past(t, k) => p \in refused[t]

\* Nobody overwrites.
Lone == \A u \in Threads : policy[u] # "Overwrite"

\* Then what is in a directory belongs to the one the directory belongs to.
OneOwner ==
    \A p \in Paths : fs[p] # None =>
        /\ p \in Roots \X Entries /\ fs[p][2] = p[2]
        /\ Parent[p[2]] # None => fs[<<p[1], Parent[p[2]]>>] = <<fs[p][1], Parent[p[2]]>>

\* And thread t has made each of its targets, which stays until the cleanup comes to
\* it and can then be removed: no directory of t has lost its write permission.
LoneOf(t) ==
    /\ \A k \in 1 .. Len(created[t]) :
          /\ created[t][k] = CreatedAs(Target(t, EntryAt(k)), <<t, EntryAt(k)>>, TRUE)
          /\ ~Past(t, k) => fs[Target(t, EntryAt(k))] = <<t, EntryAt(k)>>
    /\ \A e \in Entries : <<t, e>> \in readonly =>
          /\ pc[t] \notin {"Check", "Remove"}
          /\ \E k \in 1 .. Len(created[t]) : EntryAt(k) = e
    /\ refused[t] = {}

LeftInv ==
    /\ \A t \in Threads : Accounted(t)
    /\ Lone => OneOwner /\ \A t \in Threads : LoneOf(t)

\* The entries of the targets: each has one, and its directory comes before it.
LEMMA EntryFacts ==
    LET N == Len(DirSeq) + Len(FileSeq) IN
    /\ \A k \in 1 .. N : EntryAt(k) \in Entries
    /\ \A j, k \in 1 .. N : EntryAt(j) = EntryAt(k) => j = k
    /\ \A k \in 1 .. N : Parent[EntryAt(k)] # None =>
          \E j \in 1 .. N : j < k /\ EntryAt(j) = Parent[EntryAt(k)]
<1> DEFINE D == Len(DirSeq)
           F == Len(FileSeq)
           N == D + F
<1>1. /\ D \in Nat /\ F \in Nat
      /\ \A j \in 1 .. D : DirSeq[j] \in Dirs
      /\ \A j \in 1 .. F : FileSeq[j] \in Files
      /\ Dirs \cap Files = {} /\ Dirs \subseteq Entries /\ Files \subseteq Entries
      /\ \A j, k \in 1 .. F : FileSeq[j] = FileSeq[k] => j = k
  BY Zenon, Facts
<1>2. /\ \A j, k \in 1 .. D : DirSeq[j] = DirSeq[k] => j = k
      /\ \A j, k \in 1 .. D : Parent[DirSeq[k]] = DirSeq[j] => j < k
      /\ \A e \in Dirs : \E j \in 1 .. D : e = DirSeq[j]
  <2>1. DirSeq \in Seq(Dirs)
    BY Zenon, TreeAssumptions
  <2>2. DOMAIN DirSeq = 1 .. D
    BY <2>1
  <2> QED BY Zenon, <2>2, TreeAssumptions DEF Dirs
<1>3. \A e \in Entries : Parent[e] # None => Parent[e] \in Dirs
  BY Zenon, TreeAssumptions
<1> HIDE DEF D, F
<1>4. ASSUME NEW k \in 1 .. N
      PROVE  \/ k \in 1 .. D /\ EntryAt(k) = DirSeq[k] /\ EntryAt(k) \in Dirs
             \/ k - D \in 1 .. F /\ k > D /\ EntryAt(k) = FileSeq[k - D] /\ EntryAt(k) \in Files
  <2>1. CASE k <= D
    <3>1. k \in 1 .. D
      BY <1>1, <2>1
    <3> QED BY Zenon, <1>1, <2>1, <3>1 DEF EntryAt, D
  <2>2. CASE ~(k <= D)
    <3>1. k - D \in 1 .. F /\ k > D
      BY <1>1, <2>2
    <3> QED BY Zenon, <1>1, <2>2, <3>1 DEF EntryAt, D
  <2> QED BY Zenon, <2>1, <2>2
<1>5. \A k \in 1 .. N : EntryAt(k) \in Entries
  BY Zenon, <1>1, <1>4
<1>6. ASSUME NEW j \in 1 .. N, NEW k \in 1 .. N, EntryAt(j) = EntryAt(k) PROVE j = k
  <2>1. \/ j \in 1 .. D /\ k \in 1 .. D /\ DirSeq[j] = DirSeq[k]
        \/ j - D \in 1 .. F /\ k - D \in 1 .. F /\ FileSeq[j - D] = FileSeq[k - D]
    BY Zenon, <1>1, <1>4, <1>6
  <2>2. j = k \/ j - D = k - D
    BY Zenon, <1>1, <1>2, <2>1
  <2> QED BY <1>1, <2>2
<1>7. ASSUME NEW k \in 1 .. N, Parent[EntryAt(k)] # None
      PROVE  \E j \in 1 .. N : j < k /\ EntryAt(j) = Parent[EntryAt(k)]
  <2>1. Parent[EntryAt(k)] \in Dirs
    BY Zenon, <1>3, <1>5, <1>7
  <2>2. PICK j \in 1 .. D : Parent[EntryAt(k)] = DirSeq[j]
    BY Zenon, <1>2, <2>1
  <2>3. j \in 1 .. N /\ j <= D
    BY <1>1
  <2>4. EntryAt(j) = DirSeq[j]
    BY Zenon, <2>3 DEF EntryAt, D
  <2>5. j < k
    <3>1. CASE k \in 1 .. D /\ EntryAt(k) = DirSeq[k]
      BY Zenon, <1>2, <2>2, <3>1
    <3>2. CASE k > D
      BY <1>1, <2>3, <3>2
    <3> QED BY Zenon, <1>4, <3>1, <3>2
  <2> QED BY Zenon, <2>2, <2>3, <2>4, <2>5
<1> QED BY Zenon, <1>5, <1>6, <1>7 DEF D, F

\* What a thread makes has an identity.
LEMMA MadeBy ==
    \A t \in Threads, e \in Entries :
        <<t, e>> \in Identities /\ <<t, e>> # None /\ <<t, e>>[1] = t /\ <<t, e>>[2] = e
<1>1. \A t \in Threads, e \in Entries : <<t, e>> \in Identities
  BY Zenon DEF Identities
<1>2. None \notin Identities
  BY Zenon, Facts
<1>3. \A t \in Threads, e \in Entries : <<t, e>> # None
  BY Zenon, <1>1, <1>2
<1>4. \A t \in Threads, e \in Entries : <<t, e>>[1] = t /\ <<t, e>>[2] = e
  BY Zenon
<1> QED BY Zenon, <1>1, <1>3, <1>4

\* The parts of a created target.
LEMMA CreatedParts ==
    ASSUME NEW p, NEW i, NEW r, CreatedAs(p, i, r) \in CreatedTarget
    PROVE  p \in Paths /\ i \in Identities /\ r \in BOOLEAN
BY DEF CreatedAs, CreatedTarget

\* What a step of t has to give for itself, and what it has to spare of the others'.
LeftOf(t) == Accounted(t)' /\ (Lone => OneOwner' /\ LoneOf(t)')

Spares(t) ==
    /\ \A u \in Threads \ {t} : refused'[u] = refused[u]
    /\ \A p \in Paths : fs'[p] \in {fs[p], None} \/ fs'[p][1] = t
    /\ Lone => /\ \A p \in Paths : fs[p] # None /\ fs[p][1] # t => fs'[p] = fs[p]
               /\ \A u \in Threads \ {t}, e \in Entries : <<u, e>> \in readonly' => <<u, e>> \in readonly

\* Then it keeps the invariant.
LEMMA LeftKept ==
    ASSUME BaseInv, CountInv, LeftInv, NEW t \in Threads, Keeps(t), LeftOf(t), Spares(t)
    PROVE  LeftInv'
<1>0. Lone' = Lone
  BY Zenon DEF Keeps, Lone
<1>1. ASSUME NEW u \in Threads \ {t} PROVE Accounted(u)'
  <2>1. /\ created'[u] = created[u] /\ pc'[u] = pc[u] /\ left'[u] = left[u] /\ status'[u] = status[u]
        /\ refused'[u] = refused[u] /\ Accounted(u)
    BY Zenon DEF Keeps, Spares, LeftInv
  <2>2. \A k : Past(u, k)' = Past(u, k)
    BY Zenon, <2>1 DEF Past
  <2>3. ASSUME NEW p \in Paths, fs'[p] # None, fs'[p][1] = u PROVE fs'[p] = fs[p]
    BY Zenon, <2>3 DEF Spares
  <2> SUFFICES ASSUME NEW p \in Paths, fs'[p] # None, fs'[p][1] = u
               PROVE  \E k \in 1 .. Len(created'[u]) :
                          /\ created'[u][k].path = p /\ created'[u][k].identity = fs'[p]
                          /\ created'[u][k].remove_on_cleanup /\ Past(u, k)' => p \in refused'[u]
    BY Zenon DEF Accounted
  <2>4. fs'[p] = fs[p]
    BY Zenon, <2>3
  <2>5. PICK k \in 1 .. Len(created[u]) :
            /\ created[u][k].path = p /\ created[u][k].identity = fs[p]
            /\ created[u][k].remove_on_cleanup /\ Past(u, k) => p \in refused[u]
    BY Zenon, <2>1, <2>4 DEF Accounted
  <2> QED BY Zenon, <2>1, <2>2, <2>4, <2>5
<1>2. ASSUME Lone, NEW u \in Threads \ {t} PROVE LoneOf(u)'
  <2>1. /\ created'[u] = created[u] /\ pc'[u] = pc[u] /\ left'[u] = left[u] /\ status'[u] = status[u]
        /\ root'[u] = root[u] /\ refused'[u] = refused[u] /\ LoneOf(u)
    BY Zenon, <1>2 DEF Keeps, Spares, LeftInv
  <2>2. (\A k : Past(u, k)' = Past(u, k)) /\ (\A e : Target(u, e)' = Target(u, e))
    BY Zenon, <2>1 DEF Past, Target
  <2>3. ASSUME NEW k \in 1 .. Len(created[u]), fs[Target(u, EntryAt(k))] = <<u, EntryAt(k)>>
        PROVE  fs'[Target(u, EntryAt(k))] = <<u, EntryAt(k)>>
    <3>1. created[u][k] = CreatedAs(Target(u, EntryAt(k)), <<u, EntryAt(k)>>, TRUE)
      BY Zenon, <2>1 DEF LoneOf
    <3>2. created[u] \in Seq(CreatedTarget)
      BY Zenon DEF BaseInv, TypeInv
    <3>3. created[u][k] \in CreatedTarget
      BY <3>2
    <3>4. CreatedAs(Target(u, EntryAt(k)), <<u, EntryAt(k)>>, TRUE) \in CreatedTarget
      BY Zenon, <3>1, <3>3
    <3>6. Target(u, EntryAt(k)) \in Paths /\ <<u, EntryAt(k)>> \in Identities
      BY Zenon, <3>4, CreatedParts
    <3>5. <<u, EntryAt(k)>> # None /\ <<u, EntryAt(k)>>[1] # t
      BY Zenon, <3>6, Facts
    <3> QED BY Zenon, <1>2, <2>3, <3>6, <3>5 DEF Spares
  <2>4. ASSUME NEW e \in Entries, <<u, e>> \in readonly' PROVE <<u, e>> \in readonly
    BY Zenon, <1>2, <2>4 DEF Spares
  <2> QED BY Zenon, <2>1, <2>2, <2>3, <2>4 DEF LoneOf
<1> QED BY Zenon, <1>0, <1>1, <1>2 DEF LeftInv, LeftOf

\* Neither before nor after the step t is in the cleanup.
Outside(t) == {pc[t], pc'[t]} \cap {"Check", "Remove", "Done"} = {}

\* A step that changes none of the files.
LEMMA LeftQuiet ==
    ASSUME BaseInv, LeftInv, NEW t \in Threads, fs' = fs, refused' = refused,
           created'[t] = created[t], root'[t] = root[t] \/ created[t] = <<>>,
           \A k \in 1 .. Len(created[t]) : Past(t, k)' = Past(t, k),
           Lone => /\ \A u \in Threads \ {t}, e \in Entries : <<u, e>> \in readonly' => <<u, e>> \in readonly
                   /\ \A e \in Entries : <<t, e>> \in readonly' =>
                         /\ pc'[t] \notin {"Check", "Remove"}
                         /\ \E k \in 1 .. Len(created[t]) : EntryAt(k) = e
    PROVE  LeftOf(t) /\ Spares(t)
<1>1. Accounted(t)'
  <2> SUFFICES ASSUME NEW p \in Paths, fs'[p] # None, fs'[p][1] = t
               PROVE  \E k \in 1 .. Len(created'[t]) :
                          /\ created'[t][k].path = p /\ created'[t][k].identity = fs'[p]
                          /\ created'[t][k].remove_on_cleanup /\ Past(t, k)' => p \in refused'[t]
    BY Zenon DEF Accounted
  <2>1. PICK k \in 1 .. Len(created[t]) :
            /\ created[t][k].path = p /\ created[t][k].identity = fs[p]
            /\ created[t][k].remove_on_cleanup /\ Past(t, k) => p \in refused[t]
    BY Zenon DEF LeftInv, Accounted
  <2> QED BY Zenon, <2>1
<1>2. ASSUME Lone PROVE OneOwner' /\ LoneOf(t)'
  <2>1. OneOwner /\ LoneOf(t)
    BY Zenon, <1>2 DEF LeftInv
  <2>2. OneOwner'
    BY Zenon, <2>1 DEF OneOwner
  <2>3. \A k \in 1 .. Len(created[t]) : \A e : Target(t, e)' = Target(t, e)
    <3>1. CASE created[t] = <<>>
      <4>1. 1 .. Len(created[t]) = {}
        BY <3>1
      <4> QED BY Zenon, <4>1
    <3>2. CASE root'[t] = root[t]
      BY Zenon, <3>2 DEF Target
    <3> QED BY Zenon, <3>1, <3>2
  <2>4. LoneOf(t)'
    BY Zenon, <1>2, <2>1, <2>3 DEF LoneOf
  <2> QED BY Zenon, <2>2, <2>4
<1>3. Spares(t)
  BY Zenon DEF Spares
<1> QED BY Zenon, <1>1, <1>2, <1>3 DEF LeftOf

\* What is pushed comes last.
LEMMA Pushed ==
    ASSUME TypeInv, NEW t \in Threads, NEW p \in Paths, NEW i \in Identities, NEW r \in BOOLEAN,
           Push(t, CreatedAs(p, i, r))
    PROVE  LET n == Len(created[t]) IN
           /\ n \in Nat /\ Len(created'[t]) = n + 1 /\ n + 1 \in 1 .. n + 1
           /\ \A k \in 1 .. n : k \in 1 .. n + 1 /\ created'[t][k] = created[t][k]
           /\ \A k \in 1 .. n + 1 : k = n + 1 \/ k \in 1 .. n
           /\ created'[t][n + 1] = CreatedAs(p, i, r)
<1> DEFINE n == Len(created[t])
<1>1. created[t] \in Seq(CreatedTarget) /\ created'[t] = Append(created[t], CreatedAs(p, i, r))
  BY Zenon DEF TypeInv, Push
<1>2. CreatedAs(p, i, r) \in CreatedTarget
  BY Zenon DEF CreatedAs, CreatedTarget
<1>3. /\ n \in Nat /\ Len(created'[t]) = n + 1 /\ created'[t][n + 1] = CreatedAs(p, i, r)
      /\ \A k \in 1 .. n : created'[t][k] = created[t][k]
  <2> DEFINE c == CreatedAs(p, i, r)
             q == created[t]
  <2>1. c \in CreatedTarget /\ q \in Seq(CreatedTarget)
    BY Zenon, <1>1, <1>2
  <2> HIDE DEF c, q
  <2>2. /\ Len(Append(q, c)) = Len(q) + 1 /\ Len(q) \in Nat
        /\ Append(q, c)[Len(q) + 1] = c /\ \A k \in 1 .. Len(q) : Append(q, c)[k] = q[k]
    BY <2>1, Appended
  <2> QED BY Zenon, <1>1, <2>2 DEF c, q
<1> HIDE DEF n
<1>4. /\ n + 1 \in 1 .. n + 1 /\ \A k \in 1 .. n : k \in 1 .. n + 1
      /\ \A k \in 1 .. n + 1 : k = n + 1 \/ k \in 1 .. n
  BY <1>3
<1> QED BY Zenon, <1>3, <1>4 DEF n

\* What was made, or found, is among the targets.
LEMMA PushedAccounted ==
    ASSUME BaseInv, LeftInv, NEW t \in Threads, Outside(t), refused' = refused,
           NEW p \in Paths, NEW i \in Identities, NEW r \in BOOLEAN, Push(t, CreatedAs(p, i, r)),
           \A q \in Paths : fs'[q] = fs[q] \/ (q = p /\ fs'[q] = i)
    PROVE  Accounted(t)'
<1> SUFFICES ASSUME NEW q \in Paths, fs'[q] # None, fs'[q][1] = t
             PROVE  \E k \in 1 .. Len(created'[t]) :
                        /\ created'[t][k].path = q /\ created'[t][k].identity = fs'[q]
                        /\ created'[t][k].remove_on_cleanup /\ Past(t, k)' => q \in refused'[t]
  BY Zenon DEF Accounted
<1>1. \A k : ~Past(t, k)'
  BY Zenon DEF Outside, Past
<1> DEFINE n == Len(created[t])
<1>2. /\ Len(created'[t]) = n + 1 /\ n + 1 \in 1 .. n + 1
      /\ \A k \in 1 .. n : k \in 1 .. n + 1 /\ created'[t][k] = created[t][k]
      /\ created'[t][n + 1] = CreatedAs(p, i, r)
  BY ZenonT(60), Pushed DEF BaseInv
<1>3. CASE fs'[q] = fs[q]
  <2>1. PICK k \in 1 .. n : created[t][k].path = q /\ created[t][k].identity = fs[q]
    BY Zenon, <1>3 DEF LeftInv, Accounted
  <2> QED BY Zenon, <1>1, <1>2, <1>3, <2>1
<1>4. CASE q = p /\ fs'[q] = i
  <2>1. CreatedAs(p, i, r).path = p /\ CreatedAs(p, i, r).identity = i
    BY Zenon DEF CreatedAs
  <2>2. created'[t][n + 1].path = q /\ created'[t][n + 1].identity = fs'[q]
    BY Zenon, <1>2, <1>4, <2>1
  <2> QED BY Zenon, <1>1, <1>2, <2>2
<1> QED BY Zenon, <1>3, <1>4

\* A directory or a file is made.
LEMMA LeftMade ==
    ASSUME BaseInv, CountInv, LeftInv, NEW t \in Threads, NEW e \in Entries, NEW p \in Paths,
           Create(t, p, e), Outside(t), refused' = refused, readonly' = readonly, root' = root,
           Lone => /\ p = Target(t, e) /\ e = EntryAt(Len(created[t]) + 1)
                   /\ Len(created[t]) + 1 <= Len(DirSeq) + Len(FileSeq)
    PROVE  LeftOf(t) /\ Spares(t)
<1> DEFINE n == Len(created[t])
           N == Len(DirSeq) + Len(FileSeq)
           i == <<t, e>>
<1>0. TypeInv /\ CountOf(t) /\ fs \in [Paths -> Identities \cup {None}]
  BY Zenon DEF BaseInv, CountInv, TypeInv
<1>1. i \in Identities /\ i # None /\ i[1] = t /\ i[2] = e
  BY Zenon, MadeBy
<1>2. fs[p] = None /\ fs' = [fs EXCEPT ![p] = i] /\ Push(t, CreatedAs(p, i, TRUE))
  BY Zenon DEF Create
<1>3. fs'[p] = i /\ \A q \in Paths : q # p => fs'[q] = fs[q]
  BY Zenon, <1>0, <1>2
<1> HIDE DEF i
<1>4. Accounted(t)'
  <2>1. \A q \in Paths : fs'[q] = fs[q] \/ (q = p /\ fs'[q] = i)
    BY Zenon, <1>3
  <2> QED BY ZenonT(60), <1>1, <1>2, <2>1, PushedAccounted
<1>5. Spares(t)
  <2>1. \A q \in Paths : fs'[q] = fs[q] \/ fs'[q][1] = t
    BY Zenon, <1>1, <1>3
  <2>2. \A q \in Paths : fs[q] # None => fs'[q] = fs[q]
    BY Zenon, <1>2, <1>3
  <2> QED BY Zenon, <2>1, <2>2 DEF Spares
<1>6. ASSUME Lone PROVE OneOwner' /\ LoneOf(t)'
  <2>0. /\ OneOwner /\ LoneOf(t) /\ p = Target(t, e) /\ e = EntryAt(n + 1) /\ n + 1 <= N
        /\ \A k : ~Past(t, k) /\ ~Past(t, k)'
        /\ root[t] \in Roots
    BY Zenon, <1>0, <1>6 DEF LeftInv, Outside, Past, TypeInv
  <2>1. /\ n \in Nat /\ Len(created'[t]) = n + 1 /\ n + 1 \in 1 .. n + 1
        /\ \A k \in 1 .. n : k \in 1 .. n + 1 /\ created'[t][k] = created[t][k]
        /\ \A k \in 1 .. n + 1 : k = n + 1 \/ k \in 1 .. n
        /\ created'[t][n + 1] = CreatedAs(p, i, TRUE)
    BY Zenon, <1>0, <1>1, <1>2, Pushed
  <2>2. \A x : Target(t, x)' = Target(t, x)
    BY Zenon DEF Target
  <2>3. n + 1 \in 1 .. N /\ \A k \in 1 .. N : k < n + 1 => k \in 1 .. n
    <3>1. N \in Nat
      BY Facts
    <3> QED BY <2>0, <2>1, <3>1
  <2>4. \A k \in 1 .. n : fs[Target(t, EntryAt(k))] = <<t, EntryAt(k)>>
    BY Zenon, <2>0 DEF LoneOf
  <2>5. LoneOf(t)'
    <3>1. ASSUME NEW k \in 1 .. n + 1
          PROVE  /\ created'[t][k] = CreatedAs(Target(t, EntryAt(k)), <<t, EntryAt(k)>>, TRUE)
                 /\ fs'[Target(t, EntryAt(k))] = <<t, EntryAt(k)>>
      <4>1. CASE k = n + 1
        BY Zenon, <1>3, <2>0, <2>1, <4>1 DEF i
      <4>2. CASE k \in 1 .. n
        <5>1. created'[t][k] = CreatedAs(Target(t, EntryAt(k)), <<t, EntryAt(k)>>, TRUE)
          BY Zenon, <2>0, <2>1, <4>2 DEF LoneOf
        <5>2. k \in 1 .. N
          <6>1. N \in Nat
            BY Facts
          <6> QED BY <2>0, <2>1, <4>2, <6>1
        <5>3. Target(t, EntryAt(k)) \in Paths
          BY Zenon, <2>0, <5>2, EntryFacts, Facts DEF Target
        <5>4. <<t, EntryAt(k)>> # None
          BY Zenon, <5>2, EntryFacts, MadeBy
        <5>5. fs[Target(t, EntryAt(k))] = <<t, EntryAt(k)>>
          BY Zenon, <2>4, <4>2
        <5>6. Target(t, EntryAt(k)) # p
          BY Zenon, <1>2, <5>4, <5>5
        <5> QED BY Zenon, <1>3, <5>1, <5>3, <5>5, <5>6
      <4> QED BY Zenon, <2>1, <4>1, <4>2
    <3>2. ASSUME NEW x \in Entries, <<t, x>> \in readonly'
          PROVE  pc'[t] \notin {"Check", "Remove"} /\ \E k \in 1 .. n + 1 : EntryAt(k) = x
      BY Zenon, <2>0, <2>1, <3>2 DEF LoneOf, Outside
    <3> QED BY Zenon, <2>0, <2>1, <2>2, <3>1, <3>2 DEF LoneOf
  <2>6. OneOwner'
    <3> SUFFICES ASSUME NEW q \in Paths, fs'[q] # None
                 PROVE  /\ q \in Roots \X Entries /\ fs'[q][2] = q[2]
                        /\ Parent[q[2]] # None =>
                              fs'[<<q[1], Parent[q[2]]>>] = <<fs'[q][1], Parent[q[2]]>>
      BY Zenon DEF OneOwner
    <3>1. CASE q = p
      <4>1. q = <<root[t], e>> /\ fs'[q] = <<t, e>>
        BY Zenon, <1>3, <2>0, <3>1 DEF Target, i
      <4>2. ASSUME Parent[e] # None PROVE fs'[<<root[t], Parent[e]>>] = <<t, Parent[e]>>
        <5>1. PICK j \in 1 .. N : j < n + 1 /\ EntryAt(j) = Parent[e]
          BY Zenon, <2>0, <2>3, <4>2, EntryFacts
        <5>2. fs[Target(t, Parent[e])] = <<t, Parent[e]>>
          BY Zenon, <2>3, <2>4, <5>1
        <5>3. Parent[e] \in Entries
          BY Zenon, <5>1, EntryFacts
        <5>4. Target(t, Parent[e]) \in Paths /\ <<t, Parent[e]>> # None
          BY Zenon, <2>0, <5>3, Facts, MadeBy DEF Target
        <5>5. Target(t, Parent[e]) # p
          BY Zenon, <1>2, <5>2, <5>4
        <5> QED BY Zenon, <1>3, <5>2, <5>4, <5>5 DEF Target
      <4>3. q \in Roots \X Entries /\ q[1] = root[t] /\ q[2] = e /\ fs'[q][1] = t /\ fs'[q][2] = e
        BY <2>0, <4>1
      <4> QED BY Zenon, <4>2, <4>3
    <3>2. CASE q # p
      <4>1. fs'[q] = fs[q] /\ fs[q] # None
        BY Zenon, <1>3, <3>2
      <4>2. /\ q \in Roots \X Entries /\ fs[q][2] = q[2]
            /\ Parent[q[2]] # None => fs[<<q[1], Parent[q[2]]>>] = <<fs[q][1], Parent[q[2]]>>
        BY Zenon, <2>0, <4>1 DEF OneOwner
      <4>3. ASSUME Parent[q[2]] # None PROVE fs'[<<q[1], Parent[q[2]]>>] = <<fs'[q][1], Parent[q[2]]>>
        <5>1. fs[q] \in Identities /\ Parent[q[2]] \in Dirs /\ q[1] \in Roots
          BY Zenon, <1>0, <4>1, <4>2, <4>3, TreeAssumptions
        <5>2. <<fs[q][1], Parent[q[2]]>> \in Identities /\ <<q[1], Parent[q[2]]>> \in Paths
          BY Zenon, <5>1, Facts DEF Identities
        <5>3. <<q[1], Parent[q[2]]>> # p
          BY Zenon, <1>2, <4>2, <4>3, <5>2, Facts
        <5> QED BY Zenon, <1>3, <4>1, <4>2, <4>3, <5>2, <5>3
      <4> QED BY Zenon, <4>1, <4>2, <4>3
    <3> QED BY Zenon, <3>1, <3>2
  <2> QED BY Zenon, <2>5, <2>6
<1> QED BY Zenon, <1>4, <1>5, <1>6 DEF LeftOf

\* A step that changes neither files nor permissions.
LEMMA LeftStill ==
    ASSUME BaseInv, LeftInv, NEW t \in Threads, UNCHANGED <<fs, refused, readonly>>,
           created'[t] = created[t], root'[t] = root[t] \/ created[t] = <<>>,
           \A k \in 1 .. Len(created[t]) : Past(t, k)' = Past(t, k),
           pc'[t] \in {"Check", "Remove"} => pc[t] \in {"Check", "Remove"}
    PROVE  LeftOf(t) /\ Spares(t)
<1>1. Lone => \A e \in Entries : <<t, e>> \in readonly' =>
                 /\ pc'[t] \notin {"Check", "Remove"}
                 /\ \E k \in 1 .. Len(created[t]) : EntryAt(k) = e
  BY Zenon DEF LeftInv, LoneOf
<1> QED BY Zenon, <1>1, LeftQuiet

\* A directory is found, and taken over.
LEMMA LeftFound ==
    ASSUME BaseInv, LeftInv, NEW t \in Threads, policy[t] = "Overwrite", Outside(t),
           UNCHANGED <<fs, refused>>, NEW p \in Paths, NEW i \in Identities, Push(t, CreatedAs(p, i, FALSE))
    PROVE  LeftOf(t) /\ Spares(t)
<1>1. ~Lone
  BY Zenon DEF Lone
<1>2. Accounted(t)'
  BY Zenon, PushedAccounted
<1> QED BY Zenon, <1>1, <1>2 DEF LeftOf, Spares

\* A replacement takes the place of a file.
LEMMA LeftReplaced ==
    ASSUME BaseInv, LeftInv, NEW t \in Threads, policy[t] = "Overwrite", Outside(t), refused' = refused,
           created[t] # <<>>, LastPath(t) = Temp(t), File(t) \in Files, NEW p \in Paths, Replace(t, p)
    PROVE  LeftOf(t) /\ Spares(t)
<1> DEFINE n == Len(created[t])
           c == CreatedAs(p, <<t, File(t)>>, FALSE)
<1>1. /\ \A q \in Paths : fs'[q] = IF q = Temp(t) THEN None ELSE IF q = p THEN <<t, File(t)>> ELSE fs[q]
      /\ n \in Nat \ {0} /\ Len(created'[t]) = n
      /\ \A k \in 1 .. n - 1 : created'[t][k] = created[t][k]
      /\ created'[t][n] = c
  BY Zenon, Replacing
<1>2. ~Lone
  BY Zenon DEF Lone
<1>3. c.path = p /\ c.identity = <<t, File(t)>> /\ ~c.remove_on_cleanup
  BY Zenon DEF CreatedAs
<1>4. \A k : ~Past(t, k)'
  BY Zenon DEF Outside, Past
<1>5. LastPath(t) = created[t][n].path
  BY Zenon DEF LastPath
<1> HIDE DEF n, c
<1>6. n \in 1 .. n /\ \A k \in 1 .. n : k = n \/ k \in 1 .. n - 1
  BY <1>1
<1>7. Accounted(t)'
  <2> SUFFICES ASSUME NEW q \in Paths, fs'[q] # None, fs'[q][1] = t
               PROVE  \E k \in 1 .. Len(created'[t]) :
                          /\ created'[t][k].path = q /\ created'[t][k].identity = fs'[q]
                          /\ created'[t][k].remove_on_cleanup /\ Past(t, k)' => q \in refused'[t]
    BY Zenon DEF Accounted
  <2>1. CASE q = p
    <3>1. fs'[q] = <<t, File(t)>>
      BY Zenon, <1>1, <2>1
    <3>2. created'[t][n].path = q /\ created'[t][n].identity = fs'[q]
      BY Zenon, <1>1, <1>3, <2>1, <3>1
    <3> QED BY Zenon, <1>1, <1>4, <1>6, <3>2
  <2>2. CASE q # p
    <3>1. q # Temp(t) /\ fs'[q] = fs[q]
      BY Zenon, <1>1, <2>2
    <3>2. PICK k \in 1 .. n : created[t][k].path = q /\ created[t][k].identity = fs[q]
      BY Zenon, <3>1 DEF LeftInv, Accounted, n
    <3>3. k \in 1 .. n - 1
      BY Zenon, <1>5, <1>6, <3>1, <3>2
    <3>4. created'[t][k].path = q /\ created'[t][k].identity = fs'[q]
      BY Zenon, <1>1, <3>1, <3>2, <3>3
    <3> QED BY Zenon, <1>1, <1>4, <3>2, <3>4
  <2> QED BY Zenon, <2>1, <2>2
<1>8. Spares(t)
  <2>1. ASSUME NEW q \in Paths PROVE fs'[q] \in {fs[q], None} \/ fs'[q][1] = t
    <3>1. <<t, File(t)>>[1] = t
      BY Zenon
    <3>2. fs'[q] = None \/ fs'[q] = fs[q] \/ fs'[q] = <<t, File(t)>>
      BY Zenon, <1>1
    <3> QED BY Zenon, <3>1, <3>2
  <2> QED BY Zenon, <1>2, <2>1 DEF Spares
<1> QED BY Zenon, <1>2, <1>7, <1>8 DEF LeftOf

\* The metadata of a directory of the thread.
LEMMA LeftMetadata ==
    ASSUME BaseInv, CountInv, LeftInv, NEW t \in Threads, apply_directory_metadata(t)
    PROVE  LeftOf(t) /\ Spares(t)
<1> DEFINE k == Len(DirSeq) + 1 - index[t]
           i == created[t][k].identity
<1>0. TypeInv /\ CountOf(t)
  BY Zenon DEF BaseInv, CountInv
<1>1. /\ pc[t] = "Metadata" /\ pc'[t] \in {"Mark", "Metadata", "Restore"}
      /\ UNCHANGED <<fs, refused, created, root>> /\ readonly' \subseteq readonly \cup {i}
  BY Zenon, <1>0, Going DEF apply_directory_metadata, restVars, taskVars
<1>2. k \in 1 .. Len(created[t])
  <2>1. Len(created[t]) \in Nat /\ Len(DirSeq) \in Nat
    BY Zenon, <1>0, Numbers
  <2>2. Len(created[t]) >= Len(DirSeq) /\ index[t] \in 1 .. Len(DirSeq)
    BY Zenon, <1>0, <1>1 DEF CountOf
  <2> QED BY <2>1, <2>2
<1> HIDE DEF k
<1>3. \A j : Past(t, j)' = Past(t, j)
  BY Zenon, <1>1 DEF Past
<1>4. ASSUME Lone
      PROVE  /\ \A u \in Threads \ {t}, e \in Entries : <<u, e>> \in readonly' => <<u, e>> \in readonly
             /\ \A e \in Entries : <<t, e>> \in readonly' =>
                   /\ pc'[t] \notin {"Check", "Remove"}
                   /\ \E j \in 1 .. Len(created[t]) : EntryAt(j) = e
  <2>1. LoneOf(t)
    BY Zenon, <1>4 DEF LeftInv
  <2>2. i = <<t, EntryAt(k)>>
    <3>1. created[t][k] = CreatedAs(Target(t, EntryAt(k)), <<t, EntryAt(k)>>, TRUE)
      BY Zenon, <1>2, <2>1 DEF LoneOf
    <3>2. CreatedAs(Target(t, EntryAt(k)), <<t, EntryAt(k)>>, TRUE).identity = <<t, EntryAt(k)>>
      BY Zenon DEF CreatedAs
    <3> QED BY Zenon, <3>1, <3>2
  <2> HIDE DEF i
  <2>3. ASSUME NEW u \in Threads \ {t}, NEW e \in Entries, <<u, e>> \in readonly' PROVE <<u, e>> \in readonly
    <3>1. <<u, e>> # <<t, EntryAt(k)>>
      OBVIOUS
    <3> QED BY Zenon, <1>1, <2>2, <2>3, <3>1
  <2>4. ASSUME NEW e \in Entries, <<t, e>> \in readonly'
        PROVE  \E j \in 1 .. Len(created[t]) : EntryAt(j) = e
    <3>1. CASE <<t, e>> \in readonly
      BY Zenon, <2>1, <3>1 DEF LoneOf
    <3>2. CASE <<t, e>> = <<t, EntryAt(k)>>
      <4>1. e = EntryAt(k)
        BY <3>2
      <4> QED BY Zenon, <1>2, <4>1
    <3> QED BY Zenon, <1>1, <2>2, <2>4, <3>1, <3>2
  <2>5. pc'[t] \notin {"Check", "Remove"}
    BY Zenon, <1>1
  <2> QED BY Zenon, <2>3, <2>4, <2>5
<1> QED BY Zenon, <1>1, <1>3, <1>4, LeftQuiet

\* The cleanup begins: the permissions of what is to be removed are restored.
LEMMA LeftRestored ==
    ASSUME BaseInv, LeftInv, NEW t \in Threads, restore_created_directory_permissions(t)
    PROVE  LeftOf(t) /\ Spares(t)
<1> DEFINE S == {created[t][k].identity : k \in
                   {j \in DOMAIN created[t] : LET c == created[t][j] IN
                       c.remove_on_cleanup /\ fs[c.path] = c.identity}}
<1>0. TypeInv /\ left \in [Threads -> Nat]
  BY Zenon DEF BaseInv, TypeInv
<1>1. /\ pc[t] = "Restore" /\ pc'[t] = "Check" /\ left'[t] = Len(created[t])
      /\ UNCHANGED <<fs, refused, created, root>> /\ readonly' = readonly \ S
      /\ status'[t] = status[t]
  BY Zenon, <1>0, Going DEF restore_created_directory_permissions
<1>2. Len(created[t]) \in Nat /\ DOMAIN created[t] = 1 .. Len(created[t])
  BY <1>0, Numbers
<1>3. \A k \in 1 .. Len(created[t]) : Past(t, k)' = Past(t, k)
  <2> SUFFICES ASSUME NEW k \in 1 .. Len(created[t]) PROVE ~Past(t, k)' /\ ~Past(t, k)
    BY Zenon DEF Past
  <2>1. ~(k > left'[t])
    BY <1>1, <1>2
  <2> QED BY Zenon, <1>1, <2>1 DEF Past
<1>4. ASSUME Lone, NEW e \in Entries PROVE <<t, e>> \notin readonly'
  <2> SUFFICES ASSUME <<t, e>> \in readonly PROVE <<t, e>> \in S
    BY Zenon, <1>1
  <2>1. LoneOf(t)
    BY Zenon, <1>4 DEF LeftInv
  <2>2. PICK k \in 1 .. Len(created[t]) : EntryAt(k) = e
    BY Zenon, <2>1 DEF LoneOf
  <2>3. ~Past(t, k)
    BY Zenon, <1>1 DEF Past
  <2>4. created[t][k] = CreatedAs(Target(t, e), <<t, e>>, TRUE) /\ fs[Target(t, e)] = <<t, e>>
    BY Zenon, <2>1, <2>2, <2>3 DEF LoneOf
  <2>5. LET c == CreatedAs(Target(t, e), <<t, e>>, TRUE)
        IN  c.path = Target(t, e) /\ c.identity = <<t, e>> /\ c.remove_on_cleanup
    BY Zenon DEF CreatedAs
  <2>6. /\ created[t][k].path = Target(t, e) /\ created[t][k].identity = <<t, e>>
        /\ created[t][k].remove_on_cleanup
    BY Zenon, <2>4, <2>5
  <2> QED BY Zenon, <1>2, <2>4, <2>6
<1>5. \A u \in Threads \ {t}, e \in Entries : <<u, e>> \in readonly' => <<u, e>> \in readonly
  BY Zenon, <1>1
<1> QED BY Zenon, <1>1, <1>3, <1>4, <1>5, LeftQuiet

\* The cleanup looks at a target.
LEMMA LeftChecked ==
    ASSUME BaseInv, LeftInv, NEW t \in Threads, CheckTarget(t)
    PROVE  LeftOf(t) /\ Spares(t)
<1> DEFINE k == left[t]
           c == created[t][k]
<1>0. /\ TypeInv /\ left \in [Threads -> Nat] /\ pc[t] = "Check" /\ k \in 0 .. Len(created[t])
      /\ status[t] # "Ok" /\ UNCHANGED <<fs, refused, readonly, created, root>>
  BY Zenon DEF BaseInv, TypeInv, PhaseOf, CheckTarget, fileVars
<1>1. \/ k = 0 /\ pc'[t] = "Done" /\ left'[t] = k /\ status'[t] = status[t]
      \/ k # 0 /\ pc'[t] = "Remove" /\ left'[t] = k /\ status'[t] = status[t]
      \/ /\ k # 0 /\ ~(c.remove_on_cleanup /\ fs[c.path] = c.identity)
         /\ pc'[t] = "Check" /\ left'[t] = k - 1 /\ status'[t] = status[t]
  BY Zenon, <1>0, Going DEF CheckTarget
<1>2. Len(created[t]) \in Nat
  BY Zenon, <1>0, Numbers
<1>3. CASE k = 0 /\ pc'[t] = "Done" /\ left'[t] = k /\ status'[t] = status[t]
  <2>1. \A j \in 1 .. Len(created[t]) : j > left[t]
    BY <1>2, <1>3
  <2>2. \A j \in 1 .. Len(created[t]) : Past(t, j)' = Past(t, j)
    BY Zenon, <1>0, <1>3, <2>1 DEF Past
  <2> QED BY Zenon, <1>0, <1>3, <2>2, LeftStill
<1>4. CASE k # 0 /\ pc'[t] = "Remove" /\ left'[t] = k /\ status'[t] = status[t]
  <2>1. \A j \in 1 .. Len(created[t]) : Past(t, j)' = Past(t, j)
    BY Zenon, <1>0, <1>4 DEF Past
  <2> QED BY Zenon, <1>0, <2>1, LeftStill
<1>5. CASE /\ k # 0 /\ ~(c.remove_on_cleanup /\ fs[c.path] = c.identity)
           /\ pc'[t] = "Check" /\ left'[t] = k - 1 /\ status'[t] = status[t]
  <2>1. k \in 1 .. Len(created[t]) /\ ~(k > left[t])
    BY <1>0, <1>2, <1>5
  <2>2. \A j \in 1 .. Len(created[t]) : j # k => (j > k - 1 <=> j > left[t])
    BY <1>0, <1>2
  <2>3. \A j \in 1 .. Len(created[t]) : j # k => Past(t, j)' = Past(t, j)
    BY Zenon, <1>0, <1>5, <2>2 DEF Past
  <2>4. Accounted(t)'
    <3> SUFFICES ASSUME NEW q \in Paths, fs'[q] # None, fs'[q][1] = t
                 PROVE  \E j \in 1 .. Len(created'[t]) :
                            /\ created'[t][j].path = q /\ created'[t][j].identity = fs'[q]
                            /\ created'[t][j].remove_on_cleanup /\ Past(t, j)' => q \in refused'[t]
      BY Zenon DEF Accounted
    <3>1. PICK j \in 1 .. Len(created[t]) :
              /\ created[t][j].path = q /\ created[t][j].identity = fs[q]
              /\ created[t][j].remove_on_cleanup /\ Past(t, j) => q \in refused[t]
      BY Zenon, <1>0 DEF LeftInv, Accounted
    <3>2. CASE j = k
      BY Zenon, <1>0, <1>5, <3>1, <3>2
    <3>3. CASE j # k
      BY Zenon, <1>0, <2>3, <3>1, <3>3
    <3> QED BY Zenon, <3>2, <3>3
  <2>5. ~Lone
    <3> SUFFICES ASSUME Lone PROVE FALSE
      BY Zenon
    <3>1. LoneOf(t) /\ ~Past(t, k)
      BY Zenon, <1>0, <2>1 DEF LeftInv, Past
    <3> DEFINE e == EntryAt(k)
    <3>2. c = CreatedAs(Target(t, e), <<t, e>>, TRUE) /\ fs[Target(t, e)] = <<t, e>>
      BY Zenon, <2>1, <3>1 DEF LoneOf
    <3>3. /\ CreatedAs(Target(t, e), <<t, e>>, TRUE).path = Target(t, e)
          /\ CreatedAs(Target(t, e), <<t, e>>, TRUE).identity = <<t, e>>
          /\ CreatedAs(Target(t, e), <<t, e>>, TRUE).remove_on_cleanup
      BY Zenon DEF CreatedAs
    <3>4. c.path = Target(t, e) /\ c.identity = <<t, e>> /\ c.remove_on_cleanup
      BY Zenon, <3>2, <3>3
    <3> QED BY Zenon, <1>5, <3>2, <3>4
  <2> QED BY Zenon, <1>0, <2>4, <2>5 DEF LeftOf, Spares
<1> QED BY Zenon, <1>1, <1>3, <1>4, <1>5

\* Where nobody overwrites, what the cleanup comes to can be removed: it is empty,
\* and the directory it is in is writable.
LEMMA CanRemove ==
    ASSUME BaseInv, CountInv, LeftInv, Lone, NEW t \in Threads, pc[t] = "Remove"
    PROVE  LET k == left[t]
               p == Target(t, EntryAt(k))
           IN  /\ p \in Paths /\ fs[p] = <<t, EntryAt(k)>> /\ created[t][k].path = p
               /\ created[t][k].identity = fs[p] /\ Writable(p) /\ Empty(p)
<1> DEFINE k == left[t]
           e == EntryAt(k)
           r == root[t]
           p == <<r, e>>
           N == Len(DirSeq) + Len(FileSeq)
<1>0. /\ TypeInv /\ CountOf(t) /\ k \in 1 .. Len(created[t]) /\ OneOwner /\ LoneOf(t)
      /\ r \in Roots /\ fs \in [Paths -> Identities \cup {None}] /\ p = Target(t, EntryAt(k))
  BY Zenon DEF BaseInv, TypeInv, CountInv, PhaseOf, LeftInv, Target
<1>1. /\ Len(created[t]) \in Nat /\ N \in Nat /\ Len(created[t]) <= N
      /\ \A j \in 1 .. Len(created[t]) : j \in 1 .. N
      /\ ~(k > left[t])
  <2>1. Len(created[t]) \in Nat /\ Len(DirSeq) \in Nat /\ Len(FileSeq) \in Nat /\ left[t] \in Nat
    BY Zenon, <1>0, Numbers
  <2>2. Len(created[t]) <= N
    BY Zenon, <1>0 DEF CountOf
  <2> QED BY <2>1, <2>2
<1>2. e \in Entries /\ p \in Paths /\ p[1] = r /\ p[2] = e /\ p # None
  <2>1. e \in Entries
    BY Zenon, <1>0, <1>1, EntryFacts
  <2>2. p \in Paths /\ None \notin Paths
    BY Zenon, <1>0, <2>1, Facts
  <2>3. p[1] = r /\ p[2] = e
    BY Zenon
  <2> QED BY Zenon, <2>1, <2>2, <2>3
<1>3. created[t][k] = CreatedAs(p, <<t, e>>, TRUE) /\ fs[p] = <<t, e>>
  <2>1. ~Past(t, k)
    BY Zenon, <1>1 DEF Past
  <2> QED BY Zenon, <1>0, <2>1 DEF LoneOf, Target
<1>4. created[t][k].path = p /\ created[t][k].identity = <<t, e>>
  <2>1. CreatedAs(p, <<t, e>>, TRUE).path = p /\ CreatedAs(p, <<t, e>>, TRUE).identity = <<t, e>>
    BY Zenon DEF CreatedAs
  <2> QED BY Zenon, <1>3, <2>1
<1>5. fs[p] # None /\ fs[p][1] = t
  BY ZenonT(60), <1>2, <1>3, MadeBy
<1>6. \A q \in Roots \X Entries : DirOf(q) = IF Parent[q[2]] = None THEN None ELSE <<q[1], Parent[q[2]]>>
  BY Zenon DEF DirOf
<1>7. p \in Roots \X Entries
  BY Zenon, <1>0, <1>2
<1>8. Writable(p)
  <2> SUFFICES ASSUME DirOf(p) # None PROVE fs[DirOf(p)] \notin readonly \cup {None}
    BY Zenon DEF Writable
  <2>1. Parent[e] # None /\ DirOf(p) = <<r, Parent[e]>>
    BY Zenon, <1>2, <1>6, <1>7
  <2>2. Parent[e] \in Entries
    <3>1. Parent \in [Entries -> Dirs \cup {None}] /\ Dirs \subseteq Entries
      BY Zenon, TreeAssumptions, Facts
    <3> QED BY Zenon, <1>2, <2>1, <3>1
  <2>3. fs[DirOf(p)] = <<t, Parent[e]>>
    BY Zenon, <1>0, <1>2, <1>5, <2>1 DEF OneOwner
  <2>4. <<t, Parent[e]>> \notin readonly
    BY Zenon, <1>0, <2>2 DEF LoneOf
  <2>5. <<t, Parent[e]>> # None
    BY Zenon, <2>2, MadeBy
  <2> QED BY Zenon, <2>3, <2>4, <2>5
<1>9. Empty(p)
  <2>1. ASSUME NEW q \in Roots \X Entries, DirOf(q) = p PROVE fs[q] = None
    <3> SUFFICES ASSUME fs[q] # None PROVE FALSE
      BY Zenon
    <3>1. q \in Paths /\ Parent[q[2]] # None /\ p = <<q[1], Parent[q[2]]>>
      BY Zenon, <1>2, <1>6, <2>1 DEF Paths
    <3>2. fs[p] = <<fs[q][1], Parent[q[2]]>>
      BY Zenon, <1>0, <3>1 DEF OneOwner
    <3>3. fs[q][1] = t /\ Parent[q[2]] = e
      <4>1. <<fs[q][1], Parent[q[2]]>> = <<t, e>>
        BY Zenon, <1>3, <3>2
      <4> HIDE DEF e
      <4> QED BY <4>1
    <3>4. PICK j \in 1 .. Len(created[t]) :
              /\ created[t][j].path = q
              /\ created[t][j].remove_on_cleanup /\ Past(t, j) => q \in refused[t]
      BY Zenon, <3>1, <3>3 DEF LeftInv, Accounted
    <3> DEFINE x == EntryAt(j)
    <3>5. created[t][j] = CreatedAs(<<r, x>>, <<t, x>>, TRUE) /\ refused[t] = {}
      BY Zenon, <1>0 DEF LoneOf, Target
    <3>6. CreatedAs(<<r, x>>, <<t, x>>, TRUE).path = <<r, x>> /\ CreatedAs(<<r, x>>, <<t, x>>, TRUE).remove_on_cleanup
      BY Zenon DEF CreatedAs
    <3>7. q = <<r, x>> /\ ~Past(t, j)
      BY Zenon, <3>4, <3>5, <3>6
    <3>8. Parent[EntryAt(j)] = e /\ Parent[EntryAt(j)] # None
      <4>1. q[2] = EntryAt(j)
        BY Zenon, <3>7
      <4> QED BY Zenon, <3>1, <3>3, <4>1
    <3>9. PICK i \in 1 .. N : i < j /\ EntryAt(i) = Parent[EntryAt(j)]
      BY Zenon, <1>1, <3>8, EntryFacts
    <3>10. i = k
      BY Zenon, <1>0, <1>1, <3>8, <3>9, EntryFacts
    <3>11. ~(j > left[t])
      BY Zenon, <3>7 DEF Past
    <3> QED BY <1>1, <3>9, <3>10, <3>11
  <2>2. ASSUME NEW u \in Threads PROVE fs[Temp(u)] = None
    <3>0. MaxRename \in Nat
      BY Zenon, TreeAssumptions
    <3>1. Temp(u) \in Paths /\ Temp(u) \notin Roots \X Entries
      <4>1. Temp(u) \in Paths
        BY Zenon, Facts
      <4>2. Temp(u) \notin Roots \X Entries
        BY <3>0 DEF Temp, Roots
      <4> QED BY Zenon, <4>1, <4>2
    <3> QED BY Zenon, <1>0, <3>1 DEF OneOwner
  <2> QED BY Zenon, <2>1, <2>2 DEF Empty
<1> QED BY Zenon, <1>0, <1>2, <1>3, <1>4, <1>8, <1>9

\* The cleanup removes a target.
LEMMA LeftRemoved ==
    ASSUME BaseInv, CountInv, RestInv, LeftInv, NEW t \in Threads, RemoveTarget(t)
    PROVE  LeftOf(t) /\ Spares(t)
<1> DEFINE k == left[t]
           c == created[t][k]
           p == c.path
           possible == Writable(p) /\ Empty(p)
<1>0. /\ TypeInv /\ left \in [Threads -> Nat] /\ pc[t] = "Remove" /\ k \in 1 .. Len(created[t])
      /\ UNCHANGED <<readonly, created, root>> /\ refused \in [Threads -> SUBSET Paths]
      /\ fs \in [Paths -> Identities \cup {None}] /\ created[t] \in Seq(CreatedTarget)
      /\ status[t] # "Ok"
  BY Zenon DEF BaseInv, TypeInv, PhaseOf, RemoveTarget, RestInv
<1>1. pc'[t] = "Check" /\ left'[t] = k - 1 /\ status'[t] = status[t]
  BY Zenon, <1>0, Going DEF RemoveTarget
<1>2. p \in Paths
  <2>1. c \in CreatedTarget
    BY <1>0
  <2> QED BY Zenon, <2>1 DEF CreatedTarget
<1>3. /\ fs' = IF possible THEN [fs EXCEPT ![p] = None] ELSE fs
      /\ refused' = IF possible THEN refused ELSE [refused EXCEPT ![t] = @ \cup {p}]
  BY Zenon DEF RemoveTarget
<1> HIDE DEF possible, p
<1>4. /\ \A q \in Paths : fs'[q] = IF possible /\ q = p THEN None ELSE fs[q]
      /\ refused'[t] = IF possible THEN refused[t] ELSE refused[t] \cup {p}
      /\ \A u \in Threads \ {t} : refused'[u] = refused[u]
  BY Zenon, <1>0, <1>2, <1>3
<1>5. /\ Len(created[t]) \in Nat /\ ~(k > left[t])
      /\ \A j \in 1 .. Len(created[t]) : j # k => (j > k - 1 <=> j > left[t])
      /\ k > k - 1
  BY <1>0, Numbers
<1>6. \A j \in 1 .. Len(created[t]) : j # k => Past(t, j)' = Past(t, j)
  BY Zenon, <1>0, <1>1, <1>5 DEF Past
<1>7. Accounted(t)'
  <2> SUFFICES ASSUME NEW q \in Paths, fs'[q] # None, fs'[q][1] = t
               PROVE  \E j \in 1 .. Len(created'[t]) :
                          /\ created'[t][j].path = q /\ created'[t][j].identity = fs'[q]
                          /\ created'[t][j].remove_on_cleanup /\ Past(t, j)' => q \in refused'[t]
    BY Zenon DEF Accounted
  <2>1. fs'[q] = fs[q] /\ (q = p => ~possible)
    BY Zenon, <1>4
  <2>2. PICK j \in 1 .. Len(created[t]) :
            /\ created[t][j].path = q /\ created[t][j].identity = fs[q]
            /\ created[t][j].remove_on_cleanup /\ Past(t, j) => q \in refused[t]
    BY Zenon, <2>1 DEF LeftInv, Accounted
  <2>3. CASE j = k
    <3>1. q = p /\ q \in refused'[t]
      BY Zenon, <1>4, <2>1, <2>2, <2>3 DEF p
    <3> QED BY Zenon, <1>0, <2>1, <2>2, <3>1
  <2>4. CASE j # k
    <3>1. q \in refused[t] => q \in refused'[t]
      BY Zenon, <1>4
    <3> QED BY Zenon, <1>0, <1>6, <2>1, <2>2, <2>4, <3>1
  <2> QED BY Zenon, <2>3, <2>4
<1>8. ASSUME Lone
      PROVE  /\ possible /\ fs[p] = <<t, EntryAt(k)>> /\ p = Target(t, EntryAt(k)) /\ fs[p][1] = t
             /\ EntryAt(k) \in Entries
  <2>1. possible /\ fs[p] = <<t, EntryAt(k)>> /\ p = Target(t, EntryAt(k))
    BY Zenon, <1>0, <1>8, CanRemove DEF possible, p
  <2>2. k \in 1 .. Len(DirSeq) + Len(FileSeq)
    <3>1. Len(created[t]) <= Len(DirSeq) + Len(FileSeq)
      BY Zenon DEF CountInv, CountOf
    <3>2. Len(DirSeq) + Len(FileSeq) \in Nat
      BY Facts
    <3> QED BY <1>0, <1>5, <3>1, <3>2
  <2>3. EntryAt(k) \in Entries
    BY Zenon, <2>2, EntryFacts
  <2>4. fs[p][1] = t
    BY Zenon, <2>1, <2>3, MadeBy
  <2> QED BY Zenon, <2>1, <2>3, <2>4
<1>9. Spares(t)
  <2>1. ASSUME Lone, NEW q \in Paths, fs[q] # None, fs[q][1] # t PROVE fs'[q] = fs[q]
    BY Zenon, <1>4, <1>8, <2>1
  <2> QED BY Zenon, <1>0, <1>4, <2>1 DEF Spares
<1>10. ASSUME Lone PROVE OneOwner'
  <2> SUFFICES ASSUME NEW q \in Paths, fs'[q] # None
               PROVE  /\ q \in Roots \X Entries /\ fs'[q][2] = q[2]
                      /\ Parent[q[2]] # None => fs'[<<q[1], Parent[q[2]]>>] = <<fs'[q][1], Parent[q[2]]>>
    BY Zenon DEF OneOwner
  <2>1. q # p /\ fs'[q] = fs[q]
    BY Zenon, <1>4, <1>10, <1>8
  <2>2. /\ q \in Roots \X Entries /\ fs[q][2] = q[2]
        /\ Parent[q[2]] # None => fs[<<q[1], Parent[q[2]]>>] = <<fs[q][1], Parent[q[2]]>>
    BY Zenon, <1>10, <2>1 DEF LeftInv, OneOwner
  <2>3. ASSUME Parent[q[2]] # None PROVE fs'[<<q[1], Parent[q[2]]>>] = <<fs'[q][1], Parent[q[2]]>>
    <3>1. DirOf(q) = <<q[1], Parent[q[2]]>>
      BY Zenon, <2>2, <2>3 DEF DirOf
    <3>2. DirOf(q) # p
      BY Zenon, <1>8, <1>10, <2>1, <2>2 DEF possible, Empty
    <3>3. <<q[1], Parent[q[2]]>> \in Paths
      <4>1. q[1] \in Roots /\ Parent[q[2]] \in Dirs
        BY Zenon, <2>2, <2>3, TreeAssumptions
      <4> QED BY Zenon, <4>1, Facts
    <3> QED BY Zenon, <1>4, <2>1, <2>2, <2>3, <3>1, <3>2, <3>3
  <2> QED BY Zenon, <2>1, <2>2, <2>3
<1>11. ASSUME Lone PROVE LoneOf(t)'
  <2>1. LoneOf(t) /\ refused'[t] = {} /\ (\A x : Target(t, x)' = Target(t, x)) /\ root[t] \in Roots
    BY Zenon, <1>0, <1>4, <1>8, <1>11 DEF LeftInv, LoneOf, Target, TypeInv
  <2>2. ASSUME NEW j \in 1 .. Len(created[t]), ~Past(t, j)'
        PROVE  fs'[Target(t, EntryAt(j))] = <<t, EntryAt(j)>>
    <3>1. j # k
      BY Zenon, <1>1, <1>5, <2>2 DEF Past
    <3>2. fs[Target(t, EntryAt(j))] = <<t, EntryAt(j)>>
      BY Zenon, <1>6, <2>1, <2>2, <3>1 DEF LoneOf
    <3>3. j \in 1 .. Len(DirSeq) + Len(FileSeq) /\ k \in 1 .. Len(DirSeq) + Len(FileSeq)
      <4>1. Len(created[t]) <= Len(DirSeq) + Len(FileSeq)
        BY Zenon DEF CountInv, CountOf
      <4>2. Len(DirSeq) + Len(FileSeq) \in Nat
        BY Facts
      <4> QED BY <1>0, <1>5, <4>1, <4>2
    <3>4. EntryAt(j) # EntryAt(k) /\ EntryAt(j) \in Entries
      BY Zenon, <3>1, <3>3, EntryFacts
    <3>5. Target(t, EntryAt(j)) \in Paths /\ Target(t, EntryAt(j)) # p
      <4>1. Target(t, EntryAt(j)) \in Paths
        BY Zenon, <2>1, <3>4, Facts DEF Target
      <4>2. <<t, EntryAt(j)>> # <<t, EntryAt(k)>>
        BY <3>4
      <4> QED BY Zenon, <1>8, <1>11, <3>2, <4>1, <4>2
    <3> QED BY Zenon, <1>4, <3>2, <3>5
  <2>3. \A x \in Entries : <<t, x>> \notin readonly'
    BY Zenon, <1>0, <2>1 DEF LoneOf
  <2> QED BY Zenon, <1>0, <2>1, <2>2, <2>3 DEF LoneOf
<1> QED BY Zenon, <1>7, <1>9, <1>10, <1>11 DEF LeftOf

\* Outside the cleanup nothing has been dealt with.
LEMMA LeftOutside ==
    ASSUME BaseInv, LeftInv, NEW t \in Threads, UNCHANGED <<fs, refused, readonly, created, root>>, Outside(t)
    PROVE  LeftOf(t) /\ Spares(t)
<1>1. \A k \in 1 .. Len(created[t]) : Past(t, k)' = Past(t, k)
  BY Zenon DEF Past, Outside
<1>2. pc'[t] \notin {"Check", "Remove"}
  BY Zenon DEF Outside
<1> QED BY Zenon, <1>1, <1>2, LeftStill

\* A place that is not of the cleanup.
Working == Places \ {"Check", "Remove", "Done"}

\* Every step of a thread gives what LeftKept asks for.
LEMMA LeftThread ==
    ASSUME BaseInv, CountInv, RestInv, LeftInv, NEW t \in Threads, ThreadNext(t)
    PROVE  LeftOf(t) /\ Spares(t)
<1>0. /\ TypeInv /\ PhaseOf(t) /\ CountOf(t)
      /\ \A x : Goto(t, x) => pc'[t] = x /\ status'[t] = status[t]
      /\ \A c : Fail(t, c) => pc'[t] = "Restore"
      /\ \A x : Report(t, x) => pc'[t] \in {x, "Restore"}
  BY Zenon, Going DEF BaseInv, CountInv
<1>a. /\ FirstDirs \in Working /\ FirstFiles \in Working /\ LastDirs \in Working
      /\ {"Directory", "Mkdir", "File", "New", "Temp", "Write", "Metadata", "Restore"} \subseteq Working
  BY Zenon DEF FirstDirs, FirstFiles, LastDirs, Working, Places
<1>b. ASSUME pc[t] \in Working, pc'[t] \in Working PROVE Outside(t)
  BY Zenon, <1>b DEF Outside, Working
<1>c. ASSUME NEW seq, NEW here \in Working, NEW after \in Working, Advance(t, seq, here, after)
      PROVE  pc'[t] \in Working
  BY Zenon, <1>0, <1>a, <1>c DEF Advance
<1>n. Len(created[t]) \in Nat /\ Len(DirSeq) \in Nat /\ Len(FileSeq) \in Nat /\ index[t] \in Nat
  BY Zenon, <1>0, Numbers
<1>1. CASE plan_materialize(t)
  <2>1. /\ created[t] = <<>> /\ created'[t] = created[t] /\ UNCHANGED <<fs, refused, readonly>>
    BY Zenon, <1>0, <1>1 DEF plan_materialize, PhaseOf, fileVars
  <2>2. pc'[t] \in {"Done", FirstDirs, "Restore"}
    <3>1. pc \in [Threads -> Places]
      BY Zenon, <1>0 DEF TypeInv
    <3>2. \A c : Refuse(t, c) => pc'[t] = "Done"
      BY Zenon, <3>1 DEF Refuse
    <3> QED BY Zenon, <1>0, <1>1, <3>2 DEF plan_materialize
  <2>3. pc'[t] \notin {"Check", "Remove"}
    BY Zenon, <2>2 DEF FirstDirs
  <2>4. 1 .. Len(created[t]) = {}
    BY <2>1
  <2>5. \A k \in 1 .. Len(created[t]) : Past(t, k)' = Past(t, k)
    BY Zenon, <2>4
  <2> QED BY Zenon, <2>1, <2>3, <2>5, LeftStill
<1>2. CASE Error(t) \/ OpenFile(t) \/ WriteChunk(t)
  <2>1. /\ UNCHANGED <<fs, refused, readonly, created, root>>
        /\ pc[t] \in Working /\ pc'[t] \in Working
    <3>1. CASE Error(t)
      BY Zenon, <1>0, <1>a, <3>1 DEF Error, fileVars, taskVars
    <3>2. CASE OpenFile(t)
      BY Zenon, <1>0, <1>a, <3>2 DEF OpenFile, fileVars, taskVars
    <3>3. CASE WriteChunk(t)
      BY Zenon, <1>0, <1>a, <3>3 DEF WriteChunk, taskVars
    <3> QED BY Zenon, <1>2, <3>1, <3>2, <3>3
  <2> QED BY Zenon, <1>b, <2>1, LeftOutside
<1>3. CASE Mark(t)
  <2>1. /\ UNCHANGED <<fs, refused, readonly, created, root>> /\ pc[t] = "Mark"
        /\ pc'[t] = "Done" /\ status'[t] = "Ok"
    BY Zenon, <1>0, <1>3 DEF Mark, TypeInv, fileVars, taskVars
  <2>2. \A k \in 1 .. Len(created[t]) : Past(t, k)' = Past(t, k)
    BY Zenon, <2>1 DEF Past
  <2> QED BY Zenon, <2>1, <2>2, LeftStill
<1>4. ASSUME NEW p, CreateFails(t, p), pc[t] \in Working, UNCHANGED <<refused, readonly, root>>
      PROVE  LeftOf(t) /\ Spares(t)
  <2>1. UNCHANGED <<fs, created>> /\ pc'[t] \in Working
    BY Zenon, <1>0, <1>a, <1>4 DEF CreateFails
  <2> QED BY Zenon, <1>4, <1>b, <2>1, LeftOutside
<1>5. CASE Directory(t) \/ Mkdir(t)
  <2> DEFINE e == DirSeq[index[t]]
             p == Target(t, e)
  <2>1. /\ pc[t] \in {"Directory", "Mkdir"} /\ pc[t] \in Working /\ index[t] \in 1 .. Len(DirSeq)
        /\ e \in Dirs /\ e \in Entries /\ UNCHANGED <<readonly, root, refused>>
    BY ZenonT(60), <1>0, <1>5, <1>a, Facts DEF Directory, Mkdir, PhaseOf, fileVars, taskVars
  <2>2. p \in Paths /\ (fs[p] # None => fs[p] \in Identities)
    BY Zenon, <1>0, <2>1, Facts DEF TypeInv, Target
  <2>3. e = EntryAt(Len(created[t]) + 1) /\ Len(created[t]) + 1 <= Len(DirSeq) + Len(FileSeq)
    <3>1. Len(created[t]) + 1 = index[t]
      BY Zenon, <1>0, <2>1 DEF CountOf
    <3>2. index[t] <= Len(DirSeq) /\ Len(created[t]) + 1 <= Len(DirSeq) + Len(FileSeq)
      BY <1>n, <2>1, <3>1
    <3> QED BY Zenon, <3>1, <3>2 DEF EntryAt
  <2>4. ASSUME Create(t, p, e), Advance(t, DirSeq, "Directory", FirstFiles)
        PROVE  LeftOf(t) /\ Spares(t)
    <3>1. Outside(t)
      BY Zenon, <1>a, <1>b, <1>c, <2>1, <2>4
    <3> QED BY Zenon, <2>1, <2>2, <2>3, <2>4, <3>1, LeftMade
  <2>5. CASE Directory(t)
    <3>1. CASE fs[p] # None /\ policy[t] = "Overwrite" /\ Push(t, CreatedAs(p, fs[p], FALSE))
               /\ Advance(t, DirSeq, "Directory", FirstFiles) /\ fs' = fs
      <4>1. Outside(t)
        BY Zenon, <1>a, <1>b, <1>c, <2>1, <3>1
      <4> QED BY Zenon, <2>1, <2>2, <3>1, <4>1, LeftFound
    <3>2. CASE UNCHANGED <<fs, created>> /\ pc'[t] \in Working
      BY Zenon, <1>b, <2>1, <3>2, LeftOutside
    <3>3. /\ fs' = fs
          /\ \/ Goto(t, "Mkdir") /\ UNCHANGED created
             \/ /\ fs[p] # None /\ policy[t] = "Overwrite" /\ Push(t, CreatedAs(p, fs[p], FALSE))
                /\ Advance(t, DirSeq, "Directory", FirstFiles)
             \/ Fail(t, "AlreadyExists") /\ UNCHANGED created
      BY Zenon, <2>5 DEF Directory, validate_existing_materialize_target, fileVars
    <3> QED BY Zenon, <1>0, <1>a, <3>1, <3>2, <3>3
  <2>6. CASE Mkdir(t)
    <3>1. \/ Create(t, p, e) /\ Advance(t, DirSeq, "Directory", FirstFiles)
          \/ CreateFails(t, p)
      BY Zenon, <2>6 DEF Mkdir
    <3> QED BY Zenon, <1>4, <2>1, <2>4, <3>1
  <2> QED BY Zenon, <1>5, <2>5, <2>6
<1>6. CASE open_final_materialized_file(t) \/ open_replacement_materialized_file(t)
  <2> DEFINE e == File(t)
  <2>1. /\ pc[t] \in {"New", "Temp"} /\ pc[t] \in Working /\ index[t] \in 1 .. Len(FileSeq)
        /\ e \in Entries /\ UNCHANGED <<readonly, root, refused>>
    BY Zenon, <1>0, <1>6, <1>a, Facts DEF open_final_materialized_file, open_replacement_materialized_file,
       OpenAt, PhaseOf, InFiles, File, taskVars
  <2>2. Target(t, e) \in Paths /\ Temp(t) \in Paths
    BY Zenon, <1>0, <2>1, Facts DEF TypeInv, Target
  <2>3. e = EntryAt(Len(created[t]) + 1) /\ Len(created[t]) + 1 <= Len(DirSeq) + Len(FileSeq)
    <3>1. Len(created[t]) + 1 = Len(DirSeq) + index[t]
      BY Zenon, <1>0, <2>1 DEF CountOf
    <3>2. /\ Len(created[t]) + 1 <= Len(DirSeq) + Len(FileSeq)
          /\ ~(Len(created[t]) + 1 <= Len(DirSeq))
          /\ Len(created[t]) + 1 - Len(DirSeq) = index[t]
      BY <1>n, <2>1, <3>1
    <3>3. EntryAt(Len(created[t]) + 1) = FileSeq[Len(created[t]) + 1 - Len(DirSeq)]
      BY <3>2 DEF EntryAt
    <3>4. FileSeq[Len(created[t]) + 1 - Len(DirSeq)] = e
      BY Zenon, <3>2 DEF File
    <3> QED BY Zenon, <3>2, <3>3, <3>4
  <2>4. ASSUME NEW p \in Paths, p = Target(t, e) \/ ~Lone, Create(t, p, e), Goto(t, "Write")
        PROVE  LeftOf(t) /\ Spares(t)
    <3>1. Outside(t)
      BY Zenon, <1>0, <1>a, <1>b, <2>1, <2>4
    <3> QED BY Zenon, <2>1, <2>3, <2>4, <3>1, LeftMade
  <2>5. pc[t] = "Temp" => ~Lone
    BY Zenon, <1>0 DEF PhaseOf, Lone
  <2>6. PICK p \in Paths :
            /\ p = Target(t, e) \/ ~Lone
            /\ (Create(t, p, e) /\ Goto(t, "Write")) \/ CreateFails(t, p)
    BY Zenon, <1>6, <2>2, <2>5 DEF open_final_materialized_file, open_replacement_materialized_file, OpenAt
  <2> QED BY Zenon, <1>4, <2>1, <2>4, <2>6
<1>7. CASE finalize_materialized_file(t)
  <2> DEFINE p == Target(t, File(t))
  <2>1. /\ pc[t] = "Write" /\ pc[t] \in Working /\ created[t] # <<>> /\ File(t) \in Files
        /\ UNCHANGED <<readonly, root, refused>>
    <3>1. pc[t] = "Write" /\ UNCHANGED <<readonly, root, refused>>
      BY Zenon, <1>7 DEF finalize_materialized_file, taskVars
    <3>2. created[t] # <<>> /\ index[t] \in 1 .. Len(FileSeq)
      BY Zenon, <1>0, <3>1 DEF PhaseOf, InFiles
    <3>3. File(t) \in Files
      BY Zenon, <3>2, Facts DEF File
    <3> QED BY Zenon, <1>a, <3>1, <3>2, <3>3
  <2>2. p \in Paths /\ p # Temp(t)
    <3>1. root[t] \in Roots /\ File(t) \in Entries
      BY Zenon, <1>0, <2>1, Facts DEF TypeInv
    <3> QED BY Zenon, <3>1, Facts DEF Target
  <2>3. \/ LastPath(t) = Temp(t) /\ Replace(t, p) /\ Advance(t, FileSeq, "File", LastDirs)
        \/ Fail(t, "Io") /\ UNCHANGED <<fs, created>>
        \/ UNCHANGED <<fs, created>> /\ Advance(t, FileSeq, "File", LastDirs)
    BY Zenon, <1>7 DEF finalize_materialized_file, Current, LastPath
  <2>4. CASE LastPath(t) = Temp(t) /\ Replace(t, p) /\ Advance(t, FileSeq, "File", LastDirs)
    <3>1. policy[t] = "Overwrite"
      BY Zenon, <1>0, <2>1, <2>2, <2>4 DEF PhaseOf
    <3>2. Outside(t)
      BY Zenon, <1>a, <1>b, <1>c, <2>1, <2>4
    <3> QED BY Zenon, <2>1, <2>2, <2>4, <3>1, <3>2, LeftReplaced
  <2>5. CASE UNCHANGED <<fs, created>> /\ pc'[t] \in Working
    BY Zenon, <1>b, <2>1, <2>5, LeftOutside
  <2>6. Fail(t, "Io") \/ Advance(t, FileSeq, "File", LastDirs) => pc'[t] \in Working
    BY Zenon, <1>0, <1>a, <1>c
  <2> QED BY Zenon, <2>3, <2>4, <2>5, <2>6
<1>8. CASE apply_directory_metadata(t)
  BY Zenon, <1>8, LeftMetadata
<1>9. CASE restore_created_directory_permissions(t) \/ CheckTarget(t) \/ RemoveTarget(t)
  BY Zenon, <1>9, LeftRestored, LeftChecked, LeftRemoved
<1> QED BY Zenon, <1>1, <1>2, <1>3, <1>5, <1>6, <1>7, <1>8, <1>9 DEF ThreadNext

\* It is kept by every step.
LEMMA LeftStep == BaseInv /\ CountInv /\ RestInv /\ LeftInv /\ [Next]_vars => LeftInv'
<1> SUFFICES ASSUME BaseInv, CountInv, RestInv, LeftInv, [Next]_vars PROVE LeftInv'
  BY Zenon
<1>1. ASSUME NEW t \in Threads, ThreadNext(t) PROVE LeftInv'
  <2>1. Keeps(t)
    BY Zenon, <1>1, BaseThread DEF BaseOf
  <2> QED BY Zenon, <1>1, <2>1, LeftThread, LeftKept
<1>2. ProviderGoes \/ UNCHANGED vars =>
         UNCHANGED <<fs, readonly, pc, policy, root, created, left, status, refused>>
  BY Zenon DEF ProviderGoes, vars, fileVars, taskVars
<1>3. ASSUME UNCHANGED <<fs, readonly, pc, policy, root, created, left, status, refused>> PROVE LeftInv'
  <2>1. (\A t, k : Past(t, k)' = Past(t, k)) /\ (\A t, e : Target(t, e)' = Target(t, e))
    BY Zenon, <1>3 DEF Past, Target
  <2>2. \A t \in Threads : Accounted(t)'
    BY Zenon, <1>3, <2>1 DEF LeftInv, Accounted
  <2>3. Lone' => Lone
    BY Zenon, <1>3 DEF Lone
  <2>4. OneOwner => OneOwner'
    BY Zenon, <1>3 DEF OneOwner
  <2>5. ASSUME NEW t \in Threads, LoneOf(t) PROVE LoneOf(t)'
    BY Zenon, <1>3, <2>1, <2>5 DEF LoneOf
  <2> QED BY Zenon, <2>2, <2>3, <2>4, <2>5 DEF LeftInv
<1> QED BY Zenon, <1>1, <1>2, <1>3 DEF Next

\* It holds at first.
LEMMA LeftInit == Init => LeftInv
<1> SUFFICES ASSUME Init PROVE LeftInv
  BY Zenon
<1>1. /\ fs = [p \in Paths |-> IF p[1] = 0 /\ p[2] \in own THEN <<User, p[2]>> ELSE None]
      /\ own \subseteq Entries /\ readonly = {}
      /\ \A e \in own : Parent[e] # None => Parent[e] \in own
      /\ \A t \in Threads : created[t] = <<>> /\ refused[t] = {}
  BY Zenon DEF Init
<1>2. ASSUME NEW p \in Paths, fs[p] # None
      PROVE  fs[p] = <<User, p[2]>> /\ p[1] = 0 /\ p[2] \in own
  BY Zenon, <1>1, <1>2
<1>3. ASSUME NEW t \in Threads PROVE Accounted(t)
  <2> SUFFICES ASSUME NEW p \in Paths, fs[p] # None, fs[p][1] = t PROVE FALSE
    BY Zenon DEF Accounted
  <2>1. fs[p] = <<User, p[2]>>
    BY Zenon, <1>2
  <2>2. fs[p][1] = User
    BY <2>1
  <2> QED BY Zenon, <2>2, Facts
<1>4. OneOwner
  <2> SUFFICES ASSUME NEW p \in Paths, fs[p] # None
               PROVE  /\ p \in Roots \X Entries /\ fs[p][2] = p[2]
                      /\ Parent[p[2]] # None => fs[<<p[1], Parent[p[2]]>>] = <<fs[p][1], Parent[p[2]]>>
    BY Zenon DEF OneOwner
  <2>1. fs[p] = <<User, p[2]>> /\ p[1] = 0 /\ p[2] \in own
    BY Zenon, <1>2
  <2>2. p \in Roots \X Entries
    <3>1. ASSUME NEW u \in Threads PROVE p # Temp(u)
      <4>1. MaxRename \in Nat
        BY Zenon, TreeAssumptions
      <4> QED BY <2>1, <4>1 DEF Temp
    <3> QED BY Zenon, <3>1 DEF Paths
  <2>3. fs[p][1] = User /\ fs[p][2] = p[2]
    BY <2>1
  <2>4. ASSUME Parent[p[2]] # None PROVE fs[<<p[1], Parent[p[2]]>>] = <<fs[p][1], Parent[p[2]]>>
    <3> DEFINE q == <<0, Parent[p[2]]>>
    <3>1. Parent[p[2]] \in own /\ Parent[p[2]] \in Entries /\ q = <<p[1], Parent[p[2]]>>
      BY Zenon, <1>1, <2>1, <2>4
    <3>2. q \in Paths /\ q[1] = 0 /\ q[2] = Parent[p[2]]
      BY Zenon, <3>1, Facts
    <3>3. fs[q] = <<User, q[2]>>
      BY Zenon, <1>1, <3>1, <3>2
    <3> QED BY Zenon, <2>3, <3>1, <3>2, <3>3
  <2> QED BY Zenon, <2>2, <2>3, <2>4
<1>5. ASSUME NEW t \in Threads PROVE LoneOf(t)
  <2>1. 1 .. Len(created[t]) = {}
    BY <1>1
  <2> QED BY Zenon, <1>1, <2>1 DEF LoneOf
<1> QED BY Zenon, <1>3, <1>4, <1>5 DEF LeftInv

\* cleanup_created_targets: a materialize that failed leaves nothing that it made,
\* except a file that has replaced another and what could not be removed; and where
\* no thread overwrites everything can be removed.
THEOREM FailedTheorem == Spec => []FailedLeavesNothing
<1> DEFINE IInv == BaseInv /\ CountInv /\ RestInv /\ LeftInv
<1>1. Init => IInv
  BY Zenon, BaseInit, CountInit, LeftInit
<1>2. IInv /\ [Next]_vars => IInv'
  BY Zenon, BaseStep, CountStep, RestStep, LeftStep
<1>3. IInv => FailedLeavesNothing
  <2> SUFFICES ASSUME IInv, NEW t \in Threads, pc[t] = "Done", status[t] # "Ok",
                      NEW p \in Paths, fs[p] # None, fs[p][1] = t
               PROVE  /\ \E u \in Threads : policy[u] = "Overwrite"
                      /\ \/ p \in refused[t]
                         \/ \E k \in DOMAIN created[t] : created[t][k] = CreatedAs(p, fs[p], FALSE)
    BY Zenon DEF FailedLeavesNothing
  <2>1. PICK k \in 1 .. Len(created[t]) :
            /\ created[t][k].path = p /\ created[t][k].identity = fs[p]
            /\ created[t][k].remove_on_cleanup /\ Past(t, k) => p \in refused[t]
    BY Zenon DEF LeftInv, Accounted
  <2>2. Past(t, k)
    BY Zenon DEF Past
  <2>3. created[t] \in Seq(CreatedTarget)
    BY Zenon DEF BaseInv, TypeInv
  <2>4. created[t][k] \in CreatedTarget /\ k \in DOMAIN created[t]
    BY <2>3
  <2>5. p \in refused[t] \/ created[t][k] = CreatedAs(p, fs[p], FALSE)
    <3>1. p \in refused[t] \/ ~created[t][k].remove_on_cleanup
      BY Zenon, <2>1, <2>2
    <3>2. ~created[t][k].remove_on_cleanup => created[t][k] = CreatedAs(p, fs[p], FALSE)
      BY Zenon, <2>1, <2>4 DEF CreatedAs, CreatedTarget
    <3> QED BY Zenon, <3>1, <3>2
  <2>6. ASSUME Lone PROVE FALSE
    <3>1. /\ created[t][k] = CreatedAs(Target(t, EntryAt(k)), <<t, EntryAt(k)>>, TRUE)
          /\ refused[t] = {}
      BY Zenon, <2>6 DEF LeftInv, LoneOf
    <3>2. created[t][k].remove_on_cleanup
      BY <3>1 DEF CreatedAs
    <3> QED BY Zenon, <2>1, <2>2, <3>1, <3>2
  <2> QED BY Zenon, <2>4, <2>5, <2>6 DEF Lone
<1> QED BY <1>1, <1>2, <1>3, PTL DEF Spec
=============================================================================
