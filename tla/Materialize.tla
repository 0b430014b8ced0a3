----------------------------- MODULE Materialize -----------------------------
(***************************************************************************)
(* Materializing a promised tree into a target directory, by several       *)
(* connection threads at once: the conflict policies, the files written    *)
(* beside the ones they replace, progress reports at which the client may  *)
(* cancel, and the cleanup after a failure.  Each thread materializes the  *)
(* same tree once; a step is one system call, or several between which no  *)
(* other thread of the daemon can make a difference.                       *)
(*                                                                         *)
(* Chunks stand for the bytes of a file: a read gives the next chunk or    *)
(* fails.  IpcState models the read that is routed to the provider.        *)
(***************************************************************************)
EXTENDS Naturals, Sequences, FiniteSets

CONSTANTS
    Threads,    \* connection threads
    User,       \* who owns what was there before
    DirSeq,     \* the directories of the subtree, a parent before its children
    FileSeq,    \* its files
    Parent,     \* Parent[e]: the directory e is in; None for the root of the subtree
    Chunks,     \* Chunks[e]: how many chunks the file e is read in
    Cached,     \* files that the read cache has
    ReadOnly,   \* directories promised without write permission
    MaxRename,  \* bound on the attempts of unique_materialize_target_path
    None

Dirs    == {DirSeq[k] : k \in DOMAIN DirSeq}
Files   == {FileSeq[k] : k \in DOMAIN FileSeq}
Entries == Dirs \cup Files
Top     == CHOOSE e \in Entries : Parent[e] = None

\* A path is an entry below the target name, which is the name of the subtree (0)
\* or a renamed one, or the temporary file of a thread.
Roots == 0 .. MaxRename
Temp(t) == <<MaxRename + 1, t>>
Paths == (Roots \X Entries) \cup {Temp(t) : t \in Threads}

\* FileIdentity: who made it and for which entry; each thread makes one at most.
Identities == (Threads \cup {User}) \X Entries

ASSUME TreeAssumptions ==
    /\ Entries # {} /\ Dirs \cap Files = {} /\ ReadOnly \subseteq Dirs /\ Cached \subseteq Files
    /\ Parent \in [Entries -> Dirs \cup {None}] /\ Chunks \in [Files -> Nat]
    /\ Cardinality({e \in Entries : Parent[e] = None}) = 1
    /\ User \notin Threads /\ MaxRename \in Nat
    /\ DirSeq \in Seq(Dirs) /\ FileSeq \in Seq(Files)
    /\ \A j, k \in DOMAIN FileSeq : FileSeq[j] = FileSeq[k] => j = k
    /\ \A j, k \in DOMAIN DirSeq : DirSeq[j] = DirSeq[k] => j = k
    /\ \A j, k \in DOMAIN DirSeq : Parent[DirSeq[k]] = DirSeq[j] => j < k
    /\ None \notin Paths \cup Identities

CreatedTarget == [path : Paths, identity : Identities, remove_on_cleanup : BOOLEAN]

Policies == {"Fail", "Overwrite", "Rename"}

VARIABLES
    fs,         \* fs[p]: what is at that path, or None
    own,        \* the entries that the user had before
    userKind,   \* and what they are
    readonly,   \* directories that have lost their write permission
    written,    \* written[i]: chunks that the file i holds
    live,       \* the promise is Available and its provider Live
    marked,     \* marked[e]: materialized_path of the node, or None
    pc, policy, root,
    index,      \* the entry of the current loop
    created,    \* created_targets, with the file that is being written
    left,       \* how many of them the cleanup has still to look at
    status,     \* the outcome
    refused,    \* history: what the cleanup could not remove
    strayed     \* history: paths where a cleanup removed the file of another thread

restVars == <<own, userKind, live>>
fileVars == <<fs, readonly, written>>
taskVars == <<policy, root, left, refused, strayed>>
vars == <<fs, own, userKind, readonly, written, live, marked, pc, policy, root, index, created, left, status, refused, strayed>>

-----------------------------------------------------------------------------
(* The file system *)

KindOf(i) == IF i[1] = User THEN userKind[i[2]] ELSE IF i[2] \in Dirs THEN "Directory" ELSE "File"
Kind(e) == IF e \in Dirs THEN "Directory" ELSE "File"

Target(t, e) == <<root[t], e>>

\* The file that thread t is writing; and the directory of a path, None for the
\* target directory itself.
File(t) == FileSeq[index[t]]
DirOf(p) ==
    LET e == IF p[1] \in Roots THEN p[2] ELSE File(p[2])
        r == IF p[1] \in Roots THEN p[1] ELSE root[p[2]]
    IN  IF Parent[e] = None THEN None ELSE <<r, Parent[e]>>

\* Names can be added to the directory of p and removed from it.
Writable(p) == DirOf(p) # None => fs[DirOf(p)] \notin readonly \cup {None}

Empty(p) ==
    /\ \A q \in Roots \X Entries : DirOf(q) = p => fs[q] = None
    /\ \A t \in Threads : fs[Temp(t)] # None => DirOf(Temp(t)) # p

MaterializeTypeOK ==
    /\ fs \in [Paths -> Identities \cup {None}]
    /\ userKind \in [Entries -> {"File", "Directory", "Symlink"}]
    /\ readonly \subseteq Identities /\ live \in BOOLEAN
    /\ \A i \in Threads \X Files : written[i] \in 0 .. Chunks[i[2]]
    /\ marked \in [Entries -> Paths \cup {None}]
    /\ \A t \in Threads :
          /\ policy[t] \in Policies /\ root[t] \in Roots
          /\ index[t] \in 1 .. Len(DirSeq) + Len(FileSeq) + 1
          /\ \A k \in DOMAIN created[t] : created[t][k] \in CreatedTarget
          /\ refused[t] \subseteq Paths
    /\ strayed \subseteq Paths

\* The user has some entries of these names; what is in a directory is in a directory.
Init ==
    /\ userKind \in [Entries -> {"File", "Directory", "Symlink"}]
    /\ own \in SUBSET Entries
    /\ \A e \in own : Parent[e] # None => Parent[e] \in own /\ userKind[Parent[e]] = "Directory"
    /\ \A e \in Entries \ own : userKind[e] = Kind(e)
    /\ fs = [p \in Paths |-> IF p[1] = 0 /\ p[2] \in own THEN <<User, p[2]>> ELSE None]
    /\ readonly = {}
    /\ written = [i \in Threads \X Files |-> 0]
    /\ live = TRUE
    /\ marked = [e \in Entries |-> None]
    /\ pc = [t \in Threads |-> "Idle"]
    /\ policy \in [Threads -> Policies]
    /\ root = [t \in Threads |-> 0]
    /\ index = [t \in Threads |-> 1]
    /\ created = [t \in Threads |-> <<>>]
    /\ left = [t \in Threads |-> 0]
    /\ status = [t \in Threads |-> "None"]
    /\ refused = [t \in Threads |-> {}]
    /\ strayed = {}

-----------------------------------------------------------------------------
(* Control *)

Goto(t, place) == pc' = [pc EXCEPT ![t] = place] /\ UNCHANGED status

\* An error: whatever was created is cleaned up.
Fail(t, code) ==
    /\ pc' = [pc EXCEPT ![t] = "Restore"]
    /\ status' = [status EXCEPT ![t] = code]

\* report_progress: the client goes on, or it cancels or is gone.
Report(t, place) == Goto(t, place) \/ Fail(t, "Cancelled")

Push(t, target) == created' = [created EXCEPT ![t] = Append(@, target)]

\* The file that is being written is the last one.
Current(t) == created[t][Len(created[t])]

CreatedAs(p, i, remove) == [path |-> p, identity |-> i, remove_on_cleanup |-> remove]

\* The next entry of a sequence, or the place after it.
Advance(t, seq, here, after) ==
    IF index[t] < Len(seq)
    THEN index' = [index EXCEPT ![t] = @ + 1] /\ Report(t, here)
    ELSE index' = [index EXCEPT ![t] = 1] /\ Report(t, after)

FirstFiles == IF FileSeq = <<>> THEN "Metadata" ELSE "File"
FirstDirs  == IF DirSeq = <<>> THEN "File" ELSE "Directory"
LastDirs   == IF DirSeq = <<>> THEN "Mark" ELSE "Metadata"

-----------------------------------------------------------------------------
(* The plan *)

\* validate_existing_materialize_target
validate_existing_materialize_target(t, e, i) == policy[t] = "Overwrite" /\ KindOf(i) = Kind(e)

\* unique_materialize_target_path: the names that are free.
FreeRoots == {r \in Roots : fs[<<r, Top>>] = None}

\* materialize_target_path: r is the name that the target gets.
TargetRoot(t, r) ==
    IF policy[t] = "Rename" THEN r \in FreeRoots /\ \A q \in FreeRoots : r <= q ELSE r = 0

\* preflight_materialize_targets
Preflight(t, r) ==
    \A e \in Entries : fs[<<r, e>>] # None => validate_existing_materialize_target(t, e, fs[<<r, e>>])

Refuse(t, code) ==
    /\ pc' = [pc EXCEPT ![t] = "Done"]
    /\ status' = [status EXCEPT ![t] = code]
    /\ UNCHANGED root

\* plan_materialize, and the first report.
plan_materialize(t) ==
    /\ pc[t] = "Idle"
    /\ IF ~live THEN Refuse(t, "ProviderGone")
       ELSE IF policy[t] = "Rename" /\ FreeRoots = {} THEN Refuse(t, "AlreadyExists")
       ELSE \E r \in Roots :
               /\ TargetRoot(t, r)
               /\ IF Preflight(t, r) THEN root' = [root EXCEPT ![t] = r] /\ Report(t, FirstDirs)
                                     ELSE Refuse(t, "AlreadyExists")
    /\ UNCHANGED <<fileVars, restVars, marked, policy, left, refused, strayed, index, created>>

\* A system call fails for a reason of its own, or a chunk cannot be read.
Error(t) ==
    /\ pc[t] \in {"Directory", "Mkdir", "File", "New", "Temp", "Write", "Metadata"}
    /\ Fail(t, "Io")
    /\ UNCHANGED <<fileVars, restVars, marked, taskVars, index, created>>

-----------------------------------------------------------------------------
(* create_materialized_directory *)

Directory(t) ==
    LET e == DirSeq[index[t]]
        i == fs[Target(t, e)]
    IN
    /\ pc[t] = "Directory"
    /\ \/ /\ i = None
          /\ Goto(t, "Mkdir")
          /\ UNCHANGED <<index, created>>
       \/ /\ i # None /\ validate_existing_materialize_target(t, e, i)
          /\ Push(t, CreatedAs(Target(t, e), i, FALSE))
          /\ Advance(t, DirSeq, "Directory", FirstFiles)
       \/ /\ i # None /\ ~validate_existing_materialize_target(t, e, i)
          /\ Fail(t, "AlreadyExists")
          /\ UNCHANGED <<index, created>>
    /\ UNCHANGED <<fileVars, restVars, marked, taskVars>>

\* Making a name at p, which has to be free: mkdir, or open with CREATE and EXCL.
Create(t, p, e) ==
    /\ fs[p] = None /\ Writable(p)
    /\ fs' = [fs EXCEPT ![p] = <<t, e>>]
    /\ Push(t, CreatedAs(p, <<t, e>>, TRUE))

CreateFails(t, p) ==
    /\ \/ fs[p] # None /\ Fail(t, "AlreadyExists")
       \/ fs[p] = None /\ ~Writable(p) /\ Fail(t, "Permission or NotFound")
    /\ UNCHANGED <<fs, index, created>>

Mkdir(t) ==
    LET e == DirSeq[index[t]] IN
    /\ pc[t] = "Mkdir"
    /\ \/ Create(t, Target(t, e), e) /\ Advance(t, DirSeq, "Directory", FirstFiles)
       \/ CreateFails(t, Target(t, e))
    /\ UNCHANGED <<readonly, written, restVars, marked, taskVars>>

-----------------------------------------------------------------------------
(* write_materialized_file *)

\* open_materialized_file looks at the target.
OpenFile(t) ==
    LET i == fs[Target(t, File(t))] IN
    /\ pc[t] = "File"
    /\ IF i = None THEN Goto(t, "New")
       ELSE IF validate_existing_materialize_target(t, File(t), i) THEN Goto(t, "Temp")
       ELSE Fail(t, "AlreadyExists")
    /\ UNCHANGED <<fileVars, restVars, marked, taskVars, index, created>>

\* open_final_materialized_file, open_replacement_materialized_file
OpenAt(t, place, p) ==
    /\ pc[t] = place
    /\ \/ Create(t, p, File(t)) /\ Goto(t, "Write") /\ UNCHANGED index
       \/ CreateFails(t, p)
    /\ UNCHANGED <<readonly, written, restVars, marked, taskVars>>

open_final_materialized_file(t) == OpenAt(t, "New", Target(t, File(t)))

open_replacement_materialized_file(t) == OpenAt(t, "Temp", Temp(t))

\* Mutant: the loop goes on at the end of the file.
WriteChunkPastEnd(t) ==
    LET i == <<t, File(t)>> IN
    /\ pc[t] = "Write"
    /\ written' = [written EXCEPT ![i] = @ + 1]
    /\ Report(t, "Write")
    /\ UNCHANGED <<fs, readonly, restVars, marked, taskVars, index, created>>

\* read_materialize_chunk: where the next chunk of e comes from.  The provider is
\* asked while it is there; then the local copy of an earlier materialize, which
\* must have it all, and then the cache.
LocalCopyHas(e, k) ==
    LET i == fs[marked[e]] IN
    i # None /\ (i[1] \in Threads => written[i] > k)

read_materialize_chunk(e, k) ==
    live \/ IF marked[e] # None THEN LocalCopyHas(e, k) ELSE e \in Cached

\* A chunk is read and written.
WriteChunk(t) ==
    LET i == <<t, File(t)>> IN
    /\ pc[t] = "Write"
    /\ written[i] < Chunks[File(t)]
    /\ read_materialize_chunk(File(t), written[i])
    /\ written' = [written EXCEPT ![i] = @ + 1]
    /\ Report(t, "Write")
    /\ UNCHANGED <<fs, readonly, restVars, marked, taskVars, index, created>>

\* Mutant: the replacement is taken for a file that was not there before.
ReplaceAsNew(t, p) ==
    /\ fs' = [fs EXCEPT ![p] = <<t, File(t)>>, ![Temp(t)] = None]
    /\ created' = [created EXCEPT ![t] = [@ EXCEPT ![Len(@)] = CreatedAs(p, <<t, File(t)>>, TRUE)]]

\* finalize_materialized_file: a replacement takes the place of what it replaces.
Replace(t, p) ==
    /\ fs' = [fs EXCEPT ![p] = <<t, File(t)>>, ![Temp(t)] = None]
    /\ created' = [created EXCEPT ![t] = [@ EXCEPT ![Len(@)] = CreatedAs(p, <<t, File(t)>>, FALSE)]]

\* Mutant: an empty answer of the provider is taken for the end of a new file.
FinalizeAtEmptyRead(t) ==
    LET p == Target(t, File(t)) IN
    /\ pc[t] = "Write"
    /\ IF Current(t).path = Temp(t)
       THEN written[<<t, File(t)>>] = Chunks[File(t)] /\ Writable(p) /\ Replace(t, p)
       ELSE UNCHANGED <<fs, created>>
    /\ Advance(t, FileSeq, "File", LastDirs)
    /\ UNCHANGED <<readonly, written, restVars, marked, taskVars>>

finalize_materialized_file(t) ==
    LET p == Target(t, File(t))
        replace_on_success == Current(t).path = Temp(t)
        possible == Writable(p) /\ (fs[p] # None => KindOf(fs[p]) # "Directory")
    IN
    /\ pc[t] = "Write"
    /\ written[<<t, File(t)>>] = Chunks[File(t)]
    /\ \/ replace_on_success /\ possible /\ Replace(t, p) /\ Advance(t, FileSeq, "File", LastDirs)
       \/ replace_on_success /\ ~possible /\ Fail(t, "Io") /\ UNCHANGED <<fs, index, created>>
       \/ ~replace_on_success /\ UNCHANGED <<fs, created>> /\ Advance(t, FileSeq, "File", LastDirs)
    /\ UNCHANGED <<readonly, written, restVars, marked, taskVars>>

-----------------------------------------------------------------------------
(* After the files *)

\* apply_directory_metadata, the last directory first.
apply_directory_metadata(t) ==
    LET e == DirSeq[Len(DirSeq) + 1 - index[t]]
        target == created[t][Len(DirSeq) + 1 - index[t]]
        i == target.identity
    IN
    /\ pc[t] = "Metadata"
    /\ IF fs[target.path] = i
       THEN /\ readonly' = IF e \in ReadOnly THEN readonly \cup {i} ELSE readonly \ {i}
            /\ index' = [index EXCEPT ![t] = @ + 1]
            /\ Goto(t, IF index[t] = Len(DirSeq) THEN "Mark" ELSE "Metadata")
       ELSE Fail(t, "Unavailable or NotFound") /\ UNCHANGED <<readonly, index>>
    /\ UNCHANGED <<fs, written, restVars, marked, taskVars, created>>

\* mark_node_materialized of every entry, with the runtime locked.
Mark(t) ==
    /\ pc[t] = "Mark"
    /\ marked' = [e \in Entries |-> Target(t, e)]
    /\ pc' = [pc EXCEPT ![t] = "Done"]
    /\ status' = [status EXCEPT ![t] = "Ok"]
    /\ UNCHANGED <<fileVars, restVars, taskVars, index, created>>

-----------------------------------------------------------------------------
(* cleanup_created_targets *)

\* Mutant: permissions are not restored.
RestoreNothing(t) ==
    /\ pc[t] = "Restore"
    /\ left' = [left EXCEPT ![t] = Len(created[t])]
    /\ Goto(t, "Check")
    /\ UNCHANGED <<fs, readonly, written, restVars, marked, policy, root, refused, strayed, index, created>>

\* restore_created_directory_permissions of what is to be removed.
restore_created_directory_permissions(t) ==
    /\ pc[t] = "Restore"
    /\ readonly' = readonly \ {created[t][k].identity : k \in
                       {j \in DOMAIN created[t] : LET c == created[t][j] IN
                           c.remove_on_cleanup /\ fs[c.path] = c.identity}}
    /\ left' = [left EXCEPT ![t] = Len(created[t])]
    /\ Goto(t, "Check")
    /\ UNCHANGED <<fs, written, restVars, marked, policy, root, refused, strayed, index, created>>

\* Is it still there, and the same?
CheckTarget(t) ==
    /\ pc[t] = "Check"
    /\ IF left[t] = 0 THEN Goto(t, "Done") /\ UNCHANGED left
       ELSE LET target == created[t][left[t]] IN
            IF target.remove_on_cleanup /\ fs[target.path] = target.identity
            THEN Goto(t, "Remove") /\ UNCHANGED left
            ELSE UNCHANGED <<pc, status>> /\ left' = [left EXCEPT ![t] = @ - 1]
    /\ UNCHANGED <<fileVars, restVars, marked, policy, root, refused, strayed, index, created>>

\* remove_file or remove_dir, whose errors are ignored.
RemoveTarget(t) ==
    LET target == created[t][left[t]]
        p == target.path
        possible == Writable(p) /\ Empty(p)
    IN
    /\ pc[t] = "Remove"
    /\ fs' = IF possible THEN [fs EXCEPT ![p] = None] ELSE fs
    /\ refused' = IF possible THEN refused ELSE [refused EXCEPT ![t] = @ \cup {p}]
    /\ strayed' = IF possible /\ fs[p] \notin {None, target.identity} THEN strayed \cup {p} ELSE strayed
    /\ left' = [left EXCEPT ![t] = @ - 1]
    /\ Goto(t, "Check")
    /\ UNCHANGED <<readonly, written, restVars, marked, policy, root, index, created>>

-----------------------------------------------------------------------------
ThreadNext(t) ==
    \/ plan_materialize(t) \/ Error(t)
    \/ Directory(t) \/ Mkdir(t)
    \/ OpenFile(t) \/ open_final_materialized_file(t) \/ open_replacement_materialized_file(t)
    \/ WriteChunk(t) \/ finalize_materialized_file(t)
    \/ apply_directory_metadata(t) \/ Mark(t)
    \/ restore_created_directory_permissions(t) \/ CheckTarget(t) \/ RemoveTarget(t)

\* unregister_provider, on another thread.
ProviderGoes ==
    /\ live /\ live' = FALSE
    /\ UNCHANGED <<fileVars, own, userKind, marked, pc, taskVars, index, created, status>>

Next == ProviderGoes \/ \E t \in Threads : ThreadNext(t)

Spec == Init /\ [][Next]_vars

-----------------------------------------------------------------------------
Whole(i) == written[i] = Chunks[i[2]]

\* What the user had stays, under every policy and whatever fails, unless it is a
\* file and Overwrite puts a complete one in its place (renamed over it, never
\* written in place).
UserDataIsSafe ==
    \A e \in own : fs[<<0, e>>] # <<User, e>> =>
        /\ e \in Files /\ fs[<<0, e>>] # None /\ Whole(fs[<<0, e>>])
        /\ policy[fs[<<0, e>>][1]] = "Overwrite"

\* A path that is marked as materialized holds a complete file, from which a later
\* read of the promise, or another materialize, may serve: whoever replaces it, or
\* fails and cleans up, unless that cleanup removed the file of another thread there.
MarkedIsWhole ==
    \A e \in Files : marked[e] # None /\ marked[e] \notin strayed =>
        fs[marked[e]] # None /\ Whole(fs[marked[e]])

\* A materialize that failed leaves nothing that it made, except a file that has
\* replaced another and what could not be removed; and of that there is nothing
\* where no thread overwrites.
FailedLeavesNothing ==
    \A t \in Threads : pc[t] = "Done" /\ status[t] # "Ok" =>
        \A p \in Paths : fs[p] # None /\ fs[p][1] = t =>
            /\ \E u \in Threads : policy[u] = "Overwrite"
            /\ \/ p \in refused[t]
               \/ \E k \in DOMAIN created[t] : created[t][k] = CreatedAs(p, fs[p], FALSE)

\* What security.md says of the cleanup: a failure does not remove files that the
\* operation did not create.
CleanupSparesOthers ==
    [][\A t \in Threads : RemoveTarget(t) =>
          \A p \in Paths : fs'[p] # fs[p] => fs[p][1] = t]_vars
=============================================================================
