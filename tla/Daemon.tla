------------------------------- MODULE Daemon -------------------------------
(***************************************************************************)
(* The life of the daemons of one user, in a build with the FUSE backend:  *)
(* main prepares the mount point, mounts, sets the mount status once,      *)
(* removes whatever socket it finds and binds its own.  Daemons may start  *)
(* at the same time, and one after another; they are killed, and the user  *)
(* unmounts.  What survives a daemon is the mount point, with a mount that *)
(* answers nothing, and the socket file, on which nobody listens.          *)
(*                                                                         *)
(* Applications reach a daemon by the path of the socket, anew for every   *)
(* request: a provider registered with one daemon may commit to the next.  *)
(***************************************************************************)
EXTENDS Integers, FiniteSets

CONSTANTS
    Daemons,        \* processes that run main, each once
    Apps,           \* applications, each with at most one provider at a time
    MaxProviders,   \* bound on the provider ids of a daemon
    MaxTokens,      \* bound on the owner tokens
    None            \* no daemon, no socket, no provider

ASSUME DaemonAssumptions ==
    /\ None \notin Daemons /\ "file" \notin Daemons /\ None # "file"
    /\ MaxProviders \in Nat /\ MaxTokens \in Nat

ProviderIds == 1 .. MaxProviders
Tokens      == 1 .. MaxTokens

VARIABLES
    pc,             \* where main is
    dir,            \* the mount point below any mount: absent, private (0700) or open
    mounted,        \* the daemon, alive or not, whose file system is mounted there
    sock,           \* what is at the socket path: nothing, a file, or the socket of a daemon
    ready,          \* the daemons whose mount_status is ready for commits
    unmounted,      \* the daemons whose mount the user has taken away
    hasty,          \* history: the user has unmounted a daemon that was starting
    routes,         \* provider_routes of each daemon: the owner token, or 0
    registrant,     \* the application that registered each provider
    nextProvider,   \* next provider id of each daemon
    promises,       \* committed promises: daemon, provider id, and who asked
    handle,         \* the provider handle of each application: daemon, id and token
    nextToken       \* owner tokens are random; here each is new

vars == <<pc, dir, mounted, sock, ready, unmounted, hasty, routes, registrant, nextProvider,
          promises, handle, nextToken>>
appVars == <<routes, registrant, nextProvider, promises, handle, nextToken>>

Places == {"off", "prepare", "create", "validate", "mount", "status", "check", "remove",
           "bind", "serving", "exit", "exited", "killed"}

DaemonTypeOK ==
    /\ pc \in [Daemons -> Places]
    /\ dir \in {"absent", "private", "open"}
    /\ mounted \in Daemons \cup {None}
    /\ sock \in Daemons \cup {None, "file"}
    /\ ready \subseteq Daemons
    /\ unmounted \subseteq Daemons
    /\ hasty \in BOOLEAN
    /\ routes \in [Daemons -> [ProviderIds -> 0 .. MaxTokens]]
    /\ registrant \in [Daemons -> [ProviderIds -> Apps \cup {None}]]
    /\ nextProvider \in [Daemons -> 1 .. MaxProviders + 1]
    /\ promises \subseteq [daemon : Daemons, provider : ProviderIds, by : Apps]
    /\ handle \in [Apps -> [daemon : Daemons, id : ProviderIds, token : Tokens] \cup {None}]
    /\ nextToken \in 1 .. MaxTokens + 1

Init ==
    /\ pc = [d \in Daemons |-> "off"]
    /\ dir \in {"absent", "private", "open"}
    /\ mounted = None
    /\ sock \in {None, "file"}
    /\ ready = {} /\ unmounted = {} /\ hasty = FALSE
    /\ routes = [d \in Daemons |-> [p \in ProviderIds |-> 0]]
    /\ registrant = [d \in Daemons |-> [p \in ProviderIds |-> None]]
    /\ nextProvider = [d \in Daemons |-> 1]
    /\ promises = {}
    /\ handle = [a \in Apps |-> None]
    /\ nextToken = 1

-----------------------------------------------------------------------------
(* main, fuse_adapter::start and bind_status_socket.                        *)

At(d, place)   == pc[d] = place
Goto(d, place) == pc' = [pc EXCEPT ![d] = place]
Running(d)     == pc[d] \notin {"off", "exited", "killed"}

Start(d) ==
    /\ At(d, "off")
    /\ Goto(d, "prepare")
    /\ UNCHANGED <<dir, mounted, sock, ready, unmounted, hasty, appVars>>

(* prepare_mount_dir, in three calls: it looks for the mount point, makes   *)
(* it if there was none, and looks at what is there.                        *)

(* The mount of a dead daemon cannot be looked at.                          *)
Answers == mounted = None \/ Running(mounted)

FindDir(d) ==
    /\ At(d, "prepare")
    /\ Goto(d, IF ~Answers THEN "exit"
               ELSE IF mounted = None /\ dir = "absent" THEN "create" ELSE "validate")
    /\ UNCHANGED <<dir, mounted, sock, ready, unmounted, hasty, appVars>>

CreateDir(d) ==
    /\ At(d, "create")
    /\ IF dir = "absent" THEN dir' = "private" /\ Goto(d, "validate")
                         ELSE dir' = dir /\ Goto(d, "exit")
    /\ UNCHANGED <<mounted, sock, ready, unmounted, hasty, appVars>>

\* Mutant: an old socket is removed first, before the mount point is looked at.
validate_mount_dir_path_late(d) ==
    /\ At(d, "validate")
    /\ sock' = IF sock = "file" THEN sock ELSE None
    /\ Goto(d, IF mounted = None /\ dir = "private" THEN "mount" ELSE "exit")
    /\ UNCHANGED <<dir, mounted, ready, unmounted, hasty, appVars>>

\* Mutant: a mount point that is refused does not end main, which goes on
\* without a mount.
validate_mount_dir_path_ignored(d) ==
    /\ At(d, "validate")
    /\ Goto(d, IF mounted = None /\ dir = "private" THEN "mount" ELSE "status")
    /\ UNCHANGED <<dir, mounted, sock, ready, unmounted, hasty, appVars>>

(* The root of a mounted daemon has the mode 0755, which is refused like    *)
(* every directory that is not private.                                     *)
validate_mount_dir_path(d) ==
    /\ At(d, "validate")
    /\ Goto(d, IF mounted = None /\ dir = "private" THEN "mount" ELSE "exit")
    /\ UNCHANGED <<dir, mounted, sock, ready, unmounted, hasty, appVars>>

(* The kernel and fusermount, which mount on a directory that the user can  *)
(* write, and so not on the read-only mount of another daemon.              *)
spawn_mount2(d) ==
    /\ At(d, "mount")
    /\ IF mounted = None THEN mounted' = d /\ Goto(d, "status")
                         ELSE mounted' = mounted /\ Goto(d, "exit")
    /\ UNCHANGED <<dir, sock, ready, unmounted, hasty, appVars>>

set_mount_status(d) ==
    /\ At(d, "status")
    /\ ready' = ready \cup {d}
    /\ Goto(d, "check")
    /\ UNCHANGED <<dir, mounted, sock, unmounted, hasty, appVars>>

(* remove_stale_socket, in two steps: the kind of file is looked at, then   *)
(* whatever is there is removed.                                            *)
CheckSocket(d) ==
    /\ At(d, "check")
    /\ Goto(d, IF sock = None THEN "bind" ELSE IF sock = "file" THEN "exit" ELSE "remove")
    /\ UNCHANGED <<dir, mounted, sock, ready, unmounted, hasty, appVars>>

\* Mutant: the socket that a killed daemon left is not removed.
RemoveSocketNot(d) ==
    /\ At(d, "remove")
    /\ Goto(d, "bind")
    /\ UNCHANGED <<dir, mounted, sock, ready, unmounted, hasty, appVars>>

RemoveSocket(d) ==
    /\ At(d, "remove")
    /\ sock' = None
    /\ Goto(d, "bind")
    /\ UNCHANGED <<dir, mounted, ready, unmounted, hasty, appVars>>

Bind(d) ==
    /\ At(d, "bind")
    /\ IF sock = None THEN sock' = d /\ Goto(d, "serving")
                      ELSE sock' = sock /\ Goto(d, "exit")
    /\ UNCHANGED <<dir, mounted, ready, unmounted, hasty, appVars>>

(* An error of accept ends the loop, and main returns.                      *)
AcceptFails(d) ==
    /\ At(d, "serving")
    /\ Goto(d, "exit")
    /\ UNCHANGED <<dir, mounted, sock, ready, unmounted, hasty, appVars>>

(* What a daemon knows ends with its process.                               *)
Forget(d) ==
    /\ ready' = ready \ {d}
    /\ unmounted' = unmounted \ {d}
    /\ routes' = [routes EXCEPT ![d] = [p \in ProviderIds |-> 0]]
    /\ registrant' = [registrant EXCEPT ![d] = [p \in ProviderIds |-> None]]
    /\ nextProvider' = [nextProvider EXCEPT ![d] = 1]
    /\ promises' = {x \in promises : x.daemon # d}
    /\ UNCHANGED <<hasty, handle, nextToken>>

\* Mutant: main ends with process::exit, which drops nothing.
ExitNoDrop(d) ==
    /\ At(d, "exit")
    /\ Goto(d, "exited")
    /\ Forget(d)
    /\ UNCHANGED <<dir, mounted, sock>>

(* main returns: the drop of FuseMount unmounts, if the mount is there.     *)
Exit(d) ==
    /\ At(d, "exit")
    /\ mounted' = IF mounted = d THEN None ELSE mounted
    /\ Goto(d, "exited")
    /\ Forget(d)
    /\ UNCHANGED <<dir, sock>>

(* A signal, at any time: no destructor runs.                               *)
Killed(d) ==
    /\ Running(d)
    /\ Goto(d, "killed")
    /\ Forget(d)
    /\ UNCHANGED <<dir, mounted, sock>>

(* Between its mount and its bind.                                          *)
Starting(d) == pc[d] \in {"status", "check", "remove", "bind"}

(* The user unmounts, at any time: no daemon notices.                       *)
UserUnmounts ==
    /\ mounted # None
    /\ unmounted' = unmounted \cup {mounted}
    /\ hasty' = (hasty \/ Starting(mounted))
    /\ mounted' = None
    /\ UNCHANGED <<pc, dir, sock, ready, appVars>>

-----------------------------------------------------------------------------
(* Applications.  A request goes to the daemon that the path leads to.      *)

Reached(d) == sock = d /\ At(d, "serving")

fp_provider_register(a, d) ==
    /\ handle[a] = None /\ Reached(d)
    /\ nextProvider[d] <= MaxProviders /\ nextToken <= MaxTokens
    /\ routes' = [routes EXCEPT ![d][nextProvider[d]] = nextToken]
    /\ registrant' = [registrant EXCEPT ![d][nextProvider[d]] = a]
    /\ handle' = [handle EXCEPT ![a] =
                    [daemon |-> d, id |-> nextProvider[d], token |-> nextToken]]
    /\ nextProvider' = [nextProvider EXCEPT ![d] = @ + 1]
    /\ nextToken' = nextToken + 1
    /\ UNCHANGED <<pc, dir, mounted, sock, ready, unmounted, hasty, promises>>

(* The connection ends: by fp_provider_unregister, or with the application. *)
ConnectionEnds(a) ==
    /\ handle[a] # None
    /\ routes' = [routes EXCEPT ![handle[a].daemon][handle[a].id] = 0]
    /\ handle' = [handle EXCEPT ![a] = None]
    /\ UNCHANGED <<pc, dir, mounted, sock, ready, unmounted, hasty, registrant, nextProvider,
                   promises, nextToken>>

\* Mutant: the id alone is looked up.
validate_provider_owner_id(d, id, token) == routes[d][id] # 0

validate_provider_owner(d, id, token) == routes[d][id] = token

(* The commit of a handle, at the daemon that is reached now.               *)
fp_promise_commit(a, d) ==
    /\ handle[a] # None /\ Reached(d)
    /\ validate_provider_owner(d, handle[a].id, handle[a].token)
    /\ d \in ready
    /\ promises' = promises \cup {[daemon |-> d, provider |-> handle[a].id, by |-> a]}
    /\ UNCHANGED <<pc, dir, mounted, sock, ready, unmounted, hasty, routes, registrant,
                   nextProvider, handle, nextToken>>

-----------------------------------------------------------------------------
DaemonStep(d) ==
    \/ FindDir(d) \/ CreateDir(d) \/ validate_mount_dir_path(d) \/ spawn_mount2(d) \/ set_mount_status(d)
    \/ CheckSocket(d) \/ RemoveSocket(d) \/ Bind(d) \/ Exit(d)

Next ==
    \/ \E d \in Daemons : Start(d) \/ DaemonStep(d) \/ AcceptFails(d) \/ Killed(d)
    \/ UserUnmounts
    \/ \E a \in Apps :
          \/ \E d \in Daemons : fp_provider_register(a, d) \/ fp_promise_commit(a, d)
          \/ ConnectionEnds(a)

Spec == Init /\ [][Next]_vars

(* A process that runs main goes on with it.                                *)
FairSpec == Spec /\ \A d \in Daemons : WF_vars(DaemonStep(d))

-----------------------------------------------------------------------------
(* A daemon that serves and has the mount is the one that the path of the   *)
(* socket leads to.  Nothing in remove_stale_socket keeps a second daemon   *)
(* from removing a socket in use; it is that main mounts first.  So a user  *)
(* who unmounts one that is starting lets in another, whose socket the      *)
(* first removes; nothing else does that, not the end of either.            *)
MountedKeepsSocket ==
    ~hasty => \A d \in Daemons : At(d, "serving") /\ mounted = d => sock = d

(* A promise belongs to a provider that the application which committed it  *)
(* has registered with the same daemon, although ids begin at 1 in every    *)
(* daemon, a handle outlives its daemon, and each request finds its daemon  *)
(* by the path.                                                             *)
CommitByRegistrant ==
    \A x \in promises : registrant[x.daemon][x.provider] = x.by

(* A daemon that accepts commits has the mount in which they are visible,   *)
(* unless the user has taken it away.                                       *)
ReadyIsMounted ==
    \A d \in Daemons : At(d, "serving") /\ d \in ready => mounted = d \/ d \in unmounted

(* A daemon that ends by itself leaves no mount behind, on whichever path of *)
(* main it ends; a mount that answers nothing was left by a killed one.      *)
DeadMountWasKilled ==
    mounted # None => Running(mounted) \/ At(mounted, "killed")

(* When nothing is in the way and daemons start, in any number and overlap,  *)
(* one of them comes to serve, unless another one is killed: they never all  *)
(* refuse each other, and the socket of a killed one stops none.             *)
OneServes ==
    \A n \in 0 .. Cardinality(Daemons) - 1 :
        /\ mounted = None /\ dir # "open" /\ sock # "file"
        /\ \E d \in Daemons : At(d, "prepare")
        /\ Cardinality({d \in Daemons : At(d, "killed")}) = n
        ~> \/ \E d \in Daemons : At(d, "serving")
           \/ Cardinality({d \in Daemons : At(d, "killed")}) > n
=============================================================================
