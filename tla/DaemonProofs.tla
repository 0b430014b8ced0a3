---------------------------- MODULE DaemonProofs ----------------------------
(***************************************************************************)
(* Proofs about the daemons of one user, for any number of them, of        *)
(* applications, provider ids and tokens.  Two invariants are inductive:   *)
(* MountInv, on the mount and the socket, and OwnerInv, on tokens and ids. *)
(***************************************************************************)
EXTENDS Daemon, TLAPS

(* Between mount and bind the mount is the daemon's own, or the user took   *)
(* it away.  So, unless that happens, only the one that has the mount       *)
(* removes a socket, and no other is mounted whose socket it could be.      *)
StartingIsMounted ==
    \A d \in Daemons : Starting(d) => mounted = d \/ (hasty /\ d \in unmounted)

MountInv ==
    /\ DaemonTypeOK
    /\ StartingIsMounted
    /\ MountedKeepsSocket
    /\ ReadyIsMounted
    /\ DeadMountWasKilled

(* A token is given out once, so that a route with the token of a handle    *)
(* was registered by the application that has the handle; an id is given    *)
(* out once by each daemon, so that a promise keeps its provider.           *)
TokensGivenOut ==
    /\ \A d \in Daemons, p \in ProviderIds : routes[d][p] < nextToken
    /\ \A a \in Apps : handle[a] # None => handle[a].token < nextToken

RouteOfHandle ==
    \A a \in Apps, d \in Daemons, p \in ProviderIds :
        handle[a] # None /\ routes[d][p] = handle[a].token => registrant[d][p] = a

IdsGivenOut ==
    /\ \A d \in Daemons, p \in ProviderIds : routes[d][p] # 0 => p < nextProvider[d]
    /\ \A x \in promises : x.provider < nextProvider[x.daemon]

OwnerInv ==
    /\ DaemonTypeOK
    /\ TokensGivenOut
    /\ RouteOfHandle
    /\ IdsGivenOut
    /\ CommitByRegistrant

-----------------------------------------------------------------------------
(* The initial states have no mount, no session and no handle.              *)
LEMMA InitHolds == Init => MountInv /\ OwnerInv
<1> SUFFICES ASSUME Init PROVE MountInv /\ OwnerInv
  BY Zenon
<1>0. hasty \in BOOLEAN
  BY Zenon DEF Init
<1>1. DaemonTypeOK
  BY <1>0, DaemonAssumptions DEF Init, DaemonTypeOK, Places, ProviderIds
<1>2. MountInv
  BY <1>1, DaemonAssumptions, Zenon DEF Init, MountInv, StartingIsMounted, MountedKeepsSocket, ReadyIsMounted,
     DeadMountWasKilled, Starting, At
<1>3. OwnerInv
  BY <1>1, DaemonAssumptions DEF Init, OwnerInv, TokensGivenOut, RouteOfHandle, IdsGivenOut,
     CommitByRegistrant, DaemonTypeOK, Tokens
<1> QED BY <1>2, <1>3, Zenon

(* A process that ends, by main or by a signal, forgets within the types.   *)
LEMMA ForgetType ==
    ASSUME DaemonTypeOK, NEW d \in Daemons, Forget(d)
    PROVE  /\ ready' \subseteq Daemons /\ unmounted' \subseteq Daemons
           /\ routes' \in [Daemons -> [ProviderIds -> 0 .. MaxTokens]]
           /\ registrant' \in [Daemons -> [ProviderIds -> Apps \cup {None}]]
           /\ nextProvider' \in [Daemons -> 1 .. MaxProviders + 1]
           /\ promises' \subseteq [daemon : Daemons, provider : ProviderIds, by : Apps]
<1>1. 0 \in 0 .. MaxTokens /\ 1 \in 1 .. MaxProviders + 1
  BY DaemonAssumptions
<1>2. [p \in ProviderIds |-> 0] \in [ProviderIds -> 0 .. MaxTokens]
  BY <1>1, Zenon
<1>3. [p \in ProviderIds |-> None] \in [ProviderIds -> Apps \cup {None}]
  BY Zenon
<1> QED BY <1>1, <1>2, <1>3, Zenon DEF DaemonTypeOK, Forget

(* Every step keeps the types.                                              *)
LEMMA TypeStep == DaemonTypeOK /\ [Next]_vars => DaemonTypeOK'
<1> SUFFICES ASSUME DaemonTypeOK, [Next]_vars PROVE DaemonTypeOK'
  BY Zenon
<1> USE DaemonAssumptions
<1>1. ASSUME NEW d \in Daemons,
             \/ Start(d) \/ FindDir(d) \/ CreateDir(d) \/ validate_mount_dir_path(d)
             \/ set_mount_status(d) \/ spawn_mount2(d) \/ CheckSocket(d)
             \/ RemoveSocket(d) \/ Bind(d) \/ AcceptFails(d)
      PROVE  DaemonTypeOK'
  BY <1>1, ZenonT(60) DEF DaemonTypeOK, Places, At, Goto, appVars, Start, FindDir, CreateDir,
     validate_mount_dir_path, set_mount_status, spawn_mount2, CheckSocket, RemoveSocket, Bind,
     AcceptFails
<1>2. ASSUME NEW d \in Daemons, Exit(d) \/ Killed(d) PROVE DaemonTypeOK'
  <2>1. Forget(d)
    BY <1>2, Zenon DEF Exit, Killed
  <2>2. /\ pc' \in [Daemons -> Places] /\ mounted' \in Daemons \cup {None}
        /\ dir' = dir /\ sock' = sock /\ hasty' = hasty /\ handle' = handle /\ nextToken' = nextToken
    BY <1>2, Zenon DEF DaemonTypeOK, Places, Goto, Exit, Killed, Forget
  <2> QED BY <2>1, <2>2, ForgetType, Zenon DEF DaemonTypeOK
<1>3. CASE UserUnmounts
  BY <1>3, Zenon DEF DaemonTypeOK, UserUnmounts, Starting, appVars
<1>4. ASSUME NEW a \in Apps, NEW d \in Daemons, fp_provider_register(a, d)
      PROVE  DaemonTypeOK'
  <2>1. nextProvider[d] \in ProviderIds /\ nextToken \in Tokens
    BY <1>4 DEF DaemonTypeOK, fp_provider_register, ProviderIds, Tokens
  <2>2. nextToken \in 0 .. MaxTokens /\ nextToken + 1 \in 1 .. MaxTokens + 1
        /\ nextProvider[d] + 1 \in 1 .. MaxProviders + 1
    BY <2>1 DEF ProviderIds, Tokens
  <2>3. routes' \in [Daemons -> [ProviderIds -> 0 .. MaxTokens]]
    BY <1>4, <2>1, <2>2, Zenon DEF DaemonTypeOK, fp_provider_register
  <2>4. registrant' \in [Daemons -> [ProviderIds -> Apps \cup {None}]]
    BY <1>4, <2>1, Zenon DEF DaemonTypeOK, fp_provider_register
  <2>5. handle' \in [Apps -> [daemon : Daemons, id : ProviderIds, token : Tokens] \cup {None}]
    BY <1>4, <2>1, Zenon DEF DaemonTypeOK, fp_provider_register
  <2> QED BY <1>4, <2>2, <2>3, <2>4, <2>5, Zenon DEF DaemonTypeOK, fp_provider_register
<1>5. ASSUME NEW a \in Apps, NEW d \in Daemons, fp_promise_commit(a, d)
      PROVE  DaemonTypeOK'
  BY <1>5 DEF DaemonTypeOK, fp_promise_commit
<1>6. ASSUME NEW a \in Apps, ConnectionEnds(a) PROVE DaemonTypeOK'
  BY <1>6 DEF DaemonTypeOK, ConnectionEnds
<1>7. CASE UNCHANGED vars
  BY <1>7, Zenon DEF DaemonTypeOK, vars
<1> QED BY <1>1, <1>2, <1>3, <1>4, <1>5, <1>6, <1>7, Zenon DEF Next, DaemonStep

-----------------------------------------------------------------------------
(* What a daemon does keeps the mount and the socket together.              *)
LEMMA MountStep == MountInv /\ [Next]_vars => MountInv'
<1> SUFFICES ASSUME MountInv, [Next]_vars PROVE MountInv'
  BY Zenon
<1> USE DaemonAssumptions
<1>t. DaemonTypeOK'
  BY TypeStep, Zenon DEF MountInv
<1> DEFINE Rest == StartingIsMounted /\ MountedKeepsSocket /\ ReadyIsMounted /\ DeadMountWasKilled
<1>1. ASSUME NEW d \in Daemons,
             \/ Start(d) \/ FindDir(d) \/ CreateDir(d) \/ validate_mount_dir_path(d)
             \/ set_mount_status(d) \/ CheckSocket(d) \/ AcceptFails(d)
      PROVE  Rest'
  BY <1>1 DEF MountInv, DaemonTypeOK, StartingIsMounted, MountedKeepsSocket, ReadyIsMounted,
     DeadMountWasKilled, Starting, At, Goto, Running, Start, FindDir, CreateDir, validate_mount_dir_path,
     set_mount_status, CheckSocket, AcceptFails
<1>2. ASSUME NEW d \in Daemons, spawn_mount2(d) PROVE Rest'
  BY <1>2, ZenonT(60) DEF MountInv, DaemonTypeOK, StartingIsMounted, MountedKeepsSocket, ReadyIsMounted,
     DeadMountWasKilled, Starting, At, Goto, Running, spawn_mount2
<1>3. ASSUME NEW d \in Daemons, RemoveSocket(d) \/ Bind(d) PROVE Rest'
  <2>1. /\ Starting(d) /\ pc'[d] \in {"bind", "serving", "exit"}
        /\ \A e \in Daemons \ {d} : pc'[e] = pc[e]
        /\ pc'[d] = "serving" => sock' = d
        /\ UNCHANGED <<mounted, ready, unmounted, hasty>>
    BY <1>3, Zenon DEF MountInv, DaemonTypeOK, Goto, At, Starting, RemoveSocket, Bind
  <2>2. mounted = d \/ (hasty /\ d \in unmounted)
    BY <2>1, Zenon DEF MountInv, StartingIsMounted
  <2>3. StartingIsMounted'
    BY <2>1, <2>2, Zenon DEF MountInv, StartingIsMounted, Starting
  <2>4. MountedKeepsSocket'
    BY <2>1, <2>2, Zenon DEF MountedKeepsSocket, At
  <2>5. ReadyIsMounted'
    BY <2>1, <2>2, Zenon DEF MountInv, ReadyIsMounted, At
  <2>6. DeadMountWasKilled'
    BY <2>1, Zenon DEF MountInv, DaemonTypeOK, DeadMountWasKilled, Starting, At, Running
  <2> QED BY <2>3, <2>4, <2>5, <2>6, Zenon
<1>4. ASSUME NEW d \in Daemons, Exit(d) \/ Killed(d) PROVE Rest'
  <2>1. /\ pc'[d] \in {"exited", "killed"}
        /\ \A e \in Daemons \ {d} : pc'[e] = pc[e]
        /\ pc'[d] = "exited" => mounted' # d
        /\ pc'[d] = "killed" => mounted' = mounted
        /\ mounted' \in {mounted, None} /\ (mounted # d => mounted' = mounted)
        /\ sock' = sock
    BY <1>4, Zenon DEF MountInv, DaemonTypeOK, Goto, Exit, Killed
  <2>2. ready' = ready \ {d} /\ unmounted' = unmounted \ {d} /\ hasty' = hasty
    BY <1>4, Zenon DEF Exit, Killed, Forget
  <2>3. StartingIsMounted' /\ MountedKeepsSocket'
    BY <2>1, <2>2, Zenon DEF MountInv, StartingIsMounted, MountedKeepsSocket, Starting, At
  <2>4. ReadyIsMounted'
    BY <2>1, <2>2, Zenon DEF MountInv, ReadyIsMounted, At
  <2>5. DeadMountWasKilled'
    BY <2>1, Zenon DEF MountInv, DaemonTypeOK, DeadMountWasKilled, Starting, At, Running
  <2> QED BY <2>3, <2>4, <2>5, Zenon
<1>5. ASSUME UserUnmounts PROVE Rest'
  BY <1>5, Zenon DEF MountInv, DaemonTypeOK, StartingIsMounted, MountedKeepsSocket, ReadyIsMounted,
     DeadMountWasKilled, Starting, At, Running, UserUnmounts
<1>6. ASSUME UNCHANGED <<pc, mounted, sock, ready, unmounted, hasty>> PROVE Rest'
  BY <1>6, Zenon DEF MountInv, StartingIsMounted, MountedKeepsSocket, ReadyIsMounted,
     DeadMountWasKilled, Starting, At, Running
<1>7. Rest'
  BY <1>1, <1>2, <1>3, <1>4, <1>5, <1>6, Zenon DEF Next, DaemonStep, fp_provider_register,
     fp_promise_commit, ConnectionEnds, vars
<1> QED BY <1>t, <1>7, Zenon DEF MountInv

-----------------------------------------------------------------------------
(* What applications do, and the end of a daemon, keep owners apart.        *)
LEMMA OwnerStep == OwnerInv /\ [Next]_vars => OwnerInv'
<1> SUFFICES ASSUME OwnerInv, [Next]_vars PROVE OwnerInv'
  BY Zenon
<1> USE DaemonAssumptions
<1>t. DaemonTypeOK /\ DaemonTypeOK'
  BY TypeStep, Zenon DEF OwnerInv
<1> DEFINE Rest == TokensGivenOut /\ RouteOfHandle /\ IdsGivenOut /\ CommitByRegistrant
<1>1. ASSUME NEW a \in Apps, NEW d \in Daemons, fp_provider_register(a, d) PROVE Rest'
  <2> DEFINE p == nextProvider[d]
  <2>1. p \in ProviderIds /\ nextToken \in 1 .. MaxTokens
    BY <1>1, <1>t DEF DaemonTypeOK, fp_provider_register, ProviderIds
  <2>2. \A e \in Daemons, q \in ProviderIds :
           /\ routes'[e][q] = IF e = d /\ q = p THEN nextToken ELSE routes[e][q]
           /\ registrant'[e][q] = IF e = d /\ q = p THEN a ELSE registrant[e][q]
    BY <1>1, <1>t, <2>1 DEF DaemonTypeOK, fp_provider_register
  <2>3. \A b \in Apps : handle'[b] = IF b = a THEN [daemon |-> d, id |-> p, token |-> nextToken]
                                              ELSE handle[b]
    BY <1>1, <1>t, ZenonT(60) DEF DaemonTypeOK, fp_provider_register
  <2>4. /\ \A e \in Daemons : nextProvider'[e] = IF e = d THEN p + 1 ELSE nextProvider[e]
        /\ nextToken' = nextToken + 1 /\ promises' = promises
    BY <1>1, <1>t, Zenon DEF DaemonTypeOK, fp_provider_register
  <2>0. /\ \A e \in Daemons, q \in ProviderIds : routes[e][q] \in Int
        /\ \A e \in Daemons : nextProvider[e] \in Int
        /\ \A q \in ProviderIds : q \in Int
        /\ \A b \in Apps : handle[b] # None => handle[b].token \in Int
        /\ \A x \in promises : x.daemon \in Daemons /\ x.provider \in ProviderIds
    <3>1. \A e \in Daemons, q \in ProviderIds : routes[e][q] \in Int
      BY <1>t DEF DaemonTypeOK
    <3>2. \A e \in Daemons : nextProvider[e] \in Int
      BY <1>t DEF DaemonTypeOK
    <3>3. \A q \in ProviderIds : q \in Int
      BY DEF ProviderIds
    <3>4. \A b \in Apps : handle[b] # None => handle[b].token \in Int
      BY <1>t DEF DaemonTypeOK, Tokens
    <3>5. \A x \in promises : x.daemon \in Daemons /\ x.provider \in ProviderIds
      BY <1>t, Zenon DEF DaemonTypeOK
    <3> QED BY <3>1, <3>2, <3>3, <3>4, <3>5, Zenon
  <2> HIDE DEF p
  <2>5. TokensGivenOut'
    BY <2>0, <2>1, <2>2, <2>3, <2>4 DEF OwnerInv, TokensGivenOut
  <2>6. RouteOfHandle'
    <3> SUFFICES ASSUME NEW b \in Apps, NEW e \in Daemons, NEW q \in ProviderIds,
                        handle'[b] # None, routes'[e][q] = handle'[b].token
                 PROVE  registrant'[e][q] = b
      BY Zenon DEF RouteOfHandle
    <3>1. CASE e = d /\ q = p
      <4>1. handle'[b].token = nextToken
        BY <3>1, <2>2, Zenon
      <4>2. b = a
        BY <4>1, <2>0, <2>1, <2>3 DEF OwnerInv, TokensGivenOut
      <4> QED BY <4>2, <3>1, <2>2, Zenon
    <3>2. CASE ~(e = d /\ q = p)
      <4>1. routes[e][q] = handle'[b].token /\ registrant'[e][q] = registrant[e][q]
        BY <3>2, <2>2, Zenon
      <4>2. b # a
        BY <4>1, <2>0, <2>1, <2>3 DEF OwnerInv, TokensGivenOut
      <4> QED BY <4>1, <4>2, <2>3 DEF OwnerInv, RouteOfHandle
    <3> QED BY <3>1, <3>2, Zenon
  <2>7. IdsGivenOut'
    BY <2>0, <2>1, <2>2, <2>4 DEF OwnerInv, IdsGivenOut, p
  <2>8. CommitByRegistrant'
    BY <2>0, <2>1, <2>2, <2>4 DEF OwnerInv, IdsGivenOut, CommitByRegistrant, p
  <2> QED BY <2>5, <2>6, <2>7, <2>8, Zenon
<1>2. ASSUME NEW a \in Apps, NEW d \in Daemons, fp_promise_commit(a, d) PROVE Rest'
  <2> DEFINE new == [daemon |-> d, provider |-> handle[a].id, by |-> a]
  <2>1. /\ handle[a] # None /\ handle[a].id \in ProviderIds /\ handle[a].token \in Tokens
        /\ routes[d][handle[a].id] = handle[a].token
    BY <1>2, <1>t, Zenon DEF DaemonTypeOK, fp_promise_commit, validate_provider_owner
  <2>2. registrant[d][handle[a].id] = a
    BY <2>1, Zenon DEF OwnerInv, RouteOfHandle
  <2>3. handle[a].id < nextProvider[d]
    BY <2>1 DEF OwnerInv, IdsGivenOut, Tokens
  <2>4. /\ promises' = promises \cup {new}
        /\ UNCHANGED <<routes, registrant, nextProvider, handle, nextToken>>
    BY <1>2, Zenon DEF fp_promise_commit
  <2> QED BY <2>2, <2>3, <2>4 DEF OwnerInv, TokensGivenOut, RouteOfHandle, IdsGivenOut,
          CommitByRegistrant
<1>3. ASSUME NEW a \in Apps, ConnectionEnds(a) PROVE Rest'
  <2>1. /\ \A e \in Daemons, q \in ProviderIds : routes'[e][q] \in {0, routes[e][q]}
        /\ \A b \in Apps : handle'[b] \in {None, handle[b]}
        /\ UNCHANGED <<registrant, nextProvider, promises, nextToken>>
    BY <1>3, <1>t, ZenonT(60) DEF DaemonTypeOK, ConnectionEnds
  <2>2. \A b \in Apps : handle[b] # None => handle[b].token > 0
    BY <1>t DEF DaemonTypeOK, Tokens
  <2>3. nextToken > 0
    BY <1>t DEF DaemonTypeOK
  <2> QED BY <2>1, <2>2, <2>3 DEF OwnerInv, TokensGivenOut, RouteOfHandle, IdsGivenOut,
          CommitByRegistrant
<1>4. ASSUME NEW d \in Daemons, Exit(d) \/ Killed(d) PROVE Rest'
  <2>1. Forget(d)
    BY <1>4, Zenon DEF Exit, Killed
  <2>2. /\ \A e \in Daemons, q \in ProviderIds :
              /\ routes'[e][q] = IF e = d THEN 0 ELSE routes[e][q]
              /\ e # d => registrant'[e][q] = registrant[e][q]
        /\ \A e \in Daemons : e # d => nextProvider'[e] = nextProvider[e]
        /\ promises' = {x \in promises : x.daemon # d}
        /\ handle' = handle /\ nextToken' = nextToken
    BY <2>1, <1>t, Zenon DEF DaemonTypeOK, Forget
  <2>3. /\ \A b \in Apps : handle[b] # None => handle[b].token > 0
        /\ nextToken > 0
    BY <1>t DEF DaemonTypeOK, Tokens
  <2>4. \A x \in promises : x.daemon \in Daemons /\ x.provider \in ProviderIds
    BY <1>t, Zenon DEF DaemonTypeOK
  <2>5. TokensGivenOut' /\ RouteOfHandle'
    BY <2>2, <2>3 DEF OwnerInv, TokensGivenOut, RouteOfHandle
  <2>6. IdsGivenOut' /\ CommitByRegistrant'
    BY <2>2, <2>4, Zenon DEF OwnerInv, IdsGivenOut, CommitByRegistrant
  <2> QED BY <2>5, <2>6, Zenon
<1>5. ASSUME UNCHANGED appVars PROVE Rest'
  BY <1>5, Zenon DEF OwnerInv, TokensGivenOut, RouteOfHandle, IdsGivenOut, CommitByRegistrant, appVars
<1>6. Rest'
  BY <1>1, <1>2, <1>3, <1>4, <1>5, Zenon DEF Next, DaemonStep, Start, FindDir, CreateDir,
     validate_mount_dir_path, spawn_mount2, set_mount_status, CheckSocket, RemoveSocket, Bind,
     AcceptFails, UserUnmounts, vars, appVars
<1> QED BY <1>t, <1>6, Zenon DEF OwnerInv

-----------------------------------------------------------------------------
(* The two invariants hold for every daemon and application.                *)
THEOREM DaemonTheorem == Spec => [](MountInv /\ OwnerInv)
<1>1. MountInv /\ OwnerInv /\ [Next]_vars => (MountInv /\ OwnerInv)'
  BY MountStep, OwnerStep, Zenon
<1> QED BY InitHolds, <1>1, PTL DEF Spec

(* However many daemons start, end and are killed: the one that serves with *)
(* its mount is reached by the path of the socket, although                 *)
(* remove_stale_socket removes sockets in use.                              *)
THEOREM SocketTheorem == Spec => []MountedKeepsSocket
<1>1. MountInv => MountedKeepsSocket
  BY Zenon DEF MountInv
<1> QED BY DaemonTheorem, <1>1, PTL

(* A daemon that accepts commits has its mount, unless the user took it.    *)
THEOREM ReadyTheorem == Spec => []ReadyIsMounted
<1>1. MountInv => ReadyIsMounted
  BY Zenon DEF MountInv
<1> QED BY DaemonTheorem, <1>1, PTL

(* Only a killed daemon leaves a mount behind.                              *)
THEOREM DeadMountTheorem == Spec => []DeadMountWasKilled
<1>1. MountInv => DeadMountWasKilled
  BY Zenon DEF MountInv
<1> QED BY DaemonTheorem, <1>1, PTL

(* A commit always goes to a provider of the application that makes it: the *)
(* owner token, which no daemon gives out again, makes up for ids that      *)
(* begin at 1 in every daemon.                                              *)
THEOREM CommitTheorem == Spec => []CommitByRegistrant
<1>1. OwnerInv => CommitByRegistrant
  BY Zenon DEF OwnerInv
<1> QED BY DaemonTheorem, <1>1, PTL
=============================================================================
