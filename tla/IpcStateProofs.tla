--------------------------- MODULE IpcStateProofs ---------------------------
(***************************************************************************)
(* Proofs about IpcState, for every number of connections, readers,        *)
(* providers, promises and requests: first the types, and who can be where *)
(* with which locals; then that sessions, routes and promises never        *)
(* disagree for longer than a thread needs to bring them in line; then     *)
(* that every read gets its own answer, once; and last that IpcState       *)
(* implements ProviderService.                                             *)
(***************************************************************************)
EXTENDS IpcState, TLAPS

InRead == BeforeInsert \cup AfterInsert

\* The places where a thread works for the provider prov names.
ForProvider == InRead \cup Disconnect \cup {"Registering", "Unregistering", "Committing"}

\* What thread t may hold at a place: only handler threads run handlers and
\* only readers read; job says what a thread inside disconnect_provider_id
\* returns to; there is a request id exactly inside a read.
LocalsOf(t, place, job, p, r) ==
    /\ place \in Places
    /\ job \in Tasks
    /\ place \in Handler => t \in Conns
    /\ place \in InRead => t \in Readers
    /\ job = "None" <=> place \notin Disconnect \cup {"Closing", "Closed"}
    /\ place \in {"Closing", "Closed"} => job = "Close"
    /\ job \in {"Close", "Unregister"} => t \in Conns
    /\ job = "Read" => t \in Readers
    /\ place \in ForProvider => p # 0
    /\ r # 0 <=> place \in InRead \/ job = "Read"

\* Every thread has the locals of its place, names only identifiers that are
\* allocated, and shares its request id with no other.
ThreadInv ==
    /\ ThreadTypeOK
    /\ \A t \in Threads : LocalsOf(t, pc[t], task[t], prov[t], req[t])
    /\ \A t \in Threads : prov[t] < nextProvider /\ req[t] < nextRequest
    /\ \A t, u \in Threads : (req[t] = req[u] /\ req[t] # 0) => t = u

\* Provider ids from next_provider_id on are used nowhere.
ProvidersAllocated ==
    \A p \in ProviderIds :
        /\ providers[p] = "Absent" <=> p >= nextProvider
        /\ registrant[p] = None <=> p >= nextProvider
        /\ p >= nextProvider => routes[p] = None /\ \A c \in Conns : p \notin registered[c]

\* Promise ids from next_promise_id on are unused; the others have an owner.
PromisesAllocated ==
    \A m \in PromiseIds :
        /\ promiseState[m] = "Absent" <=> m >= nextPromise
        /\ promiseOwner[m] = 0 <=> m >= nextPromise
        /\ promiseOwner[m] < nextProvider

LocalsInv ==
    /\ RuntimeTypeOK
    /\ IpcTypeOK
    /\ ReadTypeOK
    /\ ThreadInv
    /\ ProvidersAllocated
    /\ PromisesAllocated

-----------------------------------------------------------------------------
\* One thread moves to a place, with these locals.
Moves(t, place, job, p, r) ==
    /\ pc' = [pc EXCEPT ![t] = place]
    /\ task' = [task EXCEPT ![t] = job]
    /\ prov' = [prov EXCEPT ![t] = p]
    /\ req' = [req EXCEPT ![t] = r]

\* A move to a place with the locals of that place, under ids the thread
\* already had or that are just allocated, keeps the invariant of all threads.
LEMMA MoveKeepsThreadInv ==
    ASSUME RuntimeTypeOK, RuntimeTypeOK', IpcTypeOK, IpcTypeOK', ThreadInv,
           nextProvider <= nextProvider', nextRequest <= nextRequest',
           NEW t \in Threads, NEW place, NEW job, NEW p \in ProviderIds \cup {0}, NEW r \in RequestIds \cup {0},
           Moves(t, place, job, p, r), LocalsOf(t, place, job, p, r),
           p < nextProvider', r < nextRequest', r \in {0, req[t], nextRequest}
    PROVE  ThreadInv'
<1>1. pc \in [Threads -> Places] /\ task \in [Threads -> Tasks]
      /\ prov \in [Threads -> ProviderIds \cup {0}] /\ req \in [Threads -> RequestIds \cup {0}]
  BY Zenon DEF ThreadInv, ThreadTypeOK
<1>2. place \in Places /\ job \in Tasks
  BY Zenon DEF LocalsOf
<1>3. ThreadTypeOK'
  BY <1>1, <1>2, Zenon DEF ThreadTypeOK, Moves
<1>4. ASSUME NEW u \in Threads PROVE LocalsOf(u, pc'[u], task'[u], prov'[u], req'[u])
  <2>1. CASE u = t
    BY <1>1, <2>1, Zenon DEF Moves
  <2>2. CASE u # t
    BY <1>1, <2>2, Zenon DEF Moves, ThreadInv
  <2> QED BY <2>1, <2>2, Zenon
<1>5. ASSUME NEW u \in Threads PROVE prov'[u] < nextProvider' /\ req'[u] < nextRequest'
  <2>1. CASE u = t
    BY <1>1, <2>1, Zenon DEF Moves
  <2>2. prov[u] < nextProvider /\ req[u] < nextRequest
    BY Zenon DEF ThreadInv
  <2>3. CASE u # t
    <3>1. prov'[u] = prov[u] /\ req'[u] = req[u]
      BY <1>1, <2>3, Zenon DEF Moves
    <3>2. prov[u] \in Nat /\ req[u] \in Nat
      BY <1>1, RuntimeBounds, IpcAssumptions DEF ProviderIds, RequestIds
    <3>3. nextProvider \in Nat /\ nextProvider' \in Nat /\ nextRequest \in Nat /\ nextRequest' \in Nat
      BY RuntimeBounds, IpcAssumptions DEF RuntimeTypeOK, IpcTypeOK
    <3> QED
      BY <2>2, <3>1, <3>2, <3>3
  <2> QED BY <2>1, <2>3, Zenon
<1>6. ASSUME NEW u \in Threads, NEW v \in Threads, req'[u] = req'[v], req'[u] # 0 PROVE u = v
  <2>1. \A w \in Threads : req[w] # nextRequest
    BY <1>1, IpcAssumptions DEF ThreadInv, IpcTypeOK, RequestIds
  <2>2. \A w \in Threads : req'[w] = IF w = t THEN r ELSE req[w]
    BY <1>1, Zenon DEF Moves
  <2> QED
    BY <1>6, <2>1, <2>2, Zenon DEF ThreadInv
<1> QED BY <1>3, <1>4, <1>5, <1>6, Zenon DEF ThreadInv

\* The common case: the thread keeps or drops its ids and none is allocated.
LEMMA LocalMove ==
    ASSUME RuntimeTypeOK, RuntimeTypeOK', IpcTypeOK, IpcTypeOK', ThreadInv,
           UNCHANGED <<nextProvider, nextRequest>>,
           NEW t \in Threads, NEW place, NEW job, NEW p \in {0, prov[t]}, NEW r \in {0, req[t]},
           Moves(t, place, job, p, r), LocalsOf(t, place, job, p, r)
    PROVE  ThreadInv'
<1>1. p \in ProviderIds \cup {0} /\ r \in RequestIds \cup {0}
  BY Zenon DEF ThreadInv, ThreadTypeOK
<1>2. prov[t] < nextProvider /\ req[t] < nextRequest /\ 0 < nextProvider /\ 0 < nextRequest
  BY RuntimeBounds, IpcAssumptions DEF ThreadInv, RuntimeTypeOK, IpcTypeOK
<1>3. nextProvider <= nextProvider /\ nextRequest <= nextRequest
  BY RuntimeBounds, IpcAssumptions DEF RuntimeTypeOK, IpcTypeOK
<1> QED
  BY <1>1, <1>2, <1>3, MoveKeepsThreadInv, Zenon

\* The daemon starts with idle threads that hold nothing.
LEMMA LocalsInit == Init => LocalsInv
BY RuntimeBounds, IpcAssumptions
DEF Init, RuntimeInit, LocalsInv, RuntimeTypeOK, IpcTypeOK, ThreadTypeOK, ReadTypeOK, ThreadInv, LocalsOf,
    ProvidersAllocated, PromisesAllocated, ProviderIds, PromiseIds, RequestIds, Places, Tasks, InRead,
    ForProvider, BeforeInsert, AfterInsert, Disconnect, Handler

\* Every step keeps types, locals and the allocation of identifiers.
LEMMA LocalsStep == LocalsInv /\ [Next]_vars => LocalsInv'
<1> SUFFICES ASSUME RuntimeTypeOK, IpcTypeOK, ReadTypeOK, ThreadInv, ProvidersAllocated, PromisesAllocated,
                    [Next]_vars
             PROVE  LocalsInv'
  BY Zenon DEF LocalsInv
<1>a. Readers \subseteq Threads /\ Conns \subseteq Threads
  BY Zenon DEF Threads
<1>b. ASSUME NEW t \in Threads
      PROVE  /\ LocalsOf(t, pc[t], task[t], prov[t], req[t])
             /\ req[t] \in RequestIds \cup {0} /\ req[t] < nextRequest
  BY Zenon DEF ThreadInv, ThreadTypeOK
<1>c. ASSUME NEW t \in Threads
      PROVE  /\ pc[t] \in ForProvider => prov[t] \in ProviderIds /\ prov[t] < nextProvider
             /\ pc[t] \in InRead \/ task[t] = "Read" => req[t] \in RequestIds
  BY <1>b, Zenon DEF ThreadInv, ThreadTypeOK, LocalsOf
<1>d. ASSUME NEW t \in Threads
      PROVE  pc = [pc EXCEPT ![t] = pc[t]] /\ task = [task EXCEPT ![t] = task[t]]
             /\ prov = [prov EXCEPT ![t] = prov[t]] /\ req = [req EXCEPT ![t] = req[t]]
  BY Zenon DEF ThreadInv, ThreadTypeOK
<1>e. ASSUME UNCHANGED runtimeVars, UNCHANGED <<routes, registered, registrant>>
      PROVE  RuntimeTypeOK' /\ ProvidersAllocated' /\ PromisesAllocated'
  BY <1>e, Zenon DEF runtimeVars, RuntimeTypeOK, ProvidersAllocated, PromisesAllocated
<1>f. ASSUME UNCHANGED ipcVars, UNCHANGED connVars PROVE IpcTypeOK'
  BY <1>f, Zenon DEF ipcVars, connVars, IpcTypeOK
<1>g. ASSUME NEW r \in RequestIds, remove_pending_read(r), UNCHANGED <<routes, nextRequest, registered, registrant, openPeers>>,
             delivered' \in [Conns -> SUBSET RequestIds]
      PROVE  IpcTypeOK'
  BY <1>g, Zenon DEF remove_pending_read, IpcTypeOK
<1>h. ASSUME UNCHANGED <<route, outbox, reply>> PROVE ReadTypeOK'
  BY <1>h, Zenon DEF ReadTypeOK
<1>i. ASSUME NEW t \in Threads, route' = [route EXCEPT ![t] = None], UNCHANGED outbox,
             \/ UNCHANGED reply
             \/ \E kind \in ReplyKinds : req[t] \in RequestIds /\ reply' = [reply EXCEPT ![t] = Failure(kind, req[t])]
      PROVE  ReadTypeOK'
  BY <1>i DEF ReadTypeOK, Failure, Reply
<1>j. ASSUME NEW t \in Threads, NEW msg \in outbox[t], Send(msg) PROVE reply' \in [Threads -> Reply \cup {None}]
  BY <1>j DEF Send, ReadTypeOK, Message
<1>k. ASSUME NEW p \in ProviderIds, routes[p] # None PROVE p < nextProvider /\ p # 0
  BY <1>k, RuntimeBounds DEF ProvidersAllocated, RuntimeTypeOK, ProviderIds
<1>l. nextProvider <= nextProvider /\ nextRequest <= nextRequest
  BY RuntimeBounds, IpcAssumptions DEF RuntimeTypeOK, IpcTypeOK
<1>m. ASSUME NEW t \in Threads, prov[t] \in ProviderIds, prov[t] < nextProvider, unregister_provider(prov[t]),
             UNCHANGED <<routes, registrant>>, \A c \in Conns : registered'[c] \subseteq registered[c]
      PROVE  RuntimeTypeOK' /\ ProvidersAllocated' /\ PromisesAllocated'
  <2>1. RuntimeTypeOK'
    BY <1>m, Zenon DEF unregister_provider, RuntimeTypeOK
  <2>2. ASSUME NEW p \in ProviderIds PROVE providers'[p] = "Absent" <=> providers[p] = "Absent"
    BY <1>m, RuntimeBounds DEF unregister_provider, RuntimeTypeOK, ProvidersAllocated, ProviderIds
  <2>3. ProvidersAllocated'
    BY <1>m, <2>2, Zenon DEF unregister_provider, ProvidersAllocated
  <2>4. PromisesAllocated'
    BY <1>m, Zenon DEF unregister_provider, RuntimeTypeOK, PromisesAllocated
  <2> QED BY <2>1, <2>3, <2>4, Zenon
<1>1. ASSUME NEW t \in Readers, NEW m \in PromiseIds, BeginRead(t, m) PROVE LocalsInv'
  <2>1. pc[t] = "Idle"
    BY <1>1, Zenon DEF BeginRead
  <2>2. RuntimeTypeOK' /\ ProvidersAllocated' /\ PromisesAllocated'
    BY <1>1, <1>e, Zenon DEF BeginRead, ipcVars, connVars
  <2>3. IpcTypeOK'
    BY <1>1, IpcAssumptions DEF IpcTypeOK, BeginRead, connVars
  <2>4. ReadTypeOK'
    BY <1>1, Zenon DEF ReadTypeOK, BeginRead
  <2>5. ThreadInv'
    <3>1. Moves(t, "Planned", task[t], promiseOwner[m], nextRequest)
      BY <1>1, <1>a, <1>d, <2>1, Zenon DEF BeginRead, Moves
    <3>2. /\ promiseOwner[m] \in ProviderIds /\ promiseOwner[m] # 0 /\ promiseOwner[m] < nextProvider'
          /\ nextRequest \in RequestIds /\ nextRequest # 0 /\ nextRequest < nextRequest'
          /\ nextProvider <= nextProvider' /\ nextRequest <= nextRequest'
      <4>1. promiseState[m] = "Available" /\ nextRequest <= MaxRequests /\ nextRequest' = nextRequest + 1
            /\ nextProvider' = nextProvider
        BY <1>1, Zenon DEF BeginRead, plan_provider_read, runtimeVars
      <4>2. nextRequest \in RequestIds /\ nextRequest # 0 /\ nextRequest < nextRequest' /\ nextRequest <= nextRequest'
        BY <4>1, IpcAssumptions DEF IpcTypeOK, RequestIds
      <4>3. promiseOwner[m] \in ProviderIds /\ promiseOwner[m] # 0 /\ promiseOwner[m] < nextProvider
        BY <4>1, RuntimeBounds, Zenon DEF RuntimeTypeOK, PromisesAllocated, PromiseIds
      <4> QED BY <1>l, <4>1, <4>2, <4>3, Zenon
    <3>3. LocalsOf(t, "Planned", task[t], promiseOwner[m], nextRequest)
      BY <1>1, <1>a, <1>b, <2>1, <3>2, Zenon
      DEF LocalsOf, Places, Tasks, InRead, ForProvider, BeforeInsert, AfterInsert, Disconnect, Handler
    <3> QED
      BY <1>1, <1>a, <1>b, <1>l, <2>2, <2>3, <3>1, <3>2, <3>3, MoveKeepsThreadInv, Zenon
  <2> QED BY <2>2, <2>3, <2>4, <2>5, Zenon DEF LocalsInv
<1>2. ASSUME NEW t \in Readers, CloneRoute(t) PROVE LocalsInv'
  <2>1. pc[t] = "Planned"
    BY <1>2, Zenon DEF CloneRoute
  <2>2. RuntimeTypeOK' /\ ProvidersAllocated' /\ PromisesAllocated'
    BY <1>2, <1>e, Zenon DEF CloneRoute, ipcVars, connVars
  <2>3. IpcTypeOK'
    BY <1>2, <1>f, Zenon DEF CloneRoute
  <2>4. ReadTypeOK'
    <3>1. prov[t] \in ProviderIds
      BY <1>2, <1>a, <1>c, <2>1, Zenon DEF InRead, ForProvider, BeforeInsert, AfterInsert, Disconnect
    <3> QED
      BY <1>2, <3>1, Zenon DEF CloneRoute, ReadTypeOK, IpcTypeOK
  <2>5. ThreadInv'
    <3>1. Moves(t, "Routed", task[t], prov[t], req[t]) /\ UNCHANGED <<nextProvider, nextRequest>>
      BY <1>2, <1>a, <1>d, <2>1, Zenon DEF CloneRoute, Moves, runtimeVars, ipcVars
    <3>2. LocalsOf(t, "Routed", task[t], prov[t], req[t])
      BY <1>2, <1>a, <1>b, <2>1, Zenon
      DEF LocalsOf, Places, Tasks, InRead, ForProvider, BeforeInsert, AfterInsert, Disconnect, Handler
    <3> QED
      BY <1>2, <1>a, <2>2, <2>3, <3>1, <3>2, LocalMove, Zenon
  <2> QED BY <2>2, <2>3, <2>4, <2>5, Zenon DEF LocalsInv
<1>3. ASSUME NEW t \in Readers, RouteMissing(t) PROVE LocalsInv'
  <2>1. pc[t] = "Planned"
    BY <1>3, Zenon DEF RouteMissing
  <2>2. RuntimeTypeOK' /\ ProvidersAllocated' /\ PromisesAllocated'
    BY <1>3, <1>e, Zenon DEF RouteMissing, ipcVars, connVars
  <2>3. IpcTypeOK'
    BY <1>3, <1>f, Zenon DEF RouteMissing
  <2>4. ReadTypeOK'
    <3>1. req[t] \in RequestIds /\ "NotFound" \in ReplyKinds
      BY <1>3, <1>a, <1>c, <2>1, Zenon
      DEF InRead, ForProvider, BeforeInsert, AfterInsert, Disconnect, ReplyKinds
    <3> QED
      BY <1>3, <1>a, <1>i, <3>1, Zenon DEF RouteMissing, Return
  <2>5. ThreadInv'
    <3>1. Moves(t, "Idle", task[t], 0, 0) /\ UNCHANGED <<nextProvider, nextRequest>>
      BY <1>3, <1>a, <1>d, <2>1, Zenon DEF RouteMissing, Return, Moves, runtimeVars, ipcVars
    <3>2. LocalsOf(t, "Idle", task[t], 0, 0)
      BY <1>3, <1>a, <1>b, <2>1, Zenon
      DEF LocalsOf, Places, Tasks, InRead, ForProvider, BeforeInsert, AfterInsert, Disconnect, Handler
    <3> QED
      BY <1>3, <1>a, <2>2, <2>3, <3>1, <3>2, LocalMove, Zenon
  <2> QED BY <2>2, <2>3, <2>4, <2>5, Zenon DEF LocalsInv
<1>4. ASSUME NEW t \in Readers, InsertPending(t) PROVE LocalsInv'
  <2>1. pc[t] = "Routed"
    BY <1>4, Zenon DEF InsertPending
  <2>2. RuntimeTypeOK' /\ ProvidersAllocated' /\ PromisesAllocated'
    BY <1>4, <1>e, Zenon DEF InsertPending, ipcVars, connVars
  <2>3. IpcTypeOK'
    <3>1. prov[t] \in ProviderIds /\ req[t] \in RequestIds
      BY <1>4, <1>a, <1>c, <2>1, Zenon DEF InRead, ForProvider, BeforeInsert, AfterInsert, Disconnect
    <3>2. /\ pending' = [pending EXCEPT ![req[t]] = [provider |-> prov[t], reader |-> t]]
          /\ UNCHANGED <<routes, nextRequest, connVars>>
      BY <1>4, Zenon DEF InsertPending
    <3> QED
      BY <1>4, <1>a, <3>1, <3>2, Zenon DEF IpcTypeOK, PendingRead, connVars
  <2>4. ReadTypeOK'
    <3>1. CASE pending[req[t]] = None
      BY <1>4, <1>h, <3>1, Zenon DEF InsertPending
    <3>2. req[t] \in RequestIds /\ "InvalidData" \in ReplyKinds
      BY <1>4, <1>a, <1>c, <2>1, Zenon
      DEF InRead, ForProvider, BeforeInsert, AfterInsert, Disconnect, ReplyKinds
    <3>3. CASE pending[req[t]] # None
      BY <1>4, <1>a, <1>i, <3>2, <3>3, Zenon DEF InsertPending, Return
    <3> QED BY <3>1, <3>3, Zenon
  <2>5. ThreadInv'
    <3>1. CASE pending[req[t]] = None
      <4>1. Moves(t, "Inserted", task[t], prov[t], req[t]) /\ UNCHANGED <<nextProvider, nextRequest>>
        BY <1>4, <1>a, <1>d, <3>1, Zenon DEF InsertPending, Moves, runtimeVars
      <4>2. LocalsOf(t, "Inserted", task[t], prov[t], req[t])
        BY <1>4, <1>a, <1>b, <2>1, Zenon
        DEF LocalsOf, Places, Tasks, InRead, ForProvider, BeforeInsert, AfterInsert, Disconnect, Handler
      <4> QED
        BY <1>4, <1>a, <2>2, <2>3, <4>1, <4>2, LocalMove, Zenon
    <3>2. CASE pending[req[t]] # None
      <4>1. Moves(t, "Idle", task[t], 0, 0) /\ UNCHANGED <<nextProvider, nextRequest>>
        BY <1>4, <1>a, <1>d, <3>2, Zenon DEF InsertPending, Return, Moves, runtimeVars
      <4>2. LocalsOf(t, "Idle", task[t], 0, 0)
        BY <1>4, <1>a, <1>b, <2>1, Zenon
        DEF LocalsOf, Places, Tasks, InRead, ForProvider, BeforeInsert, AfterInsert, Disconnect, Handler
      <4> QED
        BY <1>4, <1>a, <2>2, <2>3, <4>1, <4>2, LocalMove, Zenon
    <3> QED BY <3>1, <3>2, Zenon
  <2> QED BY <2>2, <2>3, <2>4, <2>5, Zenon DEF LocalsInv
<1>5. ASSUME NEW t \in Readers, WriteRequest(t) PROVE LocalsInv'
  <2>1. pc[t] = "Inserted"
    BY <1>5, Zenon DEF WriteRequest
  <2>2. RuntimeTypeOK' /\ ProvidersAllocated' /\ PromisesAllocated'
    BY <1>5, <1>e, Zenon DEF WriteRequest, ipcVars, connVars
  <2>3. IpcTypeOK'
    <3>1. req[t] \in RequestIds
      BY <1>5, <1>a, <1>c, <2>1, Zenon DEF InRead, ForProvider, BeforeInsert, AfterInsert, Disconnect
    <3> QED
      BY <1>5, <3>1, Zenon DEF WriteRequest, IpcTypeOK, ipcVars
  <2>4. ReadTypeOK'
    BY <1>5, <1>h, Zenon DEF WriteRequest
  <2>5. ThreadInv'
    <3>1. Moves(t, "Waiting", task[t], prov[t], req[t]) /\ UNCHANGED <<nextProvider, nextRequest>>
      BY <1>5, <1>a, <1>d, <2>1, Zenon DEF WriteRequest, Moves, runtimeVars, ipcVars
    <3>2. LocalsOf(t, "Waiting", task[t], prov[t], req[t])
      BY <1>5, <1>a, <1>b, <2>1, Zenon
      DEF LocalsOf, Places, Tasks, InRead, ForProvider, BeforeInsert, AfterInsert, Disconnect, Handler
    <3> QED
      BY <1>5, <1>a, <2>2, <2>3, <3>1, <3>2, LocalMove, Zenon
  <2> QED BY <2>2, <2>3, <2>4, <2>5, Zenon DEF LocalsInv
<1>6. ASSUME NEW t \in Readers, WriteFails(t) PROVE LocalsInv'
  <2>1. pc[t] = "Inserted"
    BY <1>6, Zenon DEF WriteFails
  <2>2. RuntimeTypeOK' /\ ProvidersAllocated' /\ PromisesAllocated'
    BY <1>6, <1>e, Zenon DEF WriteFails, ipcVars, connVars
  <2>3. IpcTypeOK'
    BY <1>6, <1>f, Zenon DEF WriteFails
  <2>4. ReadTypeOK'
    BY <1>6, <1>h, Zenon DEF WriteFails
  <2>5. ThreadInv'
    <3>1. Moves(t, "WriteFailed", task[t], prov[t], req[t]) /\ UNCHANGED <<nextProvider, nextRequest>>
      BY <1>6, <1>a, <1>d, <2>1, Zenon DEF WriteFails, Moves, runtimeVars, ipcVars
    <3>2. LocalsOf(t, "WriteFailed", task[t], prov[t], req[t])
      BY <1>6, <1>a, <1>b, <2>1, Zenon
      DEF LocalsOf, Places, Tasks, InRead, ForProvider, BeforeInsert, AfterInsert, Disconnect, Handler
    <3> QED
      BY <1>6, <1>a, <2>2, <2>3, <3>1, <3>2, LocalMove, Zenon
  <2> QED BY <2>2, <2>3, <2>4, <2>5, Zenon DEF LocalsInv
<1>7. ASSUME NEW t \in Readers, Receive(t) PROVE LocalsInv'
  <2>1. pc[t] = "Waiting"
    BY <1>7, Zenon DEF Receive
  <2>2. RuntimeTypeOK' /\ ProvidersAllocated' /\ PromisesAllocated'
    BY <1>7, <1>e, Zenon DEF Receive, ipcVars, connVars
  <2>3. IpcTypeOK'
    BY <1>7, <1>f, Zenon DEF Receive
  <2>4. ReadTypeOK'
    BY <1>7, <1>a, <1>i, Zenon DEF Receive, Return
  <2>5. ThreadInv'
    <3>1. Moves(t, "Idle", task[t], 0, 0) /\ UNCHANGED <<nextProvider, nextRequest>>
      BY <1>7, <1>a, <1>d, <2>1, Zenon DEF Receive, Return, Moves, runtimeVars, ipcVars
    <3>2. LocalsOf(t, "Idle", task[t], 0, 0)
      BY <1>7, <1>a, <1>b, <2>1, Zenon
      DEF LocalsOf, Places, Tasks, InRead, ForProvider, BeforeInsert, AfterInsert, Disconnect, Handler
    <3> QED
      BY <1>7, <1>a, <2>2, <2>3, <3>1, <3>2, LocalMove, Zenon
  <2> QED BY <2>2, <2>3, <2>4, <2>5, Zenon DEF LocalsInv
<1>8. ASSUME NEW t \in Readers, Timeout(t) PROVE LocalsInv'
  <2>1. pc[t] = "Waiting"
    BY <1>8, Zenon DEF Timeout
  <2>2. RuntimeTypeOK' /\ ProvidersAllocated' /\ PromisesAllocated'
    BY <1>8, <1>e, Zenon DEF Timeout, ipcVars, connVars
  <2>3. IpcTypeOK'
    BY <1>8, <1>f, Zenon DEF Timeout
  <2>4. ReadTypeOK'
    BY <1>8, <1>h, Zenon DEF Timeout
  <2>5. ThreadInv'
    <3>1. Moves(t, "TimedOut", task[t], prov[t], req[t]) /\ UNCHANGED <<nextProvider, nextRequest>>
      BY <1>8, <1>a, <1>d, <2>1, Zenon DEF Timeout, Moves, runtimeVars, ipcVars
    <3>2. LocalsOf(t, "TimedOut", task[t], prov[t], req[t])
      BY <1>8, <1>a, <1>b, <2>1, Zenon
      DEF LocalsOf, Places, Tasks, InRead, ForProvider, BeforeInsert, AfterInsert, Disconnect, Handler
    <3> QED
      BY <1>8, <1>a, <2>2, <2>3, <3>1, <3>2, LocalMove, Zenon
  <2> QED BY <2>2, <2>3, <2>4, <2>5, Zenon DEF LocalsInv
<1>9. ASSUME NEW t \in Readers, RemoveTimedOut(t) PROVE LocalsInv'
  <2>1. pc[t] = "TimedOut"
    BY <1>9, Zenon DEF RemoveTimedOut
  <2>2. RuntimeTypeOK' /\ ProvidersAllocated' /\ PromisesAllocated'
    BY <1>9, <1>e, Zenon DEF RemoveTimedOut, ipcVars, connVars
  <2>3. IpcTypeOK'
    <3>1. req[t] \in RequestIds /\ delivered \in [Conns -> SUBSET RequestIds]
      BY <1>9, <1>a, <1>c, <2>1, Zenon DEF InRead, ForProvider, BeforeInsert, AfterInsert, Disconnect, IpcTypeOK
    <3> QED
      BY <1>9, <1>g, <3>1, Zenon DEF RemoveTimedOut, connVars
  <2>4. ReadTypeOK'
    <3>1. req[t] \in RequestIds /\ "TimedOut" \in ReplyKinds
      BY <1>9, <1>a, <1>c, <2>1, Zenon
      DEF InRead, ForProvider, BeforeInsert, AfterInsert, Disconnect, ReplyKinds
    <3> QED
      BY <1>9, <1>a, <1>i, <3>1, Zenon DEF RemoveTimedOut, Return
  <2>5. ThreadInv'
    <3>1. Moves(t, "Idle", task[t], 0, 0) /\ UNCHANGED <<nextProvider, nextRequest>>
      BY <1>9, <1>a, <1>d, <2>1, Zenon DEF RemoveTimedOut, Return, Moves, runtimeVars, ipcVars
    <3>2. LocalsOf(t, "Idle", task[t], 0, 0)
      BY <1>9, <1>a, <1>b, <2>1, Zenon
      DEF LocalsOf, Places, Tasks, InRead, ForProvider, BeforeInsert, AfterInsert, Disconnect, Handler
    <3> QED
      BY <1>9, <1>a, <2>2, <2>3, <3>1, <3>2, LocalMove, Zenon
  <2> QED BY <2>2, <2>3, <2>4, <2>5, Zenon DEF LocalsInv
<1>10. ASSUME NEW t \in Readers, RemoveUnwritten(t) PROVE LocalsInv'
  <2>1. pc[t] = "WriteFailed"
    BY <1>10, Zenon DEF RemoveUnwritten
  <2>2. RuntimeTypeOK' /\ ProvidersAllocated' /\ PromisesAllocated'
    BY <1>10, <1>e, Zenon DEF RemoveUnwritten, ipcVars, connVars
  <2>3. IpcTypeOK'
    <3>1. req[t] \in RequestIds /\ delivered \in [Conns -> SUBSET RequestIds]
      BY <1>10, <1>a, <1>c, <2>1, Zenon
      DEF InRead, ForProvider, BeforeInsert, AfterInsert, Disconnect, IpcTypeOK
    <3> QED
      BY <1>10, <1>g, <3>1, Zenon DEF RemoveUnwritten, connVars
  <2>4. ReadTypeOK'
    BY <1>10, <1>h, Zenon DEF RemoveUnwritten
  <2>5. ThreadInv'
    <3>1. Moves(t, "DropRoute", "Read", prov[t], req[t]) /\ UNCHANGED <<nextProvider, nextRequest>>
      BY <1>10, <1>a, <1>d, <2>1, Zenon DEF RemoveUnwritten, Moves, runtimeVars, ipcVars
    <3>2. LocalsOf(t, "DropRoute", "Read", prov[t], req[t])
      BY <1>10, <1>a, <1>b, <2>1, Zenon
      DEF LocalsOf, Places, Tasks, InRead, ForProvider, BeforeInsert, AfterInsert, Disconnect, Handler
    <3> QED
      BY <1>10, <1>a, <2>2, <2>3, <3>1, <3>2, LocalMove, Zenon
  <2> QED BY <2>2, <2>3, <2>4, <2>5, Zenon DEF LocalsInv
<1>11. ASSUME NEW t \in Threads, DropRoute(t) PROVE LocalsInv'
  <2>1. pc[t] = "DropRoute"
    BY <1>11, Zenon DEF DropRoute
  <2>2. RuntimeTypeOK' /\ ProvidersAllocated' /\ PromisesAllocated'
    <3>1. UNCHANGED runtimeVars /\ routes' = [routes EXCEPT ![prov[t]] = None] /\ UNCHANGED <<registered, registrant>>
      BY <1>11, Zenon DEF DropRoute, connVars
    <3> QED
      BY <3>1, Zenon DEF runtimeVars, RuntimeTypeOK, ProvidersAllocated, PromisesAllocated, IpcTypeOK
  <2>3. IpcTypeOK'
    <3>1. routes' = [routes EXCEPT ![prov[t]] = None] /\ UNCHANGED <<pending, nextRequest, connVars>>
      BY <1>11, Zenon DEF DropRoute
    <3> QED
      BY <3>1, Zenon DEF connVars, IpcTypeOK
  <2>4. ReadTypeOK'
    BY <1>11, <1>h, Zenon DEF DropRoute
  <2>5. ThreadInv'
    <3>1. Moves(t, "MarkGone", task[t], prov[t], req[t]) /\ UNCHANGED <<nextProvider, nextRequest>>
      BY <1>11, <1>a, <1>d, <2>1, Zenon DEF DropRoute, Moves, runtimeVars, ipcVars
    <3>2. LocalsOf(t, "MarkGone", task[t], prov[t], req[t])
      BY <1>11, <1>a, <1>b, <2>1, Zenon
      DEF LocalsOf, Places, Tasks, InRead, ForProvider, BeforeInsert, AfterInsert, Disconnect, Handler
    <3> QED
      BY <1>11, <1>a, <2>2, <2>3, <3>1, <3>2, LocalMove, Zenon
  <2> QED BY <2>2, <2>3, <2>4, <2>5, Zenon DEF LocalsInv
<1>12. ASSUME NEW t \in Threads, MarkGone(t) PROVE LocalsInv'
  <2>1. pc[t] = "MarkGone"
    BY <1>12, Zenon DEF MarkGone
  <2>2. RuntimeTypeOK' /\ ProvidersAllocated' /\ PromisesAllocated'
    <3>1. prov[t] \in ProviderIds /\ prov[t] < nextProvider
      BY <1>12, <1>c, <2>1, Zenon DEF InRead, ForProvider, BeforeInsert, AfterInsert, Disconnect
    <3>2. unregister_provider(prov[t]) /\ UNCHANGED <<routes, registrant, registered>>
      BY <1>12, Zenon DEF MarkGone, ipcVars, connVars
    <3> QED
      BY <1>m, <3>1, <3>2, Zenon
  <2>3. IpcTypeOK'
    BY <1>12, <1>f, Zenon DEF MarkGone
  <2>4. ReadTypeOK'
    BY <1>12, <1>h, Zenon DEF MarkGone
  <2>5. ThreadInv'
    <3>1. Moves(t, "FailPending", task[t], prov[t], req[t]) /\ UNCHANGED <<nextProvider, nextRequest>>
      BY <1>12, <1>a, <1>d, <2>1, Zenon DEF MarkGone, Moves, runtimeVars, ipcVars, unregister_provider
    <3>2. LocalsOf(t, "FailPending", task[t], prov[t], req[t])
      BY <1>12, <1>a, <1>b, <2>1, Zenon
      DEF LocalsOf, Places, Tasks, InRead, ForProvider, BeforeInsert, AfterInsert, Disconnect, Handler
    <3> QED
      BY <1>12, <1>a, <2>2, <2>3, <3>1, <3>2, LocalMove, Zenon
  <2> QED BY <2>2, <2>3, <2>4, <2>5, Zenon DEF LocalsInv
<1>13. ASSUME NEW t \in Threads, fail_provider_pending_reads(t) PROVE LocalsInv'
  <2>1. pc[t] = "FailPending"
    BY <1>13, Zenon DEF fail_provider_pending_reads
  <2>2. RuntimeTypeOK' /\ ProvidersAllocated' /\ PromisesAllocated'
    BY <1>13, <1>e, Zenon DEF fail_provider_pending_reads, ipcVars, connVars
  <2>3. IpcTypeOK'
    <3>1. pending' \in [RequestIds -> PendingRead \cup {None}] /\ UNCHANGED <<routes, nextRequest, connVars>>
      BY <1>13, Zenon DEF fail_provider_pending_reads, IpcTypeOK
    <3> QED
      BY <3>1, Zenon DEF IpcTypeOK, connVars
  <2>4. ReadTypeOK'
    <3>1. ASSUME NEW r \in RequestIds, pending[r] # None
          PROVE  [to |-> pending[r].reader, reply |-> Failure("BrokenPipe", r)] \in Message
      BY <3>1, Zenon DEF IpcTypeOK, PendingRead, Failure, Message, Reply, ReplyKinds
    <3> QED
      BY <1>13, <3>1, Zenon DEF ReadTypeOK, fail_provider_pending_reads
  <2>5. ThreadInv'
    <3>1. Moves(t, "SendFailures", task[t], prov[t], req[t]) /\ UNCHANGED <<nextProvider, nextRequest>>
      BY <1>13, <1>a, <1>d, <2>1, Zenon DEF fail_provider_pending_reads, Moves, runtimeVars, ipcVars
    <3>2. LocalsOf(t, "SendFailures", task[t], prov[t], req[t])
      BY <1>13, <1>a, <1>b, <2>1, Zenon
      DEF LocalsOf, Places, Tasks, InRead, ForProvider, BeforeInsert, AfterInsert, Disconnect, Handler
    <3> QED
      BY <1>13, <1>a, <2>2, <2>3, <3>1, <3>2, LocalMove, Zenon
  <2> QED BY <2>2, <2>3, <2>4, <2>5, Zenon DEF LocalsInv
<1>14. ASSUME NEW t \in Threads, SendFailure(t) PROVE LocalsInv'
  <2>1. pc[t] = "SendFailures"
    BY <1>14, Zenon DEF SendFailure
  <2>2. RuntimeTypeOK' /\ ProvidersAllocated' /\ PromisesAllocated'
    BY <1>14, <1>e, Zenon DEF SendFailure, ipcVars, connVars
  <2>3. IpcTypeOK'
    BY <1>14, <1>f, Zenon DEF SendFailure
  <2>4. ReadTypeOK'
    <3>1. PICK msg \in outbox[t] : Send(msg) /\ outbox' = [outbox EXCEPT ![t] = @ \ {msg}]
      BY <1>14, Zenon DEF SendFailure
    <3>2. route' = route
      BY <1>14, Zenon DEF SendFailure
    <3> QED
      BY <1>j, <3>1, <3>2, Zenon DEF ReadTypeOK
  <2>5. ThreadInv'
    <3>1. Moves(t, "SendFailures", task[t], prov[t], req[t]) /\ UNCHANGED <<nextProvider, nextRequest>>
      BY <1>14, <1>a, <1>d, <2>1, Zenon DEF SendFailure, Moves, runtimeVars, ipcVars
    <3>2. LocalsOf(t, "SendFailures", task[t], prov[t], req[t])
      BY <1>14, <1>a, <1>b, <2>1, Zenon
      DEF LocalsOf, Places, Tasks, InRead, ForProvider, BeforeInsert, AfterInsert, Disconnect, Handler
    <3> QED
      BY <1>14, <1>a, <2>2, <2>3, <3>1, <3>2, LocalMove, Zenon
  <2> QED BY <2>2, <2>3, <2>4, <2>5, Zenon DEF LocalsInv
<1>15. ASSUME NEW t \in Threads, DisconnectedClosing(t) PROVE LocalsInv'
  <2>1. pc[t] = "SendFailures" /\ task[t] = "Close"
    BY <1>15, Zenon DEF DisconnectedClosing
  <2>2. RuntimeTypeOK' /\ ProvidersAllocated' /\ PromisesAllocated'
    BY <1>15, <1>e, Zenon DEF DisconnectedClosing, ipcVars, connVars
  <2>3. IpcTypeOK'
    BY <1>15, <1>f, Zenon DEF DisconnectedClosing
  <2>4. ReadTypeOK'
    BY <1>15, <1>h, Zenon DEF DisconnectedClosing
  <2>5. ThreadInv'
    <3>1. Moves(t, "Closing", "Close", 0, req[t]) /\ UNCHANGED <<nextProvider, nextRequest>>
      BY <1>15, <1>a, <1>d, <2>1, Zenon DEF DisconnectedClosing, EndLoop, Moves, runtimeVars, ipcVars
    <3>2. LocalsOf(t, "Closing", "Close", 0, req[t])
      BY <1>15, <1>a, <1>b, <2>1, Zenon
      DEF LocalsOf, Places, Tasks, InRead, ForProvider, BeforeInsert, AfterInsert, Disconnect, Handler
    <3> QED
      BY <1>15, <1>a, <2>2, <2>3, <3>1, <3>2, LocalMove, Zenon
  <2> QED BY <2>2, <2>3, <2>4, <2>5, Zenon DEF LocalsInv
<1>16. ASSUME NEW t \in Threads, Disconnected(t) PROVE LocalsInv'
  <2>1. pc[t] = "SendFailures"
    BY <1>16, Zenon DEF Disconnected
  <2>2. RuntimeTypeOK' /\ ProvidersAllocated' /\ PromisesAllocated'
    BY <1>16, <1>e, Zenon DEF Disconnected, ipcVars, connVars
  <2>3. IpcTypeOK'
    BY <1>16, <1>f, Zenon DEF Disconnected
  <2>4. ReadTypeOK'
    <3>1. "BrokenPipe" \in ReplyKinds
      BY Zenon DEF ReplyKinds
    <3>2. CASE task[t] = "Read"
      BY <1>16, <1>a, <1>c, <1>i, <3>1, <3>2, Zenon DEF Disconnected, Return
    <3>3. CASE task[t] # "Read"
      <4>1. reply' = reply
        BY <1>16, <3>3, Zenon DEF Disconnected, ReadTypeOK
      <4> QED
        BY <1>16, <1>a, <1>i, <4>1, Zenon DEF Disconnected, Return
    <3> QED BY <3>2, <3>3, Zenon
  <2>5. ThreadInv'
    <3>1. Moves(t, "Idle", "None", 0, 0) /\ UNCHANGED <<nextProvider, nextRequest>>
      BY <1>16, <1>a, <1>d, <2>1, Zenon DEF Disconnected, Return, Moves, runtimeVars, ipcVars
    <3>2. LocalsOf(t, "Idle", "None", 0, 0)
      BY <1>16, <1>a, <1>b, <2>1, Zenon
      DEF LocalsOf, Places, Tasks, InRead, ForProvider, BeforeInsert, AfterInsert, Disconnect, Handler
    <3> QED
      BY <1>16, <1>a, <2>2, <2>3, <3>1, <3>2, LocalMove, Zenon
  <2> QED BY <2>2, <2>3, <2>4, <2>5, Zenon DEF LocalsInv
<1>17. ASSUME NEW c \in Conns, ProviderRegister(c) PROVE LocalsInv'
  <2>1. pc[c] = "Idle"
    BY <1>17, Zenon DEF ProviderRegister
  <2>2. RuntimeTypeOK' /\ ProvidersAllocated' /\ PromisesAllocated'
    <3>1. register_provider /\ registrant' = [registrant EXCEPT ![nextProvider] = c] /\ UNCHANGED <<routes, registered>>
      BY <1>17, Zenon DEF ProviderRegister, ipcVars
    <3>2. nextProvider \in ProviderIds /\ nextProvider' = nextProvider + 1
      BY <3>1, RuntimeBounds DEF register_provider, RuntimeTypeOK, ProviderIds
    <3>3. RuntimeTypeOK'
      BY <3>1, <3>2, RuntimeBounds DEF register_provider, RuntimeTypeOK
    <3>4. ASSUME NEW p \in ProviderIds
          PROVE  /\ providers'[p] = "Absent" <=> p >= nextProvider'
                 /\ registrant'[p] = None <=> p >= nextProvider'
                 /\ p >= nextProvider' => p >= nextProvider
      <4>1. p \in Nat /\ nextProvider \in Nat /\ (p >= nextProvider' <=> p >= nextProvider /\ p # nextProvider)
        BY <3>2, RuntimeBounds DEF ProviderIds, RuntimeTypeOK
      <4>2. CASE p = nextProvider
        BY <1>17, <1>a, <3>1, <4>1, <4>2, IpcAssumptions, Zenon DEF register_provider, RuntimeTypeOK, IpcTypeOK
      <4>3. CASE p # nextProvider
        BY <3>1, <4>1, <4>3, Zenon DEF register_provider, ProvidersAllocated, RuntimeTypeOK, IpcTypeOK
      <4> QED BY <4>2, <4>3, Zenon
    <3>5. ProvidersAllocated'
      BY <3>1, <3>4, Zenon DEF ProvidersAllocated
    <3>6. PromisesAllocated'
      <4>1. \A m \in PromiseIds : promiseOwner[m] < nextProvider => promiseOwner[m] < nextProvider'
        BY <3>2, RuntimeBounds DEF RuntimeTypeOK, ProviderIds
      <4> QED
        BY <3>1, <4>1, Zenon DEF register_provider, PromisesAllocated
    <3> QED BY <3>3, <3>5, <3>6, Zenon
  <2>3. IpcTypeOK'
    <3>1. nextProvider \in ProviderIds
      BY <1>17, RuntimeBounds DEF ProviderRegister, register_provider, RuntimeTypeOK, ProviderIds
    <3> QED
      BY <1>17, <3>1, Zenon DEF ProviderRegister, IpcTypeOK, ipcVars
  <2>4. ReadTypeOK'
    BY <1>17, <1>h, Zenon DEF ProviderRegister
  <2>5. ThreadInv'
    <3>1. Moves(c, "Registering", task[c], nextProvider, req[c])
      BY <1>17, <1>a, <1>d, <2>1, Zenon DEF ProviderRegister, Moves
    <3>2. /\ nextProvider \in ProviderIds /\ nextProvider # 0 /\ nextProvider < nextProvider'
          /\ nextProvider <= nextProvider' /\ nextRequest' = nextRequest
      <4>1. nextProvider <= MaxProviders /\ nextProvider' = nextProvider + 1 /\ nextRequest' = nextRequest
        BY <1>17, Zenon DEF ProviderRegister, register_provider, ipcVars
      <4> QED
        BY <4>1, RuntimeBounds DEF RuntimeTypeOK, ProviderIds
    <3>3. LocalsOf(c, "Registering", task[c], nextProvider, req[c])
      BY <1>17, <1>a, <1>b, <2>1, <3>2, Zenon
      DEF LocalsOf, Places, Tasks, InRead, ForProvider, BeforeInsert, AfterInsert, Disconnect, Handler
    <3> QED
      BY <1>17, <1>a, <1>b, <1>l, <2>2, <2>3, <3>1, <3>2, <3>3, MoveKeepsThreadInv, Zenon
  <2> QED BY <2>2, <2>3, <2>4, <2>5, Zenon DEF LocalsInv
<1>18. ASSUME NEW c \in Conns, NEW p \in ProviderIds, ProviderUnregister(c, p) PROVE LocalsInv'
  <2>1. pc[c] = "Idle"
    BY <1>18, Zenon DEF ProviderUnregister
  <2>2. RuntimeTypeOK' /\ ProvidersAllocated' /\ PromisesAllocated'
    BY <1>18, <1>e, Zenon DEF ProviderUnregister, ipcVars, connVars
  <2>3. IpcTypeOK'
    BY <1>18, <1>f, Zenon DEF ProviderUnregister
  <2>4. ReadTypeOK'
    BY <1>18, <1>h, Zenon DEF ProviderUnregister
  <2>5. ThreadInv'
    <3>1. Moves(c, "Unregistering", task[c], p, req[c])
      BY <1>18, <1>a, <1>d, <2>1, Zenon DEF ProviderUnregister, Moves
    <3>2. p < nextProvider /\ p # 0 /\ UNCHANGED <<nextProvider, nextRequest>>
      BY <1>18, <1>k, Zenon DEF ProviderUnregister, validate_provider_owner, runtimeVars, ipcVars
    <3>3. LocalsOf(c, "Unregistering", task[c], p, req[c])
      BY <1>18, <1>a, <1>b, <2>1, <3>2, Zenon
      DEF LocalsOf, Places, Tasks, InRead, ForProvider, BeforeInsert, AfterInsert, Disconnect, Handler
    <3> QED
      BY <1>18, <1>a, <1>b, <1>l, <2>2, <2>3, <3>1, <3>2, <3>3, MoveKeepsThreadInv, Zenon
  <2> QED BY <2>2, <2>3, <2>4, <2>5, Zenon DEF LocalsInv
<1>19. ASSUME NEW c \in Conns, NEW p \in ProviderIds, PromiseCommit(c, p) PROVE LocalsInv'
  <2>1. pc[c] = "Idle"
    BY <1>19, Zenon DEF PromiseCommit
  <2>2. RuntimeTypeOK' /\ ProvidersAllocated' /\ PromisesAllocated'
    BY <1>19, <1>e, Zenon DEF PromiseCommit, ipcVars, connVars
  <2>3. IpcTypeOK'
    BY <1>19, <1>f, Zenon DEF PromiseCommit
  <2>4. ReadTypeOK'
    BY <1>19, <1>h, Zenon DEF PromiseCommit
  <2>5. ThreadInv'
    <3>1. Moves(c, "Committing", task[c], p, req[c])
      BY <1>19, <1>a, <1>d, <2>1, Zenon DEF PromiseCommit, Moves
    <3>2. p < nextProvider /\ p # 0 /\ UNCHANGED <<nextProvider, nextRequest>>
      BY <1>19, <1>k, Zenon DEF PromiseCommit, validate_provider_owner, runtimeVars, ipcVars
    <3>3. LocalsOf(c, "Committing", task[c], p, req[c])
      BY <1>19, <1>a, <1>b, <2>1, <3>2, Zenon
      DEF LocalsOf, Places, Tasks, InRead, ForProvider, BeforeInsert, AfterInsert, Disconnect, Handler
    <3> QED
      BY <1>19, <1>a, <1>b, <1>l, <2>2, <2>3, <3>1, <3>2, <3>3, MoveKeepsThreadInv, Zenon
  <2> QED BY <2>2, <2>3, <2>4, <2>5, Zenon DEF LocalsInv
<1>20. ASSUME NEW c \in Conns, NEW r \in RequestIds, ProviderReadResponse(c, r) PROVE LocalsInv'
  <2>1. pc[c] = "Idle"
    BY <1>20, Zenon DEF ProviderReadResponse
  <2>2. RuntimeTypeOK' /\ ProvidersAllocated' /\ PromisesAllocated'
    BY <1>20, <1>e, Zenon DEF ProviderReadResponse, ipcVars, connVars
  <2>3. IpcTypeOK'
    <3>1. /\ remove_pending_read(r) /\ delivered' = [delivered EXCEPT ![c] = @ \ {r}]
          /\ UNCHANGED <<routes, nextRequest, registered, registrant, openPeers>>
      BY <1>20, Zenon DEF ProviderReadResponse
    <3>2. delivered' \in [Conns -> SUBSET RequestIds]
      BY <3>1, Zenon DEF IpcTypeOK
    <3> QED
      BY <1>g, <3>1, <3>2, Zenon
  <2>4. ReadTypeOK'
    <3>1. PICK result \in ReadResults(c, r) :
                 outbox' = [outbox EXCEPT ![c] = {[to |-> pending[r].reader, reply |-> result]}]
      BY <1>20, Zenon DEF ProviderReadResponse
    <3>2. result \in Reply
      BY DEF ReadResults, Failure, Reply, ReplyKinds
    <3>3. UNCHANGED <<route, reply>> /\ pending[r] # None
      BY <1>20, Zenon DEF ProviderReadResponse
    <3>4. [to |-> pending[r].reader, reply |-> result] \in Message
      BY <3>2, <3>3, Zenon DEF IpcTypeOK, PendingRead, Message
    <3> QED
      BY <1>20, <3>1, <3>3, <3>4, Zenon DEF ReadTypeOK
  <2>5. ThreadInv'
    <3>1. Moves(c, "Sending", task[c], prov[c], req[c]) /\ UNCHANGED <<nextProvider, nextRequest>>
      BY <1>20, <1>a, <1>d, <2>1, Zenon DEF ProviderReadResponse, Moves, runtimeVars, ipcVars
    <3>2. LocalsOf(c, "Sending", task[c], prov[c], req[c])
      BY <1>20, <1>a, <1>b, <2>1, Zenon
      DEF LocalsOf, Places, Tasks, InRead, ForProvider, BeforeInsert, AfterInsert, Disconnect, Handler
    <3> QED
      BY <1>20, <1>a, <2>2, <2>3, <3>1, <3>2, LocalMove, Zenon
  <2> QED BY <2>2, <2>3, <2>4, <2>5, Zenon DEF LocalsInv
<1>21. ASSUME NEW c \in Conns, NEW r \in RequestIds, UnmatchedResponse(c, r) PROVE LocalsInv'
  <2>1. pc[c] = "Idle"
    BY <1>21, Zenon DEF UnmatchedResponse
  <2>2. RuntimeTypeOK' /\ ProvidersAllocated' /\ PromisesAllocated'
    BY <1>21, <1>e, Zenon DEF UnmatchedResponse, ipcVars
  <2>3. IpcTypeOK'
    <3>1. delivered' = [delivered EXCEPT ![c] = @ \ {r}] /\ UNCHANGED <<ipcVars, registered, registrant, openPeers>>
      BY <1>21, Zenon DEF UnmatchedResponse
    <3> QED
      BY <3>1, Zenon DEF IpcTypeOK, ipcVars
  <2>4. ReadTypeOK'
    BY <1>21, <1>h, Zenon DEF UnmatchedResponse
  <2>5. ThreadInv'
    <3>1. Moves(c, "Closing", "Close", 0, req[c]) /\ UNCHANGED <<nextProvider, nextRequest>>
      BY <1>21, <1>a, <1>d, <2>1, Zenon DEF UnmatchedResponse, EndLoop, Moves, runtimeVars, ipcVars
    <3>2. LocalsOf(c, "Closing", "Close", 0, req[c])
      BY <1>21, <1>a, <1>b, <2>1, Zenon
      DEF LocalsOf, Places, Tasks, InRead, ForProvider, BeforeInsert, AfterInsert, Disconnect, Handler
    <3> QED
      BY <1>21, <1>a, <2>2, <2>3, <3>1, <3>2, LocalMove, Zenon
  <2> QED BY <2>2, <2>3, <2>4, <2>5, Zenon DEF LocalsInv
<1>22. ASSUME NEW c \in Conns, register_provider_route(c) PROVE LocalsInv'
  <2>1. pc[c] = "Registering"
    BY <1>22, Zenon DEF register_provider_route
  <2>2. RuntimeTypeOK' /\ ProvidersAllocated' /\ PromisesAllocated'
    <3>1. prov[c] \in ProviderIds /\ prov[c] < nextProvider
      BY <1>22, <1>a, <1>c, <2>1, Zenon DEF ForProvider
    <3>2. /\ routes' = [routes EXCEPT ![prov[c]] = c] /\ registered' = [registered EXCEPT ![c] = @ \cup {prov[c]}]
          /\ UNCHANGED registrant /\ UNCHANGED runtimeVars
      BY <1>22, Zenon DEF register_provider_route
    <3>3. ASSUME NEW p \in ProviderIds, p >= nextProvider
          PROVE  routes'[p] = None /\ \A d \in Conns : p \notin registered'[d]
      <4>1. p # prov[c]
        BY <3>1, <3>3, RuntimeBounds DEF RuntimeTypeOK, ProviderIds
      <4> QED
        BY <3>1, <3>2, <3>3, <4>1, Zenon DEF ProvidersAllocated, IpcTypeOK
    <3> QED
      BY <3>2, <3>3, Zenon DEF RuntimeTypeOK, ProvidersAllocated, PromisesAllocated, runtimeVars
  <2>3. IpcTypeOK'
    <3>1. prov[c] \in ProviderIds
      BY <1>22, <1>a, <1>c, <2>1, Zenon DEF ForProvider
    <3>2. /\ routes' = [routes EXCEPT ![prov[c]] = c] /\ registered' = [registered EXCEPT ![c] = @ \cup {prov[c]}]
          /\ UNCHANGED <<pending, nextRequest, registrant, openPeers, delivered>>
      BY <1>22, Zenon DEF register_provider_route
    <3> QED
      BY <1>22, <3>1, <3>2, Zenon DEF IpcTypeOK
  <2>4. ReadTypeOK'
    BY <1>22, <1>a, <1>i, Zenon DEF register_provider_route, Return
  <2>5. ThreadInv'
    <3>1. Moves(c, "Idle", task[c], 0, 0) /\ UNCHANGED <<nextProvider, nextRequest>>
      BY <1>22, <1>a, <1>d, <2>1, Zenon DEF register_provider_route, Return, Moves, runtimeVars, ipcVars
    <3>2. LocalsOf(c, "Idle", task[c], 0, 0)
      BY <1>22, <1>a, <1>b, <2>1, Zenon
      DEF LocalsOf, Places, Tasks, InRead, ForProvider, BeforeInsert, AfterInsert, Disconnect, Handler
    <3> QED
      BY <1>22, <1>a, <2>2, <2>3, <3>1, <3>2, LocalMove, Zenon
  <2> QED BY <2>2, <2>3, <2>4, <2>5, Zenon DEF LocalsInv
<1>23. ASSUME NEW c \in Conns, RegisterFails(c) PROVE LocalsInv'
  <2>1. pc[c] = "Registering"
    BY <1>23, Zenon DEF RegisterFails
  <2>2. RuntimeTypeOK' /\ ProvidersAllocated' /\ PromisesAllocated'
    BY <1>23, <1>e, Zenon DEF RegisterFails, ipcVars, connVars
  <2>3. IpcTypeOK'
    BY <1>23, <1>f, Zenon DEF RegisterFails
  <2>4. ReadTypeOK'
    BY <1>23, <1>h, Zenon DEF RegisterFails
  <2>5. ThreadInv'
    <3>1. Moves(c, "Closing", "Close", 0, req[c]) /\ UNCHANGED <<nextProvider, nextRequest>>
      BY <1>23, <1>a, <1>d, <2>1, Zenon DEF RegisterFails, EndLoop, Moves, runtimeVars, ipcVars
    <3>2. LocalsOf(c, "Closing", "Close", 0, req[c])
      BY <1>23, <1>a, <1>b, <2>1, Zenon
      DEF LocalsOf, Places, Tasks, InRead, ForProvider, BeforeInsert, AfterInsert, Disconnect, Handler
    <3> QED
      BY <1>23, <1>a, <2>2, <2>3, <3>1, <3>2, LocalMove, Zenon
  <2> QED BY <2>2, <2>3, <2>4, <2>5, Zenon DEF LocalsInv
<1>24. ASSUME NEW c \in Conns, UnregisterValidated(c) PROVE LocalsInv'
  <2>1. pc[c] = "Unregistering"
    BY <1>24, Zenon DEF UnregisterValidated
  <2>2. RuntimeTypeOK' /\ ProvidersAllocated' /\ PromisesAllocated'
    <3>1. prov[c] \in ProviderIds /\ prov[c] < nextProvider
      BY <1>24, <1>a, <1>c, <2>1, Zenon DEF ForProvider
    <3>2. unregister_provider(prov[c]) /\ UNCHANGED <<routes, registrant>>
          /\ registered' = [registered EXCEPT ![c] = @ \ {prov[c]}]
      BY <1>24, Zenon DEF UnregisterValidated, ipcVars
    <3>3. \A d \in Conns : registered'[d] \subseteq registered[d]
      BY <3>2, Zenon DEF IpcTypeOK
    <3> QED
      BY <1>a, <1>m, <3>1, <3>2, <3>3, Zenon
  <2>3. IpcTypeOK'
    BY <1>24, Zenon DEF IpcTypeOK, UnregisterValidated, ipcVars
  <2>4. ReadTypeOK'
    BY <1>24, <1>h, Zenon DEF UnregisterValidated
  <2>5. ThreadInv'
    <3>1. Moves(c, "DropRoute", "Unregister", prov[c], req[c]) /\ UNCHANGED <<nextProvider, nextRequest>>
      BY <1>24, <1>a, <1>d, <2>1, Zenon
      DEF UnregisterValidated, Moves, runtimeVars, ipcVars, unregister_provider
    <3>2. LocalsOf(c, "DropRoute", "Unregister", prov[c], req[c])
      BY <1>24, <1>a, <1>b, <2>1, Zenon
      DEF LocalsOf, Places, Tasks, InRead, ForProvider, BeforeInsert, AfterInsert, Disconnect, Handler
    <3> QED
      BY <1>24, <1>a, <2>2, <2>3, <3>1, <3>2, LocalMove, Zenon
  <2> QED BY <2>2, <2>3, <2>4, <2>5, Zenon DEF LocalsInv
<1>25. ASSUME NEW c \in Conns, CommitValidated(c) PROVE LocalsInv'
  <2>1. pc[c] = "Committing"
    BY <1>25, Zenon DEF CommitValidated
  <2>2. RuntimeTypeOK' /\ ProvidersAllocated' /\ PromisesAllocated'
    <3>1. prov[c] \in ProviderIds /\ prov[c] < nextProvider
      BY <1>25, <1>a, <1>c, <2>1, Zenon DEF ForProvider
    <3>2. commit_promise(prov[c]) /\ UNCHANGED <<routes, registered, registrant>>
      BY <1>25, Zenon DEF CommitValidated, ipcVars, connVars
    <3>3. nextPromise \in PromiseIds /\ nextPromise' = nextPromise + 1
      BY <3>2, RuntimeBounds DEF commit_promise, RuntimeTypeOK, PromiseIds
    <3>4. RuntimeTypeOK'
      BY <3>1, <3>2, <3>3, RuntimeBounds DEF commit_promise, RuntimeTypeOK
    <3>5. ASSUME NEW m \in PromiseIds
          PROVE  /\ promiseState'[m] = "Absent" <=> m >= nextPromise'
                 /\ promiseOwner'[m] = 0 <=> m >= nextPromise'
                 /\ promiseOwner'[m] < nextProvider'
      <4>1. m >= nextPromise' <=> m >= nextPromise /\ m # nextPromise
        BY <3>3, RuntimeBounds DEF PromiseIds, RuntimeTypeOK
      <4>2. CASE m = nextPromise
        BY <3>1, <3>2, <4>1, <4>2, RuntimeBounds DEF commit_promise, RuntimeTypeOK, ProviderIds
      <4>3. CASE m # nextPromise
        BY <3>2, <4>1, <4>3, Zenon DEF commit_promise, PromisesAllocated, RuntimeTypeOK
      <4> QED BY <4>2, <4>3, Zenon
    <3>6. PromisesAllocated'
      BY <3>5, Zenon DEF PromisesAllocated
    <3>7. ProvidersAllocated'
      BY <3>2, Zenon DEF commit_promise, ProvidersAllocated
    <3> QED BY <3>4, <3>6, <3>7, Zenon
  <2>3. IpcTypeOK'
    BY <1>25, <1>f, Zenon DEF CommitValidated
  <2>4. ReadTypeOK'
    BY <1>25, <1>a, <1>i, Zenon DEF CommitValidated, Return
  <2>5. ThreadInv'
    <3>1. Moves(c, "Idle", task[c], 0, 0) /\ UNCHANGED <<nextProvider, nextRequest>>
      BY <1>25, <1>a, <1>d, <2>1, Zenon
      DEF CommitValidated, Return, Moves, runtimeVars, ipcVars, commit_promise
    <3>2. LocalsOf(c, "Idle", task[c], 0, 0)
      BY <1>25, <1>a, <1>b, <2>1, Zenon
      DEF LocalsOf, Places, Tasks, InRead, ForProvider, BeforeInsert, AfterInsert, Disconnect, Handler
    <3> QED
      BY <1>25, <1>a, <2>2, <2>3, <3>1, <3>2, LocalMove, Zenon
  <2> QED BY <2>2, <2>3, <2>4, <2>5, Zenon DEF LocalsInv
<1>26. ASSUME NEW c \in Conns, CommitRefused(c) PROVE LocalsInv'
  <2>1. pc[c] = "Committing"
    BY <1>26, Zenon DEF CommitRefused
  <2>2. RuntimeTypeOK' /\ ProvidersAllocated' /\ PromisesAllocated'
    BY <1>26, <1>e, Zenon DEF CommitRefused, ipcVars, connVars
  <2>3. IpcTypeOK'
    BY <1>26, <1>f, Zenon DEF CommitRefused
  <2>4. ReadTypeOK'
    BY <1>26, <1>a, <1>i, Zenon DEF CommitRefused, Return
  <2>5. ThreadInv'
    <3>1. Moves(c, "Idle", task[c], 0, 0) /\ UNCHANGED <<nextProvider, nextRequest>>
      BY <1>26, <1>a, <1>d, <2>1, Zenon DEF CommitRefused, Return, Moves, runtimeVars, ipcVars
    <3>2. LocalsOf(c, "Idle", task[c], 0, 0)
      BY <1>26, <1>a, <1>b, <2>1, Zenon
      DEF LocalsOf, Places, Tasks, InRead, ForProvider, BeforeInsert, AfterInsert, Disconnect, Handler
    <3> QED
      BY <1>26, <1>a, <2>2, <2>3, <3>1, <3>2, LocalMove, Zenon
  <2> QED BY <2>2, <2>3, <2>4, <2>5, Zenon DEF LocalsInv
<1>27. ASSUME NEW c \in Conns, SendResult(c) PROVE LocalsInv'
  <2>1. pc[c] = "Sending"
    BY <1>27, Zenon DEF SendResult
  <2>2. RuntimeTypeOK' /\ ProvidersAllocated' /\ PromisesAllocated'
    BY <1>27, <1>e, Zenon DEF SendResult, ipcVars, connVars
  <2>3. IpcTypeOK'
    BY <1>27, <1>f, Zenon DEF SendResult
  <2>4. ReadTypeOK'
    <3>1. PICK msg \in outbox[c] : Send(msg)
      BY <1>27, Zenon DEF SendResult
    <3>2. outbox' = [outbox EXCEPT ![c] = {}] /\ route' = route
      BY <1>27, Zenon DEF SendResult
    <3> QED
      BY <1>27, <1>a, <1>j, <3>1, <3>2, Zenon DEF ReadTypeOK
  <2>5. ThreadInv'
    <3>1. Moves(c, "Idle", task[c], prov[c], req[c]) /\ UNCHANGED <<nextProvider, nextRequest>>
      BY <1>27, <1>a, <1>d, <2>1, Zenon DEF SendResult, Moves, runtimeVars, ipcVars
    <3>2. LocalsOf(c, "Idle", task[c], prov[c], req[c])
      BY <1>27, <1>a, <1>b, <2>1, Zenon
      DEF LocalsOf, Places, Tasks, InRead, ForProvider, BeforeInsert, AfterInsert, Disconnect, Handler
    <3> QED
      BY <1>27, <1>a, <2>2, <2>3, <3>1, <3>2, LocalMove, Zenon
  <2> QED BY <2>2, <2>3, <2>4, <2>5, Zenon DEF LocalsInv
<1>28. ASSUME NEW c \in Conns, disconnect_registered_providers(c) PROVE LocalsInv'
  <2>1. pc[c] = "Closing"
    BY <1>28, Zenon DEF disconnect_registered_providers
  <2>2. RuntimeTypeOK' /\ ProvidersAllocated' /\ PromisesAllocated'
    <3>1. PICK p \in registered[c] : registered' = [registered EXCEPT ![c] = @ \ {p}]
      BY <1>28, Zenon DEF disconnect_registered_providers
    <3>2. UNCHANGED <<runtimeVars, routes, registrant>>
      BY <1>28, Zenon DEF disconnect_registered_providers, ipcVars
    <3>3. \A d \in Conns : registered'[d] \subseteq registered[d]
      BY <3>1, Zenon DEF IpcTypeOK
    <3> QED
      BY <3>2, <3>3, Zenon DEF RuntimeTypeOK, ProvidersAllocated, PromisesAllocated, runtimeVars
  <2>3. IpcTypeOK'
    <3>1. PICK p \in registered[c] : registered' = [registered EXCEPT ![c] = @ \ {p}]
      BY <1>28, Zenon DEF disconnect_registered_providers
    <3>2. UNCHANGED <<ipcVars, registrant, openPeers, delivered>>
      BY <1>28, Zenon DEF disconnect_registered_providers
    <3> QED
      BY <3>1, <3>2, Zenon DEF IpcTypeOK, ipcVars
  <2>4. ReadTypeOK'
    BY <1>28, <1>h, Zenon DEF disconnect_registered_providers
  <2>5. ThreadInv'
    <3>1. PICK p \in registered[c] : prov' = [prov EXCEPT ![c] = p]
      BY <1>28, Zenon DEF disconnect_registered_providers
    <3>2. p \in ProviderIds /\ p < nextProvider /\ p # 0
      BY <1>28, <3>1, RuntimeBounds DEF IpcTypeOK, RuntimeTypeOK, ProvidersAllocated, ProviderIds
    <3>3. Moves(c, "DropRoute", task[c], p, req[c]) /\ UNCHANGED <<nextProvider, nextRequest>>
      BY <1>28, <1>a, <1>d, <3>1, Zenon DEF Moves, disconnect_registered_providers, runtimeVars, ipcVars
    <3>4. LocalsOf(c, "DropRoute", task[c], p, req[c])
      BY <1>28, <1>a, <1>b, <2>1, <3>2, Zenon
      DEF LocalsOf, Places, Tasks, InRead, ForProvider, BeforeInsert, AfterInsert, Disconnect, Handler
    <3> QED
      BY <1>28, <1>a, <1>b, <1>l, <2>2, <2>3, <3>2, <3>3, <3>4, MoveKeepsThreadInv, Zenon
  <2> QED BY <2>2, <2>3, <2>4, <2>5, Zenon DEF LocalsInv
<1>29. ASSUME NEW c \in Conns, HandlerEnds(c) PROVE LocalsInv'
  <2>1. pc[c] = "Closing"
    BY <1>29, Zenon DEF HandlerEnds
  <2>2. RuntimeTypeOK' /\ ProvidersAllocated' /\ PromisesAllocated'
    BY <1>29, <1>e, Zenon DEF HandlerEnds, ipcVars, connVars
  <2>3. IpcTypeOK'
    BY <1>29, <1>f, Zenon DEF HandlerEnds
  <2>4. ReadTypeOK'
    BY <1>29, <1>h, Zenon DEF HandlerEnds
  <2>5. ThreadInv'
    <3>1. Moves(c, "Closed", task[c], prov[c], req[c]) /\ UNCHANGED <<nextProvider, nextRequest>>
      BY <1>29, <1>a, <1>d, <2>1, Zenon DEF HandlerEnds, Moves, runtimeVars, ipcVars
    <3>2. LocalsOf(c, "Closed", task[c], prov[c], req[c])
      BY <1>29, <1>a, <1>b, <2>1, Zenon
      DEF LocalsOf, Places, Tasks, InRead, ForProvider, BeforeInsert, AfterInsert, Disconnect, Handler
    <3> QED
      BY <1>29, <1>a, <2>2, <2>3, <3>1, <3>2, LocalMove, Zenon
  <2> QED BY <2>2, <2>3, <2>4, <2>5, Zenon DEF LocalsInv
<1>30. ASSUME NEW c \in Conns, EndOfRequests(c) PROVE LocalsInv'
  <2>1. pc[c] = "Idle"
    BY <1>30, Zenon DEF EndOfRequests
  <2>2. RuntimeTypeOK' /\ ProvidersAllocated' /\ PromisesAllocated'
    BY <1>30, <1>e, Zenon DEF EndOfRequests, ipcVars, connVars
  <2>3. IpcTypeOK'
    BY <1>30, <1>f, Zenon DEF EndOfRequests
  <2>4. ReadTypeOK'
    BY <1>30, <1>h, Zenon DEF EndOfRequests
  <2>5. ThreadInv'
    <3>1. Moves(c, "Closing", "Close", 0, req[c]) /\ UNCHANGED <<nextProvider, nextRequest>>
      BY <1>30, <1>a, <1>d, <2>1, Zenon DEF EndOfRequests, EndLoop, Moves, runtimeVars, ipcVars
    <3>2. LocalsOf(c, "Closing", "Close", 0, req[c])
      BY <1>30, <1>a, <1>b, <2>1, Zenon
      DEF LocalsOf, Places, Tasks, InRead, ForProvider, BeforeInsert, AfterInsert, Disconnect, Handler
    <3> QED
      BY <1>30, <1>a, <2>2, <2>3, <3>1, <3>2, LocalMove, Zenon
  <2> QED BY <2>2, <2>3, <2>4, <2>5, Zenon DEF LocalsInv
<1>31. ASSUME NEW c \in Conns, PeerClose(c) PROVE LocalsInv'
  <2>1. RuntimeTypeOK' /\ ProvidersAllocated' /\ PromisesAllocated' /\ ReadTypeOK'
    BY <1>31, <1>e, <1>h, Zenon DEF PeerClose, ipcVars, threadVars
  <2>2. IpcTypeOK'
    BY <1>31, Zenon DEF PeerClose, IpcTypeOK, ipcVars
  <2>3. ThreadInv'
    BY <1>31, Zenon DEF PeerClose, ThreadInv, ThreadTypeOK, runtimeVars, ipcVars, threadVars
  <2> QED BY <2>1, <2>2, <2>3, Zenon DEF LocalsInv
<1>32. CASE UNCHANGED vars
  <2>1. ThreadInv'
    BY <1>32, Zenon DEF vars, runtimeVars, ipcVars, threadVars, ThreadInv, ThreadTypeOK
  <2> QED
    BY <1>32, <1>e, <1>f, <1>h, <2>1, Zenon DEF vars, ipcVars, connVars, threadVars, LocalsInv
<1> QED
  BY <1>1, <1>2, <1>3, <1>4, <1>5, <1>6, <1>7, <1>8, <1>9, <1>10, <1>11, <1>12, <1>13, <1>14, <1>15,
      <1>16, <1>17, <1>18, <1>19, <1>20, <1>21, <1>22, <1>23, <1>24, <1>25, <1>26, <1>27, <1>28, <1>29,
      <1>30, <1>31, <1>32, Zenon
  DEF Next, ReadStep, DisconnectStep, Request, HandlerStep, AwaitClients

\* The reachable states, with everything the other proofs need to know of the
\* threads' locals.
THEOREM LocalsTheorem == Spec => []LocalsInv
BY LocalsInit, LocalsStep, PTL DEF Spec

\* Every variable keeps its type: the identifiers a step indexes a table with
\* are in it, and the results that threads pass each other are well formed.
THEOREM TypeCorrect == Spec => []TypeOK
<1>1. LocalsInv => TypeOK
  BY Zenon DEF LocalsInv, ThreadInv, TypeOK
<1> QED
  BY <1>1, LocalsTheorem, PTL

-----------------------------------------------------------------------------
(* Sessions, routes and promises. *)

\* A promise is gone only because its owner is.
GoneHasGoneProvider ==
    \A m \in PromiseIds : promiseState[m] = "ProviderGone" =>
        providers[promiseOwner[m]] = "Disconnected"

\* registered_providers holds what its own connection registered, and is
\* drained when the handler thread ends.
RegisteredByConn ==
    \A c \in Conns :
        /\ \A p \in registered[c] : registrant[p] = c
        /\ pc[c] = "Closed" => registered[c] = {}

\* The handler thread of p's connection still answers for p: p is in its
\* list, or it has taken p off the list to disconnect it at this place.
AnsweredFor(p, places) ==
    \/ p \in registered[registrant[p]]
    \/ pc[registrant[p]] \in places /\ prov[registrant[p]] = p

RouteAnsweredFor ==
    \A p \in ProviderIds : routes[p] # None =>
        routes[p] = registrant[p] /\ AnsweredFor(p, {"DropRoute"})

PromiseAnsweredFor ==
    \A m \in PromiseIds : promiseState[m] = "Available" =>
        AnsweredFor(promiseOwner[m], {"DropRoute", "MarkGone"})

\* A commit past its owner check can only create a promise that some handler
\* thread answers for.
CommitAnsweredFor ==
    \A t \in Threads : (pc[t] = "Committing" /\ has_provider(prov[t])) =>
        AnsweredFor(prov[t], {"DropRoute", "MarkGone"})

\* Nobody knows a provider before its route exists.
RegisteringIsPrivate ==
    \A c \in Conns : pc[c] = "Registering" =>
        /\ has_provider(prov[c])
        /\ registrant[prov[c]] = c
        /\ routes[prov[c]] = None
        /\ \A t \in Threads : t # c => prov[t] # prov[c]
        /\ \A m \in PromiseIds : promiseOwner[m] # prov[c]

MarkedAfterDrop ==
    \A t \in Threads : pc[t] = "MarkGone" => routes[prov[t]] = None

SessionInv ==
    /\ AvailableHasLiveProvider
    /\ GoneHasGoneProvider
    /\ RegisteredByConn
    /\ RouteAnsweredFor
    /\ PromiseAnsweredFor
    /\ CommitAnsweredFor
    /\ RegisteringIsPrivate
    /\ MarkedAfterDrop
    /\ GoneProviderLosesRoute

-----------------------------------------------------------------------------
\* The facts about identifiers that the proofs below use all the time.
LEMMA SessionTypes ==
    ASSUME LocalsInv
    PROVE  /\ Readers \subseteq Threads /\ Conns \subseteq Threads /\ None \notin Threads
           /\ pc \in [Threads -> Places] /\ prov \in [Threads -> ProviderIds \cup {0}]
           /\ providers \in [ProviderIds -> {"Absent", "Live", "Disconnected"}]
           /\ promiseState \in [PromiseIds -> {"Absent", "Available", "ProviderGone"}]
           /\ promiseOwner \in [PromiseIds -> ProviderIds \cup {0}]
           /\ routes \in [ProviderIds -> Conns \cup {None}]
           /\ registered \in [Conns -> SUBSET ProviderIds]
           /\ registrant \in [ProviderIds -> Conns \cup {None}]
           /\ \A p \in ProviderIds : providers[p] # "Absent" <=> registrant[p] \in Conns
           /\ \A m \in PromiseIds : promiseState[m] # "Absent" <=> promiseOwner[m] \in ProviderIds
           /\ \A p \in ProviderIds : routes[p] # None => providers[p] # "Absent"
           /\ \A t \in Threads : pc[t] \in ForProvider =>
                 prov[t] \in ProviderIds /\ providers[prov[t]] # "Absent" /\ registrant[prov[t]] \in Conns
<1> USE DEF LocalsInv
<1>1. /\ Readers \subseteq Threads /\ Conns \subseteq Threads /\ None \notin Threads
      /\ pc \in [Threads -> Places] /\ prov \in [Threads -> ProviderIds \cup {0}]
  BY IpcAssumptions, Zenon DEF Threads, ThreadInv, ThreadTypeOK
<1>2. /\ providers \in [ProviderIds -> {"Absent", "Live", "Disconnected"}]
      /\ promiseState \in [PromiseIds -> {"Absent", "Available", "ProviderGone"}]
      /\ promiseOwner \in [PromiseIds -> ProviderIds \cup {0}]
  BY Zenon DEF RuntimeTypeOK
<1>3. /\ routes \in [ProviderIds -> Conns \cup {None}]
      /\ registered \in [Conns -> SUBSET ProviderIds]
      /\ registrant \in [ProviderIds -> Conns \cup {None}]
  BY Zenon DEF IpcTypeOK
<1>4. ASSUME NEW p \in ProviderIds
      PROVE  /\ providers[p] # "Absent" <=> registrant[p] \in Conns
             /\ routes[p] # None => providers[p] # "Absent"
             /\ p < nextProvider => providers[p] # "Absent"
  <2>1. p \in Nat /\ nextProvider \in Nat
    BY RuntimeBounds DEF ProviderIds, RuntimeTypeOK
  <2> QED
    BY <1>1, <1>3, <2>1 DEF ProvidersAllocated
<1>5. ASSUME NEW m \in PromiseIds PROVE promiseState[m] # "Absent" <=> promiseOwner[m] \in ProviderIds
  <2>1. 0 \notin ProviderIds
    BY RuntimeBounds DEF ProviderIds
  <2> QED
    BY <1>2, <2>1, Zenon DEF PromisesAllocated
<1>6. ASSUME NEW t \in Threads, pc[t] \in ForProvider
      PROVE  prov[t] \in ProviderIds /\ providers[prov[t]] # "Absent" /\ registrant[prov[t]] \in Conns
  <2>1. prov[t] \in ProviderIds /\ prov[t] < nextProvider
    BY <1>6, <1>1, Zenon DEF ThreadInv, LocalsOf
  <2> QED
    BY <2>1, <1>4, Zenon
<1> QED BY <1>1, <1>2, <1>3, <1>4, <1>5, <1>6, Zenon

\* Nothing is registered or promised at first.
LEMMA SessionInit == Init => SessionInv
<1> SUFFICES ASSUME Init PROVE SessionInv
  BY Zenon
<1>1. /\ \A m \in PromiseIds : promiseState[m] = "Absent"
      /\ \A p \in ProviderIds : routes[p] = None
      /\ \A c \in Conns : registered[c] = {}
      /\ \A t \in Threads : pc[t] = "Idle"
      /\ Conns \subseteq Threads
  BY Zenon DEF Init, RuntimeInit, Threads
<1> QED
  BY <1>1, Zenon DEF SessionInv, AvailableHasLiveProvider, GoneHasGoneProvider, RegisteredByConn, RouteAnsweredFor,
       PromiseAnsweredFor, CommitAnsweredFor, RegisteringIsPrivate, MarkedAfterDrop, GoneProviderLosesRoute

\* Thread t moves on with another provider in hand; it neither leaves
\* disconnect_provider_id with something undone nor learns of a provider that
\* is still being registered.
Quiet(t, place, p) ==
    /\ UNCHANGED runtimeVars
    /\ UNCHANGED <<routes, registered, registrant>>
    /\ pc' = [pc EXCEPT ![t] = place]
    /\ prov' = [prov EXCEPT ![t] = p]
    /\ pc[t] \notin {"DropRoute", "MarkGone"}
    /\ place \notin {"MarkGone", "Registering"}
    /\ place = "Closed" => registered[t] = {}
    /\ place = "Committing" => /\ p \in ProviderIds
                               /\ registrant[p] \in Conns
                               /\ AnsweredFor(p, {"DropRoute", "MarkGone"})
    /\ \A c \in Conns : c # t /\ pc[c] = "Registering" => prov[c] # p

\* Such a move disturbs nothing.
LEMMA QuietMove ==
    ASSUME LocalsInv, SessionInv, NEW t \in Threads, NEW place, NEW p, Quiet(t, place, p)
    PROVE  SessionInv'
<1> USE DEF Quiet
<1>1. \A u \in Threads : /\ pc'[u] = IF u = t THEN place ELSE pc[u]
                         /\ prov'[u] = IF u = t THEN p ELSE prov[u]
  BY SessionTypes, Zenon
<1>2. /\ providers' = providers /\ promiseState' = promiseState /\ promiseOwner' = promiseOwner
      /\ routes' = routes /\ registered' = registered /\ registrant' = registrant
  BY Zenon DEF runtimeVars
<1>3. ASSUME NEW q \in ProviderIds, registrant[q] \in Conns
      PROVE  /\ AnsweredFor(q, {"DropRoute"}) => AnsweredFor(q, {"DropRoute"})'
             /\ AnsweredFor(q, {"DropRoute", "MarkGone"}) => AnsweredFor(q, {"DropRoute", "MarkGone"})'
  BY <1>1, <1>2, <1>3, SessionTypes, Zenon DEF AnsweredFor
<1>4. AvailableHasLiveProvider' /\ GoneHasGoneProvider'
  BY <1>2, Zenon DEF SessionInv, AvailableHasLiveProvider, GoneHasGoneProvider, has_provider
<1>5. RegisteredByConn'
  BY <1>1, <1>2, SessionTypes, Zenon DEF SessionInv, RegisteredByConn
<1>6. RouteAnsweredFor'
  BY <1>2, <1>3, SessionTypes, Zenon DEF SessionInv, RouteAnsweredFor
<1>7. PromiseAnsweredFor'
  BY <1>2, <1>3, SessionTypes, Zenon DEF SessionInv, PromiseAnsweredFor, AvailableHasLiveProvider, has_provider
<1>8. CommitAnsweredFor'
  <2> SUFFICES ASSUME NEW u \in Threads, NEW q, q = prov'[u], pc'[u] = "Committing", has_provider(q)
               PROVE  AnsweredFor(q, {"DropRoute", "MarkGone"})'
    BY <1>2, Zenon DEF CommitAnsweredFor, has_provider, AnsweredFor
  <2>1. CASE u = t
    BY <1>1, <1>3, <2>1, Zenon
  <2>2. CASE u # t
    <3>1. pc[u] = "Committing" /\ q = prov[u]
      BY <1>1, <2>2, Zenon
    <3>2. q \in ProviderIds /\ registrant[q] \in Conns
      BY <3>1, SessionTypes, Zenon DEF ForProvider
    <3>3. AnsweredFor(q, {"DropRoute", "MarkGone"})
      BY <3>1, Zenon DEF SessionInv, CommitAnsweredFor
    <3> QED
      BY <1>3, <3>2, <3>3, Zenon
  <2> QED BY <2>1, <2>2, Zenon
<1>9. RegisteringIsPrivate'
  <2>1. ASSUME NEW d \in Conns, pc'[d] = "Registering"
        PROVE  /\ providers'[prov'[d]] = "Live" /\ registrant'[prov'[d]] = d /\ routes'[prov'[d]] = None
               /\ \A u \in Threads : u # d => prov'[u] # prov'[d]
               /\ \A m \in PromiseIds : promiseOwner'[m] # prov'[d]
    <3>1. d \in Threads /\ d # t /\ pc[d] = "Registering" /\ prov'[d] = prov[d]
      BY <1>1, <2>1, SessionTypes, Zenon
    <3>2. /\ providers[prov[d]] = "Live" /\ registrant[prov[d]] = d /\ routes[prov[d]] = None
          /\ \A u \in Threads : u # d => prov[u] # prov[d]
          /\ \A m \in PromiseIds : promiseOwner[m] # prov[d]
      BY <3>1, Zenon DEF SessionInv, RegisteringIsPrivate, has_provider
    <3>3. p # prov[d]
      BY <3>1, Zenon
    <3>4. \A u \in Threads : u # d => prov'[u] # prov[d]
      BY <1>1, <3>2, <3>3, Zenon
    <3> QED BY <1>2, <3>1, <3>2, <3>4, Zenon
  <2> QED BY <2>1, Zenon DEF RegisteringIsPrivate, has_provider
<1>10. MarkedAfterDrop'
  <2>1. ASSUME NEW u \in Threads, pc'[u] = "MarkGone" PROVE routes'[prov'[u]] = None
    <3>1. u # t /\ pc[u] = "MarkGone" /\ prov'[u] = prov[u]
      BY <1>1, <2>1, Zenon
    <3>2. routes[prov[u]] = None
      BY <3>1, Zenon DEF SessionInv, MarkedAfterDrop
    <3> QED BY <1>2, <3>1, <3>2, Zenon
  <2> QED BY <2>1, Zenon DEF MarkedAfterDrop
<1>11. GoneProviderLosesRoute'
  <2> SUFFICES ASSUME NEW q \in ProviderIds, routes[q] # None, ~has_provider(q)
               PROVE  \E u \in Threads : prov'[u] = q /\ pc'[u] = "DropRoute"
    BY <1>2, Zenon DEF GoneProviderLosesRoute, has_provider
  <2>1. PICK u \in Threads : prov[u] = q /\ pc[u] = "DropRoute"
    BY Zenon DEF SessionInv, GoneProviderLosesRoute
  <2> QED
    BY <1>1, <2>1, Zenon
<1> QED
  BY <1>4, <1>5, <1>6, <1>7, <1>8, <1>9, <1>10, <1>11, Zenon DEF SessionInv

\* The route goes first, while the thread still answers for the promises.
LEMMA DropRouteStep ==
    ASSUME LocalsInv, SessionInv, NEW t \in Threads, DropRoute(t)
    PROVE  SessionInv'
<1>1. /\ pc[t] = "DropRoute" /\ UNCHANGED <<runtimeVars, registered, registrant, prov>>
      /\ routes' = [routes EXCEPT ![prov[t]] = None] /\ pc' = [pc EXCEPT ![t] = "MarkGone"]
  BY Zenon DEF DropRoute, connVars
<1>2. /\ pc[t] = "DropRoute" /\ prov[t] \in ProviderIds
      /\ \A u \in Threads : pc'[u] = IF u = t THEN "MarkGone" ELSE pc[u]
      /\ \A q \in ProviderIds : routes'[q] = IF q = prov[t] THEN None ELSE routes[q]
      /\ providers' = providers /\ promiseState' = promiseState /\ promiseOwner' = promiseOwner
      /\ registered' = registered /\ registrant' = registrant /\ prov' = prov
  BY <1>1, SessionTypes, Zenon DEF ForProvider, Disconnect, runtimeVars
<1>3. ASSUME NEW q \in ProviderIds, registrant[q] \in Conns
      PROVE  /\ q # prov[t] /\ AnsweredFor(q, {"DropRoute"}) => AnsweredFor(q, {"DropRoute"})'
             /\ AnsweredFor(q, {"DropRoute", "MarkGone"}) => AnsweredFor(q, {"DropRoute", "MarkGone"})'
  BY <1>2, <1>3, SessionTypes, Zenon DEF AnsweredFor
<1>4. AvailableHasLiveProvider'
  BY <1>2, SessionTypes, Zenon DEF SessionInv, AvailableHasLiveProvider, has_provider
<1>5. GoneHasGoneProvider'
  BY <1>2, SessionTypes, Zenon DEF SessionInv, GoneHasGoneProvider
<1>6. RegisteredByConn'
  <2>1. ASSUME NEW d \in Conns
        PROVE  (\A q \in registered'[d] : registrant'[q] = d) /\ (pc'[d] = "Closed" => registered'[d] = {})
    <3>1. d \in Threads /\ registered'[d] \subseteq registered[d] /\ registrant' = registrant
      BY <1>2, SessionTypes, Zenon
    <3>2. pc'[d] = "Closed" => pc[d] = "Closed"
      BY <1>2, <3>1, Zenon
    <3>3. (\A q \in registered[d] : registrant[q] = d) /\ (pc[d] = "Closed" => registered[d] = {})
      BY Zenon DEF SessionInv, RegisteredByConn
    <3> QED BY <3>1, <3>2, <3>3, Zenon
  <2> QED BY <2>1, Zenon DEF RegisteredByConn
<1>7. RouteAnsweredFor'
  BY <1>2, <1>3, SessionTypes, Zenon DEF SessionInv, RouteAnsweredFor
<1>8. PromiseAnsweredFor'
  <2> SUFFICES ASSUME NEW m \in PromiseIds, NEW q, q = promiseOwner'[m], promiseState'[m] = "Available"
               PROVE  AnsweredFor(q, {"DropRoute", "MarkGone"})'
    BY Zenon DEF PromiseAnsweredFor, AnsweredFor
  <2> QED
    BY <1>2, <1>3, SessionTypes, Zenon DEF SessionInv, PromiseAnsweredFor, AvailableHasLiveProvider, has_provider
<1>9. CommitAnsweredFor'
  <2> SUFFICES ASSUME NEW u \in Threads, NEW q, q = prov'[u], pc'[u] = "Committing", providers'[q] = "Live"
               PROVE  AnsweredFor(q, {"DropRoute", "MarkGone"})'
    BY Zenon DEF CommitAnsweredFor, has_provider, AnsweredFor
  <2>1. pc[u] = "Committing" /\ q = prov[u]
    BY <1>2, Zenon
  <2>2. q \in ProviderIds /\ registrant[q] \in Conns
    BY <2>1, SessionTypes, Zenon DEF ForProvider
  <2> QED
    BY <1>2, <1>3, <2>1, <2>2, Zenon DEF SessionInv, CommitAnsweredFor, has_provider
<1>10. RegisteringIsPrivate'
  <2> SUFFICES ASSUME NEW d \in Conns, pc'[d] = "Registering"
               PROVE  /\ providers'[prov[d]] = "Live" /\ registrant[prov[d]] = d /\ routes'[prov[d]] = None
                      /\ \A u \in Threads : u # d => prov[u] # prov[d]
                      /\ \A m \in PromiseIds : promiseOwner[m] # prov[d]
    BY <1>2, ZenonT(60) DEF RegisteringIsPrivate, has_provider
  <2>1. d # t /\ pc[d] = "Registering" /\ prov[d] \in ProviderIds
    BY <1>2, SessionTypes, Zenon DEF ForProvider
  <2>2. prov[d] # prov[t]
    BY <2>1, SessionTypes, Zenon DEF SessionInv, RegisteringIsPrivate
  <2> QED
    BY <1>2, <2>1, <2>2, Zenon DEF SessionInv, RegisteringIsPrivate, has_provider
<1>11. MarkedAfterDrop'
  BY <1>2, SessionTypes, Zenon DEF SessionInv, MarkedAfterDrop, ForProvider, Disconnect
<1>12. GoneProviderLosesRoute'
  <2> SUFFICES ASSUME NEW q \in ProviderIds, routes'[q] # None, providers'[q] # "Live"
               PROVE  \E u \in Threads : prov'[u] = q /\ pc'[u] = "DropRoute"
    BY Zenon DEF GoneProviderLosesRoute, has_provider
  <2> QED
    BY <1>2, SessionTypes DEF SessionInv, GoneProviderLosesRoute, has_provider
<1> QED
  BY <1>4, <1>5, <1>6, <1>7, <1>8, <1>9, <1>10, <1>11, <1>12, Zenon DEF SessionInv

\* unregister_provider inside disconnect_provider_id.
LEMMA MarkGoneStep ==
    ASSUME LocalsInv, SessionInv, NEW t \in Threads, MarkGone(t)
    PROVE  SessionInv'
<1>1. /\ pc[t] = "MarkGone" /\ unregister_provider(prov[t]) /\ UNCHANGED <<routes, registered, registrant, prov>>
      /\ pc' = [pc EXCEPT ![t] = "FailPending"]
  BY Zenon DEF MarkGone, ipcVars, connVars
<1>2. /\ pc[t] = "MarkGone" /\ prov[t] \in ProviderIds
      /\ \A u \in Threads : pc'[u] = IF u = t THEN "FailPending" ELSE pc[u]
      /\ \A q \in ProviderIds : providers'[q] = IF q = prov[t] THEN "Disconnected" ELSE providers[q]
      /\ \A m \in PromiseIds : promiseState'[m] =
            IF promiseOwner[m] = prov[t] /\ promiseState[m] = "Available" THEN "ProviderGone" ELSE promiseState[m]
      /\ promiseOwner' = promiseOwner /\ routes' = routes
      /\ registered' = registered /\ registrant' = registrant /\ prov' = prov
  BY <1>1, SessionTypes, Zenon DEF ForProvider, Disconnect, unregister_provider
<1>3. ASSUME NEW q \in ProviderIds, registrant[q] \in Conns
      PROVE  /\ AnsweredFor(q, {"DropRoute"}) => AnsweredFor(q, {"DropRoute"})'
             /\ q # prov[t] /\ AnsweredFor(q, {"DropRoute", "MarkGone"}) => AnsweredFor(q, {"DropRoute", "MarkGone"})'
  BY <1>2, <1>3, SessionTypes, Zenon DEF AnsweredFor
<1>4. AvailableHasLiveProvider'
  BY <1>2, SessionTypes, Zenon DEF SessionInv, AvailableHasLiveProvider, has_provider
<1>5. GoneHasGoneProvider'
  BY <1>2, SessionTypes, Zenon DEF SessionInv, GoneHasGoneProvider
<1>6. RegisteredByConn'
  <2>1. ASSUME NEW d \in Conns
        PROVE  (\A q \in registered'[d] : registrant'[q] = d) /\ (pc'[d] = "Closed" => registered'[d] = {})
    <3>1. d \in Threads /\ registered'[d] \subseteq registered[d] /\ registrant' = registrant
      BY <1>2, SessionTypes, Zenon
    <3>2. pc'[d] = "Closed" => pc[d] = "Closed"
      BY <1>2, <3>1, Zenon
    <3>3. (\A q \in registered[d] : registrant[q] = d) /\ (pc[d] = "Closed" => registered[d] = {})
      BY Zenon DEF SessionInv, RegisteredByConn
    <3> QED BY <3>1, <3>2, <3>3, Zenon
  <2> QED BY <2>1, Zenon DEF RegisteredByConn
<1>7. RouteAnsweredFor'
  BY <1>2, <1>3, SessionTypes, Zenon DEF SessionInv, RouteAnsweredFor
<1>8. PromiseAnsweredFor'
  <2> SUFFICES ASSUME NEW m \in PromiseIds, NEW q, q = promiseOwner'[m], promiseState'[m] = "Available"
               PROVE  AnsweredFor(q, {"DropRoute", "MarkGone"})'
    BY Zenon DEF PromiseAnsweredFor, AnsweredFor
  <2> QED
    BY <1>2, <1>3, SessionTypes, Zenon DEF SessionInv, PromiseAnsweredFor, AvailableHasLiveProvider, has_provider
<1>9. CommitAnsweredFor'
  <2> SUFFICES ASSUME NEW u \in Threads, NEW q, q = prov'[u], pc'[u] = "Committing", providers'[q] = "Live"
               PROVE  AnsweredFor(q, {"DropRoute", "MarkGone"})'
    BY Zenon DEF CommitAnsweredFor, has_provider, AnsweredFor
  <2>1. pc[u] = "Committing" /\ q = prov[u]
    BY <1>2, Zenon
  <2>2. q \in ProviderIds /\ registrant[q] \in Conns
    BY <2>1, SessionTypes, Zenon DEF ForProvider
  <2>3. q # prov[t] /\ providers[q] = "Live"
    BY <1>2, <2>2, Zenon
  <2> QED
    BY <1>3, <2>1, <2>2, <2>3, Zenon DEF SessionInv, CommitAnsweredFor, has_provider
<1>10. RegisteringIsPrivate'
  <2> SUFFICES ASSUME NEW d \in Conns, pc'[d] = "Registering"
               PROVE  /\ providers'[prov[d]] = "Live" /\ registrant[prov[d]] = d /\ routes'[prov[d]] = None
                      /\ \A u \in Threads : u # d => prov[u] # prov[d]
                      /\ \A m \in PromiseIds : promiseOwner[m] # prov[d]
    BY <1>2 DEF RegisteringIsPrivate, has_provider
  <2>1. d # t /\ pc[d] = "Registering" /\ prov[d] \in ProviderIds
    BY <1>2, SessionTypes, Zenon DEF ForProvider
  <2>2. prov[d] # prov[t]
    BY <2>1, SessionTypes, Zenon DEF SessionInv, RegisteringIsPrivate
  <2> QED
    BY <1>2, <2>1, <2>2, Zenon DEF SessionInv, RegisteringIsPrivate, has_provider
<1>11. MarkedAfterDrop'
  BY <1>2, Zenon DEF SessionInv, MarkedAfterDrop
<1>12. GoneProviderLosesRoute'
  <2> SUFFICES ASSUME NEW q \in ProviderIds, routes'[q] # None, providers'[q] # "Live"
               PROVE  \E u \in Threads : prov'[u] = q /\ pc'[u] = "DropRoute"
    BY Zenon DEF GoneProviderLosesRoute, has_provider
  <2>1. q # prov[t]
    BY <1>2, Zenon DEF SessionInv, MarkedAfterDrop
  <2>2. PICK u \in Threads : prov[u] = q /\ pc[u] = "DropRoute"
    BY <1>2, <2>1, ZenonT(60) DEF SessionInv, GoneProviderLosesRoute, has_provider
  <2> QED
    BY <1>2, <2>2, Zenon
<1> QED
  BY <1>4, <1>5, <1>6, <1>7, <1>8, <1>9, <1>10, <1>11, <1>12, Zenon DEF SessionInv

\* A new session is known to nobody but the thread that registers it.
LEMMA ProviderRegisterStep ==
    ASSUME LocalsInv, SessionInv, NEW c \in Conns, ProviderRegister(c)
    PROVE  SessionInv'
<1>1. /\ pc[c] = "Idle" /\ register_provider /\ UNCHANGED <<routes, registered>>
      /\ prov' = [prov EXCEPT ![c] = nextProvider] /\ registrant' = [registrant EXCEPT ![nextProvider] = c]
      /\ pc' = [pc EXCEPT ![c] = "Registering"]
  BY Zenon DEF ProviderRegister, ipcVars
<1>a. /\ nextProvider \in ProviderIds /\ routes[nextProvider] = None /\ providers[nextProvider] = "Absent"
      /\ registrant[nextProvider] = None
      /\ \A u \in Threads : prov[u] # nextProvider
      /\ \A m \in PromiseIds : promiseOwner[m] # nextProvider
      /\ \A d \in Conns : nextProvider \notin registered[d]
  <2>1. nextProvider \in ProviderIds /\ nextProvider >= nextProvider /\ ~(nextProvider < nextProvider)
    BY <1>1, RuntimeBounds DEF register_provider, ProviderIds, LocalsInv, RuntimeTypeOK
  <2> QED
    BY <2>1, Zenon DEF LocalsInv, ProvidersAllocated, PromisesAllocated, ThreadInv
<1>2. /\ pc[c] = "Idle"
      /\ \A u \in Threads : /\ pc'[u] = IF u = c THEN "Registering" ELSE pc[u]
                            /\ prov'[u] = IF u = c THEN nextProvider ELSE prov[u]
      /\ \A q \in ProviderIds : /\ providers'[q] = IF q = nextProvider THEN "Live" ELSE providers[q]
                                /\ registrant'[q] = IF q = nextProvider THEN c ELSE registrant[q]
      /\ promiseState' = promiseState /\ promiseOwner' = promiseOwner
      /\ routes' = routes /\ registered' = registered
  BY <1>1, SessionTypes, Zenon DEF register_provider
<1>3. ASSUME NEW q \in ProviderIds, q # nextProvider, registrant[q] \in Conns
      PROVE  /\ AnsweredFor(q, {"DropRoute"}) => AnsweredFor(q, {"DropRoute"})'
             /\ AnsweredFor(q, {"DropRoute", "MarkGone"}) => AnsweredFor(q, {"DropRoute", "MarkGone"})'
  BY <1>2, <1>3, SessionTypes, ZenonT(60) DEF AnsweredFor
<1>4. AvailableHasLiveProvider'
  BY <1>a, <1>2, SessionTypes, Zenon DEF SessionInv, AvailableHasLiveProvider, has_provider
<1>5. GoneHasGoneProvider'
  BY <1>a, <1>2, SessionTypes, Zenon DEF SessionInv, GoneHasGoneProvider
<1>6. RegisteredByConn'
  BY <1>a, <1>2, SessionTypes DEF SessionInv, RegisteredByConn
<1>7. RouteAnsweredFor'
  BY <1>a, <1>2, <1>3, SessionTypes, Zenon DEF SessionInv, RouteAnsweredFor
<1>8. PromiseAnsweredFor'
  <2> SUFFICES ASSUME NEW m \in PromiseIds, NEW q, q = promiseOwner'[m], promiseState'[m] = "Available"
               PROVE  AnsweredFor(q, {"DropRoute", "MarkGone"})'
    BY Zenon DEF PromiseAnsweredFor, AnsweredFor
  <2> QED
    BY <1>a, <1>2, <1>3, SessionTypes, Zenon DEF SessionInv, PromiseAnsweredFor, AvailableHasLiveProvider, has_provider
<1>9. CommitAnsweredFor'
  <2> SUFFICES ASSUME NEW u \in Threads, NEW q, q = prov'[u], pc'[u] = "Committing", providers'[q] = "Live"
               PROVE  AnsweredFor(q, {"DropRoute", "MarkGone"})'
    BY Zenon DEF CommitAnsweredFor, has_provider, AnsweredFor
  <2>1. u # c /\ pc[u] = "Committing" /\ q = prov[u]
    BY <1>2, Zenon
  <2>2. q \in ProviderIds /\ registrant[q] \in Conns /\ q # nextProvider
    BY <1>a, <2>1, SessionTypes, Zenon DEF ForProvider
  <2> QED
    BY <1>2, <1>3, <2>1, <2>2, Zenon DEF SessionInv, CommitAnsweredFor, has_provider
<1>10. RegisteringIsPrivate'
  <2> SUFFICES ASSUME NEW d \in Conns, pc'[d] = "Registering"
               PROVE  /\ providers'[prov'[d]] = "Live" /\ registrant'[prov'[d]] = d /\ routes'[prov'[d]] = None
                      /\ \A u \in Threads : u # d => prov'[u] # prov'[d]
                      /\ \A m \in PromiseIds : promiseOwner'[m] # prov'[d]
    BY Zenon DEF RegisteringIsPrivate, has_provider
  <2>1. CASE d = c
    BY <1>a, <1>2, <2>1, SessionTypes, Zenon
  <2>2. CASE d # c
    <3>1. /\ pc[d] = "Registering" /\ prov'[d] = prov[d] /\ prov[d] # nextProvider /\ prov[d] \in ProviderIds
      BY <1>a, <1>2, <2>2, SessionTypes, Zenon DEF ForProvider
    <3> QED
      BY <1>2, <2>2, <3>1, SessionTypes DEF SessionInv, RegisteringIsPrivate, has_provider
  <2> QED BY <2>1, <2>2, Zenon
<1>11. MarkedAfterDrop'
  BY <1>2, Zenon DEF SessionInv, MarkedAfterDrop
<1>12. GoneProviderLosesRoute'
  <2> SUFFICES ASSUME NEW q \in ProviderIds, routes'[q] # None, providers'[q] # "Live"
               PROVE  \E u \in Threads : prov'[u] = q /\ pc'[u] = "DropRoute"
    BY Zenon DEF GoneProviderLosesRoute, has_provider
  <2>1. PICK u \in Threads : prov[u] = q /\ pc[u] = "DropRoute"
    BY <1>2, ZenonT(60) DEF SessionInv, GoneProviderLosesRoute, has_provider
  <2> QED
    BY <1>2, <2>1, Zenon
<1> QED
  BY <1>4, <1>5, <1>6, <1>7, <1>8, <1>9, <1>10, <1>11, <1>12, Zenon DEF SessionInv

\* The route appears together with the entry in registered_providers.
LEMMA RegisterRouteStep ==
    ASSUME LocalsInv, SessionInv, NEW c \in Conns, register_provider_route(c)
    PROVE  SessionInv'
<1>1. /\ pc[c] = "Registering" /\ UNCHANGED <<runtimeVars, registrant>>
      /\ routes' = [routes EXCEPT ![prov[c]] = c] /\ registered' = [registered EXCEPT ![c] = @ \cup {prov[c]}]
      /\ pc' = [pc EXCEPT ![c] = "Idle"] /\ prov' = [prov EXCEPT ![c] = 0]
  BY Zenon DEF register_provider_route, Return
<1>a. /\ prov[c] \in ProviderIds /\ providers[prov[c]] = "Live" /\ registrant[prov[c]] = c
      /\ \A u \in Threads : u # c => prov[u] # prov[c]
  BY <1>1, SessionTypes, Zenon DEF ForProvider, SessionInv, RegisteringIsPrivate, has_provider
<1>2. /\ pc[c] = "Registering" /\ 0 \notin ProviderIds
      /\ \A u \in Threads : /\ pc'[u] = IF u = c THEN "Idle" ELSE pc[u]
                            /\ prov'[u] = IF u = c THEN 0 ELSE prov[u]
      /\ \A q \in ProviderIds : routes'[q] = IF q = prov[c] THEN c ELSE routes[q]
      /\ \A d \in Conns : registered'[d] = IF d = c THEN registered[c] \cup {prov[c]} ELSE registered[d]
      /\ providers' = providers /\ promiseState' = promiseState /\ promiseOwner' = promiseOwner
      /\ registrant' = registrant
  BY <1>1, SessionTypes, RuntimeBounds DEF runtimeVars, ProviderIds
<1>3. ASSUME NEW q \in ProviderIds, registrant[q] \in Conns
      PROVE  /\ q = prov[c] \/ AnsweredFor(q, {"DropRoute"}) => AnsweredFor(q, {"DropRoute"})'
             /\ AnsweredFor(q, {"DropRoute", "MarkGone"}) => AnsweredFor(q, {"DropRoute", "MarkGone"})'
  BY <1>a, <1>2, <1>3, SessionTypes, Zenon DEF AnsweredFor
<1>4. AvailableHasLiveProvider'
  BY <1>2, SessionTypes, Zenon DEF SessionInv, AvailableHasLiveProvider, has_provider
<1>5. GoneHasGoneProvider'
  BY <1>2, SessionTypes, Zenon DEF SessionInv, GoneHasGoneProvider
<1>6. RegisteredByConn'
  BY <1>a, <1>2, SessionTypes DEF SessionInv, RegisteredByConn
<1>7. RouteAnsweredFor'
  BY <1>a, <1>2, <1>3, SessionTypes, Zenon DEF SessionInv, RouteAnsweredFor
<1>8. PromiseAnsweredFor'
  <2> SUFFICES ASSUME NEW m \in PromiseIds, NEW q, q = promiseOwner'[m], promiseState'[m] = "Available"
               PROVE  AnsweredFor(q, {"DropRoute", "MarkGone"})'
    BY Zenon DEF PromiseAnsweredFor, AnsweredFor
  <2> QED
    BY <1>2, <1>3, SessionTypes, Zenon DEF SessionInv, PromiseAnsweredFor, AvailableHasLiveProvider, has_provider
<1>9. CommitAnsweredFor'
  <2> SUFFICES ASSUME NEW u \in Threads, NEW q, q = prov'[u], pc'[u] = "Committing", providers'[q] = "Live"
               PROVE  AnsweredFor(q, {"DropRoute", "MarkGone"})'
    BY Zenon DEF CommitAnsweredFor, has_provider, AnsweredFor
  <2>1. u # c /\ pc[u] = "Committing" /\ q = prov[u]
    BY <1>2, Zenon
  <2>2. q \in ProviderIds /\ registrant[q] \in Conns
    BY <2>1, SessionTypes, Zenon DEF ForProvider
  <2> QED
    BY <1>2, <1>3, <2>1, <2>2, Zenon DEF SessionInv, CommitAnsweredFor, has_provider
<1>10. RegisteringIsPrivate'
  <2>1. ASSUME NEW d \in Conns, pc'[d] = "Registering"
        PROVE  /\ providers'[prov'[d]] = "Live" /\ registrant'[prov'[d]] = d /\ routes'[prov'[d]] = None
               /\ \A u \in Threads : u # d => prov'[u] # prov'[d]
               /\ \A m \in PromiseIds : promiseOwner'[m] # prov'[d]
    <3>1. d \in Threads /\ d # c /\ pc[d] = "Registering" /\ prov'[d] = prov[d]
      BY <1>2, <2>1, SessionTypes, Zenon
    <3>2. prov[d] \in ProviderIds
      BY <3>1, SessionTypes, Zenon DEF ForProvider
    <3>3. /\ providers[prov[d]] = "Live" /\ registrant[prov[d]] = d /\ routes[prov[d]] = None
          /\ \A u \in Threads : u # d => prov[u] # prov[d]
          /\ \A m \in PromiseIds : promiseOwner[m] # prov[d]
      BY <3>1, Zenon DEF SessionInv, RegisteringIsPrivate, has_provider
    <3>4. prov[c] # prov[d] /\ c \in Threads
      BY <3>1, <3>3, SessionTypes, Zenon
    <3>5. /\ providers'[prov[d]] = "Live" /\ registrant'[prov[d]] = d /\ routes'[prov[d]] = None
      BY <1>2, <3>2, <3>3, <3>4, Zenon
    <3>6. \A u \in Threads : u # d => prov'[u] # prov[d]
      BY <1>2, <3>2, <3>3
    <3>7. \A m \in PromiseIds : promiseOwner'[m] # prov[d]
      BY <1>2, <3>3, <3>4, Zenon
    <3> QED BY <3>1, <3>5, <3>6, <3>7, Zenon
  <2> QED BY <2>1, Zenon DEF RegisteringIsPrivate, has_provider
<1>11. MarkedAfterDrop'
  <2> SUFFICES ASSUME NEW u \in Threads, pc'[u] = "MarkGone" PROVE routes'[prov'[u]] = None
    BY Zenon DEF MarkedAfterDrop
  <2>1. u # c /\ pc[u] = "MarkGone" /\ prov'[u] = prov[u] /\ prov[u] # prov[c] /\ prov[u] \in ProviderIds
    BY <1>a, <1>2, SessionTypes, Zenon DEF ForProvider, Disconnect
  <2> QED
    BY <1>2, <2>1, Zenon DEF SessionInv, MarkedAfterDrop
<1>12. GoneProviderLosesRoute'
  <2> SUFFICES ASSUME NEW q \in ProviderIds, routes'[q] # None, providers'[q] # "Live"
               PROVE  \E u \in Threads : prov'[u] = q /\ pc'[u] = "DropRoute"
    BY Zenon DEF GoneProviderLosesRoute, has_provider
  <2>1. routes[q] # None /\ providers[q] # "Live"
    BY <1>a, <1>2, Zenon
  <2>2. PICK u \in Threads : prov[u] = q /\ pc[u] = "DropRoute"
    BY <2>1, Zenon DEF SessionInv, GoneProviderLosesRoute, has_provider
  <2> QED
    BY <1>2, <2>2, Zenon
<1> QED
  BY <1>4, <1>5, <1>6, <1>7, <1>8, <1>9, <1>10, <1>11, <1>12, Zenon DEF SessionInv

\* ProviderUnregister ends the session before it drops the route.
LEMMA UnregisterStep ==
    ASSUME LocalsInv, SessionInv, NEW c \in Conns, UnregisterValidated(c)
    PROVE  SessionInv'
<1>1. /\ pc[c] = "Unregistering" /\ unregister_provider(prov[c]) /\ UNCHANGED <<routes, registrant, prov>>
      /\ registered' = [registered EXCEPT ![c] = @ \ {prov[c]}] /\ pc' = [pc EXCEPT ![c] = "DropRoute"]
  BY Zenon DEF UnregisterValidated, ipcVars
<1>2. /\ pc[c] = "Unregistering" /\ prov[c] \in ProviderIds
      /\ \A u \in Threads : pc'[u] = IF u = c THEN "DropRoute" ELSE pc[u]
      /\ \A q \in ProviderIds : providers'[q] = IF q = prov[c] THEN "Disconnected" ELSE providers[q]
      /\ \A m \in PromiseIds : promiseState'[m] =
            IF promiseOwner[m] = prov[c] /\ promiseState[m] = "Available" THEN "ProviderGone" ELSE promiseState[m]
      /\ \A d \in Conns : registered'[d] = IF d = c THEN registered[c] \ {prov[c]} ELSE registered[d]
      /\ promiseOwner' = promiseOwner /\ routes' = routes /\ registrant' = registrant /\ prov' = prov
  BY <1>1, SessionTypes, Zenon DEF ForProvider, unregister_provider
<1>3. ASSUME NEW q \in ProviderIds, registrant[q] \in Conns
      PROVE  /\ AnsweredFor(q, {"DropRoute"}) => AnsweredFor(q, {"DropRoute"})'
             /\ AnsweredFor(q, {"DropRoute", "MarkGone"}) => AnsweredFor(q, {"DropRoute", "MarkGone"})'
  <2>1. ASSUME NEW d \in Conns, registrant[q] = d, NEW places, "DropRoute" \in places, AnsweredFor(q, places)
        PROVE  AnsweredFor(q, places)'
    <3>1. d \in Threads /\ registrant'[q] = d /\ prov' = prov /\ prov[c] \in ProviderIds
      BY <1>2, <2>1, SessionTypes, Zenon
    <3>2. CASE q \in registered[d] /\ (d # c \/ q # prov[c])
      <4>1. q \in registered'[d]
        BY <1>2, <3>2, Zenon
      <4> QED BY <3>1, <4>1, Zenon DEF AnsweredFor
    <3>3. CASE d = c /\ q = prov[c]
      <4>1. pc'[d] \in places /\ prov'[d] = q
        BY <1>2, <2>1, <3>1, <3>3, Zenon
      <4> QED BY <3>1, <4>1, Zenon DEF AnsweredFor
    <3>4. CASE pc[d] \in places /\ prov[d] = q
      <4>1. pc'[d] \in places /\ prov'[d] = q
        BY <1>2, <2>1, <3>1, <3>4, Zenon
      <4> QED BY <3>1, <4>1, Zenon DEF AnsweredFor
    <3> QED BY <2>1, <3>2, <3>3, <3>4, Zenon DEF AnsweredFor
  <2> QED BY <1>3, <2>1, Zenon
<1>4. AvailableHasLiveProvider'
  BY <1>2, SessionTypes, Zenon DEF SessionInv, AvailableHasLiveProvider, has_provider
<1>5. GoneHasGoneProvider'
  BY <1>2, SessionTypes, Zenon DEF SessionInv, GoneHasGoneProvider
<1>6. RegisteredByConn'
  <2>1. ASSUME NEW d \in Conns
        PROVE  (\A q \in registered'[d] : registrant'[q] = d) /\ (pc'[d] = "Closed" => registered'[d] = {})
    <3>1. d \in Threads /\ registered'[d] \subseteq registered[d] /\ registrant' = registrant
      BY <1>2, SessionTypes, Zenon
    <3>2. pc'[d] = "Closed" => pc[d] = "Closed"
      BY <1>2, <3>1, Zenon
    <3>3. (\A q \in registered[d] : registrant[q] = d) /\ (pc[d] = "Closed" => registered[d] = {})
      BY Zenon DEF SessionInv, RegisteredByConn
    <3> QED BY <3>1, <3>2, <3>3, Zenon
  <2> QED BY <2>1, Zenon DEF RegisteredByConn
<1>7. RouteAnsweredFor'
  BY <1>2, <1>3, SessionTypes, Zenon DEF SessionInv, RouteAnsweredFor
<1>8. PromiseAnsweredFor'
  <2> SUFFICES ASSUME NEW m \in PromiseIds, NEW q, q = promiseOwner'[m], promiseState'[m] = "Available"
               PROVE  AnsweredFor(q, {"DropRoute", "MarkGone"})'
    BY Zenon DEF PromiseAnsweredFor, AnsweredFor
  <2> QED
    BY <1>2, <1>3, SessionTypes, Zenon DEF SessionInv, PromiseAnsweredFor, AvailableHasLiveProvider, has_provider
<1>9. CommitAnsweredFor'
  <2> SUFFICES ASSUME NEW u \in Threads, NEW q, q = prov'[u], pc'[u] = "Committing", providers'[q] = "Live"
               PROVE  AnsweredFor(q, {"DropRoute", "MarkGone"})'
    BY Zenon DEF CommitAnsweredFor, has_provider, AnsweredFor
  <2>1. pc[u] = "Committing" /\ q = prov[u]
    BY <1>2, Zenon
  <2>2. q \in ProviderIds /\ registrant[q] \in Conns /\ providers[q] = "Live"
    BY <1>2, <2>1, SessionTypes, Zenon DEF ForProvider
  <2> QED
    BY <1>3, <2>1, <2>2, Zenon DEF SessionInv, CommitAnsweredFor, has_provider
<1>10. RegisteringIsPrivate'
  <2> SUFFICES ASSUME NEW d \in Conns, pc'[d] = "Registering"
               PROVE  /\ providers'[prov[d]] = "Live" /\ registrant[prov[d]] = d /\ routes'[prov[d]] = None
                      /\ \A u \in Threads : u # d => prov[u] # prov[d]
                      /\ \A m \in PromiseIds : promiseOwner[m] # prov[d]
    BY <1>2 DEF RegisteringIsPrivate, has_provider
  <2>1. d # c /\ pc[d] = "Registering" /\ prov[d] \in ProviderIds
    BY <1>2, SessionTypes, Zenon DEF ForProvider
  <2>2. prov[d] # prov[c]
    BY <2>1, SessionTypes, Zenon DEF SessionInv, RegisteringIsPrivate
  <2> QED
    BY <1>2, <2>1, <2>2, ZenonT(60) DEF SessionInv, RegisteringIsPrivate, has_provider
<1>11. MarkedAfterDrop'
  BY <1>2, Zenon DEF SessionInv, MarkedAfterDrop
<1>12. GoneProviderLosesRoute'
  <2> SUFFICES ASSUME NEW q \in ProviderIds, routes'[q] # None, providers'[q] # "Live"
               PROVE  \E u \in Threads : prov'[u] = q /\ pc'[u] = "DropRoute"
    BY Zenon DEF GoneProviderLosesRoute, has_provider
  <2>1. CASE q = prov[c]
    BY <1>2, <2>1, SessionTypes, Zenon
  <2>2. CASE q # prov[c]
    <3>1. PICK u \in Threads : prov[u] = q /\ pc[u] = "DropRoute"
      BY <1>2, <2>2, ZenonT(60) DEF SessionInv, GoneProviderLosesRoute, has_provider
    <3> QED
      BY <1>2, <3>1, Zenon
  <2> QED BY <2>1, <2>2, Zenon
<1> QED
  BY <1>4, <1>5, <1>6, <1>7, <1>8, <1>9, <1>10, <1>11, <1>12, Zenon DEF SessionInv

\* commit_promise looks at the session again, under the lock it commits under.
LEMMA CommitStep ==
    ASSUME LocalsInv, SessionInv, NEW c \in Conns, CommitValidated(c)
    PROVE  SessionInv'
<1>1. /\ pc[c] = "Committing" /\ commit_promise(prov[c]) /\ UNCHANGED <<routes, registered, registrant>>
      /\ pc' = [pc EXCEPT ![c] = "Idle"] /\ prov' = [prov EXCEPT ![c] = 0]
  BY Zenon DEF CommitValidated, Return, ipcVars, connVars
<1>a. nextPromise \in PromiseIds
  BY <1>1, RuntimeBounds DEF commit_promise, PromiseIds, LocalsInv, RuntimeTypeOK
<1>2. /\ pc[c] = "Committing" /\ prov[c] \in ProviderIds /\ providers[prov[c]] = "Live" /\ registrant[prov[c]] \in Conns
      /\ 0 \notin ProviderIds
      /\ \A u \in Threads : /\ pc'[u] = IF u = c THEN "Idle" ELSE pc[u]
                            /\ prov'[u] = IF u = c THEN 0 ELSE prov[u]
      /\ \A m \in PromiseIds : /\ promiseState'[m] = IF m = nextPromise THEN "Available" ELSE promiseState[m]
                               /\ promiseOwner'[m] = IF m = nextPromise THEN prov[c] ELSE promiseOwner[m]
      /\ providers' = providers /\ routes' = routes /\ registered' = registered /\ registrant' = registrant
  BY <1>1, <1>a, SessionTypes, RuntimeBounds DEF ForProvider, commit_promise, has_provider, ProviderIds
<1>3. ASSUME NEW q \in ProviderIds, registrant[q] \in Conns
      PROVE  /\ AnsweredFor(q, {"DropRoute"}) => AnsweredFor(q, {"DropRoute"})'
             /\ AnsweredFor(q, {"DropRoute", "MarkGone"}) => AnsweredFor(q, {"DropRoute", "MarkGone"})'
  BY <1>2, <1>3, SessionTypes, Zenon DEF AnsweredFor
<1>4. AvailableHasLiveProvider'
  BY <1>2, SessionTypes, Zenon DEF SessionInv, AvailableHasLiveProvider, has_provider
<1>5. GoneHasGoneProvider'
  BY <1>2, SessionTypes, Zenon DEF SessionInv, GoneHasGoneProvider
<1>6. RegisteredByConn'
  <2>1. ASSUME NEW d \in Conns
        PROVE  (\A q \in registered'[d] : registrant'[q] = d) /\ (pc'[d] = "Closed" => registered'[d] = {})
    <3>1. d \in Threads /\ registered'[d] \subseteq registered[d] /\ registrant' = registrant
      BY <1>2, SessionTypes, Zenon
    <3>2. pc'[d] = "Closed" => pc[d] = "Closed"
      BY <1>2, <3>1, Zenon
    <3>3. (\A q \in registered[d] : registrant[q] = d) /\ (pc[d] = "Closed" => registered[d] = {})
      BY Zenon DEF SessionInv, RegisteredByConn
    <3> QED BY <3>1, <3>2, <3>3, Zenon
  <2> QED BY <2>1, Zenon DEF RegisteredByConn
<1>7. RouteAnsweredFor'
  BY <1>2, <1>3, SessionTypes, Zenon DEF SessionInv, RouteAnsweredFor
<1>8. PromiseAnsweredFor'
  <2> SUFFICES ASSUME NEW m \in PromiseIds, NEW q, q = promiseOwner'[m], promiseState'[m] = "Available"
               PROVE  AnsweredFor(q, {"DropRoute", "MarkGone"})'
    BY Zenon DEF PromiseAnsweredFor, AnsweredFor
  <2>1. CASE m = nextPromise
    BY <1>2, <1>3, <2>1, SessionTypes, Zenon DEF SessionInv, CommitAnsweredFor, has_provider
  <2>2. CASE m # nextPromise
    BY <1>2, <1>3, <2>2, SessionTypes, Zenon
    DEF SessionInv, PromiseAnsweredFor, AvailableHasLiveProvider, has_provider
  <2> QED BY <2>1, <2>2, Zenon
<1>9. CommitAnsweredFor'
  <2> SUFFICES ASSUME NEW u \in Threads, NEW q, q = prov'[u], pc'[u] = "Committing", providers'[q] = "Live"
               PROVE  AnsweredFor(q, {"DropRoute", "MarkGone"})'
    BY Zenon DEF CommitAnsweredFor, has_provider, AnsweredFor
  <2>1. pc[u] = "Committing" /\ q = prov[u]
    BY <1>2, Zenon
  <2>2. q \in ProviderIds /\ registrant[q] \in Conns
    BY <2>1, SessionTypes, Zenon DEF ForProvider
  <2> QED
    BY <1>2, <1>3, <2>1, <2>2, Zenon DEF SessionInv, CommitAnsweredFor, has_provider
<1>10. RegisteringIsPrivate'
  <2>1. ASSUME NEW d \in Conns, pc'[d] = "Registering"
        PROVE  /\ providers'[prov'[d]] = "Live" /\ registrant'[prov'[d]] = d /\ routes'[prov'[d]] = None
               /\ \A u \in Threads : u # d => prov'[u] # prov'[d]
               /\ \A m \in PromiseIds : promiseOwner'[m] # prov'[d]
    <3>1. d \in Threads /\ d # c /\ pc[d] = "Registering" /\ prov'[d] = prov[d]
      BY <1>2, <2>1, SessionTypes, Zenon
    <3>2. prov[d] \in ProviderIds
      BY <3>1, SessionTypes, Zenon DEF ForProvider
    <3>3. /\ providers[prov[d]] = "Live" /\ registrant[prov[d]] = d /\ routes[prov[d]] = None
          /\ \A u \in Threads : u # d => prov[u] # prov[d]
          /\ \A m \in PromiseIds : promiseOwner[m] # prov[d]
      BY <3>1, Zenon DEF SessionInv, RegisteringIsPrivate, has_provider
    <3>4. prov[c] # prov[d] /\ c \in Threads
      BY <3>1, <3>3, SessionTypes, Zenon
    <3>5. /\ providers'[prov[d]] = "Live" /\ registrant'[prov[d]] = d /\ routes'[prov[d]] = None
      BY <1>2, <3>2, <3>3, <3>4, Zenon
    <3>6. \A u \in Threads : u # d => prov'[u] # prov[d]
      BY <1>2, <3>2, <3>3, ZenonT(60)
    <3>7. \A m \in PromiseIds : promiseOwner'[m] # prov[d]
      BY <1>2, <3>3, <3>4, Zenon
    <3> QED BY <3>1, <3>5, <3>6, <3>7, Zenon
  <2> QED BY <2>1, Zenon DEF RegisteringIsPrivate, has_provider
<1>11. MarkedAfterDrop'
  BY <1>2, Zenon DEF SessionInv, MarkedAfterDrop
<1>12. GoneProviderLosesRoute'
  <2> SUFFICES ASSUME NEW q \in ProviderIds, routes'[q] # None, providers'[q] # "Live"
               PROVE  \E u \in Threads : prov'[u] = q /\ pc'[u] = "DropRoute"
    BY Zenon DEF GoneProviderLosesRoute, has_provider
  <2>1. PICK u \in Threads : prov[u] = q /\ pc[u] = "DropRoute"
    BY <1>2, Zenon DEF SessionInv, GoneProviderLosesRoute, has_provider
  <2> QED
    BY <1>2, <2>1, Zenon
<1> QED
  BY <1>4, <1>5, <1>6, <1>7, <1>8, <1>9, <1>10, <1>11, <1>12, Zenon DEF SessionInv

\* A handler thread that ends takes the next provider off its list.
LEMMA DisconnectRegisteredStep ==
    ASSUME LocalsInv, SessionInv, NEW c \in Conns, disconnect_registered_providers(c)
    PROVE  SessionInv'
<1>1. PICK p \in registered[c] : /\ registered' = [registered EXCEPT ![c] = @ \ {p}]
                                 /\ prov' = [prov EXCEPT ![c] = p]
  BY Zenon DEF disconnect_registered_providers
<1>a. /\ pc[c] = "Closing" /\ UNCHANGED <<runtimeVars, routes, registrant>> /\ pc' = [pc EXCEPT ![c] = "DropRoute"]
  BY Zenon DEF disconnect_registered_providers, ipcVars
<1>2. /\ pc[c] = "Closing" /\ p \in ProviderIds /\ registrant[p] = c
      /\ \A u \in Threads : /\ pc'[u] = IF u = c THEN "DropRoute" ELSE pc[u]
                            /\ prov'[u] = IF u = c THEN p ELSE prov[u]
      /\ \A d \in Conns : registered'[d] = IF d = c THEN registered[c] \ {p} ELSE registered[d]
      /\ providers' = providers /\ promiseState' = promiseState /\ promiseOwner' = promiseOwner
      /\ routes' = routes /\ registrant' = registrant
  BY <1>1, <1>a, SessionTypes, Zenon DEF runtimeVars, SessionInv, RegisteredByConn
<1>3. ASSUME NEW q \in ProviderIds, registrant[q] \in Conns
      PROVE  /\ AnsweredFor(q, {"DropRoute"}) => AnsweredFor(q, {"DropRoute"})'
             /\ AnsweredFor(q, {"DropRoute", "MarkGone"}) => AnsweredFor(q, {"DropRoute", "MarkGone"})'
  BY <1>2, <1>3, SessionTypes, Zenon DEF AnsweredFor
<1>4. AvailableHasLiveProvider'
  BY <1>2, SessionTypes, Zenon DEF SessionInv, AvailableHasLiveProvider, has_provider
<1>5. GoneHasGoneProvider'
  BY <1>2, SessionTypes, Zenon DEF SessionInv, GoneHasGoneProvider
<1>6. RegisteredByConn'
  <2>1. ASSUME NEW d \in Conns
        PROVE  (\A q \in registered'[d] : registrant'[q] = d) /\ (pc'[d] = "Closed" => registered'[d] = {})
    <3>1. d \in Threads /\ registered'[d] \subseteq registered[d] /\ registrant' = registrant
      BY <1>2, SessionTypes, Zenon
    <3>2. pc'[d] = "Closed" => pc[d] = "Closed"
      BY <1>2, <3>1, Zenon
    <3>3. (\A q \in registered[d] : registrant[q] = d) /\ (pc[d] = "Closed" => registered[d] = {})
      BY Zenon DEF SessionInv, RegisteredByConn
    <3> QED BY <3>1, <3>2, <3>3, Zenon
  <2> QED BY <2>1, Zenon DEF RegisteredByConn
<1>7. RouteAnsweredFor'
  BY <1>2, <1>3, SessionTypes, Zenon DEF SessionInv, RouteAnsweredFor
<1>8. PromiseAnsweredFor'
  <2> SUFFICES ASSUME NEW m \in PromiseIds, NEW q, q = promiseOwner'[m], promiseState'[m] = "Available"
               PROVE  AnsweredFor(q, {"DropRoute", "MarkGone"})'
    BY Zenon DEF PromiseAnsweredFor, AnsweredFor
  <2> QED
    BY <1>2, <1>3, SessionTypes, Zenon DEF SessionInv, PromiseAnsweredFor, AvailableHasLiveProvider, has_provider
<1>9. CommitAnsweredFor'
  <2> SUFFICES ASSUME NEW u \in Threads, NEW q, q = prov'[u], pc'[u] = "Committing", providers'[q] = "Live"
               PROVE  AnsweredFor(q, {"DropRoute", "MarkGone"})'
    BY Zenon DEF CommitAnsweredFor, has_provider, AnsweredFor
  <2>1. pc[u] = "Committing" /\ q = prov[u]
    BY <1>2, Zenon
  <2>2. q \in ProviderIds /\ registrant[q] \in Conns
    BY <2>1, SessionTypes, Zenon DEF ForProvider
  <2> QED
    BY <1>2, <1>3, <2>1, <2>2, Zenon DEF SessionInv, CommitAnsweredFor, has_provider
<1>10. RegisteringIsPrivate'
  <2>1. ASSUME NEW d \in Conns, pc'[d] = "Registering"
        PROVE  /\ providers'[prov'[d]] = "Live" /\ registrant'[prov'[d]] = d /\ routes'[prov'[d]] = None
               /\ \A u \in Threads : u # d => prov'[u] # prov'[d]
               /\ \A m \in PromiseIds : promiseOwner'[m] # prov'[d]
    <3>1. d \in Threads /\ d # c /\ pc[d] = "Registering" /\ prov'[d] = prov[d]
      BY <1>2, <2>1, SessionTypes, Zenon
    <3>2. prov[d] \in ProviderIds
      BY <3>1, SessionTypes, Zenon DEF ForProvider
    <3>3. /\ providers[prov[d]] = "Live" /\ registrant[prov[d]] = d /\ routes[prov[d]] = None
          /\ \A u \in Threads : u # d => prov[u] # prov[d]
          /\ \A m \in PromiseIds : promiseOwner[m] # prov[d]
      BY <3>1, Zenon DEF SessionInv, RegisteringIsPrivate, has_provider
    <3>4. p # prov[d]
      BY <1>2, <3>1, <3>3, Zenon
    <3>5. /\ providers'[prov[d]] = "Live" /\ registrant'[prov[d]] = d /\ routes'[prov[d]] = None
      BY <1>2, <3>3, Zenon
    <3>6. \A u \in Threads : u # d => prov'[u] # prov[d]
      BY <1>2, <3>3, <3>4, Zenon
    <3>7. \A m \in PromiseIds : promiseOwner'[m] # prov[d]
      BY <1>2, <3>3, Zenon
    <3> QED BY <3>1, <3>5, <3>6, <3>7, Zenon
  <2> QED BY <2>1, Zenon DEF RegisteringIsPrivate, has_provider
<1>11. MarkedAfterDrop'
  BY <1>2, ZenonT(60) DEF SessionInv, MarkedAfterDrop
<1>12. GoneProviderLosesRoute'
  <2> SUFFICES ASSUME NEW q \in ProviderIds, routes'[q] # None, providers'[q] # "Live"
               PROVE  \E u \in Threads : prov'[u] = q /\ pc'[u] = "DropRoute"
    BY Zenon DEF GoneProviderLosesRoute, has_provider
  <2>1. PICK u \in Threads : prov[u] = q /\ pc[u] = "DropRoute"
    BY <1>2, Zenon DEF SessionInv, GoneProviderLosesRoute, has_provider
  <2> QED
    BY <1>2, <2>1, Zenon
<1> QED
  BY <1>4, <1>5, <1>6, <1>7, <1>8, <1>9, <1>10, <1>11, <1>12, Zenon DEF SessionInv

\* Every step keeps sessions, routes and promises answered for.
LEMMA SessionStep == LocalsInv /\ SessionInv /\ [Next]_vars => SessionInv'
<1> SUFFICES ASSUME LocalsInv, SessionInv, [Next]_vars PROVE SessionInv'
  BY Zenon
<1>a. Readers \subseteq Threads /\ Conns \subseteq Threads
  BY SessionTypes, Zenon
<1>b. ASSUME NEW t \in Threads PROVE pc = [pc EXCEPT ![t] = pc[t]] /\ prov = [prov EXCEPT ![t] = prov[t]]
  BY SessionTypes, Zenon
<1>c. ASSUME NEW t \in Threads, NEW c \in Conns, c # t, pc[c] = "Registering" PROVE prov[c] # prov[t] /\ prov[c] # 0
  <2>1. prov[c] \in ProviderIds /\ 0 \notin ProviderIds
    BY <1>c, SessionTypes, RuntimeBounds DEF ForProvider, ProviderIds
  <2> QED
    BY <1>c, <2>1, Zenon DEF SessionInv, RegisteringIsPrivate
<1>d. ASSUME NEW t \in Threads, NEW place, NEW p \in {0, prov[t]}, UNCHANGED runtimeVars,
             UNCHANGED <<routes, registered, registrant>>,
             pc' = [pc EXCEPT ![t] = place], prov' = [prov EXCEPT ![t] = p],
             pc[t] \notin {"DropRoute", "MarkGone"}, place \notin {"MarkGone", "Registering", "Committing"},
             place = "Closed" => registered[t] = {}
      PROVE  SessionInv'
  <2>1. Quiet(t, place, p)
    BY <1>c, <1>d, Zenon DEF Quiet
  <2> QED
    BY <2>1, QuietMove, Zenon
<1>e. ASSUME NEW p \in ProviderIds, routes[p] # None
      PROVE  /\ registrant[p] \in Conns /\ AnsweredFor(p, {"DropRoute", "MarkGone"})
             /\ \A c \in Conns : pc[c] = "Registering" => prov[c] # p
  BY <1>e, SessionTypes DEF SessionInv, RouteAnsweredFor, AnsweredFor, RegisteringIsPrivate
<1>0. ASSUME UNCHANGED <<runtimeVars, routes, registered, registrant, pc, prov>> PROVE SessionInv'
  <2>1. AvailableHasLiveProvider' /\ GoneHasGoneProvider' /\ RegisteredByConn'
    BY <1>0, Zenon DEF runtimeVars, SessionInv, AvailableHasLiveProvider, GoneHasGoneProvider, RegisteredByConn, has_provider
  <2>2. RouteAnsweredFor' /\ PromiseAnsweredFor'
    BY <1>0, Zenon DEF runtimeVars, SessionInv, RouteAnsweredFor, PromiseAnsweredFor, AnsweredFor
  <2>3. CommitAnsweredFor'
    BY <1>0, Zenon DEF runtimeVars, SessionInv, CommitAnsweredFor, AnsweredFor, has_provider
  <2>4. RegisteringIsPrivate'
    BY <1>0, Zenon DEF runtimeVars, SessionInv, RegisteringIsPrivate, has_provider
  <2>5. MarkedAfterDrop' /\ GoneProviderLosesRoute'
    BY <1>0, Zenon DEF runtimeVars, SessionInv, MarkedAfterDrop, GoneProviderLosesRoute, has_provider
  <2> QED BY <2>1, <2>2, <2>3, <2>4, <2>5, Zenon DEF SessionInv
<1>1. ASSUME NEW t \in Readers, NEW m \in PromiseIds, BeginRead(t, m) PROVE SessionInv'
  <2>1. /\ pc[t] = "Idle" /\ promiseState[m] = "Available" /\ UNCHANGED <<runtimeVars, routes, registered, registrant>>
        /\ pc' = [pc EXCEPT ![t] = "Planned"] /\ prov' = [prov EXCEPT ![t] = promiseOwner[m]]
    BY <1>1, Zenon DEF BeginRead, plan_provider_read, connVars
  <2>2. \A c \in Conns : pc[c] = "Registering" => prov[c] # promiseOwner[m]
    BY Zenon DEF SessionInv, RegisteringIsPrivate
  <2>3. Quiet(t, "Planned", promiseOwner[m])
    BY <2>1, <2>2, Zenon DEF Quiet
  <2> QED
    BY <1>1, <1>a, <2>3, QuietMove, Zenon
<1>2. ASSUME NEW t \in Readers, CloneRoute(t) PROVE SessionInv'
  <2>1. /\ pc[t] = "Planned" /\ UNCHANGED <<runtimeVars, routes, registered, registrant>>
        /\ pc' = [pc EXCEPT ![t] = "Routed"] /\ prov' = [prov EXCEPT ![t] = prov[t]]
    BY <1>2, <1>a, <1>b, Zenon DEF CloneRoute, ipcVars, connVars
  <2> QED
    BY <1>2, <1>a, <1>d, <2>1, Zenon
<1>3. ASSUME NEW t \in Readers, RouteMissing(t) PROVE SessionInv'
  <2>1. /\ pc[t] = "Planned" /\ UNCHANGED <<runtimeVars, routes, registered, registrant>>
        /\ pc' = [pc EXCEPT ![t] = "Idle"] /\ prov' = [prov EXCEPT ![t] = 0]
    BY <1>3, <1>a, <1>b, Zenon DEF RouteMissing, Return, ipcVars, connVars
  <2> QED
    BY <1>3, <1>a, <1>d, <2>1, Zenon
<1>4. ASSUME NEW t \in Readers, InsertPending(t) PROVE SessionInv'
  <2>1. /\ pc[t] = "Routed" /\ UNCHANGED <<runtimeVars, routes, registered, registrant>>
    BY <1>4, Zenon DEF InsertPending, connVars
  <2>2. \/ pc' = [pc EXCEPT ![t] = "Inserted"] /\ prov' = [prov EXCEPT ![t] = prov[t]]
        \/ pc' = [pc EXCEPT ![t] = "Idle"] /\ prov' = [prov EXCEPT ![t] = 0]
    BY <1>4, <1>a, <1>b, Zenon DEF InsertPending, Return
  <2> QED
    BY <1>4, <1>a, <1>d, <2>1, <2>2, Zenon
<1>5. ASSUME NEW t \in Readers, WriteRequest(t) PROVE SessionInv'
  <2>1. /\ pc[t] = "Inserted" /\ UNCHANGED <<runtimeVars, routes, registered, registrant>>
        /\ pc' = [pc EXCEPT ![t] = "Waiting"] /\ prov' = [prov EXCEPT ![t] = prov[t]]
    BY <1>5, <1>a, <1>b, Zenon DEF WriteRequest, ipcVars, connVars
  <2> QED
    BY <1>5, <1>a, <1>d, <2>1, Zenon
<1>6. ASSUME NEW t \in Readers, WriteFails(t) PROVE SessionInv'
  <2>1. /\ pc[t] = "Inserted" /\ UNCHANGED <<runtimeVars, routes, registered, registrant>>
        /\ pc' = [pc EXCEPT ![t] = "WriteFailed"] /\ prov' = [prov EXCEPT ![t] = prov[t]]
    BY <1>6, <1>a, <1>b, Zenon DEF WriteFails, ipcVars, connVars
  <2> QED
    BY <1>6, <1>a, <1>d, <2>1, Zenon
<1>7. ASSUME NEW t \in Readers, Receive(t) PROVE SessionInv'
  <2>1. /\ pc[t] = "Waiting" /\ UNCHANGED <<runtimeVars, routes, registered, registrant>>
        /\ pc' = [pc EXCEPT ![t] = "Idle"] /\ prov' = [prov EXCEPT ![t] = 0]
    BY <1>7, <1>a, <1>b, Zenon DEF Receive, Return, ipcVars, connVars
  <2> QED
    BY <1>7, <1>a, <1>d, <2>1, Zenon
<1>8. ASSUME NEW t \in Readers, Timeout(t) PROVE SessionInv'
  <2>1. /\ pc[t] = "Waiting" /\ UNCHANGED <<runtimeVars, routes, registered, registrant>>
        /\ pc' = [pc EXCEPT ![t] = "TimedOut"] /\ prov' = [prov EXCEPT ![t] = prov[t]]
    BY <1>8, <1>a, <1>b, Zenon DEF Timeout, ipcVars, connVars
  <2> QED
    BY <1>8, <1>a, <1>d, <2>1, Zenon
<1>9. ASSUME NEW t \in Readers, RemoveTimedOut(t) PROVE SessionInv'
  <2>1. /\ pc[t] = "TimedOut" /\ UNCHANGED <<runtimeVars, routes, registered, registrant>>
        /\ pc' = [pc EXCEPT ![t] = "Idle"] /\ prov' = [prov EXCEPT ![t] = 0]
    BY <1>9, <1>a, <1>b, Zenon DEF RemoveTimedOut, Return, ipcVars, connVars
  <2> QED
    BY <1>9, <1>a, <1>d, <2>1, Zenon
<1>10. ASSUME NEW t \in Readers, RemoveUnwritten(t) PROVE SessionInv'
  <2>1. /\ pc[t] = "WriteFailed" /\ UNCHANGED <<runtimeVars, routes, registered, registrant>>
        /\ pc' = [pc EXCEPT ![t] = "DropRoute"] /\ prov' = [prov EXCEPT ![t] = prov[t]]
    BY <1>10, <1>a, <1>b, Zenon DEF RemoveUnwritten, ipcVars, connVars
  <2> QED
    BY <1>10, <1>a, <1>d, <2>1, Zenon
<1>11. ASSUME NEW t \in Threads, DropRoute(t) PROVE SessionInv'
  BY <1>11, DropRouteStep, Zenon
<1>12. ASSUME NEW t \in Threads, MarkGone(t) PROVE SessionInv'
  BY <1>12, MarkGoneStep, Zenon
<1>13. ASSUME NEW t \in Threads, fail_provider_pending_reads(t) PROVE SessionInv'
  <2>1. /\ pc[t] = "FailPending" /\ UNCHANGED <<runtimeVars, routes, registered, registrant>>
        /\ pc' = [pc EXCEPT ![t] = "SendFailures"] /\ prov' = [prov EXCEPT ![t] = prov[t]]
    BY <1>13, <1>a, <1>b, Zenon DEF fail_provider_pending_reads, ipcVars, connVars
  <2> QED
    BY <1>13, <1>a, <1>d, <2>1, Zenon
<1>14. ASSUME NEW t \in Threads, SendFailure(t) PROVE SessionInv'
  <2>1. /\ pc[t] = "SendFailures" /\ UNCHANGED <<runtimeVars, routes, registered, registrant>>
        /\ pc' = [pc EXCEPT ![t] = "SendFailures"] /\ prov' = [prov EXCEPT ![t] = prov[t]]
    BY <1>14, <1>a, <1>b, Zenon DEF SendFailure, ipcVars, connVars
  <2> QED
    BY <1>14, <1>a, <1>d, <2>1, Zenon
<1>15. ASSUME NEW t \in Threads, DisconnectedClosing(t) PROVE SessionInv'
  <2>1. /\ pc[t] = "SendFailures" /\ UNCHANGED <<runtimeVars, routes, registered, registrant>>
        /\ pc' = [pc EXCEPT ![t] = "Closing"] /\ prov' = [prov EXCEPT ![t] = 0]
    BY <1>15, <1>a, <1>b, Zenon DEF DisconnectedClosing, EndLoop, ipcVars, connVars
  <2> QED
    BY <1>15, <1>a, <1>d, <2>1, Zenon
<1>16. ASSUME NEW t \in Threads, Disconnected(t) PROVE SessionInv'
  <2>1. /\ pc[t] = "SendFailures" /\ UNCHANGED <<runtimeVars, routes, registered, registrant>>
        /\ pc' = [pc EXCEPT ![t] = "Idle"] /\ prov' = [prov EXCEPT ![t] = 0]
    BY <1>16, <1>a, <1>b, Zenon DEF Disconnected, Return, ipcVars, connVars
  <2> QED
    BY <1>16, <1>a, <1>d, <2>1, Zenon
<1>17. ASSUME NEW c \in Conns, ProviderRegister(c) PROVE SessionInv'
  BY <1>17, ProviderRegisterStep, Zenon
<1>18. ASSUME NEW c \in Conns, NEW p \in ProviderIds, ProviderUnregister(c, p) PROVE SessionInv'
  <2>1. /\ pc[c] = "Idle" /\ routes[p] # None /\ UNCHANGED <<runtimeVars, routes, registered, registrant>>
        /\ pc' = [pc EXCEPT ![c] = "Unregistering"] /\ prov' = [prov EXCEPT ![c] = p]
    BY <1>18, Zenon DEF ProviderUnregister, validate_provider_owner, ipcVars, connVars
  <2>2. Quiet(c, "Unregistering", p)
    BY <1>18, <1>e, <2>1, Zenon DEF Quiet
  <2> QED
    BY <1>18, <1>a, <2>2, QuietMove, Zenon
<1>19. ASSUME NEW c \in Conns, NEW p \in ProviderIds, PromiseCommit(c, p) PROVE SessionInv'
  <2>1. /\ pc[c] = "Idle" /\ routes[p] # None /\ UNCHANGED <<runtimeVars, routes, registered, registrant>>
        /\ pc' = [pc EXCEPT ![c] = "Committing"] /\ prov' = [prov EXCEPT ![c] = p]
    BY <1>19, Zenon DEF PromiseCommit, validate_provider_owner, ipcVars, connVars
  <2>2. Quiet(c, "Committing", p)
    BY <1>19, <1>e, <2>1, Zenon DEF Quiet
  <2> QED
    BY <1>19, <1>a, <2>2, QuietMove, Zenon
<1>20. ASSUME NEW c \in Conns, NEW r \in RequestIds, ProviderReadResponse(c, r) PROVE SessionInv'
  <2>1. /\ pc[c] = "Idle" /\ UNCHANGED <<runtimeVars, routes, registered, registrant>>
        /\ pc' = [pc EXCEPT ![c] = "Sending"] /\ prov' = [prov EXCEPT ![c] = prov[c]]
    BY <1>20, <1>a, <1>b, Zenon DEF ProviderReadResponse, ipcVars, connVars
  <2> QED
    BY <1>20, <1>a, <1>d, <2>1, Zenon
<1>21. ASSUME NEW c \in Conns, NEW r \in RequestIds, UnmatchedResponse(c, r) PROVE SessionInv'
  <2>1. /\ pc[c] = "Idle" /\ UNCHANGED <<runtimeVars, routes, registered, registrant>>
        /\ pc' = [pc EXCEPT ![c] = "Closing"] /\ prov' = [prov EXCEPT ![c] = 0]
    BY <1>21, <1>a, <1>b, Zenon DEF UnmatchedResponse, EndLoop, ipcVars, connVars
  <2> QED
    BY <1>21, <1>a, <1>d, <2>1, Zenon
<1>22. ASSUME NEW c \in Conns, register_provider_route(c) PROVE SessionInv'
  BY <1>22, RegisterRouteStep, Zenon
<1>23. ASSUME NEW c \in Conns, RegisterFails(c) PROVE SessionInv'
  <2>1. /\ pc[c] = "Registering" /\ UNCHANGED <<runtimeVars, routes, registered, registrant>>
        /\ pc' = [pc EXCEPT ![c] = "Closing"] /\ prov' = [prov EXCEPT ![c] = 0]
    BY <1>23, <1>a, <1>b, Zenon DEF RegisterFails, EndLoop, ipcVars, connVars
  <2> QED
    BY <1>23, <1>a, <1>d, <2>1, Zenon
<1>24. ASSUME NEW c \in Conns, UnregisterValidated(c) PROVE SessionInv'
  BY <1>24, UnregisterStep, Zenon
<1>25. ASSUME NEW c \in Conns, CommitValidated(c) PROVE SessionInv'
  BY <1>25, CommitStep, Zenon
<1>26. ASSUME NEW c \in Conns, CommitRefused(c) PROVE SessionInv'
  <2>1. /\ pc[c] = "Committing" /\ UNCHANGED <<runtimeVars, routes, registered, registrant>>
        /\ pc' = [pc EXCEPT ![c] = "Idle"] /\ prov' = [prov EXCEPT ![c] = 0]
    BY <1>26, <1>a, <1>b, Zenon DEF CommitRefused, Return, ipcVars, connVars
  <2> QED
    BY <1>26, <1>a, <1>d, <2>1, Zenon
<1>27. ASSUME NEW c \in Conns, SendResult(c) PROVE SessionInv'
  <2>1. /\ pc[c] = "Sending" /\ UNCHANGED <<runtimeVars, routes, registered, registrant>>
        /\ pc' = [pc EXCEPT ![c] = "Idle"] /\ prov' = [prov EXCEPT ![c] = prov[c]]
    BY <1>27, <1>a, <1>b, Zenon DEF SendResult, ipcVars, connVars
  <2> QED
    BY <1>27, <1>a, <1>d, <2>1, Zenon
<1>28. ASSUME NEW c \in Conns, disconnect_registered_providers(c) PROVE SessionInv'
  BY <1>28, DisconnectRegisteredStep, Zenon
<1>29. ASSUME NEW c \in Conns, HandlerEnds(c) PROVE SessionInv'
  <2>1. /\ pc[c] = "Closing" /\ registered[c] = {} /\ UNCHANGED <<runtimeVars, routes, registered, registrant>>
        /\ pc' = [pc EXCEPT ![c] = "Closed"] /\ prov' = [prov EXCEPT ![c] = prov[c]]
    BY <1>29, <1>a, <1>b, Zenon DEF HandlerEnds, ipcVars, connVars
  <2> QED
    BY <1>29, <1>a, <1>d, <2>1, Zenon
<1>30. ASSUME NEW c \in Conns, EndOfRequests(c) PROVE SessionInv'
  <2>1. /\ pc[c] = "Idle" /\ UNCHANGED <<runtimeVars, routes, registered, registrant>>
        /\ pc' = [pc EXCEPT ![c] = "Closing"] /\ prov' = [prov EXCEPT ![c] = 0]
    BY <1>30, <1>a, <1>b, Zenon DEF EndOfRequests, EndLoop, ipcVars, connVars
  <2> QED
    BY <1>30, <1>a, <1>d, <2>1, Zenon
<1>31. ASSUME NEW c \in Conns, PeerClose(c) PROVE SessionInv'
  <2>1. UNCHANGED <<runtimeVars, routes, registered, registrant, pc, prov>>
    BY <1>31, Zenon DEF PeerClose, ipcVars, threadVars
  <2> QED
    BY <1>0, <2>1, Zenon
<1>32. CASE UNCHANGED vars
  <2>1. UNCHANGED <<runtimeVars, routes, registered, registrant, pc, prov>>
    BY <1>32, Zenon DEF vars, ipcVars, connVars, threadVars
  <2> QED
    BY <1>0, <2>1, Zenon
<1> QED
  BY <1>1, <1>2, <1>3, <1>4, <1>5, <1>6, <1>7, <1>8, <1>9, <1>10, <1>11, <1>12, <1>13, <1>14, <1>15, <1>16, <1>17, <1>18, <1>19, <1>20, <1>21, <1>22, <1>23, <1>24, <1>25, <1>26, <1>27, <1>28, <1>29, <1>30, <1>31, <1>32, Zenon
  DEF Next, ReadStep, DisconnectStep, Request, HandlerStep, AwaitClients

\* The session invariants hold in every reachable state.
THEOREM SessionTheorem == Spec => []SessionInv
<1>1. Init => LocalsInv /\ SessionInv
  BY LocalsInit, SessionInit, Zenon
<1>2. LocalsInv /\ SessionInv /\ [Next]_vars => (LocalsInv /\ SessionInv)'
  BY LocalsStep, SessionStep, Zenon
<1> QED
  BY <1>1, <1>2, PTL DEF Spec

\* An available promise has a live owner, however a commit and a disconnect of
\* its provider interleave (commit_promise, unregister_provider).
THEOREM AvailablePromiseTheorem == Spec => []AvailableHasLiveProvider
<1>1. SessionInv => AvailableHasLiveProvider
  BY Zenon DEF SessionInv
<1> QED
  BY <1>1, SessionTheorem, PTL

\* A session that is over keeps its route only while a thread is about to drop
\* it (disconnect_provider_id).
THEOREM RouteTheorem == Spec => []GoneProviderLosesRoute
<1>1. SessionInv => GoneProviderLosesRoute
  BY Zenon DEF SessionInv
<1> QED
  BY <1>1, SessionTheorem, PTL

\* An ended connection leaves no route and no available promise behind
\* (disconnect_registered_providers).
THEOREM ClosedConnectionTheorem == Spec => []ClosedConnectionServesNothing
<1>1. LocalsInv /\ SessionInv => ClosedConnectionServesNothing
  <2> SUFFICES ASSUME LocalsInv, SessionInv, NEW p \in ProviderIds, registrant[p] # None, pc[registrant[p]] = "Closed"
               PROVE  /\ routes[p] = None
                      /\ \A m \in PromiseIds : promiseOwner[m] = p => promiseState[m] # "Available"
    BY Zenon DEF ClosedConnectionServesNothing
  <2>1. registrant[p] \in Conns
    BY SessionTypes, Zenon
  <2>2. ~AnsweredFor(p, {"DropRoute"}) /\ ~AnsweredFor(p, {"DropRoute", "MarkGone"})
    BY <2>1, Zenon DEF SessionInv, RegisteredByConn, AnsweredFor
  <2> QED
    BY <2>2, Zenon DEF SessionInv, RouteAnsweredFor, PromiseAnsweredFor
<1> QED
  BY <1>1, LocalsTheorem, SessionTheorem, PTL

-----------------------------------------------------------------------------
(* Reads: pending_reads and the channels *)


\* A read's channel is empty until its entry is in the map.
EmptyBeforeInsert ==
    \A t \in Readers : pc[t] \in BeforeInsert => reply[t] = None

\* Who holds results to send, and how many.
OutboxOfPlace ==
    \A u \in Threads :
        /\ pc[u] \notin {"Sending", "SendFailures"} => outbox[u] = {}
        /\ pc[u] = "Sending" => \E msg \in outbox[u] : outbox[u] = {msg}

\* A result to be sent is for a request whose entry is gone, and whose reader
\* is the one it is addressed to, past the insertion of the entry.
OutboxIsOwed ==
    \A u \in Threads : \A msg \in outbox[u] :
        /\ msg.reply.req < nextRequest
        /\ pending[msg.reply.req] = None
        /\ \A t \in Threads : req[t] = msg.reply.req => t = msg.to /\ pc[t] \notin BeforeInsert
        /\ (msg.reply.kind = "Response" /\ req[msg.to] = msg.reply.req) =>
              msg.reply.from = registrant[prov[msg.to]]

\* No two results are for the same request.
OutboxDistinct ==
    \A u, v \in Threads : \A msg \in outbox[u], other \in outbox[v] :
        msg.reply.req = other.reply.req => u = v /\ msg = other

ReplyToRead ==
    \A t \in Readers : (pc[t] \in AfterInsert /\ reply[t] # None) =>
        /\ reply[t].req = req[t]
        /\ reply[t].kind = "Response" => reply[t].from = registrant[prov[t]]

\* A read past the insertion of its entry has an answer coming ...
AnswerOwed ==
    \A t \in Readers : pc[t] \in AfterInsert =>
        \/ pending[req[t]] # None
        \/ \E u \in Threads : \E msg \in outbox[u] : msg.reply.req = req[t]
        \/ reply[t] # None

\* ... and, once it has it, no other.
AnsweredOnce ==
    \A t \in Readers : (pc[t] \in AfterInsert /\ reply[t] # None) =>
        /\ pending[req[t]] = None
        /\ \A u \in Threads : \A msg \in outbox[u] : msg.reply.req # req[t]

ReadInv ==
    /\ EmptyBeforeInsert
    /\ PendingHasReader
    /\ OutboxOfPlace
    /\ OutboxIsOwed
    /\ OutboxDistinct
    /\ ReplyToRead
    /\ AnswerOwed
    /\ AnsweredOnce

-----------------------------------------------------------------------------
\* Types, and what is known of a thread's request id.
LEMMA ReadTypes ==
    ASSUME LocalsInv
    PROVE  /\ Readers \subseteq Threads /\ Conns \subseteq Threads /\ None \notin Threads
           /\ pc \in [Threads -> Places] /\ prov \in [Threads -> ProviderIds \cup {0}]
           /\ req \in [Threads -> RequestIds \cup {0}] /\ 0 \notin RequestIds /\ 0 \notin ProviderIds
           /\ \A r \in RequestIds : pending[r] # None =>
                 pending[r].reader \in Threads /\ pending[r].provider \in ProviderIds
           /\ pending \in [RequestIds -> PendingRead \cup {None}]
           /\ outbox \in [Threads -> SUBSET Message] /\ reply \in [Threads -> Reply \cup {None}]
           /\ registrant \in [ProviderIds -> Conns \cup {None}]
           /\ \A u \in Threads : \A msg \in outbox[u] : msg.to \in Threads /\ msg.reply \in Reply
                                                         /\ msg.reply.req \in RequestIds
           /\ \A t \in Threads : pc[t] \in InRead => t \in Readers /\ req[t] \in RequestIds
           /\ \A t \in Threads : req[t] < nextRequest
           /\ \A t \in Threads : req[t] # 0 => req[t] \in RequestIds /\ prov[t] \in ProviderIds
           /\ \A t, u \in Threads : req[t] = req[u] /\ req[t] # 0 => t = u
<1> USE DEF LocalsInv
<1>1. /\ Readers \subseteq Threads /\ Conns \subseteq Threads /\ None \notin Threads
      /\ 0 \notin RequestIds /\ 0 \notin ProviderIds
  BY IpcAssumptions, RuntimeBounds DEF Threads, RequestIds, ProviderIds
<1>2. /\ pc \in [Threads -> Places] /\ prov \in [Threads -> ProviderIds \cup {0}]
      /\ req \in [Threads -> RequestIds \cup {0}]
      /\ \A t, u \in Threads : req[t] = req[u] /\ req[t] # 0 => t = u
      /\ \A t \in Threads : req[t] < nextRequest
  BY Zenon DEF ThreadInv, ThreadTypeOK
<1>3. /\ pending \in [RequestIds -> PendingRead \cup {None}]
      /\ registrant \in [ProviderIds -> Conns \cup {None}]
  BY Zenon DEF IpcTypeOK
<1>4. \A r \in RequestIds : pending[r] # None => pending[r].reader \in Threads /\ pending[r].provider \in ProviderIds
  BY <1>3, Zenon DEF PendingRead
<1>5. outbox \in [Threads -> SUBSET Message] /\ reply \in [Threads -> Reply \cup {None}]
  BY Zenon DEF ReadTypeOK
<1>6. ASSUME NEW u \in Threads, NEW msg \in outbox[u]
      PROVE  msg.to \in Threads /\ msg.reply \in Reply /\ msg.reply.req \in RequestIds
  BY <1>5 DEF Message, Reply
<1>7. ASSUME NEW t \in Threads
      PROVE  /\ pc[t] \in InRead => t \in Readers /\ req[t] \in RequestIds
             /\ req[t] # 0 => req[t] \in RequestIds /\ prov[t] \in ProviderIds
  <2>1. LocalsOf(t, pc[t], task[t], prov[t], req[t])
    BY Zenon DEF ThreadInv
  <2>2. pc[t] \in InRead => t \in Readers /\ req[t] # 0
    BY <2>1, Zenon DEF LocalsOf
  <2>3. req[t] # 0 => pc[t] \in ForProvider
    BY <2>1, Zenon DEF LocalsOf, ForProvider, InRead, BeforeInsert, AfterInsert, Disconnect
  <2>4. pc[t] \in ForProvider => prov[t] # 0
    BY <2>1, Zenon DEF LocalsOf
  <2> QED
    BY <1>2, <2>2, <2>3, <2>4, Zenon
<1> QED BY <1>1, <1>2, <1>3, <1>4, <1>5, <1>6, <1>7, Zenon

\* The entry of a thread that is not past the insertion is not in the map.
LEMMA NoEntryOutside ==
    ASSUME LocalsInv, ReadInv, NEW t \in Threads, pc[t] \notin AfterInsert, req[t] \in RequestIds
    PROVE  pending[req[t]] = None
<1> SUFFICES ASSUME pending[req[t]] # None PROVE FALSE
  BY Zenon
<1>1. pending[req[t]].reader \in Threads /\ req[pending[req[t]].reader] = req[t] /\ pc[pending[req[t]].reader] \in AfterInsert
  BY ReadTypes, Zenon DEF ReadInv, PendingHasReader
<1> QED
  BY <1>1, ReadTypes, Zenon

\* No request has been made at first.
LEMMA ReadInit == Init => ReadInv
<1> SUFFICES ASSUME Init PROVE ReadInv
  BY Zenon
<1>1. /\ \A r \in RequestIds : pending[r] = None
      /\ \A t \in Threads : pc[t] = "Idle" /\ outbox[t] = {}
      /\ Readers \subseteq Threads
  BY Zenon DEF Init, Threads
<1> QED
  BY <1>1, Zenon DEF ReadInv, EmptyBeforeInsert, PendingHasReader, OutboxOfPlace, OutboxIsOwed, OutboxDistinct,
       ReplyToRead, AnswerOwed, AnsweredOnce, BeforeInsert, AfterInsert
-----------------------------------------------------------------------------
\* Thread t does something that is not part of a read, or leaves its read, and
\* then its entry is not in the map.
Elsewhere(t, place, p, r) ==
    /\ outbox[t] = {}
    /\ UNCHANGED <<outbox, nextRequest>>
    /\ place \notin InRead \cup {"Sending"}
    /\ pc' = [pc EXCEPT ![t] = place]
    /\ prov' = [prov EXCEPT ![t] = p]
    /\ req' = [req EXCEPT ![t] = r]
    /\ r = 0 \/ (r = req[t] /\ p = prov[t])
    /\ \A q \in RequestIds : pending'[q] = IF q = req[t] THEN None ELSE pending[q]
    /\ \A u \in Threads : u # t => reply'[u] = reply[u]
    /\ \A u \in Threads : req[u] # 0 => registrant'[prov[u]] = registrant[prov[u]]

LEMMA ElsewhereKeeps ==
    ASSUME LocalsInv, ReadInv, NEW t \in Threads, NEW place, NEW p, NEW r, Elsewhere(t, place, p, r)
    PROVE  ReadInv'
<1>1. \A u \in Threads : /\ pc'[u] = IF u = t THEN place ELSE pc[u]
                         /\ prov'[u] = IF u = t THEN p ELSE prov[u]
                         /\ req'[u] = IF u = t THEN r ELSE req[u]
                         /\ u # t => reply'[u] = reply[u]
                         /\ req[u] # 0 => registrant'[prov[u]] = registrant[prov[u]]
  BY ReadTypes, Zenon DEF Elsewhere
<1>2. /\ outbox' = outbox /\ nextRequest' = nextRequest /\ outbox[t] = {}
      /\ place \notin BeforeInsert /\ place \notin AfterInsert /\ place # "Sending"
      /\ r = 0 \/ (r = req[t] /\ p = prov[t])
      /\ \A q \in RequestIds : pending'[q] = IF q = req[t] THEN None ELSE pending[q]
  BY Zenon DEF Elsewhere, InRead
<1>3. EmptyBeforeInsert'
  BY <1>1, <1>2, ReadTypes, Zenon DEF ReadInv, EmptyBeforeInsert
<1>4. PendingHasReader'
  BY <1>1, <1>2, ReadTypes DEF ReadInv, PendingHasReader
<1>5. OutboxOfPlace'
  BY <1>1, <1>2, ReadTypes, ZenonT(60) DEF ReadInv, OutboxOfPlace
<1>6. OutboxIsOwed'
  BY <1>1, <1>2, ReadTypes DEF ReadInv, OutboxIsOwed
<1>7. OutboxDistinct'
  BY <1>2 DEF ReadInv, OutboxDistinct
<1>8. ReplyToRead'
  BY <1>1, <1>2, ReadTypes DEF ReadInv, ReplyToRead, InRead
<1>9. AnswerOwed'
  BY <1>1, <1>2, ReadTypes DEF ReadInv, AnswerOwed, InRead
<1>10. AnsweredOnce'
  BY <1>1, <1>2, ReadTypes DEF ReadInv, AnsweredOnce, InRead
<1> QED
  BY <1>3, <1>4, <1>5, <1>6, <1>7, <1>8, <1>9, <1>10, Zenon DEF ReadInv

\* Reader t goes on inside its read, on the same side of the insertion.
Within(t, place) ==
    /\ UNCHANGED <<outbox, nextRequest, pending, prov, req, reply, registrant>>
    /\ pc' = [pc EXCEPT ![t] = place]
    /\ \/ pc[t] \in BeforeInsert /\ place \in BeforeInsert
       \/ pc[t] \in AfterInsert /\ place \in AfterInsert

LEMMA WithinKeeps ==
    ASSUME LocalsInv, ReadInv, NEW t \in Threads, NEW place, Within(t, place)
    PROVE  ReadInv'
<1>1. \A u \in Threads : pc'[u] = IF u = t THEN place ELSE pc[u]
  BY ReadTypes, Zenon DEF Within
<1>2. UNCHANGED <<outbox, nextRequest, pending, prov, req, reply, registrant>>
  BY Zenon DEF Within
<1>3. \A u \in Threads :
        /\ pc'[u] \in BeforeInsert <=> pc[u] \in BeforeInsert
        /\ pc'[u] \in AfterInsert <=> pc[u] \in AfterInsert
        /\ pc'[u] \in {"Sending", "SendFailures"} <=> pc[u] \in {"Sending", "SendFailures"}
        /\ pc'[u] = "Sending" <=> pc[u] = "Sending"
  BY <1>1, Zenon DEF Within, BeforeInsert, AfterInsert
<1>4. EmptyBeforeInsert' /\ OutboxOfPlace'
  BY <1>2, <1>3, ReadTypes, Zenon DEF ReadInv, EmptyBeforeInsert, OutboxOfPlace
<1>5. PendingHasReader'
  BY <1>2, <1>3, ReadTypes, Zenon DEF ReadInv, PendingHasReader
<1>6. OutboxIsOwed' /\ OutboxDistinct'
  BY <1>2, <1>3, ReadTypes DEF ReadInv, OutboxIsOwed, OutboxDistinct
<1>7. ReplyToRead' /\ AnsweredOnce'
  BY <1>2, <1>3, ReadTypes DEF ReadInv, ReplyToRead, AnsweredOnce
<1>8. AnswerOwed'
  BY <1>2, <1>3, ReadTypes, Zenon DEF ReadInv, AnswerOwed
<1> QED
  BY <1>4, <1>5, <1>6, <1>7, <1>8, Zenon DEF ReadInv
\* A new read has an id that no result is for, and an empty channel.
LEMMA BeginReadKeeps ==
    ASSUME LocalsInv, ReadInv, NEW t \in Readers, NEW m \in PromiseIds, BeginRead(t, m)
    PROVE  ReadInv'
<1>1. /\ UNCHANGED <<outbox, pending, registrant>>
      /\ pc[t] = "Idle" /\ nextRequest <= MaxRequests /\ nextRequest' = nextRequest + 1
      /\ pc' = [pc EXCEPT ![t] = "Planned"] /\ prov' = [prov EXCEPT ![t] = promiseOwner[m]]
      /\ req' = [req EXCEPT ![t] = nextRequest] /\ reply' = [reply EXCEPT ![t] = None]
  BY Zenon DEF BeginRead, connVars
<1>2. t \in Threads /\ nextRequest \in Nat /\ \A q \in RequestIds : q \in Nat
  BY ReadTypes, IpcAssumptions DEF LocalsInv, IpcTypeOK, RequestIds
<1>3. \A u \in Threads : /\ pc'[u] = IF u = t THEN "Planned" ELSE pc[u]
                         /\ req'[u] = IF u = t THEN nextRequest ELSE req[u]
                         /\ reply'[u] = IF u = t THEN None ELSE reply[u]
                         /\ u # t => prov'[u] = prov[u]
  BY <1>1, <1>2, ReadTypes, Zenon
<1>4. /\ \A u \in Threads : u # t => req'[u] # nextRequest
      /\ \A u \in Threads : \A msg \in outbox[u] : msg.reply.req # nextRequest
  BY <1>2, <1>3, ReadTypes DEF ReadInv, OutboxIsOwed
<1>5. EmptyBeforeInsert' /\ OutboxOfPlace'
  BY <1>1, <1>3, ReadTypes, Zenon DEF ReadInv, EmptyBeforeInsert, OutboxOfPlace
<1>6. PendingHasReader'
  BY <1>1, <1>3, ReadTypes, Zenon DEF ReadInv, PendingHasReader, AfterInsert
<1>7. OutboxIsOwed'
  BY <1>1, <1>2, <1>3, <1>4, ReadTypes DEF ReadInv, OutboxIsOwed
<1>8. OutboxDistinct'
  BY <1>1 DEF ReadInv, OutboxDistinct
<1>9. ReplyToRead'
  BY <1>1, <1>3, ReadTypes, ZenonT(60) DEF ReadInv, ReplyToRead, AfterInsert
<1>10. AnswerOwed'
  BY <1>1, <1>3, ReadTypes DEF ReadInv, AnswerOwed, AfterInsert
<1>11. AnsweredOnce'
  BY <1>1, <1>3, ReadTypes DEF ReadInv, AnsweredOnce, AfterInsert
<1> QED
  BY <1>5, <1>6, <1>7, <1>8, <1>9, <1>10, <1>11, Zenon DEF ReadInv

\* The id is not in the map, and no result for it is under way.
LEMMA InsertPendingKeeps ==
    ASSUME LocalsInv, ReadInv, NEW t \in Readers, InsertPending(t)
    PROVE  ReadInv'
<1>1. t \in Threads /\ pc[t] = "Routed" /\ req[t] \in RequestIds /\ reply[t] = None
  BY ReadTypes, Zenon DEF InsertPending, InRead, BeforeInsert, ReadInv, EmptyBeforeInsert
<1>2. pending[req[t]] = None
  BY <1>1, NoEntryOutside, Zenon DEF AfterInsert
<1>3. /\ UNCHANGED <<outbox, nextRequest, registrant, prov, req, reply>>
      /\ pending' = [pending EXCEPT ![req[t]] = [provider |-> prov[t], reader |-> t]]
      /\ pc' = [pc EXCEPT ![t] = "Inserted"]
  BY <1>2, Zenon DEF InsertPending, connVars
<1>4. /\ \A u \in Threads : pc'[u] = IF u = t THEN "Inserted" ELSE pc[u]
      /\ \A q \in RequestIds : pending'[q] = IF q = req[t] THEN [provider |-> prov[t], reader |-> t]
                                             ELSE pending[q]
  BY <1>1, <1>3, ReadTypes, Zenon
<1>5. pending'[req[t]] # None
  <2>1. [provider |-> prov[t], reader |-> t] \in PendingRead
    BY <1>1, ReadTypes, Zenon DEF PendingRead
  <2> QED BY <1>1, <1>4, <2>1, NoneAssumption, Zenon
<1>6. \A u \in Threads : \A msg \in outbox[u] : msg.reply.req # req[t]
  BY <1>1, Zenon DEF ReadInv, OutboxIsOwed, BeforeInsert
<1>7. EmptyBeforeInsert' /\ OutboxOfPlace'
  BY <1>1, <1>3, <1>4, ReadTypes, ZenonT(60) DEF ReadInv, EmptyBeforeInsert, OutboxOfPlace, BeforeInsert
<1>8. PendingHasReader'
  BY SMTT(30), <1>1, <1>3, <1>4, ReadTypes DEF ReadInv, PendingHasReader, AfterInsert
<1>9. OutboxIsOwed'
  BY <1>1, <1>3, <1>4, <1>6, ReadTypes DEF ReadInv, OutboxIsOwed, BeforeInsert
<1>10. OutboxDistinct'
  BY <1>3 DEF ReadInv, OutboxDistinct
<1>11. ReplyToRead'
  BY <1>1, <1>3, <1>4, ReadTypes, ZenonT(60) DEF ReadInv, ReplyToRead
<1>12. AnswerOwed'
  BY <1>1, <1>3, <1>4, <1>5, ReadTypes DEF ReadInv, AnswerOwed, InRead
<1>13. AnsweredOnce'
  BY <1>1, <1>3, <1>4, <1>6, ReadTypes DEF ReadInv, AnsweredOnce, InRead
<1> QED
  BY <1>7, <1>8, <1>9, <1>10, <1>11, <1>12, <1>13, Zenon DEF ReadInv

-----------------------------------------------------------------------------
\* Thread t takes entries out of the map, to send each of them one result.
Takes(t, failed, results, place) ==
    /\ UNCHANGED <<nextRequest, registrant, prov, req, reply>>
    /\ pc[t] \notin InRead /\ outbox[t] = {}
    /\ failed \subseteq {r \in RequestIds : pending[r] # None}
    /\ pending' = [r \in RequestIds |-> IF r \in failed THEN None ELSE pending[r]]
    /\ outbox' = [outbox EXCEPT ![t] = results]
    /\ pc' = [pc EXCEPT ![t] = place]
    /\ \A msg \in results :
          /\ msg.reply.req \in failed
          /\ msg.to = pending[msg.reply.req].reader
          /\ msg.reply.kind = "Response" =>
                msg.reply.from = registrant[pending[msg.reply.req].provider]
    /\ \A r \in failed : \E msg \in results : msg.reply.req = r
    /\ \A msg, other \in results : msg.reply.req = other.reply.req => msg = other
    /\ place = "SendFailures" \/ (place = "Sending" /\ \E msg \in results : results = {msg})

LEMMA TakesKeeps ==
    ASSUME LocalsInv, ReadInv, NEW t \in Threads, NEW failed, NEW results, NEW place,
           Takes(t, failed, results, place)
    PROVE  ReadInv'
<1>1. /\ \A u \in Threads : pc'[u] = IF u = t THEN place ELSE pc[u]
      /\ \A u \in Threads : outbox'[u] = IF u = t THEN results ELSE outbox[u]
      /\ \A q \in RequestIds : pending'[q] = IF q \in failed THEN None ELSE pending[q]
  BY ReadTypes, Zenon DEF Takes
<1>2. /\ UNCHANGED <<nextRequest, registrant, prov, req, reply>>
      /\ pc[t] \notin BeforeInsert /\ pc[t] \notin AfterInsert /\ outbox[t] = {}
      /\ \A q \in failed : q \in RequestIds /\ pending[q] # None
  BY Zenon DEF Takes, InRead
<1>3. /\ \A msg \in results : msg.reply.req \in failed /\ msg.to = pending[msg.reply.req].reader
      /\ \A msg \in results : msg.reply.kind = "Response" =>
            msg.reply.from = registrant[pending[msg.reply.req].provider]
  BY Zenon DEF Takes
<1>4. /\ \A r \in failed : \E msg \in results : msg.reply.req = r
      /\ \A msg, other \in results : msg.reply.req = other.reply.req => msg = other
  BY Zenon DEF Takes
<1>5. /\ place \in {"Sending", "SendFailures"} /\ place \notin BeforeInsert /\ place \notin AfterInsert
      /\ place = "Sending" => \E msg \in results : results = {msg}
  BY Zenon DEF Takes, BeforeInsert, AfterInsert
<1>6. \A q \in failed : /\ pending[q].reader \in Threads
                        /\ req[pending[q].reader] = q
                        /\ pc[pending[q].reader] \in AfterInsert
                        /\ prov[pending[q].reader] = pending[q].provider
  BY <1>2, ReadTypes, Zenon DEF ReadInv, PendingHasReader
<1>7. EmptyBeforeInsert'
  BY <1>1, <1>2, <1>5, ReadTypes, Zenon DEF ReadInv, EmptyBeforeInsert
<1>8. OutboxOfPlace'
  BY <1>1, <1>5, Zenon DEF ReadInv, OutboxOfPlace
<1>9. PendingHasReader'
  <2> SUFFICES ASSUME NEW q \in RequestIds, pending'[q] # None
               PROVE  /\ pc'[pending'[q].reader] \in AfterInsert /\ req'[pending'[q].reader] = q
                      /\ prov'[pending'[q].reader] = pending'[q].provider
    BY Zenon DEF PendingHasReader
  <2>1. pending'[q] = pending[q] /\ pending[q] # None
    BY <1>1, Zenon
  <2>2. pending[q].reader \in Threads
    BY <2>1, ReadTypes, Zenon
  <2>3. /\ pc[pending[q].reader] \in AfterInsert /\ req[pending[q].reader] = q
        /\ prov[pending[q].reader] = pending[q].provider
    BY <2>1, Zenon DEF ReadInv, PendingHasReader
  <2> QED BY <1>1, <1>2, <2>1, <2>2, <2>3, Zenon
<1>10. OutboxIsOwed'
  <2> SUFFICES ASSUME NEW u \in Threads, NEW msg \in outbox'[u]
               PROVE  /\ msg.reply.req < nextRequest'
                      /\ pending'[msg.reply.req] = None
                      /\ \A v \in Threads : req'[v] = msg.reply.req => v = msg.to /\ pc'[v] \notin BeforeInsert
                      /\ (msg.reply.kind = "Response" /\ req'[msg.to] = msg.reply.req) =>
                            msg.reply.from = registrant'[prov'[msg.to]]
    BY Zenon DEF OutboxIsOwed
  <2>1. CASE u = t
    <3>1. msg \in results /\ msg.reply.req \in failed /\ msg.to = pending[msg.reply.req].reader
      BY <1>1, <1>3, <2>1, Zenon
    <3>2. BeforeInsert \cap AfterInsert = {}
      BY Zenon DEF BeforeInsert, AfterInsert
    <3>3. msg.reply.req < nextRequest'
      BY <1>2, <1>6, <3>1, ReadTypes, Zenon
    <3>4. pending'[msg.reply.req] = None
      BY <1>1, <1>2, <3>1, Zenon
    <3>5. ASSUME NEW v \in Threads, req'[v] = msg.reply.req PROVE v = msg.to /\ pc'[v] \notin BeforeInsert
      <4>1. req[v] \in failed /\ req[pending[req[v]].reader] = req[v] /\ pending[req[v]].reader \in Threads
            /\ pc[pending[req[v]].reader] \in AfterInsert /\ msg.to = pending[req[v]].reader
        BY <1>2, <1>6, <3>1, <3>5, Zenon
      <4>2. v = msg.to
        <5>1. req[v] # 0
          BY <1>2, <4>1, ReadTypes, Zenon
        <5> QED BY <4>1, <5>1, ReadTypes, Zenon
      <4>3. pc'[v] \notin BeforeInsert
        BY <1>1, <1>5, <3>2, <4>1, <4>2, Zenon
      <4> QED BY <4>2, <4>3, Zenon
    <3>6. (msg.reply.kind = "Response" /\ req'[msg.to] = msg.reply.req) =>
             msg.reply.from = registrant'[prov'[msg.to]]
      BY <1>2, <1>3, <1>6, <3>1
    <3> QED BY <3>3, <3>4, <3>5, <3>6, Zenon
  <2>2. CASE u # t
    BY <1>1, <1>2, <1>5, <2>2, ReadTypes, ZenonT(60) DEF ReadInv, OutboxIsOwed
  <2> QED BY <2>1, <2>2, Zenon
<1>11. OutboxDistinct'
  <2> SUFFICES ASSUME NEW u \in Threads, NEW v \in Threads, NEW msg \in outbox'[u], NEW other \in outbox'[v],
                      msg.reply.req = other.reply.req
               PROVE  u = v /\ msg = other
    BY Zenon DEF OutboxDistinct
  <2>1. \A w \in Threads : \A m \in outbox[w] : pending[m.reply.req] = None
    BY Zenon DEF ReadInv, OutboxIsOwed
  <2>2. \A m \in results : pending[m.reply.req] # None
    BY <1>2, <1>3, Zenon
  <2>3. u = t => msg \in results
    BY <1>1, Zenon
  <2>4. u # t => msg \in outbox[u]
    BY <1>1, Zenon
  <2>5. v = t => other \in results
    BY <1>1, Zenon
  <2>6. v # t => other \in outbox[v]
    BY <1>1, Zenon
  <2>7. CASE u = t /\ v = t
    BY <1>4, <2>3, <2>5, <2>7, Zenon
  <2>8. CASE u # t /\ v # t
    BY <2>4, <2>6, <2>8, Zenon DEF ReadInv, OutboxDistinct
  <2>9. CASE (u = t /\ v # t) \/ (u # t /\ v = t)
    BY <2>1, <2>2, <2>3, <2>4, <2>5, <2>6, <2>9, Zenon
  <2> QED BY <2>7, <2>8, <2>9, Zenon
<1>12. ReplyToRead'
  BY <1>1, <1>2, <1>5, ReadTypes, Zenon DEF ReadInv, ReplyToRead
<1>13. AnswerOwed'
  <2> SUFFICES ASSUME NEW u \in Readers, pc'[u] \in AfterInsert, pending'[req'[u]] = None, reply'[u] = None
               PROVE  \E v \in Threads : \E msg \in outbox'[v] : msg.reply.req = req'[u]
    BY Zenon DEF AnswerOwed
  <2>1. pc[u] \in AfterInsert /\ u \in Threads /\ req[u] \in RequestIds
    BY <1>1, <1>2, <1>5, ReadTypes, Zenon DEF InRead
  <2>2. CASE req[u] \in failed
    BY <1>1, <1>2, <1>4, <2>2, Zenon
  <2>3. CASE req[u] \notin failed
    BY <1>1, <1>2, <2>1, <2>3, ZenonT(60) DEF ReadInv, AnswerOwed
  <2> QED BY <2>2, <2>3, Zenon
<1>14. AnsweredOnce'
  <2> SUFFICES ASSUME NEW u \in Readers, pc'[u] \in AfterInsert, reply'[u] # None
               PROVE  /\ pending'[req'[u]] = None
                      /\ \A v \in Threads : \A msg \in outbox'[v] : msg.reply.req # req'[u]
    BY Zenon DEF AnsweredOnce
  <2>1. u \in Threads /\ pc[u] \in AfterInsert /\ reply[u] # None /\ req'[u] = req[u]
    BY <1>1, <1>2, <1>5, ReadTypes, Zenon
  <2>2. req[u] \in RequestIds
    BY <2>1, ReadTypes, Zenon DEF InRead
  <2>3. pending[req[u]] = None /\ \A v \in Threads : \A msg \in outbox[v] : msg.reply.req # req[u]
    BY <2>1, Zenon DEF ReadInv, AnsweredOnce
  <2>4. req[u] \notin failed
    BY <1>2, <2>3, Zenon
  <2>5. pending'[req'[u]] = None
    BY <1>1, <2>1, <2>2, <2>3, Zenon
  <2>6. ASSUME NEW v \in Threads, NEW msg \in outbox'[v] PROVE msg.reply.req # req'[u]
    <3>1. CASE v = t
      BY <1>1, <1>3, <2>1, <2>4, <3>1, Zenon
    <3>2. CASE v # t
      BY <1>1, <2>1, <2>3, <3>2, Zenon
    <3> QED BY <3>1, <3>2, Zenon
  <2> QED BY <2>5, <2>6, Zenon
<1> QED
  BY <1>7, <1>8, <1>9, <1>10, <1>11, <1>12, <1>13, <1>14, Zenon DEF ReadInv

\* Thread t sends one of its results.
Sends(t, msg, place) ==
    /\ UNCHANGED <<nextRequest, registrant, prov, req, pending>>
    /\ msg \in outbox[t]
    /\ outbox' = [outbox EXCEPT ![t] = @ \ {msg}]
    /\ Send(msg)
    /\ pc' = [pc EXCEPT ![t] = place]
    /\ \/ pc[t] = "SendFailures" /\ place = "SendFailures"
       \/ pc[t] = "Sending" /\ place = "Idle"

LEMMA SendsKeeps ==
    ASSUME LocalsInv, ReadInv, NEW t \in Threads, NEW msg, NEW place, Sends(t, msg, place)
    PROVE  ReadInv'
<1>1. /\ \A u \in Threads : pc'[u] = IF u = t THEN place ELSE pc[u]
      /\ \A u \in Threads : outbox'[u] = IF u = t THEN outbox[t] \ {msg} ELSE outbox[u]
  BY ReadTypes, Zenon DEF Sends
<1>2. /\ UNCHANGED <<nextRequest, registrant, prov, req, pending>>
      /\ msg \in outbox[t] /\ msg.to \in Threads /\ msg.reply \in Reply
  BY ReadTypes, Zenon DEF Sends
<1>3. \A u \in Threads : reply'[u] = IF u = msg.to /\ req[u] = msg.reply.req THEN msg.reply ELSE reply[u]
  BY <1>2, ReadTypes, ZenonT(60) DEF Sends, Send
<1>4. msg.reply # None
  BY <1>2, NoneAssumption, Zenon
<1>5. /\ \A u \in Threads : pc'[u] \in BeforeInsert <=> pc[u] \in BeforeInsert
      /\ \A u \in Threads : pc'[u] \in AfterInsert <=> pc[u] \in AfterInsert
  BY <1>1, Zenon DEF Sends, BeforeInsert, AfterInsert
<1>6. /\ pending[msg.reply.req] = None
      /\ \A u \in Threads : req[u] = msg.reply.req => u = msg.to /\ pc[u] \notin BeforeInsert
      /\ (msg.reply.kind = "Response" /\ req[msg.to] = msg.reply.req) =>
            msg.reply.from = registrant[prov[msg.to]]
  BY <1>2, Zenon DEF ReadInv, OutboxIsOwed
<1>7. \A u \in Threads : \A other \in outbox'[u] : other \in outbox[u] /\ other.reply.req # msg.reply.req
  BY <1>1, <1>2 DEF ReadInv, OutboxDistinct
<1>8. EmptyBeforeInsert'
  BY <1>3, <1>5, <1>6, ReadTypes, Zenon DEF ReadInv, EmptyBeforeInsert
<1>9. OutboxOfPlace'
  BY <1>1, <1>2 DEF ReadInv, OutboxOfPlace, Sends
<1>10. PendingHasReader'
  BY <1>2, <1>5, ReadTypes, Zenon DEF ReadInv, PendingHasReader
<1>11. OutboxIsOwed'
  <2> SUFFICES ASSUME NEW u \in Threads, NEW other \in outbox'[u]
               PROVE  /\ other.reply.req < nextRequest'
                      /\ pending'[other.reply.req] = None
                      /\ \A v \in Threads : req'[v] = other.reply.req => v = other.to /\ pc'[v] \notin BeforeInsert
                      /\ (other.reply.kind = "Response" /\ req'[other.to] = other.reply.req) =>
                            other.reply.from = registrant'[prov'[other.to]]
    BY Zenon DEF OutboxIsOwed
  <2>1. other \in outbox[u]
    BY <1>7, Zenon
  <2>2. /\ other.reply.req < nextRequest /\ pending[other.reply.req] = None
        /\ \A v \in Threads : req[v] = other.reply.req => v = other.to /\ pc[v] \notin BeforeInsert
        /\ (other.reply.kind = "Response" /\ req[other.to] = other.reply.req) =>
              other.reply.from = registrant[prov[other.to]]
    BY <2>1, Zenon DEF ReadInv, OutboxIsOwed
  <2> QED BY <1>2, <1>5, <2>2, Zenon
<1>12. OutboxDistinct'
  <2> SUFFICES ASSUME NEW u \in Threads, NEW v \in Threads, NEW one \in outbox'[u], NEW other \in outbox'[v],
                      one.reply.req = other.reply.req
               PROVE  u = v /\ one = other
    BY Zenon DEF OutboxDistinct
  <2>1. one \in outbox[u] /\ other \in outbox[v]
    BY <1>7, Zenon
  <2> QED BY <2>1, Zenon DEF ReadInv, OutboxDistinct
<1>13. ReplyToRead'
  <2> SUFFICES ASSUME NEW u \in Readers, pc'[u] \in AfterInsert, reply'[u] # None
               PROVE  /\ reply'[u].req = req'[u]
                      /\ reply'[u].kind = "Response" => reply'[u].from = registrant'[prov'[u]]
    BY Zenon DEF ReplyToRead
  <2>1. u \in Threads /\ pc[u] \in AfterInsert
    BY <1>5, ReadTypes, Zenon
  <2>2. CASE u = msg.to /\ req[u] = msg.reply.req
    BY <1>2, <1>3, <1>6, <2>1, <2>2, Zenon
  <2>3. CASE ~(u = msg.to /\ req[u] = msg.reply.req)
    BY <1>2, <1>3, <2>1, <2>3, Zenon DEF ReadInv, ReplyToRead
  <2> QED BY <2>2, <2>3, Zenon
<1>14. AnswerOwed'
  <2> SUFFICES ASSUME NEW u \in Readers, pc'[u] \in AfterInsert, pending'[req'[u]] = None, reply'[u] = None
               PROVE  \E v \in Threads : \E other \in outbox'[v] : other.reply.req = req'[u]
    BY Zenon DEF AnswerOwed
  <2>1. pc[u] \in AfterInsert /\ u \in Threads /\ reply[u] = None /\ req[u] # msg.reply.req
    BY <1>3, <1>4, <1>5, <1>6, ReadTypes, Zenon
  <2> QED
    BY <1>1, <1>2, <2>1, ZenonT(60) DEF ReadInv, AnswerOwed
<1>15. AnsweredOnce'
  <2> SUFFICES ASSUME NEW u \in Readers, pc'[u] \in AfterInsert, reply'[u] # None
               PROVE  /\ pending'[req'[u]] = None
                      /\ \A v \in Threads : \A other \in outbox'[v] : other.reply.req # req'[u]
    BY Zenon DEF AnsweredOnce
  <2>1. u \in Threads /\ pc[u] \in AfterInsert
    BY <1>5, ReadTypes, Zenon
  <2>2. CASE u = msg.to /\ req[u] = msg.reply.req
    BY <1>2, <1>6, <1>7, <2>2, Zenon
  <2>3. CASE ~(u = msg.to /\ req[u] = msg.reply.req)
    BY <1>2, <1>3, <1>7, <2>1, <2>3, Zenon DEF ReadInv, AnsweredOnce
  <2> QED BY <2>2, <2>3, Zenon
<1> QED
  BY <1>8, <1>9, <1>10, <1>11, <1>12, <1>13, <1>14, <1>15, Zenon DEF ReadInv
-----------------------------------------------------------------------------
\* Every step keeps the read invariants.
LEMMA ReadInvStep == LocalsInv /\ SessionInv /\ ReadInv /\ [Next]_vars => ReadInv'
<1> SUFFICES ASSUME LocalsInv, SessionInv, ReadInv, [Next]_vars PROVE ReadInv'
  BY Zenon
<1>a. Readers \subseteq Threads /\ Conns \subseteq Threads
  BY ReadTypes, Zenon
<1>b. ASSUME NEW t \in Threads
      PROVE  pc = [pc EXCEPT ![t] = pc[t]] /\ prov = [prov EXCEPT ![t] = prov[t]] /\ req = [req EXCEPT ![t] = req[t]]
  BY ReadTypes, Zenon
<1>c. ASSUME NEW t \in Threads, pc[t] \in {"Idle", "Registering", "Unregistering", "Committing", "Closing"}
      PROVE  req[t] = 0 /\ outbox[t] = {} /\ req = [req EXCEPT ![t] = 0]
  <2>1. LocalsOf(t, pc[t], task[t], prov[t], req[t])
    BY Zenon DEF LocalsInv, ThreadInv
  <2>2. req[t] = 0
    BY <1>c, <2>1, Zenon DEF LocalsOf, InRead, BeforeInsert, AfterInsert, Disconnect
  <2>3. outbox[t] = {}
    BY <1>c, Zenon DEF ReadInv, OutboxOfPlace
  <2> QED BY <1>b, <2>2, <2>3, Zenon
<1>d. ASSUME NEW t \in Threads, NEW place, NEW p, NEW r,
             UNCHANGED <<outbox, nextRequest, pending, reply, registrant>>, outbox[t] = {},
             pc' = [pc EXCEPT ![t] = place], prov' = [prov EXCEPT ![t] = p], req' = [req EXCEPT ![t] = r],
             r = 0 \/ (r = req[t] /\ p = prov[t]),
             pc[t] \notin AfterInsert, place \notin InRead \cup {"Sending"}
      PROVE  ReadInv'
  <2>1. \A q \in RequestIds : pending'[q] = IF q = req[t] THEN None ELSE pending[q]
    BY <1>d, NoEntryOutside, Zenon
  <2>2. Elsewhere(t, place, p, r)
    BY <1>d, <2>1, Zenon DEF Elsewhere
  <2> QED BY <2>2, ElsewhereKeeps, Zenon
<1>0. ASSUME UNCHANGED <<pending, nextRequest, registrant, pc, prov, req, outbox, reply>> PROVE ReadInv'
  <2>1. EmptyBeforeInsert' /\ PendingHasReader'
    BY <1>0, Zenon DEF ReadInv, EmptyBeforeInsert, PendingHasReader
  <2>2. OutboxOfPlace' /\ OutboxDistinct'
    BY <1>0 DEF ReadInv, OutboxOfPlace, OutboxDistinct
  <2>3. OutboxIsOwed'
    BY <1>0, Zenon DEF ReadInv, OutboxIsOwed
  <2>4. ReplyToRead'
    BY <1>0, Zenon DEF ReadInv, ReplyToRead
  <2>5. AnswerOwed' /\ AnsweredOnce'
    BY <1>0, Zenon DEF ReadInv, AnswerOwed, AnsweredOnce
  <2> QED BY <2>1, <2>2, <2>3, <2>4, <2>5, Zenon DEF ReadInv
<1>1. ASSUME NEW t \in Readers, NEW m \in PromiseIds, BeginRead(t, m) PROVE ReadInv'
  BY <1>1, BeginReadKeeps, Zenon
<1>2. ASSUME NEW t \in Readers, CloneRoute(t) PROVE ReadInv'
  <2>1. /\ pc[t] = "Planned" /\ pc' = [pc EXCEPT ![t] = "Routed"]
        /\ UNCHANGED <<outbox, nextRequest, pending, prov, req, reply, registrant>>
    BY <1>2, Zenon DEF CloneRoute, ipcVars, connVars
  <2>2. Within(t, "Routed")
    BY <2>1, Zenon DEF Within, BeforeInsert, AfterInsert
  <2> QED BY <1>2, <1>a, <2>2, WithinKeeps, Zenon
<1>3. ASSUME NEW t \in Readers, RouteMissing(t) PROVE ReadInv'
  <2>1. pc[t] = "Planned" /\ outbox[t] = {} /\ req[t] \in RequestIds
    BY <1>3, <1>a, ReadTypes, Zenon DEF RouteMissing, ReadInv, OutboxOfPlace, InRead, BeforeInsert, AfterInsert
  <2>2. /\ UNCHANGED <<outbox, nextRequest, registrant>> /\ pending' = pending
        /\ pc' = [pc EXCEPT ![t] = "Idle"] /\ prov' = [prov EXCEPT ![t] = 0] /\ req' = [req EXCEPT ![t] = 0]
    BY <1>3, Zenon DEF RouteMissing, Return, remove_pending_read, ipcVars, connVars
  <2>3. \A u \in Threads : u # t => reply'[u] = reply[u]
    BY <1>3, ReadTypes, Zenon DEF RouteMissing
  <2>4. \A q \in RequestIds : pending'[q] = IF q = req[t] THEN None ELSE pending[q]
    BY <1>a, <2>1, <2>2, NoEntryOutside, Zenon DEF AfterInsert
  <2>5. Elsewhere(t, "Idle", 0, 0)
    BY <2>1, <2>2, <2>3, <2>4, Zenon DEF Elsewhere, InRead, BeforeInsert, AfterInsert
  <2> QED BY <1>3, <1>a, <2>5, ElsewhereKeeps, Zenon
<1>4. ASSUME NEW t \in Readers, InsertPending(t) PROVE ReadInv'
  BY <1>4, InsertPendingKeeps, Zenon
<1>5. ASSUME NEW t \in Readers, WriteRequest(t) PROVE ReadInv'
  <2>1. /\ pc[t] = "Inserted" /\ pc' = [pc EXCEPT ![t] = "Waiting"]
        /\ UNCHANGED <<outbox, nextRequest, pending, prov, req, reply, registrant>>
    BY <1>5, Zenon DEF WriteRequest, ipcVars, connVars
  <2>2. Within(t, "Waiting")
    BY <2>1, Zenon DEF Within, BeforeInsert, AfterInsert
  <2> QED BY <1>5, <1>a, <2>2, WithinKeeps, Zenon
<1>6. ASSUME NEW t \in Readers, WriteFails(t) PROVE ReadInv'
  <2>1. /\ pc[t] = "Inserted" /\ pc' = [pc EXCEPT ![t] = "WriteFailed"]
        /\ UNCHANGED <<outbox, nextRequest, pending, prov, req, reply, registrant>>
    BY <1>6, Zenon DEF WriteFails, ipcVars, connVars
  <2>2. Within(t, "WriteFailed")
    BY <2>1, Zenon DEF Within, BeforeInsert, AfterInsert
  <2> QED BY <1>6, <1>a, <2>2, WithinKeeps, Zenon
<1>7. ASSUME NEW t \in Readers, Receive(t) PROVE ReadInv'
  <2>1. pc[t] = "Waiting" /\ outbox[t] = {} /\ req[t] \in RequestIds
    BY <1>7, <1>a, ReadTypes, Zenon DEF Receive, ReadInv, OutboxOfPlace, InRead, BeforeInsert, AfterInsert
  <2>2. /\ UNCHANGED <<outbox, nextRequest, registrant>> /\ pending' = pending /\ reply[t] # None
        /\ pc' = [pc EXCEPT ![t] = "Idle"] /\ prov' = [prov EXCEPT ![t] = 0] /\ req' = [req EXCEPT ![t] = 0]
    BY <1>7, Zenon DEF Receive, Return, remove_pending_read, ipcVars, connVars
  <2>3. \A u \in Threads : u # t => reply'[u] = reply[u]
    BY <1>7, ReadTypes, Zenon DEF Receive
  <2>4. \A q \in RequestIds : pending'[q] = IF q = req[t] THEN None ELSE pending[q]
    BY <1>a, <2>1, <2>2, Zenon DEF AfterInsert, ReadInv, AnsweredOnce
  <2>5. Elsewhere(t, "Idle", 0, 0)
    BY <2>1, <2>2, <2>3, <2>4, Zenon DEF Elsewhere, InRead, BeforeInsert, AfterInsert
  <2> QED BY <1>7, <1>a, <2>5, ElsewhereKeeps, Zenon
<1>8. ASSUME NEW t \in Readers, Timeout(t) PROVE ReadInv'
  <2>1. /\ pc[t] = "Waiting" /\ pc' = [pc EXCEPT ![t] = "TimedOut"]
        /\ UNCHANGED <<outbox, nextRequest, pending, prov, req, reply, registrant>>
    BY <1>8, Zenon DEF Timeout, ipcVars, connVars
  <2>2. Within(t, "TimedOut")
    BY <2>1, Zenon DEF Within, BeforeInsert, AfterInsert
  <2> QED BY <1>8, <1>a, <2>2, WithinKeeps, Zenon
<1>9. ASSUME NEW t \in Readers, RemoveTimedOut(t) PROVE ReadInv'
  <2>1. pc[t] = "TimedOut" /\ outbox[t] = {} /\ req[t] \in RequestIds
    BY <1>9, <1>a, ReadTypes, Zenon DEF RemoveTimedOut, ReadInv, OutboxOfPlace, InRead, BeforeInsert, AfterInsert
  <2>2. /\ UNCHANGED <<outbox, nextRequest, registrant>> /\ pending' = [pending EXCEPT ![req[t]] = None]
        /\ pc' = [pc EXCEPT ![t] = "Idle"] /\ prov' = [prov EXCEPT ![t] = 0] /\ req' = [req EXCEPT ![t] = 0]
    BY <1>9, Zenon DEF RemoveTimedOut, Return, remove_pending_read, ipcVars, connVars
  <2>3. \A u \in Threads : u # t => reply'[u] = reply[u]
    BY <1>9, ReadTypes, Zenon DEF RemoveTimedOut
  <2>4. \A q \in RequestIds : pending'[q] = IF q = req[t] THEN None ELSE pending[q]
    BY <2>1, <2>2, ReadTypes, Zenon
  <2>5. Elsewhere(t, "Idle", 0, 0)
    BY <2>1, <2>2, <2>3, <2>4, Zenon DEF Elsewhere, InRead, BeforeInsert, AfterInsert
  <2> QED BY <1>9, <1>a, <2>5, ElsewhereKeeps, Zenon
<1>10. ASSUME NEW t \in Readers, RemoveUnwritten(t) PROVE ReadInv'
  <2>1. pc[t] = "WriteFailed" /\ outbox[t] = {} /\ req[t] \in RequestIds
    BY <1>10, <1>a, ReadTypes, Zenon DEF RemoveUnwritten, ReadInv, OutboxOfPlace, InRead, AfterInsert
  <2>2. /\ UNCHANGED <<outbox, nextRequest, registrant, reply>> /\ pending' = [pending EXCEPT ![req[t]] = None]
        /\ pc' = [pc EXCEPT ![t] = "DropRoute"] /\ prov' = [prov EXCEPT ![t] = prov[t]]
        /\ req' = [req EXCEPT ![t] = req[t]]
    BY <1>10, <1>a, <1>b, Zenon DEF RemoveUnwritten, remove_pending_read, ipcVars, connVars
  <2>3. \A q \in RequestIds : pending'[q] = IF q = req[t] THEN None ELSE pending[q]
    BY <2>1, <2>2, ReadTypes, Zenon
  <2>4. Elsewhere(t, "DropRoute", prov[t], req[t])
    BY <2>1, <2>2, <2>3, Zenon DEF Elsewhere, InRead, BeforeInsert, AfterInsert
  <2> QED BY <1>10, <1>a, <2>4, ElsewhereKeeps, Zenon
<1>11. ASSUME NEW t \in Threads, DropRoute(t) PROVE ReadInv'
  <2>1. pc[t] = "DropRoute"
    BY <1>11, Zenon DEF DropRoute
  <2>2. /\ UNCHANGED <<outbox, nextRequest, pending, reply, registrant>> /\ outbox[t] = {}
        /\ pc' = [pc EXCEPT ![t] = "MarkGone"] /\ prov' = [prov EXCEPT ![t] = prov[t]] /\ req' = [req EXCEPT ![t] = req[t]]
    <3>1. outbox[t] = {} /\ req = [req EXCEPT ![t] = req[t]] /\ prov = [prov EXCEPT ![t] = prov[t]]
      BY <1>a, <1>b, <2>1, ReadTypes, Zenon DEF ReadInv, OutboxOfPlace
    <3> QED
      BY <1>11, <3>1, Zenon DEF DropRoute, ipcVars, connVars
  <2> QED
    BY <1>a, <1>d, <2>1, <2>2, Zenon DEF InRead, BeforeInsert, AfterInsert
<1>12. ASSUME NEW t \in Threads, MarkGone(t) PROVE ReadInv'
  <2>1. pc[t] = "MarkGone"
    BY <1>12, Zenon DEF MarkGone
  <2>2. /\ UNCHANGED <<outbox, nextRequest, pending, reply, registrant>> /\ outbox[t] = {}
        /\ pc' = [pc EXCEPT ![t] = "FailPending"] /\ prov' = [prov EXCEPT ![t] = prov[t]] /\ req' = [req EXCEPT ![t] = req[t]]
    <3>1. outbox[t] = {} /\ req = [req EXCEPT ![t] = req[t]] /\ prov = [prov EXCEPT ![t] = prov[t]]
      BY <1>a, <1>b, <2>1, ReadTypes, Zenon DEF ReadInv, OutboxOfPlace
    <3> QED
      BY <1>12, <3>1, Zenon DEF MarkGone, ipcVars, connVars
  <2> QED
    BY <1>a, <1>d, <2>1, <2>2, Zenon DEF InRead, BeforeInsert, AfterInsert
<1>13. ASSUME NEW t \in Threads, fail_provider_pending_reads(t) PROVE ReadInv'
  <2> DEFINE failed == {r \in RequestIds : pending[r] # None /\ pending[r].provider = prov[t]}
             results == {[to |-> pending[r].reader, reply |-> Failure("BrokenPipe", r)] : r \in failed}
  <2>1. /\ pc[t] = "FailPending" /\ UNCHANGED <<nextRequest, registrant, prov, req, reply>>
        /\ pending' = [r \in RequestIds |-> IF r \in failed THEN None ELSE pending[r]]
        /\ outbox' = [outbox EXCEPT ![t] = results] /\ pc' = [pc EXCEPT ![t] = "SendFailures"]
    BY <1>13, Zenon DEF fail_provider_pending_reads, connVars
  <2>2. /\ \A msg \in results : /\ msg.reply.req \in failed /\ msg.to = pending[msg.reply.req].reader
                               /\ msg.reply.kind # "Response"
        /\ \A r \in failed : \E msg \in results : msg.reply.req = r
        /\ \A msg, other \in results : msg.reply.req = other.reply.req => msg = other
    <3>1. \A msg \in results : \E r \in failed :
            /\ msg = [to |-> pending[r].reader, reply |-> Failure("BrokenPipe", r)]
            /\ msg.reply.req = r /\ msg.to = pending[r].reader /\ msg.reply.kind = "BrokenPipe"
      BY DEF Failure
    <3>2. ASSUME NEW r \in failed PROVE \E msg \in results : msg.reply.req = r
      <4>1. [to |-> pending[r].reader, reply |-> Failure("BrokenPipe", r)] \in results
        BY Zenon
      <4> HIDE DEF failed, results
      <4> QED BY <4>1, Zenon DEF Failure
    <3> HIDE DEF failed, results
    <3> QED BY <3>1, <3>2
  <2>3. pc[t] \notin InRead /\ outbox[t] = {}
    BY <2>1, Zenon DEF ReadInv, OutboxOfPlace, InRead, BeforeInsert, AfterInsert
  <2>4. failed \subseteq {r \in RequestIds : pending[r] # None}
    BY Zenon
  <2> HIDE DEF failed, results
  <2>5. Takes(t, failed, results, "SendFailures")
    BY <2>1, <2>2, <2>3, <2>4, Zenon DEF Takes
  <2> QED BY <2>5, TakesKeeps, Zenon
<1>14. ASSUME NEW t \in Threads, SendFailure(t) PROVE ReadInv'
  <2>1. PICK msg \in outbox[t] : Send(msg) /\ outbox' = [outbox EXCEPT ![t] = @ \ {msg}]
    BY <1>14, Zenon DEF SendFailure
  <2>2. /\ pc[t] = "SendFailures" /\ pc' = [pc EXCEPT ![t] = "SendFailures"]
        /\ UNCHANGED <<nextRequest, registrant, prov, req, pending>>
    BY <1>14, <1>b, Zenon DEF SendFailure, ipcVars, connVars
  <2>3. Sends(t, msg, "SendFailures")
    BY <2>1, <2>2, Zenon DEF Sends
  <2> QED BY <2>3, SendsKeeps, Zenon
<1>15. ASSUME NEW t \in Threads, DisconnectedClosing(t) PROVE ReadInv'
  <2>1. pc[t] = "SendFailures" /\ outbox[t] = {} /\ task[t] = "Close"
    BY <1>15, Zenon DEF DisconnectedClosing
  <2>2. req[t] = 0
    BY <2>1, Zenon DEF LocalsInv, ThreadInv, LocalsOf, InRead, BeforeInsert, AfterInsert
  <2>3. /\ UNCHANGED <<outbox, nextRequest, pending, reply, registrant>>
        /\ pc' = [pc EXCEPT ![t] = "Closing"] /\ prov' = [prov EXCEPT ![t] = 0] /\ req' = [req EXCEPT ![t] = 0]
    BY <1>15, <1>b, <2>2, Zenon DEF DisconnectedClosing, EndLoop, ipcVars, connVars
  <2> QED
    BY <1>d, <2>1, <2>3, Zenon DEF InRead, BeforeInsert, AfterInsert
<1>16. ASSUME NEW t \in Threads, Disconnected(t) PROVE ReadInv'
  <2>1. pc[t] = "SendFailures" /\ outbox[t] = {}
    BY <1>16, Zenon DEF Disconnected
  <2>2. /\ UNCHANGED <<outbox, nextRequest, pending, registrant>>
        /\ pc' = [pc EXCEPT ![t] = "Idle"] /\ prov' = [prov EXCEPT ![t] = 0] /\ req' = [req EXCEPT ![t] = 0]
    BY <1>16, Zenon DEF Disconnected, Return, ipcVars, connVars
  <2>3. \A u \in Threads : u # t => reply'[u] = reply[u]
    BY <1>16, ReadTypes, Zenon DEF Disconnected
  <2>4. \A q \in RequestIds : pending'[q] = IF q = req[t] THEN None ELSE pending[q]
    BY <2>1, <2>2, NoEntryOutside, Zenon DEF AfterInsert
  <2>5. Elsewhere(t, "Idle", 0, 0)
    BY <2>1, <2>2, <2>3, <2>4, Zenon DEF Elsewhere, InRead, BeforeInsert, AfterInsert
  <2> QED BY <2>5, ElsewhereKeeps, Zenon
<1>17. ASSUME NEW c \in Conns, ProviderRegister(c) PROVE ReadInv'
  <2>1. pc[c] = "Idle"
    BY <1>17, Zenon DEF ProviderRegister
  <2>2. req[c] = 0 /\ outbox[c] = {} /\ req = [req EXCEPT ![c] = 0]
    BY <1>a, <1>c, <2>1, Zenon
  <2>3. /\ UNCHANGED <<outbox, nextRequest, pending, reply>>
        /\ registrant' = [registrant EXCEPT ![nextProvider] = c]
        /\ pc' = [pc EXCEPT ![c] = "Registering"] /\ prov' = [prov EXCEPT ![c] = nextProvider]
        /\ req' = [req EXCEPT ![c] = 0]
    BY <1>17, <2>2, Zenon DEF ProviderRegister, ipcVars
  <2>4. \A u \in Threads : req[u] # 0 => registrant'[prov[u]] = registrant[prov[u]]
    <3>1. \A u \in Threads : prov[u] < nextProvider
      BY Zenon DEF LocalsInv, ThreadInv
    <3>2. nextProvider \in Nat
      BY RuntimeBounds DEF LocalsInv, RuntimeTypeOK
    <3> QED BY <2>3, <3>1, <3>2, ReadTypes
  <2>5. \A q \in RequestIds : pending'[q] = IF q = req[c] THEN None ELSE pending[q]
    BY <2>2, <2>3, ReadTypes, Zenon
  <2>6. Elsewhere(c, "Registering", nextProvider, 0)
    BY <2>2, <2>3, <2>4, <2>5, Zenon DEF Elsewhere, InRead, BeforeInsert, AfterInsert
  <2> QED BY <1>a, <2>6, ElsewhereKeeps, Zenon
<1>18. ASSUME NEW c \in Conns, NEW p \in ProviderIds, ProviderUnregister(c, p) PROVE ReadInv'
  <2>1. pc[c] = "Idle"
    BY <1>18, Zenon DEF ProviderUnregister
  <2>2. /\ UNCHANGED <<outbox, nextRequest, pending, reply, registrant>> /\ outbox[c] = {}
        /\ pc' = [pc EXCEPT ![c] = "Unregistering"] /\ prov' = [prov EXCEPT ![c] = p] /\ req' = [req EXCEPT ![c] = 0]
    <3>1. outbox[c] = {} /\ req = [req EXCEPT ![c] = 0] /\ prov = [prov EXCEPT ![c] = prov[c]]
      BY <1>a, <1>b, <1>c, <2>1, Zenon
    <3> QED
      BY <1>18, <3>1, Zenon DEF ProviderUnregister, ipcVars, connVars
  <2> QED
    BY <1>a, <1>d, <2>1, <2>2, Zenon DEF InRead, BeforeInsert, AfterInsert
<1>19. ASSUME NEW c \in Conns, NEW p \in ProviderIds, PromiseCommit(c, p) PROVE ReadInv'
  <2>1. pc[c] = "Idle"
    BY <1>19, Zenon DEF PromiseCommit
  <2>2. /\ UNCHANGED <<outbox, nextRequest, pending, reply, registrant>> /\ outbox[c] = {}
        /\ pc' = [pc EXCEPT ![c] = "Committing"] /\ prov' = [prov EXCEPT ![c] = p] /\ req' = [req EXCEPT ![c] = 0]
    <3>1. outbox[c] = {} /\ req = [req EXCEPT ![c] = 0] /\ prov = [prov EXCEPT ![c] = prov[c]]
      BY <1>a, <1>b, <1>c, <2>1, Zenon
    <3> QED
      BY <1>19, <3>1, Zenon DEF PromiseCommit, ipcVars, connVars
  <2> QED
    BY <1>a, <1>d, <2>1, <2>2, Zenon DEF InRead, BeforeInsert, AfterInsert
<1>20. ASSUME NEW c \in Conns, NEW r \in RequestIds, ProviderReadResponse(c, r) PROVE ReadInv'
  <2>1. PICK result \in ReadResults(c, r) :
           outbox' = [outbox EXCEPT ![c] = {[to |-> pending[r].reader, reply |-> result]}]
    BY <1>20, Zenon DEF ProviderReadResponse
  <2> DEFINE msg == [to |-> pending[r].reader, reply |-> result]
  <2>2. /\ pc[c] = "Idle" /\ pending[r] # None /\ UNCHANGED <<nextRequest, registrant, prov, req, reply>>
        /\ pending' = [pending EXCEPT ![r] = None] /\ pc' = [pc EXCEPT ![c] = "Sending"]
    BY <1>20, Zenon DEF ProviderReadResponse, remove_pending_read
  <2>3. pc[c] \notin InRead /\ outbox[c] = {}
    BY <1>a, <1>c, <2>2, Zenon DEF InRead, BeforeInsert, AfterInsert
  <2>4. result.req = r /\ (result.kind = "Response" => result.from = registrant[pending[r].provider])
    <3>1. \A q \in registered[c] : registrant[q] = c
      BY Zenon DEF SessionInv, RegisteredByConn
    <3>2. CASE pending[r].provider \in registered[c]
      <4>1. \/ result = [kind |-> "Response", from |-> c, req |-> r]
            \/ result = [kind |-> "InvalidData", from |-> None, req |-> r]
        BY <3>2, Zenon DEF ReadResults, Failure
      <4> QED BY <3>1, <3>2, <4>1
    <3>3. CASE pending[r].provider \notin registered[c]
      <4>1. result = [kind |-> "PermissionDenied", from |-> None, req |-> r]
        BY <3>3, Zenon DEF ReadResults, Failure
      <4> QED BY <4>1, Zenon
    <3> QED BY <3>2, <3>3, Zenon
  <2>5. pending' = [q \in RequestIds |-> IF q \in {r} THEN None ELSE pending[q]]
    BY <2>2, ReadTypes, Zenon
  <2>6. msg.to = pending[r].reader /\ msg.reply = result
    BY Zenon
  <2>7. outbox' = [outbox EXCEPT ![c] = {msg}]
    BY <2>1, Zenon
  <2> HIDE DEF msg
  <2>8. Takes(c, {r}, {msg}, "Sending")
    BY <2>2, <2>3, <2>4, <2>5, <2>6, <2>7, Zenon DEF Takes
  <2> QED BY <1>a, <2>8, TakesKeeps, Zenon
<1>21. ASSUME NEW c \in Conns, NEW r \in RequestIds, UnmatchedResponse(c, r) PROVE ReadInv'
  <2>1. pc[c] = "Idle"
    BY <1>21, Zenon DEF UnmatchedResponse
  <2>2. /\ UNCHANGED <<outbox, nextRequest, pending, reply, registrant>> /\ outbox[c] = {}
        /\ pc' = [pc EXCEPT ![c] = "Closing"] /\ prov' = [prov EXCEPT ![c] = 0] /\ req' = [req EXCEPT ![c] = 0]
    <3>1. outbox[c] = {} /\ req = [req EXCEPT ![c] = 0] /\ prov = [prov EXCEPT ![c] = prov[c]]
      BY <1>a, <1>b, <1>c, <2>1, Zenon
    <3> QED
      BY <1>21, <3>1, Zenon DEF UnmatchedResponse, EndLoop, ipcVars, connVars
  <2> QED
    BY <1>a, <1>d, <2>1, <2>2, Zenon DEF InRead, BeforeInsert, AfterInsert
<1>22. ASSUME NEW c \in Conns, register_provider_route(c) PROVE ReadInv'
  <2>1. pc[c] = "Registering"
    BY <1>22, Zenon DEF register_provider_route
  <2>2. /\ UNCHANGED <<outbox, nextRequest, pending, reply, registrant>> /\ outbox[c] = {}
        /\ pc' = [pc EXCEPT ![c] = "Idle"] /\ prov' = [prov EXCEPT ![c] = 0] /\ req' = [req EXCEPT ![c] = 0]
    <3>1. outbox[c] = {} /\ req = [req EXCEPT ![c] = 0] /\ prov = [prov EXCEPT ![c] = prov[c]]
      BY <1>a, <1>b, <1>c, <2>1, Zenon
    <3> QED
      BY <1>22, <3>1, Zenon DEF register_provider_route, Return, ipcVars, connVars
  <2> QED
    BY <1>a, <1>d, <2>1, <2>2, Zenon DEF InRead, BeforeInsert, AfterInsert
<1>23. ASSUME NEW c \in Conns, RegisterFails(c) PROVE ReadInv'
  <2>1. pc[c] = "Registering"
    BY <1>23, Zenon DEF RegisterFails
  <2>2. /\ UNCHANGED <<outbox, nextRequest, pending, reply, registrant>> /\ outbox[c] = {}
        /\ pc' = [pc EXCEPT ![c] = "Closing"] /\ prov' = [prov EXCEPT ![c] = 0] /\ req' = [req EXCEPT ![c] = 0]
    <3>1. outbox[c] = {} /\ req = [req EXCEPT ![c] = 0] /\ prov = [prov EXCEPT ![c] = prov[c]]
      BY <1>a, <1>b, <1>c, <2>1, Zenon
    <3> QED
      BY <1>23, <3>1, Zenon DEF RegisterFails, EndLoop, ipcVars, connVars
  <2> QED
    BY <1>a, <1>d, <2>1, <2>2, Zenon DEF InRead, BeforeInsert, AfterInsert
<1>24. ASSUME NEW c \in Conns, UnregisterValidated(c) PROVE ReadInv'
  <2>1. pc[c] = "Unregistering"
    BY <1>24, Zenon DEF UnregisterValidated
  <2>2. /\ UNCHANGED <<outbox, nextRequest, pending, reply, registrant>> /\ outbox[c] = {}
        /\ pc' = [pc EXCEPT ![c] = "DropRoute"] /\ prov' = [prov EXCEPT ![c] = prov[c]] /\ req' = [req EXCEPT ![c] = 0]
    <3>1. outbox[c] = {} /\ req = [req EXCEPT ![c] = 0] /\ prov = [prov EXCEPT ![c] = prov[c]]
      BY <1>a, <1>b, <1>c, <2>1, Zenon
    <3> QED
      BY <1>24, <3>1, Zenon DEF UnregisterValidated, ipcVars, connVars
  <2> QED
    BY <1>a, <1>d, <2>1, <2>2, Zenon DEF InRead, BeforeInsert, AfterInsert
<1>25. ASSUME NEW c \in Conns, CommitValidated(c) PROVE ReadInv'
  <2>1. pc[c] = "Committing"
    BY <1>25, Zenon DEF CommitValidated
  <2>2. /\ UNCHANGED <<outbox, nextRequest, pending, reply, registrant>> /\ outbox[c] = {}
        /\ pc' = [pc EXCEPT ![c] = "Idle"] /\ prov' = [prov EXCEPT ![c] = 0] /\ req' = [req EXCEPT ![c] = 0]
    <3>1. outbox[c] = {} /\ req = [req EXCEPT ![c] = 0] /\ prov = [prov EXCEPT ![c] = prov[c]]
      BY <1>a, <1>b, <1>c, <2>1, Zenon
    <3> QED
      BY <1>25, <3>1, Zenon DEF CommitValidated, Return, ipcVars, connVars
  <2> QED
    BY <1>a, <1>d, <2>1, <2>2, Zenon DEF InRead, BeforeInsert, AfterInsert
<1>26. ASSUME NEW c \in Conns, CommitRefused(c) PROVE ReadInv'
  <2>1. pc[c] = "Committing"
    BY <1>26, Zenon DEF CommitRefused
  <2>2. /\ UNCHANGED <<outbox, nextRequest, pending, reply, registrant>> /\ outbox[c] = {}
        /\ pc' = [pc EXCEPT ![c] = "Idle"] /\ prov' = [prov EXCEPT ![c] = 0] /\ req' = [req EXCEPT ![c] = 0]
    <3>1. outbox[c] = {} /\ req = [req EXCEPT ![c] = 0] /\ prov = [prov EXCEPT ![c] = prov[c]]
      BY <1>a, <1>b, <1>c, <2>1, Zenon
    <3> QED
      BY <1>26, <3>1, Zenon DEF CommitRefused, Return, ipcVars, connVars
  <2> QED
    BY <1>a, <1>d, <2>1, <2>2, Zenon DEF InRead, BeforeInsert, AfterInsert
<1>27. ASSUME NEW c \in Conns, SendResult(c) PROVE ReadInv'
  <2>1. PICK msg \in outbox[c] : Send(msg)
    BY <1>27, Zenon DEF SendResult
  <2>2. /\ pc[c] = "Sending" /\ pc' = [pc EXCEPT ![c] = "Idle"] /\ outbox' = [outbox EXCEPT ![c] = {}]
        /\ UNCHANGED <<nextRequest, registrant, prov, req, pending>>
    BY <1>27, Zenon DEF SendResult, ipcVars, connVars
  <2>3. outbox[c] \ {msg} = {}
    BY <1>a, <2>1, <2>2, Zenon DEF ReadInv, OutboxOfPlace
  <2>4. Sends(c, msg, "Idle")
    BY <2>1, <2>2, <2>3, Zenon DEF Sends
  <2> QED BY <1>a, <2>4, SendsKeeps, Zenon
<1>28. ASSUME NEW c \in Conns, disconnect_registered_providers(c) PROVE ReadInv'
  <2>1. PICK p \in registered[c] : prov' = [prov EXCEPT ![c] = p]
    BY <1>28, Zenon DEF disconnect_registered_providers
  <2>2. pc[c] = "Closing"
    BY <1>28, Zenon DEF disconnect_registered_providers
  <2>3. outbox[c] = {} /\ req = [req EXCEPT ![c] = 0]
    BY <1>a, <1>c, <2>2, Zenon
  <2>4. /\ UNCHANGED <<outbox, nextRequest, pending, reply, registrant>>
        /\ pc' = [pc EXCEPT ![c] = "DropRoute"] /\ req' = [req EXCEPT ![c] = 0]
    BY <1>28, <2>3, Zenon DEF disconnect_registered_providers, ipcVars
  <2> QED
    BY <1>a, <1>d, <2>1, <2>2, <2>3, <2>4, Zenon DEF InRead, BeforeInsert, AfterInsert
<1>29. ASSUME NEW c \in Conns, HandlerEnds(c) PROVE ReadInv'
  <2>1. pc[c] = "Closing"
    BY <1>29, Zenon DEF HandlerEnds
  <2>2. /\ UNCHANGED <<outbox, nextRequest, pending, reply, registrant>> /\ outbox[c] = {}
        /\ pc' = [pc EXCEPT ![c] = "Closed"] /\ prov' = [prov EXCEPT ![c] = prov[c]] /\ req' = [req EXCEPT ![c] = 0]
    <3>1. outbox[c] = {} /\ req = [req EXCEPT ![c] = 0] /\ prov = [prov EXCEPT ![c] = prov[c]]
      BY <1>a, <1>b, <1>c, <2>1, Zenon
    <3> QED
      BY <1>29, <3>1, Zenon DEF HandlerEnds, ipcVars, connVars
  <2> QED
    BY <1>a, <1>d, <2>1, <2>2, Zenon DEF InRead, BeforeInsert, AfterInsert
<1>30. ASSUME NEW c \in Conns, EndOfRequests(c) PROVE ReadInv'
  <2>1. pc[c] = "Idle"
    BY <1>30, Zenon DEF EndOfRequests
  <2>2. /\ UNCHANGED <<outbox, nextRequest, pending, reply, registrant>> /\ outbox[c] = {}
        /\ pc' = [pc EXCEPT ![c] = "Closing"] /\ prov' = [prov EXCEPT ![c] = 0] /\ req' = [req EXCEPT ![c] = 0]
    <3>1. outbox[c] = {} /\ req = [req EXCEPT ![c] = 0] /\ prov = [prov EXCEPT ![c] = prov[c]]
      BY <1>a, <1>b, <1>c, <2>1, Zenon
    <3> QED
      BY <1>30, <3>1, Zenon DEF EndOfRequests, EndLoop, ipcVars, connVars
  <2> QED
    BY <1>a, <1>d, <2>1, <2>2, Zenon DEF InRead, BeforeInsert, AfterInsert
<1>31. ASSUME NEW c \in Conns, PeerClose(c) PROVE ReadInv'
  <2>1. UNCHANGED <<pending, nextRequest, registrant, pc, prov, req, outbox, reply>>
    BY <1>31, Zenon DEF PeerClose, ipcVars, threadVars
  <2> QED BY <1>0, <2>1, Zenon
<1>32. CASE UNCHANGED vars
  <2>1. UNCHANGED <<pending, nextRequest, registrant, pc, prov, req, outbox, reply>>
    BY <1>32, Zenon DEF vars, ipcVars, connVars, threadVars
  <2> QED BY <1>0, <2>1, Zenon
<1> QED
  BY <1>1, <1>2, <1>3, <1>4, <1>5, <1>6, <1>7, <1>8, <1>9, <1>10, <1>11, <1>12, <1>13, <1>14, <1>15,
     <1>16, <1>17, <1>18, <1>19, <1>20, <1>21, <1>22, <1>23, <1>24, <1>25, <1>26, <1>27, <1>28, <1>29, <1>30, <1>31, <1>32, Zenon
  DEF Next, ReadStep, DisconnectStep, Request, HandlerStep, AwaitClients

\* The read invariants hold in every reachable state.
THEOREM ReadTheorem == Spec => []ReadInv
<1>1. Init => LocalsInv /\ SessionInv /\ ReadInv
  BY LocalsInit, SessionInit, ReadInit, Zenon
<1>2. LocalsInv /\ SessionInv /\ ReadInv /\ [Next]_vars => (LocalsInv /\ SessionInv /\ ReadInv)'
  BY LocalsStep, SessionStep, ReadInvStep, Zenon
<1> QED
  BY <1>1, <1>2, PTL DEF Spec

\* No way out of route_provider_read leaves its pending_reads entry behind.
THEOREM PendingTheorem == Spec => []PendingHasReader
<1>1. ReadInv => PendingHasReader
  BY Zenon DEF ReadInv
<1> QED
  BY <1>1, ReadTheorem, PTL

\* A read that has its entry in the map is owed, is being sent or has got
\* exactly one answer (route_provider_read, complete_provider_read and
\* fail_provider_pending_reads).
THEOREM OneAnswerTheorem == Spec => []OneAnswerPerRead
<1>1. LocalsInv /\ ReadInv => OneAnswerPerRead
  <2> SUFFICES ASSUME LocalsInv, ReadInv, NEW t \in Readers, pc[t] \in AfterInsert
               PROVE  \/ pending[req[t]] # None /\ InFlight(t) = {} /\ reply[t] = None
                      \/ pending[req[t]] = None /\ (\E u \in Threads : InFlight(t) = {u}) /\ reply[t] = None
                      \/ pending[req[t]] = None /\ InFlight(t) = {} /\ reply[t] # None
    BY Zenon DEF OneAnswerPerRead
  <2>1. \A u \in Threads : u \in InFlight(t) <=> \E msg \in outbox[u] : msg.reply.req = req[t]
    BY ReadTypes, Zenon DEF InFlight, ReadInv, OutboxIsOwed
  <2>2. pending[req[t]] # None => InFlight(t) = {} /\ reply[t] = None
    BY <2>1 DEF InFlight, ReadInv, OutboxIsOwed, AnsweredOnce
  <2>3. reply[t] # None => InFlight(t) = {} /\ pending[req[t]] = None
    BY <2>1, Zenon DEF InFlight, ReadInv, AnsweredOnce
  <2>4. \A u, v \in InFlight(t) : u = v
    <3> SUFFICES ASSUME NEW u \in InFlight(t), NEW v \in InFlight(t) PROVE u = v
      BY Zenon
    <3>1. u \in Threads /\ v \in Threads
      BY Zenon DEF InFlight
    <3>2. PICK msg \in outbox[u] : msg.reply.req = req[t]
      BY <2>1, <3>1, Zenon
    <3>3. PICK other \in outbox[v] : other.reply.req = req[t]
      BY <2>1, <3>1, Zenon
    <3> QED BY <3>1, <3>2, <3>3, Zenon DEF ReadInv, OutboxDistinct
  <2>5. InFlight(t) # {} => \E u \in Threads : InFlight(t) = {u}
    BY <2>4 DEF InFlight
  <2>6. pending[req[t]] = None /\ reply[t] = None => InFlight(t) # {}
    BY <2>1, Zenon DEF ReadInv, AnswerOwed
  <2> QED BY <2>2, <2>3, <2>5, <2>6, Zenon
<1> QED
  BY <1>1, LocalsTheorem, ReadTheorem, PTL

\* What a read accepts as its response came in on the connection that
\* registered the provider, and answers that request (complete_provider_read).
THEOREM ResponseTheorem == Spec => []ResponseFromRegistrant
<1>1. ReadInv => ResponseFromRegistrant
  BY Zenon DEF ReadInv, ReplyToRead, ResponseFromRegistrant, AfterInsert
<1> QED
  BY <1>1, ReadTheorem, PTL

-----------------------------------------------------------------------------
(* IpcState implements ProviderService. *)

\* A step that neither begins nor ends a read.
ReadsKept ==
    \A u \in Readers :
        /\ req'[u] # 0 <=> req[u] # 0
        /\ req[u] # 0 => prov'[u] = prov[u]
        /\ req[u] = 0 => reply'[u] = reply[u]

\* The service does not see such a step of its reads ...
LEMMA KeptReads ==
    ASSUME ReadsKept
    PROVE  /\ [t \in Readers |-> IF req'[t] # 0 THEN prov'[t] ELSE 0]
                = [t \in Readers |-> IF req[t] # 0 THEN prov[t] ELSE 0]
           /\ [t \in Readers |-> Outcome(t)'] = [t \in Readers |-> Outcome(t)]
<1>1. ASSUME NEW t \in Readers
      PROVE  /\ (IF req'[t] # 0 THEN prov'[t] ELSE 0) = (IF req[t] # 0 THEN prov[t] ELSE 0)
             /\ Outcome(t)' = Outcome(t)
  BY Zenon DEF ReadsKept, Outcome
<1> QED BY <1>1, Zenon

\* ... and nothing of one that leaves sessions and promises alone as well.
LEMMA Unseen ==
    ASSUME ReadsKept, UNCHANGED <<providers, promiseState, promiseOwner>>
    PROVE  UNCHANGED Service!vars
BY KeptReads, Zenon DEF Service!vars

\* Moves of a thread that is in no read, or that stays in its read.
LEMMA KeepsReads ==
    ASSUME LocalsInv, NEW t \in Threads, UNCHANGED reply,
           \/ UNCHANGED <<req, prov>>
           \/ req[t] = 0 /\ UNCHANGED req /\ \E p : prov' = [prov EXCEPT ![t] = p]
           \/ req[t] = 0 /\ Return(t)
    PROVE  ReadsKept
BY ReadTypes, Zenon DEF ReadsKept, Return

\* A result reaches only a read that has not returned.
LEMMA SendKeepsReads ==
    ASSUME LocalsInv, NEW t \in Threads, NEW msg \in outbox[t], Send(msg), UNCHANGED <<req, prov>>
    PROVE  ReadsKept
BY ReadTypes DEF ReadsKept, Send

\* A read that returns with a result ends in the service.
LEMMA Finishes ==
    ASSUME LocalsInv, NEW t \in Readers, req[t] # 0, Return(t), NEW result \in Reply,
           reply' = [reply EXCEPT ![t] = result],
           UNCHANGED <<providers, promiseState, promiseOwner>>
    PROVE  Service!Next
<1> DEFINE before == [u \in Readers |-> IF req[u] # 0 THEN prov[u] ELSE 0]
           after  == [u \in Readers |-> IF req'[u] # 0 THEN prov'[u] ELSE 0]
           end    == IF result.kind = "Response" THEN "Response" ELSE "Error"
<1>1. /\ t \in Threads /\ req[t] \in RequestIds /\ prov[t] \in ProviderIds /\ 0 \notin ProviderIds
      /\ result # None
  BY ReadTypes, NoneAssumption, Zenon
<1>2. /\ req'[t] = 0 /\ reply'[t] = result
      /\ \A u \in Threads : u # t => req'[u] = req[u] /\ prov'[u] = prov[u] /\ reply'[u] = reply[u]
  BY ReadTypes, <1>1, Zenon DEF Return
<1>3. before[t] # 0 /\ after = [before EXCEPT ![t] = 0]
  <2>1. before[t] # 0
    BY <1>1, Zenon
  <2>2. ASSUME NEW u \in Readers PROVE after[u] = IF u = t THEN 0 ELSE before[u]
    BY <1>2, ReadTypes, Zenon
  <2> HIDE DEF before, after
  <2>3. before = [u \in Readers |-> before[u]] /\ after = [u \in Readers |-> after[u]]
    BY Zenon DEF before, after
  <2> QED BY <2>1, <2>2, <2>3, Zenon
<1>4. ASSUME NEW u \in Readers PROVE Outcome(u)' = IF u = t THEN end ELSE Outcome(u)
  BY <1>1, <1>2, ReadTypes, Zenon DEF Outcome
<1>5. [u \in Readers |-> Outcome(u)'] = [[u \in Readers |-> Outcome(u)] EXCEPT ![t] = end]
  BY <1>4, Zenon
<1>6. Service!Finish(t)
  BY <1>3, <1>5, Zenon DEF Service!Finish
<1> QED BY <1>6, Zenon DEF Service!Next

\* unregister_provider ends a live session with its promises, and changes
\* nothing of one that is over.
LEMMA Ends ==
    ASSUME LocalsInv, SessionInv, ReadsKept, NEW p \in ProviderIds, providers[p] # "Absent",
           unregister_provider(p)
    PROVE  [Service!Next]_(Service!vars)
<1>1. /\ providers' = [providers EXCEPT ![p] = "Disconnected"] /\ promiseOwner' = promiseOwner
      /\ \A m \in PromiseIds : promiseState'[m] =
             IF promiseOwner[m] = p /\ promiseState[m] = "Available" THEN "ProviderGone" ELSE promiseState[m]
      /\ promiseState' = [m \in PromiseIds |-> promiseState'[m]]
  BY Zenon DEF unregister_provider
<1>2. CASE providers[p] = "Live"
  <2>1. ASSUME NEW m \in PromiseIds
        PROVE  promiseState'[m] = "Available" <=>
                  promiseOwner'[m] # 0 /\ providers'[promiseOwner'[m]] = "Live"
    <3>1. /\ promiseState[m] \in {"Absent", "Available", "ProviderGone"}
          /\ promiseState[m] # "Absent" <=> promiseOwner[m] \in ProviderIds
          /\ promiseOwner[m] \in ProviderIds \cup {0} /\ 0 \notin ProviderIds
      BY SessionTypes, ReadTypes, Zenon
    <3>2. /\ promiseState[m] = "Available" => providers[promiseOwner[m]] = "Live"
          /\ promiseState[m] = "ProviderGone" => providers[promiseOwner[m]] = "Disconnected"
      BY Zenon DEF SessionInv, AvailableHasLiveProvider, GoneHasGoneProvider, has_provider
    <3>3. \A q \in ProviderIds : providers'[q] = IF q = p THEN "Disconnected" ELSE providers[q]
      BY <1>1, SessionTypes, Zenon
    <3> QED BY <1>1, <3>1, <3>2, <3>3
  <2>2. {m \in PromiseIds : promiseState'[m] = "Available"} = Service!Available(promiseOwner, providers')
    BY <1>1, <2>1 DEF Service!Available
  <2>3. Service!End(p)
    BY <1>1, <1>2, <2>2, KeptReads, Zenon DEF Service!End
  <2> QED BY <2>3, Zenon DEF Service!Next
<1>3. CASE providers[p] = "Disconnected"
  <2>1. providers' = providers
    BY <1>1, <1>3, SessionTypes, Zenon
  <2>2. \A m \in PromiseIds : promiseState'[m] = promiseState[m]
    BY <1>1, <1>3, Zenon DEF SessionInv, AvailableHasLiveProvider, has_provider
  <2>3. promiseState' = promiseState
    BY <1>1, <2>2, SessionTypes, Zenon
  <2> QED BY <1>1, <2>1, <2>3, Unseen, Zenon
<1> QED BY <1>2, <1>3, SessionTypes, Zenon

\* register_provider opens the session of the next id.
LEMMA Opens ==
    ASSUME LocalsInv, ReadsKept, register_provider
    PROVE  Service!Next
<1>1. nextProvider \in ProviderIds /\ providers[nextProvider] = "Absent"
  BY RuntimeBounds DEF register_provider, LocalsInv, RuntimeTypeOK, ProviderIds, ProvidersAllocated
<1>2. Service!Open(nextProvider)
  BY <1>1, KeptReads, Zenon DEF Service!Open, register_provider
<1> QED BY <1>1, <1>2, Zenon DEF Service!Next

\* commit_promise commits the promise of the next id.
LEMMA Commits ==
    ASSUME LocalsInv, ReadsKept, NEW p \in ProviderIds, commit_promise(p)
    PROVE  Service!Next
<1>1. nextPromise \in PromiseIds /\ promiseOwner[nextPromise] = 0
  BY RuntimeBounds DEF commit_promise, LocalsInv, RuntimeTypeOK, PromiseIds, PromisesAllocated
<1>2. {m \in PromiseIds : promiseState'[m] = "Available"}
        = {m \in PromiseIds : promiseState[m] = "Available"} \cup {nextPromise}
  BY <1>1, SessionTypes DEF commit_promise
<1>3. ASSUME NEW m \in PromiseIds, m = nextPromise PROVE Service!Commit(p, m)
  BY <1>1, <1>2, <1>3, KeptReads, Zenon DEF Service!Commit, commit_promise, has_provider
<1>4. ASSUME NEW m \in PromiseIds, m = nextPromise PROVE Service!Next
  BY <1>3, <1>4, Zenon DEF Service!Next
<1> QED BY <1>1, <1>4, Zenon

\* A planned read starts in the service.
LEMMA Starts ==
    ASSUME LocalsInv, NEW t \in Readers, NEW m \in PromiseIds, BeginRead(t, m)
    PROVE  Service!Next
<1> DEFINE before == [u \in Readers |-> IF req[u] # 0 THEN prov[u] ELSE 0]
           after  == [u \in Readers |-> IF req'[u] # 0 THEN prov'[u] ELSE 0]
<1>1. t \in Threads /\ req[t] = 0
  BY ReadTypes, Zenon DEF BeginRead, LocalsInv, ThreadInv, LocalsOf, InRead, BeforeInsert, AfterInsert, Disconnect
<1>2. /\ req'[t] = nextRequest /\ prov'[t] = promiseOwner[m] /\ nextRequest # 0
      /\ \A u \in Threads : u # t => req'[u] = req[u] /\ prov'[u] = prov[u] /\ reply'[u] = reply[u]
  <2>1. nextRequest # 0
    BY IpcAssumptions DEF LocalsInv, IpcTypeOK
  <2> QED BY <1>1, <2>1, ReadTypes, Zenon DEF BeginRead
<1>3. before[t] = 0 /\ after = [before EXCEPT ![t] = promiseOwner[m]]
  <2>1. before[t] = 0
    BY <1>1, Zenon
  <2>2. ASSUME NEW u \in Readers PROVE after[u] = IF u = t THEN promiseOwner[m] ELSE before[u]
    BY <1>2, ReadTypes, Zenon
  <2> HIDE DEF before, after
  <2>3. before = [u \in Readers |-> before[u]] /\ after = [u \in Readers |-> after[u]]
    BY Zenon DEF before, after
  <2> QED BY <2>1, <2>2, <2>3, Zenon
<1>4. ASSUME NEW u \in Readers PROVE Outcome(u)' = IF u = t THEN "None" ELSE Outcome(u)
  BY <1>1, <1>2, ReadTypes, Zenon DEF Outcome
<1>5. [u \in Readers |-> Outcome(u)'] = [[u \in Readers |-> Outcome(u)] EXCEPT ![t] = "None"]
  BY <1>4, Zenon
<1>6. Service!Start(t, m)
  BY <1>3, <1>5, Zenon DEF Service!Start, BeginRead, plan_provider_read, runtimeVars
<1> QED BY <1>6, Zenon DEF Service!Next

\* Every step of the daemon is a step of the service, or none.
LEMMA ServiceStep == LocalsInv /\ SessionInv /\ [Next]_vars => [Service!Next]_(Service!vars)
<1> SUFFICES ASSUME LocalsInv, SessionInv, [Next]_vars PROVE [Service!Next]_(Service!vars)
  BY Zenon
<1>0. Readers \subseteq Threads /\ Conns \subseteq Threads
  BY ReadTypes, Zenon
\* Where a thread is not in a read.
<1>i. ASSUME NEW t \in Threads,
             \/ pc[t] \in {"Idle", "Closing"} \cup Handler
             \/ pc[t] \in Disconnect /\ task[t] # "Read"
      PROVE  req[t] = 0
  BY <1>i, Zenon DEF LocalsInv, ThreadInv, LocalsOf, InRead, BeforeInsert, AfterInsert, Disconnect, Handler
<1>f. ASSUME NEW kind \in ReplyKinds, NEW r \in RequestIds PROVE Failure(kind, r) \in Reply
  BY Zenon DEF Failure, Reply
<1>1. ASSUME NEW t \in Readers, ReadStep(t) PROVE [Service!Next]_(Service!vars)
  <2>0. t \in Threads
    BY <1>0, Zenon
  <2>1. CASE CloneRoute(t) \/ WriteRequest(t) \/ WriteFails(t) \/ Timeout(t) \/ RemoveUnwritten(t)
    <3>1. UNCHANGED <<reply, req, prov, providers, promiseState, promiseOwner>>
      BY <2>1, Zenon DEF CloneRoute, WriteRequest, WriteFails, Timeout, RemoveUnwritten, runtimeVars
    <3> QED BY <2>0, <3>1, KeepsReads, Unseen, Zenon
  <2>2. CASE RouteMissing(t) \/ Receive(t) \/ RemoveTimedOut(t)
    <3>1. pc[t] \in InRead
      BY <2>2, Zenon DEF RouteMissing, Receive, RemoveTimedOut, InRead, BeforeInsert, AfterInsert
    <3>2. req[t] # 0 /\ req[t] \in RequestIds /\ reply \in [Threads -> Reply \cup {None}]
      BY <2>0, <3>1, ReadTypes, Zenon
    <3>3. Return(t) /\ UNCHANGED <<providers, promiseState, promiseOwner>>
      BY <2>2, Zenon DEF RouteMissing, Receive, RemoveTimedOut, runtimeVars
    <3>4. CASE Receive(t)
      <4>1. reply[t] \in Reply /\ reply' = [reply EXCEPT ![t] = reply[t]]
        BY <2>0, <3>2, <3>4, Zenon DEF Receive
      <4> QED BY <3>2, <3>3, <4>1, Finishes, Zenon
    <3>5. CASE RouteMissing(t)
      <4>1. /\ Failure("NotFound", req[t]) \in Reply
            /\ reply' = [reply EXCEPT ![t] = Failure("NotFound", req[t])]
        BY <1>f, <3>2, <3>5, Zenon DEF RouteMissing, ReplyKinds
      <4> QED BY <3>2, <3>3, <4>1, Finishes, Zenon
    <3>6. CASE RemoveTimedOut(t)
      <4>1. /\ Failure("TimedOut", req[t]) \in Reply
            /\ reply' = [reply EXCEPT ![t] = Failure("TimedOut", req[t])]
        BY <1>f, <3>2, <3>6, Zenon DEF RemoveTimedOut, ReplyKinds
      <4> QED BY <3>2, <3>3, <4>1, Finishes, Zenon
    <3> QED BY <2>2, <3>4, <3>5, <3>6, Zenon
  <2>3. CASE InsertPending(t)
    <3>1. pc[t] \in InRead /\ UNCHANGED <<providers, promiseState, promiseOwner>>
      BY <2>3, Zenon DEF InsertPending, InRead, BeforeInsert, runtimeVars
    <3>2. req[t] # 0 /\ req[t] \in RequestIds
      BY <2>0, <3>1, ReadTypes, Zenon
    <3>3. CASE pending[req[t]] # None
      <4>1. /\ Failure("InvalidData", req[t]) \in Reply /\ Return(t)
            /\ reply' = [reply EXCEPT ![t] = Failure("InvalidData", req[t])]
        BY <1>f, <2>3, <3>2, <3>3, Zenon DEF InsertPending, ReplyKinds
      <4> QED BY <3>1, <3>2, <4>1, Finishes, Zenon
    <3>4. CASE ~(pending[req[t]] # None)
      <4>1. UNCHANGED <<reply, req, prov>>
        BY <2>3, <3>4, Zenon DEF InsertPending
      <4> QED BY <2>0, <3>1, <4>1, KeepsReads, Unseen, Zenon
    <3> QED BY <3>3, <3>4, Zenon
  <2> QED BY <1>1, <2>1, <2>2, <2>3, Zenon DEF ReadStep
<1>2. ASSUME NEW t \in Threads, DisconnectStep(t) PROVE [Service!Next]_(Service!vars)
  <2>1. CASE DropRoute(t) \/ fail_provider_pending_reads(t)
    <3>1. UNCHANGED <<reply, req, prov, providers, promiseState, promiseOwner>>
      BY <2>1, Zenon DEF DropRoute, fail_provider_pending_reads, runtimeVars
    <3> QED BY <3>1, KeepsReads, Unseen, Zenon
  <2>2. CASE MarkGone(t)
    <3>1. UNCHANGED <<reply, req, prov>> /\ unregister_provider(prov[t]) /\ pc[t] \in ForProvider
      BY <2>2, Zenon DEF MarkGone, ForProvider, Disconnect
    <3>2. prov[t] \in ProviderIds /\ providers[prov[t]] # "Absent"
      BY <3>1, SessionTypes, Zenon
    <3>3. ReadsKept
      BY <3>1, KeepsReads, Zenon
    <3> QED BY <3>1, <3>2, <3>3, Ends, Zenon
  <2>3. CASE SendFailure(t)
    <3>1. UNCHANGED <<req, prov, providers, promiseState, promiseOwner>>
      BY <2>3, Zenon DEF SendFailure, runtimeVars
    <3>2. PICK msg \in outbox[t] : Send(msg)
      BY <2>3, Zenon DEF SendFailure
    <3> QED BY <3>1, <3>2, SendKeepsReads, Unseen, Zenon
  <2>4. CASE DisconnectedClosing(t)
    <3>1. /\ UNCHANGED <<reply, req, providers, promiseState, promiseOwner>>
          /\ prov' = [prov EXCEPT ![t] = 0]
      BY <2>4, Zenon DEF DisconnectedClosing, EndLoop, runtimeVars
    <3>2. req[t] = 0
      BY <1>i, <2>4, Zenon DEF DisconnectedClosing, Disconnect
    <3> QED BY <3>1, <3>2, KeepsReads, Unseen, Zenon
  <2>5. CASE Disconnected(t)
    <3>1. Return(t) /\ UNCHANGED <<providers, promiseState, promiseOwner>>
      BY <2>5, Zenon DEF Disconnected, runtimeVars
    <3>2. CASE task[t] = "Read"
      <4>1. req[t] # 0 /\ t \in Readers
        BY <3>2, Zenon DEF LocalsInv, ThreadInv, LocalsOf
      <4>2. req[t] \in RequestIds
        BY <4>1, ReadTypes, Zenon
      <4>3. /\ Failure("BrokenPipe", req[t]) \in Reply
            /\ reply' = [reply EXCEPT ![t] = Failure("BrokenPipe", req[t])]
        BY <1>f, <2>5, <3>2, <4>2, Zenon DEF Disconnected, ReplyKinds
      <4> QED BY <3>1, <4>1, <4>3, Finishes, Zenon
    <3>3. CASE task[t] # "Read"
      <4>1. req[t] = 0
        BY <1>i, <2>5, <3>3, Zenon DEF Disconnected, Disconnect
      <4>2. reply' = reply
        BY <2>5, <3>3, ReadTypes, Zenon DEF Disconnected
      <4> QED BY <3>1, <4>1, <4>2, KeepsReads, Unseen, Zenon
    <3> QED BY <3>2, <3>3, Zenon
  <2> QED BY <1>2, <2>1, <2>2, <2>3, <2>4, <2>5, Zenon DEF DisconnectStep
<1>3. ASSUME NEW c \in Conns, Request(c) \/ EndOfRequests(c) PROVE [Service!Next]_(Service!vars)
  <2>0. c \in Threads
    BY <1>0, Zenon
  <2>1. pc[c] = "Idle"
    BY <1>3, Zenon DEF Request, EndOfRequests, ProviderRegister, ProviderUnregister, PromiseCommit, ProviderReadResponse,
       UnmatchedResponse
  <2>2. req[c] = 0
    BY <1>i, <2>0, <2>1, Zenon
  <2>3. reply' = reply /\ req' = req /\ \E p : prov' = [prov EXCEPT ![c] = p]
    <3>1. prov = [prov EXCEPT ![c] = prov[c]]
      BY ReadTypes, Zenon
    <3> QED BY <1>3, <3>1, Zenon DEF Request, EndOfRequests, ProviderRegister, ProviderUnregister, PromiseCommit,
               ProviderReadResponse, UnmatchedResponse, EndLoop
  <2>4. ReadsKept
    BY <2>0, <2>2, <2>3, KeepsReads, Zenon
  <2>5. CASE ProviderRegister(c)
    BY <2>4, <2>5, Opens, Zenon DEF ProviderRegister
  <2>6. CASE ~ProviderRegister(c)
    <3>1. UNCHANGED <<providers, promiseState, promiseOwner>>
      BY <1>3, <2>6, Zenon DEF Request, EndOfRequests, ProviderUnregister, PromiseCommit, ProviderReadResponse,
         UnmatchedResponse, runtimeVars
    <3> QED BY <2>4, <3>1, Unseen, Zenon
  <2> QED BY <2>5, <2>6, Zenon
<1>4. ASSUME NEW c \in Conns, HandlerStep(c) PROVE [Service!Next]_(Service!vars)
  <2>0. c \in Threads
    BY <1>0, Zenon
  <2>1. pc[c] \in Handler
    BY <1>4, Zenon DEF HandlerStep, register_provider_route, RegisterFails, UnregisterValidated, CommitValidated,
       CommitRefused, SendResult, disconnect_registered_providers, HandlerEnds, Handler
  <2>2. req[c] = 0
    BY <1>i, <2>0, <2>1, Zenon
  <2>3. CASE SendResult(c)
    <3>1. UNCHANGED <<req, prov, providers, promiseState, promiseOwner>>
      BY <2>3, Zenon DEF SendResult, runtimeVars
    <3>2. PICK msg \in outbox[c] : Send(msg)
      BY <2>3, Zenon DEF SendResult
    <3> QED BY <2>0, <3>1, <3>2, SendKeepsReads, Unseen, Zenon
  <2>4. CASE ~SendResult(c)
    <3>1. /\ reply' = reply
          /\ \/ UNCHANGED <<req, prov>>
             \/ UNCHANGED req /\ \E p : prov' = [prov EXCEPT ![c] = p]
             \/ Return(c)
      BY <1>4, <2>4, Zenon DEF HandlerStep, register_provider_route, RegisterFails, UnregisterValidated, CommitValidated,
         CommitRefused, disconnect_registered_providers, HandlerEnds, EndLoop
    <3>2. ReadsKept
      BY <2>0, <2>2, <3>1, KeepsReads, Zenon
    <3>3. CASE UnregisterValidated(c) \/ CommitValidated(c)
      <4>1. pc[c] \in ForProvider
        BY <3>3, Zenon DEF UnregisterValidated, CommitValidated, ForProvider
      <4>2. prov[c] \in ProviderIds /\ providers[prov[c]] # "Absent"
        BY <2>0, <4>1, SessionTypes, Zenon
      <4> QED BY <3>2, <3>3, <4>2, Ends, Commits, Zenon DEF UnregisterValidated, CommitValidated
    <3>4. CASE ~UnregisterValidated(c) /\ ~CommitValidated(c)
      <4>1. UNCHANGED <<providers, promiseState, promiseOwner>>
        BY <1>4, <2>4, <3>4, Zenon DEF HandlerStep, register_provider_route, RegisterFails, CommitRefused,
           disconnect_registered_providers, HandlerEnds, runtimeVars
      <4> QED BY <3>2, <4>1, Unseen, Zenon
    <3> QED BY <3>3, <3>4, Zenon
  <2> QED BY <2>3, <2>4, Zenon
<1>5. ASSUME \/ \E c \in Conns : PeerClose(c)
             \/ AwaitClients
             \/ UNCHANGED vars
      PROVE  UNCHANGED Service!vars
  <2>1. UNCHANGED <<reply, req, prov, providers, promiseState, promiseOwner>>
    BY <1>5, Zenon DEF PeerClose, AwaitClients, vars, threadVars, runtimeVars
  <2> QED BY <2>1, Unseen, Zenon DEF ReadsKept
<1> QED BY <1>1, <1>2, <1>3, <1>4, <1>5, Starts, Zenon DEF Next

\* The daemon's threads, locks and messages implement the one-step service of
\* ProviderService, whatever their number.
THEOREM ServiceTheorem == Spec => ImplementsService
<1>1. Init => Service!Init
  BY IpcAssumptions DEF Init, RuntimeInit, Service!Init, Outcome, Threads
<1> QED
  BY <1>1, ServiceStep, LocalsTheorem, SessionTheorem, PTL DEF Spec, ImplementsService, Service!Spec
=============================================================================
