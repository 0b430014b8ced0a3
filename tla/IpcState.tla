------------------------------ MODULE IpcState ------------------------------
(***************************************************************************)
(* The daemon's shared IPC state and the threads that work on it: one      *)
(* thread per client connection (handle_client_with_state) and the threads *)
(* that read promised content (route_provider_read), which are the FUSE    *)
(* thread and the connection threads that serve Materialize.  A thread's   *)
(* step is what it does under one lock: the runtime mutex, the             *)
(* provider_routes mutex, the pending_reads mutex, a route's writer mutex  *)
(* or an mpsc channel operation.  Between two steps every other thread may *)
(* run.                                                                    *)
(***************************************************************************)
EXTENDS Runtime

CONSTANTS
    Conns,          \* client connections; each is also its handler thread
    Readers,        \* threads that read promised content; may meet Conns
    Strays,         \* connections whose peer may answer any request id, any
                    \* number of times; other peers answer what they were sent, once
    MaxRequests,    \* bound on next_read_request_id
    None            \* no connection, no thread, no entry

Threads    == Conns \cup Readers
RequestIds == 1 .. MaxRequests

ASSUME IpcAssumptions ==
    /\ Strays \subseteq Conns
    /\ MaxRequests \in Nat
    /\ None \notin Threads

VARIABLES
    routes,         \* provider_routes: the connection whose stream the route clones
    pending,        \* pending_reads: provider_id, and the reader holding the receiver
    nextRequest,    \* next_read_request_id
    registered,     \* registered_providers of each handler thread
    registrant,     \* the connection each provider was registered on
    openPeers,      \* connections whose client end is open
    delivered,      \* request frames the peer has been sent and has not answered
    pc,             \* where each thread is
    task,           \* what a thread inside disconnect_provider_id returns to
    prov,           \* the provider the thread's current call is about
    req,            \* the request id of the thread's current read
    route,          \* the ProviderRoute the reader cloned
    outbox,         \* removed PendingReads the thread has yet to send a result to
    reply           \* what the reader's channel holds, then what its read returned

ipcVars    == <<routes, pending, nextRequest>>
connVars   == <<registered, registrant, openPeers, delivered>>
threadVars == <<pc, task, prov, req, route, outbox, reply>>
vars       == <<runtimeVars, ipcVars, connVars, threadVars>>

-----------------------------------------------------------------------------
PendingRead == [provider : ProviderIds, reader : Threads]

ReplyKinds ==
    {"Response", "NotFound", "PermissionDenied", "InvalidData", "BrokenPipe", "TimedOut"}
Reply   == [kind : ReplyKinds, from : Conns \cup {None}, req : RequestIds]
Message == [to : Threads, reply : Reply]

\* None stands for the absence of each of these.
ASSUME NoneAssumption == None \notin PendingRead \cup Reply

Failure(kind, r) == [kind |-> kind, from |-> None, req |-> r]

\* A reader is in route_provider_read at these places, before and after it
\* has put its PendingRead into the map.
BeforeInsert == {"Planned", "Routed"}
AfterInsert  == {"Inserted", "Waiting", "TimedOut", "WriteFailed"}
\* disconnect_provider_id, one place per lock it takes.
Disconnect   == {"DropRoute", "MarkGone", "FailPending", "SendFailures"}
Handler      == {"Registering", "Unregistering", "Committing", "Sending", "Closing", "Closed"}
Places       == {"Idle"} \cup BeforeInsert \cup AfterInsert \cup Disconnect \cup Handler

Tasks        == {"None", "Read", "Unregister", "Close"}

IpcTypeOK ==
    /\ routes \in [ProviderIds -> Conns \cup {None}]
    /\ pending \in [RequestIds -> PendingRead \cup {None}]
    /\ nextRequest \in 1 .. MaxRequests + 1
    /\ registered \in [Conns -> SUBSET ProviderIds]
    /\ registrant \in [ProviderIds -> Conns \cup {None}]
    /\ openPeers \subseteq Conns
    /\ delivered \in [Conns -> SUBSET RequestIds]

ThreadTypeOK ==
    /\ pc \in [Threads -> Places]
    /\ task \in [Threads -> Tasks]
    /\ prov \in [Threads -> ProviderIds \cup {0}]
    /\ req \in [Threads -> RequestIds \cup {0}]

ReadTypeOK ==
    /\ route \in [Threads -> Conns \cup {None}]
    /\ outbox \in [Threads -> SUBSET Message]
    /\ reply \in [Threads -> Reply \cup {None}]

TypeOK == RuntimeTypeOK /\ IpcTypeOK /\ ThreadTypeOK /\ ReadTypeOK

\* IpcState::new; every connection is accepted and has said hello.
Init ==
    /\ RuntimeInit
    /\ routes = [p \in ProviderIds |-> None]
    /\ pending = [r \in RequestIds |-> None]
    /\ nextRequest = 1
    /\ registered = [c \in Conns |-> {}]
    /\ registrant = [p \in ProviderIds |-> None]
    /\ openPeers = Conns
    /\ delivered = [c \in Conns |-> {}]
    /\ pc = [t \in Threads |-> "Idle"]
    /\ task = [t \in Threads |-> "None"]
    /\ prov = [t \in Threads |-> 0]
    /\ req = [t \in Threads |-> 0]
    /\ route = [t \in Threads |-> None]
    /\ outbox = [t \in Threads |-> {}]
    /\ reply = [t \in Threads |-> None]

\* Thread t leaves the handler or read it is in, and its locals with it.
Return(t) ==
    /\ pc' = [pc EXCEPT ![t] = "Idle"]
    /\ prov' = [prov EXCEPT ![t] = 0]
    /\ req' = [req EXCEPT ![t] = 0]
    /\ route' = [route EXCEPT ![t] = None]

\* Handler thread c leaves its request loop.
EndLoop(c) ==
    /\ pc' = [pc EXCEPT ![c] = "Closing"]
    /\ task' = [task EXCEPT ![c] = "Close"]
    /\ prov' = [prov EXCEPT ![c] = 0]

-----------------------------------------------------------------------------
(* route_provider_read: a reader's steps. *)

\* The reader's plan (under the runtime lock) names a live provider, and the
\* request takes the next id.
BeginRead(t, m) ==
    /\ pc[t] = "Idle"
    /\ plan_provider_read(m)
    /\ nextRequest <= MaxRequests
    /\ pc' = [pc EXCEPT ![t] = "Planned"]
    /\ prov' = [prov EXCEPT ![t] = promiseOwner[m]]
    /\ req' = [req EXCEPT ![t] = nextRequest]
    /\ reply' = [reply EXCEPT ![t] = None]
    /\ nextRequest' = nextRequest + 1
    /\ UNCHANGED <<runtimeVars, routes, pending, connVars, task, route, outbox>>

\* provider_routes.get(..).cloned()
CloneRoute(t) ==
    /\ pc[t] = "Planned"
    /\ routes[prov[t]] # None
    /\ pc' = [pc EXCEPT ![t] = "Routed"]
    /\ route' = [route EXCEPT ![t] = routes[prov[t]]]
    /\ UNCHANGED <<runtimeVars, ipcVars, connVars, task, prov, req, outbox, reply>>

\* "provider not connected"
RouteMissing(t) ==
    /\ pc[t] = "Planned"
    /\ routes[prov[t]] = None
    /\ Return(t)
    /\ reply' = [reply EXCEPT ![t] = Failure("NotFound", req[t])]
    /\ UNCHANGED <<runtimeVars, ipcVars, connVars, task, outbox>>

\* The new entry replaces one with the same id, which is then an error.
InsertPending(t) ==
    LET duplicate == pending[req[t]] # None IN
    /\ pc[t] = "Routed"
    /\ pending' = [pending EXCEPT ![req[t]] = [provider |-> prov[t], reader |-> t]]
    /\ IF duplicate
       THEN /\ Return(t)
            /\ reply' = [reply EXCEPT ![t] = Failure("InvalidData", req[t])]
       ELSE /\ pc' = [pc EXCEPT ![t] = "Inserted"]
            /\ UNCHANGED <<prov, req, route, reply>>
    /\ UNCHANGED <<runtimeVars, routes, nextRequest, connVars, task, outbox>>

\* write_frame on the cloned stream: it succeeds while the peer's end is
\* open, whether or not the handler thread still runs.
WriteRequest(t) ==
    /\ pc[t] = "Inserted"
    /\ route[t] \in openPeers
    /\ delivered' = [delivered EXCEPT ![route[t]] = @ \cup {req[t]}]
    /\ pc' = [pc EXCEPT ![t] = "Waiting"]
    /\ UNCHANGED <<runtimeVars, ipcVars, registered, registrant, openPeers,
                   task, prov, req, route, outbox, reply>>

WriteFails(t) ==
    /\ pc[t] = "Inserted"
    /\ route[t] \notin openPeers
    /\ pc' = [pc EXCEPT ![t] = "WriteFailed"]
    /\ UNCHANGED <<runtimeVars, ipcVars, connVars, task, prov, req, route, outbox, reply>>

\* recv_timeout returns what the channel holds, which is what the call returns.
Receive(t) ==
    /\ pc[t] = "Waiting"
    /\ reply[t] # None
    /\ Return(t)
    /\ UNCHANGED <<runtimeVars, ipcVars, connVars, task, outbox, reply>>

\* Mutant: recv instead of recv_timeout.
TimeoutNever(t) ==
    /\ pc[t] = "Waiting"
    /\ FALSE
    /\ UNCHANGED vars

\* PROVIDER_READ_TIMEOUT passes with the channel empty.
Timeout(t) ==
    /\ pc[t] = "Waiting"
    /\ reply[t] = None
    /\ pc' = [pc EXCEPT ![t] = "TimedOut"]
    /\ UNCHANGED <<runtimeVars, ipcVars, connVars, task, prov, req, route, outbox, reply>>

remove_pending_read(r) == pending' = [pending EXCEPT ![r] = None]

\* Mutant: the timed-out read leaves its entry in the map.
RemoveTimedOutForgets(t) ==
    /\ pc[t] = "TimedOut"
    /\ Return(t)
    /\ reply' = [reply EXCEPT ![t] = Failure("TimedOut", req[t])]
    /\ UNCHANGED <<runtimeVars, ipcVars, connVars, task, outbox>>

RemoveTimedOut(t) ==
    /\ pc[t] = "TimedOut"
    /\ remove_pending_read(req[t])
    /\ Return(t)
    /\ reply' = [reply EXCEPT ![t] = Failure("TimedOut", req[t])]
    /\ UNCHANGED <<runtimeVars, routes, nextRequest, connVars, task, outbox>>

\* After a failed write the reader itself disconnects the provider.
RemoveUnwritten(t) ==
    /\ pc[t] = "WriteFailed"
    /\ remove_pending_read(req[t])
    /\ pc' = [pc EXCEPT ![t] = "DropRoute"]
    /\ task' = [task EXCEPT ![t] = "Read"]
    /\ UNCHANGED <<runtimeVars, routes, nextRequest, connVars, prov, req, route, outbox, reply>>

-----------------------------------------------------------------------------
(* disconnect_provider_id(prov[t]), called by a reader whose write failed, *)
(* by ProviderUnregister and by a handler thread whose connection ended.   *)

\* Mutant: the route stays.
DropRouteForgets(t) ==
    /\ pc[t] = "DropRoute"
    /\ pc' = [pc EXCEPT ![t] = "MarkGone"]
    /\ UNCHANGED <<runtimeVars, ipcVars, connVars, task, prov, req, route, outbox, reply>>

DropRoute(t) ==
    /\ pc[t] = "DropRoute"
    /\ routes' = [routes EXCEPT ![prov[t]] = None]
    /\ pc' = [pc EXCEPT ![t] = "MarkGone"]
    /\ UNCHANGED <<runtimeVars, pending, nextRequest, connVars, task, prov, req, route,
                   outbox, reply>>

MarkGone(t) ==
    /\ pc[t] = "MarkGone"
    /\ unregister_provider(prov[t])
    /\ pc' = [pc EXCEPT ![t] = "FailPending"]
    /\ UNCHANGED <<ipcVars, connVars, task, prov, req, route, outbox, reply>>

\* Mutant: the entries are answered but not removed.
fail_provider_pending_reads_in_place(t) ==
    LET failed == {r \in RequestIds : pending[r] # None /\ pending[r].provider = prov[t]} IN
    /\ pc[t] = "FailPending"
    /\ outbox' = [outbox EXCEPT ![t] =
                    {[to |-> pending[r].reader, reply |-> Failure("BrokenPipe", r)] : r \in failed}]
    /\ pc' = [pc EXCEPT ![t] = "SendFailures"]
    /\ UNCHANGED <<runtimeVars, ipcVars, connVars, task, prov, req, route, reply>>

\* fail_provider_pending_reads takes the provider's entries out of the map
\* under the lock, and sends to their channels after releasing it.
fail_provider_pending_reads(t) ==
    LET failed == {r \in RequestIds : pending[r] # None /\ pending[r].provider = prov[t]} IN
    /\ pc[t] = "FailPending"
    /\ pending' = [r \in RequestIds |-> IF r \in failed THEN None ELSE pending[r]]
    /\ outbox' = [outbox EXCEPT ![t] =
                    {[to |-> pending[r].reader, reply |-> Failure("BrokenPipe", r)] : r \in failed}]
    /\ pc' = [pc EXCEPT ![t] = "SendFailures"]
    /\ UNCHANGED <<runtimeVars, routes, nextRequest, connVars, task, prov, req, route, reply>>

\* sender.send: it reaches the reader while that still runs the read the
\* sender was made for, and is lost once the receiver is dropped.
Send(msg) ==
    reply' = [reply EXCEPT ![msg.to] =
                IF req[msg.to] = msg.reply.req THEN msg.reply ELSE @]

SendFailure(t) ==
    /\ pc[t] = "SendFailures"
    /\ \E msg \in outbox[t] :
          /\ Send(msg)
          /\ outbox' = [outbox EXCEPT ![t] = @ \ {msg}]
    /\ UNCHANGED <<runtimeVars, ipcVars, connVars, pc, task, prov, req, route>>

\* disconnect_provider_id returns to disconnect_registered_providers ...
DisconnectedClosing(t) ==
    /\ pc[t] = "SendFailures"
    /\ outbox[t] = {}
    /\ task[t] = "Close"
    /\ EndLoop(t)
    /\ UNCHANGED <<runtimeVars, ipcVars, connVars, req, route, outbox, reply>>

\* ... or to ProviderUnregister, which replies, or to the reader, which
\* returns the error of its write.
Disconnected(t) ==
    /\ pc[t] = "SendFailures"
    /\ outbox[t] = {}
    /\ task[t] \in {"Read", "Unregister"}
    /\ Return(t)
    /\ task' = [task EXCEPT ![t] = "None"]
    /\ reply' = [reply EXCEPT ![t] =
                   IF task[t] = "Read" THEN Failure("BrokenPipe", req[t]) ELSE @]
    /\ UNCHANGED <<runtimeVars, ipcVars, connVars, outbox>>

-----------------------------------------------------------------------------
(* handle_client_requests: a handler thread's steps. *)

\* The client closes its end, or dies.
PeerClose(c) ==
    /\ c \in openPeers
    /\ openPeers' = openPeers \ {c}
    /\ UNCHANGED <<runtimeVars, ipcVars, registered, registrant, delivered, threadVars>>

\* Request::ProviderRegister, under the runtime lock.
ProviderRegister(c) ==
    /\ pc[c] = "Idle"
    /\ register_provider
    /\ prov' = [prov EXCEPT ![c] = nextProvider]
    /\ registrant' = [registrant EXCEPT ![nextProvider] = c]
    /\ pc' = [pc EXCEPT ![c] = "Registering"]
    /\ UNCHANGED <<ipcVars, registered, openPeers, delivered, task, req, route, outbox, reply>>

\* The owner token, register_provider_route, registered_providers.push and the
\* reply.  Nobody can name the provider before the reply, so that only the
\* insertion of the route is visible to other threads.
register_provider_route(c) ==
    /\ pc[c] = "Registering"
    /\ routes' = [routes EXCEPT ![prov[c]] = c]
    /\ registered' = [registered EXCEPT ![c] = @ \cup {prov[c]}]
    /\ Return(c)
    /\ UNCHANGED <<runtimeVars, pending, nextRequest, registrant, openPeers, delivered,
                   task, outbox, reply>>

\* generate_provider_owner_token or try_clone fails: the error ends the
\* request loop before the provider is pushed.
RegisterFails(c) ==
    /\ pc[c] = "Registering"
    /\ EndLoop(c)
    /\ UNCHANGED <<runtimeVars, ipcVars, connVars, req, route, outbox, reply>>

\* validate_provider_owner, for a request that carries the owner token; with
\* any other token, or without a route, the request is refused and changes
\* nothing.
validate_provider_owner(p) == routes[p] # None

ProviderUnregister(c, p) ==
    /\ pc[c] = "Idle"
    /\ validate_provider_owner(p)
    /\ pc' = [pc EXCEPT ![c] = "Unregistering"]
    /\ prov' = [prov EXCEPT ![c] = p]
    /\ UNCHANGED <<runtimeVars, ipcVars, connVars, task, req, route, outbox, reply>>

\* runtime.unregister_provider and registered_providers.retain; then
\* disconnect_provider.
UnregisterValidated(c) ==
    /\ pc[c] = "Unregistering"
    /\ unregister_provider(prov[c])
    /\ registered' = [registered EXCEPT ![c] = @ \ {prov[c]}]
    /\ pc' = [pc EXCEPT ![c] = "DropRoute"]
    /\ task' = [task EXCEPT ![c] = "Unregister"]
    /\ UNCHANGED <<ipcVars, registrant, openPeers, delivered, prov, req, route, outbox, reply>>

\* handle_promise_commit, on a daemon whose mount is ready for commits.
PromiseCommit(c, p) ==
    /\ pc[c] = "Idle"
    /\ validate_provider_owner(p)
    /\ pc' = [pc EXCEPT ![c] = "Committing"]
    /\ prov' = [prov EXCEPT ![c] = p]
    /\ UNCHANGED <<runtimeVars, ipcVars, connVars, task, req, route, outbox, reply>>

CommitValidated(c) ==
    /\ pc[c] = "Committing"
    /\ commit_promise(prov[c])
    /\ Return(c)
    /\ UNCHANGED <<ipcVars, connVars, task, outbox, reply>>

\* commit_promise refuses an owner that is no longer live (and, in the model,
\* a promise beyond the bound).
CommitRefused(c) ==
    /\ pc[c] = "Committing"
    /\ ~has_provider(prov[c]) \/ nextPromise > MaxPromises
    /\ Return(c)
    /\ UNCHANGED <<runtimeVars, ipcVars, connVars, task, outbox, reply>>

\* Mutant: whoever answers, the answer is taken.
ReadResultsFromAnyone(c, r) == {[kind |-> "Response", from |-> c, req |-> r]}

\* The result complete_provider_read makes of a response to entry e that
\* came in on c; a response longer than was asked for is InvalidData.
ReadResults(c, r) ==
    IF pending[r].provider \in registered[c]
    THEN {[kind |-> "Response", from |-> c, req |-> r]}
            \cup (IF c \in Strays THEN {Failure("InvalidData", r)} ELSE {})
    ELSE {Failure("PermissionDenied", r)}

\* The responses the peer of c may send.
MayAnswer(c, r) == r \in delivered[c] \/ (c \in Strays /\ r < nextRequest)

\* Request::ProviderReadResponse: complete_provider_read removes the entry
\* before it looks whose it is.
ProviderReadResponse(c, r) ==
    /\ pc[c] = "Idle"
    /\ MayAnswer(c, r)
    /\ pending[r] # None
    /\ remove_pending_read(r)
    /\ \E result \in ReadResults(c, r) :
          outbox' = [outbox EXCEPT ![c] = {[to |-> pending[r].reader, reply |-> result]}]
    /\ delivered' = [delivered EXCEPT ![c] = @ \ {r}]
    /\ pc' = [pc EXCEPT ![c] = "Sending"]
    /\ UNCHANGED <<runtimeVars, routes, nextRequest, registered, registrant, openPeers,
                   task, prov, req, route, reply>>

\* A response that matches no entry is an error, and ends the connection.
UnmatchedResponse(c, r) ==
    /\ pc[c] = "Idle"
    /\ MayAnswer(c, r)
    /\ pending[r] = None
    /\ EndLoop(c)
    /\ delivered' = [delivered EXCEPT ![c] = @ \ {r}]
    /\ UNCHANGED <<runtimeVars, ipcVars, registered, registrant, openPeers,
                   req, route, outbox, reply>>

SendResult(c) ==
    /\ pc[c] = "Sending"
    /\ \E msg \in outbox[c] : Send(msg)
    /\ outbox' = [outbox EXCEPT ![c] = {}]
    /\ pc' = [pc EXCEPT ![c] = "Idle"]
    /\ UNCHANGED <<runtimeVars, ipcVars, connVars, task, prov, req, route>>

\* Mutant: the handler returns without disconnect_registered_providers.
EndOfRequestsAtOnce(c) ==
    /\ pc[c] = "Idle"
    /\ c \notin openPeers \/ c \in Strays
    /\ pc' = [pc EXCEPT ![c] = "Closed"]
    /\ task' = [task EXCEPT ![c] = "Close"]
    /\ UNCHANGED <<runtimeVars, ipcVars, connVars, prov, req, route, outbox, reply>>

\* read_frame returns None, or an error for a frame it cannot decode.
EndOfRequests(c) ==
    /\ pc[c] = "Idle"
    /\ c \notin openPeers \/ c \in Strays
    /\ EndLoop(c)
    /\ UNCHANGED <<runtimeVars, ipcVars, connVars, req, route, outbox, reply>>

\* disconnect_registered_providers goes through the vector in order of
\* registration, which is the order of the ids.
disconnect_registered_providers(c) ==
    /\ pc[c] = "Closing"
    /\ \E p \in registered[c] :
          /\ \A q \in registered[c] : p <= q
          /\ registered' = [registered EXCEPT ![c] = @ \ {p}]
          /\ prov' = [prov EXCEPT ![c] = p]
    /\ pc' = [pc EXCEPT ![c] = "DropRoute"]
    /\ UNCHANGED <<runtimeVars, ipcVars, registrant, openPeers, delivered, task, req, route,
                   outbox, reply>>

HandlerEnds(c) ==
    /\ pc[c] = "Closing"
    /\ registered[c] = {}
    /\ pc' = [pc EXCEPT ![c] = "Closed"]
    /\ UNCHANGED <<runtimeVars, ipcVars, connVars, task, prov, req, route, outbox, reply>>

-----------------------------------------------------------------------------
ReadStep(t) ==
    \/ CloneRoute(t) \/ RouteMissing(t) \/ InsertPending(t) \/ WriteRequest(t) \/ WriteFails(t)
    \/ Receive(t) \/ Timeout(t) \/ RemoveTimedOut(t) \/ RemoveUnwritten(t)

DisconnectStep(t) ==
    \/ DropRoute(t) \/ MarkGone(t) \/ fail_provider_pending_reads(t)
    \/ SendFailure(t) \/ DisconnectedClosing(t) \/ Disconnected(t)

\* A handler thread takes up a request ...
Request(c) ==
    \/ ProviderRegister(c)
    \/ \E p \in ProviderIds : ProviderUnregister(c, p) \/ PromiseCommit(c, p)
    \/ \E r \in RequestIds : ProviderReadResponse(c, r) \/ UnmatchedResponse(c, r)

\* ... and goes on with it, or with ending.
HandlerStep(c) ==
    \/ register_provider_route(c) \/ RegisterFails(c) \/ UnregisterValidated(c)
    \/ CommitValidated(c) \/ CommitRefused(c) \/ SendResult(c)
    \/ disconnect_registered_providers(c) \/ HandlerEnds(c)

\* The daemon waits for input: no thread is inside a handler or a read.
AwaitClients ==
    /\ \A t \in Threads : pc[t] \in {"Idle", "Closed"}
    /\ UNCHANGED vars

Next ==
    \/ \E t \in Readers, m \in PromiseIds : BeginRead(t, m)
    \/ \E t \in Readers : ReadStep(t)
    \/ \E t \in Threads : DisconnectStep(t)
    \/ \E c \in Conns : Request(c) \/ HandlerStep(c) \/ EndOfRequests(c) \/ PeerClose(c)
    \/ AwaitClients

Spec == Init /\ [][Next]_vars

\* Threads are scheduled: a thread that is inside a handler or a read goes on
\* (a waiting read at the latest when its timeout has passed), and a handler
\* thread that finds its peer gone again and again ends its loop in the end,
\* because a peer that is gone left it only finitely many frames.
Fairness ==
    /\ \A t \in Readers : WF_vars(ReadStep(t))
    /\ \A t \in Threads : WF_vars(DisconnectStep(t))
    /\ \A c \in Conns : WF_vars(HandlerStep(c)) /\ SF_vars(EndOfRequests(c))

FairSpec == Spec /\ Fairness

-----------------------------------------------------------------------------
(* Safety. *)

\* A promise the runtime calls available belongs to a session it calls live:
\* no commit, whose owner check is made under another lock, slips past the
\* disconnect of its provider (commit_promise, unregister_provider).
AvailableHasLiveProvider ==
    \A m \in PromiseIds : promiseState[m] = "Available" => has_provider(promiseOwner[m])

\* An entry of pending_reads always belongs to a read that is still inside
\* route_provider_read, with that id and that provider: no path out of the
\* function leaves its entry behind.
PendingHasReader ==
    \A r \in RequestIds : pending[r] # None =>
        LET t == pending[r].reader IN
        pc[t] \in AfterInsert /\ req[t] = r /\ prov[t] = pending[r].provider

\* The messages in flight to the channel of reader t's current read.
InFlight(t) ==
    {u \in Threads : \E msg \in outbox[u] : msg.to = t /\ msg.reply.req = req[t]}

\* Once its entry is in the map, a read's one answer is in exactly one place:
\* owed by the entry, held by the one thread that removed the entry, or in the
\* channel.  So no read is answered twice, and the sender is never dropped
\* unused: recv_timeout cannot return Disconnected.
OneAnswerPerRead ==
    \A t \in Readers : pc[t] \in AfterInsert =>
        \/ pending[req[t]] # None /\ InFlight(t) = {} /\ reply[t] = None
        \/ pending[req[t]] = None /\ (\E u \in Threads : InFlight(t) = {u}) /\ reply[t] = None
        \/ pending[req[t]] = None /\ InFlight(t) = {} /\ reply[t] # None

\* A response a read accepts answers that very read, and came in on the
\* connection that registered the provider (complete_provider_read;
\* docs/security.md: "accepted only from the connection that registered the
\* provider").
ResponseFromRegistrant ==
    \A t \in Readers : (pc[t] = "Waiting" /\ reply[t] # None) =>
        /\ reply[t].req = req[t]
        /\ reply[t].kind = "Response" => reply[t].from = registrant[prov[t]]

\* When a handler thread has ended, nothing registered on its connection can
\* be routed to or is still promised as available, whatever other threads
\* were doing with the provider meanwhile.
ClosedConnectionServesNothing ==
    \A p \in ProviderIds : (registrant[p] # None /\ pc[registrant[p]] = "Closed") =>
        /\ routes[p] = None
        /\ \A m \in PromiseIds : promiseOwner[m] = p => promiseState[m] # "Available"

\* provider_routes and the runtime's sessions are under two locks, yet a
\* session that is over keeps its route only until a thread that is already
\* inside disconnect_provider_id drops it.
GoneProviderLosesRoute ==
    \A p \in ProviderIds : (routes[p] # None /\ ~has_provider(p)) =>
        \E t \in Threads : prov[t] = p /\ pc[t] = "DropRoute"

-----------------------------------------------------------------------------
(* Liveness, under FairSpec. *)

\* Every read returns: whatever happens to the provider, its connection and
\* its answer, route_provider_read ends.
ReadReturns == \A t \in Readers : pc[t] = "Planned" ~> pc[t] = "Idle"

\* A provider whose client end closes is disconnected in the routes and in
\* the runtime, with all its promises (docs/architecture.md: "closing that
\* connection marks those providers disconnected in the daemon runtime").
CloseEndsProvider ==
    \A p \in ProviderIds :
        (routes[p] # None /\ routes[p] \notin openPeers) ~>
            /\ routes[p] = None
            /\ providers[p] = "Disconnected"
            /\ \A m \in PromiseIds : promiseOwner[m] = p => promiseState[m] = "ProviderGone"

-----------------------------------------------------------------------------
(* The abstract specification this module implements. *)

\* How a returned read ended.
Outcome(t) ==
    IF req[t] # 0 \/ reply[t] = None THEN "None"
    ELSE IF reply[t].kind = "Response" THEN "Response" ELSE "Error"

Service == INSTANCE ProviderService WITH
    session   <- providers,
    owner     <- promiseOwner,
    available <- {m \in PromiseIds : promiseState[m] = "Available"},
    reading   <- [t \in Readers |-> IF req[t] # 0 THEN prov[t] ELSE 0],
    outcome   <- [t \in Readers |-> Outcome(t)]

\* Seen from outside, the handler threads and readers, their locks and their
\* messages behave like the one-step service.
ImplementsService == Service!Spec

-----------------------------------------------------------------------------
(* What the documentation says and the code does not do. *)

\* docs/runtime.md: "The provider session is live only while the application
\* process and library connection remain available."
LiveSessionHasConnection ==
    \A p \in ProviderIds : has_provider(p) => pc[registrant[p]] # "Closed"
=============================================================================
