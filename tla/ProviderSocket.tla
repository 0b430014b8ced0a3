--------------------------- MODULE ProviderSocket ---------------------------
(***************************************************************************)
(* The socket between the daemon and one provider, as two bounded buffers. *)
(* A frame is written with two calls (write_frame), the length and then    *)
(* the body, and either call waits while the buffer is full.  On the       *)
(* daemon's side the reading threads write requests under the mutex of the *)
(* route, and the handler thread of the connection writes its answers      *)
(* without it.  On the client's side is either the helper thread of the C  *)
(* library, which runs the callback of the application, or a direct user   *)
(* of ProviderConnection, who may unregister on the same socket.  A second *)
(* connection asks for Status or Inspect, whose answer the daemon writes   *)
(* with the runtime mutex held.                                            *)
(*                                                                         *)
(* The lock sections of routed reads and disconnects interleave in         *)
(* IpcState; here each is one step, and the writes are taken apart.        *)
(***************************************************************************)
EXTENDS Integers, Sequences

CONSTANTS
    Readers,        \* threads that read promised content
    Fuse,           \* the one of them that serves the mount
    DownCap,        \* pieces of frames that the buffer to a client holds
    UpCap,          \* and the one to the daemon, which is at least a frame
    MaxRequests,    \* bound on next_provider_read_request_id
    MaxQueries,     \* bound on the Status and Inspect requests
    MaxLeft,        \* pieces by which an answer to them exceeds the buffer
    None            \* no thread

ASSUME SocketAssumptions ==
    /\ Fuse \in Readers
    /\ DownCap \in Nat \ {0}
    /\ UpCap \in Nat \ {0, 1}
    /\ {MaxRequests, MaxQueries, MaxLeft} \subseteq Nat
    /\ {None, "handler", "client", "app", "query"} \cap Readers = {}
    /\ None \notin {"handler", "client", "app", "query"}

Threads   == Readers \cup {"handler", "client", "app", "query"}
Requests  == 1 .. MaxRequests

(* Frames: a read request or the response to it, by its number; the request *)
(* to unregister, and the two answers to that.                              *)
ProviderUnregisterMsg   == -1
ProviderUnregisteredMsg == -2
ErrorMsg                == -3
Messages  == Requests \cup {ProviderUnregisterMsg, ProviderUnregisteredMsg, ErrorMsg}
Pieces    == [part : {"head", "body"}, msg : Messages]
Header(m) == [part |-> "head", msg |-> m]
Body(m)   == [part |-> "body", msg |-> m]

(* A client is the helper thread of the library; the same, with a callback  *)
(* that may read promised files; or a direct user of ProviderConnection.    *)
Kinds == {"library", "reentrant", "direct"}

(* Where a thread is: a reader, the handler, the client, the application,   *)
(* and the thread that answers a query.                                     *)
Places ==
    {"idle", "clone", "lock", "header", "body", "wait", "drop", "mark"} \cup
    {"reading", "unregister", "unregistered", "unregisteredBody", "error", "errorBody", "ended"} \cup
    {"head", "callback", "nested", "respond", "respondBody", "unregisterBody", "answer", "answerBody"} \cup
    {"running", "joining", "returned", "dead", "writing"}

VARIABLES
    kind,           \* of the client, see below
    pc,             \* where each thread is
    runtime,        \* holder of the runtime mutex, when that is for more than a step
    live,           \* the session of the provider is in the runtime
    route,          \* provider_routes has the route
    registered,     \* registered_providers of the handler has the provider
    writer,         \* holder of the mutex of the route's writer
    pending,        \* pending_reads: the requests with an entry
    nextRequest,    \* next_provider_read_request_id
    req,            \* the request of each reader
    down,           \* pieces on their way to the client
    up,             \* pieces on their way to the daemon
    end,            \* the client's end of the socket: open, shut or closed
    inHand,         \* the frame the client is reading or working on
    nested,         \* a read of the mount made by the callback
    result,         \* of ProviderConnection::unregister
    queries,        \* Status and Inspect requests so far
    left            \* pieces of the answer for which the buffer has no room yet

daemonVars == <<runtime, live, route, registered, writer, pending, nextRequest, req>>
clientVars == <<kind, end, inHand, nested, result>>
queryVars  == <<queries, left>>
vars == <<pc, daemonVars, down, up, clientVars, queryVars>>

(* The buffer of requests.  A callback that waits for the FUSE thread, while *)
(* that waits for room in the buffer which only the caller of the callback  *)
(* makes, waits for ever: for such callbacks the buffer is taken to have    *)
(* room for the requests that come meanwhile.                               *)
Room == IF kind = "reentrant" THEN 2 * MaxRequests ELSE DownCap

SocketTypeOK ==
    /\ kind \in Kinds
    /\ pc \in [Threads -> Places]
    /\ runtime \in {None, "handler", "query"}
    /\ live \in BOOLEAN /\ route \in BOOLEAN /\ registered \in BOOLEAN
    /\ writer \in Readers \cup {None}
    /\ pending \subseteq Requests
    /\ nextRequest \in 1 .. MaxRequests + 1
    /\ req \in [Readers -> 0 .. MaxRequests]
    /\ down \in Seq(Pieces) /\ Len(down) <= Room
    /\ up \in Seq(Pieces) /\ Len(up) <= UpCap
    /\ end \in {"open", "shut", "closed"}
    /\ inHand \in Messages \cup {0}
    /\ nested \in {"no", "queued", "served", "done"}
    /\ result \in {"none", "ok", "error"}
    /\ queries \in 0 .. MaxQueries
    /\ left \in 0 .. MaxLeft

Init ==
    /\ kind \in Kinds
    /\ pc = [t \in Threads |->
                CASE t = "handler" -> "reading"
                  [] t = "client"  -> "head"
                  [] t = "app"     -> "running"
                  [] OTHER         -> "idle"]
    /\ runtime = None
    /\ live = TRUE /\ route = TRUE /\ registered = TRUE
    /\ writer = None
    /\ pending = {}
    /\ nextRequest = 1
    /\ req = [r \in Readers |-> 0]
    /\ down = <<>> /\ up = <<>>
    /\ end = "open"
    /\ inHand = 0
    /\ nested = "no"
    /\ result = "none"
    /\ queries = 0 /\ left = 0

-----------------------------------------------------------------------------
(* The daemon's descriptors of the socket are those of the handler, of the  *)
(* route, and of the readers that have cloned it.                           *)
DaemonEndOpen ==
    \/ pc["handler"] # "ended"
    \/ route
    \/ \E r \in Readers : pc[r] \notin {"idle", "clone"}

At(t, place)   == pc[t] = place
Goto(t, place) == pc' = [pc EXCEPT ![t] = place]

(* A write of the daemon, and of the client.  It waits while the buffer is  *)
(* full, and fails once the other end is gone.                              *)
SendDown(p) == end = "open" /\ Len(down) < Room /\ down' = Append(down, p)
SendUp(p)   == end = "open" /\ DaemonEndOpen /\ Len(up) < UpCap /\ up' = Append(up, p)

-----------------------------------------------------------------------------
(* Reading threads: plan_read and route_provider_read.                      *)

(* The end of a read, of which the callback may have been the caller.       *)
Return(r) ==
    /\ Goto(r, "idle")
    /\ req' = [req EXCEPT ![r] = 0]
    /\ nested' = IF r = Fuse /\ nested = "served" THEN "done" ELSE nested

(* The plan, under the runtime mutex, and the number of the request.        *)
Begin(r) ==
    /\ At(r, "idle") /\ runtime = None /\ live
    /\ nextRequest <= MaxRequests
    /\ req' = [req EXCEPT ![r] = nextRequest]
    /\ nextRequest' = nextRequest + 1
    /\ Goto(r, "clone")
    /\ UNCHANGED <<runtime, live, route, registered, writer, pending, down, up,
                   kind, end, inHand, result, queryVars>>

(* A read by anybody; the bound leaves a number for one the callback waits for. *)
BeginRead(r) ==
    /\ nested = "queued" => nextRequest < MaxRequests
    /\ Begin(r)
    /\ UNCHANGED nested

BeginNested ==
    /\ nested = "queued"
    /\ nested' = "served"
    /\ Begin(Fuse)

(* The plan of the callback's read finds the provider gone.                 *)
NestedFails ==
    /\ nested = "queued" /\ At(Fuse, "idle") /\ runtime = None /\ ~live
    /\ nested' = "done"
    /\ UNCHANGED <<pc, daemonVars, down, up, kind, end, inHand, result, queryVars>>

(* The clone of the route, and the entry in pending_reads.                  *)
CloneRoute(r) ==
    /\ At(r, "clone")
    /\ IF route
         THEN /\ pending' = pending \cup {req[r]}
              /\ Goto(r, "lock")
              /\ UNCHANGED <<nested, req>>
         ELSE Return(r) /\ UNCHANGED pending
    /\ UNCHANGED <<runtime, live, route, registered, writer, nextRequest, down, up,
                   kind, end, inHand, result, queryVars>>

\* Mutant: the request is written without the mutex of the route.
LockWriterNot(r) ==
    /\ At(r, "lock")
    /\ writer' = r
    /\ Goto(r, "header")
    /\ UNCHANGED <<runtime, live, route, registered, pending, nextRequest, req,
                   down, up, clientVars, queryVars>>

LockWriter(r) ==
    /\ At(r, "lock") /\ writer = None
    /\ writer' = r
    /\ Goto(r, "header")
    /\ UNCHANGED <<runtime, live, route, registered, pending, nextRequest, req,
                   down, up, clientVars, queryVars>>

WriteHeader(r) ==
    /\ At(r, "header")
    /\ SendDown(Header(req[r]))
    /\ Goto(r, "body")
    /\ UNCHANGED <<daemonVars, up, clientVars, queryVars>>

WriteBody(r) ==
    /\ At(r, "body")
    /\ SendDown(Body(req[r]))
    /\ writer' = None
    /\ Goto(r, "wait")
    /\ UNCHANGED <<runtime, live, route, registered, pending, nextRequest, req,
                   up, clientVars, queryVars>>

WriteFails(r) ==
    /\ pc[r] \in {"header", "body"} /\ end # "open"
    /\ writer' = None
    /\ pending' = pending \ {req[r]}
    /\ Goto(r, "drop")
    /\ UNCHANGED <<runtime, live, route, registered, nextRequest, req, down, up,
                   clientVars, queryVars>>

(* Whoever takes the entry of a read away answers its reader.               *)
Receive(r) ==
    /\ At(r, "wait") /\ req[r] \notin pending
    /\ Return(r)
    /\ UNCHANGED <<runtime, live, route, registered, writer, pending, nextRequest, down, up, kind, end, inHand, result, queryVars>>

\* Mutant: recv instead of recv_timeout.
TimeoutNever(r) == At(r, "wait") /\ FALSE /\ UNCHANGED vars

Timeout(r) ==
    /\ At(r, "wait") /\ req[r] \in pending
    /\ pending' = pending \ {req[r]}
    /\ Return(r)
    /\ UNCHANGED <<runtime, live, route, registered, writer, nextRequest,
                   down, up, kind, end, inHand, result, queryVars>>

-----------------------------------------------------------------------------
(* disconnect_provider_id, by a reader or by the handler thread.            *)

DropRoute(t) ==
    /\ At(t, "drop")
    /\ route' = FALSE
    /\ Goto(t, "mark")
    /\ UNCHANGED <<runtime, live, registered, writer, pending, nextRequest, req,
                   down, up, clientVars, queryVars>>

(* The session in the runtime, and then fail_provider_pending_reads.        *)
MarkGone(t) ==
    /\ At(t, "mark") /\ runtime = None
    /\ live' = FALSE
    /\ pending' = {}
    /\ IF t \in Readers
         THEN Return(t)
         ELSE /\ Goto(t, IF registered THEN "ended" ELSE "unregistered")
              /\ UNCHANGED <<nested, req>>
    /\ UNCHANGED <<runtime, route, registered, writer, nextRequest, down, up,
                   kind, end, inHand, result, queryVars>>

-----------------------------------------------------------------------------
(* The handler thread of the provider's connection: handle_client_requests. *)

(* The next frame, which read_frame waits for.                              *)
NextFrame(m) == Len(up) >= 2 /\ up[1] = Header(m) /\ up' = SubSeq(up, 3, Len(up))

(* The loop ends, and disconnect_registered_providers follows.              *)
EndLoop == Goto("handler", IF registered THEN "drop" ELSE "ended")

(* A response without an entry is an error, and ends the connection.        *)
complete_provider_read(m) ==
    /\ At("handler", "reading") /\ NextFrame(m)
    /\ pending' = pending \ {m}
    /\ IF m \in pending THEN UNCHANGED pc ELSE EndLoop
    /\ UNCHANGED <<runtime, live, route, registered, writer, nextRequest, req, down,
                   clientVars, queryVars>>

\* Mutant: the request is acknowledged before it is carried out.
ProviderUnregisterAcked ==
    /\ At("handler", "reading") /\ NextFrame(ProviderUnregisterMsg)
    /\ Goto("handler", "unregistered")
    /\ UNCHANGED <<daemonVars, down, clientVars, queryVars>>

(* ProviderUnregister with the token of the owner, up to the check of it.   *)
ProviderUnregister ==
    /\ At("handler", "reading") /\ NextFrame(ProviderUnregisterMsg)
    /\ route \/ runtime = None
    /\ Goto("handler", IF route THEN "unregister" ELSE "error")
    /\ UNCHANGED <<daemonVars, down, clientVars, queryVars>>

(* A refusal is written with the runtime mutex still held.                  *)
unregister_provider ==
    /\ At("handler", "unregister") /\ runtime = None
    /\ live' = FALSE
    /\ registered' = (registered /\ ~live)
    /\ runtime' = IF live THEN None ELSE "handler"
    /\ Goto("handler", IF live THEN "drop" ELSE "error")
    /\ UNCHANGED <<route, writer, pending, nextRequest, req, down, up,
                   clientVars, queryVars>>

(* The end of an answer is the end of the runtime guard, if it is held.     *)
ReleaseRuntime == runtime' = IF runtime = "handler" THEN None ELSE runtime

(* The answer of the handler, written without the mutex of the route.       *)
ReplyHeader ==
    /\ pc["handler"] \in {"unregistered", "error"}
    /\ SendDown(Header(IF At("handler", "error") THEN ErrorMsg ELSE ProviderUnregisteredMsg))
    /\ Goto("handler", IF At("handler", "error") THEN "errorBody" ELSE "unregisteredBody")
    /\ UNCHANGED <<daemonVars, up, clientVars, queryVars>>

ReplyBody ==
    /\ pc["handler"] \in {"unregisteredBody", "errorBody"}
    /\ SendDown(Body(IF At("handler", "errorBody") THEN ErrorMsg ELSE ProviderUnregisteredMsg))
    /\ Goto("handler", "reading")
    /\ ReleaseRuntime
    /\ UNCHANGED <<live, route, registered, writer, pending, nextRequest, req,
                   up, clientVars, queryVars>>

ReplyFails ==
    /\ pc["handler"] \in {"unregistered", "error", "unregisteredBody", "errorBody"}
    /\ end # "open"
    /\ EndLoop
    /\ ReleaseRuntime
    /\ UNCHANGED <<live, route, registered, writer, pending, nextRequest, req,
                   down, up, clientVars, queryVars>>

(* End of file, inside a frame or between two; or the reset by a peer that  *)
(* closes with frames unread.                                               *)
HandlerEof ==
    /\ At("handler", "reading")
    /\ \/ end # "open" /\ Len(up) < 2
       \/ end = "closed" /\ down # <<>>
    /\ EndLoop
    /\ UNCHANGED <<daemonVars, down, up, clientVars, queryVars>>

-----------------------------------------------------------------------------
(* The client: the loop of spawn_provider_helper, or the owner of a         *)
(* ProviderConnection.                                                      *)

(* The thread of the library leaves a second descriptor open, which         *)
(* ProviderHelper shuts down; a direct user drops the connection.           *)
Stop(outcome) ==
    /\ Goto("client", "ended")
    /\ end' = IF kind = "direct" THEN "closed" ELSE end
    /\ result' = outcome
    /\ inHand' = 0

ReadHeader ==
    /\ At("client", "head") /\ down # <<>>
    /\ down' = Tail(down)
    /\ IF Head(down).part = "head"
         THEN /\ inHand' = Head(down).msg
              /\ Goto("client", "body")
              /\ UNCHANGED <<end, result>>
         ELSE Stop("none")
    /\ UNCHANGED <<daemonVars, up, kind, nested, queryVars>>

(* A body other than the one of the header does not decode; a message other *)
(* than a request is an error as well.                                      *)
ReadBody ==
    /\ At("client", "body") /\ down # <<>>
    /\ down' = Tail(down)
    /\ IF Head(down) = Body(inHand) /\ inHand \in Requests
         THEN Goto("client", "callback") /\ UNCHANGED <<end, result, inHand>>
         ELSE Stop("none")
    /\ UNCHANGED <<daemonVars, up, kind, nested, queryVars>>

EndOfDown ==
    \/ (end # "open" \/ ~DaemonEndOpen) /\ down = <<>>
    \/ ~DaemonEndOpen /\ up # <<>>

ReadEnds ==
    /\ pc["client"] \in {"head", "body"} /\ EndOfDown
    /\ Stop("none")
    /\ UNCHANGED <<daemonVars, down, up, kind, nested, queryVars>>

(* dispatch_provider_read: the callback returns,                            *)
CallbackReturns ==
    /\ \/ At("client", "callback") /\ UNCHANGED nested
       \/ At("client", "nested") /\ nested = "done" /\ nested' = "no"
    /\ Goto("client", "respond")
    /\ UNCHANGED <<daemonVars, down, up, kind, end, inHand, result, queryVars>>

(* or reads a promised file of the same provider first.                     *)
CallbackReadsMount ==
    /\ kind = "reentrant" /\ At("client", "callback")
    /\ nested = "no" /\ nextRequest <= MaxRequests
    /\ nested' = "queued"
    /\ Goto("client", "nested")
    /\ UNCHANGED <<daemonVars, down, up, kind, end, inHand, result, queryVars>>

RespondHeader ==
    /\ At("client", "respond")
    /\ SendUp(Header(inHand))
    /\ Goto("client", "respondBody")
    /\ UNCHANGED <<daemonVars, down, clientVars, queryVars>>

\* Mutant: the thread of the library ends after its first response.
RespondBodyOnce ==
    /\ At("client", "respondBody")
    /\ SendUp(Body(inHand))
    /\ Stop("none")
    /\ UNCHANGED <<daemonVars, down, kind, nested, queryVars>>

RespondBody ==
    /\ At("client", "respondBody")
    /\ SendUp(Body(inHand))
    /\ inHand' = 0
    /\ Goto("client", "head")
    /\ UNCHANGED <<daemonVars, down, kind, end, nested, result, queryVars>>

RespondFails ==
    /\ pc["client"] \in {"respond", "respondBody"} /\ (end # "open" \/ ~DaemonEndOpen)
    /\ Stop("none")
    /\ UNCHANGED <<daemonVars, down, up, kind, nested, queryVars>>

-----------------------------------------------------------------------------
(* ProviderConnection::unregister, by a direct user between two requests.   *)

Unregister ==
    /\ kind = "direct" /\ At("client", "head")
    /\ Goto("client", "unregister")
    /\ UNCHANGED <<daemonVars, down, up, clientVars, queryVars>>

UnregisterHeader ==
    /\ At("client", "unregister")
    /\ SendUp(Header(ProviderUnregisterMsg))
    /\ Goto("client", "unregisterBody")
    /\ UNCHANGED <<daemonVars, down, clientVars, queryVars>>

UnregisterBody ==
    /\ At("client", "unregisterBody")
    /\ SendUp(Body(ProviderUnregisterMsg))
    /\ Goto("client", "answer")
    /\ UNCHANGED <<daemonVars, down, clientVars, queryVars>>

(* The next frame is taken for the answer, whatever it is.                  *)
AnswerHeader ==
    /\ At("client", "answer") /\ down # <<>>
    /\ down' = Tail(down)
    /\ IF Head(down).part = "head"
         THEN /\ inHand' = Head(down).msg
              /\ Goto("client", "answerBody")
              /\ UNCHANGED <<end, result>>
         ELSE Stop("error")
    /\ UNCHANGED <<daemonVars, up, kind, nested, queryVars>>

AnswerBody ==
    /\ At("client", "answerBody") /\ down # <<>>
    /\ down' = Tail(down)
    /\ Stop(IF inHand = ProviderUnregisteredMsg /\ Head(down) = Body(inHand)
              THEN "ok" ELSE "error")
    /\ UNCHANGED <<daemonVars, up, kind, nested, queryVars>>

UnregisterFails ==
    /\ \/ pc["client"] \in {"unregister", "unregisterBody"} /\ ~DaemonEndOpen
       \/ pc["client"] \in {"answer", "answerBody"} /\ EndOfDown
    /\ Stop("error")
    /\ UNCHANGED <<daemonVars, down, up, kind, nested, queryVars>>

-----------------------------------------------------------------------------
(* The application of the library: fp_provider_unregister, which shuts the  *)
(* socket down and joins the helper thread; and the end of the process.     *)

\* Mutant: the socket is not shut down.
fp_provider_unregister_joins ==
    /\ kind # "direct" /\ At("app", "running")
    /\ Goto("app", "joining")
    /\ UNCHANGED <<daemonVars, down, up, clientVars, queryVars>>

fp_provider_unregister ==
    /\ kind # "direct" /\ At("app", "running")
    /\ end' = "shut"
    /\ Goto("app", "joining")
    /\ UNCHANGED <<daemonVars, down, up, kind, inHand, nested, result, queryVars>>

\* Mutant: the thread is not joined.
JoinNot ==
    /\ At("app", "joining")
    /\ end' = "closed"
    /\ Goto("app", "returned")
    /\ UNCHANGED <<daemonVars, down, up, kind, inHand, nested, result, queryVars>>

Join ==
    /\ At("app", "joining") /\ At("client", "ended")
    /\ end' = "closed"
    /\ Goto("app", "returned")
    /\ UNCHANGED <<daemonVars, down, up, kind, inHand, nested, result, queryVars>>

ProcessDies ==
    /\ pc["app"] \in {"running", "joining"}
    /\ end' = "closed"
    /\ pc' = [pc EXCEPT !["app"] = "dead", !["client"] = "ended"]
    /\ inHand' = 0
    /\ nested' = IF nested = "queued" THEN "no" ELSE nested
    /\ UNCHANGED <<daemonVars, down, up, kind, result, queryVars>>

-----------------------------------------------------------------------------
(* Status and Inspect on another connection: the answer is written with the *)
(* runtime mutex held, and its client reads it.                             *)

Inspect ==
    /\ At("query", "idle") /\ runtime = None /\ queries < MaxQueries
    /\ runtime' = "query"
    /\ queries' = queries + 1
    /\ left' = MaxLeft
    /\ Goto("query", "writing")
    /\ UNCHANGED <<live, route, registered, writer, pending, nextRequest, req,
                   down, up, clientVars>>

ReadAnswer ==
    /\ At("query", "writing") /\ left > 0
    /\ left' = left - 1
    /\ UNCHANGED <<pc, daemonVars, down, up, clientVars, queries>>

(* The write returns when the rest of the answer is in the buffer, or fails *)
(* when the client is gone.                                                 *)
AnswerWritten ==
    /\ At("query", "writing")
    /\ runtime' = None
    /\ left' = 0
    /\ Goto("query", "idle")
    /\ UNCHANGED <<live, route, registered, writer, pending, nextRequest, req,
                   down, up, clientVars, queries>>

WriteAnswer == left = 0 /\ AnswerWritten
AnswerFails == AnswerWritten

-----------------------------------------------------------------------------
ReaderStep(r) ==
    \/ CloneRoute(r) \/ LockWriter(r)
    \/ WriteHeader(r) \/ WriteBody(r) \/ WriteFails(r) \/ Receive(r) \/ Timeout(r)
    \/ DropRoute(r) \/ MarkGone(r)

HandlerStep ==
    \/ \E m \in Requests : complete_provider_read(m)
    \/ ProviderUnregister \/ unregister_provider
    \/ DropRoute("handler") \/ MarkGone("handler")
    \/ ReplyHeader \/ ReplyBody \/ ReplyFails \/ HandlerEof

ClientStep ==
    \/ ReadHeader \/ ReadBody \/ ReadEnds \/ CallbackReturns
    \/ RespondHeader \/ RespondBody \/ RespondFails
    \/ UnregisterHeader \/ UnregisterBody \/ AnswerHeader \/ AnswerBody \/ UnregisterFails

Next ==
    \/ \E r \in Readers : BeginRead(r) \/ ReaderStep(r)
    \/ BeginNested \/ NestedFails
    \/ HandlerStep
    \/ ClientStep \/ CallbackReadsMount \/ Unregister
    \/ fp_provider_unregister \/ Join \/ ProcessDies
    \/ Inspect \/ WriteAnswer \/ ReadAnswer \/ AnswerFails

Spec == Init /\ [][Next]_vars

(* The threads of the daemon and of the library run, callbacks return, and  *)
(* a client that has asked for Status or Inspect reads the answer.  Nobody  *)
(* has to begin a read or a query, to unregister, or to die.                *)
Fairness ==
    /\ \A r \in Readers : WF_vars(ReaderStep(r))
    /\ WF_vars(BeginNested \/ NestedFails)
    /\ WF_vars(HandlerStep)
    /\ WF_vars(ClientStep)
    /\ WF_vars(Join)
    /\ WF_vars(WriteAnswer)
    /\ WF_vars(ReadAnswer)

FairSpec == Spec /\ Fairness

-----------------------------------------------------------------------------
(* What the helper thread of the library reads is a sequence of whole       *)
(* frames: on its connection the mutex of the route is enough, although     *)
(* write_frame writes in two calls and the handler writes without it.       *)
FramesWhole ==
    kind # "direct" /\ ~At("client", "ended") =>
        /\ down # <<>> => IF At("client", "body") THEN down[1] = Body(inHand)
                                                  ELSE down[1].part = "head"
        /\ \A i \in 1 .. Len(down) - 1 :
              IF down[i].part = "head" THEN down[i + 1] = Body(down[i].msg)
                                       ELSE down[i + 1].part = "head"

(* The helper thread, which ends without a word at the first frame that it  *)
(* does not understand, ends only after the socket was shut down or the     *)
(* daemon has closed its end: until then somebody answers the requests.     *)
HelperServes ==
    kind # "direct" /\ At("client", "ended") => end # "open" \/ ~DaemonEndOpen

(* When fp_provider_unregister has returned, no callback runs any more, so  *)
(* that the application can free what the callback uses.                    *)
NoCallbackAfterUnregister ==
    At("app", "returned") => pc["client"] \notin {"callback", "nested"}

(* ProviderConnection::unregister reports success only for a provider that  *)
(* is gone from the runtime, the routes and the list of its connection.     *)
UnregisteredIsGone == result = "ok" => ~live /\ ~route /\ ~registered

(* Every routed read ends, though writes block on full buffers with the     *)
(* mutex of the route held, the mutex of the runtime is held while an       *)
(* answer is written, and the callback may itself wait for the FUSE thread. *)
EveryReadEnds == \A r \in Readers : ~At(r, "idle") ~> At(r, "idle")

(* Both ways to unregister return and leave no session, also when a request *)
(* is read in place of the answer, or frames of two writers are mixed.      *)
UnregisterEnds ==
    /\ At("app", "joining") ~> pc["app"] \in {"returned", "dead"} /\ ~live
    /\ At("client", "unregister") ~> At("client", "ended") /\ ~live
=============================================================================
