------------------------ MODULE ProviderSocketProofs ------------------------
(***************************************************************************)
(* Proofs about the socket of a provider, for any number of reading        *)
(* threads, requests and buffer sizes.                                     *)
(***************************************************************************)
EXTENDS ProviderSocket, TLAPS

(* Threads have different names.                                            *)
LEMMA Names ==
    /\ \A r \in Readers : r \in Threads /\ r \notin {None, "handler", "client", "app", "query"}
    /\ {"handler", "client", "app", "query"} \subseteq Threads
    /\ Fuse \in Readers
  BY SocketAssumptions, Zenon DEF Threads

(* A sequence after Append.                                                 *)
LEMMA AppendFacts ==
    ASSUME NEW S, NEW s \in Seq(S), NEW x \in S
    PROVE  /\ Append(s, x) \in Seq(S) /\ Append(s, x) # <<>>
           /\ Len(Append(s, x)) = Len(s) + 1
           /\ \A i \in 1 .. Len(s) : Append(s, x)[i] = s[i]
           /\ Append(s, x)[Len(s) + 1] = x
  OBVIOUS

(* The first and the last element of a sequence that one was appended to.   *)
LEMMA AppendEnds ==
    ASSUME NEW S, NEW s \in Seq(S), NEW x \in S, NEW t, t = Append(s, x)
    PROVE  /\ t # <<>> /\ Len(t) = Len(s) + 1 /\ t[Len(s) + 1] = x
           /\ s = <<>> => t[1] = x
           /\ s # <<>> => t[1] = s[1]
<1>1. t # <<>> /\ Len(t) = Len(s) + 1 /\ t[Len(s) + 1] = x
  BY ZenonT(60), AppendFacts
<1>2. s = <<>> => t[1] = x
  OBVIOUS
<1>3. s # <<>> => t[1] = s[1]
  OBVIOUS
<1> QED BY <1>1, <1>2, <1>3

(* A sequence after its first element is taken.                             *)
LEMMA TailFacts ==
    ASSUME NEW S, NEW s \in Seq(S), s # <<>>
    PROVE  /\ Tail(s) \in Seq(S) /\ Len(Tail(s)) = Len(s) - 1
           /\ Len(s) \in Nat \ {0}
           /\ Head(s) = s[1] /\ Head(s) \in S
           /\ \A i \in 1 .. Len(s) - 1 : Tail(s)[i] = s[i + 1]
  OBVIOUS

(* The queue to the daemon after a frame is taken from it.                  *)
LEMMA FrameTaken ==
    ASSUME NEW S, NEW s \in Seq(S), Len(s) >= 2
    PROVE  /\ SubSeq(s, 3, Len(s)) \in Seq(S)
           /\ Len(SubSeq(s, 3, Len(s))) = Len(s) - 2
           /\ \A i \in 1 .. Len(s) - 2 : SubSeq(s, 3, Len(s))[i] = s[i + 2]
<1> DEFINE n == Len(s) - 2
           t == [i \in 1 .. n |-> s[i + 2]]
<1>1. SubSeq(s, 3, Len(s)) = t
  OBVIOUS
<1>2. n \in Nat /\ \A i \in 1 .. n : s[i + 2] \in S
  OBVIOUS
<1> HIDE DEF n
<1>3. t \in Seq(S) /\ Len(t) = n
  BY <1>2
<1> QED BY <1>1, <1>3, Zenon DEF n

(* The pieces of the messages that are written.                             *)
LEMMA PieceTypes ==
    /\ \A m \in Messages : Header(m) \in Pieces /\ Body(m) \in Pieces
    /\ Requests \subseteq Messages
    /\ {ProviderUnregisterMsg, ProviderUnregisteredMsg, ErrorMsg} \subseteq Messages
    /\ {ProviderUnregisterMsg, ProviderUnregisteredMsg, ErrorMsg, 0} \cap Requests = {}
    /\ 0 \notin Messages
  BY SocketAssumptions DEF Messages, Pieces, Header, Body, Requests, ProviderUnregisterMsg,
     ProviderUnregisteredMsg, ErrorMsg

-----------------------------------------------------------------------------
(* What a thread holds where it is.                                         *)
LocalsOK ==
    /\ \A r \in Readers : pc[r] # "idle" => req[r] # 0
    /\ pc["client"] \in {"body", "answerBody"} => inHand # 0
    /\ pc["client"] \in {"callback", "nested", "respond", "respondBody"} => inHand \in Requests

BaseInv == SocketTypeOK /\ LocalsOK

(* Reading threads, except where they write.                                *)
ReaderLocal(r) ==
    \/ BeginRead(r) \/ (r = Fuse /\ (BeginNested \/ NestedFails))
    \/ CloneRoute(r) \/ LockWriter(r) \/ WriteFails(r) \/ Receive(r) \/ Timeout(r)
    \/ DropRoute(r) \/ MarkGone(r)

(* What such a step leaves alone.                                           *)
LEMMA ReaderFrame ==
    ASSUME SocketTypeOK, NEW r \in Readers, ReaderLocal(r)
    PROVE  /\ pc' \in [Threads -> Places]
           /\ \A t \in Threads \ {r} : pc'[t] = pc[t]
           /\ UNCHANGED <<runtime, registered, down, up, kind, end, inHand, result, queryVars>>
<1>0. pc \in [Threads -> Places]
  BY Zenon DEF SocketTypeOK
<1> USE <1>0, Names
<1>1. ASSUME NEW t \in Readers, Return(t)
      PROVE  pc' \in [Threads -> Places] /\ \A u \in Threads \ {t} : pc'[u] = pc[u]
  BY <1>1, Zenon DEF Goto, Places, Return
<1>2. CASE BeginRead(r)
  BY <1>2, Zenon DEF Goto, Places, BeginRead, Begin
<1>3. CASE r = Fuse /\ BeginNested
  BY <1>3, Zenon DEF Goto, Places, BeginNested, Begin
<1>4. CASE r = Fuse /\ NestedFails
  BY <1>4, Zenon DEF NestedFails, daemonVars
<1>5. CASE CloneRoute(r)
  BY <1>5, <1>1, Zenon DEF Goto, Places, CloneRoute
<1>6. CASE LockWriter(r)
  BY <1>6, Zenon DEF Goto, Places, LockWriter, clientVars
<1>7. CASE WriteFails(r)
  BY <1>7, Zenon DEF Goto, Places, WriteFails, clientVars
<1>8. CASE Receive(r)
  BY <1>8, <1>1, Zenon DEF Receive
<1>9. CASE Timeout(r)
  BY <1>9, <1>1, Zenon DEF Timeout
<1>10. CASE DropRoute(r)
  BY <1>10, Zenon DEF Goto, Places, DropRoute, clientVars
<1>11. CASE MarkGone(r)
  BY <1>11, <1>1, Zenon DEF MarkGone
<1> QED BY <1>2, <1>3, <1>4, <1>5, <1>6, <1>7, <1>8, <1>9, <1>10, <1>11, Zenon DEF ReaderLocal

(* Such a step keeps the types.                                             *)
LEMMA ReaderTypes ==
    ASSUME BaseInv, NEW r \in Readers, ReaderLocal(r)
    PROVE  BaseInv'
<1> USE Names, SocketAssumptions
<1>1. /\ pc' \in [Threads -> Places]
      /\ \A t \in Threads \ {r} : pc'[t] = pc[t]
      /\ UNCHANGED <<runtime, registered, down, up, kind, end, inHand, result, queries, left>>
  BY ReaderFrame, Zenon DEF BaseInv, queryVars
<1>2. /\ live' \in BOOLEAN /\ route' \in BOOLEAN
      /\ writer' \in Readers \cup {None}
  BY Zenon DEF ReaderLocal, BaseInv, SocketTypeOK, BeginRead, Begin, BeginNested, NestedFails, CloneRoute,
     LockWriter, WriteFails, Receive, Timeout, DropRoute, MarkGone, daemonVars
<1>3. nextRequest' \in 1 .. MaxRequests + 1 /\ req' \in [Readers -> 0 .. MaxRequests]
  <2>1. CASE BeginRead(r) \/ (r = Fuse /\ BeginNested)
    <3>1. Begin(r)
      BY <2>1, Zenon DEF BeginRead, BeginNested
    <3>2. /\ nextRequest \in 0 .. MaxRequests /\ nextRequest' = nextRequest + 1
          /\ nextRequest \in Nat \ {0}
          /\ req \in [Readers -> 0 .. MaxRequests] /\ req' = [req EXCEPT ![r] = nextRequest]
      BY <3>1 DEF BaseInv, SocketTypeOK, Begin
    <3> QED BY <3>2
  <2>2. CASE nextRequest' = nextRequest /\ (req' = req \/ req' = [req EXCEPT ![r] = 0])
    <3>1. req \in [Readers -> 0 .. MaxRequests] /\ 0 \in 0 .. MaxRequests
      BY DEF BaseInv, SocketTypeOK
    <3> QED BY <2>2, <3>1, Zenon DEF BaseInv, SocketTypeOK
  <2> QED BY <2>1, <2>2, Zenon DEF ReaderLocal, NestedFails, CloneRoute, LockWriter, WriteFails,
          Receive, Timeout, DropRoute, MarkGone, daemonVars, Return
<1>4. nested' \in {"no", "queued", "served", "done"}
  BY Zenon DEF ReaderLocal, BaseInv, SocketTypeOK, BeginRead, Begin, BeginNested, NestedFails, CloneRoute,
     LockWriter, WriteFails, Receive, Timeout, DropRoute, MarkGone, clientVars, Return
<1>5. pending' \subseteq Requests
  <2>1. CASE CloneRoute(r)
    <3>1. req[r] \in Requests
      BY <2>1 DEF CloneRoute, At, BaseInv, LocalsOK, SocketTypeOK, Requests
    <3> QED BY <2>1, <3>1, Zenon DEF CloneRoute, BaseInv, SocketTypeOK
  <2>2. CASE ~CloneRoute(r)
    BY <2>2, Zenon DEF ReaderLocal, BaseInv, SocketTypeOK, BeginRead, Begin, BeginNested, NestedFails,
       LockWriter, WriteFails, Receive, Timeout, DropRoute, MarkGone, daemonVars
  <2> QED BY <2>1, <2>2, Zenon
<1>6. \A q \in Readers : pc'[q] # "idle" => req'[q] # 0
  <2>1. CASE BeginRead(r) \/ (r = Fuse /\ BeginNested)
    <3>1. /\ req \in [Readers -> 0 .. MaxRequests] /\ req' = [req EXCEPT ![r] = nextRequest]
          /\ nextRequest # 0
      BY <2>1 DEF BaseInv, SocketTypeOK, BeginRead, Begin, BeginNested
    <3> QED BY <1>1, <3>1, Zenon DEF BaseInv, LocalsOK
  <2>2. CASE req' = req /\ pc[r] # "idle"
    BY <2>2, <1>1, Zenon DEF BaseInv, LocalsOK
  <2>3. CASE r = Fuse /\ NestedFails
    BY <2>3, Zenon DEF NestedFails, daemonVars, BaseInv, LocalsOK
  <2>4. CASE Return(r)
    <3>1. \A q \in Readers : req'[q] = IF q = r THEN 0 ELSE req[q]
      BY <2>4, Zenon DEF Return, BaseInv, SocketTypeOK
    <3>2. pc'[r] = "idle"
      BY <2>4, Zenon DEF Return, Goto, BaseInv, SocketTypeOK
    <3>3. \A q \in Readers \ {r} : pc'[q] = pc[q]
      BY <1>1, Zenon
    <3>4. \A q \in Readers : pc[q] # "idle" => req[q] # 0
      BY Zenon DEF BaseInv, LocalsOK
    <3> SUFFICES ASSUME NEW q \in Readers, pc'[q] # "idle" PROVE req'[q] # 0
      BY Zenon
    <3>5. q # r
      BY <3>2, Zenon
    <3>6. pc[q] # "idle" /\ req'[q] = req[q]
      BY <3>1, <3>3, <3>5, Zenon
    <3> QED BY <3>4, <3>6, Zenon
  <2>5. CASE CloneRoute(r)
    BY <2>5, <2>2, <2>4, Zenon DEF CloneRoute, At
  <2>6. CASE LockWriter(r) \/ WriteFails(r) \/ DropRoute(r)
    BY <2>6, <2>2, Zenon DEF LockWriter, WriteFails, DropRoute, At
  <2>7. CASE Receive(r) \/ Timeout(r) \/ MarkGone(r)
    BY <2>7, <2>4, Zenon DEF Receive, Timeout, MarkGone
  <2> QED BY <2>1, <2>3, <2>5, <2>6, <2>7, Zenon DEF ReaderLocal
<1>7. LocalsOK'
  BY <1>1, <1>6, Zenon DEF BaseInv, LocalsOK
<1>8. Room' = Room
  BY <1>1, Zenon DEF Room
<1> QED BY <1>1, <1>2, <1>3, <1>4, <1>5, <1>7, <1>8, Zenon DEF BaseInv, SocketTypeOK

(* A write to the client, and to the daemon, keeps the types of the queues.  *)
LEMMA SendTypes ==
    ASSUME SocketTypeOK, kind' = kind, NEW p \in Pieces
    PROVE  /\ SendDown(p) => down' \in Seq(Pieces) /\ Len(down') <= Room'
           /\ SendUp(p) => up' \in Seq(Pieces) /\ Len(up') <= UpCap
<1>1. Room' = Room /\ Room \in Nat /\ UpCap \in Nat
  BY SocketAssumptions DEF Room
<1>2. down \in Seq(Pieces) /\ up \in Seq(Pieces)
  BY Zenon DEF SocketTypeOK
<1>3. ASSUME SendDown(p) PROVE down' \in Seq(Pieces) /\ Len(down') <= Room'
  BY <1>1, <1>2, <1>3, AppendFacts DEF SendDown
<1>4. ASSUME SendUp(p) PROVE up' \in Seq(Pieces) /\ Len(up') <= UpCap
  BY <1>1, <1>2, <1>4, AppendFacts DEF SendUp
<1> QED BY <1>3, <1>4, Zenon

(* Reading threads where they write.                                        *)
LEMMA WriteTypes ==
    ASSUME BaseInv, NEW r \in Readers, WriteHeader(r) \/ WriteBody(r)
    PROVE  BaseInv'
<1> USE Names, SocketAssumptions
<1>1. req[r] \in Requests
  BY SMTT(30) DEF WriteHeader, WriteBody, At, BaseInv, LocalsOK, SocketTypeOK, Requests
<1>2. Header(req[r]) \in Pieces /\ Body(req[r]) \in Pieces
  BY <1>1, PieceTypes, Zenon
<1>3. /\ UNCHANGED <<runtime, live, route, registered, pending, nextRequest, req, up, kind, end,
                     inHand, nested, result, queries, left>>
      /\ writer' \in {writer, None}
  BY Zenon DEF WriteHeader, WriteBody, daemonVars, clientVars, queryVars
<1>4. down' \in Seq(Pieces) /\ Len(down') <= Room'
  BY <1>2, <1>3, SendTypes, Zenon DEF WriteHeader, WriteBody, BaseInv
<1>5. /\ pc' \in [Threads -> Places] /\ pc[r] # "idle"
      /\ \A t \in Threads \ {r} : pc'[t] = pc[t]
  BY Zenon DEF WriteHeader, WriteBody, At, Goto, Places, BaseInv, SocketTypeOK
<1>6. LocalsOK'
  BY <1>1, <1>3, <1>5, Zenon DEF BaseInv, LocalsOK
<1> QED BY <1>3, <1>4, <1>5, <1>6 DEF BaseInv, SocketTypeOK

(* The handler thread of the connection.                                    *)
LEMMA HandlerFrame ==
    ASSUME SocketTypeOK, HandlerStep
    PROVE  /\ pc' \in [Threads -> Places]
           /\ \A t \in Threads \ {"handler"} : pc'[t] = pc[t]
           /\ runtime' \in {None, "handler", "query"}
           /\ UNCHANGED <<writer, nextRequest, req, clientVars, queryVars>>
<1>0. runtime \in {None, "handler", "query"} /\ pc \in [Threads -> Places] /\ "handler" \in Threads /\ "handler" \notin Readers
  BY Names, Zenon DEF SocketTypeOK
<1> USE <1>0 DEF Goto, Places
<1>1. CASE \E m \in Requests : complete_provider_read(m)
  BY <1>1, Zenon DEF complete_provider_read, EndLoop
<1>2. CASE ProviderUnregister \/ unregister_provider
  BY <1>2, Zenon DEF ProviderUnregister, unregister_provider, daemonVars
<1>3. CASE DropRoute("handler") \/ MarkGone("handler")
  BY <1>3, Zenon DEF DropRoute, MarkGone, clientVars
<1>4. CASE ReplyHeader \/ ReplyBody
  BY <1>4, Zenon DEF ReplyHeader, ReplyBody, ReleaseRuntime, daemonVars
<1>5. CASE ReplyFails \/ HandlerEof
  BY <1>5, Zenon DEF ReplyFails, HandlerEof, EndLoop, ReleaseRuntime, daemonVars
<1> QED BY <1>1, <1>2, <1>3, <1>4, <1>5, Zenon DEF HandlerStep

(* Its steps keep the types.                                                *)
LEMMA HandlerTypes == ASSUME BaseInv, HandlerStep PROVE BaseInv'
<1>1. /\ pc' \in [Threads -> Places]
      /\ \A t \in Threads \ {"handler"} : pc'[t] = pc[t]
      /\ runtime' \in {None, "handler", "query"}
      /\ UNCHANGED <<writer, nextRequest, req, kind, end, inHand, nested, result,
                     queries, left>>
  BY HandlerFrame, Zenon DEF BaseInv, clientVars, queryVars
<1>2. LocalsOK'
  BY <1>1, Names, Zenon DEF BaseInv, LocalsOK
<1>3. live' \in BOOLEAN /\ route' \in BOOLEAN /\ registered' \in BOOLEAN /\ pending' \subseteq Requests
  BY Zenon DEF HandlerStep, BaseInv, SocketTypeOK, complete_provider_read, ProviderUnregister,
     unregister_provider, DropRoute, MarkGone, ReplyHeader, ReplyBody, ReplyFails, HandlerEof,
     daemonVars
<1>4. up' \in Seq(Pieces) /\ Len(up') <= UpCap
  <2>1. up \in Seq(Pieces) /\ Len(up) <= UpCap /\ UpCap \in Nat
    BY SocketAssumptions, Zenon DEF BaseInv, SocketTypeOK
  <2>2. CASE Len(up) >= 2 /\ up' = SubSeq(up, 3, Len(up))
    BY <2>1, <2>2, FrameTaken
  <2>3. CASE up' = up
    BY <2>1, <2>3, Zenon
  <2> QED BY <2>2, <2>3, Zenon DEF HandlerStep, complete_provider_read, ProviderUnregister, NextFrame,
          unregister_provider, DropRoute, MarkGone, ReplyHeader, ReplyBody, ReplyFails, HandlerEof
<1>5. down' \in Seq(Pieces) /\ Len(down') <= Room'
  <2>1. CASE ReplyHeader \/ ReplyBody
    BY <2>1, <1>1, SendTypes, PieceTypes, Zenon DEF ReplyHeader, ReplyBody, BaseInv
  <2>2. CASE down' = down
    BY <2>2, <1>1, Zenon DEF BaseInv, SocketTypeOK, Room
  <2> QED BY <2>1, <2>2, Zenon DEF HandlerStep, complete_provider_read, ProviderUnregister,
          unregister_provider, DropRoute, MarkGone, ReplyFails, HandlerEof
<1> QED BY <1>1, <1>2, <1>3, <1>4, <1>5, Zenon DEF BaseInv, SocketTypeOK

(* The client: a helper thread or a direct user.                            *)
ClientAction == ClientStep \/ CallbackReadsMount \/ Unregister

(* What it leaves alone.                                                    *)
LEMMA ClientFrame ==
    ASSUME SocketTypeOK, ClientAction
    PROVE  /\ pc' \in [Threads -> Places]
           /\ \A t \in Threads \ {"client"} : pc'[t] = pc[t]
           /\ UNCHANGED <<daemonVars, kind, queryVars>>
<1>0. pc \in [Threads -> Places] /\ "client" \in Threads
  BY Names, Zenon DEF SocketTypeOK
<1> USE <1>0 DEF Goto, Places, Stop
<1>1. CASE ReadHeader \/ ReadBody \/ ReadEnds
  BY <1>1, Zenon DEF ReadHeader, ReadBody, ReadEnds
<1>2. CASE CallbackReturns \/ CallbackReadsMount
  BY <1>2, Zenon DEF CallbackReturns, CallbackReadsMount
<1>3. CASE RespondHeader \/ RespondBody \/ RespondFails
  BY <1>3, Zenon DEF RespondHeader, RespondBody, RespondFails, clientVars
<1>4. CASE Unregister \/ UnregisterHeader \/ UnregisterBody
  BY <1>4, Zenon DEF Unregister, UnregisterHeader, UnregisterBody, clientVars
<1>5. CASE AnswerHeader \/ AnswerBody \/ UnregisterFails
  BY <1>5, Zenon DEF AnswerHeader, AnswerBody, UnregisterFails
<1> QED BY <1>1, <1>2, <1>3, <1>4, <1>5, Zenon DEF ClientAction, ClientStep

(* Its steps keep the types.                                                *)
LEMMA ClientTypes == ASSUME BaseInv, ClientAction PROVE BaseInv'
<1>0. /\ pc \in [Threads -> Places] /\ "client" \in Threads
      /\ down \in Seq(Pieces) /\ up \in Seq(Pieces) /\ Len(down) <= Room /\ Len(up) <= UpCap
      /\ inHand \in Messages \cup {0}
  BY Names, Zenon DEF BaseInv, SocketTypeOK
<1>1. /\ pc' \in [Threads -> Places]
      /\ \A t \in Threads \ {"client"} : pc'[t] = pc[t]
      /\ UNCHANGED <<runtime, live, route, registered, writer, pending, nextRequest, req, kind,
                     queries, left>>
  BY ClientFrame, Zenon DEF BaseInv, daemonVars, queryVars
<1>2. \A r \in Readers : pc'[r] # "idle" => req'[r] # 0
  BY <1>1, Names, Zenon DEF BaseInv, LocalsOK
<1>3. Room' = Room /\ Room \in Nat
  BY <1>1, SocketAssumptions DEF Room
<1> DEFINE Local == /\ end' \in {"open", "shut", "closed"}
                    /\ inHand' \in Messages \cup {0}
                    /\ nested' \in {"no", "queued", "served", "done"}
                    /\ result' \in {"none", "ok", "error"}
                    /\ pc'["client"] \in {"body", "answerBody"} => inHand' # 0
                    /\ pc'["client"] \in {"callback", "nested", "respond", "respondBody"} =>
                          inHand' \in Requests
           Queues == /\ down' \in Seq(Pieces) /\ Len(down') <= Room'
                     /\ up' \in Seq(Pieces) /\ Len(up') <= UpCap
<1>4. ASSUME ReadHeader \/ ReadBody \/ AnswerHeader \/ AnswerBody PROVE Local /\ Queues
  <2>1. down # <<>> /\ down' = Tail(down) /\ up' = up
    BY <1>4, Zenon DEF ReadHeader, ReadBody, AnswerHeader, AnswerBody
  <2>2. Queues
    BY <1>0, <1>3, <2>1, TailFacts
  <2>3. Head(down).msg \in Messages /\ Head(down).msg # 0
    <3>1. Head(down) \in Pieces
      BY <1>0, <2>1, TailFacts, Zenon
    <3> QED BY <3>1, PieceTypes, Zenon DEF Pieces
  <2>4. Local
    BY <1>4, <1>0, <2>3, Zenon DEF ReadHeader, ReadBody, AnswerHeader, AnswerBody, Stop, Goto, At, BaseInv,
       SocketTypeOK, LocalsOK
  <2> QED BY <2>2, <2>4, Zenon
<1>5. ASSUME RespondHeader \/ RespondBody \/ UnregisterHeader \/ UnregisterBody PROVE Local /\ Queues
  <2>1. Local
    BY <1>5, <1>0, Zenon DEF RespondHeader, RespondBody, UnregisterHeader, UnregisterBody, Goto, At, clientVars,
       BaseInv, SocketTypeOK, LocalsOK
  <2>2. ASSUME RespondHeader \/ RespondBody PROVE inHand \in Messages
    BY <2>2, PieceTypes, Zenon DEF RespondHeader, RespondBody, At, BaseInv, LocalsOK
  <2>3. up' \in Seq(Pieces) /\ Len(up') <= UpCap
    BY <1>5, <1>1, <2>2, SendTypes, PieceTypes, Zenon DEF RespondHeader, RespondBody, UnregisterHeader,
       UnregisterBody, BaseInv
  <2>4. down' = down
    BY <1>5, Zenon DEF RespondHeader, RespondBody, UnregisterHeader, UnregisterBody
  <2> QED BY <1>0, <1>3, <2>1, <2>3, <2>4, Zenon
<1>6. ASSUME \/ CallbackReturns \/ CallbackReadsMount \/ Unregister
             \/ ReadEnds \/ RespondFails \/ UnregisterFails
      PROVE  Local /\ Queues
  <2>1. down' = down /\ up' = up
    BY <1>6, Zenon DEF CallbackReturns, CallbackReadsMount, Unregister, ReadEnds, RespondFails,
       UnregisterFails
  <2>2. ASSUME CallbackReturns \/ CallbackReadsMount \/ Unregister PROVE Local
    BY <1>0, <2>2, Zenon DEF CallbackReturns, CallbackReadsMount, Unregister, clientVars, Goto, At, BaseInv,
       SocketTypeOK, LocalsOK
  <2>3. ASSUME ReadEnds \/ RespondFails \/ UnregisterFails PROVE Local
    BY <1>0, <2>3, Zenon DEF ReadEnds, RespondFails, UnregisterFails, Stop, Goto, BaseInv, SocketTypeOK
  <2> QED BY <1>0, <1>3, <1>6, <2>1, <2>2, <2>3, Zenon
<1>7. Local /\ Queues
  BY <1>4, <1>5, <1>6, Zenon DEF ClientAction, ClientStep
<1> QED BY <1>1, <1>2, <1>7, Zenon DEF BaseInv, SocketTypeOK, LocalsOK

(* The application, and the queries.                                        *)
OtherAction ==
    \/ fp_provider_unregister \/ Join \/ ProcessDies
    \/ Inspect \/ WriteAnswer \/ ReadAnswer \/ AnswerFails

(* What they leave alone.                                                   *)
LEMMA OtherFrame ==
    ASSUME SocketTypeOK, OtherAction
    PROVE  /\ pc' \in [Threads -> Places]
           /\ \A t \in Threads \ {"client", "app", "query"} : pc'[t] = pc[t]
           /\ pc'["client"] \in {pc["client"], "ended"}
           /\ UNCHANGED <<live, route, registered, writer, pending, nextRequest, req, down, up,
                          kind, result>>
<1>0. /\ pc \in [Threads -> Places] /\ "client" \in Threads /\ "app" \in Threads
      /\ "query" \in Threads
  BY Names, Zenon DEF SocketTypeOK
<1> USE <1>0 DEF Goto, Places
<1>1. CASE fp_provider_unregister \/ Join \/ ProcessDies
  BY <1>1, Zenon DEF fp_provider_unregister, Join, ProcessDies, daemonVars
<1>2. CASE Inspect \/ WriteAnswer \/ ReadAnswer \/ AnswerFails
  BY <1>2, Zenon DEF Inspect, WriteAnswer, ReadAnswer, AnswerFails, AnswerWritten, daemonVars, clientVars
<1> QED BY <1>1, <1>2, Zenon DEF OtherAction

(* They keep the types.                                                     *)
LEMMA OtherTypes == ASSUME BaseInv, OtherAction PROVE BaseInv'
<1>1. /\ pc' \in [Threads -> Places]
      /\ \A t \in Threads \ {"client", "app", "query"} : pc'[t] = pc[t]
      /\ pc'["client"] \in {pc["client"], "ended"}
      /\ UNCHANGED <<live, route, registered, writer, pending, nextRequest, req, down, up, kind, result>>
  BY OtherFrame, Zenon DEF BaseInv
<1>2. /\ runtime' \in {None, "handler", "query"} /\ end' \in {"open", "shut", "closed"}
      /\ nested' \in {"no", "queued", "served", "done"}
      /\ inHand' = inHand \/ (inHand' = 0 /\ pc'["client"] = "ended")
      /\ queries' \in 0 .. MaxQueries /\ left' \in 0 .. MaxLeft
  <2>1. CASE fp_provider_unregister \/ Join \/ ProcessDies
    BY <2>1, Names, Zenon DEF fp_provider_unregister, Join, ProcessDies, daemonVars, queryVars, BaseInv,
       SocketTypeOK
  <2>2. CASE Inspect \/ WriteAnswer \/ ReadAnswer \/ AnswerFails
    <3>0. /\ runtime \in {None, "handler", "query"} /\ end \in {"open", "shut", "closed"}
          /\ nested \in {"no", "queued", "served", "done"}
          /\ queries \in 0 .. MaxQueries /\ left \in 0 .. MaxLeft
          /\ MaxQueries \in Nat /\ MaxLeft \in Nat
      BY SocketAssumptions, Zenon DEF BaseInv, SocketTypeOK
    <3>1. CASE Inspect
      BY <3>0, <3>1 DEF Inspect, clientVars
    <3>2. CASE ReadAnswer
      BY <3>0, <3>2 DEF ReadAnswer, daemonVars, clientVars
    <3>3. CASE AnswerWritten
      BY <3>0, <3>3 DEF AnswerWritten, clientVars
    <3> QED BY <2>2, <3>1, <3>2, <3>3, Zenon DEF WriteAnswer, AnswerFails
  <2> QED BY <2>1, <2>2, Zenon DEF OtherAction
<1>3. LocalsOK'
  BY <1>1, <1>2, Names, Zenon DEF BaseInv, LocalsOK
<1>4. Room' = Room
  BY <1>1, Zenon DEF Room
<1> QED BY <1>1, <1>2, <1>3, <1>4, Zenon DEF BaseInv, SocketTypeOK

(* Every step is one of these.                                              *)
LEMMA StepCases ==
    ASSUME [Next]_vars
    PROVE  \/ \E r \in Readers : ReaderLocal(r) \/ WriteHeader(r) \/ WriteBody(r)
           \/ HandlerStep \/ ClientAction \/ OtherAction
           \/ UNCHANGED vars
<1>1. CASE BeginNested \/ NestedFails
  BY <1>1, SocketAssumptions, Zenon DEF ReaderLocal
<1>2. CASE \E r \in Readers : BeginRead(r) \/ ReaderStep(r)
  BY <1>2, Zenon DEF ReaderStep, ReaderLocal
<1> QED BY <1>1, <1>2, Zenon DEF Next, ClientAction, OtherAction

(* The types are kept.                                                      *)
LEMMA BaseStep == BaseInv /\ [Next]_vars => BaseInv'
<1>1. ASSUME BaseInv, UNCHANGED vars PROVE BaseInv'
  BY <1>1 DEF BaseInv, SocketTypeOK, LocalsOK, Room, vars, daemonVars, clientVars, queryVars
<1> QED BY <1>1, StepCases, ReaderTypes, WriteTypes, HandlerTypes, ClientTypes, OtherTypes, Zenon

(* The types hold at first.                                                 *)
LEMMA BaseInit == Init => BaseInv
<1> SUFFICES ASSUME Init PROVE BaseInv
  BY Zenon
<1> USE Names, SocketAssumptions
<1>1. \A t \in Threads : pc[t] = CASE t = "handler" -> "reading"
                                     [] t = "client"  -> "head"
                                     [] t = "app"     -> "running"
                                     [] OTHER         -> "idle"
  BY Zenon DEF Init
<1>2. pc \in [Threads -> Places]
  BY Zenon DEF Init, Places
<1>3. LocalsOK
  BY <1>1, Zenon DEF LocalsOK
<1>4. Room \in Nat
  BY DEF Room
<1> QED BY <1>2, <1>3, <1>4 DEF Init, BaseInv, SocketTypeOK

-----------------------------------------------------------------------------
(* The thread of the library has ended when fp_provider_unregister returns, *)
(* and no step starts it again.                                             *)
JoinedInv == At("app", "returned") => At("client", "ended")

(* A client that has ended stays so.                                        *)
LEMMA EndedStays ==
    ASSUME BaseInv, [Next]_vars, At("client", "ended")
    PROVE  At("client", "ended")'
<1> USE Names DEF At
<1>1. ASSUME NEW r \in Readers, ReaderLocal(r) PROVE pc'["client"] = pc["client"]
  BY <1>1, ReaderFrame, Zenon DEF BaseInv
<1>2. ASSUME NEW r \in Readers, WriteHeader(r) \/ WriteBody(r) PROVE pc'["client"] = pc["client"]
  BY <1>2, Zenon DEF WriteHeader, WriteBody, Goto, BaseInv, SocketTypeOK
<1>3. ASSUME HandlerStep PROVE pc'["client"] = pc["client"]
  BY <1>3, HandlerFrame, Zenon DEF BaseInv
<1>4. ASSUME ClientAction PROVE FALSE
  BY <1>4, Zenon DEF ClientAction, ClientStep, ReadHeader, ReadBody, ReadEnds, CallbackReturns,
     CallbackReadsMount, RespondHeader, RespondBody, RespondFails, Unregister, UnregisterHeader,
     UnregisterBody, AnswerHeader, AnswerBody, UnregisterFails
<1>5. ASSUME OtherAction PROVE pc'["client"] = "ended"
  BY <1>5, OtherFrame, Zenon DEF BaseInv
<1>6. ASSUME UNCHANGED vars PROVE pc' = pc
  BY <1>6, Zenon DEF vars
<1> QED BY <1>1, <1>2, <1>3, <1>4, <1>5, <1>6, StepCases, Zenon

(* Only Join makes the application return.                                  *)
LEMMA JoinedStep == BaseInv /\ JoinedInv /\ [Next]_vars => JoinedInv'
<1> SUFFICES ASSUME BaseInv, JoinedInv, [Next]_vars PROVE JoinedInv'
  BY Zenon
<1> USE Names DEF At
<1>1. ASSUME NEW r \in Readers, ReaderLocal(r) PROVE pc'["app"] = pc["app"]
  BY <1>1, ReaderFrame, Zenon DEF BaseInv
<1>2. ASSUME NEW r \in Readers, WriteHeader(r) \/ WriteBody(r) PROVE pc'["app"] = pc["app"]
  BY <1>2, Zenon DEF WriteHeader, WriteBody, Goto, BaseInv, SocketTypeOK
<1>3. ASSUME HandlerStep PROVE pc'["app"] = pc["app"]
  BY <1>3, HandlerFrame, Zenon DEF BaseInv
<1>4. ASSUME ClientAction PROVE pc'["app"] = pc["app"]
  BY <1>4, ClientFrame, Zenon DEF BaseInv
<1>5. ASSUME OtherAction PROVE pc'["app"] = pc["app"] \/ pc'["app"] # "returned" \/ pc["client"] = "ended"
  BY <1>5, Zenon DEF OtherAction, fp_provider_unregister, Join, ProcessDies, Inspect, WriteAnswer, ReadAnswer,
     AnswerFails, AnswerWritten, Goto, BaseInv, SocketTypeOK
<1>6. ASSUME UNCHANGED vars PROVE pc' = pc
  BY <1>6, Zenon DEF vars
<1>7. pc'["app"] = pc["app"] \/ pc'["app"] # "returned" \/ pc["client"] = "ended"
  BY <1>1, <1>2, <1>3, <1>4, <1>5, <1>6, StepCases, Zenon
<1> QED BY <1>7, EndedStays, Zenon DEF JoinedInv

-----------------------------------------------------------------------------
(* A ProviderUnregistered answer, from the decision to send it to the       *)
(* result of unregister, is about a provider that is gone.                  *)
Gone == ~live /\ ~route /\ ~registered

Holds(q, m) == \E i \in 1 .. Len(q) : q[i].msg = m

SaysGone ==
    \/ pc["handler"] \in {"unregistered", "unregisteredBody"}
    \/ Holds(down, ProviderUnregisteredMsg)
    \/ inHand = ProviderUnregisteredMsg
    \/ result = "ok"

GoneInv ==
    /\ SaysGone => Gone
    /\ pc["handler"] = "mark" => ~route

(* Nothing makes a session live, routed or registered again.                *)
LEMMA GoneStays ==
    ASSUME BaseInv, [Next]_vars
    PROVE  (~live => ~live') /\ (~route => ~route') /\ (~registered => ~registered')
<1>1. ASSUME NEW r \in Readers, ReaderLocal(r)
      PROVE  (~live => ~live') /\ (~route => ~route') /\ (~registered => ~registered')
  BY <1>1 DEF ReaderLocal, BeginRead, Begin, BeginNested, NestedFails, CloneRoute, LockWriter,
     WriteFails, Receive, Timeout, DropRoute, MarkGone, daemonVars
<1>2. ASSUME NEW r \in Readers, WriteHeader(r) \/ WriteBody(r)
      PROVE  UNCHANGED <<live, route, registered>>
  BY <1>2, Zenon DEF WriteHeader, WriteBody, daemonVars
<1>3. ASSUME HandlerStep
      PROVE  (~live => ~live') /\ (~route => ~route') /\ (~registered => ~registered')
  <2>1. CASE unregister_provider
    BY <2>1, Zenon DEF unregister_provider
  <2>2. CASE ~unregister_provider
    BY <1>3, <2>2 DEF HandlerStep, complete_provider_read, ProviderUnregister, DropRoute, MarkGone,
       ReplyHeader, ReplyBody, ReplyFails, HandlerEof, daemonVars
  <2> QED BY <2>1, <2>2, Zenon
<1>4. ASSUME ClientAction PROVE UNCHANGED <<live, route, registered>>
  BY <1>4, ClientFrame, Zenon DEF BaseInv, daemonVars
<1>5. ASSUME OtherAction PROVE UNCHANGED <<live, route, registered>>
  BY <1>5, OtherFrame, Zenon DEF BaseInv
<1>6. ASSUME UNCHANGED vars PROVE UNCHANGED <<live, route, registered>>
  BY <1>6, Zenon DEF vars, daemonVars
<1> QED BY SMTT(30), <1>1, <1>2, <1>3, <1>4, <1>5, <1>6, StepCases

(* What a queue holds after Append, and after Tail.                         *)
LEMMA HoldsAppended ==
    ASSUME NEW q \in Seq(Pieces), NEW m, NEW x \in Pieces, Holds(Append(q, x), m), x.msg # m
    PROVE  Holds(q, m)
  BY AppendFacts DEF Holds

(* The same for Tail.                                                       *)
LEMMA HoldsAfter ==
    ASSUME NEW q \in Seq(Pieces), NEW m
    PROVE  /\ q # <<>> /\ Holds(Tail(q), m) => Holds(q, m)
           /\ q # <<>> => Holds(q, Head(q).msg)
<1>2. ASSUME q # <<>>, Holds(Tail(q), m) PROVE Holds(q, m)
  <2>1. PICK i \in 1 .. Len(Tail(q)) : Tail(q)[i].msg = m
    BY <1>2, Zenon DEF Holds
  <2>2. i + 1 \in 1 .. Len(q) /\ q[i + 1].msg = m
    BY <1>2, <2>1, TailFacts
  <2> QED BY <2>2, Zenon DEF Holds
<1>3. ASSUME q # <<>> PROVE Holds(q, Head(q).msg)
  <2>1. 1 \in 1 .. Len(q) /\ q[1].msg = Head(q).msg
    BY <1>3, TailFacts
  <2> QED BY <2>1, Zenon DEF Holds
<1> QED BY <1>2, <1>3, Zenon

(* Steps of the other threads say nothing new.                              *)
LEMMA GoneStep == BaseInv /\ GoneInv /\ [Next]_vars => GoneInv'
<1> SUFFICES ASSUME BaseInv, GoneInv, [Next]_vars PROVE GoneInv'
  BY Zenon
<1>0. /\ down \in Seq(Pieces)
      /\ pc \in [Threads -> Places] /\ "handler" \in Threads /\ "client" \in Threads
  BY Names, Zenon DEF BaseInv, SocketTypeOK
<1> DEFINE U == ProviderUnregisteredMsg
           Quiet == /\ pc'["handler"] = pc["handler"]
                    /\ SaysGone' => SaysGone
<1>1. ASSUME NEW r \in Readers, ReaderLocal(r) PROVE Quiet
  <2>1. /\ pc'["handler"] = pc["handler"] /\ UNCHANGED <<down, inHand, result>>
    BY <1>1, ReaderFrame, Names, Zenon DEF BaseInv
  <2> QED BY <2>1, Zenon DEF SaysGone, Holds
<1>2. ASSUME NEW r \in Readers, WriteHeader(r) \/ WriteBody(r) PROVE Quiet
  <2>1. /\ pc'["handler"] = pc["handler"] /\ UNCHANGED <<inHand, result>>
        /\ down' = Append(down, Header(req[r])) \/ down' = Append(down, Body(req[r]))
    BY <1>0, <1>2, Names, Zenon DEF WriteHeader, WriteBody, SendDown, Goto, clientVars
  <2>2. req[r] \in Requests
    BY <1>2 DEF WriteHeader, WriteBody, At, BaseInv, LocalsOK, SocketTypeOK, Requests
  <2>3. /\ Header(req[r]) \in Pieces /\ Body(req[r]) \in Pieces
        /\ Header(req[r]).msg # U /\ Body(req[r]).msg # U
    BY <2>2, PieceTypes, Zenon DEF Header, Body
  <2>4. Holds(down', U) => Holds(down, U)
    <3>1. CASE down' = Append(down, Header(req[r]))
      BY <1>0, <2>3, <3>1, HoldsAppended, Zenon
    <3>2. CASE down' = Append(down, Body(req[r]))
      BY <1>0, <2>3, <3>2, HoldsAppended, Zenon
    <3> QED BY <2>1, <3>1, <3>2, Zenon
  <2> QED BY <2>1, <2>4, Zenon DEF SaysGone, Holds
<1>3. ASSUME ClientAction PROVE Quiet
  <2>1. pc'["handler"] = pc["handler"]
    BY <1>3, ClientFrame, Names, Zenon DEF BaseInv
  <2>2. \/ UNCHANGED down /\ inHand' \in {inHand, 0}
        \/ down # <<>> /\ down' = Tail(down) /\ inHand' \in {inHand, 0, Head(down).msg}
    BY <1>3, Zenon DEF ClientAction, ClientStep, ReadHeader, ReadBody, ReadEnds, CallbackReturns,
       CallbackReadsMount, RespondHeader, RespondBody, RespondFails, Unregister, UnregisterHeader,
       UnregisterBody, AnswerHeader, AnswerBody, UnregisterFails, Stop, clientVars
  <2>3. result' = "ok" => result = "ok" \/ inHand = U
    BY <1>3, Zenon DEF ClientAction, ClientStep, ReadHeader, ReadBody, ReadEnds, CallbackReturns,
       CallbackReadsMount, RespondHeader, RespondBody, RespondFails, Unregister, UnregisterHeader,
       UnregisterBody, AnswerHeader, AnswerBody, UnregisterFails, Stop, clientVars
  <2>4. Holds(down', U) => Holds(down, U)
    BY <1>0, <2>2, HoldsAfter, Zenon
  <2>5. inHand' = U => inHand = U \/ Holds(down, U)
    <3>1. U # 0
      BY DEF ProviderUnregisteredMsg
    <3> QED BY <1>0, <2>2, <3>1, HoldsAfter, Zenon
  <2> QED BY <2>1, <2>3, <2>4, <2>5, Zenon DEF SaysGone, Holds
<1>4. ASSUME OtherAction PROVE Quiet
  <2>1. /\ pc'["handler"] = pc["handler"] /\ UNCHANGED <<down, result>>
    BY <1>4, OtherFrame, Names, Zenon DEF BaseInv
  <2>2. inHand' \in {inHand, 0}
    BY <1>4, Zenon DEF OtherAction, fp_provider_unregister, Join, ProcessDies, Inspect, WriteAnswer,
       ReadAnswer, AnswerFails, AnswerWritten, clientVars
  <2> QED BY <2>1, <2>2 DEF SaysGone, Holds, ProviderUnregisteredMsg
<1>5. ASSUME UNCHANGED vars PROVE Quiet
  BY <1>5, Zenon DEF vars, clientVars, SaysGone, Holds
<1>6. ASSUME Quiet PROVE GoneInv'
  BY <1>6, GoneStays, Zenon DEF GoneInv, Gone
<1>7. ASSUME HandlerStep PROVE GoneInv'
  <2>1. UNCHANGED <<inHand, result>>
    BY <1>7, HandlerFrame, Zenon DEF BaseInv, clientVars
  <2>2. CASE ReplyHeader \/ ReplyBody
    <3> DEFINE m == IF pc["handler"] \in {"error", "errorBody"} THEN ErrorMsg ELSE U
    <3>1. down' = Append(down, Header(m)) \/ down' = Append(down, Body(m))
      BY <2>2, Zenon DEF ReplyHeader, ReplyBody, SendDown, At
    <3>2. /\ m \in {ErrorMsg, U} /\ ErrorMsg # U
          /\ Header(m) \in Pieces /\ Body(m) \in Pieces
          /\ Header(m).msg = m /\ Body(m).msg = m
      BY PieceTypes DEF Header, Body, ErrorMsg, ProviderUnregisteredMsg
    <3>3. m = U => pc["handler"] \in {"unregistered", "unregisteredBody"}
      BY <2>2, <3>2, Zenon DEF ReplyHeader, ReplyBody
    <3> HIDE DEF m
    <3>4. Holds(down', U) => Holds(down, U) \/ m = U
      <4>1. CASE down' = Append(down, Header(m))
        BY <1>0, <3>2, <4>1, HoldsAppended, Zenon
      <4>2. CASE down' = Append(down, Body(m))
        BY <1>0, <3>2, <4>2, HoldsAppended, Zenon
      <4> QED BY <3>1, <4>1, <4>2, Zenon
    <3>5. /\ pc'["handler"] # "mark"
          /\ pc'["handler"] = "unregisteredBody" => pc["handler"] = "unregistered"
          /\ pc'["handler"] # "unregistered"
      BY <1>0, <2>2, Zenon DEF ReplyHeader, ReplyBody, Goto, At
    <3>6. SaysGone' => SaysGone
      BY <2>1, <3>3, <3>4, <3>5, Zenon DEF SaysGone, Holds
    <3> QED BY <3>5, <3>6, GoneStays, Zenon DEF GoneInv, Gone
  <2>3. CASE ~(ReplyHeader \/ ReplyBody) /\ ~MarkGone("handler")
    <3>1. /\ down' = down
          /\ pc'["handler"] \in {"unregistered", "unregisteredBody"} => pc'["handler"] = pc["handler"]
          /\ pc'["handler"] = "mark" => pc["handler"] = "mark" \/ route' = FALSE
      BY <1>0, <1>7, <2>3, Zenon DEF HandlerStep, complete_provider_read, ProviderUnregister,
         unregister_provider, DropRoute, ReplyFails, HandlerEof, EndLoop, Goto
    <3>2. SaysGone' => SaysGone
      BY <2>1, <3>1, Zenon DEF SaysGone, Holds
    <3> QED BY <3>1, <3>2, GoneStays, Zenon DEF GoneInv, Gone
  <2>4. CASE MarkGone("handler")
    <3>1. /\ pc["handler"] = "mark" /\ ~live' /\ down' = down /\ UNCHANGED <<route, registered>>
          /\ pc'["handler"] = IF registered THEN "ended" ELSE "unregistered"
      BY <1>0, <2>4, Names, Zenon DEF MarkGone, At, Goto
    <3>2. ~route'
      BY <3>1, Zenon DEF GoneInv
    <3>3. CASE registered
      <4>1. SaysGone' => SaysGone
        BY <2>1, <3>1, <3>3, Zenon DEF SaysGone, Holds
      <4> QED BY <3>1, <3>3, <4>1, GoneStays, Zenon DEF GoneInv, Gone
    <3>4. CASE ~registered
      BY <3>1, <3>2, <3>4, Zenon DEF GoneInv, Gone
    <3> QED BY <3>3, <3>4, Zenon
  <2> QED BY <2>2, <2>3, <2>4, Zenon
<1> QED BY <1>1, <1>2, <1>3, <1>4, <1>5, <1>6, <1>7, StepCases, Zenon

-----------------------------------------------------------------------------
(* The helper thread of the library sends responses and nothing else, so    *)
(* that the handler never answers and only requests are on their way to it. *)
OnlyReads(q) == \A i \in 1 .. Len(q) : q[i].msg \in Requests

LibraryInv ==
    kind # "direct" =>
        /\ registered
        /\ pc["handler"] \in {"reading", "drop", "mark", "ended"}
        /\ pc["client"] \in {"head", "body", "callback", "nested", "respond", "respondBody", "ended"}
        /\ OnlyReads(down) /\ OnlyReads(up)
        /\ inHand \in Requests \cup {0}

(* Queues of requests and responses after a piece comes or goes.            *)
LEMMA OnlyReadsAppended ==
    ASSUME NEW q \in Seq(Pieces), NEW x \in Pieces, OnlyReads(q), x.msg \in Requests
    PROVE  OnlyReads(Append(q, x))
  BY AppendFacts DEF OnlyReads

(* And after the client or the handler has taken some.                      *)
LEMMA OnlyReadsTaken ==
    ASSUME NEW q \in Seq(Pieces), OnlyReads(q)
    PROVE  /\ q # <<>> => OnlyReads(Tail(q)) /\ Head(q).msg \in Requests
           /\ Len(q) >= 2 => OnlyReads(SubSeq(q, 3, Len(q)))
<1>1. ASSUME q # <<>> PROVE OnlyReads(Tail(q)) /\ Head(q).msg \in Requests
  BY <1>1, TailFacts DEF OnlyReads
<1>2. ASSUME Len(q) >= 2 PROVE OnlyReads(SubSeq(q, 3, Len(q)))
  <2> DEFINE t == SubSeq(q, 3, Len(q))
  <2>1. Len(t) = Len(q) - 2 /\ \A i \in 1 .. Len(q) - 2 : t[i] = q[i + 2]
    BY <1>2, FrameTaken, Zenon
  <2>2. \A i \in 1 .. Len(q) - 2 : i + 2 \in 1 .. Len(q)
    OBVIOUS
  <2> HIDE DEF t
  <2>3. OnlyReads(t)
    BY <2>1, <2>2, Zenon DEF OnlyReads
  <2> QED BY <2>3, Zenon DEF t
<1> QED BY <1>1, <1>2, Zenon

(* The library keeps to this, whatever the other threads do.                *)
LEMMA LibraryStep == BaseInv /\ LibraryInv /\ [Next]_vars => LibraryInv'
<1> SUFFICES ASSUME BaseInv, LibraryInv, [Next]_vars, kind' # "direct" PROVE LibraryInv'
  BY Zenon DEF LibraryInv
<1>0. /\ down \in Seq(Pieces) /\ up \in Seq(Pieces)
      /\ pc \in [Threads -> Places] /\ "handler" \in Threads /\ "client" \in Threads
  BY Names, Zenon DEF BaseInv, SocketTypeOK
<1>1. ASSUME NEW r \in Readers, ReaderLocal(r) PROVE LibraryInv'
  <2>1. /\ pc'["handler"] = pc["handler"] /\ pc'["client"] = pc["client"]
        /\ UNCHANGED <<registered, down, up, kind, inHand>>
    BY <1>1, ReaderFrame, Names, Zenon DEF BaseInv
  <2> QED BY <2>1, Zenon DEF LibraryInv, OnlyReads
<1>2. ASSUME NEW r \in Readers, WriteHeader(r) \/ WriteBody(r) PROVE LibraryInv'
  <2>1. /\ pc'["handler"] = pc["handler"] /\ pc'["client"] = pc["client"]
        /\ UNCHANGED <<registered, up, kind, inHand>>
        /\ down' = Append(down, Header(req[r])) \/ down' = Append(down, Body(req[r]))
    BY <1>0, <1>2, Names, Zenon DEF WriteHeader, WriteBody, SendDown, Goto, clientVars, daemonVars
  <2>2. req[r] \in Requests
    BY <1>2 DEF WriteHeader, WriteBody, At, BaseInv, LocalsOK, SocketTypeOK, Requests
  <2>3. /\ Header(req[r]) \in Pieces /\ Body(req[r]) \in Pieces
        /\ Header(req[r]).msg \in Requests /\ Body(req[r]).msg \in Requests
    BY <2>2, PieceTypes, Zenon DEF Header, Body
  <2>4. OnlyReads(down) /\ kind # "direct"
    BY <2>1, Zenon DEF LibraryInv
  <2>5. OnlyReads(down')
    <3>1. CASE down' = Append(down, Header(req[r]))
      BY <1>0, <2>3, <2>4, <3>1, OnlyReadsAppended, Zenon
    <3>2. CASE down' = Append(down, Body(req[r]))
      BY <1>0, <2>3, <2>4, <3>2, OnlyReadsAppended, Zenon
    <3> QED BY <2>1, <3>1, <3>2, Zenon
  <2> QED BY <2>1, <2>4, <2>5, Zenon DEF LibraryInv, OnlyReads
<1>3. ASSUME HandlerStep PROVE LibraryInv'
  <2>1. kind' = kind /\ inHand' = inHand /\ pc'["client"] = pc["client"]
    BY <1>3, HandlerFrame, Names, Zenon DEF BaseInv, clientVars
  <2>2. /\ registered /\ pc["handler"] \in {"reading", "drop", "mark", "ended"}
        /\ OnlyReads(down) /\ OnlyReads(up)
    BY <2>1, Zenon DEF LibraryInv
  <2>3. ~ProviderUnregister
    <3>1. ASSUME ProviderUnregister PROVE FALSE
      <4>1. Len(up) >= 2 /\ up[1] = Header(ProviderUnregisterMsg)
        BY <3>1, Zenon DEF ProviderUnregister, NextFrame
      <4>2. up[1].msg \in Requests /\ up[1].msg = ProviderUnregisterMsg
        BY <1>0, <2>2, <4>1 DEF OnlyReads, Header
      <4> QED BY <4>2, PieceTypes, Zenon
    <3> QED BY <3>1, Zenon
  <2>4. /\ registered' = registered /\ down' = down
        /\ pc'["handler"] \in {"reading", "drop", "mark", "ended"}
    <3>1. CASE (\E m \in Requests : complete_provider_read(m)) \/ HandlerEof
      BY <1>0, <2>2, <3>1, Zenon DEF complete_provider_read, HandlerEof, EndLoop, Goto, At, daemonVars
    <3>2. CASE DropRoute("handler")
      BY <1>0, <3>2, Zenon DEF DropRoute, Goto
    <3>3. CASE MarkGone("handler")
      BY <1>0, <2>2, <3>3, Names, Zenon DEF MarkGone, Goto
    <3>4. CASE unregister_provider \/ ReplyHeader \/ ReplyBody \/ ReplyFails
      BY <2>2, <3>4, Zenon DEF unregister_provider, ReplyHeader, ReplyBody, ReplyFails, At
    <3> QED BY <1>3, <2>3, <3>1, <3>2, <3>3, <3>4, Zenon DEF HandlerStep
  <2>5. up' = up \/ (Len(up) >= 2 /\ up' = SubSeq(up, 3, Len(up)))
    BY <1>3, Zenon DEF HandlerStep, complete_provider_read, ProviderUnregister, unregister_provider,
       DropRoute, MarkGone, ReplyHeader, ReplyBody, ReplyFails, HandlerEof, NextFrame
  <2>6. OnlyReads(up')
    BY <1>0, <2>2, <2>5, OnlyReadsTaken, Zenon
  <2> QED BY <2>1, <2>2, <2>4, <2>6, Zenon DEF LibraryInv, OnlyReads
<1>4. ASSUME ClientAction PROVE LibraryInv'
  <2>1. kind' = kind /\ registered' = registered /\ pc'["handler"] = pc["handler"]
    BY <1>4, ClientFrame, Names, Zenon DEF BaseInv, daemonVars
  <2>2. /\ kind # "direct"
        /\ pc["client"] \in {"head", "body", "callback", "nested", "respond", "respondBody", "ended"}
        /\ OnlyReads(down) /\ OnlyReads(up) /\ inHand \in Requests \cup {0}
    BY <2>1, Zenon DEF LibraryInv
  <2>3. CASE ReadHeader \/ ReadBody
    <3>1. /\ down # <<>> /\ down' = Tail(down) /\ up' = up
          /\ inHand' \in {inHand, 0, Head(down).msg}
          /\ pc'["client"] \in {"body", "callback", "ended"}
      BY <1>0, <2>3, Zenon DEF ReadHeader, ReadBody, Stop, Goto
    <3>2. OnlyReads(down') /\ Head(down).msg \in Requests
      BY <1>0, <2>2, <3>1, OnlyReadsTaken, Zenon
    <3> QED BY <2>1, <2>2, <3>1, <3>2, Zenon DEF LibraryInv, OnlyReads
  <2>4. CASE RespondHeader \/ RespondBody
    <3>1. inHand \in Requests
      BY <2>4, Zenon DEF RespondHeader, RespondBody, At, BaseInv, LocalsOK
    <3>2. /\ down' = down /\ inHand' \in {inHand, 0}
          /\ pc'["client"] \in {"respondBody", "head"}
          /\ up' = Append(up, Header(inHand)) \/ up' = Append(up, Body(inHand))
      BY <1>0, <2>4, Zenon DEF RespondHeader, RespondBody, SendUp, Goto, clientVars
    <3>3. /\ Header(inHand) \in Pieces /\ Body(inHand) \in Pieces
          /\ Header(inHand).msg \in Requests /\ Body(inHand).msg \in Requests
      BY <3>1, PieceTypes, Zenon DEF Header, Body
    <3>4. OnlyReads(up')
      <4>1. CASE up' = Append(up, Header(inHand))
        BY <1>0, <2>2, <3>3, <4>1, OnlyReadsAppended, Zenon
      <4>2. CASE up' = Append(up, Body(inHand))
        BY <1>0, <2>2, <3>3, <4>2, OnlyReadsAppended, Zenon
      <4> QED BY <3>2, <4>1, <4>2, Zenon
    <3> QED BY <2>1, <2>2, <3>2, <3>4, Zenon DEF LibraryInv, OnlyReads
  <2>5. CASE CallbackReturns \/ CallbackReadsMount \/ ReadEnds \/ RespondFails
    <3>1. /\ down' = down /\ up' = up /\ inHand' \in {inHand, 0}
          /\ pc'["client"] \in {"respond", "nested", "ended"}
      BY <1>0, <2>5, Zenon DEF CallbackReturns, CallbackReadsMount, ReadEnds, RespondFails, Stop, Goto
    <3> QED BY <2>1, <2>2, <3>1, Zenon DEF LibraryInv, OnlyReads
  <2>6. CASE \/ Unregister \/ UnregisterHeader \/ UnregisterBody \/ AnswerHeader \/ AnswerBody
             \/ UnregisterFails
    BY <2>2, <2>6, Zenon DEF Unregister, UnregisterHeader, UnregisterBody, AnswerHeader, AnswerBody,
       UnregisterFails, At
  <2> QED BY <1>4, <2>3, <2>4, <2>5, <2>6, Zenon DEF ClientAction, ClientStep
<1>5. ASSUME OtherAction PROVE LibraryInv'
  <2>1. /\ pc'["handler"] = pc["handler"] /\ pc'["client"] \in {pc["client"], "ended"}
        /\ UNCHANGED <<registered, down, up, kind>>
    BY <1>5, OtherFrame, Names, Zenon DEF BaseInv
  <2>2. inHand' \in {inHand, 0}
    BY <1>5, Zenon DEF OtherAction, fp_provider_unregister, Join, ProcessDies, Inspect, WriteAnswer,
       ReadAnswer, AnswerFails, AnswerWritten, clientVars
  <2> QED BY <2>1, <2>2, Zenon DEF LibraryInv, OnlyReads
<1>6. ASSUME UNCHANGED vars PROVE LibraryInv'
  BY <1>6, Zenon DEF vars, daemonVars, clientVars, LibraryInv, OnlyReads
<1> QED BY <1>1, <1>2, <1>3, <1>4, <1>5, <1>6, StepCases, Zenon

-----------------------------------------------------------------------------
(* The frame that has begun and not ended, as the helper thread will see it, *)
(* and who has begun it: the holder of the mutex of the route.              *)
OpenFrame ==
    IF down # <<>>
      THEN IF down[Len(down)].part = "head" THEN down[Len(down)].msg ELSE 0
      ELSE IF At("client", "body") THEN inHand ELSE 0

WriterHolds == \A r \in Readers : pc[r] \in {"header", "body"} => writer = r

FrameOwed ==
    kind # "direct" /\ ~At("client", "ended") /\ end = "open" =>
        /\ \A r \in Readers : pc[r] = "body" => OpenFrame = req[r]
        /\ (\A r \in Readers : pc[r] # "body") => OpenFrame = 0

FrameInv == WriterHolds /\ FramesWhole /\ FrameOwed

(* Alternation, the part of FramesWhole about the queue alone, as the queue *)
(* grows and shrinks.                                                       *)
Alternates(q) ==
    \A i \in 1 .. Len(q) - 1 :
        IF q[i].part = "head" THEN q[i + 1] = Body(q[i].msg) ELSE q[i + 1].part = "head"

(* It is kept when a piece follows that may.                                *)
LEMMA AlternatesAppended ==
    ASSUME NEW q \in Seq(Pieces), NEW x \in Pieces, Alternates(q),
           q # <<>> => IF q[Len(q)].part = "head" THEN x = Body(q[Len(q)].msg) ELSE x.part = "head"
    PROVE  Alternates(Append(q, x))
<1> DEFINE t == Append(q, x)
<1>1. /\ Len(q) \in Nat /\ Len(t) = Len(q) + 1 /\ t[Len(q) + 1] = x
      /\ \A i \in 1 .. Len(q) : t[i] = q[i]
  BY AppendFacts
<1> HIDE DEF t
<1> SUFFICES ASSUME NEW i \in 1 .. Len(q)
             PROVE  IF t[i].part = "head" THEN t[i + 1] = Body(t[i].msg) ELSE t[i + 1].part = "head"
  BY <1>1 DEF Alternates, t
<1>2. CASE i < Len(q)
  <2>1. i \in 1 .. Len(q) - 1 /\ i + 1 \in 1 .. Len(q)
    BY <1>1, <1>2
  <2> QED BY <1>1, <2>1, Zenon DEF Alternates
<1>3. CASE i = Len(q)
  <2>1. q # <<>>
    BY <1>1, <1>3
  <2> QED BY <1>1, <1>3, <2>1, Zenon
<1> QED BY <1>1, <1>2, <1>3

(* The same when the first piece is taken.                                  *)
LEMMA AlternatesTaken ==
    ASSUME NEW q \in Seq(Pieces), Alternates(q), q # <<>>
    PROVE  /\ Alternates(Tail(q))
           /\ Tail(q) # <<>> => IF q[1].part = "head" THEN Tail(q)[1] = Body(q[1].msg)
                                                      ELSE Tail(q)[1].part = "head"
           /\ Tail(q) # <<>> => Tail(q)[Len(Tail(q))] = q[Len(q)]
           /\ Tail(q) = <<>> => Len(q) = 1
<1> DEFINE t == Tail(q)
<1>1. /\ Len(q) \in Nat \ {0} /\ Len(t) = Len(q) - 1 /\ t \in Seq(Pieces)
      /\ \A i \in 1 .. Len(q) - 1 : t[i] = q[i + 1]
  BY TailFacts, Zenon
<1>2. (t = <<>>) <=> (Len(t) = 0)
  BY <1>1
<1> HIDE DEF t
<1>3. Alternates(t)
  <2> SUFFICES ASSUME NEW i \in 1 .. Len(t) - 1
               PROVE  IF t[i].part = "head" THEN t[i + 1] = Body(t[i].msg) ELSE t[i + 1].part = "head"
    BY Zenon DEF Alternates
  <2>1. i \in 1 .. Len(q) - 1 /\ i + 1 \in 1 .. Len(q) - 1
    BY <1>1
  <2> QED BY <1>1, <2>1, Zenon DEF Alternates
<1>4. ASSUME t # <<>>
      PROVE  /\ IF q[1].part = "head" THEN t[1] = Body(q[1].msg) ELSE t[1].part = "head"
             /\ t[Len(t)] = q[Len(q)]
  <2>1. 1 \in 1 .. Len(q) - 1 /\ Len(t) \in 1 .. Len(q) - 1 /\ Len(t) + 1 = Len(q)
    BY <1>1, <1>2, <1>4
  <2> QED BY <1>1, <2>1, Zenon DEF Alternates
<1>5. t = <<>> => Len(q) = 1
  BY <1>1, <1>2
<1> QED BY <1>3, <1>4, <1>5, Zenon DEF t

(* FramesWhole in terms of Alternates.                                      *)
LEMMA WholeAlternates ==
    FramesWhole <=>
        (kind # "direct" /\ ~At("client", "ended") =>
            /\ down # <<>> => IF At("client", "body") THEN down[1] = Body(inHand)
                                                      ELSE down[1].part = "head"
            /\ Alternates(down))
  BY Zenon DEF FramesWhole, Alternates

(* Only the holder of its mutex writes a request.                           *)
LEMMA WriterStep == BaseInv /\ WriterHolds /\ [Next]_vars => WriterHolds'
<1> SUFFICES ASSUME BaseInv, WriterHolds, [Next]_vars PROVE WriterHolds'
  BY Zenon
<1>0. pc \in [Threads -> Places]
  BY Zenon DEF BaseInv, SocketTypeOK
<1>1. ASSUME NEW r \in Readers, ReaderLocal(r) PROVE WriterHolds'
  <2>1. \A q \in Readers \ {r} : pc'[q] = pc[q]
    BY <1>1, ReaderFrame, Names, Zenon DEF BaseInv
  <2>2. CASE LockWriter(r)
    <3>1. \A q \in Readers : pc[q] \notin {"header", "body"}
      BY <2>2, Names, Zenon DEF LockWriter, WriterHolds
    <3> QED BY <2>1, <2>2, <3>1, Zenon DEF LockWriter, WriterHolds
  <2>3. CASE WriteFails(r)
    <3>1. writer = r /\ pc'[r] = "drop"
      BY <1>0, <2>3, Names, Zenon DEF WriteFails, WriterHolds, Goto
    <3> QED BY <2>1, <3>1, Zenon DEF WriterHolds
  <2>4. CASE ~LockWriter(r) /\ ~WriteFails(r)
    <3>1. writer' = writer
      BY <1>1, <2>4, Zenon DEF ReaderLocal, BeginRead, Begin, BeginNested, NestedFails, CloneRoute, Receive,
         Timeout, DropRoute, MarkGone, daemonVars
    <3>2. pc'[r] \in {pc[r], "clone", "lock", "idle", "mark"}
      BY <1>0, <1>1, <2>4, Names, Zenon DEF ReaderLocal, BeginRead, Begin, BeginNested, NestedFails, CloneRoute,
         Receive, Timeout, DropRoute, MarkGone, Return, Goto
    <3> QED BY <2>1, <3>1, <3>2, Zenon DEF WriterHolds
  <2> QED BY <2>2, <2>3, <2>4, Zenon
<1>2. ASSUME NEW r \in Readers, WriteHeader(r) \/ WriteBody(r) PROVE WriterHolds'
  <2>1. writer = r
    BY <1>2, Zenon DEF WriteHeader, WriteBody, At, WriterHolds
  <2>2. \A q \in Readers \ {r} : pc'[q] = pc[q]
    BY <1>0, <1>2, Names, Zenon DEF WriteHeader, WriteBody, Goto
  <2>3. writer' = r \/ pc'[r] = "wait"
    BY <1>0, <1>2, <2>1, Names, Zenon DEF WriteHeader, WriteBody, Goto, daemonVars
  <2> QED BY <2>1, <2>2, <2>3, Zenon DEF WriterHolds
<1>3. ASSUME HandlerStep PROVE WriterHolds'
  BY <1>3, HandlerFrame, Names, Zenon DEF BaseInv, WriterHolds
<1>4. ASSUME ClientAction PROVE WriterHolds'
  BY <1>4, ClientFrame, Names, Zenon DEF BaseInv, WriterHolds, daemonVars
<1>5. ASSUME OtherAction PROVE WriterHolds'
  BY <1>5, OtherFrame, Names, Zenon DEF BaseInv, WriterHolds
<1>6. ASSUME UNCHANGED vars PROVE WriterHolds'
  BY <1>6, Zenon DEF vars, daemonVars, WriterHolds
<1> QED BY <1>1, <1>2, <1>3, <1>4, <1>5, <1>6, StepCases, Zenon

(* Frames stay whole in the queue to the helper thread.                     *)
LEMMA FrameStep == BaseInv /\ LibraryInv /\ FrameInv /\ [Next]_vars => FrameInv'
<1> SUFFICES ASSUME BaseInv, LibraryInv, FrameInv, [Next]_vars,
                    kind' # "direct", ~At("client", "ended")'
             PROVE  FramesWhole' /\ FrameOwed'
  BY WriterStep, Zenon DEF FrameInv, FramesWhole, FrameOwed
<1>0. /\ down \in Seq(Pieces) /\ pc \in [Threads -> Places] /\ "client" \in Threads
      /\ req \in [Readers -> 0 .. MaxRequests]
  BY Names, Zenon DEF BaseInv, SocketTypeOK
<1>k. kind' = kind
  BY StepCases, ReaderFrame, HandlerFrame, ClientFrame, OtherFrame, Zenon DEF BaseInv, WriteHeader,
     WriteBody, clientVars, vars
<1>e. ~At("client", "ended")
  BY EndedStays, Zenon
<1>w. /\ kind # "direct"
      /\ down # <<>> => IF At("client", "body") THEN down[1] = Body(inHand)
                                                ELSE down[1].part = "head"
      /\ Alternates(down)
  BY <1>k, <1>e, WholeAlternates, Zenon DEF FrameInv
<1>o. end = "open" => /\ \A r \in Readers : pc[r] = "body" => OpenFrame = req[r]
                      /\ (\A r \in Readers : pc[r] # "body") => OpenFrame = 0
  BY <1>e, <1>w, Zenon DEF FrameInv, FrameOwed
<1>p. ASSUME Alternates(down'),
             down' # <<>> => IF pc'["client"] = "body" THEN down'[1] = Body(inHand')
                                                       ELSE down'[1].part = "head"
      PROVE  FramesWhole'
  BY <1>p, Zenon DEF FramesWhole, Alternates, At
(* Steps that leave the queue and the client's place in a frame alone.      *)
<1> DEFINE Still == /\ down' = down
                    /\ At("client", "body")' <=> At("client", "body")
                    /\ inHand' = inHand \/ ~At("client", "body")
<1>s. ASSUME Still PROVE FramesWhole' /\ OpenFrame' = OpenFrame
  BY <1>s, <1>k, <1>w, WholeAlternates, Zenon DEF FramesWhole, Alternates, OpenFrame, At
<1>1. ASSUME NEW r \in Readers, ReaderLocal(r) PROVE FramesWhole' /\ FrameOwed'
  <2>1. /\ pc'["client"] = pc["client"] /\ UNCHANGED <<down, kind, end, inHand>>
        /\ \A q \in Readers \ {r} : pc'[q] = pc[q]
    BY <1>1, ReaderFrame, Names, Zenon DEF BaseInv
  <2>2. FramesWhole' /\ OpenFrame' = OpenFrame
    BY <1>s, <2>1, Zenon DEF At
  <2>3. \A q \in Readers \ {r} : req'[q] = req[q]
    BY <1>0, <1>1, Zenon DEF ReaderLocal, BeginRead, Begin, BeginNested, NestedFails, CloneRoute, LockWriter,
       WriteFails, Receive, Timeout, DropRoute, MarkGone, Return, daemonVars
  <2>4. end = "open" => \/ pc[r] # "body" /\ pc'[r] # "body"
                        \/ pc'[r] = pc[r] /\ req'[r] = req[r]
    BY <1>0, <1>1, Names, Zenon DEF ReaderLocal, BeginRead, Begin, BeginNested, NestedFails, CloneRoute,
       LockWriter, WriteFails, Receive, Timeout, DropRoute, MarkGone, Return, Goto, At, daemonVars
  <2>5. FrameOwed'
    BY <1>o, <2>1, <2>2, <2>3, <2>4, Zenon DEF FrameOwed
  <2> QED BY <2>2, <2>5, Zenon
<1>2. ASSUME NEW r \in Readers, WriteHeader(r) PROVE FramesWhole' /\ FrameOwed'
  <2> DEFINE x == Header(req[r])
  <2>1. req[r] \in Requests /\ req[r] # 0
    BY <1>2, PieceTypes DEF WriteHeader, At, BaseInv, LocalsOK, SocketTypeOK, Requests
  <2>2. x \in Pieces /\ x.part = "head" /\ x.msg = req[r]
    BY <2>1, PieceTypes, Zenon DEF Header
  <2>3. /\ pc[r] = "header" /\ end = "open" /\ down' = Append(down, x) /\ req' = req
        /\ pc'["client"] = pc["client"] /\ inHand' = inHand
        /\ pc'[r] = "body" /\ \A q \in Readers \ {r} : pc'[q] = pc[q]
    BY <1>0, <1>2, Names, Zenon DEF WriteHeader, At, SendDown, Goto, daemonVars, clientVars
  <2>4. \A q \in Readers : pc[q] # "body"
    BY <2>3, Zenon DEF FrameInv, WriterHolds
  <2>5. OpenFrame = 0
    BY <1>o, <2>3, <2>4, Zenon
  <2>6. down # <<>> => down[Len(down)].part # "head"
    <3>1. ASSUME down # <<>>, down[Len(down)].part = "head" PROVE FALSE
      <4>1. down[Len(down)].msg = 0
        BY <2>5, <3>1, Zenon DEF OpenFrame
      <4>2. Len(down) \in 1 .. Len(down)
        BY <1>0, <3>1
      <4> QED BY <1>w, <4>1, <4>2, PieceTypes, Zenon DEF LibraryInv, OnlyReads
    <3> QED BY <3>1, Zenon
  <2>7. Alternates(down')
    BY <1>0, <1>w, <2>2, <2>3, <2>6, AlternatesAppended, Zenon
  <2>8. down = <<>> => ~At("client", "body")
    <3>1. ASSUME At("client", "body") PROVE inHand # 0
      BY <3>1, Zenon DEF At, BaseInv, LocalsOK
    <3> QED BY <2>5, <3>1, Zenon DEF OpenFrame
  <2> HIDE DEF x
  <2>9. /\ down' # <<>> /\ Len(down') = Len(down) + 1 /\ down'[Len(down) + 1] = x
        /\ down = <<>> => down'[1] = x
        /\ down # <<>> => down'[1] = down[1]
    <3>1. down \in Seq(Pieces) /\ x \in Pieces /\ down' = Append(down, x)
      BY Zenon, <1>0, <2>2, <2>3
    <3> HIDE DEF x
    <3> QED BY <3>1, AppendEnds
  <2>10. FramesWhole'
    BY <1>w, <2>2, <2>3, <2>7, <2>8, <2>9, WholeAlternates, Zenon DEF FramesWhole, Alternates, At
  <2>11. OpenFrame' = req[r]
    BY <2>2, <2>9, Zenon DEF OpenFrame
  <2>12. FrameOwed'
    BY <2>3, <2>4, <2>11, Zenon DEF FrameOwed
  <2> QED BY <2>10, <2>12, Zenon
<1>3. ASSUME NEW r \in Readers, WriteBody(r) PROVE FramesWhole' /\ FrameOwed'
  <2> DEFINE x == Body(req[r])
  <2>1. req[r] \in Requests /\ req[r] # 0
    BY <1>3, PieceTypes DEF WriteBody, At, BaseInv, LocalsOK, SocketTypeOK, Requests
  <2>2. x \in Pieces /\ x.part = "body" /\ x.msg = req[r]
    BY <2>1, PieceTypes, Zenon DEF Body
  <2>3. /\ pc[r] = "body" /\ end = "open" /\ down' = Append(down, x) /\ req' = req
        /\ pc'["client"] = pc["client"] /\ inHand' = inHand
        /\ pc'[r] = "wait" /\ \A q \in Readers \ {r} : pc'[q] = pc[q]
    BY <1>0, <1>3, Names, Zenon DEF WriteBody, At, SendDown, Goto, clientVars
  <2>4. \A q \in Readers : pc'[q] # "body"
    BY <2>3, Zenon DEF FrameInv, WriterHolds
  <2>5. OpenFrame = req[r]
    BY <1>o, <2>3, Zenon
  <2>6. /\ down # <<>> => down[Len(down)].part = "head" /\ down[Len(down)].msg = req[r]
        /\ down = <<>> => At("client", "body") /\ inHand = req[r]
    BY <2>1, <2>5, Zenon DEF OpenFrame
  <2>7. Alternates(down')
    BY <1>0, <1>w, <2>2, <2>3, <2>6, AlternatesAppended, Zenon
  <2>9. /\ down' # <<>> /\ Len(down') = Len(down) + 1 /\ down'[Len(down) + 1] = x
        /\ down = <<>> => down'[1] = x
        /\ down # <<>> => down'[1] = down[1]
    <3>1. down \in Seq(Pieces) /\ x \in Pieces /\ down' = Append(down, x)
      BY Zenon, <1>0, <2>2, <2>3
    <3> HIDE DEF x
    <3> QED BY <3>1, AppendEnds
  <2>10. FramesWhole'
    BY <1>w, <2>3, <2>6, <2>7, <2>9, WholeAlternates, Zenon DEF FramesWhole, Alternates, At
  <2> HIDE DEF x
  <2>11. OpenFrame' = 0
    BY <2>2, <2>9, Zenon DEF OpenFrame
  <2>12. FrameOwed'
    BY <2>4, <2>11, Zenon DEF FrameOwed
  <2> QED BY <2>10, <2>12, Zenon
<1>4. ASSUME HandlerStep PROVE FramesWhole' /\ FrameOwed'
  <2>1. /\ \A t \in Threads \ {"handler"} : pc'[t] = pc[t]
        /\ req' = req /\ UNCHANGED <<kind, end, inHand>>
    BY <1>4, HandlerFrame, Zenon DEF BaseInv, clientVars
  <2>2. pc["handler"] \in {"reading", "drop", "mark", "ended"}
    BY <1>w, Zenon DEF LibraryInv
  <2>3. down' = down
    BY <1>4, <2>2, Zenon DEF HandlerStep, complete_provider_read, ProviderUnregister, unregister_provider,
       DropRoute, MarkGone, ReplyHeader, ReplyBody, ReplyFails, HandlerEof
  <2>4. /\ pc'["client"] = pc["client"] /\ \A q \in Readers : pc'[q] = pc[q]
    BY <2>1, Names, Zenon
  <2>5. FramesWhole' /\ OpenFrame' = OpenFrame
    BY <1>s, <2>1, <2>3, <2>4, Zenon DEF At
  <2>6. FrameOwed'
    BY <1>o, <2>1, <2>4, <2>5, Zenon DEF FrameOwed
  <2> QED BY <2>5, <2>6, Zenon
<1>5. ASSUME ClientAction PROVE FramesWhole' /\ FrameOwed'
  <2>1. /\ \A q \in Readers : pc'[q] = pc[q] /\ req' = req
    BY <1>5, ClientFrame, Names, Zenon DEF BaseInv, daemonVars
  <2>2. end' = "open" => end = "open"
    BY <1>5, <1>w, Zenon DEF ClientAction, ClientStep, ReadHeader, ReadBody, ReadEnds, CallbackReturns,
       CallbackReadsMount, RespondHeader, RespondBody, RespondFails, Unregister, UnregisterHeader,
       UnregisterBody, AnswerHeader, AnswerBody, UnregisterFails, Stop, clientVars
  <2>3. ASSUME OpenFrame' = OpenFrame PROVE FrameOwed'
    BY <1>o, <2>1, <2>2, <2>3, Zenon DEF FrameOwed
  <2>4. CASE ReadHeader
    <3>1. pc["client"] = "head" /\ down # <<>> /\ down[1].part = "head"
      BY <1>w, <2>4, Zenon DEF ReadHeader, At
    <3>2. /\ down' = Tail(down) /\ inHand' = down[1].msg /\ pc'["client"] = "body"
      BY <1>0, <2>4, <3>1, TailFacts, Zenon DEF ReadHeader, Goto
    <3>3. /\ Alternates(down') /\ (down' # <<>> => down'[1] = Body(down[1].msg))
          /\ down' # <<>> => down'[Len(down')] = down[Len(down)]
          /\ down' = <<>> => Len(down) = 1
      BY <1>0, <1>w, <3>1, <3>2, AlternatesTaken, Zenon
    <3>4. FramesWhole'
      BY <1>p, <3>2, <3>3, Zenon
    <3>5. OpenFrame' = OpenFrame
      BY <3>1, <3>2, <3>3, Zenon DEF OpenFrame, At
    <3> QED BY <2>3, <3>4, <3>5, Zenon
  <2>5. CASE ReadBody
    <3>1. pc["client"] = "body" /\ down # <<>> /\ down[1] = Body(inHand)
      BY <1>w, <2>5, Zenon DEF ReadBody, At
    <3>2. down[1].part = "body"
      BY <3>1 DEF Body
    <3>3. down' = Tail(down) /\ pc'["client"] # "body"
      BY <1>0, <2>5, Zenon DEF ReadBody, Goto, Stop
    <3>4. /\ Alternates(down') /\ (down' # <<>> => down'[1].part = "head")
          /\ down' # <<>> => down'[Len(down')] = down[Len(down)]
          /\ down' = <<>> => Len(down) = 1
      BY <1>0, <1>w, <3>1, <3>2, <3>3, AlternatesTaken, Zenon
    <3>5. FramesWhole'
      BY <1>p, <3>3, <3>4, Zenon
    <3>6. OpenFrame' = OpenFrame
      BY <3>1, <3>2, <3>3, <3>4, Zenon DEF OpenFrame, At
    <3> QED BY <2>3, <3>5, <3>6, Zenon
  <2>6. CASE ~ReadHeader /\ ~ReadBody
    <3>1. pc["client"] \in {"head", "body", "callback", "nested", "respond", "respondBody"}
      BY <1>e, <1>w, Zenon DEF LibraryInv, At
    <3>2. CASE ReadEnds \/ RespondFails
      BY <1>0, <3>2, Zenon DEF ReadEnds, RespondFails, Stop, Goto, At
    <3>3. CASE CallbackReturns \/ CallbackReadsMount \/ RespondHeader \/ RespondBody
      <4>1. down' = down /\ pc["client"] # "body" /\ pc'["client"] # "body"
        BY <1>0, <3>3, Zenon DEF CallbackReturns, CallbackReadsMount, RespondHeader, RespondBody, Goto, At
      <4> QED BY <1>s, <2>3, <4>1, Zenon DEF At
    <3>4. CASE \/ Unregister \/ UnregisterHeader \/ UnregisterBody \/ AnswerHeader \/ AnswerBody
               \/ UnregisterFails
      BY <1>w, <3>1, <3>4, Zenon DEF Unregister, UnregisterHeader, UnregisterBody, AnswerHeader, AnswerBody,
         UnregisterFails, At
    <3> QED BY <1>5, <2>6, <3>2, <3>3, <3>4, Zenon DEF ClientAction, ClientStep
  <2> QED BY <2>4, <2>5, <2>6, Zenon
<1>6. ASSUME OtherAction PROVE FramesWhole' /\ FrameOwed'
  <2>1. /\ pc'["client"] = pc["client"] /\ \A q \in Readers : pc'[q] = pc[q]
        /\ req' = req /\ down' = down
    BY <1>6, OtherFrame, Names, Zenon DEF BaseInv, At
  <2>2. inHand' = inHand /\ (end' = "open" => end = "open")
    BY <1>0, <1>6, Names, Zenon DEF OtherAction, fp_provider_unregister, Join, ProcessDies, Inspect, WriteAnswer,
       ReadAnswer, AnswerFails, AnswerWritten, clientVars, At
  <2>3. FramesWhole' /\ OpenFrame' = OpenFrame
    BY <1>s, <2>1, <2>2, Zenon DEF At
  <2>4. FrameOwed'
    BY <1>o, <2>1, <2>2, <2>3, Zenon DEF FrameOwed
  <2> QED BY <2>3, <2>4, Zenon
<1>7. ASSUME UNCHANGED vars PROVE FramesWhole' /\ FrameOwed'
  BY <1>7, Zenon DEF vars, daemonVars, clientVars, FrameInv, FramesWhole, FrameOwed, OpenFrame, At
<1> QED BY <1>1, <1>2, <1>3, <1>4, <1>5, <1>6, <1>7, StepCases, Zenon

(* The helper thread ends only with its connection, or as the process ends. *)
LEMMA HelperStep == BaseInv /\ LibraryInv /\ FrameInv /\ HelperServes /\ [Next]_vars => HelperServes'
<1> SUFFICES ASSUME BaseInv, LibraryInv, FrameInv, HelperServes, [Next]_vars,
                    kind' # "direct", At("client", "ended")'
             PROVE  (end # "open" \/ ~DaemonEndOpen)'
  BY Zenon DEF HelperServes
<1>0. /\ pc \in [Threads -> Places] /\ "client" \in Threads /\ down \in Seq(Pieces)
      /\ end \in {"open", "shut", "closed"}
  BY Names, Zenon DEF BaseInv, SocketTypeOK
<1>k. kind' = kind
  BY StepCases, ReaderFrame, HandlerFrame, ClientFrame, OtherFrame, Zenon DEF BaseInv, WriteHeader,
     WriteBody, clientVars, vars
<1>1. ASSUME end # "open" PROVE end' # "open"
  <2>1. ASSUME NEW r \in Readers, ReaderLocal(r) PROVE end' = end
    BY <2>1, ReaderFrame, Zenon DEF BaseInv
  <2>2. ASSUME ClientAction PROVE end' # "open"
    BY <1>1, <2>2, Zenon DEF ClientAction, ClientStep, ReadHeader, ReadBody, ReadEnds, CallbackReturns,
       CallbackReadsMount, RespondHeader, RespondBody, RespondFails, Unregister, UnregisterHeader,
       UnregisterBody, AnswerHeader, AnswerBody, UnregisterFails, Stop, clientVars
  <2>3. ASSUME OtherAction PROVE end' # "open"
    BY <1>1, <2>3, Zenon DEF OtherAction, fp_provider_unregister, Join, ProcessDies, Inspect, WriteAnswer,
       ReadAnswer, AnswerFails, AnswerWritten, clientVars
  <2> QED BY <1>1, <2>1, <2>2, <2>3, StepCases, HandlerFrame, Zenon DEF BaseInv, WriteHeader, WriteBody,
             clientVars, vars
(* A closed end has no thread left that could use it.                       *)
<1>2. ASSUME ~DaemonEndOpen PROVE ~DaemonEndOpen'
  <2>1. pc["handler"] = "ended" /\ ~route /\ \A r \in Readers : pc[r] \in {"idle", "clone"}
    BY <1>2, Zenon DEF DaemonEndOpen
  <2>2. ~route'
    BY <2>1, GoneStays, Zenon
  <2>3. ASSUME NEW r \in Readers, ReaderLocal(r) PROVE ~DaemonEndOpen'
    <3>1. pc'["handler"] = "ended" /\ \A q \in Readers \ {r} : pc'[q] = pc[q]
      BY <2>1, <2>3, ReaderFrame, Names, Zenon DEF BaseInv
    <3>2. pc'[r] \in {"idle", "clone"}
      BY <1>0, <2>1, <2>3, Names, Zenon DEF ReaderLocal, BeginRead, Begin, BeginNested, NestedFails, CloneRoute,
         LockWriter, WriteFails, Receive, Timeout, DropRoute, MarkGone, Return, Goto, At
    <3> QED BY <2>1, <2>2, <3>1, <3>2, Zenon DEF DaemonEndOpen
  <2>4. ASSUME NEW r \in Readers, WriteHeader(r) \/ WriteBody(r) PROVE FALSE
    BY <2>1, <2>4, Zenon DEF WriteHeader, WriteBody, At
  <2>5. ASSUME HandlerStep PROVE FALSE
    BY <2>1, <2>5, Zenon DEF HandlerStep, complete_provider_read, ProviderUnregister, unregister_provider,
       DropRoute, MarkGone, ReplyHeader, ReplyBody, ReplyFails, HandlerEof, At
  <2>6. ASSUME ClientAction PROVE ~DaemonEndOpen'
    BY <2>1, <2>2, <2>6, ClientFrame, Names, Zenon DEF BaseInv, daemonVars, DaemonEndOpen
  <2>7. ASSUME OtherAction PROVE ~DaemonEndOpen'
    BY <2>1, <2>2, <2>7, OtherFrame, Names, Zenon DEF BaseInv, DaemonEndOpen
  <2>8. ASSUME UNCHANGED vars PROVE ~DaemonEndOpen'
    BY <1>2, <2>8, Zenon DEF vars, daemonVars, DaemonEndOpen
  <2> QED BY <2>3, <2>4, <2>5, <2>6, <2>7, <2>8, StepCases, Zenon
<1>3. CASE At("client", "ended")
  BY <1>k, <1>1, <1>2, <1>3, Zenon DEF HelperServes
<1>4. CASE ~At("client", "ended")
  <2>1. ASSUME NEW r \in Readers, ReaderLocal(r) PROVE FALSE
    BY <1>4, <2>1, ReaderFrame, Names, Zenon DEF BaseInv, At
  <2>2. ASSUME NEW r \in Readers, WriteHeader(r) \/ WriteBody(r) PROVE FALSE
    BY <1>0, <1>4, <2>2, Names, Zenon DEF WriteHeader, WriteBody, Goto, At
  <2>3. ASSUME HandlerStep PROVE FALSE
    BY <1>4, <2>3, HandlerFrame, Names, Zenon DEF BaseInv, At
  <2>4. ASSUME ClientAction PROVE (end # "open" \/ ~DaemonEndOpen)'
    <3>1. CASE ReadHeader
      <4>1. down # <<>> /\ down[1].part = "head"
        BY <1>k, <1>4, <3>1, Zenon DEF ReadHeader, At, FrameInv, FramesWhole
      <4> QED BY <1>0, <3>1, <4>1 DEF ReadHeader, Goto, At
    <3>2. CASE ReadBody
      <4>1. /\ down # <<>> /\ down[1] = Body(inHand) /\ inHand # 0 /\ inHand \in Requests \cup {0}
        BY <1>k, <1>4, <3>2, Zenon DEF ReadBody, At, FrameInv, FramesWhole, LibraryInv, BaseInv, LocalsOK
      <4>2. down[1].part = "body" /\ down[1].msg = inHand /\ inHand \in Requests
        BY <4>1 DEF Body
      <4> QED BY <1>0, <3>2, <4>1, <4>2 DEF ReadBody, Goto, At
    <3>3. CASE ReadEnds \/ RespondFails
      BY <1>1, <1>2, <1>k, <3>3, Zenon DEF ReadEnds, RespondFails, Stop, EndOfDown
    <3>4. CASE CallbackReturns \/ CallbackReadsMount \/ RespondHeader \/ RespondBody
      BY <1>0, <3>4, Zenon DEF CallbackReturns, CallbackReadsMount, RespondHeader, RespondBody, Goto, At
    <3>5. CASE \/ Unregister \/ UnregisterHeader \/ UnregisterBody \/ AnswerHeader \/ AnswerBody
               \/ UnregisterFails
      BY <1>k, <3>5, Zenon DEF LibraryInv, Unregister, UnregisterHeader, UnregisterBody, AnswerHeader,
         AnswerBody, UnregisterFails, At
    <3> QED BY <2>4, <3>1, <3>2, <3>3, <3>4, <3>5, Zenon DEF ClientAction, ClientStep
  <2>5. ASSUME OtherAction PROVE (end # "open")'
    BY <1>0, <1>4, <2>5, Names, Zenon DEF OtherAction, fp_provider_unregister, Join, ProcessDies, Inspect,
       WriteAnswer, ReadAnswer, AnswerFails, AnswerWritten, clientVars, Goto, At
  <2>6. ASSUME UNCHANGED vars PROVE FALSE
    BY <1>4, <2>6, Zenon DEF vars, At
  <2> QED BY <2>1, <2>2, <2>3, <2>4, <2>5, <2>6, StepCases, Zenon
<1> QED BY <1>3, <1>4, Zenon

-----------------------------------------------------------------------------
(* The inductive invariant of the connection.                               *)
SocketInv == /\ BaseInv /\ JoinedInv /\ GoneInv
             /\ LibraryInv /\ FrameInv /\ HelperServes

(* It holds of a registered provider whose connection is still silent.      *)
LEMMA SocketInit == Init => SocketInv
<1> SUFFICES ASSUME Init PROVE SocketInv
  BY Zenon
<1>1. /\ pc["handler"] = "reading" /\ pc["client"] = "head" /\ pc["app"] = "running"
      /\ \A r \in Readers : pc[r] = "idle"
  BY Names, Zenon DEF Init
<1>2. down = <<>> /\ up = <<>> /\ Len(down) = 0 /\ Len(up) = 0 /\ inHand = 0 /\ result = "none"
  BY Zenon DEF Init
<1>3. JoinedInv /\ HelperServes
  BY <1>1, Zenon DEF JoinedInv, HelperServes, At
<1>4. GoneInv
  BY <1>1, <1>2, PieceTypes DEF GoneInv, SaysGone, Holds
<1>5. LibraryInv
  BY <1>1, <1>2 DEF Init, LibraryInv, OnlyReads
<1>6. FrameInv
  BY <1>1, <1>2 DEF FrameInv, WriterHolds, FramesWhole, FrameOwed, OpenFrame, At
<1> QED BY <1>3, <1>4, <1>5, <1>6, BaseInit, Zenon DEF SocketInv

(* Every state that the daemon, the library and the application reach over  *)
(* one provider connection satisfies the inductive invariant.               *)
THEOREM ConnectionTheorem == Spec => []SocketInv
<1>1. SocketInv /\ [Next]_vars => SocketInv'
  BY BaseStep, JoinedStep, GoneStep, LibraryStep, FrameStep, HelperStep, Zenon DEF SocketInv
<1> QED BY <1>1, SocketInit, PTL DEF Spec

(* Type correctness of the two buffers, the mutexes and the threads.        *)
THEOREM SocketTypeTheorem == Spec => []SocketTypeOK
<1>1. SocketInv => SocketTypeOK
  BY Zenon DEF SocketInv, BaseInv
<1> QED BY <1>1, ConnectionTheorem, PTL

(* The frames that request_read writes under the mutex of the route reach   *)
(* the helper thread of the library whole and in turn, whatever the number  *)
(* of readers, of requests and of pieces that the socket holds.             *)
THEOREM FramesTheorem == Spec => []FramesWhole
<1>1. SocketInv => FramesWhole
  BY Zenon DEF SocketInv, FrameInv
<1> QED BY <1>1, ConnectionTheorem, PTL

(* The helper thread, which ends at the first frame that it does not        *)
(* expect, answers requests until its connection is shut or closed.         *)
THEOREM HelperTheorem == Spec => []HelperServes
<1>1. SocketInv => HelperServes
  BY Zenon DEF SocketInv
<1> QED BY <1>1, ConnectionTheorem, PTL

(* fp_provider_unregister joins the helper thread: once it has returned no  *)
(* callback of the provider runs.                                           *)
THEOREM NoCallbackTheorem == Spec => []NoCallbackAfterUnregister
<1>1. SocketInv => NoCallbackAfterUnregister
  BY Zenon DEF SocketInv, JoinedInv, NoCallbackAfterUnregister, At
<1> QED BY <1>1, ConnectionTheorem, PTL

(* ProviderConnection::unregister returns Ok, for which any frame of the    *)
(* connection may be taken as the answer, only for a provider that is gone. *)
THEOREM UnregisteredTheorem == Spec => []UnregisteredIsGone
<1>1. SocketInv => UnregisteredIsGone
  BY Zenon DEF SocketInv, GoneInv, SaysGone, Gone, UnregisteredIsGone
<1> QED BY <1>1, ConnectionTheorem, PTL

=============================================================================
