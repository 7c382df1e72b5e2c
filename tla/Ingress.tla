------------------------------ MODULE Ingress ------------------------------
(***************************************************************************)
(* The way in: the accept loop and handle_connection (main.rs), the rate   *)
(* limiter per address (rate_limiter.rs), ProxyService (proxy_service.rs)  *)
(* and the timeouts of streamed answers (timeout.rs), for connections that *)
(* come and go without end.                                                *)
(*                                                                         *)
(* Time passes in ticks; a timer is the ticks it has left and has run out  *)
(* at 0, and the runtime serves what has run out before the next tick.     *)
(* Lifecycle has the order of signals, drain and exit in detail, McpRequest*)
(* what happens to a parsed body; here both are seen from the connection.  *)
(***************************************************************************)
EXTENDS Wire

CONSTANTS Conns,            \* client sockets; each may connect again and again
          Addrs, AddrOf,    \* client addresses, and the address of each socket
          Burst,            \* THOUGHTGATE_RATE_LIMIT_BURST; a token a tick
          StaleAfter,       \* ticks until an idle limiter is stale
          MaxStreams,       \* max_concurrent_streams
          RequestTimeout,   \* THOUGHTGATE_REQUEST_TIMEOUT_SECS
          ChunkTimeout, TotalTimeout,   \* stream_read_timeout, stream_total_timeout
          Grace,            \* the 5 seconds of handle_connection
          DrainTimeout,     \* THOUGHTGATE_DRAIN_TIMEOUT_SECS
          Deployments,      \* handler, upstream, forward: what was configured
          Requests, Bodies, \* requests clients send, and what is in them
          MaxFrames         \* bound: frames of one streamed answer

ASSUME IngressAssumption ==
    /\ AddrOf \in [Conns -> Addrs]
    /\ {Burst, StaleAfter, MaxStreams, RequestTimeout, ChunkTimeout, TotalTimeout} \subseteq Nat \ {0}
    /\ {Grace, DrainTimeout, MaxFrames} \subseteq Nat

\* The path of a URI begins with a slash, but for the asterisk of OPTIONS.
ASSUME RequestsAssumption ==
    \A r \in Requests : r.path \in Seq(STRING) /\ r.path # <<>> /\ (r.path[1] = Slash \/ r.path = <<"*">>)

\* What JSON allows.
ASSUME BodiesAssumption ==
    \A b \in Bodies :
        /\ b.shape \in {"broken", "scalar", "object", "array"} /\ DOMAIN b.items = 1 .. Len(b.items)
        /\ b.shape = "object" => Len(b.items) = 1
        /\ \A k \in DOMAIN b.items :
              b.items[k].form \in {"object", "tuple", "other"} /\ b.items[k].method \in BOOLEAN /\ b.items[k].id \in IdKinds

ASSUME NoneAssumption == None \notin Nat \cup [debt : Nat, idle : Nat]

VARIABLES deployment, conn,
          limiter,          \* PerIpRateLimiter.limiters: debt and idle time
          permits,          \* the semaphore
          active,           \* LifecycleManager.active_requests
          gauge,            \* connections_active
          shutdown,         \* "no", "begun" (flag set), "cancelled" (token too)
          event             \* the answer or forward of the last step (history)

vars == <<deployment, conn, limiter, permits, active, gauge, shutdown, event>>
slots == <<permits, active, gauge>>

\* Of a connection: its timers, the frames made and passed on, and
\* (history) the ticks it has gone on for after the token was cancelled.
Away == [phase |-> "away", life |-> None, grace |-> None, waited |-> 0, chunk |-> None,
         total |-> None, room |-> TRUE, made |-> 0, passed |-> 0, upstream |-> "open"]

\* What hyper is serving; a request is in progress in all of these but "idle".
InFlight == {"body", "handler", "answering", "upstream", "stream"}
Hyper == InFlight \cup {"idle"}
Served == Hyper \cup {"peek", "ended"}
Phase(c) == conn[c].phase
Set(c, r) == conn' = [conn EXCEPT ![c] = r]
Turn(c, phase) == [conn[c] EXCEPT !.phase = phase]

Init ==
    /\ deployment \in Deployments
    /\ conn = [c \in Conns |-> Away]
    /\ limiter = [a \in Addrs |-> None]
    /\ permits = MaxStreams /\ active = 0 /\ gauge = 0
    /\ shutdown = "no" /\ event = None

----------------------------------------------------------------------------
(* PerIpRateLimiter.                                                       *)

\* The bucket of the governor crate: debt is what has been taken and not yet
\* been refilled.
Debt(a) == IF limiter[a] = None THEN 0 ELSE limiter[a].debt
Idle(a) == IF limiter[a] = None THEN StaleAfter ELSE limiter[a].idle
CheckAllows(a) == Debt(a) < Burst

\* check: the entry is made when it is missing, and has been seen now.
SeenOnlyAtFirst(a) ==
    [limiter EXCEPT ![a] = [debt |-> IF CheckAllows(a) THEN Debt(a) + 1 ELSE Debt(a),
                            idle |-> IF limiter[a] = None THEN 0 ELSE limiter[a].idle]]
Check(a) ==
    [limiter EXCEPT ![a] = [debt |-> IF CheckAllows(a) THEN Debt(a) + 1 ELSE Debt(a), idle |-> 0]]

\* cleanup_stale, by the task of spawn_cleanup_task, until the token is cancelled.
Stale(a) == limiter[a] # None /\ limiter[a].idle >= StaleAfter
CleanupStale ==
    /\ shutdown # "cancelled" /\ \E a \in Addrs : Stale(a)
    /\ limiter' = [a \in Addrs |-> IF Stale(a) THEN None ELSE limiter[a]]
    /\ UNCHANGED <<deployment, conn, slots, shutdown>> /\ event' = None

----------------------------------------------------------------------------
(* The accept loop.                                                        *)

\* The three ways to be turned away; a task of its own writes the answer.
Send429Response == [kind |-> "refused", status |-> 429, retryAfter |-> 1]
Send503Response == [kind |-> "refused", status |-> 503, retryAfter |-> 1]
Send503ShutdownResponse == [kind |-> "refused", status |-> 503, retryAfter |-> 5]

Connect(c) ==
    /\ Phase(c) = "away"
    /\ Set(c, Turn(c, "queued"))
    /\ UNCHANGED <<deployment, limiter, slots, shutdown>> /\ event' = None

\* track_request refuses once the shutdown has begun (503).
RefuseShutdown(c) ==
    /\ Phase(c) = "queued" /\ shutdown # "no"
    /\ Set(c, Away)
    /\ UNCHANGED <<deployment, limiter, slots, shutdown>> /\ event' = Send503ShutdownResponse

\* 429: the guard is dropped again.
RateLimited(c) ==
    /\ Phase(c) = "queued" /\ shutdown = "no" /\ ~CheckAllows(AddrOf[c])
    /\ limiter' = Check(AddrOf[c])
    /\ Set(c, Away)
    /\ UNCHANGED <<deployment, slots, shutdown>> /\ event' = Send429Response

\* 503: no permit; the limiter has counted the connection.
StreamsExhausted(c) ==
    /\ Phase(c) = "queued" /\ shutdown = "no" /\ CheckAllows(AddrOf[c]) /\ permits = 0
    /\ limiter' = Check(AddrOf[c])
    /\ Set(c, Away)
    /\ UNCHANGED <<deployment, slots, shutdown>> /\ event' = Send503Response

\* The connection gets a task: one timeout for all of it.
Spawn(c) ==
    /\ Phase(c) = "queued" /\ shutdown = "no" /\ CheckAllows(AddrOf[c]) /\ permits > 0
    /\ limiter' = Check(AddrOf[c])
    /\ permits' = permits - 1 /\ active' = active + 1 /\ gauge' = gauge + 1
    /\ Set(c, [conn[c] EXCEPT !.phase = "peek", !.life = RequestTimeout])
    /\ UNCHANGED <<deployment, shutdown>> /\ event' = None

\* However handle_connection ended: gauges, guard and permit are given back.
KeepsPermit(c) ==
    /\ Phase(c) = "ended"
    /\ permits' = (IF conn[c].life = 0 THEN permits ELSE permits + 1)
    /\ active' = active - 1 /\ gauge' = gauge - 1
    /\ Set(c, Away)
    /\ UNCHANGED <<deployment, limiter, shutdown>> /\ event' = None
EndConnection(c) ==
    /\ Phase(c) = "ended"
    /\ permits' = permits + 1 /\ active' = active - 1 /\ gauge' = gauge - 1
    /\ Set(c, Away)
    /\ UNCHANGED <<deployment, limiter, shutdown>> /\ event' = None

----------------------------------------------------------------------------
(* handle_connection.                                                      *)

ConnOnly == UNCHANGED <<deployment, limiter, slots, shutdown>>

\* The peek: CONNECT in the first bytes ends the connection with 405; anything
\* else, a shorter read included, goes to hyper.
FirstBytes(c) ==
    /\ Phase(c) = "peek"
    /\ \/ Set(c, Turn(c, "idle"))
       \/ Set(c, Turn(c, "ended"))
    /\ ConnOnly /\ event' = None

\* An answer has been written: hyper goes on, or closes when it was told to.
Answered(c) ==
    [conn[c] EXCEPT !.phase = IF conn[c].grace = None THEN "idle" ELSE "ended",
                    !.chunk = None, !.total = None, !.room = TRUE,
                    !.made = 0, !.passed = 0, !.upstream = "open"]

\* handle_request: MCP traffic goes to the handler when there is one ...
HandleMcpRequest(c, r) ==
    /\ Phase(c) = "idle" /\ conn[c].grace = None
    /\ DiscriminateTraffic(r) = "mcp" /\ deployment.handler
    /\ Set(c, [conn[c] EXCEPT !.phase = "body"])
    /\ ConnOnly /\ event' = None

\* ... everything else to the upstream, or is refused for want of a target.
HandleHttpRequest(c, r) ==
    /\ Phase(c) = "idle" /\ conn[c].grace = None
    /\ DiscriminateTraffic(r) = "http" \/ ~deployment.handler
    /\ LET target == ExtractTargetUri(r, deployment) IN
       \/ /\ target # None
          /\ Set(c, [conn[c] EXCEPT !.phase = "upstream"])
          /\ event' = [kind |-> "forward", req |-> r, target |-> target, headers |-> ForwardedHeaders(r)]
       \/ /\ target = None /\ Set(c, conn[c])
          /\ event' = [kind |-> "error", status |-> ToResponse("InvalidUri")]
    /\ ConnOnly

\* Limited: the body is read whole and parsed, or is refused with -32600.
ReadBody(c) ==
    /\ Phase(c) = "body"
    /\ \/ Set(c, Turn(c, "handler")) /\ event' = None
       \/ Set(c, Answered(c)) /\ event' = [kind |-> "error", status |-> 200]
    /\ ConnOnly

\* The handler refuses the whole body, answers it at once, or streams blanks
\* until it can (a single request that waits for its approval).
Answers(c, body, via, ids) ==
    /\ Set(c, Answered(c))
    /\ event' = [kind |-> "answer", body |-> body, via |-> via, ids |-> ids]
HandlerRefuses(c, body) ==
    /\ Phase(c) = "handler"
    /\ Answers(c, body, "refusal", RefusalIds)
    /\ ConnOnly
HandlerAnswers(c, body) ==
    /\ Phase(c) = "handler"
    /\ Answers(c, body, "whole", ResponseIds(ParseJsonRpc(body)))
    /\ ConnOnly
HandlerStreams(c) ==
    /\ Phase(c) = "handler"
    /\ Set(c, Turn(c, "answering"))
    /\ ConnOnly /\ event' = None
StreamFinal(c, body) ==
    /\ Phase(c) = "answering" /\ ParseJsonRpc(body).kind = "single"
    /\ Answers(c, body, "stream", StreamIds(ParseJsonRpc(body)))
    /\ ConnOnly

\* The upstream call fails (map_hyper_error), or its answer begins to stream.
UpstreamFails(c, kind) ==
    /\ Phase(c) = "upstream"
    /\ Set(c, Answered(c)) /\ event' = [kind |-> "error", status |-> ToResponse(MapHyperError(kind))]
    /\ ConnOnly
UpstreamAnswers(c) ==
    /\ Phase(c) = "upstream"
    /\ Set(c, [conn[c] EXCEPT !.phase = "stream", !.chunk = ChunkTimeout, !.total = TotalTimeout])
    /\ ConnOnly /\ event' = None

UpstreamSends(c) ==
    /\ Phase(c) = "stream" /\ conn[c].upstream = "open"
    /\ \/ conn[c].made < MaxFrames /\ Set(c, [conn[c] EXCEPT !.made = @ + 1])
       \/ Set(c, [conn[c] EXCEPT !.upstream = "done"])
       \/ Set(c, [conn[c] EXCEPT !.upstream = "broken"])
    /\ ConnOnly /\ event' = None

\* TimeoutBody::poll_frame, which hyper calls while the client takes data: the
\* total timeout, the chunk timeout, and only then the body.
TimedOut(c) == conn[c].total = 0 \/ conn[c].chunk = 0
PollTimesOut(c) ==
    /\ Phase(c) = "stream" /\ conn[c].room /\ TimedOut(c)
    /\ Set(c, Turn(c, "ended")) /\ event' = [kind |-> "aborted"]
    /\ ConnOnly
PollFrame(c) ==
    /\ Phase(c) = "stream" /\ conn[c].room /\ ~TimedOut(c) /\ conn[c].passed < conn[c].made
    /\ \E room \in BOOLEAN :
          Set(c, [conn[c] EXCEPT !.passed = @ + 1, !.chunk = ChunkTimeout, !.room = room])
    /\ ConnOnly /\ event' = None
PollEnd(c) ==
    /\ Phase(c) = "stream" /\ conn[c].room /\ ~TimedOut(c) /\ conn[c].passed = conn[c].made
    /\ \/ /\ conn[c].upstream = "done"
          /\ Set(c, Answered(c))
          /\ event' = [kind |-> "complete", frames |-> conn[c].passed, of |-> conn[c].made,
                       upstream |-> conn[c].upstream]
       \/ /\ conn[c].upstream = "broken"
          /\ Set(c, Turn(c, "ended")) /\ event' = [kind |-> "aborted"]
    /\ ConnOnly

ClientReads(c) ==
    /\ Phase(c) = "stream" /\ ~conn[c].room
    /\ Set(c, [conn[c] EXCEPT !.room = TRUE])
    /\ ConnOnly /\ event' = None

ClientLeaves(c) ==
    /\ Phase(c) \in Hyper \cup {"peek"}
    /\ Set(c, Turn(c, "ended"))
    /\ ConnOnly /\ event' = None

\* The cancelled token: an idle connection closes, one in progress gets Grace.
\* A connection still in its peek does not look at the token.
MustClose(c) == shutdown = "cancelled" /\ Phase(c) \in Hyper /\ conn[c].grace = None
GracefulShutdown(c) ==
    /\ MustClose(c)
    /\ \/ Phase(c) = "idle" /\ Set(c, Turn(c, "ended"))
       \/ Phase(c) # "idle" /\ Set(c, [conn[c] EXCEPT !.grace = Grace])
    /\ ConnOnly /\ event' = None

GraceExpires(c) ==
    /\ Phase(c) \in Hyper /\ conn[c].grace = 0
    /\ Set(c, Turn(c, "ended"))
    /\ ConnOnly /\ event' = None

\* The timeout around handle_connection.
NeverInPeek(c) ==
    /\ Phase(c) \in Hyper /\ conn[c].life = 0
    /\ Set(c, Turn(c, "ended"))
    /\ ConnOnly /\ event' = None
TimeoutFires(c) ==
    /\ Phase(c) \in Hyper \cup {"peek"} /\ conn[c].life = 0
    /\ Set(c, Turn(c, "ended"))
    /\ ConnOnly /\ event' = None

----------------------------------------------------------------------------
(* Signals and time.                                                       *)

BeginShutdown ==
    /\ shutdown = "no" /\ shutdown' = "begun"
    /\ UNCHANGED <<deployment, conn, limiter, slots>> /\ event' = None
CancelToken ==
    /\ shutdown = "begun" /\ shutdown' = "cancelled"
    /\ UNCHANGED <<deployment, conn, limiter, slots>> /\ event' = None

\* Something the runtime does before it lets the clock go on.
Overdue(c) ==
    \/ Phase(c) \in Hyper \cup {"peek"} /\ conn[c].life = 0
    \/ Phase(c) \in Hyper /\ conn[c].grace = 0
    \/ Phase(c) = "stream" /\ conn[c].room /\ TimedOut(c)
    \/ MustClose(c)

Less(t) == IF t = None \/ t = 0 THEN t ELSE t - 1
Tick ==
    /\ \A c \in Conns : ~Overdue(c)
    /\ conn' = [c \in Conns |->
                  [conn[c] EXCEPT !.life = Less(@), !.grace = Less(@), !.chunk = Less(@), !.total = Less(@),
                                  !.waited = IF shutdown = "cancelled" /\ Phase(c) \in Hyper /\ @ <= DrainTimeout
                                               THEN @ + 1 ELSE @]]
    /\ limiter' = [a \in Addrs |->
                     IF limiter[a] = None THEN None
                     ELSE [debt |-> Less(limiter[a].debt),
                           idle |-> IF limiter[a].idle < StaleAfter THEN limiter[a].idle + 1 ELSE StaleAfter]]
    /\ UNCHANGED <<deployment, slots, shutdown>> /\ event' = None

----------------------------------------------------------------------------
(* The system.                                                             *)

Expire(c) == PollTimesOut(c) \/ GracefulShutdown(c) \/ GraceExpires(c) \/ TimeoutFires(c)

ConnStep(c) ==
    \/ Connect(c) \/ RefuseShutdown(c) \/ RateLimited(c) \/ StreamsExhausted(c) \/ Spawn(c)
    \/ EndConnection(c) \/ FirstBytes(c) \/ ReadBody(c) \/ HandlerStreams(c)
    \/ UpstreamAnswers(c) \/ UpstreamSends(c) \/ PollFrame(c) \/ PollEnd(c)
    \/ ClientReads(c) \/ ClientLeaves(c) \/ Expire(c)
    \/ \E r \in Requests : HandleMcpRequest(c, r) \/ HandleHttpRequest(c, r)
    \/ \E body \in Bodies : HandlerRefuses(c, body) \/ HandlerAnswers(c, body) \/ StreamFinal(c, body)
    \/ \E kind \in {"refused", "timeout", "reset"} : UpstreamFails(c, kind)

Next == CleanupStale \/ BeginShutdown \/ CancelToken \/ Tick \/ \E c \in Conns : ConnStep(c)

\* The clock goes on, the runtime serves what has run out, and a task that has
\* ended is dropped; no client, upstream, handler or operator has to do anything.
Spec == Init /\ [][Next]_vars
FairSpec == Spec /\ WF_vars(Tick)
                 /\ \A c \in Conns : WF_vars(Expire(c)) /\ WF_vars(EndConnection(c))

----------------------------------------------------------------------------
(* Properties.                                                             *)

Timer == Nat \cup {None}
Connections ==
    [phase : Served \cup {"away", "queued"}, life : Timer, grace : Timer, waited : Nat, chunk : Timer, total : Timer,
     room : BOOLEAN, made : 0 .. MaxFrames, passed : 0 .. MaxFrames, upstream : {"open", "done", "broken"}]

\* Every variable has its type; no answer passes on more frames than there are.
TypeOK ==
    /\ deployment \in Deployments
    /\ conn \in [Conns -> Connections] /\ \A c \in Conns : conn[c].passed <= conn[c].made
    /\ limiter \in [Addrs -> [debt : 0 .. Burst, idle : 0 .. StaleAfter] \cup {None}]
    /\ permits \in 0 .. MaxStreams /\ active \in Nat /\ gauge \in Nat
    /\ shutdown \in {"no", "begun", "cancelled"}

\* Permits, the request counter and the gauge tell exactly how many connections
\* have a task, however connections end: refused, answered, abandoned, timed out,
\* aborted or cut at shutdown.
SlotsExact ==
    LET n == Cardinality({c \in Conns : Phase(c) \in Served}) IN
    permits = MaxStreams - n /\ active = n /\ gauge = n

\* The limiter, whose map of addresses is swept while connections come in, is a
\* token bucket per address, which only an address that has not tried for
\* StaleAfter finds full early (TokenBucket).
Bucket == INSTANCE TokenBucket
    WITH tokens <- [a \in Addrs |-> Burst - Debt(a)], idle <- [a \in Addrs |-> Idle(a)]
BucketSpec == Bucket!Spec

\* With a handler, no MCP request reaches the upstream without it, however its
\* path is spelt with slashes; nothing is sent to a host the client names unless
\* forward proxying was asked for; the headers of a hop stay behind.
GovernedIngress ==
    event # None /\ event.kind = "forward" =>
        /\ ~(deployment.handler /\ IsMcp(event.req))
        /\ event.target = "named" => deployment.forward /\ ~deployment.upstream
        /\ event.headers \cap HopByHop = {}

\* Every body that is not refused whole is answered as JSON-RPC 2.0 wants: an
\* answer with the id of every request, none for a notification unless a stream
\* was opened for it, null where the id cannot be known; a bad element of a batch
\* does not cost the others their answers.
IdsEchoed ==
    event # None /\ event.kind = "answer" =>
        \A id \in IdKinds \ {"absent", "float", "bool"} :
            Cardinality({k \in DOMAIN event.ids : event.ids[k] = id}) = Due(event.body, event.via, id)

\* A client is told that an answer is complete only when the upstream had
\* finished it and every frame was passed on; one cut short is an error.
CompleteOnlyAtEnd ==
    event # None /\ event.kind = "complete" => event.upstream = "done" /\ event.frames = event.of

\* What a client is told is true: which request an answer is for, and that it
\* is whole.
AnswersTrue == IdsEchoed /\ CompleteOnlyAtEnd

\* Every connection that got a task ends and gives its slot back, though client
\* and upstream may both fall silent at any point, the peek included.
ConnectionsEnd ==
    \A c \in Conns : (Phase(c) \in Served) ~> (Phase(c) = "away")

\* The specification (REQ-CORE-005 F-004.3): a shutdown lets requests in flight
\* complete, up to the drain timeout.
InFlightComplete ==
    [][\A c \in Conns : GraceExpires(c) /\ Phase(c) \in InFlight => conn[c].waited >= DrainTimeout]_vars
=============================================================================
