------------------------------ MODULE Lifecycle ------------------------------
(***************************************************************************)
(* LifecycleManager (thoughtgate-core/src/lifecycle/mod.rs) and the tasks  *)
(* that share it in the proxy (thoughtgate-proxy/src/main.rs): the main    *)
(* task, which starts up, accepts connections and shuts down; one task per *)
(* connection; one per signal handler; the upstream health checker.        *)
(*                                                                         *)
(* The model starts where the signal handlers are installed, which is      *)
(* before the proxy is marked ready, and ends when the process exits.      *)
(***************************************************************************)
EXTENDS Integers, FiniteSets

CONSTANTS Conns,                 \* connections that clients may open
          Signals,               \* handlers of SIGINT and SIGTERM
          MaxConcurrentStreams,  \* permits of the connection semaphore
          NoConn

ASSUME LifecycleAssumption ==
    IsFiniteSet(Conns) /\ NoConn \notin Conns /\ MaxConcurrentStreams \in Nat

VARIABLES state,      \* LifecycleManager.state
          token,      \* the CancellationToken is cancelled
          loaded,     \* config_loaded and approval_store_initialized
          healthy,    \* upstream_health.is_healthy
          checker,    \* the health checker: "off", "running", "stopped"
          active,     \* active_requests
          permits,    \* free permits of the semaphore
          main, current, \* where the main task is; the connection in its hands
          clean,      \* drain_requests returned Complete
          conn,       \* where each connection is
          handler     \* where each signal handler is

probeVars == <<loaded, healthy, checker>>
lifecycleVars == <<state, token, probeVars, active, permits, main, current, clean, conn, handler>>

LifecycleInit ==
    /\ state = "Starting" /\ token = FALSE
    /\ loaded = FALSE /\ healthy = FALSE /\ checker = "off"
    /\ active = 0 /\ permits = MaxConcurrentStreams
    /\ main = "starting" /\ current = NoConn /\ clean = FALSE
    /\ conn = [c \in Conns |-> "away"]
    /\ handler = [h \in Signals |-> "waiting"]

Running == main # "exited"
IsShuttingDown == state \in {"ShuttingDown", "Stopped"}

-----------------------------------------------------------------------------
(* Startup. *)

\* verify_upstream_connectivity: assumed or probed; with an upstream_url the
\* checker is spawned.
VerifyUpstream ==
    /\ main = "starting"
    /\ healthy' = TRUE /\ checker' \in {"off", "running"}
    /\ main' = "verified"
    /\ UNCHANGED <<state, token, loaded, active, permits, current, clean, conn, handler>>

\* The upstream is required and unreachable, or the startup deadline has passed.
StartupFails ==
    /\ main \in {"starting", "verified"}
    /\ main' = "exited"
    /\ UNCHANGED <<state, token, probeVars, active, permits, current, clean, conn, handler>>

\* mark_config_loaded, mark_approval_store_initialized, mark_ready: the state
\* is stored whatever it was.
MarkReady ==
    /\ main = "verified"
    /\ loaded' = TRUE
    /\ state' = "Ready"
    /\ main' = "accepting"
    /\ UNCHANGED <<token, healthy, checker, active, permits, current, clean, conn, handler>>

-----------------------------------------------------------------------------
(* The accept loop. *)

Accept(c) ==
    /\ main = "accepting" /\ conn[c] = "backlog"
    /\ current' = c
    /\ main' = "tracking"
    /\ UNCHANGED <<state, token, probeVars, active, permits, clean, conn, handler>>

\* The connection gets a 503 or a 429 and the loop goes on.
Turn(c, s) ==
    /\ conn' = [conn EXCEPT ![c] = s]
    /\ main' = "accepting" /\ current' = NoConn

\* track_request reads the state ...
TrackCheck ==
    /\ main = "tracking"
    /\ IF IsShuttingDown
         THEN Turn(current, "refused")
         ELSE main' = "counting" /\ UNCHANGED <<conn, current>>
    /\ UNCHANGED <<state, token, probeVars, active, permits, clean, handler>>

\* ... and counts the request a step later.
TrackCount ==
    /\ main = "counting"
    /\ active' = active + 1
    /\ main' = "admitting"
    /\ UNCHANGED <<state, token, probeVars, permits, current, clean, conn, handler>>

RefuseKeepsGuard ==
    /\ Turn(current, "refused")
    /\ UNCHANGED <<state, token, probeVars, active, permits, clean, handler>>

\* drop(request_guard) on the way to an error response.
Refuse ==
    /\ Turn(current, "refused")
    /\ active' = active - 1
    /\ UNCHANGED <<state, token, probeVars, permits, clean, handler>>

\* PerIpRateLimiter::check says no.
RateLimited == main = "admitting" /\ Refuse

NoPermit == permits = 0

StreamsExhausted == main = "admitting" /\ NoPermit /\ Refuse

\* The permit is taken and the connection's task spawned.
Spawn ==
    /\ main = "admitting" /\ ~NoPermit
    /\ permits' = permits - 1
    /\ Turn(current, "serving")
    /\ UNCHANGED <<state, token, probeVars, active, clean, handler>>

\* The select! may take this branch or a waiting connection.
StopAccepting ==
    /\ main = "accepting" /\ token
    /\ main' = "draining"
    /\ UNCHANGED <<state, token, probeVars, active, permits, current, clean, conn, handler>>

-----------------------------------------------------------------------------
(* graceful_shutdown. *)

DrainedButOne == active <= 1
Drained == active = 0

\* drain_requests: Complete, or Timeout when the deadline passes first.
Drain ==
    /\ main = "draining"
    /\ clean' = Drained
    /\ main' = "drained"
    /\ UNCHANGED <<state, token, probeVars, active, permits, current, conn, handler>>

\* mark_stopped; main returns and the process ends.
MarkStopped ==
    /\ main = "drained"
    /\ state' = "Stopped"
    /\ main' = "exited"
    /\ UNCHANGED <<token, probeVars, active, permits, current, clean, conn, handler>>

-----------------------------------------------------------------------------
(* A connection's task. *)

Arrive(c) ==
    /\ Running /\ conn[c] = "away"
    /\ conn' = [conn EXCEPT ![c] = "backlog"]
    /\ UNCHANGED <<state, token, probeVars, active, permits, main, current, clean, handler>>

\* handle_connection returns, fails, times out or is closed by the shutdown;
\* the guard is dropped ...
DropGuard(c) ==
    /\ Running /\ conn[c] = "serving"
    /\ active' = active - 1
    /\ conn' = [conn EXCEPT ![c] = "ending"]
    /\ UNCHANGED <<state, token, probeVars, permits, main, current, clean, handler>>

\* ... and then the permit.
DropPermit(c) ==
    /\ Running /\ conn[c] = "ending"
    /\ permits' = permits + 1
    /\ conn' = [conn EXCEPT ![c] = "closed"]
    /\ UNCHANGED <<state, token, probeVars, active, main, current, clean, handler>>

-----------------------------------------------------------------------------
(* Signal handlers and the health checker. *)

\* begin_shutdown stores the state ...
BeginShutdown(h) ==
    /\ Running /\ handler[h] = "waiting"
    /\ state' = "ShuttingDown"
    /\ handler' = [handler EXCEPT ![h] = "stored"]
    /\ UNCHANGED <<token, probeVars, active, permits, main, current, clean, conn>>

CancelTokenForgotten(h) ==
    /\ Running /\ handler[h] = "stored"
    /\ handler' = [handler EXCEPT ![h] = "done"]
    /\ UNCHANGED <<state, token, probeVars, active, permits, main, current, clean, conn>>

\* ... and the tokens are cancelled afterwards.
CancelToken(h) ==
    /\ Running /\ handler[h] = "stored"
    /\ token' = TRUE
    /\ handler' = [handler EXCEPT ![h] = "done"]
    /\ UNCHANGED <<state, probeVars, active, permits, main, current, clean, conn>>

\* SIGQUIT: mark_stopped and process::exit.
Quit ==
    /\ Running
    /\ state' = "Stopped"
    /\ main' = "exited"
    /\ UNCHANGED <<token, probeVars, active, permits, current, clean, conn, handler>>

\* One round of spawn_upstream_health_checker.
CheckUpstream(b) ==
    /\ Running /\ checker = "running"
    /\ healthy' = b
    /\ UNCHANGED <<state, token, loaded, checker, active, permits, main, current, clean, conn,
                   handler>>

StopChecker ==
    /\ Running /\ checker = "running" /\ token
    /\ checker' = "stopped"
    /\ UNCHANGED <<state, token, loaded, healthy, active, permits, main, current, clean, conn,
                   handler>>

-----------------------------------------------------------------------------
MainStep ==
    \/ VerifyUpstream \/ StartupFails \/ MarkReady
    \/ \E c \in Conns : Accept(c)
    \/ TrackCheck \/ TrackCount \/ RateLimited \/ StreamsExhausted \/ Spawn
    \/ StopAccepting \/ Drain \/ MarkStopped

LifecycleNext ==
    \/ MainStep \/ Quit \/ StopChecker
    \/ \E b \in BOOLEAN : CheckUpstream(b)
    \/ \E c \in Conns : Arrive(c) \/ DropGuard(c) \/ DropPermit(c)
    \/ \E h \in Signals : BeginShutdown(h) \/ CancelToken(h)

LifecycleSpec == LifecycleInit /\ [][LifecycleNext]_lifecycleVars

\* The main task and a handler that has begun run on; the select! is fair
\* between its branches; THOUGHTGATE_REQUEST_TIMEOUT_SECS bounds a connection.
LifecycleFairSpec ==
    /\ LifecycleSpec
    /\ WF_lifecycleVars(MainStep) /\ SF_lifecycleVars(StopAccepting)
    /\ \A h \in Signals : WF_lifecycleVars(CancelToken(h))
    /\ \A c \in Conns : WF_lifecycleVars(DropGuard(c)) /\ WF_lifecycleVars(DropPermit(c))

-----------------------------------------------------------------------------
(* Properties *)

\* Every variable has its type; the counters never wrap below zero.
LifecycleTypeOK ==
    /\ state \in {"Starting", "Ready", "ShuttingDown", "Stopped"}
    /\ token \in BOOLEAN /\ loaded \in BOOLEAN /\ healthy \in BOOLEAN
    /\ checker \in {"off", "running", "stopped"}
    /\ active \in Nat /\ permits \in 0..MaxConcurrentStreams
    /\ main \in {"starting", "verified", "accepting", "tracking", "counting", "admitting",
                 "draining", "drained", "exited"}
    /\ current \in Conns \cup {NoConn}
    /\ clean \in BOOLEAN
    /\ conn \in [Conns -> {"away", "backlog", "refused", "serving", "ending", "closed"}]
    /\ handler \in [Signals -> {"waiting", "stored", "done"}]

Serving == {c \in Conns : conn[c] = "serving"}
Holding == {c \in Conns : conn[c] \in {"serving", "ending"}}

\* active_requests counts the connections being served and the one being
\* admitted, and the semaphore the ones not yet closed, on every path through
\* the accept loop: nothing is leaked by a refusal.
AdmissionExact ==
    /\ Running => active = Cardinality(Serving) + (IF main = "admitting" THEN 1 ELSE 0)
    /\ permits = MaxConcurrentStreams - Cardinality(Holding)

\* A clean drain means that nothing was being served any more, and that
\* nothing was let in between the drain and the exit.
CleanDrainIsFinal == (clean /\ main \in {"drained", "exited"}) => Serving = {}

\* Once a signal handler has started, the process ends.
ShutdownCompletes == \A h \in Signals : handler[h] = "stored" ~> main = "exited"

\* readiness_handler: what GET /ready would answer.
ReadyAnswer == ~IsShuttingDown /\ loaded /\ healthy /\ state = "Ready"

\* "F-003.6: During shutdown, return 503" (lifecycle/health.rs:196).
NotReadyDuringShutdown == token => ~ReadyAnswer
=============================================================================
