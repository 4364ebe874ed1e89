------------------------------- MODULE ApiServer -------------------------------
(***************************************************************************)
(* One life of the API process (cmd/api/main.go, internal/http, db.go):    *)
(* it looks for the database once, serves with the store it then has or    *)
(* without one, and on a signal shuts the server down, closes the pool and *)
(* ends.  A request runs one of the handlers, statement after statement,   *)
(* each on a connection of the pool; what the services compute is in       *)
(* ReplayHarness, TrustService, LineageService and ExplainService.         *)
(*                                                                         *)
(* net/http, pgxpool and chi are modelled from how main and the handlers   *)
(* use them.  The clock is abstract: 10 s of Shutdown and 30 s of a        *)
(* request are over at any moment.                                         *)
(***************************************************************************)
EXTENDS Naturals, FiniteSets

CONSTANTS
    Requests,        \* the requests that clients may send
    MaxConns,        \* connections in the pool
    MaxStatements    \* bound: statements a service issues for one request

ASSUME ApiAssumption == MaxConns \in Nat \ {0} /\ MaxStatements \in Nat \ {0}

VARIABLES
    database,     \* up, down (refuses), or hung (accepts and does not answer)
    main,         \* where the main goroutine is
    listener,     \* of the server goroutine
    store,        \* none, or the state of its pool
    signalled,    \* SIGINT or SIGTERM was received: ctx is done
    crashed,      \* the process was killed
    late,         \* Shutdown gave up waiting
    at,           \* where each request is
    kind,         \* which handler it runs
    left,         \* statements that it may still issue
    answer,       \* what the handler wrote
    expired,      \* requests whose context is over (chi's Timeout)
    shutOut       \* requests that met the closed pool

process == <<database, main, listener, store, signalled, crashed, late>>
requests == <<at, kind, left, answer, expired, shutOut>>
vars == <<process, requests>>

Kinds == {"preflight", "health", "list", "exception", "service"}

\* The answers that need no store; those to a question of the database come last.
StandIns == {"disconnected", "empty", "not_implemented", "unavailable"}
Answers == StandIns \union {"none", "preflight", "ok", "error"}

\* A handler is at work; it holds a connection in "querying" alone.
Working == {"between", "querying", "sending"}
Querying == {r \in Requests : at[r] = "querying"}

Init ==
    /\ database \in {"up", "down", "hung"}
    /\ main = "connecting"
    /\ listener = "new" /\ store = "none"
    /\ signalled = FALSE /\ crashed = FALSE /\ late = FALSE
    /\ at = [r \in Requests |-> "unsent"]
    /\ kind = [r \in Requests |-> "health"]
    /\ left = [r \in Requests |-> 0]
    /\ answer = [r \in Requests |-> "none"]
    /\ expired = {} /\ shutOut = {}

-----------------------------------------------------------------------------
(* The surroundings. *)

\* The database comes and goes.
Outage ==
    /\ main # "exited"
    /\ database' \in {"up", "down", "hung"} \ {database}
    /\ UNCHANGED <<main, listener, store, signalled, crashed, late, requests>>

Signal ==
    /\ main # "exited" /\ ~signalled
    /\ signalled' = TRUE
    /\ UNCHANGED <<database, main, listener, store, crashed, late, requests>>

\* What the end of the process leaves of its requests.
Ended == [r \in Requests |->
    CASE at[r] = "querying"              -> "torn"
      [] at[r] \in {"between", "sending"} -> "cut"
      [] at[r] = "connected"             -> "refused"
      [] OTHER                           -> at[r]]

Crash ==
    /\ main # "exited"
    /\ main' = "exited" /\ crashed' = TRUE /\ at' = Ended
    /\ UNCHANGED <<database, listener, store, signalled, late, kind, left, answer, expired, shutOut>>

-----------------------------------------------------------------------------
(* main. *)

\* Fault: the pool is pinged under a context that no signal ends.
Connect_WithoutContext ==
    /\ main = "connecting"
    /\ \/ database = "up" /\ store' = "open"
       \/ database = "down" /\ UNCHANGED store
    /\ main' = "serving"
    /\ UNCHANGED <<database, listener, signalled, crashed, late, requests>>

\* NewPool connects and pings under the context of the signal.  Without a pool, no store.
Connect ==
    /\ main = "connecting"
    /\ \/ database = "up" /\ store' = "open"
       \/ (database = "down" \/ signalled) /\ UNCHANGED store
    /\ main' = "serving"
    /\ UNCHANGED <<database, listener, signalled, crashed, late, requests>>

\* A database that does not answer: the driver may, but need not, give up by itself.
ConnectTimeout ==
    /\ main = "connecting" /\ database = "hung"
    /\ main' = "serving"
    /\ UNCHANGED <<database, listener, store, signalled, crashed, late, requests>>

\* Start: an address in use is logged, and the process stays, deaf.
Start ==
    /\ main = "serving" /\ listener = "new"
    /\ listener' \in {"open", "failed"}
    /\ UNCHANGED <<database, main, store, signalled, crashed, late, requests>>

BeginShutdown ==
    /\ main = "serving" /\ signalled
    /\ main' = "stopping" /\ listener' = "closed"
    /\ UNCHANGED <<database, store, signalled, crashed, late, requests>>

\* The deferred Close of the pool begins: it hands out no connection any more.
ClosePool ==
    /\ main' = "closing"
    /\ store' = IF store = "open" THEN "closed" ELSE store

\* Fault: the server is closed, not shut down.
Drained_AtOnce ==
    /\ main = "stopping"
    /\ ClosePool
    /\ UNCHANGED <<database, listener, signalled, crashed, late, requests>>

\* Shutdown returns when no connection is active, or new.
Drained ==
    /\ main = "stopping"
    /\ \A r \in Requests : at[r] \notin Working \union {"connected"}
    /\ ClosePool
    /\ UNCHANGED <<database, listener, signalled, crashed, late, requests>>

\* Or when its ten seconds are over.
Deadline ==
    /\ main = "stopping"
    /\ late' = TRUE
    /\ ClosePool
    /\ UNCHANGED <<database, listener, signalled, crashed, requests>>

\* Fault: main returns without closing the pool.
Exit_Unclosed ==
    /\ main = "closing"
    /\ main' = "exited" /\ at' = Ended
    /\ UNCHANGED <<database, listener, store, signalled, crashed, late,
                   kind, left, answer, expired, shutOut>>

\* Close waits for the connections in use; then main returns, whoever is still at work.
Exit ==
    /\ main = "closing"
    /\ Querying = {}
    /\ main' = "exited" /\ at' = Ended
    /\ UNCHANGED <<database, listener, store, signalled, crashed, late,
                   kind, left, answer, expired, shutOut>>

-----------------------------------------------------------------------------
(* Requests. *)

Dial(r) ==
    /\ at[r] = "unsent" /\ main # "exited"
    /\ at' = [at EXCEPT ![r] = IF listener = "open" THEN "connected" ELSE "refused"]
    /\ UNCHANGED <<process, kind, left, answer, expired, shutOut>>

\* A server that shuts down closes the connections on which nothing has come.
Hangup(r) ==
    /\ at[r] = "connected" /\ main = "stopping"
    /\ at' = [at EXCEPT ![r] = "refused"]
    /\ UNCHANGED <<process, kind, left, answer, expired, shutOut>>

\* What a handler answers without a store.
StandIn(k) ==
    CASE k = "health"    -> "disconnected"
      [] k = "list"      -> "empty"
      [] k = "exception" -> "not_implemented"
      [] k = "service"   -> "unavailable"

\* Fault: the handler of one exception does not ask whether there is a store.
Receive_Unchecked(r) ==
    /\ at[r] = "connected" /\ main # "exited"
    /\ \E k \in Kinds :
          /\ kind' = [kind EXCEPT ![r] = k]
          /\ left' = [left EXCEPT ![r] = IF k = "service" THEN MaxStatements ELSE 1]
          /\ IF k = "preflight" \/ (store = "none" /\ k # "exception")
             THEN /\ at' = [at EXCEPT ![r] = "sending"]
                  /\ answer' = [answer EXCEPT ![r] = IF k = "preflight" THEN k ELSE StandIn(k)]
             ELSE /\ at' = [at EXCEPT ![r] = "between"]
                  /\ UNCHANGED answer
    /\ UNCHANGED <<process, expired, shutOut>>

\* The server reads a request and starts its handler, on any open connection, until the
\* process ends.
Receive(r) ==
    /\ at[r] = "connected" /\ main # "exited"
    /\ \E k \in Kinds :
          /\ kind' = [kind EXCEPT ![r] = k]
          /\ left' = [left EXCEPT ![r] = IF k = "service" THEN MaxStatements ELSE 1]
          /\ IF k = "preflight" \/ store = "none"
             THEN /\ at' = [at EXCEPT ![r] = "sending"]
                  /\ answer' = [answer EXCEPT ![r] = IF k = "preflight" THEN k ELSE StandIn(k)]
             ELSE /\ at' = [at EXCEPT ![r] = "between"]
                  /\ UNCHANGED answer
    /\ UNCHANGED <<process, expired, shutOut>>

\* A statement takes a free connection.
Acquire(r) ==
    /\ at[r] = "between"
    /\ left[r] > 0 /\ store = "open" /\ r \notin expired
    /\ Cardinality(Querying) < MaxConns
    /\ at' = [at EXCEPT ![r] = "querying"]
    /\ left' = [left EXCEPT ![r] = @ - 1]
    /\ UNCHANGED <<process, kind, answer, expired, shutOut>>

Reply(r, a) ==
    /\ at' = [at EXCEPT ![r] = "sending"]
    /\ answer' = [answer EXCEPT ![r] = a]

\* The row or rows are there, or the one row is not; a service goes on.
Succeed(r) ==
    /\ at[r] = "querying" /\ database = "up"
    /\ \/ Reply(r, "ok")
       \/ kind[r] \in {"exception", "service"} /\ Reply(r, "error")
       \/ kind[r] = "service" /\ left[r] > 0
          /\ at' = [at EXCEPT ![r] = "between"] /\ UNCHANGED answer
    /\ UNCHANGED <<process, kind, left, expired, shutOut>>

\* Fault: a list that cannot be read is answered like one without a store.
OnError_Empty(r) ==
    /\ \/ Reply(r, IF kind[r] = "list" THEN StandIn("list") ELSE "error")
       \/ kind[r] = "service" /\ Reply(r, "ok")
       \/ kind[r] = "service" /\ left[r] > 0
          /\ at' = [at EXCEPT ![r] = "between"] /\ UNCHANGED answer

\* The health check and the lists report an error, the handlers of one thing call it not
\* found; a service may also pass over it, and answer as if nothing had happened.
OnError(r) ==
    /\ \/ Reply(r, "error")
       \/ kind[r] = "service" /\ Reply(r, "ok")
       \/ kind[r] = "service" /\ left[r] > 0
          /\ at' = [at EXCEPT ![r] = "between"] /\ UNCHANGED answer

\* A statement fails with its connection, or with its request's context.
Fail(r) ==
    /\ at[r] = "querying"
    /\ database # "hung" \/ r \in expired
    /\ OnError(r)
    /\ UNCHANGED <<process, kind, left, expired, shutOut>>

\* No connection for it any more: the statement fails before it is sent.
Denied(r) ==
    /\ at[r] = "between" /\ left[r] > 0
    /\ store = "closed" \/ r \in expired
    /\ left' = [left EXCEPT ![r] = @ - 1]
    /\ \/ Reply(r, "error")
       \/ kind[r] = "service" /\ Reply(r, "ok")
       \/ kind[r] = "service" /\ left[r] > 1 /\ UNCHANGED <<at, answer>>
    /\ shutOut' = IF store = "closed" THEN shutOut \union {r} ELSE shutOut
    /\ UNCHANGED <<process, kind, expired>>

\* Fault: only the lists are under the Timeout middleware.
Expire_Lists(r) ==
    /\ at[r] \in Working /\ r \notin expired /\ kind[r] = "list"
    /\ expired' = expired \union {r}
    /\ UNCHANGED <<process, at, kind, left, answer, shutOut>>

\* The thirty seconds of a request are over.
Expire(r) ==
    /\ at[r] \in {"between", "querying"} /\ r \notin expired
    /\ expired' = expired \union {r}
    /\ UNCHANGED <<process, at, kind, left, answer, shutOut>>

\* The client has taken the answer, for which nothing sets it a time.
Sent(r) ==
    /\ at[r] = "sending"
    /\ at' = [at EXCEPT ![r] = "answered"]
    /\ UNCHANGED <<process, kind, left, answer, expired, shutOut>>

-----------------------------------------------------------------------------
\* What the main goroutine and a handler do by themselves.
Main == Connect \/ Start \/ BeginShutdown \/ Drained \/ Deadline \/ Exit
Handler(r) == Acquire(r) \/ Succeed(r) \/ Fail(r) \/ Denied(r)

Client(r) == Dial(r) \/ Hangup(r) \/ Receive(r) \/ Sent(r)

Next ==
    \/ Outage \/ Signal \/ Crash
    \/ Main \/ ConnectTimeout
    \/ \E r \in Requests : Client(r) \/ Handler(r) \/ Expire(r)

Spec == Init /\ [][Next]_vars

\* Goroutines run and timers fire; the database, the clients and signals promise nothing.
Fairness ==
    /\ WF_vars(Main)
    /\ \A r \in Requests : WF_vars(Handler(r)) /\ WF_vars(Expire(r))

FairSpec == Spec /\ Fairness
=============================================================================
