------------------------------- MODULE ApiProps -------------------------------
(* What the API process promises its clients, the database and its supervisor. *)
EXTENDS ApiServer

\* The process's state is well formed: a handler has an answer once it sends, and asks a
\* store only where there is one (handlers.go).
ApiTypeOK ==
    /\ database \in {"up", "down", "hung"}
    /\ main \in {"connecting", "serving", "stopping", "closing", "exited"}
    /\ listener \in {"new", "open", "failed", "closed"}
    /\ store \in {"none", "open", "closed"}
    /\ signalled \in BOOLEAN /\ crashed \in BOOLEAN /\ late \in BOOLEAN
    /\ at \in [Requests -> Working \union
                  {"unsent", "refused", "connected", "answered", "torn", "cut"}]
    /\ kind \in [Requests -> Kinds]
    /\ left \in [Requests -> 0..MaxStatements]
    /\ answer \in [Requests -> Answers]
    /\ expired \subseteq Requests /\ shutOut \subseteq Requests
    /\ \A r \in Requests :
          /\ at[r] \in {"sending", "answered"} => answer[r] # "none"
          /\ at[r] \in {"between", "querying", "torn"} => store # "none"

-----------------------------------------------------------------------------
\* A list that is empty, "disconnected" and "unavailable" without a query are told by a
\* process that found no database when it started, to every client until it ends; one
\* that found it calls a later outage an error.
StandInsAreForLife ==
    \A r, q \in Requests :
        answer[r] \in StandIns =>
            store = "none" /\ answer[q] \in StandIns \union {"none", "preflight"}

\* A signal harms no request before Shutdown's ten seconds are over: until then none meets
\* a closed pool, and none is cut off by the end of the process.
GracefulUntilDeadline ==
    \A r \in Requests : r \in shutOut \/ at[r] \in {"cut", "torn"} => late \/ crashed

\* A process that ends by itself leaves no statement of which nobody will know the outcome.
StatementsFinish ==
    \A r \in Requests : at[r] = "torn" => crashed

\* The promise: what of the process its clients can tell.
Mode == IF store = "none" THEN "without" ELSE "with"
Stage ==
    CASE main \in {"connecting", "serving"} -> "up"
      [] main \in {"stopping", "closing"}   -> "draining"
      [] main = "exited"                    -> "over"
Taken == {r \in Requests : at[r] \in Working \union {"answered", "torn", "cut"}}
Replies == [r \in Requests |-> {answer[r]} \ {"none"}]
Delivered == {r \in Requests : at[r] = "answered"}
Torn == {r \in Requests : at[r] = "torn"}

Promise == INSTANCE ApiPromise
    WITH Questions <- {"ok", "error"}, mode <- Mode, stage <- Stage, killed <- crashed,
         taken <- Taken, reply <- Replies, delivered <- Delivered, torn <- Torn

\* The process keeps the promise, whatever the database, the pool's limit, the requests'
\* timeouts and the signal do to its handlers: one kind of answers from start to end, each
\* request taken and answered once, an orderly end in time after every answer has been
\* delivered, and later than that at least with no statement torn.
PromiseSpec == Promise!Spec

\* A request ends even while the database hangs, with or without a free connection.
RequestEnds ==
    \A r \in Requests : at[r] \in {"between", "querying"} ~> at[r] \notin {"between", "querying"}

\* A process that was told to end does, whatever the database and its clients do.
ShutdownEnds == signalled ~> main = "exited"
=============================================================================
