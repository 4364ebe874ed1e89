------------------------------- MODULE ApiProof -------------------------------
(***************************************************************************)
(* Proofs about the API process, for any number of requests, connections   *)
(* and statements.                                                         *)
(*                                                                         *)
(* The invariant has a part for each stage of main.  Before the store is   *)
(* decided nothing has been answered, so the answers of a process are of   *)
(* one kind.  The pool is closed only after the listener, and without the  *)
(* deadline only when no handler is at work and none can start; that stays *)
(* so until the end.  Then the promise is refined step by step, and what   *)
(* makes a request end is bounded.                                         *)
(***************************************************************************)
EXTENDS ApiProps, FiniteSetTheorems, TLAPS

Active == Working \union {"connected"}

\* Answers of a process without a store, and of one with it.
StoreInv ==
    /\ main = "connecting" => store = "none" /\ listener = "new"
    /\ main = "connecting" => \A r \in Requests : at[r] \in {"unsent", "refused"} /\ answer[r] = "none"
    /\ store = "none" => \A r \in Requests : answer[r] \in StandIns \union {"none", "preflight"}
    /\ store # "none" => \A r \in Requests : answer[r] \notin StandIns

\* What a shutdown has left.
StageInv ==
    /\ listener = "open" => main \in {"serving", "exited"}
    /\ store = "closed" => main \in {"closing", "exited"}
    /\ main = "exited" => \A r \in Requests : at[r] \notin Active
    /\ main = "closing" /\ late = FALSE => \A r \in Requests : at[r] \notin Active
    /\ \A r \in Requests : at[r] = "torn" => crashed = TRUE
    /\ \A r \in Requests : at[r] = "cut" \/ r \in shutOut => late = TRUE \/ crashed = TRUE

\* An answer is written once, after what the handler has asked, by a process that lives.
ReplyInv ==
    /\ crashed = TRUE => main = "exited"
    /\ \A r \in Requests :
          /\ at[r] \notin {"sending", "answered", "cut"} => answer[r] = "none"
          /\ at[r] = "between" => left[r] > 0

ApiInv == ApiTypeOK /\ StoreInv /\ StageInv /\ ReplyInv

-----------------------------------------------------------------------------
(* One lemma for the surroundings and main, one for the end of the process, one for a *)
(* request.                                                                           *)

LEMMA EndedIs ==
    ASSUME ApiTypeOK, NEW r \in Requests
    PROVE  /\ Ended[r] \in {"unsent", "refused", "answered", "torn", "cut"}
           /\ at[r] = "querying" <=> Ended[r] = "torn" /\ at[r] # "torn"
           /\ Ended[r] = "cut" => at[r] \in {"between", "sending", "cut"}
           /\ Ended[r] = "answered" => at[r] = "answered"
BY DEF Ended, ApiTypeOK, Working

\* The pool and the listener follow main.
MainStep == Outage \/ Signal \/ Connect \/ ConnectTimeout \/ Start \/ BeginShutdown
               \/ Drained \/ Deadline

LEMMA MainKeeps == ApiInv /\ MainStep => ApiInv'
<1> SUFFICES ASSUME ApiInv, MainStep PROVE ApiInv'
  OBVIOUS
<1>0. at' = at /\ kind' = kind /\ left' = left /\ answer' = answer /\ expired' = expired
      /\ shutOut' = shutOut /\ crashed' = crashed
  BY DEF MainStep, Outage, Signal, Connect, ConnectTimeout, Start, BeginShutdown, Drained,
         Deadline, requests
<1> USE DEF ApiInv, ApiTypeOK, StoreInv, StageInv, ReplyInv, Active, Working, StandIns
<1>1. CASE Outage \/ Signal
  BY <1>0, <1>1 DEF Outage, Signal
<1>2. CASE Connect \/ ConnectTimeout
  BY <1>0, <1>2 DEF Connect, ConnectTimeout
<1>3. CASE Start \/ BeginShutdown
  BY <1>0, <1>3 DEF Start, BeginShutdown
<1>4. CASE Drained \/ Deadline
  BY <1>0, <1>4 DEF Drained, Deadline, ClosePool
<1> QED
  BY <1>1, <1>2, <1>3, <1>4 DEF MainStep

LEMMA EndKeeps == ApiInv /\ (Exit \/ Crash) => ApiInv'
<1> SUFFICES ASSUME ApiInv, Exit \/ Crash PROVE ApiInv'
  OBVIOUS
<1>0. /\ main' = "exited" /\ at' = Ended
      /\ UNCHANGED <<database, listener, store, signalled, late, kind, left, answer, expired, shutOut>>
      /\ crashed' \in {crashed, TRUE}
      /\ main # "exited"
      /\ crashed' = TRUE \/ (main = "closing" /\ Querying = {})
  BY DEF Exit, Crash
<1>1. ApiTypeOK'
  <2>1. Ended \in [Requests -> {"unsent", "refused", "answered", "torn", "cut"}]
    BY EndedIs DEF Ended, ApiInv
  <2>2. \A r \in Requests : Ended[r] = "torn" => at[r] \in {"torn", "querying"}
    BY EndedIs DEF ApiInv
  <2>3. \A r \in Requests : Ended[r] = "answered" => at[r] = "answered"
    BY EndedIs DEF ApiInv
  <2> QED
    BY <1>0, <2>1, <2>2, <2>3 DEF ApiInv, ApiTypeOK, Working
<1>2. StoreInv'
  BY <1>0 DEF ApiInv, StoreInv
<1>3. StageInv'
  <2>1. \A r \in Requests : Ended[r] \notin Active
    BY EndedIs DEF Active, Working, ApiInv
  <2>2. \A r \in Requests : Ended[r] = "torn" => crashed' = TRUE
    BY <1>0, EndedIs DEF ApiInv, StageInv, Querying, ApiTypeOK
  <2>3. \A r \in Requests : Ended[r] = "cut" => late = TRUE \/ crashed' = TRUE
    BY <1>0, EndedIs DEF ApiInv, StageInv, ApiTypeOK, Active, Working
  <2>4. \A r \in shutOut : late = TRUE \/ crashed' = TRUE
    BY <1>0 DEF ApiInv, StageInv, ApiTypeOK
  <2> QED
    BY <1>0, <2>1, <2>2, <2>3, <2>4 DEF ApiInv, StageInv
<1>4. ReplyInv'
  <2>1. \A r \in Requests : Ended[r] \in {"sending", "answered", "cut"} \/ answer[r] = "none"
    BY DEF ApiInv, ReplyInv, Ended
  <2>2. \A r \in Requests : Ended[r] # "between"
    BY EndedIs DEF ApiInv
  <2> QED
    BY <1>0, <2>1, <2>2 DEF ReplyInv
<1> QED
  BY <1>1, <1>2, <1>3, <1>4 DEF ApiInv

\* A step of a request is of that request alone, and leaves main as it is.
RequestStep(r) == Client(r) \/ Handler(r) \/ Expire(r)

LEMMA RequestActsOnOne ==
    ASSUME ApiTypeOK, NEW r \in Requests, RequestStep(r)
    PROVE  /\ UNCHANGED process
           /\ \A q \in Requests : q # r => at'[q] = at[q] /\ answer'[q] = answer[q]
           /\ shutOut' \in {shutOut, shutOut \union {r}}
<1> USE DEF ApiTypeOK, Reply, OnError
<1>1. CASE Client(r)
  BY <1>1 DEF Client, Dial, Hangup, Receive, Sent
<1>2. CASE Acquire(r) \/ Succeed(r)
  BY <1>2 DEF Acquire, Succeed
<1>3. CASE Fail(r)
  BY <1>3 DEF Fail
<1>4. CASE Denied(r)
  BY <1>4 DEF Denied
<1>5. CASE Expire(r)
  BY <1>5 DEF Expire
<1> QED
  BY <1>1, <1>2, <1>3, <1>4, <1>5 DEF RequestStep, Handler

\* Where a request can go, from where.
Moves(r) ==
    \/ at[r] = "unsent" /\ main # "exited" /\ at'[r] = "connected" /\ listener = "open"
    \/ at[r] \in {"unsent", "connected"} /\ at'[r] = "refused"
    \/ at[r] = "connected" /\ at'[r] = "sending" /\ store = "none"
          /\ answer'[r] \in StandIns \union {"preflight"}
    \/ at[r] = "connected" /\ at'[r] = "sending" /\ answer'[r] = "preflight"
    \/ at[r] = "connected" /\ at'[r] = "between" /\ store # "none"
    \/ at[r] \in {"between", "querying"} /\ at'[r] \in {"between", "querying"}
    \/ at[r] \in {"between", "querying"} /\ at'[r] = "sending" /\ answer'[r] \in {"ok", "error"}
    \/ at[r] = "sending" /\ at'[r] = "answered"

LEMMA RequestMoves ==
    ASSUME ApiTypeOK, NEW r \in Requests, RequestStep(r)
    PROVE  /\ Moves(r)
           /\ answer'[r] = answer[r] \/ (at'[r] = "sending" /\ at[r] # "sending")
           /\ shutOut' = shutOut \/ (at[r] = "between" /\ store = "closed")
<1> USE DEF ApiTypeOK, Moves, StandIns
<1>1. CASE Dial(r)
  BY <1>1 DEF Dial
<1>2. CASE Hangup(r)
  BY <1>2 DEF Hangup
<1>3. CASE Receive(r)
  <2>1. PICK k \in Kinds :
          IF k = "preflight" \/ store = "none"
          THEN /\ at' = [at EXCEPT ![r] = "sending"]
               /\ answer' = [answer EXCEPT ![r] = IF k = "preflight" THEN k ELSE StandIn(k)]
          ELSE /\ at' = [at EXCEPT ![r] = "between"]
               /\ UNCHANGED answer
    BY <1>3 DEF Receive
  <2>2. k # "preflight" => StandIn(k) \in StandIns
    BY DEF StandIn, Kinds
  <2>3. at[r] = "connected" /\ shutOut' = shutOut
    BY <1>3 DEF Receive
  <2> QED
    BY <2>1, <2>2, <2>3
<1>4. CASE Sent(r)
  BY <1>4 DEF Sent
<1>5. CASE Acquire(r)
  BY <1>5 DEF Acquire
<1>6. CASE Succeed(r)
  BY <1>6 DEF Succeed, Reply
<1>7. CASE Fail(r)
  BY <1>7 DEF Fail, OnError, Reply
<1>8. CASE Denied(r)
  BY <1>8 DEF Denied, Reply
<1>9. CASE Expire(r)
  BY <1>9 DEF Expire
<1> QED
  BY <1>1, <1>2, <1>3, <1>4, <1>5, <1>6, <1>7, <1>8, <1>9 DEF RequestStep, Client, Handler

\* The types of what a request's step changes; where it goes is in Moves.
LEMMA RequestTypes ==
    ASSUME ApiTypeOK, NEW r \in Requests, RequestStep(r)
    PROVE  /\ at' \in [Requests -> Working \union
                        {"unsent", "refused", "connected", "answered", "torn", "cut"}]
           /\ kind' \in [Requests -> Kinds]
           /\ left' \in [Requests -> 0..MaxStatements]
           /\ answer' \in [Requests -> Answers]
           /\ expired' \subseteq Requests /\ shutOut' \subseteq Requests
<1> USE ApiAssumption DEF ApiTypeOK, Working, Answers, StandIns
<1>1. CASE Dial(r) \/ Hangup(r) \/ Sent(r)
  BY <1>1 DEF Dial, Hangup, Sent
<1>2. CASE Receive(r)
  <2>1. PICK k \in Kinds :
          /\ kind' = [kind EXCEPT ![r] = k]
          /\ left' = [left EXCEPT ![r] = IF k = "service" THEN MaxStatements ELSE 1]
          /\ IF k = "preflight" \/ store = "none"
             THEN /\ at' = [at EXCEPT ![r] = "sending"]
                  /\ answer' = [answer EXCEPT ![r] = IF k = "preflight" THEN k ELSE StandIn(k)]
             ELSE /\ at' = [at EXCEPT ![r] = "between"]
                  /\ UNCHANGED answer
    BY <1>2 DEF Receive
  <2>2. k # "preflight" => StandIn(k) \in StandIns
    BY DEF StandIn, Kinds
  <2>3. expired' = expired /\ shutOut' = shutOut
    BY <1>2 DEF Receive
  <2>4. (IF k = "service" THEN MaxStatements ELSE 1) \in 0..MaxStatements
    OBVIOUS
  <2>5. at' \in [Requests -> Working \union
                    {"unsent", "refused", "connected", "answered", "torn", "cut"}]
    BY <2>1
  <2>6. answer' \in [Requests -> Answers]
    BY <2>1, <2>2
  <2>7. kind' \in [Requests -> Kinds] /\ left' \in [Requests -> 0..MaxStatements]
    BY <2>1, <2>4
  <2> QED
    BY <2>3, <2>5, <2>6, <2>7
<1>3. CASE Acquire(r)
  BY <1>3 DEF Acquire
<1>4. CASE Succeed(r)
  BY <1>4 DEF Succeed, Reply
<1>5. CASE Fail(r)
  BY <1>5 DEF Fail, OnError, Reply
<1>6. CASE Denied(r)
  BY <1>6 DEF Denied, Reply
<1>7. CASE Expire(r)
  BY <1>7 DEF Expire
<1> QED
  BY <1>1, <1>2, <1>3, <1>4, <1>5, <1>6, <1>7 DEF RequestStep, Client, Handler

\* What a handler may still do: for each statement its connection and its outcome, and the
\* end of its thirty seconds.
Steps(r) ==
    2 * left[r] + (IF at[r] = "querying" THEN 1 ELSE 0) + (IF r \in expired THEN 0 ELSE 1)

AtWork(r) == at[r] \in {"between", "querying"}

\* A step of a request takes one of these away or ends its work, and touches no other's.
LEMMA RequestSteps ==
    ASSUME ApiTypeOK, NEW r \in Requests, RequestStep(r),
           at[r] = "between" => left[r] > 0
    PROVE  /\ AtWork(r) /\ AtWork(r)' => Steps(r)' < Steps(r)
           /\ at'[r] = "between" => left'[r] > 0
           /\ \A q \in Requests : q # r => at'[q] = at[q] /\ left'[q] = left[q]
                                          /\ (q \in expired' <=> q \in expired)
<1>0. left \in [Requests -> 0..MaxStatements] /\ DOMAIN at = Requests
  BY DEF ApiTypeOK
<1>1. left[r] \in Nat
  BY <1>0, ApiAssumption
<1> USE DEF AtWork, Steps
<1>2. CASE Dial(r) \/ Hangup(r) \/ Sent(r)
  BY <1>0, <1>2 DEF Dial, Hangup, Sent
<1>3. CASE Receive(r)
  BY <1>0, <1>3, ApiAssumption DEF Receive
<1>4. CASE Acquire(r)
  BY <1>0, <1>1, <1>4 DEF Acquire
<1>5. CASE Succeed(r)
  BY <1>0, <1>1, <1>5 DEF Succeed, Reply
<1>6. CASE Fail(r)
  BY <1>0, <1>1, <1>6 DEF Fail, OnError, Reply
<1>7. CASE Denied(r)
  BY <1>0, <1>1, <1>7 DEF Denied, Reply
<1>8. CASE Expire(r)
  BY <1>0, <1>1, <1>8 DEF Expire
<1> QED
  BY <1>2, <1>3, <1>4, <1>5, <1>6, <1>7, <1>8 DEF RequestStep, Client, Handler

LEMMA RequestKeeps ==
    ASSUME ApiInv, NEW r \in Requests, RequestStep(r) PROVE ApiInv'
<1>0. ApiTypeOK
  BY DEF ApiInv
<1>1. /\ UNCHANGED process
      /\ \A q \in Requests : q # r => at'[q] = at[q] /\ answer'[q] = answer[q]
  BY <1>0, RequestActsOnOne
<1>2. /\ Moves(r)
      /\ answer'[r] = answer[r] \/ (at'[r] = "sending" /\ at[r] # "sending")
      /\ shutOut' = shutOut \/ (at[r] = "between" /\ store = "closed")
      /\ shutOut' \in {shutOut, shutOut \union {r}}
  BY <1>0, RequestMoves, RequestActsOnOne
<1>3. UNCHANGED <<database, main, listener, store, signalled, crashed, late>>
  BY <1>1 DEF process
<1>4. ApiTypeOK'
  <2>1. \A q \in Requests :
          /\ at'[q] \in {"sending", "answered"} => answer'[q] # "none"
          /\ at'[q] \in {"between", "querying", "torn"} => store # "none"
    BY <1>0, <1>1, <1>2 DEF ApiTypeOK, Moves, StandIns
  <2> QED
    BY <1>0, <1>3, <2>1, RequestTypes DEF ApiTypeOK
<1>5. StoreInv'
  BY <1>0, <1>1, <1>2, <1>3 DEF ApiInv, StoreInv, Moves, ApiTypeOK, StandIns
<1>6. StageInv'
  <2>1. main = "exited" \/ (main = "closing" /\ late = FALSE) =>
            \A q \in Requests : at'[q] \notin Active
    <3>1. SUFFICES ASSUME main = "exited" \/ (main = "closing" /\ late = FALSE),
                          NEW q \in Requests
                   PROVE  at'[q] \notin Active
      OBVIOUS
    <3>2. at[r] \notin Active /\ at[q] \notin Active
      BY <3>1 DEF ApiInv, StageInv
    <3>3. listener # "open" \/ main = "exited"
      BY <3>1 DEF ApiInv, StageInv
    <3> QED
      BY <1>1, <1>2, <3>1, <3>2, <3>3 DEF Moves, Active, Working
  <2>2. \A q \in Requests : at'[q] \in {"torn", "cut"} => at[q] = at'[q]
    BY <1>1, <1>2 DEF Moves
  <2>3. \A q \in Requests : q \in shutOut' => late = TRUE \/ crashed = TRUE
    BY <1>0, <1>2 DEF ApiInv, StageInv, Active, Working, ApiTypeOK
  <2> QED
    BY <1>0, <1>3, <2>1, <2>2, <2>3 DEF ApiInv, StageInv
<1>7. ReplyInv'
  <2>1. \A q \in Requests : at'[q] \in {"sending", "answered", "cut"} \/ answer'[q] = "none"
    BY <1>1, <1>2 DEF ApiInv, ReplyInv, Moves
  <2>2. \A q \in Requests : at'[q] = "between" => left'[q] > 0
    BY <1>0, <1>1, RequestSteps DEF ApiInv, ReplyInv
  <2> QED
    BY <1>3, <2>1, <2>2 DEF ApiInv, ReplyInv
<1> QED
  BY <1>4, <1>5, <1>6, <1>7 DEF ApiInv

-----------------------------------------------------------------------------
(* The theorems. *)

\* The invariant holds of every life of the process (main.go).
THEOREM ApiInvariant == Spec => []ApiInv
<1>1. Init => ApiInv
  <2> SUFFICES ASSUME Init PROVE ApiInv
    OBVIOUS
  <2>1. ApiTypeOK
    <3>1. /\ at \in [Requests -> {"unsent"}] /\ kind \in [Requests -> Kinds]
          /\ left \in [Requests -> {0}] /\ answer \in [Requests -> Answers]
      BY DEF Init, Kinds, Answers
    <3>2. 0 \in 0..MaxStatements
      BY ApiAssumption
    <3> QED
      BY <3>1, <3>2 DEF Init, ApiTypeOK
  <2>2. StoreInv
    BY DEF Init, StoreInv, StandIns
  <2>3. StageInv
    BY DEF Init, StageInv, Active, Working
  <2>4. ReplyInv
    BY DEF Init, ReplyInv
  <2> QED
    BY <2>1, <2>2, <2>3, <2>4 DEF ApiInv
<1>2. ApiInv /\ [Next]_vars => ApiInv'
  <2> SUFFICES ASSUME ApiInv, [Next]_vars PROVE ApiInv'
    OBVIOUS
  <2>1. CASE MainStep
    BY <2>1, MainKeeps
  <2>2. CASE Exit \/ Crash
    BY <2>2, EndKeeps
  <2>3. ASSUME NEW r \in Requests, RequestStep(r) PROVE ApiInv'
    BY <2>3, RequestKeeps
  <2>4. CASE UNCHANGED vars
    BY <2>4 DEF vars, process, requests, ApiInv, ApiTypeOK, StoreInv, StageInv, ReplyInv
  <2> QED
    BY <2>1, <2>2, <2>3, <2>4 DEF Next, Main, MainStep, RequestStep
<1> QED
  BY <1>1, <1>2, PTL DEF Spec

\* Types: an answer is there once a handler sends, a store where it is asked.
THEOREM ApiTypes == Spec => []ApiTypeOK
<1>1. ApiInv => ApiTypeOK
  BY DEF ApiInv
<1> QED
  BY <1>1, ApiInvariant, PTL

\* An answer without a query comes from a process that found no database when it started,
\* and such a process gives no other until it ends (handlers.go, main.go).
THEOREM StandInsAreForTheProcess == Spec => []StandInsAreForLife
<1>1. ApiInv => StandInsAreForLife
  BY DEF ApiInv, StoreInv, StandInsAreForLife
<1> QED
  BY <1>1, ApiInvariant, PTL

\* Until Shutdown's ten seconds are over a signal harms no request (main.go).
THEOREM ShutdownIsGraceful == Spec => []GracefulUntilDeadline
<1>1. ApiInv => GracefulUntilDeadline
  BY DEF ApiInv, StageInv, GracefulUntilDeadline
<1> QED
  BY <1>1, ApiInvariant, PTL

\* A process that ends by itself has closed its pool, which waits for the statements (main.go).
THEOREM NoStatementIsTorn == Spec => []StatementsFinish
<1>1. ApiInv => StatementsFinish
  BY DEF ApiInv, StageInv, StatementsFinish
<1> QED
  BY <1>1, ApiInvariant, PTL

-----------------------------------------------------------------------------
(* What makes a request end. *)

\* No step gives a handler more to do, and its own leave it less.
Descends ==
    \A r \in Requests :
        AtWork(r) /\ AtWork(r)' =>
            \/ at'[r] = at[r] /\ Steps(r)' = Steps(r)
            \/ Steps(r)' < Steps(r)

\* A handler has a bounded number of steps to go, and one to try between two statements.
StepsAreBounded ==
    \A r \in Requests :
        /\ Steps(r) \in 0 .. 2 * MaxStatements + 2
        /\ at[r] = "between" => left[r] > 0

\* Each step a handler takes uses up one of at most 2 * MaxStatements + 2, nobody else's
\* step gives it more to do, and between two statements it always has one to try: what
\* RequestEnds rests on (server.go's Timeout and the services' statements).
THEOREM HandlersDescend == Spec => [][Descends]_vars /\ []StepsAreBounded
<1>1. ASSUME ApiInv, [Next]_vars PROVE Descends
  <2>1. CASE MainStep \/ UNCHANGED vars
    <3>1. at' = at /\ left' = left /\ expired' = expired
      BY <2>1 DEF vars, process, requests, MainStep, Outage, Signal, Connect, ConnectTimeout,
         Start, BeginShutdown, Drained, Deadline
    <3> QED
      BY <3>1 DEF Descends, Steps
  <2>2. CASE Exit \/ Crash
    <3>1. at' = Ended
      BY <2>2 DEF Exit, Crash
    <3>2. \A r \in Requests : Ended[r] \notin {"between", "querying"}
      BY <1>1, EndedIs DEF ApiInv
    <3> QED
      BY <3>1, <3>2 DEF Descends, AtWork
  <2>3. ASSUME NEW q \in Requests, RequestStep(q) PROVE Descends
    <3>1. /\ AtWork(q) /\ AtWork(q)' => Steps(q)' < Steps(q)
          /\ \A r \in Requests : r # q => /\ at'[r] = at[r] /\ left'[r] = left[r]
                                          /\ (r \in expired' <=> r \in expired)
      BY <1>1, <2>3, RequestSteps DEF ApiInv, ReplyInv
    <3>2. \A r \in Requests : r # q => Steps(r)' = Steps(r)
      BY <3>1 DEF Steps
    <3> QED
      BY <3>1, <3>2 DEF Descends
  <2> QED
    BY <1>1, <2>1, <2>2, <2>3 DEF Next, Main, MainStep, RequestStep
<1>2. ApiInv => StepsAreBounded
  <2> SUFFICES ASSUME ApiInv, NEW r \in Requests
               PROVE  /\ Steps(r) \in 0 .. 2 * MaxStatements + 2
                      /\ at[r] = "between" => left[r] > 0
    BY DEF StepsAreBounded
  <2>1. left[r] \in 0 .. MaxStatements
    BY DEF ApiInv, ApiTypeOK
  <2> QED
    BY <2>1, ApiAssumption DEF ApiInv, ReplyInv, Steps
<1>3. ApiInv /\ [Next]_vars => Descends
  BY <1>1
<1> QED
  BY <1>2, <1>3, ApiInvariant, PTL DEF Spec

MainRank == CASE main = "connecting" -> 0 [] main = "serving" -> 1 [] main = "stopping" -> 2
              [] main = "closing" -> 3 [] main = "exited" -> 4

\* main never returns to an earlier stage, and once the pool closes no statement begins.
EndsOneWay ==
    /\ MainRank' >= MainRank
    /\ main = "closing" => Querying' \subseteq Querying
    /\ main = "exited" => Querying' = {}

\* The pool Close waits for: at most as many statements as it has connections.
PoolInv ==
    /\ main = "closing" => store \in {"none", "closed"}
    /\ store = "none" => Querying = {}
    /\ IsFiniteSet(Querying) /\ Cardinality(Querying) <= MaxConns

LEMMA QueryingMoves ==
    ASSUME ApiInv, NEW r \in Requests, RequestStep(r)
    PROVE  \/ Querying' \subseteq Querying
           \/ /\ store = "open" /\ r \notin Querying /\ Querying' = Querying \union {r}
              /\ Cardinality(Querying) < MaxConns
<1>1. \A q \in Requests : q # r => at'[q] = at[q]
  BY RequestActsOnOne DEF ApiInv
<1>2. CASE at'[r] # "querying" \/ at[r] = "querying"
  BY <1>1, <1>2 DEF Querying
<1>3. CASE at'[r] = "querying" /\ at[r] # "querying"
  <2>1. DOMAIN at = Requests
    BY DEF ApiInv, ApiTypeOK
  <2>2. Acquire(r)
    BY <1>3, <2>1 DEF RequestStep, Client, Handler, Dial, Hangup, Receive, Sent, Succeed, Fail,
       OnError, Denied, Expire, Reply
  <2>3. Querying' = Querying \union {r}
    BY <1>1, <1>3 DEF Querying
  <2> QED
    BY <1>3, <2>2, <2>3 DEF Acquire, Querying
<1> QED
  BY <1>2, <1>3

\* The end of a process goes one way: main never returns to an earlier stage, and once the
\* pool closes no statement begins any more, so that Close waits for those in flight, at
\* most as many as the pool has connections, and for no others: what ShutdownEnds rests on
\* (main.go's deferred calls).
THEOREM ShutdownDescends == Spec => [][EndsOneWay]_vars /\ []PoolInv
<1>1. ASSUME ApiInv, PoolInv, [Next]_vars PROVE PoolInv' /\ EndsOneWay
  <2>1. CASE MainStep \/ UNCHANGED vars
    <3>1. Querying' = Querying
      BY <2>1 DEF Querying, vars, process, requests, MainStep, Outage, Signal, Connect,
         ConnectTimeout, Start, BeginShutdown, Drained, Deadline
    <3>2. /\ main' = "closing" => store' \in {"none", "closed"}
          /\ store' = "none" => store = "none"
          /\ MainRank' >= MainRank
      BY <1>1, <2>1 DEF vars, process, MainStep, Outage, Signal, Connect, ConnectTimeout, Start,
         BeginShutdown, Drained, Deadline, ClosePool, PoolInv, ApiInv, ApiTypeOK, MainRank
    <3>3. main = "exited" => Querying = {}
      BY <1>1 DEF ApiInv, StageInv, Active, Working, Querying
    <3> QED
      BY <1>1, <3>1, <3>2, <3>3 DEF PoolInv, EndsOneWay
  <2>2. CASE Exit \/ Crash
    <3>1. main # "exited" /\ main' = "exited" /\ at' = Ended /\ store' = store
      BY <2>2 DEF Exit, Crash
    <3>2. Querying' = {}
      BY <1>1, <3>1, EndedIs DEF Querying, ApiInv
    <3>3. IsFiniteSet({}) /\ Cardinality({}) = 0
      BY FS_EmptySet
    <3> QED
      BY <1>1, <3>1, <3>2, <3>3, ApiAssumption DEF PoolInv, EndsOneWay, MainRank, ApiInv, ApiTypeOK
  <2>3. ASSUME NEW r \in Requests, RequestStep(r) PROVE PoolInv' /\ EndsOneWay
    <3>1. main' = main /\ store' = store
      BY <1>1, <2>3, RequestActsOnOne DEF ApiInv, process
    <3>2. \/ Querying' \subseteq Querying
          \/ /\ store = "open" /\ r \notin Querying /\ Querying' = Querying \union {r}
             /\ Cardinality(Querying) < MaxConns
      BY <1>1, <2>3, QueryingMoves
    <3>3. main = "exited" => Querying' = {}
      <4>1. ASSUME main = "exited" PROVE ~(at[r] = "between") /\ Querying = {}
        BY <1>1, <4>1 DEF ApiInv, StageInv, Active, Working, Querying
      <4>2. at'[r] = "querying" => at[r] \in {"between", "querying"}
        BY <1>1, <2>3, RequestMoves DEF ApiInv, Moves
      <4>3. \A q \in Requests : q # r => at'[q] = at[q]
        BY <1>1, <2>3, RequestActsOnOne DEF ApiInv
      <4> QED
        BY <4>1, <4>2, <4>3 DEF Querying
    <3>4. MainRank \in Int /\ MainRank' = MainRank
      BY <1>1, <3>1 DEF MainRank, ApiInv, ApiTypeOK
    <3>5. CASE Querying' \subseteq Querying
      <4>1. IsFiniteSet(Querying') /\ Cardinality(Querying') <= Cardinality(Querying)
        BY <1>1, <3>5, FS_Subset DEF PoolInv
      <4>2. Cardinality(Querying) \in Nat /\ Cardinality(Querying') \in Nat
        BY <1>1, <4>1, FS_CardinalityType DEF PoolInv
      <4> QED
        BY <1>1, <3>1, <3>3, <3>4, <3>5, <4>1, <4>2, ApiAssumption DEF PoolInv, EndsOneWay
    <3>6. CASE /\ store = "open" /\ r \notin Querying /\ Querying' = Querying \union {r}
               /\ Cardinality(Querying) < MaxConns
      <4>1. IsFiniteSet(Querying') /\ Cardinality(Querying') = Cardinality(Querying) + 1
        BY <1>1, <3>6, FS_AddElement DEF PoolInv
      <4>2. Cardinality(Querying) \in Nat
        BY <1>1, FS_CardinalityType DEF PoolInv
      <4>3. Cardinality(Querying') <= MaxConns
        BY <3>6, <4>1, <4>2, ApiAssumption
      <4> QED
        BY <1>1, <3>1, <3>3, <3>4, <3>6, <4>1, <4>3 DEF PoolInv, EndsOneWay
    <3> QED
      BY <3>2, <3>5, <3>6
  <2> QED
    BY <1>1, <2>1, <2>2, <2>3 DEF Next, Main, MainStep, RequestStep
<1>2. Init => PoolInv
  <2> SUFFICES ASSUME Init PROVE PoolInv
    OBVIOUS
  <2>1. Querying = {}
    BY DEF Init, Querying
  <2>2. IsFiniteSet({}) /\ Cardinality({}) = 0
    BY FS_EmptySet
  <2> QED
    BY <2>1, <2>2, ApiAssumption DEF Init, PoolInv
<1>3. ApiInv /\ PoolInv /\ [Next]_vars => PoolInv' /\ EndsOneWay
  BY <1>1
<1> QED
  BY <1>2, <1>3, ApiInvariant, PTL DEF Spec

-----------------------------------------------------------------------------
(* The process keeps the promise. *)

PromiseVars == <<Mode, Stage, late, crashed, Taken, Replies, Delivered, Torn>>

\* What of the promise the requests make up.
LEMMA RequestsTell ==
    ASSUME at' = at, answer' = answer
    PROVE  Taken' = Taken /\ Replies' = Replies /\ Delivered' = Delivered /\ Torn' = Torn
BY DEF Taken, Replies, Delivered, Torn

LEMMA MainRefines ==
    ASSUME ApiInv, MainStep
    PROVE  [Promise!Next]_PromiseVars
<1>1. at' = at /\ answer' = answer /\ crashed' = crashed
  BY DEF MainStep, Outage, Signal, Connect, ConnectTimeout, Start, BeginShutdown, Drained,
         Deadline, requests
<1>2. Taken' = Taken /\ Replies' = Replies /\ Delivered' = Delivered /\ Torn' = Torn
  BY <1>1, RequestsTell
<1>3. CASE main' = main /\ store' = store /\ late' = late
  BY <1>1, <1>2, <1>3 DEF PromiseVars, Mode, Stage
<1>4. CASE Connect \/ ConnectTimeout
  <2>1. /\ main = "connecting" /\ main' = "serving" /\ late' = late
        /\ store' = store \/ store' = "open"
    BY <1>4 DEF Connect, ConnectTimeout
  <2>2. Stage = "up" /\ Stage' = "up" /\ Mode = "without" /\ Taken = {}
    BY <2>1 DEF ApiInv, StoreInv, Stage, Mode, Taken, Working
  <2>3. CASE store' = store
    BY <1>1, <1>2, <2>1, <2>2, <2>3 DEF PromiseVars, Mode
  <2>4. CASE store' = "open"
    <3>1. Mode' = "with"
      BY <2>4 DEF Mode
    <3>2. Promise!Find
      BY <1>1, <1>2, <2>1, <2>2, <3>1 DEF Promise!Find
    <3> QED
      BY <3>2 DEF Promise!Next
  <2> QED
    BY <2>1, <2>3, <2>4
<1>5. CASE BeginShutdown
  <2>1. Stage = "up" /\ Stage' = "draining" /\ Mode' = Mode /\ late' = late
    BY <1>5 DEF BeginShutdown, Stage, Mode
  <2>2. Promise!Stop
    BY <1>1, <1>2, <2>1 DEF Promise!Stop
  <2> QED
    BY <2>2 DEF Promise!Next
<1>6. CASE Drained \/ Deadline
  <2>1. main = "stopping" /\ main' = "closing" /\ late' \in {late, TRUE}
    BY <1>6 DEF Drained, Deadline, ClosePool
  <2>2. Stage = "draining" /\ Stage' = "draining"
    BY <2>1 DEF Stage
  <2>3. Mode' = Mode
    BY <1>6 DEF Drained, Deadline, ClosePool, Mode
  <2>4. CASE late' = late
    BY <1>1, <1>2, <2>2, <2>3, <2>4 DEF PromiseVars
  <2>5. CASE late' = TRUE
    <3>1. Promise!Overdue
      BY <1>1, <1>2, <2>2, <2>3, <2>5 DEF Promise!Overdue
    <3> QED
      BY <3>1 DEF Promise!Next
  <2> QED
    BY <2>1, <2>4, <2>5
<1> QED
  BY <1>3, <1>4, <1>5, <1>6 DEF MainStep, Outage, Signal, Start

LEMMA EndRefines ==
    ASSUME ApiInv, Exit \/ Crash
    PROVE  Promise!Next
<1>1. /\ main # "exited" /\ main' = "exited" /\ at' = Ended
      /\ late' = late /\ store' = store /\ answer' = answer
  BY DEF Exit, Crash
<1>2. Stage # "over" /\ Stage' = "over" /\ Mode' = Mode /\ Replies' = Replies
  BY <1>1 DEF Stage, Mode, Replies, ApiInv, ApiTypeOK
<1>3. Taken' = Taken /\ Delivered' = Delivered
  BY <1>1 DEF Taken, Delivered, Ended, Working, ApiInv, ApiTypeOK
<1>4. CASE Crash
  <2>1. Torn' \subseteq Taken \ Delivered
    BY <1>1 DEF Torn, Taken, Delivered, Ended, Working
  <2>2. crashed' = TRUE
    BY <1>4 DEF Crash
  <2>3. Promise!Kill
    BY <1>1, <1>2, <1>3, <2>1, <2>2 DEF Promise!Kill
  <2> QED
    BY <2>3 DEF Promise!Next
<1>5. CASE Exit
  <2>1. main = "closing" /\ Querying = {} /\ crashed' = crashed
    BY <1>5 DEF Exit
  <2>2. Torn' = Torn
    BY <1>1, <2>1 DEF Torn, Ended, Querying
  <2>3. late = FALSE => Delivered = Taken
    <3>1. crashed = FALSE
      BY <2>1 DEF ApiInv, ReplyInv, ApiTypeOK
    <3>2. ASSUME late = FALSE, NEW r \in Requests
          PROVE  at[r] \notin Working \union {"torn", "cut"}
      BY <2>1, <3>1, <3>2 DEF ApiInv, StageInv, Active
    <3> QED
      BY <3>2 DEF Delivered, Taken
  <2>4. Stage = "draining" /\ late \in BOOLEAN
    BY <2>1 DEF Stage, ApiInv, ApiTypeOK
  <2>5. Promise!End
    BY <1>1, <1>2, <1>3, <2>1, <2>2, <2>3, <2>4 DEF Promise!End
  <2> QED
    BY <2>5 DEF Promise!Next
<1> QED
  BY <1>4, <1>5

LEMMA RequestRefines ==
    ASSUME ApiInv, NEW r \in Requests, RequestStep(r)
    PROVE  [Promise!Next]_PromiseVars
<1>0. ApiTypeOK
  BY DEF ApiInv
<1>1. /\ UNCHANGED process
      /\ \A q \in Requests : q # r => at'[q] = at[q] /\ answer'[q] = answer[q]
      /\ DOMAIN answer = Requests /\ answer[r] \in Answers
  BY <1>0, RequestActsOnOne DEF ApiTypeOK
<1>2. /\ Moves(r)
      /\ answer'[r] = answer[r] \/ (at'[r] = "sending" /\ at[r] # "sending")
      /\ at'[r] \in {"sending", "answered"} => answer'[r] # "none"
  BY <1>0, RequestMoves, RequestKeeps DEF ApiInv, ApiTypeOK
<1>3. Mode' = Mode /\ Stage' = Stage /\ late' = late /\ crashed' = crashed
  BY <1>1 DEF process, Mode, Stage
<1>4. /\ Taken' = IF at'[r] \in Working \union {"answered", "torn", "cut"}
                  THEN Taken \union {r} ELSE Taken \ {r}
      /\ Delivered' = IF at'[r] = "answered" THEN Delivered \union {r} ELSE Delivered \ {r}
      /\ Torn' = IF at'[r] = "torn" THEN Torn \union {r} ELSE Torn \ {r}
      /\ Replies' = [Replies EXCEPT ![r] = {answer'[r]} \ {"none"}]
      /\ Replies[r] = {answer[r]} \ {"none"}
  BY <1>1 DEF Taken, Delivered, Torn, Replies
<1>5. Working = {"between", "querying", "sending"}
  BY DEF Working
<1>6. CASE Taken' = Taken /\ Delivered' = Delivered /\ Torn' = Torn /\ answer'[r] = answer[r]
  <2>1. Replies' = Replies
    BY <1>4, <1>6 DEF Replies
  <2> QED
    BY <1>3, <1>6, <2>1 DEF PromiseVars
<1>7. main # "exited" <=> Stage # "over"
  BY <1>0 DEF Stage, ApiTypeOK
<1>8. at[r] \in Active => Stage # "over"
  BY <1>7 DEF ApiInv, StageInv
<1>9. CASE at[r] = "connected" /\ at'[r] \in {"sending", "between"}
  <2>1. r \notin Taken /\ r \notin Delivered /\ r \notin Torn /\ answer[r] = "none"
    BY <1>5, <1>9 DEF Taken, Delivered, Torn, ApiInv, ReplyInv
  <2>2. Taken' = Taken \union {r} /\ Delivered' = Delivered /\ Torn' = Torn
    BY <1>4, <1>5, <1>9, <2>1
  <2>3. CASE at'[r] = "between"
    <3>1. Replies' = Replies /\ Mode = "with"
      BY <1>2, <1>4, <1>9, <2>3 DEF Moves, Mode, Replies
    <3>2. Promise!Take(r)
      BY <1>3, <1>8, <1>9, <2>1, <2>2, <3>1 DEF Promise!Take, Active
    <3> QED
      BY <3>2 DEF Promise!Next
  <2>4. CASE at'[r] = "sending"
    <3>1. \/ answer'[r] = "preflight"
          \/ Mode = "without" /\ answer'[r] \in StandIns
      BY <1>2, <1>9, <2>4 DEF Moves, Mode
    <3>2. Replies' = [Replies EXCEPT ![r] = {answer'[r]}]
      BY <1>2, <1>4, <2>4
    <3>3. Promise!Take(r)
      BY <1>3, <1>8, <1>9, <2>1, <2>2, <3>1, <3>2 DEF Promise!Take, Active
    <3> QED
      BY <3>3 DEF Promise!Next
  <2> QED
    BY <1>9, <2>3, <2>4
<1>10. CASE at[r] \in {"between", "querying"} /\ at'[r] = "sending"
  <2>1. r \in Taken /\ r \notin Delivered /\ r \notin Torn /\ answer[r] = "none"
    BY <1>5, <1>10 DEF Taken, Delivered, Torn, ApiInv, ReplyInv
  <2>2. Taken' = Taken /\ Delivered' = Delivered /\ Torn' = Torn
    BY <1>4, <1>5, <1>10, <2>1
  <2>3. answer'[r] \in {"ok", "error"} /\ Replies' = [Replies EXCEPT ![r] = {answer'[r]}]
    BY <1>2, <1>4, <1>10 DEF Moves
  <2>4. Mode = "with" /\ Replies[r] = {}
    BY <1>0, <1>4, <1>10, <2>1 DEF Mode, ApiTypeOK
  <2>5. Promise!Answer(r)
    BY <1>3, <1>5, <1>8, <1>10, <2>1, <2>2, <2>3, <2>4 DEF Promise!Answer, Active
  <2> QED
    BY <2>5 DEF Promise!Next
<1>11. CASE at[r] = "sending" /\ at'[r] = "answered"
  <2>1. r \in Taken /\ r \notin Delivered /\ r \notin Torn /\ answer'[r] = answer[r]
    BY <1>2, <1>5, <1>11 DEF Taken, Delivered, Torn
  <2>2. Taken' = Taken /\ Delivered' = Delivered \union {r} /\ Torn' = Torn
    BY <1>4, <1>11, <2>1
  <2>3. Replies' = Replies /\ Replies[r] # {}
    BY <1>2, <1>4, <1>11, <2>1 DEF Replies
  <2>4. Promise!Deliver(r)
    BY <1>3, <1>5, <1>8, <1>11, <2>1, <2>2, <2>3 DEF Promise!Deliver, Active
  <2> QED
    BY <2>4 DEF Promise!Next
<1>12. CASE \/ at[r] = "unsent" /\ at'[r] = "connected"
            \/ at[r] \in {"unsent", "connected"} /\ at'[r] = "refused"
            \/ at[r] \in {"between", "querying"} /\ at'[r] \in {"between", "querying"}
  <2>1. answer'[r] = answer[r]
    BY <1>2, <1>12
  <2>2. Taken' = Taken /\ Delivered' = Delivered /\ Torn' = Torn
    BY <1>4, <1>5, <1>12 DEF Taken, Delivered, Torn
  <2> QED
    BY <1>6, <2>1, <2>2
<1> QED
  BY <1>2, <1>9, <1>10, <1>11, <1>12 DEF Moves

\* The process implements the promise (main.go, server.go, handlers.go).
THEOREM ProcessKeepsPromise == Spec => PromiseSpec
<1>1. Init => Promise!Init
  <2> SUFFICES ASSUME Init PROVE Promise!Init
    OBVIOUS
  <2>1. Mode = "without" /\ Stage = "up" /\ late = FALSE /\ crashed = FALSE
    BY DEF Init, Mode, Stage
  <2>2. Taken = {} /\ Delivered = {} /\ Torn = {}
    BY DEF Init, Taken, Delivered, Torn, Working
  <2>3. Replies = [r \in Requests |-> {}]
    BY DEF Init, Replies
  <2> QED
    BY <2>1, <2>2, <2>3 DEF Promise!Init
<1>2. ASSUME ApiInv, [Next]_vars PROVE [Promise!Next]_PromiseVars
  <2>1. CASE MainStep
    BY <1>2, <2>1, MainRefines
  <2>2. CASE Exit \/ Crash
    BY <1>2, <2>2, EndRefines
  <2>3. ASSUME NEW r \in Requests, RequestStep(r) PROVE [Promise!Next]_PromiseVars
    BY <1>2, <2>3, RequestRefines
  <2>4. CASE UNCHANGED vars
    <3>1. /\ at' = at /\ answer' = answer /\ late' = late /\ crashed' = crashed
          /\ main' = main /\ store' = store
      BY <2>4 DEF vars, process, requests
    <3> QED
      BY <3>1, RequestsTell DEF PromiseVars, Mode, Stage
  <2> QED
    BY <1>2, <2>1, <2>2, <2>3, <2>4 DEF Next, Main, MainStep, RequestStep
<1>3. ApiInv /\ [Next]_vars => [Promise!Next]_Promise!vars
  BY <1>2 DEF PromiseVars, Promise!vars
<1> QED
  BY <1>1, <1>3, ApiInvariant, PTL DEF Spec, PromiseSpec, Promise!Spec
=============================================================================
