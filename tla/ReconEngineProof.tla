-------------------------- MODULE ReconEngineProof --------------------------
(***************************************************************************)
(* Proofs about Engine.Run for any number of calls and runs, any records   *)
(* and any failures.                                                       *)
(*                                                                         *)
(* The invariant follows a record through an iteration.  What a call has   *)
(* taken up is reported, or is the record of the current iteration; and at *)
(* each place of the iteration the rows written so far are in the          *)
(* database.  A call leaves its loops only when cur is empty, so then      *)
(* everything it took up is reported.                                      *)
(*                                                                         *)
(* The second part proves that the results of a call depend on what it     *)
(* loaded and on nothing else, come in the order of its sorted records,    *)
(* and never report both sides of a key.  It rests on the identity of the  *)
(* records: an id names one row of the tables and of every snapshot, and   *)
(* its type, source and key never change, whatever the feeds correct.      *)
(***************************************************************************)
EXTENDS ReconEngineProps, ReconQueries, RulesLemmas, FiniteSetTheorems

Early == {"idle", "loadInternal", "loadCustodian"}
Busy == {"resultEdge", "exception", "event", "exceptionEdge"}
Done == {"succeeded", "unmarked"}

\* What holds of a call at each place.
PlaceOf(c) ==
    /\ pc[c] \in Early => taken[c] = {} /\ cur[c] = NoResult
    /\ pc[c] = "loop" => cur[c] = NoResult
    /\ pc[c] \in Busy => cur[c] \in results /\ cur[c].call = c
    /\ pc[c] \in {"exception", "event", "exceptionEdge"} => cur[c].status = "BREAK" /\ cur[c].reason # NoReason
    /\ pc[c] \in {"event", "exceptionEdge"} => ExceptionOf(cur[c]) \in exceptions
    /\ pc[c] = "exceptionEdge" => EventOf(cur[c]) \in events
    /\ pc[c] \in Done => cur[c] = NoResult /\ Scope(c) \subseteq taken[c]

PlaceInv == \A c \in Calls : PlaceOf(c)

\* What a call has taken up is reported, but for the record it is working on.
TakenInv == \A c \in Calls : \A r \in taken[c] :
    /\ r \in Scope(c)
    /\ Reported(c, r) \/ cur[c] = ResultOf(c, r)

\* A result is the verdict of its call on a record the call has taken up.
ResultsInv == \A res \in results : \E r \in taken[res.call] : res = ResultOf(res.call, r)

\* A run is completed because of a call that is done.
StatusInv == \A r \in Runs : runStatus[r] = "completed" =>
    \E c \in Calls : run[c] = r /\ pc[c] \in Done

IInv == TypeOK /\ PlaceInv /\ TakenInv /\ ResultsInv /\ AuditChain /\ StatusInv

-----------------------------------------------------------------------------
(* Facts about single verdicts and rows. *)

LEMMA VerdictOnType ==
    ASSUME NEW c, NEW r
    PROVE  /\ VerdictOn(c, r) \in Verdict
           /\ VerdictOn(c, r).status = "BREAK" <=> VerdictOn(c, r).reason # NoReason
<1>1. Unmapped \in Verdict /\ Unmapped.status = "BREAK" /\ Unmapped.reason # NoReason
  BY DEF Unmapped, Break, Verdict, ReasonCodes, NoReason
<1> QED
  BY <1>1, JudgeType DEF VerdictOn

LEMMA ResultOfType ==
    ASSUME TypeOK, NEW c \in Calls, NEW r \in Record
    PROVE  /\ ResultOf(c, r) \in Result
           /\ ResultOf(c, r).call = c
           /\ ResultOf(c, r).entity = r.id
           /\ ResultOf(c, r).status = VerdictOn(c, r).status
           /\ ResultOf(c, r).reason = VerdictOn(c, r).reason
           /\ ResultOf(c, r) # NoResult
<1>1. run[c] \in Runs /\ RunType[run[c]] \in EntityTypes
  BY EngineAssumption DEF TypeOK
<1>2. r.id \in Ids /\ r.id # NoReason
  BY EngineAssumption DEF Record
<1>3. VerdictOn(c, r).status \in {"MATCH", "BREAK"} /\ VerdictOn(c, r).reason \in ReasonCodes \union {NoReason}
  BY VerdictOnType DEF Verdict
<1>4. ResultOf(c, r) \in Result
  BY <1>1, <1>2, <1>3 DEF ResultOf, Result
<1>5. ResultOf(c, r).entity # NoResult.entity
  BY <1>2 DEF ResultOf, NoResult
<1> QED
  BY <1>4, <1>5 DEF ResultOf

\* Rows are only ever added.
LEMMA RowsStay ==
    ASSUME [Next]_vars
    PROVE  /\ results \subseteq results' /\ exceptions \subseteq exceptions'
           /\ events \subseteq events' /\ edges \subseteq edges'
<1> USE DEF Insert, audit
<1>1. CASE UNCHANGED vars
  BY <1>1 DEF vars
<1>2. ASSUME NEW c \in Calls, GetReconRun(c) \/ Step(c) \/ Crash(c)
      PROVE  /\ results \subseteq results' /\ exceptions \subseteq exceptions'
             /\ events \subseteq events' /\ edges \subseteq edges'
  BY <1>2 DEF GetReconRun, Step, Crash, LoadInternal, LoadCustodian, PersistResult, ReconciledAs,
              CreateException, CreateEvent, RaisedException, MarkCompleted, MarkFailed
<1>3. ASSUME NEW r \in Feed, Ingest(r)
      PROVE  /\ results \subseteq results' /\ exceptions \subseteq exceptions'
             /\ events \subseteq events' /\ edges \subseteq edges'
  BY <1>3 DEF Ingest
<1> QED
  BY <1>1, <1>2, <1>3 DEF Next

\* What a call has loaded does not change once it is past loading.
LEMMA SnapshotStays ==
    ASSUME [Next]_vars, NEW d \in Calls, pc[d] \notin Early, TypeOK
    PROVE  /\ run' = run
           /\ internal'[d] = internal[d] /\ custodian'[d] = custodian[d]
           /\ pairing'[d] = pairing[d]
           /\ pc'[d] \notin Early
<1> USE DEF Early, snapshot, GoTo
<1>0. /\ DOMAIN pc = Calls /\ DOMAIN internal = Calls /\ DOMAIN custodian = Calls
      /\ DOMAIN pairing = Calls
      /\ pc = [x \in Calls |-> pc[x]]
  BY DEF TypeOK
<1>1. CASE UNCHANGED vars
  BY <1>1 DEF vars
<1>2. ASSUME NEW c \in Calls, GetReconRun(c) \/ LoadInternal(c) \/ LoadCustodian(c)
      PROVE  /\ run' = run
             /\ internal'[d] = internal[d] /\ custodian'[d] = custodian[d]
             /\ pairing'[d] = pairing[d]
             /\ pc'[d] \notin Early
  <2>1. c # d
    BY <1>2 DEF GetReconRun, LoadInternal, LoadCustodian
  <2> USE <1>0
  <2>2. CASE GetReconRun(c)
    BY <2>1, <2>2 DEF GetReconRun
  <2>3. CASE LoadInternal(c)
    BY <2>1, <2>3 DEF LoadInternal
  <2>4. CASE LoadCustodian(c)
    BY <2>1, <2>4 DEF LoadCustodian
  <2> QED
    BY <1>2, <2>2, <2>3, <2>4
<1>3. ASSUME NEW c \in Calls,
             \/ PersistResult(c) \/ ReconciledAs(c) \/ CreateException(c) \/ CreateEvent(c)
             \/ RaisedException(c) \/ MarkCompleted(c) \/ MarkFailed(c) \/ Crash(c)
      PROVE  run' = run /\ UNCHANGED snapshot /\ pc'[d] \notin Early
  BY <1>0, <1>3 DEF PersistResult, ReconciledAs, CreateException, CreateEvent, RaisedException,
              MarkCompleted, MarkFailed, Crash, Continue, NextIteration
<1>4. ASSUME NEW r \in Feed, Ingest(r)
      PROVE  run' = run /\ UNCHANGED snapshot /\ pc' = pc
  BY <1>4 DEF Ingest
<1> QED
  BY <1>1, <1>2, <1>3, <1>4 DEF Next, Step

-----------------------------------------------------------------------------
(* Type correctness. *)

LEMMA ScopeIsRecords ==
    ASSUME TypeOK, NEW c \in Calls
    PROVE  Scope(c) \subseteq Record /\ NextRecords(c) \subseteq Scope(c) \ taken[c]
BY DEF TypeOK, Scope, Unmatched, NextRecords, Smallest

LEMMA InitTypeOK == Init => TypeOK
<1> SUFFICES ASSUME Init PROVE TypeOK
  OBVIOUS
<1>1. records \subseteq Record
  BY EngineAssumption DEF Init
<1>2. \A c \in Calls : pairing[c] \in Pairings(custodian[c])
  <2>1. KeysOf({}) = {}
    BY DEF KeysOf
  <2>2. DOMAIN << >> = {}
    OBVIOUS
  <2>3. << >> \in [{} -> {}]
    BY <2>2
  <2> QED
    BY <2>1, <2>3 DEF Init, Pairings
<1> QED
  BY <1>1, <1>2 DEF Init, TypeOK, Statuses, Places

\* A row of the iteration in progress is well formed.
LEMMA RowTypes ==
    ASSUME TypeOK, PlaceInv, NEW c \in Calls, pc[c] \in Busy
    PROVE  /\ cur[c] \in Result
           /\ EventOf(cur[c]) \in Event
           /\ \A relation \in {"reconciled_as", "raised_exception"} : EdgeOf(cur[c], relation) \in Edge
           /\ cur[c].status = "BREAK" /\ cur[c].reason # NoReason => ExceptionOf(cur[c]) \in Exception
<1>1. cur[c] \in Result
  BY DEF TypeOK, PlaceInv, PlaceOf
<1> QED
  BY <1>1 DEF Result, Event, EventOf, Edge, EdgeOf, Exception, ExceptionOf

LEMMA TypeOKStays == TypeOK /\ PlaceInv /\ [Next]_vars => TypeOK'
<1> SUFFICES ASSUME TypeOK, PlaceInv, [Next]_vars PROVE TypeOK'
  OBVIOUS
<1> USE DEF audit, snapshot, loop
<1>1. CASE UNCHANGED vars
  BY <1>1 DEF TypeOK, vars, Pairings, KeysOf
<1>2. ASSUME NEW r \in Feed, Ingest(r) PROVE TypeOK'
  <2>1. records' \subseteq Record
    BY <1>2, EngineAssumption DEF Ingest, TypeOK
  <2> QED
    BY <1>2, <2>1 DEF Ingest, TypeOK, Pairings, KeysOf
<1>3. ASSUME NEW c \in Calls, GetReconRun(c) PROVE TypeOK'
  BY <1>3 DEF GetReconRun, GoTo, TypeOK, Places, Working, Ended, Pairings, KeysOf
<1>4. ASSUME NEW c \in Calls, LoadInternal(c) PROVE TypeOK'
  <2>1. internal' \in [Calls -> SUBSET Record] /\ pc' \in [Calls -> Places]
    BY <1>4 DEF LoadInternal, Listed, GoTo, TypeOK, Places, Working
  <2> QED
    BY <1>4, <2>1 DEF LoadInternal, TypeOK, Pairings, KeysOf
<1>5. ASSUME NEW c \in Calls, LoadCustodian(c) PROVE TypeOK'
  <2>1. custodian' \in [Calls -> SUBSET Record] /\ pc' \in [Calls -> Places]
    BY <1>5 DEF LoadCustodian, Listed, GoTo, TypeOK, Places, Working
  <2>2. DOMAIN pairing' = Calls /\ \A d \in Calls : pairing'[d] \in Pairings(custodian'[d])
    BY <1>5 DEF LoadCustodian, TypeOK
  <2> QED
    BY <1>5, <2>1, <2>2 DEF LoadCustodian, TypeOK, Pairings, KeysOf
<1>6. ASSUME NEW c \in Calls, PersistResult(c) PROVE TypeOK'
  <2>1. PICK r \in NextRecords(c), outcome \in Outcomes :
          /\ results' = Insert(results, ResultOf(c, r), outcome)
          /\ taken' = [taken EXCEPT ![c] = @ \union {r}]
          /\ cur' = [cur EXCEPT ![c] = ResultOf(c, r)]
          /\ Continue(c, outcome, "resultEdge")
    BY <1>6 DEF PersistResult
  <2>2. r \in Record /\ ResultOf(c, r) \in Result
    BY ScopeIsRecords, ResultOfType
  <2>3. results' \subseteq Result /\ taken' \in [Calls -> SUBSET Record]
        /\ cur' \in [Calls -> Result \union {NoResult}]
    BY <2>1, <2>2 DEF TypeOK, Insert
  <2>4. pc' \in [Calls -> Places]
    BY <2>1 DEF TypeOK, Continue, GoTo, Places, Working
  <2> QED
    BY <1>6, <2>3, <2>4 DEF PersistResult, TypeOK, Pairings, KeysOf
<1>7. ASSUME NEW c \in Calls, ReconciledAs(c) PROVE TypeOK'
  <2>1. EdgeOf(cur[c], "reconciled_as") \in Edge
    BY <1>7, RowTypes DEF ReconciledAs, Busy
  <2>2. edges' \subseteq Edge
    BY <1>7, <2>1 DEF ReconciledAs, TypeOK, Insert
  <2> QED
    BY <1>7, <2>2 DEF ReconciledAs, NextIteration, GoTo, TypeOK, Places, Working, Pairings, KeysOf
<1>8. ASSUME NEW c \in Calls, CreateException(c) PROVE TypeOK'
  <2>1. ExceptionOf(cur[c]) \in Exception
    BY <1>8, RowTypes DEF CreateException, Busy, PlaceInv, PlaceOf
  <2>2. exceptions' \subseteq Exception /\ pc' \in [Calls -> Places]
    BY <1>8, <2>1 DEF CreateException, TypeOK, Insert, Continue, GoTo, Places, Working
  <2> QED
    BY <1>8, <2>2 DEF CreateException, TypeOK, Pairings, KeysOf
<1>9. ASSUME NEW c \in Calls, CreateEvent(c) PROVE TypeOK'
  <2>1. EventOf(cur[c]) \in Event
    BY <1>9, RowTypes DEF CreateEvent, Busy
  <2>2. events' \subseteq Event /\ pc' \in [Calls -> Places]
    BY <1>9, <2>1 DEF CreateEvent, TypeOK, Insert, Continue, GoTo, Places, Working
  <2> QED
    BY <1>9, <2>2 DEF CreateEvent, TypeOK, Pairings, KeysOf
<1>10. ASSUME NEW c \in Calls, RaisedException(c) PROVE TypeOK'
  <2>1. EdgeOf(cur[c], "raised_exception") \in Edge
    BY <1>10, RowTypes DEF RaisedException, Busy
  <2>2. edges' \subseteq Edge
    BY <1>10, <2>1 DEF RaisedException, TypeOK, Insert
  <2> QED
    BY <1>10, <2>2 DEF RaisedException, NextIteration, GoTo, TypeOK, Places, Working, Pairings, KeysOf
<1>11. ASSUME NEW c \in Calls, MarkCompleted(c) PROVE TypeOK'
  BY <1>11 DEF MarkCompleted, Mark, GoTo, TypeOK, Places, Ended, Statuses, Pairings, KeysOf
<1>12. ASSUME NEW c \in Calls, MarkFailed(c) PROVE TypeOK'
  BY <1>12 DEF MarkFailed, Mark, GoTo, TypeOK, Places, Ended, Statuses, Pairings, KeysOf
<1>13. ASSUME NEW c \in Calls, Crash(c) PROVE TypeOK'
  BY <1>13 DEF Crash, GoTo, TypeOK, Places, Ended, Pairings, KeysOf
<1> QED
  BY <1>1, <1>2, <1>3, <1>4, <1>5, <1>6, <1>7, <1>8, <1>9, <1>10, <1>11, <1>12, <1>13 DEF Next, Step

-----------------------------------------------------------------------------
(* The rows of a call. *)

\* A step of another call leaves a call where it is, and its rows in place.
LEMMA OthersKeepPlace ==
    ASSUME TypeOK, [Next]_vars, NEW d \in Calls, PlaceOf(d),
           pc'[d] = pc[d], taken'[d] = taken[d], cur'[d] = cur[d]
    PROVE  PlaceOf(d)'
<1>1. /\ results \subseteq results' /\ exceptions \subseteq exceptions' /\ events \subseteq events'
  BY RowsStay
<1>2. pc[d] \in Done => Scope(d)' = Scope(d)
  BY SnapshotStays DEF Scope, Unmatched, KeysOf, Done, Early
<1> QED
  BY <1>1, <1>2 DEF PlaceOf, ExceptionOf, EventOf

\* What a step of a call does to the other calls' locals: nothing.
LEMMA OthersStay ==
    ASSUME TypeOK, NEW c \in Calls, GetReconRun(c) \/ Step(c) \/ Crash(c), NEW d \in Calls, d # c
    PROVE  pc'[d] = pc[d] /\ taken'[d] = taken[d] /\ cur'[d] = cur[d]
<1> USE DEF GoTo, Continue, NextIteration, loop
<1>1. DOMAIN pc = Calls /\ DOMAIN taken = Calls /\ DOMAIN cur = Calls
  BY DEF TypeOK
<1>2. CASE GetReconRun(c) \/ Crash(c)
  BY <1>1, <1>2 DEF GetReconRun, Crash
<1>3. CASE LoadInternal(c) \/ LoadCustodian(c)
  BY <1>1, <1>3 DEF LoadInternal, LoadCustodian
<1>4. CASE PersistResult(c) \/ ReconciledAs(c)
  BY <1>1, <1>4 DEF PersistResult, ReconciledAs
<1>5. CASE CreateException(c) \/ CreateEvent(c) \/ RaisedException(c)
  BY <1>1, <1>5 DEF CreateException, CreateEvent, RaisedException
<1>6. CASE MarkCompleted(c) \/ MarkFailed(c)
  BY <1>1, <1>6 DEF MarkCompleted, MarkFailed
<1> QED
  BY <1>2, <1>3, <1>4, <1>5, <1>6 DEF Step

\* The acting call is where its next place says, its rows written.
LEMMA ActorKeepsPlace ==
    ASSUME TypeOK, NEW c \in Calls, PlaceOf(c), GetReconRun(c) \/ Step(c) \/ Crash(c)
    PROVE  PlaceOf(c)'
<1> USE DEF GoTo, loop, audit, Early, Busy, Done, Insert, TypeOK
<1>1. CASE GetReconRun(c)
  BY <1>1 DEF GetReconRun, PlaceOf
<1>2. CASE LoadInternal(c)
  BY <1>2 DEF LoadInternal, PlaceOf
<1>3. CASE LoadCustodian(c)
  <2>1. pc'[c] \in {"loop", "failing"}
    BY <1>3 DEF LoadCustodian
  <2>2. cur' = cur /\ taken' = taken
    BY <1>3 DEF LoadCustodian
  <2> QED
    BY <1>3, <2>1, <2>2 DEF LoadCustodian, PlaceOf
<1>4. CASE PersistResult(c)
  <2>1. PICK r \in NextRecords(c), outcome \in Outcomes :
          /\ results' = Insert(results, ResultOf(c, r), outcome)
          /\ cur'[c] = ResultOf(c, r)
          /\ pc'[c] = IF outcome = "applied" THEN "resultEdge" ELSE "failing"
    BY <1>4 DEF PersistResult, Continue
  <2>2. ResultOf(c, r).call = c
    BY DEF ResultOf
  <2> QED
    BY <2>1, <2>2 DEF PlaceOf
<1>5. CASE ReconciledAs(c)
  <2>1. CASE pc'[c] = "loop" /\ cur'[c] = NoResult
    BY <2>1 DEF PlaceOf
  <2>2. CASE /\ pc'[c] = "exception" /\ cur' = cur /\ results' = results
             /\ cur[c].status = "BREAK" /\ cur[c].reason # NoReason
    BY <1>5, <2>2 DEF ReconciledAs, PlaceOf
  <2> QED
    BY <1>5, <2>1, <2>2 DEF ReconciledAs, NextIteration
<1>6. CASE CreateException(c)
  BY <1>6 DEF CreateException, Continue, PlaceOf, ExceptionOf
<1>7. CASE CreateEvent(c)
  BY <1>7 DEF CreateEvent, Continue, PlaceOf, ExceptionOf, EventOf
<1>8. CASE RaisedException(c)
  BY <1>8 DEF RaisedException, NextIteration, PlaceOf
<1>9. CASE MarkCompleted(c)
  <2>1. Scope(c)' = Scope(c)
    BY <1>9 DEF MarkCompleted, snapshot, Scope, Unmatched, KeysOf
  <2>2. /\ pc'[c] \in Done /\ taken' = taken /\ cur' = cur
        /\ cur[c] = NoResult /\ Scope(c) \subseteq taken[c]
    BY <1>9 DEF MarkCompleted, PlaceOf
  <2> QED
    BY <2>1, <2>2 DEF PlaceOf
<1>10. CASE MarkFailed(c)
  BY <1>10 DEF MarkFailed, PlaceOf
<1>11. CASE Crash(c)
  BY <1>11 DEF Crash, PlaceOf
<1> QED
  BY <1>1, <1>2, <1>3, <1>4, <1>5, <1>6, <1>7, <1>8, <1>9, <1>10, <1>11 DEF Step

LEMMA PlaceInvStays == TypeOK /\ PlaceInv /\ [Next]_vars => PlaceInv'
<1> SUFFICES ASSUME TypeOK, PlaceInv, [Next]_vars, NEW d \in Calls PROVE PlaceOf(d)'
  BY DEF PlaceInv
<1>1. PlaceOf(d)
  BY DEF PlaceInv
<1>2. CASE UNCHANGED vars \/ \E r \in Feed : Ingest(r)
  BY <1>1, <1>2, OthersKeepPlace DEF vars, Ingest, loop
<1>3. ASSUME NEW c \in Calls, GetReconRun(c) \/ Step(c) \/ Crash(c) PROVE PlaceOf(d)'
  <2>1. CASE c = d
    BY <1>1, <1>3, <2>1, ActorKeepsPlace
  <2>2. CASE c # d
    BY <1>1, <1>3, <2>2, OthersStay, OthersKeepPlace
  <2> QED
    BY <2>1, <2>2
<1> QED
  BY <1>2, <1>3 DEF Next

-----------------------------------------------------------------------------
(* The results. *)

\* Past loading, what a call says of a record does not change any more, and what it has
\* reported stays reported.
LEMMA VerdictsStay ==
    ASSUME TypeOK, [Next]_vars, NEW d \in Calls, pc[d] \notin Early
    PROVE  /\ Scope(d)' = Scope(d)
           /\ \A r : /\ VerdictOn(d, r)' = VerdictOn(d, r)
                     /\ ResultOf(d, r)' = ResultOf(d, r)
                     /\ Reported(d, r) => Reported(d, r)'
<1>1. /\ run' = run /\ internal'[d] = internal[d] /\ custodian'[d] = custodian[d]
      /\ pairing'[d] = pairing[d]
  BY SnapshotStays
<1>2. Scope(d)' = Scope(d)
  BY <1>1 DEF Scope, Unmatched, KeysOf
<1>3. ASSUME NEW r PROVE VerdictOn(d, r)' = VerdictOn(d, r)
  BY <1>1 DEF VerdictOn
<1>4. ASSUME NEW r PROVE ResultOf(d, r)' = ResultOf(d, r)
  BY <1>1, <1>3 DEF ResultOf
<1>5. ASSUME NEW r, Reported(d, r) PROVE Reported(d, r)'
  <2>1. \A res : Escalated(res) => Escalated(res)'
    BY RowsStay DEF Escalated, ExceptionOf, EventOf
  <2> QED
    BY <1>3, <1>4, <1>5, <2>1, RowsStay DEF Reported
<1> QED
  BY <1>2, <1>3, <1>4, <1>5

\* Only PersistResult writes results and takes up records.
LEMMA OnlyPersistWrites ==
    ASSUME TypeOK, [Next]_vars
    PROVE  \/ results' = results /\ taken' = taken
           \/ \E c \in Calls : PersistResult(c)
<1> USE DEF loop, audit
<1>1. CASE UNCHANGED vars \/ \E r \in Feed : Ingest(r)
  BY <1>1 DEF vars, Ingest
<1>2. ASSUME NEW c \in Calls, GetReconRun(c) \/ Crash(c) \/ (Step(c) /\ ~PersistResult(c))
      PROVE  results' = results /\ taken' = taken
  BY <1>2 DEF GetReconRun, Step, Crash, LoadInternal, LoadCustodian, ReconciledAs,
              CreateException, CreateEvent, RaisedException, MarkCompleted, MarkFailed
<1> QED
  BY <1>1, <1>2 DEF Next

LEMMA ResultsInvStays ==
    TypeOK /\ PlaceInv /\ ResultsInv /\ [Next]_vars => ResultsInv'
<1> SUFFICES ASSUME TypeOK, PlaceInv, ResultsInv, [Next]_vars, NEW res \in results'
             PROVE  \E r \in taken'[res.call] : res = ResultOf(res.call, r)'
  BY DEF ResultsInv
<1>1. ASSUME res \in results, taken[res.call] \subseteq taken'[res.call]
      PROVE  \E r \in taken'[res.call] : res = ResultOf(res.call, r)'
  <2>1. res.call \in Calls
    BY <1>1 DEF TypeOK, Result
  <2>2. PICK r \in taken[res.call] : res = ResultOf(res.call, r)
    BY <1>1 DEF ResultsInv
  <2>3. pc[res.call] \notin Early
    BY <2>1, <2>2 DEF PlaceInv, PlaceOf
  <2> QED
    BY <1>1, <2>1, <2>2, <2>3, VerdictsStay
<1>2. CASE results' = results /\ taken' = taken
  BY <1>1, <1>2
<1>3. ASSUME NEW c \in Calls, PersistResult(c)
      PROVE  \E r \in taken'[res.call] : res = ResultOf(res.call, r)'
  <2>1. PICK s \in NextRecords(c), outcome \in Outcomes :
          /\ results' = Insert(results, ResultOf(c, s), outcome)
          /\ taken' = [taken EXCEPT ![c] = @ \union {s}]
    BY <1>3 DEF PersistResult
  <2>2. \A d \in Calls : taken[d] \subseteq taken'[d]
    BY <2>1 DEF TypeOK
  <2>3. CASE res \in results
    BY <1>1, <2>2, <2>3 DEF TypeOK, Result
  <2>4. CASE res = ResultOf(c, s)
    <3>1. res.call = c /\ s \in taken'[c]
      BY <2>1, <2>4 DEF ResultOf, TypeOK
    <3>2. ResultOf(c, s)' = ResultOf(c, s)
      BY <1>3, VerdictsStay DEF PersistResult, Early
    <3> QED
      BY <2>4, <3>1, <3>2
  <2> QED
    BY <2>1, <2>3, <2>4 DEF Insert
<1> QED
  BY <1>2, <1>3, OnlyPersistWrites

\* The current result of a call is replaced only at the ends of its own iterations.
LEMMA CurChanges ==
    ASSUME TypeOK, [Next]_vars, NEW d \in Calls
    PROVE  cur'[d] = cur[d] \/ PersistResult(d) \/ ReconciledAs(d) \/ RaisedException(d)
<1> USE DEF loop
<1>1. CASE UNCHANGED vars \/ \E r \in Feed : Ingest(r)
  BY <1>1 DEF vars, Ingest
<1>2. ASSUME NEW c \in Calls, GetReconRun(c) \/ Step(c) \/ Crash(c)
      PROVE  cur'[d] = cur[d] \/ PersistResult(d) \/ ReconciledAs(d) \/ RaisedException(d)
  <2>1. CASE c # d
    BY <1>2, <2>1, OthersStay
  <2>2. CASE c = d
    BY <1>2, <2>2 DEF GetReconRun, Step, Crash, LoadInternal, LoadCustodian, CreateException,
                      CreateEvent, MarkCompleted, MarkFailed
  <2> QED
    BY <2>1, <2>2
<1> QED
  BY <1>1, <1>2 DEF Next

\* An iteration ends with its record reported.
LEMMA IterationReports ==
    ASSUME TypeOK, NEW d \in Calls, PlaceOf(d), NEW r \in Record, cur[d] = ResultOf(d, r),
           \/ RaisedException(d)
           \/ ReconciledAs(d) /\ cur'[d] # cur[d]
    PROVE  Reported(d, r)
<1>1. VerdictOn(d, r).status = cur[d].status /\ VerdictOn(d, r).reason = cur[d].reason
  BY ResultOfType
<1>2. CASE RaisedException(d)
  BY <1>2 DEF RaisedException, PlaceOf, Busy, Reported, Escalated
<1>3. CASE ReconciledAs(d) /\ cur'[d] # cur[d]
  <2>1. cur[d] \in results
    BY <1>3 DEF ReconciledAs, PlaceOf, Busy
  <2>2. ~(cur[d].status = "BREAK" /\ cur[d].reason # NoReason)
    BY <1>3 DEF ReconciledAs
  <2>3. VerdictOn(d, r).status # "BREAK"
    BY <1>1, <2>2, VerdictOnType
  <2> QED
    BY <2>1, <2>3 DEF Reported
<1> QED
  BY <1>2, <1>3

LEMMA TakenInvStays ==
    TypeOK /\ PlaceInv /\ TakenInv /\ [Next]_vars => TakenInv'
<1> SUFFICES ASSUME TypeOK, PlaceInv, TakenInv, [Next]_vars, NEW d \in Calls, NEW r \in taken'[d]
             PROVE  r \in Scope(d)' /\ (Reported(d, r)' \/ cur'[d] = ResultOf(d, r)')
  BY DEF TakenInv
<1>1. PlaceOf(d)
  BY DEF PlaceInv
<1>2. CASE r \in taken[d]
  <2>1. pc[d] \notin Early
    BY <1>1, <1>2 DEF PlaceOf
  <2>2. r \in Scope(d) /\ r \in Record
    BY <1>2, ScopeIsRecords DEF TakenInv
  <2>3. CASE Reported(d, r)
    BY <2>1, <2>2, <2>3, VerdictsStay
  <2>4. CASE cur[d] = ResultOf(d, r) /\ cur'[d] = cur[d]
    BY <2>1, <2>2, <2>4, VerdictsStay
  <2>5. CASE cur[d] = ResultOf(d, r) /\ cur'[d] # cur[d]
    <3>1. ~PersistResult(d)
      BY <1>1, <2>2, <2>5, ResultOfType DEF PersistResult, PlaceOf
    <3>2. Reported(d, r)
      BY <1>1, <2>2, <2>5, <3>1, CurChanges, IterationReports
    <3> QED
      BY <2>1, <2>2, <3>2, VerdictsStay
  <2> QED
    BY <1>2, <2>3, <2>4, <2>5 DEF TakenInv
<1>3. CASE r \notin taken[d]
  <2>1. PICK c \in Calls : PersistResult(c)
    BY <1>3, OnlyPersistWrites
  <2>2. PICK s \in NextRecords(c), outcome \in Outcomes :
          /\ taken' = [taken EXCEPT ![c] = @ \union {s}]
          /\ cur' = [cur EXCEPT ![c] = ResultOf(c, s)]
    BY <2>1 DEF PersistResult
  <2>3. c = d /\ s = r
    BY <1>3, <2>2 DEF TypeOK
  <2>4. cur'[d] = ResultOf(d, r) /\ r \in Scope(d)
    BY <2>2, <2>3, ScopeIsRecords DEF TypeOK
  <2>5. pc[d] \notin Early
    BY <2>1, <2>3 DEF PersistResult, Early
  <2> QED
    BY <2>4, <2>5, VerdictsStay
<1> QED
  BY <1>2, <1>3

-----------------------------------------------------------------------------
(* The other rows, and the status of the runs. *)

LEMMA ExceptionsStayJustified ==
    TypeOK /\ PlaceInv /\ AuditChain /\ [Next]_vars =>
        \A x \in exceptions' :
            \E res \in results' : res.status = "BREAK" /\ ExceptionOf(res) = x
<1> SUFFICES ASSUME TypeOK, PlaceInv, AuditChain, [Next]_vars, NEW x \in exceptions'
             PROVE  \E res \in results' : res.status = "BREAK" /\ ExceptionOf(res) = x
  OBVIOUS
<1>1. CASE x \in exceptions
  BY <1>1, RowsStay DEF AuditChain
<1>2. CASE x \notin exceptions
  <2>1. PICK c \in Calls : CreateException(c)
    <3>1. exceptions' = exceptions \/ \E c \in Calls : CreateException(c)
      BY DEF Next, vars, audit, Ingest, GetReconRun, Step, Crash, LoadInternal, LoadCustodian,
             PersistResult, ReconciledAs, CreateEvent, RaisedException, MarkCompleted, MarkFailed
    <3> QED
      BY <1>2, <3>1
  <2>2. x = ExceptionOf(cur[c])
    BY <1>2, <2>1 DEF CreateException, Insert
  <2>3. cur[c] \in results /\ cur[c].status = "BREAK"
    BY <2>1 DEF CreateException, PlaceInv, PlaceOf, Busy
  <2> QED
    BY <2>2, <2>3, RowsStay
<1> QED
  BY <1>1, <1>2

LEMMA EventsStayJustified ==
    TypeOK /\ PlaceInv /\ AuditChain /\ [Next]_vars =>
        \A e \in events' : \E x \in exceptions' : EventOf(x) = e
<1> SUFFICES ASSUME TypeOK, PlaceInv, AuditChain, [Next]_vars, NEW e \in events'
             PROVE  \E x \in exceptions' : EventOf(x) = e
  OBVIOUS
<1>1. CASE e \in events
  BY <1>1, RowsStay DEF AuditChain
<1>2. CASE e \notin events
  <2>1. PICK c \in Calls : CreateEvent(c)
    <3>1. events' = events \/ \E c \in Calls : CreateEvent(c)
      BY DEF Next, vars, audit, Ingest, GetReconRun, Step, Crash, LoadInternal, LoadCustodian,
             PersistResult, ReconciledAs, CreateException, RaisedException, MarkCompleted, MarkFailed
    <3> QED
      BY <1>2, <3>1
  <2>2. e = EventOf(cur[c])
    BY <1>2, <2>1 DEF CreateEvent, Insert
  <2>3. ExceptionOf(cur[c]) \in exceptions
    BY <2>1 DEF CreateEvent, PlaceInv, PlaceOf
  <2>4. EventOf(ExceptionOf(cur[c])) = EventOf(cur[c])
    BY DEF EventOf, ExceptionOf
  <2> QED
    BY <2>2, <2>3, <2>4, RowsStay
<1> QED
  BY <1>1, <1>2

\* The row at the source of an edge.
Anchored(e) ==
    IF e.relation = "reconciled_as"
    THEN \E res \in results : EventOf(res) = [call |-> e.call, entity |-> e.entity]
    ELSE \E x \in exceptions : EventOf(x) = [call |-> e.call, entity |-> e.entity]

LEMMA EdgesStayAnchored ==
    TypeOK /\ PlaceInv /\ AuditChain /\ [Next]_vars => \A e \in edges' : Anchored(e)'
<1> SUFFICES ASSUME TypeOK, PlaceInv, AuditChain, [Next]_vars, NEW e \in edges'
             PROVE  Anchored(e)'
  OBVIOUS
<1>0. Anchored(e) => Anchored(e)'
  BY RowsStay DEF Anchored, EventOf
<1>1. CASE e \in edges
  BY <1>0, <1>1 DEF AuditChain, Anchored
<1>2. CASE e \notin edges
  <2>1. PICK c \in Calls : ReconciledAs(c) \/ RaisedException(c)
    <3>1. edges' = edges \/ \E c \in Calls : ReconciledAs(c) \/ RaisedException(c)
      BY DEF Next, vars, audit, Ingest, GetReconRun, Step, Crash, LoadInternal, LoadCustodian,
             PersistResult, CreateException, CreateEvent, MarkCompleted, MarkFailed
    <3> QED
      BY <1>2, <3>1
  <2>2. CASE ReconciledAs(c)
    <3>1. e = EdgeOf(cur[c], "reconciled_as") /\ cur[c] \in results
      BY <1>2, <2>2 DEF ReconciledAs, Insert, PlaceInv, PlaceOf, Busy
    <3>2. EventOf(cur[c]) = [call |-> e.call, entity |-> e.entity] /\ e.relation = "reconciled_as"
      BY <3>1 DEF EventOf, EdgeOf
    <3> QED
      BY <1>0, <3>1, <3>2 DEF Anchored
  <2>3. CASE RaisedException(c)
    <3>1. e = EdgeOf(cur[c], "raised_exception") /\ ExceptionOf(cur[c]) \in exceptions
      BY <1>2, <2>3 DEF RaisedException, Insert, PlaceInv, PlaceOf
    <3>2. /\ EventOf(ExceptionOf(cur[c])) = [call |-> e.call, entity |-> e.entity]
          /\ e.relation # "reconciled_as"
      BY <3>1 DEF EventOf, EdgeOf, ExceptionOf
    <3> QED
      BY <1>0, <3>1, <3>2 DEF Anchored
  <2> QED
    BY <2>1, <2>2, <2>3
<1> QED
  BY <1>1, <1>2

LEMMA AuditChainStays == TypeOK /\ PlaceInv /\ AuditChain /\ [Next]_vars => AuditChain'
<1> SUFFICES ASSUME TypeOK, PlaceInv, AuditChain, [Next]_vars PROVE AuditChain'
  OBVIOUS
<1>1. \A x \in exceptions' : (\E res \in results : res.status = "BREAK" /\ ExceptionOf(res) = x)'
  BY ExceptionsStayJustified DEF ExceptionOf
<1>2. \A e \in events' : (\E x \in exceptions : EventOf(x) = e)'
  BY EventsStayJustified DEF EventOf
<1>3. \A e \in edges' : Anchored(e)'
  BY EdgesStayAnchored
<1> QED
  BY <1>1, <1>2, <1>3 DEF AuditChain, Anchored

LEMMA StatusInvStays == TypeOK /\ StatusInv /\ [Next]_vars => StatusInv'
<1> SUFFICES ASSUME TypeOK, StatusInv, [Next]_vars, NEW q \in Runs, runStatus'[q] = "completed"
             PROVE  \E c \in Calls : run'[c] = q /\ pc'[c] \in Done
  BY DEF StatusInv
<1> USE DEF Done
<1>1. run' = run
  BY DEF Next, vars, Ingest, GetReconRun, Step, Crash, LoadInternal, LoadCustodian, PersistResult,
         ReconciledAs, CreateException, CreateEvent, RaisedException, MarkCompleted, MarkFailed
<1>2. \A d \in Calls : pc[d] \in Done => pc'[d] = pc[d]
  <2>1. ASSUME NEW c \in Calls, GetReconRun(c) \/ Step(c) \/ Crash(c) PROVE pc[c] \notin Done
    BY <2>1 DEF GetReconRun, Step, Crash, LoadInternal, LoadCustodian, PersistResult, ReconciledAs,
                CreateException, CreateEvent, RaisedException, MarkCompleted, MarkFailed, Working
  <2> QED
    BY <2>1, OthersStay DEF Next, vars, Ingest
<1>3. CASE runStatus[q] = "completed"
  BY <1>1, <1>2, <1>3 DEF StatusInv
<1>4. CASE runStatus[q] # "completed"
  <2>1. PICK c \in Calls : MarkCompleted(c) \/ MarkFailed(c)
    <3>1. runStatus' = runStatus \/ \E c \in Calls : MarkCompleted(c) \/ MarkFailed(c)
      BY DEF Next, vars, Ingest, GetReconRun, Step, Crash, LoadInternal, LoadCustodian,
             PersistResult, ReconciledAs, CreateException, CreateEvent, RaisedException
    <3> QED
      BY <1>4, <3>1
  <2>2. MarkCompleted(c) /\ run[c] = q
    BY <1>4, <2>1 DEF MarkCompleted, MarkFailed, Mark, TypeOK
  <2>3. pc'[c] \in Done
    BY <2>2 DEF MarkCompleted, GoTo, TypeOK
  <2> QED
    BY <1>1, <2>2, <2>3
<1> QED
  BY <1>3, <1>4

-----------------------------------------------------------------------------
(* The invariant. *)

LEMMA InitIInv == Init => IInv
<1> SUFFICES ASSUME Init PROVE IInv
  OBVIOUS
<1>1. TypeOK
  BY InitTypeOK
<1>2. PlaceInv /\ TakenInv
  BY DEF Init, PlaceInv, PlaceOf, TakenInv, Busy, Done
<1>3. ResultsInv /\ AuditChain /\ StatusInv
  BY DEF Init, ResultsInv, AuditChain, StatusInv
<1> QED
  BY <1>1, <1>2, <1>3 DEF IInv

LEMMA IInvStays == IInv /\ [Next]_vars => IInv'
BY TypeOKStays, PlaceInvStays, TakenInvStays, ResultsInvStays, AuditChainStays, StatusInvStays
   DEF IInv

THEOREM EngineInvariant == Spec => []IInv
BY InitIInv, IInvStays, PTL DEF Spec

\* The database and the calls' locals are always what their types say.
THEOREM EngineTypeOK == Spec => []TypeOK
<1>1. IInv => TypeOK
  BY DEF IInv
<1> QED
  BY <1>1, EngineInvariant, PTL

\* No exception, event or edge is ever in the database without the rows it refers to,
\* whatever statements failed and whichever calls died.
THEOREM RowsAreAnchored == Spec => []AuditChain
<1>1. IInv => AuditChain
  BY DEF IInv
<1> QED
  BY <1>1, EngineInvariant, PTL

\* Whatever a call has taken up is reported once cur is empty.
LEMMA IdleCallHasReported ==
    ASSUME IInv, NEW c \in Calls, cur[c] = NoResult, NEW r \in taken[c]
    PROVE  Reported(c, r)
<1>1. r \in Record
  BY DEF IInv, TypeOK
<1>2. cur[c] # ResultOf(c, r)
  BY <1>1, ResultOfType DEF IInv
<1> QED
  BY <1>2 DEF IInv, TakenInv

\* A call writes nothing but its report.
LEMMA RowsAreOfTheReport ==
    ASSUME IInv, NEW c \in Calls
    PROVE  /\ \A res \in OwnRows(c, results) : \E r \in Scope(c) : res = ResultOf(c, r)
           /\ \A x \in OwnRows(c, exceptions) :
                 \E res \in OwnRows(c, results) : res.status = "BREAK" /\ x = ExceptionOf(res)
           /\ \A e \in OwnRows(c, events) : \E x \in OwnRows(c, exceptions) : e = EventOf(x)
<1>1. ASSUME NEW res \in OwnRows(c, results) PROVE \E r \in Scope(c) : res = ResultOf(c, r)
  BY <1>1 DEF OwnRows, IInv, ResultsInv, TakenInv
<1>2. ASSUME NEW x \in OwnRows(c, exceptions)
      PROVE  \E res \in OwnRows(c, results) : res.status = "BREAK" /\ x = ExceptionOf(res)
  <2>1. PICK res \in results : res.status = "BREAK" /\ ExceptionOf(res) = x
    BY <1>2 DEF OwnRows, IInv, AuditChain
  <2>2. res.call = x.call
    BY <2>1 DEF ExceptionOf
  <2> QED
    BY <1>2, <2>1, <2>2 DEF OwnRows
<1>3. ASSUME NEW e \in OwnRows(c, events) PROVE \E x \in OwnRows(c, exceptions) : e = EventOf(x)
  <2>1. PICK x \in exceptions : EventOf(x) = e
    BY <1>3 DEF OwnRows, IInv, AuditChain
  <2>2. x.call = e.call
    BY <2>1 DEF EventOf
  <2> QED
    BY <1>3, <2>1, <2>2 DEF OwnRows
<1> QED
  BY <1>1, <1>2, <1>3

\* And once it has reported its scope, all of it.
LEMMA ReportedMeansExact ==
    ASSUME IInv, NEW c \in Calls, \A r \in Scope(c) : Reported(c, r)
    PROVE  ReportIsExact(c)
<1>1. ASSUME NEW r \in Scope(c)
      PROVE  /\ ResultOf(c, r) \in OwnRows(c, results)
             /\ ResultOf(c, r).status = "BREAK" => Escalated(ResultOf(c, r))
  <2>1. r \in Record
    BY ScopeIsRecords DEF IInv
  <2> QED
    BY <2>1, ResultOfType DEF OwnRows, Reported, IInv
<1>2. OwnRows(c, results) = {ResultOf(c, r) : r \in Scope(c)}
  BY <1>1, RowsAreOfTheReport
<1>3. ASSUME NEW res \in OwnRows(c, results), res.status = "BREAK"
      PROVE  /\ ExceptionOf(res) \in OwnRows(c, exceptions)
             /\ EventOf(ExceptionOf(res)) \in OwnRows(c, events)
  <2>1. Escalated(res)
    BY <1>1, <1>2, <1>3
  <2>2. /\ ExceptionOf(res).call = c /\ EventOf(res).call = c
        /\ EventOf(ExceptionOf(res)) = EventOf(res)
    BY DEF OwnRows, ExceptionOf, EventOf
  <2> QED
    BY <2>1, <2>2 DEF Escalated, OwnRows
<1>4. OwnRows(c, exceptions) =
          {ExceptionOf(res) : res \in {b \in OwnRows(c, results) : b.status = "BREAK"}}
  BY <1>3, RowsAreOfTheReport
<1>5. OwnRows(c, events) = {EventOf(x) : x \in OwnRows(c, exceptions)}
  BY <1>3, <1>4, RowsAreOfTheReport
<1> QED
  BY <1>2, <1>4, <1>5 DEF ReportIsExact

\* A completed run was completed by a call that reported all it had loaded, each BREAK with
\* its exception and event, and wrote nothing else; and Run returns nil only after that.
THEOREM CompletedRunsAreAccounted == Spec => []CompletedIsAccounted
<1>1. ASSUME IInv, NEW c \in Calls, pc[c] \in Done PROVE Accounted(c) /\ ReportIsExact(c)
  <2>1. cur[c] = NoResult /\ Scope(c) \subseteq taken[c]
    BY <1>1 DEF IInv, PlaceInv, PlaceOf
  <2>2. \A r \in Scope(c) : Reported(c, r)
    BY <1>1, <2>1, IdleCallHasReported
  <2>3. Accounted(c)
    BY <2>2 DEF Accounted, Scope, Unmatched, KeysOf
  <2> QED
    BY <1>1, <2>2, <2>3, ReportedMeansExact
<1>2. IInv => CompletedIsAccounted
  BY <1>1 DEF CompletedIsAccounted, IInv, StatusInv, Done
<1> QED
  BY <1>2, EngineInvariant, PTL

\* However a call ends, at most one BREAK it wrote lacks its exception or event.
THEOREM AtMostOneBreakIsTorn == Spec => []AtMostOneTorn
<1>1. ASSUME IInv, NEW c \in Calls, NEW res \in Torn(c) PROVE res = cur[c]
  <2>1. res \in results /\ res.call = c /\ res.status = "BREAK" /\ ~Escalated(res)
    BY <1>1 DEF Torn
  <2>2. PICK r \in taken[c] : res = ResultOf(c, r)
    BY <1>1, <2>1 DEF IInv, ResultsInv
  <2>3. r \in Record
    BY <1>1 DEF IInv, TypeOK
  <2>4. ~Reported(c, r)
    BY <1>1, <2>1, <2>2, <2>3, ResultOfType DEF Reported, IInv
  <2> QED
    BY <1>1, <2>2, <2>4 DEF IInv, TakenInv
<1>2. ASSUME IInv, NEW c \in Calls, pc[c] \in {"loop", "exceptionEdge", "succeeded", "unmarked"},
             NEW res \in Torn(c)
      PROVE  FALSE
  <2>1. res = cur[c] /\ res \in results /\ ~Escalated(res)
    BY <1>1, <1>2 DEF Torn
  <2>2. res # NoResult
    <3>1. res.entity # NoReason
      BY <2>1, <1>2, EngineAssumption DEF IInv, TypeOK, Result
    <3> QED
      BY <3>1 DEF NoResult
  <2>3. pc[c] = "exceptionEdge"
    BY <1>2, <2>1, <2>2 DEF IInv, PlaceInv, PlaceOf, Done
  <2> QED
    BY <1>2, <2>1, <2>3 DEF IInv, PlaceInv, PlaceOf, Escalated
<1>3. IInv => AtMostOneTorn
  BY <1>1, <1>2 DEF AtMostOneTorn
<1> QED
  BY <1>3, EngineInvariant, PTL
-----------------------------------------------------------------------------
(* The identity of the records. *)

OneRowPerId(rs) == \A a, b \in rs : a.id = b.id => a = b

\* The records that are, were loaded, or may come.
Known == records \union Feed \union UNION {internal[c] \union custodian[c] : c \in Calls}

IdsInv ==
    /\ \A a, b \in Known : SameRecord(a, b)
    /\ OneRowPerId(records)
    /\ \A c \in Calls :
          /\ OneRowPerId(internal[c]) /\ OneRowPerId(custodian[c])
          /\ \A r \in internal[c] : r.source = "internal"
          /\ \A r \in custodian[c] : r.source = "custodian"

\* A record taken up has all those before it reported.
OrderInv ==
    \A c \in Calls : \A r, s \in Scope(c) :
        Before(c, r, s) /\ s \in taken[c] => Reported(c, r)

-----------------------------------------------------------------------------
LEMMA InitIdsInv == Init => IdsInv
<1> SUFFICES ASSUME Init PROVE IdsInv
  OBVIOUS
<1>1. Known = records \union Feed
  BY DEF Init, Known
<1>2. records \in Tables
  BY DEF Init
<1> QED
  BY <1>1, <1>2, EngineAssumption DEF Init, IdsInv, OneRowPerId

\* What a call loads was there, and what a feed writes could come.
LEMMA KnownShrinks == ASSUME TypeOK, [Next]_vars PROVE Known' \subseteq Known
<1> USE DEF snapshot, Known
<1>1. CASE UNCHANGED <<records, snapshot>>
  BY <1>1
<1>2. ASSUME NEW f \in Feed, Ingest(f) PROVE Known' \subseteq Known
  BY <1>2 DEF Ingest
<1>3. ASSUME NEW c \in Calls, LoadInternal(c) \/ LoadCustodian(c) PROVE Known' \subseteq Known
  <2>1. /\ records' = records
        /\ \A d \in Calls : internal'[d] \subseteq internal[d] \union records
        /\ \A d \in Calls : custodian'[d] \subseteq custodian[d] \union records
    BY <1>3 DEF LoadInternal, LoadCustodian, Listed, TypeOK
  <2> QED
    BY <2>1
<1>4. ASSUME NEW c \in Calls,
             GetReconRun(c) \/ Crash(c) \/ (Step(c) /\ ~LoadInternal(c) /\ ~LoadCustodian(c))
      PROVE  UNCHANGED <<records, snapshot>>
  BY <1>4 DEF GetReconRun, Crash, Step, PersistResult, ReconciledAs, CreateException,
              CreateEvent, RaisedException, MarkCompleted, MarkFailed
<1> QED
  BY <1>1, <1>2, <1>3, <1>4 DEF Next, vars

LEMMA IdsInvStays == TypeOK /\ IdsInv /\ [Next]_vars => IdsInv'
<1> SUFFICES ASSUME TypeOK, IdsInv, [Next]_vars PROVE IdsInv'
  OBVIOUS
<1> USE DEF snapshot
<1>1. CASE UNCHANGED <<records, snapshot>>
  BY <1>1 DEF IdsInv, Known, OneRowPerId
<1>2. ASSUME NEW f \in Feed, Ingest(f) PROVE IdsInv'
  <2>1. /\ records' = {x \in records : x.id # f.id} \union {f}
        /\ internal' = internal /\ custodian' = custodian
    BY <1>2 DEF Ingest
  <2>2. Known' \subseteq Known
    BY KnownShrinks
  <2>3. OneRowPerId(records)'
    BY <2>1 DEF OneRowPerId, IdsInv
  <2> QED
    BY <2>1, <2>2, <2>3 DEF IdsInv, OneRowPerId
<1>3. ASSUME NEW c \in Calls, LoadInternal(c) \/ LoadCustodian(c) PROVE IdsInv'
  <2>1. /\ records' = records
        /\ \A d \in Calls :
              \/ internal'[d] = internal[d]
              \/ internal'[d] = Listed(RunType[run[c]], "internal")
        /\ \A d \in Calls :
              \/ custodian'[d] = custodian[d]
              \/ custodian'[d] = Listed(RunType[run[c]], "custodian")
    <3>1. CASE LoadInternal(c)
      BY <3>1 DEF LoadInternal, TypeOK
    <3>2. CASE LoadCustodian(c)
      BY <3>2 DEF LoadCustodian, TypeOK
    <3> QED
      BY <1>3, <3>1, <3>2
  <2>2. Known' \subseteq Known
    BY KnownShrinks
  <2>3. ASSUME NEW d \in Calls
        PROVE  /\ OneRowPerId(internal[d])' /\ OneRowPerId(custodian[d])'
               /\ \A r \in internal'[d] : r.source = "internal"
               /\ \A r \in custodian'[d] : r.source = "custodian"
    BY <2>1 DEF IdsInv, OneRowPerId, Listed
  <2> QED
    BY <2>1, <2>2, <2>3 DEF IdsInv, OneRowPerId
<1>4. ASSUME NEW c \in Calls,
             GetReconRun(c) \/ Crash(c) \/ (Step(c) /\ ~LoadInternal(c) /\ ~LoadCustodian(c))
      PROVE  UNCHANGED <<records, snapshot>>
  BY <1>4 DEF GetReconRun, Crash, Step, PersistResult, ReconciledAs, CreateException,
              CreateEvent, RaisedException, MarkCompleted, MarkFailed
<1> QED
  BY <1>1, <1>2, <1>3, <1>4 DEF Next, vars

\* Within what a call has loaded, an id names one record.
LEMMA LoadedIds ==
    ASSUME IdsInv, NEW c \in Calls,
           NEW a \in internal[c] \union custodian[c], NEW b \in internal[c] \union custodian[c],
           a.id = b.id
    PROVE  a = b
<1>1. a \in Known /\ b \in Known
  BY DEF Known
<1>2. a.source = b.source
  BY <1>1 DEF IdsInv, SameRecord
<1> QED
  BY <1>2 DEF IdsInv, OneRowPerId

\* A result names the record of the scope it is about.
LEMMA ResultNamesRecord ==
    ASSUME IInv, NEW res \in results
    PROVE  /\ res.call \in Calls
           /\ \E r \in taken[res.call] :
                 /\ res = ResultOf(res.call, r)
                 /\ r.id = res.entity
                 /\ r \in Scope(res.call)
                 /\ res.status = VerdictOn(res.call, r).status
                 /\ res.reason = VerdictOn(res.call, r).reason
<1>1. res.call \in Calls
  BY DEF IInv, TypeOK, Result
<1>2. PICK r \in taken[res.call] : res = ResultOf(res.call, r)
  BY DEF IInv, ResultsInv
<1>3. r \in Record /\ r \in Scope(res.call)
  BY <1>1 DEF IInv, TypeOK, TakenInv
<1> QED
  BY <1>1, <1>2, <1>3, ResultOfType DEF IInv

LEMMA ScopeIsLoaded ==
    ASSUME NEW c PROVE Scope(c) \subseteq internal[c] \union custodian[c]
BY DEF Scope, Unmatched

-----------------------------------------------------------------------------
THEOREM RecordIdentity == Spec => [](IInv /\ IdsInv)
<1>1. Init => IInv /\ IdsInv
  BY InitIInv, InitIdsInv
<1>2. (IInv /\ IdsInv) /\ [Next]_vars => (IInv /\ IdsInv)'
  BY IInvStays, IdsInvStays DEF IInv
<1> QED
  BY <1>1, <1>2, PTL DEF Spec

\* A call has one result for an entity.
LEMMA OneResultPerEntity ==
    ASSUME IInv, IdsInv, NEW a \in results, NEW b \in results,
           a.call = b.call, a.entity = b.entity
    PROVE  a = b
<1>1. a.call \in Calls
  BY ResultNamesRecord
<1>2. PICK r \in Scope(a.call) : a = ResultOf(a.call, r) /\ r.id = a.entity
  BY ResultNamesRecord
<1>3. PICK s \in Scope(b.call) : b = ResultOf(b.call, s) /\ s.id = b.entity
  BY ResultNamesRecord
<1>4. r = s
  BY <1>1, <1>2, <1>3, LoadedIds, ScopeIsLoaded
<1> QED
  BY <1>2, <1>3, <1>4

\* The result of its own call is what an exception says, and with one call on the run it is
\* the only one that can be found for it.
LEMMA ResultOfException ==
    ASSUME IInv, IdsInv, NEW x \in exceptions, ~Mixed(x), NEW res \in ResultsFor(x)
    PROVE  res.call = x.call /\ res.status = "BREAK" /\ res.reason = x.reason
<1>1. PICK b \in results : b.status = "BREAK" /\ ExceptionOf(b) = x
  BY DEF IInv, AuditChain
<1>2. /\ b.call = x.call /\ b.run = x.run /\ b.type = x.type
      /\ b.entity = x.entity /\ b.reason = x.reason
  BY <1>1 DEF ExceptionOf
<1>3. b \in ResultsFor(x)
  BY <1>2 DEF ResultsFor
<1>4. res.call = b.call
  BY <1>3 DEF Mixed
<1>5. res = b
  BY <1>2, <1>4, OneResultPerEntity DEF ResultsFor
<1> QED
  BY <1>1, <1>2, <1>5

\* No call reports an internal record and the custodian record under the same key.
THEOREM OneSideIsReported == Spec => []OneSidePerKey
<1>1. ASSUME IInv, IdsInv, NEW a \in results, NEW b \in results, a.call = b.call,
             NEW i \in internal[a.call], NEW k \in custodian[a.call],
             i.key = k.key, i.id = a.entity, k.id = b.entity
      PROVE  FALSE
  <2>1. PICK s \in Scope(b.call) : s.id = b.entity /\ b.call \in Calls
    BY <1>1, ResultNamesRecord
  <2>2. s = k
    BY <1>1, <2>1, LoadedIds, ScopeIsLoaded
  <2>3. k \notin internal[b.call]
    BY <1>1, <2>1 DEF IdsInv
  <2>4. k \in Unmatched(b.call)
    BY <2>1, <2>2, <2>3 DEF Scope
  <2> QED
    BY <1>1, <2>4 DEF Unmatched, KeysOf
<1>2. IInv /\ IdsInv => OneSidePerKey
  BY <1>1 DEF OneSidePerKey
<1> QED
  BY <1>2, RecordIdentity, PTL

\* The verdict on a record is a function of what its call loaded, as long as no two
\* custodian records share a key.
LEMMA VerdictDependsOnSnapshot ==
    ASSUME TypeOK, NEW c \in Calls, NEW d \in Calls, NEW r,
           internal[c] = internal[d], custodian[c] = custodian[d], UniqueKeys(custodian[c])
    PROVE  VerdictOn(c, r) = VerdictOn(d, r)
<1>1. /\ pairing[c] \in Pairings(custodian[c])
      /\ pairing[d] \in Pairings(custodian[c])
  BY DEF TypeOK
<1>2. DOMAIN pairing[c] = KeysOf(custodian[c]) /\ DOMAIN pairing[d] = KeysOf(custodian[c])
  BY <1>1 DEF Pairings
<1>3. ASSUME NEW k \in KeysOf(custodian[c]) PROVE pairing[c][k] = pairing[d][k]
  <2>1. /\ pairing[c][k] \in custodian[c] /\ pairing[c][k].key = k
        /\ pairing[d][k] \in custodian[c] /\ pairing[d][k].key = k
    BY <1>1 DEF Pairings
  <2> QED
    BY <2>1 DEF UniqueKeys
<1> QED
  BY <1>2, <1>3 DEF VerdictOn

\* Reconciliation is deterministic in what it loads when custodian keys are unique: the
\* order of the calls, the feeds, the failures and the other results do not matter.
THEOREM VerdictsAreDeterministic == Spec => []SameInputsSameVerdicts
<1>1. ASSUME IInv, IdsInv, NEW a \in results, NEW b \in results, a.entity = b.entity,
             internal[a.call] = internal[b.call], custodian[a.call] = custodian[b.call],
             UniqueKeys(custodian[a.call])
      PROVE  a.status = b.status /\ a.reason = b.reason
  <2>1. /\ a.call \in Calls
        /\ \E r \in Scope(a.call) :
              /\ r.id = a.entity
              /\ a.status = VerdictOn(a.call, r).status
              /\ a.reason = VerdictOn(a.call, r).reason
    BY <1>1, ResultNamesRecord
  <2>2. /\ b.call \in Calls
        /\ \E s \in Scope(b.call) :
              /\ s.id = b.entity
              /\ b.status = VerdictOn(b.call, s).status
              /\ b.reason = VerdictOn(b.call, s).reason
    BY <1>1, ResultNamesRecord
  <2>3. PICK r \in Scope(a.call) : /\ r.id = a.entity
                                  /\ a.status = VerdictOn(a.call, r).status
                                  /\ a.reason = VerdictOn(a.call, r).reason
    BY <2>1
  <2>4. PICK s \in Scope(b.call) : /\ s.id = b.entity
                                  /\ b.status = VerdictOn(b.call, s).status
                                  /\ b.reason = VerdictOn(b.call, s).reason
    BY <2>2
  <2>5. /\ r \in internal[a.call] \union custodian[a.call]
        /\ s \in internal[a.call] \union custodian[a.call]
    BY <1>1, ScopeIsLoaded
  <2>6. r = s
    BY <1>1, <2>1, <2>3, <2>4, <2>5, LoadedIds
  <2>7. VerdictOn(a.call, r) = VerdictOn(b.call, r)
    BY <1>1, <2>1, <2>2, VerdictDependsOnSnapshot DEF IInv
  <2> QED
    BY <2>3, <2>4, <2>6, <2>7
<1>2. IInv /\ IdsInv => SameInputsSameVerdicts
  BY <1>1 DEF SameInputsSameVerdicts
<1> QED
  BY <1>2, RecordIdentity, PTL

-----------------------------------------------------------------------------
(* Order. *)

LEMMA InitOrderInv == Init => OrderInv
BY DEF Init, OrderInv

\* The next record of a loop comes after every record not yet taken up.
LEMMA NextIsFirst ==
    ASSUME TypeOK, NEW c \in Calls, NEW s \in NextRecords(c), NEW r \in Scope(c), Before(c, r, s)
    PROVE  r \in taken[c]
<1>1. r.key \in Int /\ s.key \in Int
  BY ScopeIsRecords DEF Record
<1> QED
  BY <1>1 DEF NextRecords, Smallest, Before, Scope

LEMMA OrderInvStays == IInv /\ OrderInv /\ [Next]_vars => OrderInv'
<1> SUFFICES ASSUME IInv, OrderInv, [Next]_vars, NEW c \in Calls,
                    NEW r \in Scope(c)', NEW s \in Scope(c)', Before(c, r, s)', s \in taken'[c]
             PROVE  Reported(c, r)'
  BY DEF OrderInv
<1>1. ASSUME pc[c] \notin Early, s \in taken[c] PROVE Reported(c, r)'
  <2>1. r \in Scope(c) /\ s \in Scope(c)
    BY <1>1, VerdictsStay DEF IInv
  <2>2. Before(c, r, s)
    BY <1>1, SnapshotStays DEF IInv, Before
  <2>3. Reported(c, r)
    BY <1>1, <2>1, <2>2 DEF OrderInv
  <2> QED
    BY <1>1, <2>3, VerdictsStay DEF IInv
<1>2. CASE s \in taken[c]
  <2>1. pc[c] \notin Early
    BY <1>2 DEF IInv, PlaceInv, PlaceOf
  <2> QED
    BY <1>1, <1>2, <2>1
<1>3. CASE s \notin taken[c]
  <2>1. PICK d \in Calls : PersistResult(d)
    BY <1>3, OnlyPersistWrites DEF IInv
  <2>2. c = d /\ s \in NextRecords(c)
    BY <1>3, <2>1 DEF PersistResult, IInv, TypeOK
  <2>3. pc[c] = "loop" /\ pc[c] \notin Early /\ cur[c] = NoResult
    BY <2>1, <2>2 DEF PersistResult, Early, IInv, PlaceInv, PlaceOf
  <2>4. r \in Scope(c) /\ Before(c, r, s)
    BY <2>3, VerdictsStay, SnapshotStays DEF IInv, Before
  <2>5. r \in taken[c]
    BY <2>2, <2>4, NextIsFirst DEF IInv
  <2>6. Reported(c, r)
    BY <2>3, <2>5, IdleCallHasReported
  <2> QED
    BY <2>3, <2>6, VerdictsStay DEF IInv
<1> QED
  BY <1>2, <1>3

\* A call that stops has reported a prefix of its records in their sort order.
THEOREM ReportIsAPrefix == Spec => []PrefixOfOrder
<1>1. ASSUME IInv, IdsInv, OrderInv, NEW c \in Calls, NEW r \in Scope(c), NEW s \in Scope(c),
             Before(c, r, s), ResultOf(c, s) \in results
      PROVE  Reported(c, r)
  <2>1. PICK t \in taken[c] : ResultOf(c, t) = ResultOf(c, s) /\ t \in Scope(c)
    <3>1. ResultOf(c, s).call = c
      BY DEF ResultOf
    <3> QED
      BY <1>1, <3>1 DEF IInv, ResultsInv, TakenInv
  <2>2. t.id = s.id
    BY <2>1 DEF ResultOf
  <2>3. t = s
    BY <1>1, <2>1, <2>2, LoadedIds, ScopeIsLoaded
  <2> QED
    BY <1>1, <2>1, <2>3 DEF OrderInv
<1>2. IInv /\ IdsInv /\ OrderInv => PrefixOfOrder
  BY <1>1 DEF PrefixOfOrder
<1>3. IInv /\ OrderInv /\ [Next]_vars => OrderInv'
  BY OrderInvStays
<1> QED
  BY <1>2, <1>3, InitOrderInv, RecordIdentity, PTL DEF Spec

-----------------------------------------------------------------------------
(* Entity types. *)

\* The engine works on no run of tax lots, so nothing it writes is about one.
SupportedInv ==
    /\ \A c \in Calls :
          pc[c] \notin {"idle", "failing", "unread", "failed", "crashed"} =>
              RunType[run[c]] # "tax_lot"
    /\ \A res \in results : res.type # "tax_lot"

LEMMA InitSupportedInv == Init => SupportedInv
BY DEF Init, SupportedInv

LEMMA SupportedInvStays == TypeOK /\ SupportedInv /\ [Next]_vars => SupportedInv'
<1> SUFFICES ASSUME TypeOK, SupportedInv, [Next]_vars PROVE SupportedInv'
  OBVIOUS
<1> USE DEF SupportedInv
<1>1. CASE UNCHANGED vars
  BY <1>1 DEF vars, audit
<1>2. ASSUME NEW r \in Feed, Ingest(r) PROVE SupportedInv'
  BY <1>2 DEF Ingest, audit
<1>3. ASSUME NEW c \in Calls, GetReconRun(c) \/ Crash(c) PROVE SupportedInv'
  BY <1>3 DEF GetReconRun, Crash, GoTo, audit, TypeOK
<1>4. ASSUME NEW c \in Calls, PersistResult(c) PROVE SupportedInv'
  <2>1. RunType[run[c]] # "tax_lot"
    BY <1>4 DEF PersistResult
  <2>2. \A r : ResultOf(c, r).type = RunType[run[c]]
    BY DEF ResultOf
  <2>3. \A res \in results' : res.type # "tax_lot"
    BY <1>4, <2>1, <2>2 DEF PersistResult, Insert
  <2>4. \A d \in Calls : pc'[d] \notin {"idle", "failing", "unread", "failed", "crashed"} =>
            RunType[run'[d]] # "tax_lot"
    BY <1>4, <2>1 DEF PersistResult, Continue, GoTo, TypeOK
  <2> QED
    BY <2>3, <2>4
<1>5. ASSUME NEW c \in Calls, Step(c), ~PersistResult(c) PROVE SupportedInv'
  BY <1>5 DEF Step, LoadInternal, LoadCustodian, ReconciledAs, CreateException, CreateEvent,
              RaisedException, MarkCompleted, MarkFailed, NextIteration, Continue, GoTo, audit, TypeOK
<1> QED
  BY <1>1, <1>2, <1>3, <1>4, <1>5 DEF Next

\* A call loads only records of its run's type.
TypesInv == \A c \in Calls : \A r \in internal[c] \union custodian[c] : r.type = RunType[run[c]]

LEMMA TypesInvStays == TypeOK /\ TypesInv /\ [Next]_vars => TypesInv'
<1> SUFFICES ASSUME TypeOK, TypesInv, [Next]_vars PROVE TypesInv'
  OBVIOUS
<1> USE DEF snapshot
<1>1. CASE UNCHANGED <<run, snapshot>>
  BY <1>1 DEF TypesInv
<1>2. ASSUME NEW c \in Calls, LoadInternal(c) \/ LoadCustodian(c) PROVE TypesInv'
  <2>1. /\ run' = run
        /\ \A d \in Calls : internal'[d] = internal[d] \/ (d = c /\ internal'[d] = Listed(RunType[run[c]], "internal"))
        /\ \A d \in Calls : custodian'[d] = custodian[d] \/ (d = c /\ custodian'[d] = Listed(RunType[run[c]], "custodian"))
    <3>1. CASE LoadInternal(c)
      BY <3>1 DEF LoadInternal, TypeOK
    <3>2. CASE LoadCustodian(c)
      BY <3>2 DEF LoadCustodian, TypeOK
    <3> QED
      BY <1>2, <3>1, <3>2
  <2> QED
    BY <2>1 DEF TypesInv, Listed
<1>3. ASSUME NEW c \in Calls,
             GetReconRun(c) \/ Crash(c) \/ (Step(c) /\ ~LoadInternal(c) /\ ~LoadCustodian(c))
      PROVE  UNCHANGED <<run, snapshot>>
  BY <1>3 DEF GetReconRun, Crash, Step, PersistResult, ReconciledAs, CreateException,
              CreateEvent, RaisedException, MarkCompleted, MarkFailed
<1>4. ASSUME NEW f \in Feed, Ingest(f) PROVE UNCHANGED <<run, snapshot>>
  BY <1>4 DEF Ingest
<1> QED
  BY <1>1, <1>2, <1>3, <1>4 DEF Next, vars

-----------------------------------------------------------------------------
(***************************************************************************)
(* The engine implements ReconLedger.  Each step of a call is a step of    *)
(* the ledger or leaves it as it is: loading is Load; the write that       *)
(* completes a report is Audit, at most one record a step because the new  *)
(* row is of one call and one entity; the end of a call is Complete or     *)
(* Abandon.                                                                *)
(***************************************************************************)

\* Before it has loaded its custodian records a call has no record in hand but the
\* internal ones.
LoadInv == \A c \in Calls :
    /\ pc[c] \in Early => custodian[c] = {}
    /\ pc[c] \in {"idle", "loadInternal"} => internal[c] = {}

\* A step of another call does not change what a call has loaded.
LEMMA OthersKeepSnapshot ==
    ASSUME TypeOK, NEW c \in Calls, GetReconRun(c) \/ Step(c) \/ Crash(c), NEW d \in Calls, d # c
    PROVE  /\ internal'[d] = internal[d] /\ custodian'[d] = custodian[d]
           /\ pairing'[d] = pairing[d] /\ run' = run
<1> USE DEF snapshot
<1>0. DOMAIN internal = Calls /\ DOMAIN custodian = Calls /\ DOMAIN pairing = Calls
  BY DEF TypeOK
<1>1. CASE LoadInternal(c)
  BY <1>0, <1>1 DEF LoadInternal
<1>2. CASE LoadCustodian(c)
  BY <1>0, <1>2 DEF LoadCustodian
<1>3. CASE GetReconRun(c) \/ Crash(c) \/ (Step(c) /\ ~LoadInternal(c) /\ ~LoadCustodian(c))
  BY <1>3 DEF GetReconRun, Crash, Step, PersistResult, ReconciledAs, CreateException,
              CreateEvent, RaisedException, MarkCompleted, MarkFailed
<1> QED
  BY <1>1, <1>2, <1>3

LEMMA InitLoadInv == Init => LoadInv
BY DEF Init, LoadInv

LEMMA LoadInvStays == TypeOK /\ LoadInv /\ [Next]_vars => LoadInv'
<1> SUFFICES ASSUME TypeOK, LoadInv, [Next]_vars, NEW d \in Calls
             PROVE  /\ pc'[d] \in Early => custodian'[d] = {}
                    /\ pc'[d] \in {"idle", "loadInternal"} => internal'[d] = {}
  BY DEF LoadInv
<1>1. CASE pc[d] \notin Early
  BY <1>1, SnapshotStays DEF Early
<1>2. CASE pc'[d] = pc[d] /\ internal'[d] = internal[d] /\ custodian'[d] = custodian[d]
  BY <1>2 DEF LoadInv
<1>3. CASE pc[d] \in Early /\ (GetReconRun(d) \/ Step(d) \/ Crash(d))
  <2> USE DEF LoadInv, Early, GoTo, TypeOK, snapshot
  <2>1. CASE GetReconRun(d)
    BY <2>1 DEF GetReconRun
  <2>2. CASE LoadInternal(d)
    <3>1. pc'[d] \in {"loadCustodian", "failing"} /\ custodian' = custodian
      BY <2>2 DEF LoadInternal
    <3> QED
      BY <2>2, <3>1 DEF LoadInternal
  <2>3. CASE LoadCustodian(d)
    <3>1. pc'[d] \in {"loop", "failing"}
      BY <2>3 DEF LoadCustodian
    <3> QED
      BY <3>1
  <2>4. CASE Crash(d)
    BY <2>4 DEF Crash
  <2> QED
    BY <1>3, <2>1, <2>2, <2>3, <2>4 DEF Step, PersistResult, ReconciledAs, CreateException,
       CreateEvent, RaisedException, MarkCompleted, MarkFailed
<1>4. CASE UNCHANGED vars \/ \E r \in Feed : Ingest(r)
  BY <1>2, <1>4 DEF vars, snapshot, Ingest
<1>5. ASSUME NEW c \in Calls, GetReconRun(c) \/ Step(c) \/ Crash(c), c # d
      PROVE  pc'[d] = pc[d] /\ internal'[d] = internal[d] /\ custodian'[d] = custodian[d]
  BY <1>5, OthersStay, OthersKeepSnapshot
<1> QED
  BY <1>1, <1>2, <1>3, <1>4, <1>5 DEF Next

THEOREM LedgerInvariant == Spec => [](IInv /\ IdsInv /\ LoadInv)
<1>1. IInv /\ LoadInv /\ [Next]_vars => LoadInv'
  BY LoadInvStays DEF IInv
<1> QED
  BY <1>1, InitLoadInv, RecordIdentity, PTL DEF Spec

-----------------------------------------------------------------------------
(***************************************************************************)
(* A call comes to its end.  Each of its statements takes it to a later    *)
(* stage, or leaves it less to do; nobody else's step gives it more; and   *)
(* its loops always have a next record or none left to take up.            *)
(***************************************************************************)

\* Tables are finite, and so is what is loaded from them.
FiniteInv ==
    /\ IsFiniteSet(records)
    /\ \A c \in Calls : IsFiniteSet(internal[c]) /\ IsFiniteSet(custodian[c])

LEMMA InitFiniteInv == Init => FiniteInv
BY FS_EmptySet, EngineAssumption DEF Init, FiniteInv

LEMMA FiniteInvStays == TypeOK /\ FiniteInv /\ [Next]_vars => FiniteInv'
<1> SUFFICES ASSUME TypeOK, FiniteInv, [Next]_vars PROVE FiniteInv'
  OBVIOUS
<1> USE DEF snapshot
<1>1. CASE UNCHANGED <<records, snapshot>>
  BY <1>1 DEF FiniteInv
<1>2. ASSUME NEW f \in Feed, Ingest(f) PROVE FiniteInv'
  <2>1. IsFiniteSet({x \in records : x.id # f.id})
    BY FS_Subset DEF FiniteInv
  <2>2. IsFiniteSet(records')
    BY <1>2, <2>1, FS_AddElement DEF Ingest
  <2> QED
    BY <1>2, <2>2 DEF Ingest, FiniteInv
<1>3. ASSUME NEW c \in Calls, LoadInternal(c) \/ LoadCustodian(c) PROVE FiniteInv'
  <2>1. \A type, source : IsFiniteSet(Listed(type, source))
    <3>1. \A type, source : Listed(type, source) \in SUBSET records
      BY DEF Listed
    <3> QED
      BY <3>1, FS_Subset DEF FiniteInv
  <2>2. CASE LoadInternal(c)
    BY <2>1, <2>2 DEF LoadInternal, FiniteInv, TypeOK
  <2>3. CASE LoadCustodian(c)
    BY <2>1, <2>3 DEF LoadCustodian, FiniteInv, TypeOK
  <2> QED
    BY <1>3, <2>2, <2>3
<1>4. ASSUME NEW c \in Calls,
             GetReconRun(c) \/ Crash(c) \/ (Step(c) /\ ~LoadInternal(c) /\ ~LoadCustodian(c))
      PROVE  UNCHANGED <<records, snapshot>>
  BY <1>4 DEF GetReconRun, Crash, Step, PersistResult, ReconciledAs, CreateException,
              CreateEvent, RaisedException, MarkCompleted, MarkFailed
<1> QED
  BY <1>1, <1>2, <1>3, <1>4 DEF Next, vars

LEMMA RemainingIsFinite ==
    ASSUME FiniteInv, NEW c \in Calls
    PROVE  IsFiniteSet(Remaining(c)) /\ Cardinality(Remaining(c)) \in Nat
<1>1. IsFiniteSet(internal[c] \union custodian[c])
  BY FS_Union DEF FiniteInv
<1>2. Remaining(c) \in SUBSET (internal[c] \union custodian[c])
  BY DEF Remaining, Scope, Unmatched
<1> QED
  BY <1>1, <1>2, FS_Subset, FS_CardinalityType

LEMMA RankType == ASSUME NEW place PROVE Rank(place) \in 0 .. 4
BY DEF Rank

LEMMA FuelType == ASSUME FiniteInv, NEW c \in Calls PROVE Fuel(c) \in Nat
BY RemainingIsFinite, RankType DEF Fuel

\* Taking up a record pays for the four statements that may follow.
LEMMA PersistDescends ==
    ASSUME TypeOK, FiniteInv, [Next]_vars, NEW c \in Calls, PersistResult(c)
    PROVE  StageOf(c)' > StageOf(c) \/ (StageOf(c)' = StageOf(c) /\ Fuel(c)' < Fuel(c))
<1>1. /\ pc[c] = "loop"
      /\ \/ pc'[c] = "failing"
         \/ pc'[c] = "resultEdge"
  BY DEF PersistResult, Continue, GoTo, TypeOK
<1>2. StageOf(c) = 3
  BY <1>1 DEF StageOf, Ended
<1>3. CASE pc'[c] = "failing"
  BY <1>2, <1>3 DEF StageOf
<1>4. CASE pc'[c] = "resultEdge"
  <2>1. StageOf(c)' = 3
    BY <1>4 DEF StageOf, Ended
  <2>2. PICK r \in NextRecords(c) : taken'[c] = taken[c] \union {r}
    BY DEF PersistResult, TypeOK
  <2>3. Scope(c)' = Scope(c)
    BY <1>1, SnapshotStays DEF Scope, Unmatched, KeysOf, Early
  <2>4. r \in Remaining(c) /\ Remaining(c)' = Remaining(c) \ {r}
    BY <2>2, <2>3, ScopeIsRecords DEF Remaining
  <2>5. Cardinality(Remaining(c)') = Cardinality(Remaining(c)) - 1
    BY <2>4, RemainingIsFinite, FS_RemoveElement
  <2>6. Rank(pc'[c]) = 4 /\ Rank(pc[c]) = 0
    BY <1>1, <1>4 DEF Rank
  <2>7. Fuel(c)' = 5 * (Cardinality(Remaining(c)) - 1) + 4
        /\ Fuel(c) = 5 * Cardinality(Remaining(c)) + 0
    BY <2>5, <2>6 DEF Fuel
  <2>8. Fuel(c)' < Fuel(c)
    BY <2>7, RemainingIsFinite
  <2> QED
    BY <1>2, <2>1, <2>8
<1> QED
  BY <1>1, <1>3, <1>4

\* The other statements of an iteration use them up.
LEMMA IterationDescends ==
    ASSUME TypeOK, FiniteInv, [Next]_vars, NEW c \in Calls,
           \/ ReconciledAs(c) \/ CreateException(c) \/ CreateEvent(c) \/ RaisedException(c)
    PROVE  StageOf(c)' > StageOf(c) \/ (StageOf(c)' = StageOf(c) /\ Fuel(c)' < Fuel(c))
<1>1. /\ pc[c] \in Busy
      /\ pc'[c] = "failing" \/ (pc'[c] \in Busy \union {"loop"} /\ Rank(pc'[c]) < Rank(pc[c]))
      /\ taken' = taken
  <2> USE DEF GoTo, TypeOK, Busy, Rank, loop
  <2>1. CASE ReconciledAs(c)
    BY <2>1 DEF ReconciledAs, NextIteration
  <2>2. CASE CreateException(c)
    BY <2>2 DEF CreateException, Continue
  <2>3. CASE CreateEvent(c)
    BY <2>3 DEF CreateEvent, Continue
  <2>4. CASE RaisedException(c)
    BY <2>4 DEF RaisedException, NextIteration
  <2> QED
    BY <2>1, <2>2, <2>3, <2>4
<1>2. StageOf(c) = 3
  BY <1>1 DEF StageOf, Ended, Busy
<1>3. CASE pc'[c] = "failing"
  BY <1>2, <1>3 DEF StageOf
<1>4. CASE pc'[c] \in Busy \union {"loop"} /\ Rank(pc'[c]) < Rank(pc[c])
  <2>1. StageOf(c)' = 3
    BY <1>4 DEF StageOf, Ended, Busy
  <2>2. Scope(c)' = Scope(c)
    BY <1>1, SnapshotStays DEF Scope, Unmatched, KeysOf, Early, Busy
  <2>3. Remaining(c)' = Remaining(c)
    BY <1>1, <2>2 DEF Remaining
  <2>4. Fuel(c)' = 5 * Cardinality(Remaining(c)) + Rank(pc'[c])
    BY <2>3 DEF Fuel
  <2>5. Fuel(c)' < Fuel(c)
    BY <1>4, <2>4, RemainingIsFinite, RankType DEF Fuel
  <2> QED
    BY <1>2, <2>1, <2>5
<1> QED
  BY <1>1, <1>3, <1>4

\* Loading, ending and dying are later stages.
LEMMA OtherStepsDescend ==
    ASSUME TypeOK, NEW c \in Calls,
           \/ GetReconRun(c) \/ LoadInternal(c) \/ LoadCustodian(c)
           \/ MarkCompleted(c) \/ MarkFailed(c) \/ Crash(c)
    PROVE  StageOf(c)' > StageOf(c)
<1> USE DEF GoTo, TypeOK, StageOf, Ended
<1>1. CASE GetReconRun(c)
  BY <1>1 DEF GetReconRun
<1>2. CASE LoadInternal(c)
  <2>1. pc[c] = "loadInternal" /\ pc'[c] \in {"loadCustodian", "failing"}
    BY <1>2 DEF LoadInternal
  <2> QED
    BY <2>1
<1>3. CASE LoadCustodian(c)
  <2>1. pc[c] = "loadCustodian" /\ pc'[c] \in {"loop", "failing"}
    BY <1>3 DEF LoadCustodian
  <2> QED
    BY <2>1
<1>4. CASE MarkCompleted(c)
  BY <1>4 DEF MarkCompleted
<1>5. CASE MarkFailed(c)
  BY <1>5 DEF MarkFailed
<1>6. CASE Crash(c)
  <2>1. pc[c] \in Working /\ pc'[c] = "crashed"
    BY <1>6 DEF Crash, Working
  <2> QED
    BY <2>1 DEF Working
<1> QED
  BY <1>1, <1>2, <1>3, <1>4, <1>5, <1>6

\* Nobody else's step gives a call more to do.
LEMMA OthersKeepFuel ==
    ASSUME TypeOK, [Next]_vars, NEW d \in Calls,
           ~(GetReconRun(d) \/ Step(d) \/ Crash(d))
    PROVE  pc'[d] = pc[d] /\ Fuel(d)' = Fuel(d)
<1>1. /\ pc'[d] = pc[d] /\ taken'[d] = taken[d]
      /\ internal'[d] = internal[d] /\ custodian'[d] = custodian[d]
  <2>1. CASE UNCHANGED vars \/ \E r \in Feed : Ingest(r)
    BY <2>1 DEF vars, snapshot, loop, Ingest
  <2>2. ASSUME NEW c \in Calls, GetReconRun(c) \/ Step(c) \/ Crash(c), c # d
        PROVE  /\ pc'[d] = pc[d] /\ taken'[d] = taken[d]
               /\ internal'[d] = internal[d] /\ custodian'[d] = custodian[d]
    BY <2>2, OthersStay, OthersKeepSnapshot
  <2> QED
    BY <2>1, <2>2 DEF Next
<1>2. Remaining(d)' = Remaining(d)
  BY <1>1 DEF Remaining, Scope, Unmatched, KeysOf
<1> QED
  BY <1>1, <1>2 DEF Fuel

\* However the statements go, a call takes at most five of them for a record it loaded, and
\* never goes back: what CallEnds rests on, whatever is written meanwhile.
THEOREM CallsComeToAnEnd == Spec => CallsDescend /\ [](\A c \in Calls : Fuel(c) \in Nat)
<1> DEFINE Descends ==
        \A c \in Calls :
            \/ pc'[c] = pc[c] /\ Fuel(c)' = Fuel(c)
            \/ StageOf(c)' > StageOf(c)
            \/ StageOf(c)' = StageOf(c) /\ Fuel(c)' < Fuel(c)
<1>1. TypeOK /\ FiniteInv /\ [Next]_vars => Descends
  BY PersistDescends, IterationDescends, OtherStepsDescend, OthersKeepFuel DEF Step
<1>2. FiniteInv => \A c \in Calls : Fuel(c) \in Nat
  BY FuelType
<1> QED
  BY <1>1, <1>2, InitFiniteInv, FiniteInvStays, EngineTypeOK, PTL DEF Spec, CallsDescend

\* A set of records has one with the smallest key.
LEMMA SmallestExists ==
    ASSUME NEW rs \in SUBSET Record, rs # {}
    PROVE  Smallest(rs) # {}
<1> DEFINE less == OpToRel(<, Nat)
           keys == KeysOf(rs)
<1>1. keys \in SUBSET Nat /\ keys # {}
  BY DEF KeysOf, Record
<1>2. less = {ss \in Nat \X Nat : ss[1] < ss[2]}
  BY DEF OpToRel
<1>3. IsWellFoundedOn(less, Nat)
  BY NatLessThanWellFounded
<1> HIDE DEF less, keys
<1>4. PICK k \in keys : \A n \in keys : ~(<<n, k>> \in less)
  BY <1>1, <1>3, WFMin, Zenon
<1>5. ASSUME NEW n \in keys PROVE k <= n
  <2>1. <<n, k>> \in Nat \X Nat
    BY <1>1
  <2>2. ~(<<n, k>>[1] < <<n, k>>[2])
    BY <1>2, <1>4, <2>1
  <2> QED
    BY <1>1, <2>2
<1>6. \A r \in rs : r.key \in keys
  BY DEF keys, KeysOf
<1>7. PICK r \in rs : r.key = k
  BY DEF keys, KeysOf
<1>8. r \in Smallest(rs)
  BY <1>5, <1>6, <1>7 DEF Smallest
<1> QED
  BY <1>8

\* A call in its loops can always go on: there is a next record, or all are taken up and
\* the run can be marked completed.  No book of records leaves the loops stuck.
THEOREM LoopsAreNeverStuck ==
    Spec => [](\A c \in Calls :
                  pc[c] = "loop" => NextRecords(c) # {} \/ Scope(c) \subseteq taken[c])
<1>1. ASSUME TypeOK, NEW c \in Calls, ~(Scope(c) \subseteq taken[c])
      PROVE  NextRecords(c) # {}
  <2>1. /\ internal[c] \ taken[c] \in SUBSET Record
        /\ Unmatched(c) \ taken[c] \in SUBSET Record
    <3>1. internal[c] \in SUBSET Record /\ custodian[c] \in SUBSET Record
      BY <1>1 DEF TypeOK
    <3>2. Unmatched(c) \subseteq custodian[c]
      BY DEF Unmatched
    <3> QED
      BY <3>1, <3>2
  <2>2. CASE internal[c] \ taken[c] # {}
    BY <2>1, <2>2, SmallestExists DEF NextRecords
  <2>3. CASE internal[c] \ taken[c] = {}
    <3>1. Unmatched(c) \ taken[c] # {}
      BY <1>1, <2>3 DEF Scope
    <3> QED
      BY <2>1, <2>3, <3>1, SmallestExists DEF NextRecords
  <2> QED
    BY <2>2, <2>3
<1>2. TypeOK => \A c \in Calls :
                    pc[c] = "loop" => NextRecords(c) # {} \/ Scope(c) \subseteq taken[c]
  BY <1>1
<1> QED
  BY <1>2, EngineTypeOK, PTL

-----------------------------------------------------------------------------
(* What a step reports. *)

\* The rows a step adds are of its call and of one entity.
RowsOf(c, e) ==
    /\ \A res \in results' \ results : res.call = c /\ res.entity = e
    /\ \A x \in exceptions' \ exceptions : x.call = c /\ x.entity = e
    /\ \A v \in events' \ events : v.call = c /\ v.entity = e

LEMMA StepRows ==
    ASSUME IInv, NEW c \in Calls, GetReconRun(c) \/ Step(c) \/ Crash(c)
    PROVE  \E e : RowsOf(c, e)
<1> USE DEF audit, Insert
<1>1. CASE PersistResult(c)
  <2>1. PICK r \in NextRecords(c) : results' \subseteq results \union {ResultOf(c, r)}
    BY <1>1 DEF PersistResult
  <2>2. ResultOf(c, r).call = c
    BY DEF ResultOf
  <2>3. RowsOf(c, ResultOf(c, r).entity)
    BY <1>1, <2>1, <2>2 DEF PersistResult, RowsOf
  <2> QED
    BY <2>3
<1>2. CASE CreateException(c)
  <2>1. exceptions' \subseteq exceptions \union {ExceptionOf(cur[c])} /\ cur[c].call = c
    BY <1>2 DEF CreateException, IInv, PlaceInv, PlaceOf, Busy
  <2>2. RowsOf(c, cur[c].entity)
    BY <1>2, <2>1 DEF CreateException, RowsOf, ExceptionOf
  <2> QED
    BY <2>2
<1>3. CASE CreateEvent(c)
  <2>1. events' \subseteq events \union {EventOf(cur[c])} /\ cur[c].call = c
    BY <1>3 DEF CreateEvent, IInv, PlaceInv, PlaceOf, Busy
  <2>2. RowsOf(c, cur[c].entity)
    BY <1>3, <2>1 DEF CreateEvent, RowsOf, EventOf
  <2> QED
    BY <2>2
<1>4. CASE results' = results /\ exceptions' = exceptions /\ events' = events
  BY <1>4 DEF RowsOf
<1>5. CASE GetReconRun(c) \/ Crash(c) \/ LoadInternal(c) \/ LoadCustodian(c) \/ ReconciledAs(c)
           \/ RaisedException(c) \/ MarkCompleted(c) \/ MarkFailed(c)
  BY <1>4, <1>5 DEF GetReconRun, Crash, LoadInternal, LoadCustodian, ReconciledAs,
                    RaisedException, MarkCompleted, MarkFailed
<1> QED
  BY <1>1, <1>2, <1>3, <1>5 DEF Step

\* A call that has not begun its loops has reported nothing.
LEMMA EarlyReportsNothing ==
    ASSUME IInv, NEW d \in Calls, pc[d] \in Early, NEW res \in results
    PROVE  res.call # d
BY DEF IInv, ResultsInv, PlaceInv, PlaceOf

\* A step of c reports no record of another call, and of c only one.
LEMMA StepReportsOne ==
    ASSUME IInv, [Next]_vars, NEW c \in Calls, NEW e, RowsOf(c, e), NEW d \in Calls,
           pc[d] \notin Early, NEW r \in Scope(d), Reported(d, r)', ~Reported(d, r)
    PROVE  d = c /\ r.id = e
<1>1. /\ ResultOf(d, r)' = ResultOf(d, r) /\ VerdictOn(d, r)' = VerdictOn(d, r)
  BY VerdictsStay DEF IInv
<1>2. /\ ResultOf(d, r).call = d /\ ResultOf(d, r).entity = r.id
      /\ ExceptionOf(ResultOf(d, r)).call = d /\ ExceptionOf(ResultOf(d, r)).entity = r.id
      /\ EventOf(ResultOf(d, r)).call = d /\ EventOf(ResultOf(d, r)).entity = r.id
  BY DEF ResultOf, ExceptionOf, EventOf
<1>3. /\ ResultOf(d, r) \in results'
      /\ VerdictOn(d, r).status = "BREAK" =>
            ExceptionOf(ResultOf(d, r)) \in exceptions' /\ EventOf(ResultOf(d, r)) \in events'
  BY <1>1 DEF Reported, Escalated, ExceptionOf, EventOf
<1> QED
  BY <1>2, <1>3 DEF Reported, Escalated, RowsOf

\* What a call that has not begun its loops has audited, before and after a step.
LEMMA EarlyAuditsNothing ==
    ASSUME IInv, NEW c \in Calls, NEW e, RowsOf(c, e), NEW d \in Calls, pc[d] \in Early,
           d # c \/ results' = results
    PROVE  auditedOf[d] = {} /\ auditedOf'[d] = {}
<1>1. \A res \in results' : res.call # d
  BY EarlyReportsNothing DEF RowsOf
<1>2. \A r : ResultOf(d, r).call = d /\ ResultOf(d, r)'.call = d
  BY DEF ResultOf
<1>3. \A r : ~Reported(d, r) /\ ~Reported(d, r)'
  BY <1>1, <1>2, EarlyReportsNothing DEF Reported
<1> QED
  BY <1>3 DEF auditedOf

\* To the ledger, a step of c is a step of c.
LEMMA LedgerOthersStay ==
    ASSUME IInv, [Next]_vars, NEW c \in Calls, GetReconRun(c) \/ Step(c) \/ Crash(c),
           NEW d \in Calls, d # c
    PROVE  phaseOf'[d] = phaseOf[d] /\ scopeOf'[d] = scopeOf[d] /\ auditedOf'[d] = auditedOf[d]
<1>1. PICK e : RowsOf(c, e)
  BY StepRows
<1>2. phaseOf'[d] = phaseOf[d]
  BY OthersStay DEF IInv, phaseOf
<1>3. scopeOf'[d] = scopeOf[d]
  BY OthersKeepSnapshot DEF IInv, scopeOf, Scope, Unmatched, KeysOf
<1>4. CASE pc[d] \in Early
  BY <1>1, <1>2, <1>3, <1>4, EarlyAuditsNothing
<1>5. CASE pc[d] \notin Early
  <2>1. \A r \in Scope(d) : Reported(d, r)' <=> Reported(d, r)
    BY <1>1, <1>5, StepReportsOne, VerdictsStay DEF IInv
  <2>2. Scope(d)' = Scope(d)
    BY <1>5, VerdictsStay DEF IInv
  <2>3. auditedOf'[d] = auditedOf[d]
    BY <2>1, <2>2 DEF auditedOf
  <2> QED
    BY <1>2, <1>3, <2>3
<1> QED
  BY <1>4, <1>5

\* What the acting call audits in a step: at most one more record of its scope.
LEMMA StepAuditsOne ==
    ASSUME IInv, IdsInv, [Next]_vars, NEW c \in Calls, GetReconRun(c) \/ Step(c) \/ Crash(c),
           pc[c] \notin Early
    PROVE  /\ scopeOf'[c] = scopeOf[c]
           /\ \/ auditedOf'[c] = auditedOf[c]
              \/ \E r \in scopeOf[c] \ auditedOf[c] : auditedOf'[c] = auditedOf[c] \union {r}
<1>1. PICK e : RowsOf(c, e)
  BY StepRows
<1>2. Scope(c)' = Scope(c) /\ \A r : Reported(c, r) => Reported(c, r)'
  BY VerdictsStay DEF IInv
<1>3. \A r \in Scope(c) : Reported(c, r)' /\ ~Reported(c, r) => r.id = e
  BY <1>1, StepReportsOne
<1>4. \A r, s \in Scope(c) : r.id = s.id => r = s
  BY LoadedIds, ScopeIsLoaded
<1>5. /\ scopeOf[c] = Scope(c) /\ scopeOf'[c] = Scope(c)
      /\ auditedOf[c] = {r \in Scope(c) : Reported(c, r)}
      /\ auditedOf'[c] = {r \in Scope(c) : Reported(c, r)'}
  BY <1>2 DEF scopeOf, auditedOf
<1>6. CASE \E r \in Scope(c) : Reported(c, r)' /\ ~Reported(c, r)
  <2>1. PICK r \in Scope(c) : Reported(c, r)' /\ ~Reported(c, r)
    BY <1>6
  <2>2. \A s \in Scope(c) : Reported(c, s)' <=> Reported(c, s) \/ s = r
    BY <1>2, <1>3, <1>4, <2>1
  <2>3. auditedOf'[c] = auditedOf[c] \union {r}
    BY <1>5, <2>1, <2>2
  <2>4. r \in scopeOf[c] \ auditedOf[c]
    BY <1>5, <2>1
  <2> QED
    BY <1>5, <2>3, <2>4
<1>7. CASE ~ \E r \in Scope(c) : Reported(c, r)' /\ ~Reported(c, r)
  BY <1>2, <1>5, <1>7
<1> QED
  BY <1>6, <1>7

\* A step that writes no result, exception or event audits nothing.
LEMMA NoRowsNoAudit ==
    ASSUME IInv, [Next]_vars, NEW c \in Calls, pc[c] \notin Early,
           results' = results, exceptions' = exceptions, events' = events
    PROVE  scopeOf'[c] = scopeOf[c] /\ auditedOf'[c] = auditedOf[c]
<1>1. Scope(c)' = Scope(c)
  BY VerdictsStay DEF IInv
<1>2. ASSUME NEW r PROVE Reported(c, r)' <=> Reported(c, r)
  <2>1. ResultOf(c, r)' = ResultOf(c, r) /\ VerdictOn(c, r)' = VerdictOn(c, r)
    BY VerdictsStay DEF IInv
  <2> QED
    BY <2>1 DEF Reported, Escalated, ExceptionOf, EventOf
<1> QED
  BY <1>1, <1>2 DEF scopeOf, auditedOf

-----------------------------------------------------------------------------
(* The refinement. *)

\* The ledger's variables change for the acting call only.
LEMMA LedgerActsOnOne ==
    ASSUME IInv, [Next]_vars, NEW c \in Calls, GetReconRun(c) \/ Step(c) \/ Crash(c)
    PROVE  /\ run' = run
           /\ phaseOf' = [phaseOf EXCEPT ![c] = phaseOf'[c]]
           /\ scopeOf' = [scopeOf EXCEPT ![c] = scopeOf'[c]]
           /\ auditedOf' = [auditedOf EXCEPT ![c] = auditedOf'[c]]
<1>1. run' = run
  BY DEF GetReconRun, Step, Crash, LoadInternal, LoadCustodian, PersistResult, ReconciledAs,
         CreateException, CreateEvent, RaisedException, MarkCompleted, MarkFailed
<1>2. \A d \in Calls : d # c =>
        phaseOf'[d] = phaseOf[d] /\ scopeOf'[d] = scopeOf[d] /\ auditedOf'[d] = auditedOf[d]
  BY LedgerOthersStay
<1>3. phaseOf' = [phaseOf EXCEPT ![c] = phaseOf'[c]]
  BY <1>2 DEF phaseOf
<1>4. scopeOf' = [scopeOf EXCEPT ![c] = scopeOf'[c]]
  BY <1>2 DEF scopeOf
<1>5. auditedOf' = [auditedOf EXCEPT ![c] = auditedOf'[c]]
  BY <1>2 DEF auditedOf
<1> QED
  BY <1>1, <1>3, <1>4, <1>5

\* Nothing the ledger sees has changed for the call, so nothing it sees has changed.
LEMMA LedgerStutters ==
    ASSUME IInv, [Next]_vars, NEW c \in Calls, GetReconRun(c) \/ Step(c) \/ Crash(c),
           runStatus' = runStatus, phaseOf'[c] = phaseOf[c], scopeOf'[c] = scopeOf[c],
           auditedOf'[c] = auditedOf[c]
    PROVE  UNCHANGED Ledger!vars
<1>1. phaseOf' = phaseOf /\ scopeOf' = scopeOf /\ auditedOf' = auditedOf
  BY LedgerOthersStay DEF phaseOf, scopeOf, auditedOf
<1> QED
  BY <1>1, LedgerActsOnOne DEF Ledger!vars

\* Loading: the scope grows from nothing, the phase goes on or opens, nothing is audited.
LEMMA LoadingIsLoad ==
    ASSUME IInv, LoadInv, [Next]_vars, NEW c \in Calls,
           GetReconRun(c) \/ LoadInternal(c) \/ LoadCustodian(c), pc'[c] # "unread"
    PROVE  Ledger!Load(c)
<1> USE DEF GoTo, snapshot, IInv, TypeOK
<1>1. pc[c] \in Early /\ phaseOf[c] = "loading"
  BY DEF GetReconRun, LoadInternal, LoadCustodian, Early, phaseOf
<1>2. pc'[c] \in {"loadInternal", "loadCustodian", "loop", "failing"}
  BY DEF GetReconRun, LoadInternal, LoadCustodian
<1>3. phaseOf'[c] \in {"loading", "open"}
  BY <1>2 DEF phaseOf
<1>4. Scope(c) \subseteq Scope(c)'
  <2>1. CASE GetReconRun(c)
    BY <2>1 DEF GetReconRun, Scope, Unmatched, KeysOf
  <2>2. CASE LoadInternal(c)
    BY <2>2 DEF LoadInternal, LoadInv, Early, Scope, Unmatched
  <2>3. CASE LoadCustodian(c)
    BY <2>3 DEF LoadCustodian, LoadInv, Early, Scope, Unmatched
  <2> QED
    BY <2>1, <2>2, <2>3
<1>5. scopeOf[c] \subseteq scopeOf'[c]
  BY <1>4 DEF scopeOf
<1>6. results' = results /\ runStatus' = runStatus
  BY DEF GetReconRun, LoadInternal, LoadCustodian, audit
<1>7. auditedOf'[c] = auditedOf[c]
  <2>1. PICK e : RowsOf(c, e)
    BY StepRows DEF Step
  <2> QED
    BY <1>1, <1>6, <2>1, EarlyAuditsNothing
<1>8. /\ run' = run
      /\ phaseOf' = [phaseOf EXCEPT ![c] = phaseOf'[c]]
      /\ scopeOf' = [scopeOf EXCEPT ![c] = scopeOf'[c]]
      /\ auditedOf' = auditedOf
  <2>1. \A d \in Calls : auditedOf'[d] = auditedOf[d]
    BY <1>7, LedgerOthersStay DEF Step
  <2> QED
    BY <2>1, LedgerActsOnOne DEF Step, auditedOf
<1> QED
  BY <1>1, <1>3, <1>5, <1>6, <1>8 DEF Ledger!Load

\* An iteration audits its record or nothing.
LEMMA IteratingIsAudit ==
    ASSUME IInv, IdsInv, [Next]_vars, NEW c \in Calls,
           \/ PersistResult(c) \/ ReconciledAs(c) \/ CreateException(c) \/ CreateEvent(c)
           \/ RaisedException(c)
    PROVE  Ledger!Audit(c) \/ UNCHANGED Ledger!vars
<1>1. Step(c) /\ pc[c] \notin Early /\ phaseOf[c] = "open"
  BY DEF Step, PersistResult, ReconciledAs, CreateException, CreateEvent, RaisedException, Early, phaseOf
<1>2. phaseOf'[c] = "open" /\ runStatus' = runStatus
  <2>1. pc'[c] \in {"resultEdge", "failing", "loop", "exception", "event", "exceptionEdge"}
    BY DEF PersistResult, ReconciledAs, CreateException, CreateEvent, RaisedException,
           GoTo, Continue, NextIteration, IInv, TypeOK
  <2>2. runStatus' = runStatus
    BY DEF PersistResult, ReconciledAs, CreateException, CreateEvent, RaisedException
  <2> QED
    BY <2>1, <2>2 DEF phaseOf
<1>3. CASE auditedOf'[c] = auditedOf[c]
  BY <1>1, <1>2, <1>3, StepAuditsOne, LedgerStutters
<1>4. CASE \E r \in scopeOf[c] \ auditedOf[c] : auditedOf'[c] = auditedOf[c] \union {r}
  <2>1. phaseOf' = phaseOf /\ scopeOf' = scopeOf
    BY <1>1, <1>2, StepAuditsOne, LedgerOthersStay DEF phaseOf, scopeOf
  <2> QED
    BY <1>1, <1>2, <1>4, <2>1, LedgerActsOnOne DEF Ledger!Audit
<1> QED
  BY <1>1, <1>3, <1>4, StepAuditsOne

\* A call that ends leaves what it loaded and reported as it is.
LEMMA EndingKeepsLedger ==
    ASSUME IInv, [Next]_vars, NEW c \in Calls,
           MarkCompleted(c) \/ MarkFailed(c) \/ Crash(c) \/ (GetReconRun(c) /\ pc'[c] = "unread")
    PROVE  /\ run' = run /\ scopeOf' = scopeOf /\ auditedOf' = auditedOf
           /\ phaseOf' = [phaseOf EXCEPT ![c] = phaseOf'[c]]
<1>1. GetReconRun(c) \/ Step(c) \/ Crash(c)
  BY DEF Step
<1>2. /\ results' = results /\ exceptions' = exceptions /\ events' = events
      /\ internal' = internal /\ custodian' = custodian
  BY DEF MarkCompleted, MarkFailed, Crash, GetReconRun, audit, snapshot
<1>3. Scope(c)' = Scope(c)
  BY <1>2 DEF Scope, Unmatched, KeysOf
<1>4. auditedOf'[c] = auditedOf[c]
  <2>1. CASE pc[c] \in Early
    BY <1>1, <1>2, <2>1, StepRows, EarlyAuditsNothing
  <2>2. CASE pc[c] \notin Early
    BY <1>2, <2>2, NoRowsNoAudit
  <2> QED
    BY <2>1, <2>2
<1>5. scopeOf' = scopeOf /\ auditedOf' = auditedOf
  BY <1>1, <1>3, <1>4, LedgerOthersStay DEF scopeOf, auditedOf
<1> QED
  BY <1>1, <1>5, LedgerActsOnOne

LEMMA CompletingIsComplete ==
    ASSUME IInv, [Next]_vars, NEW c \in Calls, MarkCompleted(c)
    PROVE  Ledger!Complete(c)
<1>1. phaseOf[c] = "open" /\ phaseOf'[c] = "completed"
  BY DEF MarkCompleted, GoTo, phaseOf, IInv, TypeOK
<1>2. auditedOf[c] = scopeOf[c]
  <2>1. cur[c] = NoResult /\ Scope(c) \subseteq taken[c]
    BY DEF MarkCompleted, IInv, PlaceInv, PlaceOf
  <2>2. \A r \in Scope(c) : Reported(c, r)
    BY <2>1, IdleCallHasReported
  <2> QED
    BY <2>2 DEF auditedOf, scopeOf
<1>3. runStatus' \in {runStatus, [runStatus EXCEPT ![run[c]] = "completed"]}
  BY DEF MarkCompleted, Mark
<1> QED
  BY <1>1, <1>2, <1>3, EndingKeepsLedger DEF Ledger!Complete

LEMMA EndingIsAbandon ==
    ASSUME IInv, [Next]_vars, NEW c \in Calls,
           MarkFailed(c) \/ Crash(c) \/ (GetReconRun(c) /\ pc'[c] = "unread")
    PROVE  Ledger!Abandon(c)
<1>1. phaseOf[c] \in {"loading", "open"} /\ phaseOf'[c] = "abandoned"
  BY DEF MarkFailed, Crash, GetReconRun, GoTo, phaseOf, IInv, TypeOK, Working
<1>2. runStatus' \in {runStatus, [runStatus EXCEPT ![run[c]] = "failed"]}
  BY DEF MarkFailed, Crash, GetReconRun, Mark
<1> QED
  BY <1>1, <1>2, EndingKeepsLedger DEF Ledger!Abandon

LEMMA StepRefines ==
    IInv /\ IdsInv /\ LoadInv /\ [Next]_vars => [Ledger!Next]_Ledger!vars
<1> SUFFICES ASSUME IInv, IdsInv, LoadInv, [Next]_vars PROVE [Ledger!Next]_Ledger!vars
  OBVIOUS
<1>1. CASE UNCHANGED vars \/ \E r \in Feed : Ingest(r)
  BY <1>1 DEF vars, Ingest, audit, snapshot, loop, Ledger!vars, phaseOf, scopeOf, auditedOf, Scope,
              Unmatched, KeysOf, Reported, Escalated, ResultOf, VerdictOn, ExceptionOf, EventOf
<1>2. ASSUME NEW c \in Calls, GetReconRun(c) \/ Step(c) \/ Crash(c)
      PROVE  [Ledger!Next]_Ledger!vars
  <2>1. CASE (GetReconRun(c) \/ LoadInternal(c) \/ LoadCustodian(c)) /\ pc'[c] # "unread"
    BY <2>1, LoadingIsLoad DEF Ledger!Next
  <2>2. CASE PersistResult(c) \/ ReconciledAs(c) \/ CreateException(c) \/ CreateEvent(c)
             \/ RaisedException(c)
    BY <2>2, IteratingIsAudit DEF Ledger!Next
  <2>3. CASE MarkCompleted(c)
    BY <2>3, CompletingIsComplete DEF Ledger!Next
  <2>4. CASE MarkFailed(c) \/ Crash(c) \/ (GetReconRun(c) /\ pc'[c] = "unread")
    BY <2>4, EndingIsAbandon DEF Ledger!Next
  <2>5. LoadInternal(c) \/ LoadCustodian(c) => pc'[c] # "unread"
    BY DEF LoadInternal, LoadCustodian, GoTo, IInv, TypeOK
  <2> QED
    BY <1>2, <2>1, <2>2, <2>3, <2>4, <2>5 DEF Step
<1> QED
  BY <1>1, <1>2 DEF Next

LEMMA InitRefines == Init => Ledger!Init
<1> SUFFICES ASSUME Init PROVE Ledger!Init
  OBVIOUS
<1>1. phaseOf = [c \in Calls |-> "loading"]
  BY DEF Init, phaseOf
<1>2. scopeOf = [c \in Calls |-> {}]
  BY DEF Init, scopeOf, Scope, Unmatched
<1>3. auditedOf = [c \in Calls |-> {}]
  BY DEF Init, auditedOf, Scope, Unmatched
<1> QED
  BY <1>1, <1>2, <1>3 DEF Init, Ledger!Init

\* Engine.Run keeps the promise of the ledger: what is audited stays audited, and a run is
\* marked completed only by a call that has audited everything it loaded.
THEOREM EngineImplementsLedger == Spec => LedgerSpec
BY InitRefines, StepRefines, LedgerInvariant, PTL DEF Spec, LedgerSpec, Ledger!Spec
=============================================================================
