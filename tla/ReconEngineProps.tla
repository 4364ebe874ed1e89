--------------------------- MODULE ReconEngineProps ---------------------------
(***************************************************************************)
(* What the calls of Engine.Run guarantee of the rows they leave in the    *)
(* database, and what the documentation says of them that they do not.     *)
(***************************************************************************)
EXTENDS ReconEngine

\* Whether a result, with the exception and the event a BREAK calls for, is in the database.
Escalated(res) == ExceptionOf(res) \in exceptions /\ EventOf(res) \in events

Reported(c, r) ==
    /\ ResultOf(c, r) \in results
    /\ VerdictOn(c, r).status = "BREAK" => Escalated(ResultOf(c, r))

\* Every record a call has to account for is reported: its internal records, and the
\* custodian records whose key none of those has.
Accounted(c) ==
    /\ \A r \in internal[c] : Reported(c, r)
    /\ \A r \in custodian[c] : (\E i \in internal[c] : i.key = r.key) \/ Reported(c, r)

TypeOK ==
    /\ records \subseteq Record
    /\ runStatus \in [Runs -> Statuses]
    /\ results \subseteq Result
    /\ exceptions \subseteq Exception
    /\ events \subseteq Event
    /\ edges \subseteq Edge
    /\ pc \in [Calls -> Places]
    /\ run \in [Calls -> Runs]
    /\ internal \in [Calls -> SUBSET Record]
    /\ custodian \in [Calls -> SUBSET Record]
    /\ DOMAIN pairing = Calls
    /\ \A c \in Calls : pairing[c] \in Pairings(custodian[c])
    /\ taken \in [Calls -> SUBSET Record]
    /\ cur \in [Calls -> Result \union {NoResult}]

-----------------------------------------------------------------------------
(* The rows. *)

\* No row refers to one that is missing or says otherwise: an exception repeats a BREAK
\* result of its call and run, an event belongs to an exception, an edge joins a result
\* or an exception that is there.
AuditChain ==
    /\ \A x \in exceptions :
          \E res \in results : res.status = "BREAK" /\ ExceptionOf(res) = x
    /\ \A e \in events : \E x \in exceptions : EventOf(x) = e
    /\ \A e \in edges :
          IF e.relation = "reconciled_as"
          THEN \E res \in results : EventOf(res) = [call |-> e.call, entity |-> e.entity]
          ELSE \E x \in exceptions : EventOf(x) = [call |-> e.call, entity |-> e.entity]

\* The rows a call has written are its report and no more: a result for each record of its
\* scope, an exception for each BREAK, an event for each exception.
OwnRows(c, rows) == {row \in rows : row.call = c}

ReportIsExact(c) ==
    /\ OwnRows(c, results) = {ResultOf(c, r) : r \in Scope(c)}
    /\ OwnRows(c, exceptions) =
           {ExceptionOf(res) : res \in {b \in OwnRows(c, results) : b.status = "BREAK"}}
    /\ OwnRows(c, events) = {EventOf(x) : x \in OwnRows(c, exceptions)}

\* A run is marked completed only by a call that has reported everything it loaded, every
\* BREAK with its exception and event, and has written nothing else; and Run returns nil
\* only then.
CompletedIsAccounted ==
    /\ \A r \in Runs : runStatus[r] = "completed" =>
          \E c \in Calls : run[c] = r /\ pc[c] \in {"succeeded", "unmarked"}
    /\ \A c \in Calls : pc[c] \in {"succeeded", "unmarked"} => Accounted(c) /\ ReportIsExact(c)

\* A call that stops early has done a prefix of its sorted records: when a record has a
\* result, all the records before it are fully reported.
Before(c, r, s) ==
    \/ r \in internal[c] /\ (s \in internal[c] => r.key < s.key)
    \/ r \notin internal[c] /\ s \notin internal[c] /\ r.key < s.key

PrefixOfOrder ==
    \A c \in Calls : \A r, s \in Scope(c) :
        Before(c, r, s) /\ ResultOf(c, s) \in results => Reported(c, r)

\* A call leaves at most one BREAK without its exception and event, the last it wrote, and
\* none once it is between two records or has done them all.
Torn(c) == {res \in results : res.call = c /\ res.status = "BREAK" /\ ~Escalated(res)}

AtMostOneTorn ==
    \A c \in Calls :
        /\ \A res \in Torn(c) : res = cur[c]
        /\ pc[c] \in {"loop", "exceptionEdge", "succeeded", "unmarked"} => Torn(c) = {}

\* A key is reported from one side: never both for an internal record and for the
\* custodian record it was compared with.
OneSidePerKey ==
    \A a, b \in results :
        a.call = b.call =>
            ~ \E i \in internal[a.call], k \in custodian[a.call] :
                 i.key = k.key /\ i.id = a.entity /\ k.id = b.entity

\* Calls that loaded the same records, no two custodian records under one key, say the same
\* of each (architecture.md:135), whatever was ingested or written since.
UniqueKeys(rs) == \A r, s \in rs : r.key = s.key => r = s

SameInputsSameVerdicts ==
    \A a, b \in results :
        /\ a.entity = b.entity
        /\ internal[a.call] = internal[b.call]
        /\ custodian[a.call] = custodian[b.call]
        /\ UniqueKeys(custodian[a.call])
        => a.status = b.status /\ a.reason = b.reason

\* The engine implements ReconLedger: a call loads until its loops begin, a record is
\* audited by the write that completes its report, and the end of the call is the
\* ledger's end.
phaseOf == [c \in Calls |->
    CASE pc[c] \in {"idle", "loadInternal", "loadCustodian"} -> "loading"
      [] pc[c] \in {"succeeded", "unmarked"} -> "completed"
      [] pc[c] \in {"unread", "failed", "crashed"} -> "abandoned"
      [] OTHER -> "open"]

scopeOf == [c \in Calls |-> Scope(c)]
auditedOf == [c \in Calls |-> {r \in Scope(c) : Reported(c, r)}]

Ledger == INSTANCE ReconLedger WITH
    status <- runStatus,
    target <- run,
    phase <- phaseOf,
    scope <- scopeOf,
    audited <- auditedOf

\* Every step of the engine is a step of the ledger or leaves the ledger as it is.
LedgerSpec == Ledger!Spec

\* How far a call is, and what an iteration has yet to do.
StageOf(c) ==
    CASE pc[c] = "idle"          -> 0
      [] pc[c] = "loadInternal"  -> 1
      [] pc[c] = "loadCustodian" -> 2
      [] pc[c] = "failing"       -> 4
      [] pc[c] \in Ended         -> 5
      [] OTHER                   -> 3

Rank(place) ==
    CASE place = "resultEdge"    -> 4
      [] place = "exception"     -> 3
      [] place = "event"         -> 2
      [] place = "exceptionEdge" -> 1
      [] OTHER                   -> 0

Remaining(c) == Scope(c) \ taken[c]

\* Five statements for each record not yet taken up, and those left of the present one.
Fuel(c) == 5 * Cardinality(Remaining(c)) + Rank(pc[c])

\* A call takes at most five statements for a record it has loaded and never goes back: no
\* statement, error or order of the records makes Run loop, and nothing that the feeds or
\* other calls write gives a call more to do than what it loaded.  This is why CallEnds.
CallsDescend ==
    [][\A c \in Calls :
          \/ pc'[c] = pc[c] /\ Fuel(c)' = Fuel(c)
          \/ StageOf(c)' > StageOf(c)
          \/ StageOf(c)' = StageOf(c) /\ Fuel(c)' < Fuel(c)]_vars

\* A call that has started ends.
CallEnds == \A c \in Calls : pc[c] \in Working ~> pc[c] \in Ended

-----------------------------------------------------------------------------
(* What the documentation says, and the code does not do. *)

\* reason-codes.md:95 and architecture.md:110: a BREAK creates an exception.  When its call
\* stops after the result, it does not, and nothing makes up for it.
BreakHasException ==
    \A res \in results :
        res.status = "BREAK" /\ pc[res.call] \in Ended => ExceptionOf(res) \in exceptions

\* architecture.md:135: the same inputs produce the same outputs.  With two custodian
\* records under one key the output depends on the order in which the database lists them.
Deterministic ==
    \A a, b \in results :
        /\ a.entity = b.entity
        /\ internal[a.call] = internal[b.call]
        /\ custodian[a.call] = custodian[b.call]
        => a.status = b.status /\ a.reason = b.reason
=============================================================================
