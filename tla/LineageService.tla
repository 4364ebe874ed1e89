---------------------------- MODULE LineageService ----------------------------
(***************************************************************************)
(* A lineage query (internal/lineage/service.go) beside the engine that is *)
(* still writing the rows it reads.                                        *)
(*                                                                         *)
(* The query reads one table after the other, each by a statement of its   *)
(* own, and adds what it finds to a graph: nodes for the rows, edges for   *)
(* what led to what.  It does not read lineage_edges: it finds everything  *)
(* by the ids and keys of the rows.  Only the first reads can fail it; any *)
(* other that fails is passed over, and nothing in the graph tells.        *)
(*                                                                         *)
(* A query writes nothing and queries share nothing, so one is enough.     *)
(* The end of its context lets every read that is left fail.  Ids are      *)
(* unique across the tables, so sets of nodes and edges do what the maps   *)
(* of graphBuilder do.                                                     *)
(***************************************************************************)
EXTENDS ReconQueries

CONSTANTS
    Batches,   \* ingestion_batches
    Raws,      \* raw_records
    BatchOf,   \* batch_id of each position and transaction
    RawsOf,    \* the raw records of each batch
    LotExceptions   \* exceptions of tax lots: db/seed.sql has one, no code raises any

NoBatch == NoReason   \* a NULL batch_id

ASSUME LineageAssumption ==
    /\ NoBatch \notin Batches
    /\ BatchOf \in [Ids -> Batches \union {NoBatch}]
    /\ RawsOf \in [Batches -> SUBSET Raws]
    /\ NoReason \notin Calls
    /\ LotExceptions \subseteq [call : {NoReason}, run : Runs, type : {"tax_lot"}, entity : Ids]

VARIABLES
    place,     \* where the query is
    subject,   \* the position, transaction or tax lot it is about
    root,      \* the exception it started from, if any
    nodes,     \* graphBuilder's nodeMap
    links,     \* graphBuilder's edgeSet
    skipped,   \* the reads that failed and were passed over
    before     \* the subject's rows when the query started

query == <<place, subject, root, nodes, links, skipped, before>>

-----------------------------------------------------------------------------
(* Nodes and edges. *)

NodeTypes == {"ingestion_batch", "raw_record", "position", "transaction",
              "recon_result", "exception", "trust_score"}

\* Rows that the engine did not write have no call.
Node(type, call, id) == [type |-> type, call |-> call, id |-> id]

BatchNode(b) == Node("ingestion_batch", NoReason, b)
RawNode(r) == Node("raw_record", NoReason, r)
EntityNode(row) == Node(row.type, NoReason, row.entity)
ResultNode(res) == Node("recon_result", res.call, res.entity)
ExceptionNode(x) == Node("exception", x.call, x.entity)
ScoreNode(row) == Node("trust_score", NoReason, row.entity)

Link(from, to, type) == [from |-> from, to |-> to, type |-> type]
LinksTo(tos, from, type) == {Link(from, to, type) : to \in tos}
LinksFrom(froms, to, type) == {Link(from, to, type) : from \in froms}

\* A request by an entity's type and id names no row but the entity's.
NoRoot == NoResult
Subject(type, id) == [type |-> type, entity |-> id]

-----------------------------------------------------------------------------
(* The rows about an entity. *)

BatchNodes(row) == {BatchNode(b) : b \in {BatchOf[row.entity]} \ {NoBatch}}

RawNodes(row) ==
    UNION {{RawNode(r) : r \in RawsOf[b]} : b \in {BatchOf[row.entity]} \ {NoBatch}}

\* ListReconResultsForEntity
ResultNodes(row) ==
    {ResultNode(res) : res \in {r \in results : r.type = row.type /\ r.entity = row.entity}}

\* ListExceptionsForEntity
ExceptionNodes(row) ==
    {ExceptionNode(x) : x \in {y \in exceptions \union LotExceptions :
                                   y.type = row.type /\ y.entity = row.entity}}

\* GetTrustScoreForEntity: only an entity with a result or an exception may have a score.
ScoreNodes(row) == {ScoreNode(row) : n \in ResultNodes(row) \union ExceptionNodes(row)}

-----------------------------------------------------------------------------
Goto(where) == place' = where

\* What the query adds to the graph.
Add(newNodes, newLinks) ==
    /\ nodes' = nodes \union newNodes
    /\ links' = links \union newLinks
    /\ UNCHANGED <<subject, root, skipped, before>>

\* if err != nil { return }
Skip(read) ==
    /\ skipped' = skipped \union {read}
    /\ UNCHANGED <<subject, root, nodes, links, before>>

\* The read fails the query.
Fail ==
    /\ Goto("failed")
    /\ UNCHANGED <<subject, root, nodes, links, skipped, before>>

Chain(row) ==
    BatchNodes(row) \union RawNodes(row) \union ResultNodes(row) \union ExceptionNodes(row)

\* The switch over the type of the entity: it has no case for a tax lot, about which
\* nothing is read.
Ask(row, exception, found) ==
    /\ subject' = Subject(row.type, row.entity)
    /\ root' = exception
    /\ nodes' = found
    /\ before' = Chain(row)
    /\ Goto(IF row.type = "tax_lot" THEN "link" ELSE "entity")
    /\ UNCHANGED <<links, skipped>>

\* An entity type that is not supported is an error; an unknown id fails in LoadEntity.
GetLineageForEntity ==
    /\ place = "idle"
    /\ \E r \in {x \in records : x.type # "tax_lot"} : Ask(Subject(r.type, r.id), NoRoot, {})
    /\ UNCHANGED vars

\* GetLineageForException: the exception; then it goes on as for its entity.
GetException ==
    /\ place = "idle"
    /\ \/ \E x \in exceptions \union LotExceptions : Ask(x, x, {ExceptionNode(x)})
       \/ Fail
    /\ UNCHANGED vars

\* The head of addPositionLineage and addTransactionLineage.
LoadEntity ==
    /\ place = "entity"
    /\ \/ /\ RecordsOf(subject) # {}
          /\ Add({EntityNode(subject)}, {})
          /\ Goto(IF BatchOf[subject.entity] = NoBatch THEN "results" ELSE "raw")
       \/ Fail
    /\ UNCHANGED vars

\* Fault: err is logged and nothing returned.
AddRawRecords_NoReturn ==
    /\ place = "raw"
    /\ \/ Add(RawNodes(subject),
              LinksFrom(RawNodes(subject), EntityNode(subject), "normalized_to"))
       \/ Skip("raw")
    /\ Goto("batch")
    /\ UNCHANGED vars

\* addRawRecords: the raw records, and if they cannot be read no batch.
AddRawRecords ==
    /\ place = "raw"
    /\ \/ /\ Add(RawNodes(subject),
                 LinksFrom(RawNodes(subject), EntityNode(subject), "normalized_to"))
          /\ Goto("batch")
       \/ /\ Skip("raw")
          /\ Goto("results")
    /\ UNCHANGED vars

AddBatch ==
    /\ place = "batch"
    /\ \/ Add(BatchNodes(subject),
              UNION {LinksTo(RawNodes(subject), b, "contains") : b \in BatchNodes(subject)})
       \/ Skip("batch")
    /\ Goto("results")
    /\ UNCHANGED vars

\* Fault: the edges are added and the nodes are not.
AddReconResults_NoNodes ==
    /\ place = "results"
    /\ \/ Add({}, LinksTo(ResultNodes(subject), EntityNode(subject), "reconciled_as"))
       \/ Skip("results")
    /\ Goto("exceptions")
    /\ UNCHANGED vars

\* Fault: only what needs investigation is listed.
AddReconResults_Breaks ==
    /\ place = "results"
    /\ LET found == {ResultNode(res) : res \in {r \in results : r.status = "BREAK"}}
                       \intersect ResultNodes(subject)
       IN  \/ Add(found, LinksTo(found, EntityNode(subject), "reconciled_as"))
           \/ Skip("results")
    /\ Goto("exceptions")
    /\ UNCHANGED vars

\* addReconResultsForEntity
AddReconResults ==
    /\ place = "results"
    /\ \/ Add(ResultNodes(subject),
              LinksTo(ResultNodes(subject), EntityNode(subject), "reconciled_as"))
       \/ Skip("results")
    /\ Goto("exceptions")
    /\ UNCHANGED vars

\* addExceptionsForEntity
AddExceptions ==
    /\ place = "exceptions"
    /\ \/ Add(ExceptionNodes(subject),
              LinksTo(ExceptionNodes(subject), EntityNode(subject), "raised_exception"))
       \/ Skip("exceptions")
    /\ Goto("score")
    /\ UNCHANGED vars

\* addTrustScore, which GetLineageForException calls once more at its end.  That there is
\* no score and that the read fails are the same to it.
AddTrustScore ==
    /\ \/ place = "score" /\ Goto(IF root = NoRoot THEN "done" ELSE "link")
       \/ place = "scoreAgain" /\ Goto("done")
    /\ \/ Add(ScoreNodes(subject),
              LinksTo(ScoreNodes(subject), EntityNode(subject), "scored_as"))
       \/ Add({}, {})
    /\ UNCHANGED vars

\* GetReconResultForException; the exception of a tax lot came with its result.
FoundFor(x) ==
    {ResultNode(res) : res \in ResultsFor(x)} \union {ResultNode(y) : y \in {x} \intersect LotExceptions}

Linked(froms) ==
    /\ Add({}, LinksFrom(froms \union {EntityNode(subject)}, ExceptionNode(root),
                         "raised_exception"))
    /\ Goto("scoreAgain")
    /\ UNCHANGED vars

\* Fault: err is not looked at.
LinkException_ZeroResult ==
    /\ place = "link"
    /\ \/ \E n \in FoundFor(root) : Linked({n})
       \/ Linked({Node("recon_result", NoReason, NoReason)})

\* Fault: only the recon result is linked, as the entity has been.
LinkException_NoEntity ==
    /\ place = "link"
    /\ \/ \E n \in FoundFor(root) : Add({}, {Link(n, ExceptionNode(root), "raised_exception")})
       \/ Add({}, {})
    /\ Goto("scoreAgain")
    /\ UNCHANGED vars

\* Fault: the result is looked for by the entity alone.
LinkException_AnyRun ==
    /\ place = "link"
    /\ \/ \E res \in {r \in results : r.entity = root.entity} : Linked({ResultNode(res)})
       \/ Linked({})

\* The entity and, if it is found, a result of the run are linked to the exception.
LinkException ==
    /\ place = "link"
    /\ \/ \E n \in FoundFor(root) : Linked({n})
       \/ Linked({})

Query ==
    \/ GetLineageForEntity \/ GetException \/ LoadEntity \/ AddRawRecords \/ AddBatch
    \/ AddReconResults \/ AddExceptions \/ AddTrustScore \/ LinkException

LineageInit ==
    /\ Init
    /\ place = "idle"
    /\ subject = NoRoot
    /\ root = NoRoot
    /\ nodes = {} /\ links = {} /\ skipped = {} /\ before = {}

LineageNext ==
    \/ Next /\ UNCHANGED query
    \/ Query

LineageSpec == LineageInit /\ [][LineageNext]_<<vars, query>>
=============================================================================
