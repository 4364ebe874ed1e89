----------------------------- MODULE LineageProps -----------------------------
(* What the graph of a lineage query promises. *)
EXTENDS LineageService

Stops == {"idle", "entity", "raw", "batch", "results", "exceptions", "score", "link",
            "scoreAgain", "done", "failed"}

\* An edge may start at a tax lot, which is never a node.
GraphNode == [type : NodeTypes, call : Calls \union {NoReason}, id : Ids \union Batches \union Raws]
Source == GraphNode \union [type : {"tax_lot"}, call : {NoReason}, id : Ids]

\* Which types of rows each type of edge connects.
Ends(type) ==
    CASE type = "contains"         -> {"ingestion_batch"} \X {"raw_record"}
      [] type = "normalized_to"    -> {"raw_record"} \X {"position", "transaction"}
      [] type = "reconciled_as"    -> {"position", "transaction"} \X {"recon_result"}
      [] type = "raised_exception" -> (EntityTypes \union {"recon_result"}) \X {"exception"}
      [] type = "scored_as"        -> EntityTypes \X {"trust_score"}

EdgeTypes == {"contains", "normalized_to", "reconciled_as", "raised_exception", "scored_as"}

\* The query's state is well formed, and each edge connects rows of the types it is for
\* (lineage.go's LineageEdge, the edge types of service.go).
LineageTypeOK ==
    /\ place \in Stops
    /\ subject \in [type : EntityTypes, entity : Ids] \union {NoRoot}
    /\ root \in Exception \union LotExceptions \union {NoRoot}
    /\ nodes \subseteq GraphNode
    /\ links \subseteq [from : Source, to : GraphNode, type : EdgeTypes]
    /\ \A l \in links : <<l.from.type, l.to.type>> \in Ends(l.type)

\* Every row that was there when the query started is in its graph, and every row in its
\* graph is there: reading the tables one after the other, while the engine adds rows,
\* neither loses nor makes up any, unless a read failed.  About a tax lot nothing is read:
\* the graph of its exception has that and the score.
GraphIsInBetween ==
    place = "done" =>
        /\ skipped = {} /\ subject.type # "tax_lot" => before \subseteq nodes
        /\ nodes \subseteq Chain(subject) \union ScoreNodes(subject) \union {EntityNode(subject)}
        /\ subject.type = "tax_lot" => nodes \subseteq {ExceptionNode(root)} \union ScoreNodes(subject)

\* LineageEdge "connects two nodes in the lineage graph".  An edge of GetLineageForException
\* may start at a row that the graph does not have: at a result when the listing of the
\* results failed or when the result is another call's that worked on the same run, and at
\* anything when the exception is of a tax lot, which the service does not load.
DanglesOnlyForExceptions ==
    \A l \in links :
        /\ l.to \in nodes
        /\ \/ l.from \in nodes
           \/ root # NoRoot /\ subject.type = "tax_lot"
           \/ /\ root # NoRoot /\ l.to = ExceptionNode(root)
              /\ "results" \in skipped \/ l.from.call # root.call

\* The only row that a finished graph may have apart is a batch without raw records.  Every
\* other one is linked to the entity, and a batch is linked to its raw records, all of which
\* are there, and to nothing else, whatever reads were passed over.
OnlyEmptyBatchesStandApart ==
    place = "done" =>
        \A n \in nodes \ {EntityNode(subject)} :
            IF n.type = "ingestion_batch"
            THEN /\ RawNodes(subject) \subseteq nodes
                 /\ {l \in links : n \in {l.from, l.to}} = LinksTo(RawNodes(subject), n, "contains")
            ELSE \E l \in links : {l.from, l.to} = {n, EntityNode(subject)}

\* The result that GetLineageForException shows as the origin of the exception is the BREAK
\* it was raised for, unless several calls worked on the run.
RaisedByItsBreak ==
    \A l \in links, res \in results :
        /\ l.from = ResultNode(res) /\ l.type = "raised_exception"
        /\ ~Mixed(root)
        => res.status = "BREAK" /\ ExceptionOf(res) = root
=============================================================================
