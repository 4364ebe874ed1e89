----------------------------- MODULE LineageProof -----------------------------
(***************************************************************************)
(* Proofs about the graph of a lineage query, for any number of engine     *)
(* calls, whatever reads are passed over.                                  *)
(*                                                                         *)
(* The query leaves the engine's variables alone, so the engine's          *)
(* invariants hold beside it.  The query's own invariant has a part for    *)
(* the graph at any place (every node is a row of the subject and hangs    *)
(* on it, every edge is sound) and a part for each place (the tables read  *)
(* so far are in the graph, or a read was passed over).  The graph of the  *)
(* exception of a tax lot has an invariant of its own: all it may have is  *)
(* known from the start.                                                   *)
(***************************************************************************)
EXTENDS LineageProps, ReconEngineProof

Subjects == [type : {"position", "transaction"}, entity : Ids]
Lots == [type : {"tax_lot"}, entity : Ids]

\* All the nodes there may be about a row.
Whole(row) == Chain(row) \union ScoreNodes(row) \union {EntityNode(row)}

\* An edge between two nodes of the graph, of the types it is for.
Ordinary(l) ==
    /\ l.from \in nodes
    /\ <<l.from.type, l.to.type>> \in Ends(l.type)
    /\ l.type = "raised_exception" => l.from.type # "recon_result"

\* The edge to the root from a result of its run.
Origin(l) ==
    /\ l.type = "raised_exception"
    /\ root # NoRoot /\ l.to = ExceptionNode(root)
    /\ \E res \in ResultsFor(root) :
          /\ l.from = ResultNode(res)
          /\ l.from \in nodes \/ "results" \in skipped \/ res.call # root.call

LinkSet == [from : Source, to : GraphNode, type : EdgeTypes]

Sound(l) == l \in LinkSet /\ l.to \in nodes /\ (Ordinary(l) \/ Origin(l))

\* A node is linked to the subject, the root only at the end.
Hangs(n) ==
    \/ n = EntityNode(subject)
    \/ root # NoRoot /\ n = ExceptionNode(root) /\ place \notin {"scoreAgain", "done"}
    \/ /\ n.type = "ingestion_batch" /\ RawNodes(subject) \subseteq nodes
       /\ \A r \in RawNodes(subject) : Link(n, r, "contains") \in links
    \/ n.type # "ingestion_batch" /\ \E l \in links : {l.from, l.to} = {n, EntityNode(subject)}

GraphInv ==
    /\ nodes \subseteq Whole(subject)
    /\ \A l \in links : Sound(l)
    /\ \A n \in nodes : Hangs(n)

AskInv ==
    /\ place \in Stops
    /\ root # NoRoot => root \in exceptions \union LotExceptions /\ subject = Subject(root.type, root.entity)
    /\ place = "idle" => root = NoRoot /\ links = {} /\ skipped = {}
    /\ place \in {"idle", "failed"} \/ subject \in Subjects \union Lots
    /\ subject \in Subjects \union Lots \/ (subject = NoRoot /\ nodes = {})

PastResults == {"exceptions", "score", "link", "scoreAgain", "done"}
PastExceptions == PastResults \ {"exceptions"}
PastBatch == PastResults \union {"results"}
PastRaw == PastBatch \union {"batch"}
PastEntity == PastRaw \union {"raw"}

ReadInv ==
    /\ place \in PastEntity => EntityNode(subject) \in nodes
    /\ root # NoRoot => ExceptionNode(root) \in nodes
    /\ place = "batch" => RawNodes(subject) \subseteq nodes
    /\ subject \in Subjects => before \subseteq Chain(subject)
    /\ skipped = {} =>
          /\ place \in PastRaw => RawNodes(subject) \subseteq nodes
          /\ place \in PastBatch => BatchNodes(subject) \subseteq nodes
          /\ place \in PastResults => \A n \in before : n.type = "recon_result" => n \in nodes
          /\ place \in PastExceptions => \A n \in before : n.type = "exception" => n \in nodes
    /\ root # NoRoot /\ place \in PastResults /\ "results" \notin skipped =>
          Node("recon_result", root.call, root.entity) \in nodes
    /\ place \in {"link", "scoreAgain"} => root # NoRoot

\* The edges there may be about a tax lot: from it and from the result it came with.
LotLinks ==
    {Link(EntityNode(subject), ExceptionNode(root), "raised_exception"),
     Link(ResultNode(root), ExceptionNode(root), "raised_exception"),
     Link(EntityNode(subject), ScoreNode(subject), "scored_as")}

LotInv ==
    /\ root \in LotExceptions /\ place \in {"link", "scoreAgain", "done"}
    /\ ExceptionNode(root) \in nodes
    /\ nodes \subseteq {ExceptionNode(root), ScoreNode(subject)}
    /\ links \subseteq LotLinks
    /\ \A l \in links : l.to \in nodes
    /\ place # "link" => Link(EntityNode(subject), ExceptionNode(root), "raised_exception") \in links
    /\ ScoreNode(subject) \in nodes =>
           Link(EntityNode(subject), ScoreNode(subject), "scored_as") \in links

QueryInv ==
    /\ AskInv
    /\ subject \in Subjects => GraphInv /\ ReadInv
    /\ subject \in Lots => LotInv
    /\ subject \notin Subjects \union Lots => links = {}

-----------------------------------------------------------------------------
(* The engine beside the query. *)

LEMMA QueryStepsAreEngineSteps == [LineageNext]_<<vars, query>> => [Next]_vars
BY DEF LineageNext, Query, GetLineageForEntity, GetException, LoadEntity, AddRawRecords, AddBatch,
       AddReconResults, AddExceptions, AddTrustScore, LinkException, Linked

THEOREM EngineBesideQuery == LineageSpec => [](IInv /\ IdsInv)
<1>1. LineageInit => Init
  BY DEF LineageInit
<1>2. [LineageNext]_<<vars, query>> => [Next]_vars
  BY QueryStepsAreEngineSteps
<1> QED
  BY <1>1, <1>2, RecordIdentity, PTL DEF LineageSpec, Spec

THEOREM EngineSupports == LineageSpec => [](IInv /\ IdsInv /\ SupportedInv)
<1>1. LineageInit => SupportedInv
  BY InitSupportedInv DEF LineageInit
<1>2. IInv /\ SupportedInv /\ [LineageNext]_<<vars, query>> => SupportedInv'
  BY QueryStepsAreEngineSteps, SupportedInvStays DEF IInv
<1> QED
  BY <1>1, <1>2, EngineBesideQuery, PTL DEF LineageSpec

-----------------------------------------------------------------------------
(* Nodes and edges. *)

LEMMA NodeParts ==
    \A type, call, id :
        /\ Node(type, call, id).type = type
        /\ Node(type, call, id).call = call
        /\ Node(type, call, id).id = id
BY DEF Node

LEMMA LinkParts ==
    \A from, to, type :
        /\ Link(from, to, type).from = from
        /\ Link(from, to, type).to = to
        /\ Link(from, to, type).type = type
BY DEF Link

LEMMA NodeIsNode ==
    \A type \in NodeTypes, call \in Calls \union {NoReason}, id \in Ids \union Batches \union Raws :
        Node(type, call, id) \in GraphNode
BY DEF Node, GraphNode

LEMMA LinkIsLink ==
    \A from \in GraphNode, to \in GraphNode, type \in EdgeTypes : Link(from, to, type) \in LinkSet
BY DEF Link, LinkSet, Source

\* What each of the rows of a subject is as a node.
LEMMA NodesOfSubject ==
    ASSUME TypeOK, subject \in Subjects
    PROVE  /\ EntityNode(subject) \in GraphNode
           /\ EntityNode(subject).type \in {"position", "transaction"}
           /\ \A n \in BatchNodes(subject) : n \in GraphNode /\ n.type = "ingestion_batch"
           /\ \A n \in RawNodes(subject) : n \in GraphNode /\ n.type = "raw_record"
           /\ \A n \in ResultNodes(subject) : n \in GraphNode /\ n.type = "recon_result"
           /\ \A n \in ExceptionNodes(subject) : n \in GraphNode /\ n.type = "exception"
           /\ \A n \in ScoreNodes(subject) : n \in GraphNode /\ n.type = "trust_score"
<1>1. subject.type \in {"position", "transaction"} /\ subject.entity \in Ids
  BY DEF Subjects
<1>2. EntityNode(subject) \in GraphNode /\ EntityNode(subject).type \in {"position", "transaction"}
  BY <1>1, NodeParts, NodeIsNode DEF EntityNode, NodeTypes
<1>3. BatchOf[subject.entity] \in Batches \union {NoBatch}
  BY <1>1, LineageAssumption
<1>4. \A n \in BatchNodes(subject) : n \in GraphNode /\ n.type = "ingestion_batch"
  BY <1>3, NodeParts, NodeIsNode DEF BatchNodes, BatchNode, NodeTypes
<1>5. \A n \in RawNodes(subject) : n \in GraphNode /\ n.type = "raw_record"
  <2>1. \A b \in Batches : RawsOf[b] \subseteq Raws
    BY LineageAssumption
  <2>2. \A r \in Raws : RawNode(r) \in GraphNode /\ RawNode(r).type = "raw_record"
    BY NodeParts, NodeIsNode DEF RawNode, NodeTypes
  <2> QED
    BY <1>3, <2>1, <2>2 DEF RawNodes
<1>6. \A n \in ResultNodes(subject) : n \in GraphNode /\ n.type = "recon_result"
  <2>1. \A res \in results : ResultNode(res) \in GraphNode /\ ResultNode(res).type = "recon_result"
    BY NodeParts, NodeIsNode DEF ResultNode, NodeTypes, TypeOK, Result
  <2> QED
    BY <2>1 DEF ResultNodes
<1>7. \A n \in ExceptionNodes(subject) : n \in GraphNode /\ n.type = "exception"
  <2>1. \A x \in exceptions : ExceptionNode(x) \in GraphNode /\ ExceptionNode(x).type = "exception"
    BY NodeParts, NodeIsNode DEF ExceptionNode, NodeTypes, TypeOK, Exception
  <2>2. \A x \in LotExceptions : x.type # subject.type
    BY <1>1, LineageAssumption
  <2> QED
    BY <2>1, <2>2 DEF ExceptionNodes
<1>8. \A n \in ScoreNodes(subject) : n \in GraphNode /\ n.type = "trust_score"
  BY <1>1, NodeParts, NodeIsNode DEF ScoreNodes, ScoreNode, NodeTypes
<1> QED
  BY <1>2, <1>4, <1>5, <1>6, <1>7, <1>8

\* The rows of a subject only become more.
LEMMA RowsGrow ==
    ASSUME subject' = subject, root' = root, results \subseteq results', exceptions \subseteq exceptions'
    PROVE  /\ EntityNode(subject)' = EntityNode(subject)
           /\ BatchNodes(subject)' = BatchNodes(subject)
           /\ RawNodes(subject)' = RawNodes(subject)
           /\ ResultNodes(subject) \subseteq ResultNodes(subject)'
           /\ ExceptionNodes(subject) \subseteq ExceptionNodes(subject)'
           /\ Chain(subject) \subseteq Chain(subject)'
           /\ Whole(subject) \subseteq Whole(subject)'
           /\ ResultsFor(root) \subseteq ResultsFor(root)'
<1>1. EntityNode(subject)' = EntityNode(subject)
  BY DEF EntityNode
<1>2. BatchNodes(subject)' = BatchNodes(subject) /\ RawNodes(subject)' = RawNodes(subject)
  BY DEF BatchNodes, RawNodes
<1>3. ResultNodes(subject) \subseteq ResultNodes(subject)'
  BY DEF ResultNodes
<1>4. ExceptionNodes(subject) \subseteq ExceptionNodes(subject)'
  BY DEF ExceptionNodes
<1>5. ScoreNodes(subject) \subseteq ScoreNodes(subject)'
  <2>1. ScoreNode(subject)' = ScoreNode(subject)
    BY DEF ScoreNode
  <2> QED
    BY <1>3, <1>4, <2>1 DEF ScoreNodes
<1>6. Chain(subject) \subseteq Chain(subject)'
  BY <1>2, <1>3, <1>4 DEF Chain
<1>7. Whole(subject) \subseteq Whole(subject)'
  BY <1>1, <1>5, <1>6 DEF Whole
<1>8. ResultsFor(root) \subseteq ResultsFor(root)'
  BY DEF ResultsFor
<1> QED
  BY <1>1, <1>2, <1>3, <1>4, <1>6, <1>7, <1>8

\* An edge stays sound while the graph and the tables grow.
LEMMA SoundStays ==
    ASSUME root' = root, results \subseteq results', nodes \subseteq nodes', skipped \subseteq skipped',
           NEW l, Sound(l)
    PROVE  Sound(l)'
<1>1. ResultsFor(root) \subseteq ResultsFor(root)'
  BY DEF ResultsFor
<1>2. Ordinary(l) => Ordinary(l)'
  BY DEF Ordinary
<1>3. Origin(l) => Origin(l)'
  BY <1>1 DEF Origin
<1> QED
  BY <1>2, <1>3 DEF Sound

-----------------------------------------------------------------------------
(* The graph, whatever is added to it. *)

Settled == {"scoreAgain", "done"}

LEMMA HangsStays ==
    ASSUME subject' = subject, root' = root, nodes \subseteq nodes', links \subseteq links',
           place' \in Settled => place \in Settled,
           NEW n, Hangs(n)
    PROVE  Hangs(n)'
<1>1. EntityNode(subject)' = EntityNode(subject) /\ RawNodes(subject)' = RawNodes(subject)
  BY DEF EntityNode, RawNodes
<1> QED
  BY <1>1 DEF Hangs, Settled

\* The root hangs on the subject before it has to: then every node goes on hanging.
LEMMA HangsAtTheEnd ==
    ASSUME subject' = subject, root' = root, nodes \subseteq nodes', links \subseteq links',
           NEW n, Hangs(n),
           root # NoRoot => Hangs(ExceptionNode(root))'
    PROVE  Hangs(n)'
<1>1. EntityNode(subject)' = EntityNode(subject) /\ RawNodes(subject)' = RawNodes(subject)
  BY DEF EntityNode, RawNodes
<1> QED
  BY <1>1 DEF Hangs

LEMMA GraphGrows ==
    ASSUME GraphInv, subject' = subject, root' = root,
           results \subseteq results', exceptions \subseteq exceptions',
           nodes \subseteq nodes', links \subseteq links', skipped \subseteq skipped',
           \A n \in nodes' \ nodes : n \in Whole(subject) /\ Hangs(n)',
           \A l \in links' \ links : Sound(l)',
           \/ place' \in Settled => place \in Settled
           \/ root # NoRoot => Hangs(ExceptionNode(root))'
    PROVE  GraphInv'
<1>1. Whole(subject) \subseteq Whole(subject)'
  BY RowsGrow
<1>2. nodes' \subseteq Whole(subject)'
  BY <1>1 DEF GraphInv
<1>3. \A l \in links' : Sound(l)'
  BY SoundStays DEF GraphInv
<1>4. \A n \in nodes' : Hangs(n)'
  BY HangsStays, HangsAtTheEnd DEF GraphInv
<1> QED
  BY <1>2, <1>3, <1>4 DEF GraphInv

\* The engine adds rows to the tables and none to the graph.
LEMMA EngineStepKeepsQuery ==
    ASSUME QueryInv, [Next]_vars, UNCHANGED query
    PROVE  QueryInv'
<1>1. results \subseteq results' /\ exceptions \subseteq exceptions'
  BY RowsStay
<1>2. /\ place' = place /\ subject' = subject /\ root' = root /\ nodes' = nodes
      /\ links' = links /\ skipped' = skipped /\ before' = before
  BY DEF query
<1>3. AskInv'
  BY <1>1, <1>2 DEF QueryInv, AskInv
<1>4. subject \in Subjects => GraphInv'
  BY <1>1, <1>2, GraphGrows DEF QueryInv
<1>5. subject \in Subjects => ReadInv'
  <2>1. /\ EntityNode(subject)' = EntityNode(subject)
        /\ BatchNodes(subject)' = BatchNodes(subject)
        /\ RawNodes(subject)' = RawNodes(subject)
        /\ Chain(subject) \subseteq Chain(subject)'
    BY <1>1, <1>2, RowsGrow
  <2>2. ExceptionNode(root)' = ExceptionNode(root)
    BY <1>2
  <2>3. subject \in Subjects => ReadInv
    BY DEF QueryInv
  <2> QED
    BY <1>2, <2>1, <2>2, <2>3 DEF ReadInv
<1>6. LotInv => LotInv'
  BY <1>2 DEF LotInv, LotLinks, EntityNode
<1> QED
  BY <1>2, <1>3, <1>4, <1>5, <1>6 DEF QueryInv

-----------------------------------------------------------------------------
(* The steps of the query. *)

LEMMA SubjectOfException ==
    ASSUME IInv, SupportedInv, NEW x \in exceptions
    PROVE  x.type # "tax_lot" /\ Subject(x.type, x.entity) \in Subjects
<1>1. x \in Exception
  BY DEF IInv, TypeOK
<1>2. PICK res \in results : ExceptionOf(res) = x
  BY DEF IInv, AuditChain
<1>3. x.type # "tax_lot"
  BY <1>2 DEF ExceptionOf, SupportedInv
<1> QED
  BY <1>1, <1>3 DEF Subject, Subjects, Exception, EntityTypes

LEMMA AskKeepsQuery ==
    ASSUME IInv, SupportedInv, QueryInv, GetLineageForEntity \/ GetException
    PROVE  QueryInv'
<1>1. /\ results' = results /\ exceptions' = exceptions /\ place = "idle"
      /\ root = NoRoot /\ links = {} /\ skipped = {}
  BY DEF GetLineageForEntity, GetException, vars, audit, QueryInv, AskInv
<1>2. CASE Fail
  <2>1. /\ place' = "failed" /\ subject' = subject /\ root' = root /\ nodes' = nodes
        /\ links' = links /\ skipped' = skipped /\ before' = before
    BY <1>2 DEF Fail, Goto
  <2>2. AskInv'
    BY <1>1, <2>1 DEF QueryInv, AskInv, Stops
  <2>3. subject \in Subjects => GraphInv'
    BY <1>1, <2>1, GraphGrows DEF QueryInv, Settled
  <2>4. subject \in Subjects => before \subseteq Chain(subject)'
    BY <1>1, <2>1, RowsGrow DEF QueryInv, ReadInv
  <2>5. subject \in Subjects => ReadInv'
    BY <1>1, <2>1, <2>4 DEF ReadInv, PastEntity, PastRaw, PastBatch, PastResults, PastExceptions
  <2>6. subject \notin Lots
    BY <1>1 DEF QueryInv, LotInv
  <2> QED
    BY <1>1, <2>1, <2>2, <2>3, <2>5, <2>6 DEF QueryInv
<1>3. ASSUME NEW r \in records, r.type # "tax_lot", Ask(Subject(r.type, r.id), NoRoot, {})
      PROVE  QueryInv'
  <2>1. /\ place' = "entity" /\ subject' = Subject(r.type, r.id) /\ root' = NoRoot /\ nodes' = {}
        /\ links' = {} /\ skipped' = {} /\ before' = Chain(Subject(r.type, r.id))
    BY <1>1, <1>3 DEF Ask, Goto, Subject
  <2>2. Subject(r.type, r.id) \in Subjects \ Lots
    BY <1>3 DEF IInv, TypeOK, Record, EntityTypes, Subject, Subjects, Lots
  <2>3. AskInv'
    BY <2>1, <2>2 DEF AskInv, Stops
  <2>4. GraphInv'
    BY <2>1 DEF GraphInv
  <2>5. before' \subseteq Chain(subject)'
    BY <1>1, <2>1 DEF Chain, BatchNodes, RawNodes, ResultNodes, ExceptionNodes
  <2>6. ReadInv'
    BY <2>1, <2>5 DEF ReadInv, PastEntity, PastRaw, PastBatch, PastResults, PastExceptions
  <2> QED
    BY <2>1, <2>2, <2>3, <2>4, <2>6 DEF QueryInv
<1>4. ASSUME NEW x \in exceptions, Ask(x, x, {ExceptionNode(x)})
      PROVE  QueryInv'
  <2>1. /\ place' = "entity" /\ subject' = Subject(x.type, x.entity) /\ root' = x
        /\ nodes' = {ExceptionNode(x)} /\ links' = {} /\ skipped' = {} /\ before' = Chain(x)
    BY <1>1, <1>4, SubjectOfException DEF Ask, Goto
  <2>2. Subject(x.type, x.entity) \in Subjects \ Lots
    BY SubjectOfException DEF Subjects, Lots
  <2>3. AskInv'
    BY <1>1, <2>1, <2>2 DEF AskInv, Stops
  <2>4. Subject(x.type, x.entity).type = x.type /\ Subject(x.type, x.entity).entity = x.entity
    BY DEF Subject
  <2>5. ExceptionNode(x) \in ExceptionNodes(subject)'
    BY <1>1, <2>1, <2>4 DEF ExceptionNodes
  <2>6. ExceptionNode(root)' = ExceptionNode(x)
    BY <2>1
  <2>7. x # NoRoot
    BY DEF IInv, TypeOK, Exception, NoRoot, NoResult
  <2>8. GraphInv'
    BY <2>1, <2>5, <2>6, <2>7 DEF GraphInv, Whole, Chain, Hangs
  <2>9. before' \subseteq Chain(subject)'
    BY <1>1, <2>1, <2>4 DEF Chain, BatchNodes, RawNodes, ResultNodes, ExceptionNodes
  <2>10. ReadInv'
    BY <2>1, <2>6, <2>9 DEF ReadInv, PastEntity, PastRaw, PastBatch, PastResults, PastExceptions
  <2> QED
    BY <2>1, <2>2, <2>3, <2>8, <2>10 DEF QueryInv
<1>5. ASSUME NEW x \in LotExceptions, Ask(x, x, {ExceptionNode(x)})
      PROVE  QueryInv'
  <2>1. x.type = "tax_lot" /\ x.entity \in Ids /\ x # NoRoot
    BY LineageAssumption DEF NoRoot, NoResult
  <2>2. /\ place' = "link" /\ subject' = Subject(x.type, x.entity) /\ root' = x
        /\ nodes' = {ExceptionNode(x)} /\ links' = {} /\ skipped' = {}
    BY <1>1, <1>5, <2>1 DEF Ask, Goto
  <2>3. Subject(x.type, x.entity) \in Lots \ Subjects
    BY <2>1 DEF Subject, Subjects, Lots
  <2>4. AskInv'
    BY <2>2, <2>3 DEF AskInv, Stops
  <2>5. ExceptionNode(root)' = ExceptionNode(x) /\ ExceptionNode(x) # ScoreNode(subject)'
    BY <2>2, NodeParts DEF ExceptionNode, ScoreNode
  <2>6. LotInv'
    BY <2>2, <2>5 DEF LotInv
  <2> QED
    BY <2>2, <2>3, <2>4, <2>6 DEF QueryInv
<1> QED
  BY <1>2, <1>3, <1>4, <1>5 DEF GetLineageForEntity, GetException

Later == LoadEntity \/ AddRawRecords \/ AddBatch \/ AddReconResults \/ AddExceptions
             \/ AddTrustScore \/ LinkException

\* Once it has begun a query keeps its subject and root, and its graph only grows.
LEMMA LaterFrame ==
    ASSUME QueryInv, Later
    PROVE  /\ results' = results /\ exceptions' = exceptions /\ subject \in Subjects \union Lots
           /\ subject' = subject /\ root' = root /\ before' = before
           /\ nodes \subseteq nodes' /\ links \subseteq links' /\ skipped \subseteq skipped'
           /\ place' \in Stops \ {"idle"}
<1> USE DEF Later, LoadEntity, AddRawRecords, AddBatch, AddReconResults, AddExceptions,
            AddTrustScore, LinkException, Linked
<1>1. results' = results /\ exceptions' = exceptions
  BY DEF vars, audit
<1>2. subject \in Subjects \union Lots
  BY DEF QueryInv, AskInv
<1>3. /\ subject' = subject /\ root' = root /\ before' = before
      /\ nodes \subseteq nodes' /\ links \subseteq links' /\ skipped \subseteq skipped'
  BY DEF Add, Skip, Fail
<1>4. place' \in Stops \ {"idle"}
  BY DEF Goto, Fail, Stops
<1> QED
  BY <1>1, <1>2, <1>3, <1>4

LEMMA LaterKeepsQuery ==
    ASSUME QueryInv, subject \in Subjects, Later, ReadInv',
           \A n \in nodes' \ nodes : n \in Whole(subject) /\ Hangs(n)',
           \A l \in links' \ links : Sound(l)',
           \/ place' \in Settled => place \in Settled
           \/ root # NoRoot => Hangs(ExceptionNode(root))'
    PROVE  QueryInv'
<1>1. AskInv'
  BY LaterFrame DEF QueryInv, AskInv
<1>2. GraphInv'
  BY LaterFrame, GraphGrows DEF QueryInv
<1>3. subject' \in Subjects \ Lots
  BY LaterFrame DEF Subjects, Lots
<1> QED
  BY <1>1, <1>2, <1>3 DEF QueryInv

\* A new edge with both its ends in the graph.
LEMMA NewLink ==
    ASSUME NEW l, l \in LinkSet, l.from \in nodes', l.to \in nodes',
           <<l.from.type, l.to.type>> \in Ends(l.type),
           l.type = "raised_exception" => l.from.type # "recon_result"
    PROVE  Sound(l)'
BY DEF Sound, Ordinary

LEMMA NewLinksTo ==
    \A tos, from, type, l : l \in LinksTo(tos, from, type) <=>
        \E to \in tos : l = Link(from, to, type)
BY DEF LinksTo

LEMMA NewLinksFrom ==
    \A froms, to, type, l : l \in LinksFrom(froms, to, type) <=>
        \E from \in froms : l = Link(from, to, type)
BY DEF LinksFrom

\* What is in the graph of every later place, whatever the step.
LEMMA ReadSoFar ==
    ASSUME QueryInv, subject \in Subjects, Later
    PROVE  /\ place \in PastEntity => EntityNode(subject)' \in nodes'
           /\ root' # NoRoot => ExceptionNode(root)' \in nodes'
           /\ before' \subseteq Chain(subject)'
           /\ BatchNodes(subject)' = BatchNodes(subject)
           /\ RawNodes(subject)' = RawNodes(subject)
           /\ EntityNode(subject)' = EntityNode(subject)
<1>1. /\ EntityNode(subject)' = EntityNode(subject)
      /\ BatchNodes(subject)' = BatchNodes(subject)
      /\ RawNodes(subject)' = RawNodes(subject)
      /\ Chain(subject) \subseteq Chain(subject)'
  BY LaterFrame, RowsGrow
<1>2. ExceptionNode(root)' = ExceptionNode(root)
  BY LaterFrame
<1> QED
  BY <1>1, <1>2, LaterFrame DEF QueryInv, ReadInv

\* The root of a query about a position or a transaction is the engine's.
LEMMA RootOfSubject ==
    ASSUME QueryInv, subject \in Subjects, root # NoRoot
    PROVE  /\ root \in exceptions /\ root \notin LotExceptions
           /\ subject = Subject(root.type, root.entity)
<1>1. subject = Subject(root.type, root.entity) /\ root \in exceptions \union LotExceptions
  BY DEF QueryInv, AskInv
<1>2. root.type # "tax_lot"
  BY <1>1 DEF Subject, Subjects
<1> QED
  BY <1>1, <1>2, LineageAssumption

LEMMA LoadEntityKeepsQuery ==
    ASSUME IInv, QueryInv, subject \in Subjects, LoadEntity
    PROVE  QueryInv'
<1>1. Later
  BY DEF Later
<1>2. place = "entity" /\ place' \in {"raw", "results", "failed"} /\ links' = links
  BY DEF LoadEntity, Add, Goto, Fail
<1>3. nodes' \subseteq nodes \union {EntityNode(subject)}
  BY DEF LoadEntity, Add, Fail
<1>4. \A n \in nodes' \ nodes : n \in Whole(subject) /\ Hangs(n)'
  BY <1>1, <1>3, ReadSoFar DEF Whole, Hangs
<1>5. place' # "failed" => EntityNode(subject)' \in nodes'
  BY <1>1, ReadSoFar DEF LoadEntity, Add, Fail, Goto
<1>6. place' = "results" => BatchNodes(subject)' = {} /\ RawNodes(subject)' = {}
  BY <1>1, ReadSoFar DEF LoadEntity, Goto, Fail, BatchNodes, RawNodes
<1>7. ReadInv'
  BY <1>1, <1>2, <1>5, <1>6, ReadSoFar
     DEF ReadInv, PastEntity, PastRaw, PastBatch, PastResults, PastExceptions
<1> QED
  BY <1>1, <1>2, <1>4, <1>7, LaterKeepsQuery DEF Settled

LEMMA AddRawRecordsKeepsQuery ==
    ASSUME IInv, QueryInv, subject \in Subjects, AddRawRecords
    PROVE  QueryInv'
<1> DEFINE E == EntityNode(subject)
<1>1. Later
  BY DEF Later
<1>2. place = "raw" /\ subject \in Subjects /\ TypeOK /\ E \in nodes
  BY <1>1, LaterFrame DEF AddRawRecords, QueryInv, ReadInv, IInv, PastEntity, PastRaw, PastBatch
<1>3. CASE Skip("raw") /\ Goto("results")
  <2>1. nodes' = nodes /\ links' = links /\ skipped' # {} /\ place' = "results"
    BY <1>3 DEF Skip, Goto
  <2>2. ReadInv'
    BY <1>1, <1>2, <2>1, ReadSoFar
       DEF ReadInv, PastEntity, PastRaw, PastBatch, PastResults, PastExceptions
  <2> QED
    BY <1>1, <2>1, <2>2, LaterKeepsQuery DEF Settled
<1>4. CASE Add(RawNodes(subject), LinksFrom(RawNodes(subject), E, "normalized_to")) /\ Goto("batch")
  <2>1. /\ nodes' = nodes \union RawNodes(subject) /\ place' = "batch" /\ skipped' = skipped
        /\ links' = links \union LinksFrom(RawNodes(subject), E, "normalized_to")
    BY <1>4 DEF Add, Goto
  <2>2. \A n \in RawNodes(subject) : n \in GraphNode /\ n.type = "raw_record"
    BY <1>2, NodesOfSubject
  <2>3. E \in GraphNode /\ E.type \in {"position", "transaction"}
    BY <1>2, NodesOfSubject
  <2>4. \A n \in RawNodes(subject) : Link(n, E, "normalized_to") \in links'
    BY <2>1, NewLinksFrom
  <2> HIDE DEF E
  <2>5. \A l \in links' \ links : Sound(l)'
    <3> SUFFICES ASSUME NEW l, l \in links', l \notin links PROVE Sound(l)'
      OBVIOUS
    <3>1. PICK n \in RawNodes(subject) : l = Link(n, E, "normalized_to")
      BY <2>1, NewLinksFrom
    <3>2. l.from = n /\ l.to = E /\ l.type = "normalized_to"
      BY <3>1, LinkParts
    <3>3. l \in LinkSet
      BY <2>2, <2>3, <3>1, LinkIsLink DEF EdgeTypes
    <3>4. l.from \in nodes' /\ l.to \in nodes'
      BY <1>2, <2>1, <3>2
    <3>5. <<l.from.type, l.to.type>> \in Ends(l.type)
      BY <2>2, <2>3, <3>2 DEF Ends
    <3> QED
      BY <3>2, <3>3, <3>4, <3>5, NewLink
  <2>6. \A n \in nodes' \ nodes : n \in Whole(subject) /\ Hangs(n)'
    <3>1. EntityNode(subject)' = E
      BY <1>1, ReadSoFar DEF E
    <3>2. \A n \in RawNodes(subject) : n.type # "ingestion_batch" /\
              \E l \in links' : {l.from, l.to} = {n, E}
      BY <2>2, <2>4, LinkParts
    <3> QED
      BY <2>1, <3>1, <3>2 DEF Hangs, Whole, Chain
  <2>7. ReadInv'
    BY <1>1, <1>2, <2>1, ReadSoFar
       DEF ReadInv, PastEntity, PastRaw, PastBatch, PastResults, PastExceptions
  <2> QED
    BY <1>1, <2>1, <2>5, <2>6, <2>7, LaterKeepsQuery DEF Settled
<1> QED
  BY <1>3, <1>4 DEF AddRawRecords

LEMMA AddBatchKeepsQuery ==
    ASSUME IInv, QueryInv, subject \in Subjects, AddBatch
    PROVE  QueryInv'
<1> DEFINE R == RawNodes(subject)
           B == BatchNodes(subject)
<1>1. Later
  BY DEF Later
<1>2. /\ place = "batch" /\ place' = "results" /\ subject \in Subjects /\ TypeOK
      /\ R \subseteq nodes
  BY <1>1, LaterFrame DEF AddBatch, Goto, QueryInv, ReadInv, IInv
<1>3. CASE Skip("batch")
  <2>1. nodes' = nodes /\ links' = links /\ skipped' # {}
    BY <1>3 DEF Skip
  <2>2. ReadInv'
    BY <1>1, <1>2, <2>1, ReadSoFar
       DEF ReadInv, PastEntity, PastRaw, PastBatch, PastResults, PastExceptions
  <2> QED
    BY <1>1, <1>2, <2>1, <2>2, LaterKeepsQuery DEF Settled
<1>4. CASE Add(B, UNION {LinksTo(R, b, "contains") : b \in B})
  <2>1. /\ nodes' = nodes \union B /\ skipped' = skipped
        /\ links' = links \union UNION {LinksTo(R, b, "contains") : b \in B}
    BY <1>4 DEF Add
  <2>2. \A n \in R : n \in GraphNode /\ n.type = "raw_record"
    BY <1>2, NodesOfSubject
  <2>3. \A b \in B : b \in GraphNode /\ b.type = "ingestion_batch"
    BY <1>2, NodesOfSubject
  <2>4. \A n \in R, b \in B : Link(b, n, "contains") \in links'
    BY <2>1, NewLinksTo
  <2>5. RawNodes(subject)' = R
    BY <1>1, ReadSoFar
  <2> HIDE DEF R, B
  <2>6. \A l \in links' \ links : Sound(l)'
    <3> SUFFICES ASSUME NEW l, l \in links', l \notin links PROVE Sound(l)'
      OBVIOUS
    <3>1. PICK b \in B : l \in LinksTo(R, b, "contains")
      BY <2>1
    <3>2. PICK n \in R : l = Link(b, n, "contains")
      BY <3>1, NewLinksTo
    <3>3. l.from = b /\ l.to = n /\ l.type = "contains"
      BY <3>2, LinkParts
    <3>4. l \in LinkSet
      BY <2>2, <2>3, <3>2, LinkIsLink DEF EdgeTypes
    <3>5. l.from \in nodes' /\ l.to \in nodes'
      BY <1>2, <2>1, <3>3
    <3>6. <<l.from.type, l.to.type>> \in Ends(l.type)
      BY <2>2, <2>3, <3>3 DEF Ends
    <3> QED
      BY <3>3, <3>4, <3>5, <3>6, NewLink
  <2>7. \A n \in nodes' \ nodes : n \in Whole(subject) /\ Hangs(n)'
    <3>1. \A b \in B : b \in Whole(subject)
      BY DEF Whole, Chain, B
    <3> QED
      BY <1>2, <2>1, <2>3, <2>4, <2>5, <3>1 DEF Hangs
  <2>8. ReadInv'
    BY <1>1, <1>2, <2>1, <2>5, ReadSoFar
       DEF ReadInv, PastEntity, PastRaw, PastBatch, PastResults, PastExceptions, R, B
  <2> QED
    BY <1>1, <1>2, <2>6, <2>7, <2>8, LaterKeepsQuery DEF Settled
<1> QED
  BY <1>3, <1>4 DEF AddBatch

\* What the reads of results, exceptions and scores add is linked from the entity.
LEMMA LinkedFromEntity ==
    ASSUME IInv, QueryInv, subject \in Subjects, Later, place \in PastEntity,
           NEW S, NEW type \in {"reconciled_as", "raised_exception", "scored_as"},
           S \subseteq Whole(subject),
           \A n \in S : n \in GraphNode /\ n.type # "ingestion_batch" /\
               \A e \in {"position", "transaction"} : <<e, n.type>> \in Ends(type),
           nodes' = nodes \union S,
           links' = links \union LinksTo(S, EntityNode(subject), type)
    PROVE  /\ \A n \in nodes' \ nodes : n \in Whole(subject) /\ Hangs(n)'
           /\ \A l \in links' \ links : Sound(l)'
<1> DEFINE E == EntityNode(subject)
<1>1. EntityNode(subject)' = E
  BY ReadSoFar
<1>2. E \in nodes'
  BY ReadSoFar
<1>3. E \in GraphNode /\ E.type \in {"position", "transaction"}
  BY LaterFrame, NodesOfSubject DEF IInv
<1>4. links' = links \union LinksTo(S, E, type)
  OBVIOUS
<1> HIDE DEF E
<1>5. \A n \in S : \E l \in links' : {l.from, l.to} = {n, E}
  BY <1>4, NewLinksTo, LinkParts
<1>6. ASSUME NEW l, l \in links', l \notin links PROVE Sound(l)'
  <2>1. PICK n \in S : l = Link(E, n, type)
    BY <1>4, <1>6, NewLinksTo
  <2>2. l.from = E /\ l.to = n /\ l.type = type
    BY <2>1, LinkParts
  <2>3. type \in EdgeTypes
    BY DEF EdgeTypes
  <2>4. l \in LinkSet
    BY <1>3, <2>1, <2>3, LinkIsLink
  <2>5. <<l.from.type, l.to.type>> \in Ends(l.type)
    BY <1>3, <2>2
  <2> QED
    BY <1>2, <1>3, <2>2, <2>4, <2>5, NewLink
<1> QED
  BY <1>1, <1>5, <1>6 DEF Hangs

\* A node's type says which table its row is in.
LEMMA RowsByType ==
    ASSUME TypeOK, subject \in Subjects
    PROVE  /\ \A n \in Chain(subject) :
                 n.type \in {"ingestion_batch", "raw_record", "recon_result", "exception"}
           /\ \A n \in Whole(subject) :
                 /\ n \in GraphNode
                 /\ n.type = "ingestion_batch" => n \in BatchNodes(subject)
                 /\ n.type = "raw_record" => n \in RawNodes(subject)
                 /\ n.type = "recon_result" => n \in ResultNodes(subject)
                 /\ n.type = "exception" => n \in ExceptionNodes(subject)
           /\ \A n \in Chain(subject) : n \in Whole(subject)
BY NodesOfSubject DEF Chain, Whole

LEMMA AddReconResultsKeepsQuery ==
    ASSUME IInv, QueryInv, subject \in Subjects, AddReconResults
    PROVE  QueryInv'
<1>1. Later
  BY DEF Later
<1>2. place = "results" /\ place' = "exceptions" /\ subject \in Subjects /\ TypeOK
  BY <1>1, LaterFrame DEF AddReconResults, Goto, IInv
<1>3. CASE Skip("results")
  <2>1. nodes' = nodes /\ links' = links /\ "results" \in skipped'
    BY <1>3 DEF Skip
  <2>2. ReadInv'
    BY <1>1, <1>2, <2>1, ReadSoFar
       DEF ReadInv, PastEntity, PastRaw, PastBatch, PastResults, PastExceptions
  <2> QED
    BY <1>1, <1>2, <2>1, <2>2, LaterKeepsQuery DEF Settled
<1>4. CASE Add(ResultNodes(subject),
               LinksTo(ResultNodes(subject), EntityNode(subject), "reconciled_as"))
  <2> DEFINE N == ResultNodes(subject)
  <2>1. /\ nodes' = nodes \union N /\ skipped' = skipped
        /\ links' = links \union LinksTo(N, EntityNode(subject), "reconciled_as")
    BY <1>4 DEF Add
  <2>2. \A n \in N : n \in GraphNode /\ n.type = "recon_result"
    BY <1>2, NodesOfSubject
  <2>3. N \subseteq Whole(subject)
    BY DEF Whole, Chain
  <2>4. \A n \in before : n.type = "recon_result" => n \in N
    BY <1>2, RowsByType DEF QueryInv, ReadInv
  <2>5. root # NoRoot => Node("recon_result", root.call, root.entity) \in N
    <3> SUFFICES ASSUME root # NoRoot PROVE Node("recon_result", root.call, root.entity) \in N
      OBVIOUS
    <3>1. root \in exceptions /\ subject = Subject(root.type, root.entity)
      BY RootOfSubject
    <3>2. PICK res \in results : ExceptionOf(res) = root
      BY <3>1 DEF IInv, AuditChain
    <3>3. res.call = root.call /\ res.type = root.type /\ res.entity = root.entity
      BY <3>2 DEF ExceptionOf
    <3>4. ResultNode(res) \in N
      BY <3>1, <3>3 DEF ResultNodes, Subject
    <3> QED
      BY <3>3, <3>4 DEF ResultNode
  <2> HIDE DEF N
  <2>6. /\ \A n \in nodes' \ nodes : n \in Whole(subject) /\ Hangs(n)'
        /\ \A l \in links' \ links : Sound(l)'
    <3>1. \A n \in N, e \in {"position", "transaction"} : <<e, n.type>> \in Ends("reconciled_as")
      BY <2>2 DEF Ends
    <3>2. place \in PastEntity
      BY <1>2 DEF PastEntity, PastRaw, PastBatch
    <3> QED
      BY <1>1, <2>1, <2>2, <2>3, <3>1, <3>2, LinkedFromEntity
  <2>7. ReadInv'
    BY <1>1, <1>2, <2>1, <2>4, <2>5, LaterFrame, ReadSoFar
       DEF QueryInv, ReadInv, PastEntity, PastRaw, PastBatch, PastResults, PastExceptions
  <2> QED
    BY <1>1, <1>2, <2>6, <2>7, LaterKeepsQuery DEF Settled
<1> QED
  BY <1>3, <1>4 DEF AddReconResults

LEMMA AddExceptionsKeepsQuery ==
    ASSUME IInv, QueryInv, subject \in Subjects, AddExceptions
    PROVE  QueryInv'
<1>1. Later
  BY DEF Later
<1>2. place = "exceptions" /\ place' = "score" /\ subject \in Subjects /\ TypeOK
  BY <1>1, LaterFrame DEF AddExceptions, Goto, IInv
<1>3. CASE Skip("exceptions")
  <2>1. nodes' = nodes /\ links' = links /\ skipped' = skipped \union {"exceptions"}
    BY <1>3 DEF Skip
  <2>2. ReadInv'
    BY <1>1, <1>2, <2>1, LaterFrame, ReadSoFar
       DEF QueryInv, ReadInv, PastEntity, PastRaw, PastBatch, PastResults, PastExceptions
  <2> QED
    BY <1>1, <1>2, <2>1, <2>2, LaterKeepsQuery DEF Settled
<1>4. CASE Add(ExceptionNodes(subject),
               LinksTo(ExceptionNodes(subject), EntityNode(subject), "raised_exception"))
  <2> DEFINE N == ExceptionNodes(subject)
  <2>1. /\ nodes' = nodes \union N /\ skipped' = skipped
        /\ links' = links \union LinksTo(N, EntityNode(subject), "raised_exception")
    BY <1>4 DEF Add
  <2>2. \A n \in N : n \in GraphNode /\ n.type = "exception"
    BY <1>2, NodesOfSubject
  <2>3. N \subseteq Whole(subject)
    BY DEF Whole, Chain
  <2>4. \A n \in before : n.type = "exception" => n \in N
    BY <1>2, RowsByType DEF QueryInv, ReadInv
  <2> HIDE DEF N
  <2>5. /\ \A n \in nodes' \ nodes : n \in Whole(subject) /\ Hangs(n)'
        /\ \A l \in links' \ links : Sound(l)'
    <3>1. \A n \in N, e \in {"position", "transaction"} : <<e, n.type>> \in Ends("raised_exception")
      BY <2>2 DEF Ends, EntityTypes
    <3>2. place \in PastEntity
      BY <1>2 DEF PastEntity, PastRaw, PastBatch, PastResults
    <3> QED
      BY <1>1, <2>1, <2>2, <2>3, <3>1, <3>2, LinkedFromEntity
  <2>6. ReadInv'
    BY <1>1, <1>2, <2>1, <2>4, LaterFrame, ReadSoFar
       DEF QueryInv, ReadInv, PastEntity, PastRaw, PastBatch, PastResults, PastExceptions
  <2> QED
    BY <1>1, <1>2, <2>5, <2>6, LaterKeepsQuery DEF Settled
<1> QED
  BY <1>3, <1>4 DEF AddExceptions

LEMMA AddTrustScoreKeepsQuery ==
    ASSUME IInv, QueryInv, subject \in Subjects, AddTrustScore
    PROVE  QueryInv'
<1>1. Later
  BY DEF Later
<1>2. subject \in Subjects /\ TypeOK
  BY <1>1, LaterFrame DEF IInv
<1>3. \/ place = "score" /\ place' = "done" /\ root = NoRoot
      \/ place = "score" /\ place' = "link" /\ root # NoRoot
      \/ place = "scoreAgain" /\ place' = "done"
  BY DEF AddTrustScore, Goto
<1>4. nodes \subseteq nodes' /\ skipped' = skipped
  BY DEF AddTrustScore, Add
<1>5. /\ \A n \in nodes' \ nodes : n \in Whole(subject) /\ Hangs(n)'
      /\ \A l \in links' \ links : Sound(l)'
  <2> DEFINE N == ScoreNodes(subject)
  <2>1. CASE Add({}, {})
    BY <2>1 DEF Add
  <2>2. CASE Add(ScoreNodes(subject),
                 LinksTo(ScoreNodes(subject), EntityNode(subject), "scored_as"))
    <3>1. /\ nodes' = nodes \union N
          /\ links' = links \union LinksTo(N, EntityNode(subject), "scored_as")
      BY <2>2 DEF Add
    <3>2. \A n \in N : n \in GraphNode /\ n.type = "trust_score"
      BY <1>2, NodesOfSubject
    <3>3. N \subseteq Whole(subject)
      BY DEF Whole
    <3> HIDE DEF N
    <3>4. \A n \in N, e \in {"position", "transaction"} : <<e, n.type>> \in Ends("scored_as")
      BY <3>2 DEF Ends, EntityTypes
    <3>5. place \in PastEntity
      BY <1>3 DEF PastEntity, PastRaw, PastBatch, PastResults
    <3> QED
      BY <1>1, <3>1, <3>2, <3>3, <3>4, <3>5, LinkedFromEntity
  <2> QED
    BY <2>1, <2>2 DEF AddTrustScore
<1>6. ReadInv'
  BY <1>1, <1>2, <1>3, <1>4, LaterFrame, ReadSoFar
     DEF QueryInv, ReadInv, PastEntity, PastRaw, PastBatch, PastResults, PastExceptions
<1>7. (place' \in Settled => place \in Settled) \/ root = NoRoot
  BY <1>3 DEF Settled
<1> QED
  BY <1>1, <1>5, <1>6, <1>7, LaterKeepsQuery

LEMMA LinkExceptionKeepsQuery ==
    ASSUME IInv, QueryInv, subject \in Subjects, LinkException
    PROVE  QueryInv'
<1> DEFINE E == EntityNode(subject)
           X == ExceptionNode(root)
<1>1. Later
  BY DEF Later
<1>2. PICK froms : /\ Linked(froms)
                   /\ froms = {} \/ \E res \in ResultsFor(root) : froms = {ResultNode(res)}
  <2>1. root \notin LotExceptions
    BY RootOfSubject DEF LinkException, QueryInv, ReadInv
  <2> QED
    BY <2>1 DEF LinkException, FoundFor
<1>3. /\ nodes' = nodes /\ skipped' = skipped /\ place = "link" /\ place' = "scoreAgain"
      /\ links' = links \union LinksFrom(froms \union {E}, X, "raised_exception")
  BY <1>2 DEF LinkException, Linked, Add, Goto
<1>4. subject \in Subjects /\ TypeOK /\ root # NoRoot /\ E \in nodes /\ X \in nodes
  BY <1>1, <1>3, LaterFrame
     DEF QueryInv, ReadInv, IInv, PastEntity, PastRaw, PastBatch, PastResults
<1>5. E' = E /\ X' = X /\ root' = root /\ results' = results
  BY <1>1, LaterFrame, ReadSoFar
<1>6. E \in GraphNode /\ E.type \in {"position", "transaction"}
  BY <1>4, NodesOfSubject
<1>7. X \in GraphNode /\ X.type = "exception"
  <2>1. root \in exceptions /\ subject = Subject(root.type, root.entity)
    BY <1>4, RootOfSubject
  <2>2. X \in ExceptionNodes(subject)
    BY <2>1 DEF ExceptionNodes, Subject
  <2> QED
    BY <1>4, <2>2, NodesOfSubject
<1>8. \A res \in ResultsFor(root) :
          /\ ResultNode(res) \in GraphNode
          /\ ResultNode(res) \in nodes \/ "results" \in skipped \/ res.call # root.call
  <2> SUFFICES ASSUME NEW res \in ResultsFor(root)
               PROVE  /\ ResultNode(res) \in GraphNode
                      /\ ResultNode(res) \in nodes \/ "results" \in skipped \/ res.call # root.call
    OBVIOUS
  <2>1. res \in Result /\ res.entity = root.entity
    BY <1>4 DEF TypeOK, ResultsFor
  <2>2. ResultNode(res) \in GraphNode
    BY <2>1, NodeIsNode DEF ResultNode, Result, NodeTypes
  <2>3. "results" \notin skipped => Node("recon_result", root.call, root.entity) \in nodes
    BY <1>3, <1>4 DEF QueryInv, ReadInv, PastResults
  <2>4. res.call = root.call => ResultNode(res) = Node("recon_result", root.call, root.entity)
    BY <2>1 DEF ResultNode
  <2> QED
    BY <2>2, <2>3, <2>4
<1>9. ReadInv'
  BY <1>1, <1>3, <1>4, LaterFrame, ReadSoFar
     DEF QueryInv, ReadInv, PastEntity, PastRaw, PastBatch, PastResults, PastExceptions
<1> HIDE DEF E
<1>10. ASSUME NEW l, l \in links', l \notin links PROVE Sound(l)'
  <2>1. PICK n \in froms \union {E} : l = Link(n, X, "raised_exception")
    BY <1>3, <1>10, NewLinksFrom
  <2>2. l.from = n /\ l.to = X /\ l.type = "raised_exception"
    BY <2>1, LinkParts
  <2> HIDE DEF X
  <2>3. CASE n = E
    <3>1. l \in LinkSet
      BY <1>6, <1>7, <2>1, <2>3, LinkIsLink DEF EdgeTypes
    <3>2. <<l.from.type, l.to.type>> \in Ends(l.type)
      BY <1>6, <1>7, <2>2, <2>3 DEF Ends, EntityTypes
    <3> QED
      BY <1>3, <1>4, <1>6, <2>2, <2>3, <3>1, <3>2, NewLink
  <2>4. ASSUME NEW res \in ResultsFor(root), n = ResultNode(res) PROVE Sound(l)'
    <3>1. l \in LinkSet
      BY <1>7, <1>8, <2>1, <2>4, LinkIsLink DEF EdgeTypes
    <3>2. ResultsFor(root)' = ResultsFor(root)
      BY <1>5 DEF ResultsFor
    <3>3. ResultNode(res) \in nodes' \/ "results" \in skipped' \/ res.call # root'.call
      BY <1>3, <1>5, <1>8
    <3>4. l.to \in nodes' /\ l.to = ExceptionNode(root)'
      BY <1>3, <1>4, <1>5, <2>2 DEF X
    <3>5. Origin(l)'
      BY <1>4, <1>5, <2>2, <2>4, <3>2, <3>3, <3>4 DEF Origin
    <3> QED
      BY <3>1, <3>4, <3>5 DEF Sound
  <2> QED
    BY <1>2, <2>3, <2>4
<1>11. Hangs(ExceptionNode(root))'
  <2>1. Link(E, X, "raised_exception") \in links'
    BY <1>3, NewLinksFrom
  <2>2. \E l \in links' : {l.from, l.to} = {X, E}
    BY <2>1, LinkParts
  <2>3. EntityNode(subject)' = E /\ ExceptionNode(root)' = X
    BY <1>5 DEF E
  <2> HIDE DEF X
  <2> QED
    BY <1>7, <2>2, <2>3 DEF Hangs
<1> QED
  BY <1>1, <1>3, <1>9, <1>10, <1>11, LaterKeepsQuery

\* The engine writes nothing about tax lots, so the result found is the one that was there.
LEMMA LotKeepsQuery ==
    ASSUME SupportedInv, QueryInv, subject \in Lots, Later
    PROVE  QueryInv'
<1> DEFINE E == EntityNode(subject)
           X == ExceptionNode(root)
           S == ScoreNode(subject)
<1>1. LotInv /\ subject \notin Subjects /\ root.type = "tax_lot"
  BY LineageAssumption DEF QueryInv, LotInv, Subjects, Lots
<1>2. /\ subject' = subject /\ root' = root /\ AskInv'
  BY LaterFrame DEF QueryInv, AskInv
<1>3. E' = E /\ X' = X /\ S' = S /\ LotLinks' = LotLinks
  BY <1>2 DEF EntityNode, LotLinks
<1>4. X # S
  BY NodeParts DEF ExceptionNode, ScoreNode
<1> SUFFICES LotInv'
  BY <1>1, <1>2 DEF QueryInv
<1>5. CASE LinkException
  <2>1. FoundFor(root) \subseteq {ResultNode(root)}
    BY <1>1 DEF FoundFor, ResultsFor, SupportedInv
  <2>2. PICK froms : froms \subseteq {ResultNode(root)} /\ Linked(froms)
    BY <1>5, <2>1 DEF LinkException
  <2>3. /\ nodes' = nodes /\ place' = "scoreAgain" /\ place = "link"
        /\ links' = links \union LinksFrom(froms \union {E}, X, "raised_exception")
    BY <1>5, <2>2 DEF LinkException, Linked, Add, Goto
  <2>4. \A l \in LinksFrom(froms \union {E}, X, "raised_exception") : l \in LotLinks /\ l.to = X
    BY <2>2, NewLinksFrom, LinkParts DEF LotLinks
  <2>5. Link(E, X, "raised_exception") \in links'
    BY <2>3, NewLinksFrom
  <2> QED
    BY <1>1, <1>2, <1>3, <2>3, <2>4, <2>5 DEF LotInv
<1>6. CASE AddTrustScore
  <2>1. place = "scoreAgain" /\ place' = "done"
    BY <1>1, <1>6 DEF AddTrustScore, Goto, LotInv
  <2>2. ScoreNodes(subject) \subseteq {S}
    BY DEF ScoreNodes
  <2>3. CASE Add({}, {})
    BY <1>1, <1>2, <1>3, <2>1, <2>3 DEF Add, LotInv
  <2>4. CASE Add(ScoreNodes(subject), LinksTo(ScoreNodes(subject), E, "scored_as"))
    <3>1. /\ nodes' = nodes \union ScoreNodes(subject)
          /\ links' = links \union LinksTo(ScoreNodes(subject), E, "scored_as")
      BY <2>4 DEF Add
    <3>2. \A l \in LinksTo(ScoreNodes(subject), E, "scored_as") :
              l \in LotLinks /\ l.to \in ScoreNodes(subject)
      BY <2>2, NewLinksTo, LinkParts DEF LotLinks
    <3>3. S \in ScoreNodes(subject) => Link(E, S, "scored_as") \in links'
      BY <3>1, NewLinksTo
    <3> QED
      BY <1>1, <1>2, <1>3, <2>1, <2>2, <3>1, <3>2, <3>3 DEF LotInv
  <2> QED
    BY <1>6, <2>3, <2>4 DEF AddTrustScore
<1> QED
  BY <1>1, <1>5, <1>6 DEF Later, LotInv, LoadEntity, AddRawRecords, AddBatch, AddReconResults,
     AddExceptions

-----------------------------------------------------------------------------
(* The invariant, and what follows from it. *)

LEMMA QueryInvStays ==
    ASSUME IInv, SupportedInv, QueryInv, [LineageNext]_<<vars, query>>
    PROVE  QueryInv'
<1>1. CASE UNCHANGED query /\ [Next]_vars
  BY <1>1, EngineStepKeepsQuery
<1>2. CASE GetLineageForEntity \/ GetException
  BY <1>2, AskKeepsQuery
<1>3. CASE Later /\ subject \in Lots
  BY <1>3, LotKeepsQuery
<1>4. Later => subject \in Subjects \union Lots
  BY LaterFrame
<1> QED
  BY <1>1, <1>2, <1>3, <1>4, LoadEntityKeepsQuery, AddRawRecordsKeepsQuery, AddBatchKeepsQuery,
     AddReconResultsKeepsQuery, AddExceptionsKeepsQuery, AddTrustScoreKeepsQuery,
     LinkExceptionKeepsQuery DEF LineageNext, Query, Later

LEMMA InitQueryInv == LineageInit => QueryInv
<1> SUFFICES ASSUME LineageInit PROVE QueryInv
  OBVIOUS
<1>1. NoRoot \notin Subjects \union Lots
  BY DEF NoRoot, NoResult, Subjects, Lots
<1>2. AskInv
  BY DEF LineageInit, AskInv, Stops
<1> QED
  BY <1>1, <1>2 DEF LineageInit, QueryInv

THEOREM QueryInvariant == LineageSpec => [](QueryInv /\ IInv /\ IdsInv)
<1>1. IInv /\ SupportedInv /\ QueryInv /\ [LineageNext]_<<vars, query>> => QueryInv'
  BY QueryInvStays
<1> QED
  BY <1>1, InitQueryInv, EngineSupports, PTL DEF LineageSpec

\* What the nodes and edges about a tax lot are.
LEMMA LotParts ==
    ASSUME QueryInv, subject \in Lots
    PROVE  /\ LotInv /\ root # NoRoot /\ subject.type = "tax_lot"
           /\ EntityNode(subject) \in Source /\ EntityNode(subject).type = "tax_lot"
           /\ ExceptionNode(root) \in GraphNode /\ ExceptionNode(root).type = "exception"
           /\ ResultNode(root) \in GraphNode /\ ResultNode(root).type = "recon_result"
           /\ ResultNode(root).call = NoReason
           /\ ScoreNode(subject) \in GraphNode /\ ScoreNode(subject).type = "trust_score"
<1>1. /\ LotInv /\ root \in LotExceptions /\ subject.type = "tax_lot" /\ subject.entity \in Ids
      /\ root.call = NoReason /\ root.entity \in Ids /\ root # NoRoot
  BY LineageAssumption DEF QueryInv, LotInv, Lots, NoRoot, NoResult
<1> QED
  BY <1>1, NodeParts, NodeIsNode
     DEF EntityNode, ExceptionNode, ResultNode, ScoreNode, NodeTypes, Node, Source

\* The state of a query is well formed, and each of its edges connects rows of the types it
\* is for, whatever reads were passed over.
THEOREM LineageTypes == LineageSpec => []LineageTypeOK
<1>1. ASSUME QueryInv, IInv PROVE LineageTypeOK
  <2>1. place \in Stops /\ root \in Exception \union LotExceptions \union {NoRoot}
    BY <1>1 DEF QueryInv, AskInv, IInv, TypeOK
  <2>2. subject \in [type : EntityTypes, entity : Ids] \union {NoRoot}
    BY <1>1 DEF QueryInv, AskInv, Subjects, Lots, EntityTypes
  <2>3. CASE subject \in Subjects
    <3>1. nodes \subseteq GraphNode
      BY <1>1, <2>3, RowsByType DEF QueryInv, GraphInv, IInv
    <3>2. \A l \in links : Sound(l)
      BY <1>1, <2>3 DEF QueryInv, GraphInv
    <3>3. ASSUME NEW l \in links PROVE <<l.from.type, l.to.type>> \in Ends(l.type)
      <4>1. CASE Origin(l)
        <5>1. l.from.type = "recon_result" /\ l.to.type = "exception"
          BY <4>1, NodeParts DEF Origin, ResultNode, ExceptionNode
        <5> QED
          BY <4>1, <5>1 DEF Origin, Ends
      <4> QED
        BY <3>2, <4>1 DEF Sound, Ordinary
    <3> QED
      BY <2>1, <2>2, <3>1, <3>2, <3>3 DEF LineageTypeOK, Sound, LinkSet
  <2>4. CASE subject \in Lots
    <3>1. nodes \subseteq GraphNode
      BY <1>1, <2>4, LotParts DEF LotInv
    <3>2. ASSUME NEW l \in links
          PROVE  /\ l \in [from : Source, to : GraphNode, type : EdgeTypes]
                 /\ <<l.from.type, l.to.type>> \in Ends(l.type)
      <4>1. l \in LotLinks
        BY <1>1, <2>4, LotParts DEF LotInv
      <4> QED
        BY <1>1, <2>4, <4>1, LotParts DEF LotLinks, Link, Ends, EdgeTypes, EntityTypes, Source
    <3> QED
      BY <2>1, <2>2, <3>1, <3>2 DEF LineageTypeOK
  <2>5. CASE subject \notin Subjects \union Lots
    BY <1>1, <2>1, <2>2, <2>5 DEF LineageTypeOK, QueryInv, AskInv
  <2> QED
    BY <2>3, <2>4, <2>5
<1> QED
  BY <1>1, QueryInvariant, PTL

\* Rows that the engine adds between the reads of a query neither hide one that was there nor
\* put one into the graph that is not there; the graph of a tax lot's exception has no others.
THEOREM GraphsAreInBetween == LineageSpec => []GraphIsInBetween
<1>1. ASSUME QueryInv, IInv, place = "done", subject \in Subjects
      PROVE  /\ skipped = {} => before \subseteq nodes
             /\ nodes \subseteq Whole(subject)
  <2>1. TypeOK
    BY <1>1 DEF IInv
  <2>2. before \subseteq Chain(subject)
    BY <1>1 DEF QueryInv, ReadInv
  <2>3. nodes \subseteq Whole(subject)
    BY <1>1 DEF QueryInv, GraphInv
  <2>4. skipped = {} =>
            /\ RawNodes(subject) \subseteq nodes /\ BatchNodes(subject) \subseteq nodes
            /\ \A n \in before : n.type \in {"recon_result", "exception"} => n \in nodes
    BY <1>1 DEF QueryInv, ReadInv, PastRaw, PastBatch, PastResults, PastExceptions
  <2> QED
    BY <1>1, <2>1, <2>2, <2>3, <2>4, RowsByType
<1>2. ASSUME QueryInv, place = "done", subject \in Lots
      PROVE  /\ ExceptionNode(root) \in ExceptionNodes(subject)
             /\ nodes \subseteq {ExceptionNode(root)} \union ScoreNodes(subject)
  <2>1. root \in LotExceptions /\ subject = Subject(root.type, root.entity)
    BY <1>2, LotParts DEF LotInv, QueryInv, AskInv
  <2>2. ExceptionNode(root) \in ExceptionNodes(subject)
    BY <2>1 DEF ExceptionNodes, Subject
  <2>3. ScoreNode(subject) \in ScoreNodes(subject)
    BY <2>2 DEF ScoreNodes
  <2> QED
    BY <1>2, <2>2, <2>3, LotParts DEF LotInv
<1>3. ASSUME QueryInv, IInv, place = "done"
      PROVE  GraphIsInBetween
  <2>1. subject \in Subjects \union Lots
    BY <1>3 DEF QueryInv, AskInv
  <2>2. CASE subject \in Subjects
    BY <1>1, <1>3, <2>2 DEF GraphIsInBetween, Whole, Subjects
  <2>3. CASE subject \in Lots
    BY <1>2, <1>3, <2>3 DEF GraphIsInBetween, Chain, Lots
  <2> QED
    BY <2>1, <2>2, <2>3
<1>4. QueryInv /\ IInv => GraphIsInBetween
  BY <1>3 DEF GraphIsInBetween
<1> QED
  BY <1>4, QueryInvariant, PTL

\* An edge of a graph has both its nodes, but for those of an exception's graph: its origin may
\* be missing if the results were not read or if it is another call's, and a tax lot always is.
THEOREM EdgesDangleOnlyForExceptions == LineageSpec => []DanglesOnlyForExceptions
<1>1. ASSUME QueryInv, NEW l \in links
      PROVE  /\ l.to \in nodes
             /\ \/ l.from \in nodes
                \/ root # NoRoot /\ subject.type = "tax_lot"
                \/ /\ root # NoRoot /\ l.to = ExceptionNode(root)
                   /\ "results" \in skipped \/ l.from.call # root.call
  <2>1. CASE subject \in Subjects
    <3>1. Sound(l)
      BY <1>1, <2>1 DEF QueryInv, GraphInv
    <3>2. \A res : ResultNode(res).call = res.call
      BY NodeParts DEF ResultNode
    <3> QED
      BY <3>1, <3>2 DEF Sound, Ordinary, Origin
  <2>2. CASE subject \in Lots
    BY <1>1, <2>2, LotParts DEF LotInv
  <2> QED
    BY <1>1, <2>1, <2>2 DEF QueryInv
<1>2. QueryInv => DanglesOnlyForExceptions
  BY <1>1 DEF DanglesOnlyForExceptions
<1> QED
  BY <1>2, QueryInvariant, PTL

\* An edge at a batch is one to a raw record.
LEMMA EdgesOfBatch ==
    ASSUME QueryInv, IInv, subject \in Subjects, NEW n, n.type = "ingestion_batch",
           NEW l \in links, n \in {l.from, l.to}
    PROVE  l \in LinksTo(RawNodes(subject), n, "contains")
<1>1. Sound(l) /\ nodes \subseteq Whole(subject) /\ TypeOK
  BY DEF QueryInv, GraphInv, IInv
<1>2. Ordinary(l)
  BY <1>1, NodeParts DEF Sound, Origin, ResultNode, ExceptionNode
<1>3. l.type \in EdgeTypes /\ l = Link(l.from, l.to, l.type)
  BY <1>1 DEF Sound, LinkSet, Link
<1>4. l.from = n /\ l.type = "contains" /\ l.to.type = "raw_record"
  BY <1>2, <1>3 DEF Ordinary, Ends, EdgeTypes, EntityTypes
<1>5. l.to \in RawNodes(subject)
  BY <1>1, <1>4, RowsByType DEF Sound
<1> QED
  BY <1>3, <1>4, <1>5, NewLinksTo

\* Every row of a finished graph is linked to the entity, or is a batch that is linked to all
\* its raw records and to nothing else, whatever reads were passed over: apart stands at most
\* a batch without raw records.
THEOREM GraphsHangTogether == LineageSpec => []OnlyEmptyBatchesStandApart
<1>1. ASSUME QueryInv, IInv, subject \in Subjects, place = "done",
             NEW n \in nodes, n # EntityNode(subject)
      PROVE  IF n.type = "ingestion_batch"
             THEN /\ RawNodes(subject) \subseteq nodes
                  /\ {l \in links : n \in {l.from, l.to}} = LinksTo(RawNodes(subject), n, "contains")
             ELSE \E l \in links : {l.from, l.to} = {n, EntityNode(subject)}
  <2>1. Hangs(n)
    BY <1>1 DEF QueryInv, GraphInv
  <2>2. CASE n.type = "ingestion_batch"
    <3>1. \A r \in RawNodes(subject) : r \in nodes /\ Link(n, r, "contains") \in links
      BY <1>1, <2>1, <2>2, NodeParts DEF Hangs, ExceptionNode
    <3>2. \A l \in LinksTo(RawNodes(subject), n, "contains") : l \in links /\ l.from = n
      BY <3>1, NewLinksTo, LinkParts
    <3>3. \A l \in links : n \in {l.from, l.to} => l \in LinksTo(RawNodes(subject), n, "contains")
      BY <1>1, <2>2, EdgesOfBatch
    <3> QED
      BY <2>2, <3>1, <3>2, <3>3
  <2> QED
    BY <1>1, <2>1, <2>2 DEF Hangs
<1>2. ASSUME QueryInv, subject \in Lots, place = "done", NEW n \in nodes
      PROVE  /\ n.type # "ingestion_batch"
             /\ \E l \in links : {l.from, l.to} = {n, EntityNode(subject)}
  BY <1>2, LotParts, LinkParts DEF LotInv
<1>3. ASSUME QueryInv, IInv, place = "done" PROVE OnlyEmptyBatchesStandApart
  <2>1. subject \in Subjects \union Lots
    BY <1>3 DEF QueryInv, AskInv
  <2> QED
    BY <1>1, <1>2, <1>3, <2>1 DEF OnlyEmptyBatchesStandApart
<1>4. QueryInv /\ IInv => OnlyEmptyBatchesStandApart
  BY <1>3 DEF OnlyEmptyBatchesStandApart
<1> QED
  BY <1>4, QueryInvariant, PTL

\* The origin that a graph shows for an exception is the BREAK it was raised for, unless
\* several calls worked on its run.
THEOREM ExceptionsShowTheirBreak == LineageSpec => []RaisedByItsBreak
<1>1. ASSUME QueryInv, IInv, IdsInv, NEW l \in links, NEW res \in results,
             l.from = ResultNode(res), l.type = "raised_exception", ~Mixed(root)
      PROVE  res.status = "BREAK" /\ ExceptionOf(res) = root
  <2>1. l.from.type = "recon_result" /\ l.from.call = res.call /\ res.call \in Calls
    BY <1>1, NodeParts DEF ResultNode, IInv, TypeOK, Result
  <2>2. subject \in Subjects /\ Sound(l)
    <3>1. subject \notin Lots
      <4> SUFFICES ASSUME subject \in Lots PROVE FALSE
        OBVIOUS
      <4>1. l \in LotLinks
        BY <1>1, LotParts DEF LotInv
      <4> QED
        BY <1>1, <2>1, <4>1, LotParts, LinkParts, LineageAssumption DEF LotLinks
    <3> QED
      BY <1>1, <3>1 DEF QueryInv, GraphInv
  <2>3. Origin(l)
    BY <1>1, <2>1, <2>2 DEF Sound, Ordinary
  <2>4. PICK own \in ResultsFor(root) : ResultNode(own) = ResultNode(res)
    BY <1>1, <2>3 DEF Origin
  <2>5. own.call = res.call /\ own.entity = res.entity
    BY <2>4, NodeParts DEF ResultNode
  <2>6. own = res
    BY <1>1, <2>5, OneResultPerEntity DEF ResultsFor
  <2>7. root \in exceptions
    BY <1>1, <2>2, <2>3, RootOfSubject DEF Origin
  <2>8. res.call = root.call /\ res.status = "BREAK" /\ res.reason = root.reason
    BY <1>1, <2>6, <2>7, ResultOfException
  <2>9. res.run = root.run /\ res.type = root.type /\ res.entity = root.entity
    BY <2>6 DEF ResultsFor
  <2>10. root \in Exception
    BY <1>1, <2>7 DEF IInv, TypeOK
  <2> QED
    BY <2>8, <2>9, <2>10 DEF ExceptionOf, Exception
<1>2. QueryInv /\ IInv /\ IdsInv => RaisedByItsBreak
  BY <1>1 DEF RaisedByItsBreak
<1> QED
  BY <1>2, QueryInvariant, PTL
=============================================================================
