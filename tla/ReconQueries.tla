---------------------------- MODULE ReconQueries ----------------------------
(***************************************************************************)
(* Queries (internal/db/store.go) by which other parts of the system find  *)
(* what the engine wrote.  They look rows up by run and entity, which is   *)
(* not a key: when several calls worked on a run there are several rows,   *)
(* and each query returns one of them.                                     *)
(***************************************************************************)
EXTENDS ReconEngine

\* GetReconResultForException takes any one of these.
ResultsFor(x) ==
    {res \in results : res.run = x.run /\ res.type = x.type /\ res.entity = x.entity}

\* FindExceptionForEntity takes any one of these.
ExceptionsFor(res) ==
    {x \in exceptions : x.run = res.run /\ x.type = res.type /\ x.entity = res.entity}

\* GetPosition or GetTransaction.
RecordsOf(row) == {r \in records : r.type = row.type /\ r.id = row.entity}

\* Whether several calls of the engine have a result for the entity in its run.
Mixed(x) == \E a, b \in ResultsFor(x) : a.call # b.call
=============================================================================
