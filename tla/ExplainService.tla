---------------------------- MODULE ExplainService ----------------------------
(***************************************************************************)
(* "Explain this break" (internal/explain/service.go, builders.go) beside  *)
(* the engine and the feeds that write the rows it reads.                  *)
(*                                                                         *)
(* The service reads the exception, a recon result, the run, the entity    *)
(* and its counterpart, each by a statement of its own, and builds the     *)
(* explanation from what it got.  Only the first read can fail it: without *)
(* any of the others it still explains, from records it takes to be        *)
(* missing.  The records are the live ones, not those the engine compared. *)
(*                                                                         *)
(* It writes nothing, so one explanation is enough.  A builder's texts are *)
(* left out, but for the fields whose two values it sets side by side.     *)
(***************************************************************************)
EXTENDS ReconQueries

VARIABLES
    at,       \* the read that is next
    exc,      \* the exception to explain
    found,    \* the recon result found for it
    pair,     \* the record of each side
    lost      \* whether a read failed, which the service does not tell

explanation == <<at, exc, found, pair, lost>>

NoRow == NoResult      \* a read that found nothing, or failed; a nil side

-----------------------------------------------------------------------------
(* Reads. *)

\* QueryRow ... LIMIT 1 returns any one of the rows, and pgx.ErrNoRows without any.
AnyOf(rows) == IF rows = {} THEN {NoRow} ELSE rows

\* The service treats a failed read and one without a row alike.
Answers(rows) ==
    {[row |-> r, lost |-> lost] : r \in AnyOf(rows)} \union {[row |-> NoRow, lost |-> TRUE]}

Opposite(source) == IF source = "custodian" THEN "internal" ELSE "custodian"

\* FindPairedPosition and FindPairedTransaction take any one of these.
Counterparts(r) ==
    {x \in records : x.type = r.type /\ x.key = r.key /\ x.source = Opposite(r.source)}

-----------------------------------------------------------------------------
(* BuildExplanation. *)

\* Fault: the price builder is registered for the quantity.
Builders_Swapped ==
    [POS_QUANTITY_MISMATCH |-> [type |-> "position", field |-> "val"],
     POS_PRICE_SOURCE_DIFF |-> [type |-> "position", field |-> "val"],
     TXN_DUPLICATE         |-> [type |-> "transaction", field |-> "val"],
     TXN_AMOUNT_MISMATCH   |-> [type |-> "transaction", field |-> "val"]]

\* Fault: a reason code of the rules has no builder.
Builders_NoDuplicate ==
    [POS_QUANTITY_MISMATCH |-> [type |-> "position", field |-> "qty"],
     POS_PRICE_SOURCE_DIFF |-> [type |-> "position", field |-> "val"],
     TXN_AMOUNT_MISMATCH   |-> [type |-> "transaction", field |-> "val"]]

\* Fault: the amount of a transaction is given to a position's builder.
Builders_ForPositions ==
    [POS_QUANTITY_MISMATCH |-> [type |-> "position", field |-> "qty"],
     POS_PRICE_SOURCE_DIFF |-> [type |-> "position", field |-> "val"],
     TXN_DUPLICATE         |-> [type |-> "transaction", field |-> "val"],
     TXN_AMOUNT_MISMATCH   |-> [type |-> "position", field |-> "val"]]

\* Which records each builder asserts to have, and the field whose difference it shows.
Builders ==
    [POS_QUANTITY_MISMATCH |-> [type |-> "position", field |-> "qty"],
     POS_PRICE_SOURCE_DIFF |-> [type |-> "position", field |-> "val"],
     TXN_DUPLICATE         |-> [type |-> "transaction", field |-> "val"],
     TXN_AMOUNT_MISMATCH   |-> [type |-> "transaction", field |-> "val"]]

\* A transaction's amount builder adds the quantity if it differs, too.
FieldDiffs(reason, i, c) ==
    {Builders[reason].field} \union
    {f \in {"qty"} : reason = "TXN_AMOUNT_MISMATCH" /\ i.qty # c.qty}

Explained(kind, missing, fields) == [kind |-> kind, missing |-> missing, fields |-> fields]

\* What the explanation says of the two sides.  A builder panics on a record of another type.
BuildExplanation(reason, i, c) ==
    CASE i = NoRow \/ c = NoRow ->
            Explained("unmatched", IF i = NoRow THEN "internal" ELSE "custodian", {})
      [] i # NoRow /\ c # NoRow /\ reason \notin DOMAIN Builders ->
            Explained("generic", NoReason, {})
      [] i # NoRow /\ c # NoRow /\ reason \in DOMAIN Builders ->
            IF i.type = Builders[reason].type /\ c.type = Builders[reason].type
            THEN Explained("diffs", NoReason, FieldDiffs(reason, i, c))
            ELSE Explained("panic", NoReason, {})

\* The answer, once the service is done.
Answer == BuildExplanation(exc.reason, pair["internal"], pair["custodian"])

-----------------------------------------------------------------------------
(* ExplainException. *)

LoadException ==
    /\ at = "idle"
    /\ \/ \E x \in exceptions : exc' = x /\ at' = "result"
       \/ at' = "failed" /\ UNCHANGED exc
    /\ UNCHANGED <<vars, found, pair, lost>>

\* Fault: the result is looked for by the entity alone.
LoadResult_AnyRun ==
    /\ at = "result"
    /\ \E a \in Answers({res \in results : res.entity = exc.entity}) :
          /\ found' = a.row
          /\ lost' = a.lost
          /\ at' = IF a.row = NoRow THEN "done" ELSE "run"
    /\ UNCHANGED <<vars, exc, pair>>

\* Without a result the explanation is partial: no result, no records.
LoadResult ==
    /\ at = "result"
    /\ \E a \in Answers(ResultsFor(exc)) :
          /\ found' = a.row
          /\ lost' = a.lost
          /\ at' = IF a.row = NoRow THEN "done" ELSE "run"
    /\ UNCHANGED <<vars, exc, pair>>

\* Without the run there are no records; of other entity types none are loaded.
LoadRun ==
    /\ at = "run"
    /\ \/ /\ at' = IF exc.type \in {"position", "transaction"} THEN "entity" ELSE "done"
          /\ UNCHANGED lost
       \/ at' = "done" /\ lost' = TRUE
    /\ UNCHANGED <<vars, exc, found, pair>>

\* The exception's own record, on its side.
LoadEntity ==
    /\ at = "entity"
    /\ \E a \in Answers(RecordsOf(exc)) :
          /\ pair' = IF a.row = NoRow THEN pair ELSE [pair EXCEPT ![a.row.source] = a.row]
          /\ lost' = a.lost
          /\ at' = IF a.row # NoRow THEN "pair"
                   ELSE IF exc.type = "position" THEN "again" ELSE "done"
    /\ UNCHANGED <<vars, exc, found>>

\* A position that could not be read is read once more, by the same statement, and then
\* taken to be the custodian's.
LoadAgain ==
    /\ at = "again"
    /\ \E a \in Answers(RecordsOf(exc)) :
          /\ pair' = [pair EXCEPT !["custodian"] = a.row]
          /\ lost' = a.lost
    /\ at' = "done"
    /\ UNCHANGED <<vars, exc, found>>

\* Fault: a custodian record without its counterpart is returned as the internal one.
FindPaired_OneSide ==
    /\ at = "pair"
    /\ \E side \in Sources : pair[side] # NoRow /\
       \E a \in Answers(Counterparts(pair[side])) :
          /\ pair' = IF a.row = NoRow
                     THEN [s \in Sources |-> IF s = "internal" THEN pair[side] ELSE NoRow]
                     ELSE [pair EXCEPT ![Opposite(side)] = a.row]
          /\ lost' = a.lost
    /\ at' = "done"
    /\ UNCHANGED <<vars, exc, found>>

\* Fault: the two records are returned the wrong way round.
FindPaired_Swapped ==
    /\ at = "pair"
    /\ \E side \in Sources : pair[side] # NoRow /\
       \E a \in Answers(Counterparts(pair[side])) :
          /\ pair' = [s \in Sources |-> IF s = side THEN a.row ELSE pair[side]]
          /\ lost' = a.lost
    /\ at' = "done"
    /\ UNCHANGED <<vars, exc, found>>

\* The counterpart, on the other side.
FindPaired ==
    /\ at = "pair"
    /\ \E side \in Sources : pair[side] # NoRow /\
       \E a \in Answers(Counterparts(pair[side])) :
          /\ pair' = [pair EXCEPT ![Opposite(side)] = a.row]
          /\ lost' = a.lost
    /\ at' = "done"
    /\ UNCHANGED <<vars, exc, found>>

Explain ==
    \/ LoadException \/ LoadResult \/ LoadRun \/ LoadEntity \/ LoadAgain \/ FindPaired

ExplainInit ==
    /\ Init
    /\ at = "idle"
    /\ exc = NoRow /\ found = NoRow
    /\ pair = [s \in Sources |-> NoRow]
    /\ lost = FALSE

ExplainNext ==
    \/ Next /\ UNCHANGED explanation
    \/ Explain

ExplainSpec == ExplainInit /\ [][ExplainNext]_<<vars, explanation>>
=============================================================================
