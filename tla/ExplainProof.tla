----------------------------- MODULE ExplainProof -----------------------------
(***************************************************************************)
(* Proofs about explanations, for any number of engine calls, whatever     *)
(* reads fail and whatever the feeds correct.                              *)
(*                                                                         *)
(* An explanation reads live records and the engine compared others, so    *)
(* everything rests on what the two have in common: no record ever goes    *)
(* away (PresentInv), and all versions of one have the same type, source   *)
(* and key (IdsInv).  A counterpart that the engine loaded is therefore    *)
(* still found under the same key, and what is not found was not loaded.   *)
(***************************************************************************)
EXTENDS ExplainProps, ReconEngineProof

\* What a call loaded is still there, in this version or a later one.
PresentInv ==
    \A c \in Calls : \A r \in internal[c] \union custodian[c] : \E s \in records : s.id = r.id

EngineInv == IInv /\ IdsInv /\ SupportedInv /\ TypesInv /\ PresentInv

\* A version of a record that is or was in the tables.
Version(r) == r \in Record /\ \A k \in Known : SameRecord(r, k)

\* The exception's own record is on its side.
Own(side) ==
    /\ pair[side] # NoRow
    /\ pair[side].id = exc.entity
    /\ pair[side].source = side

\* The engine had no counterpart of it.
NothingLoaded(side) ==
    \A r \in LoadedOf(exc.call, Opposite(side)) : r.key # pair[side].key

\* The other side has a counterpart of it.
Paired(side) ==
    /\ pair[Opposite(side)].type = pair[side].type
    /\ pair[Opposite(side)].key = pair[side].key
    /\ pair[Opposite(side)].source = Opposite(side)

Empty == [s \in Sources |-> NoRow]

ReadInv ==
    /\ at \in {"idle", "result", "run", "entity", "again", "pair", "done", "failed"}
    /\ lost \in BOOLEAN
    /\ at \notin {"idle", "failed"} => exc \in exceptions
    /\ exc \in exceptions \union {NoRow}
    /\ at \in {"idle", "failed", "result"} => found = NoRow
    /\ found # NoRow => found \in ResultsFor(exc)
    /\ at \in {"run", "entity", "again", "pair"} => found # NoRow
    /\ at \in {"idle", "result", "run", "entity", "pair"} => ~lost
    /\ at = "again" \/ (at = "done" /\ found = NoRow) => lost

PairInv ==
    /\ pair \in [Sources -> Record \union {NoRow}]
    /\ \A s \in Sources : pair[s] # NoRow => Version(pair[s])
    /\ at \notin {"pair", "done"} => pair = Empty
    /\ at = "pair" => \E s \in Sources : Own(s) /\ pair[Opposite(s)] = NoRow
    /\ at = "done" /\ lost => \E s \in Sources : pair[s] = NoRow
    /\ at = "done" /\ ~lost =>
          \E s \in Sources :
             /\ Own(s)
             /\ pair[Opposite(s)] = NoRow => NothingLoaded(s)
             /\ pair[Opposite(s)] # NoRow => Paired(s)

ExplainInv == ReadInv /\ PairInv

-----------------------------------------------------------------------------
(* The engine beside the explanation. *)

LEMMA InitPresentInv == Init => PresentInv
BY DEF Init, PresentInv

LEMMA PresentInvStays == TypeOK /\ PresentInv /\ [Next]_vars => PresentInv'
<1> SUFFICES ASSUME TypeOK, PresentInv, [Next]_vars PROVE PresentInv'
  OBVIOUS
<1> USE DEF snapshot, PresentInv
<1>1. CASE UNCHANGED <<records, snapshot>>
  BY <1>1
<1>2. ASSUME NEW f \in Feed, Ingest(f) PROVE PresentInv'
  BY <1>2 DEF Ingest
<1>3. ASSUME NEW c \in Calls, LoadInternal(c) \/ LoadCustodian(c) PROVE PresentInv'
  <2>1. /\ records' = records
        /\ \A d \in Calls : internal'[d] \subseteq internal[d] \union records
        /\ \A d \in Calls : custodian'[d] \subseteq custodian[d] \union records
    BY <1>3 DEF LoadInternal, LoadCustodian, Listed, TypeOK
  <2> QED
    BY <2>1
<1>4. ASSUME NEW c \in Calls,
             GetReconRun(c) \/ Crash(c) \/ (Step(c) /\ ~LoadInternal(c) /\ ~LoadCustodian(c))
      PROVE  UNCHANGED <<records, snapshot>>
  BY <1>4 DEF GetReconRun, Crash, Step, PersistResult, ReconciledAs, CreateException,
              CreateEvent, RaisedException, MarkCompleted, MarkFailed
<1> QED
  BY <1>1, <1>2, <1>3, <1>4 DEF Next, vars

LEMMA ExplainStepsAreEngineSteps == [ExplainNext]_<<vars, explanation>> => [Next]_vars
BY DEF ExplainNext, Explain, LoadException, LoadResult, LoadRun, LoadEntity, LoadAgain, FindPaired

THEOREM EngineBesideExplanation == ExplainSpec => []EngineInv
<1>1. ExplainInit => Init /\ SupportedInv /\ TypesInv /\ PresentInv
  BY InitSupportedInv, InitPresentInv DEF ExplainInit, Init, TypesInv
<1>2. TypeOK /\ SupportedInv /\ TypesInv /\ PresentInv /\ [Next]_vars
      => SupportedInv' /\ TypesInv' /\ PresentInv'
  BY SupportedInvStays, TypesInvStays, PresentInvStays
<1>3. IInv => TypeOK
  BY DEF IInv
<1>4. [ExplainNext]_<<vars, explanation>> => [Next]_vars
  BY ExplainStepsAreEngineSteps
<1> QED
  BY <1>1, <1>2, <1>3, <1>4, RecordIdentity, PTL DEF ExplainSpec, Spec, EngineInv

-----------------------------------------------------------------------------
(* What is behind an exception. *)

\* The call that raised an exception is past its loading and judged a record of its scope.
LEMMA BehindException ==
    ASSUME EngineInv, NEW x \in exceptions
    PROVE  /\ x \in Exception /\ x.call \in Calls
           /\ x.type \in {"position", "transaction"}
           /\ pc[x.call] \notin Early
           /\ \E r \in Scope(x.call) :
                 /\ r \in Record /\ r \in Known
                 /\ r.id = x.entity /\ r.type = x.type
                 /\ VerdictOn(x.call, r).status = "BREAK"
                 /\ VerdictOn(x.call, r).reason = x.reason
<1>1. x \in Exception /\ x.call \in Calls
  BY DEF EngineInv, IInv, TypeOK, Exception
<1>2. PICK res \in results : res.status = "BREAK" /\ ExceptionOf(res) = x
  BY DEF EngineInv, IInv, AuditChain
<1>3. /\ res.call = x.call /\ res.run = x.run /\ res.type = x.type
      /\ res.entity = x.entity /\ res.reason = x.reason
  BY <1>2 DEF ExceptionOf
<1>4. PICK r \in taken[x.call] :
         /\ res = ResultOf(x.call, r)
         /\ r.id = x.entity /\ r \in Scope(x.call)
         /\ VerdictOn(x.call, r).status = "BREAK" /\ VerdictOn(x.call, r).reason = x.reason
  BY <1>2, <1>3, ResultNamesRecord DEF EngineInv
<1>5. pc[x.call] \notin Early
  BY <1>1, <1>4 DEF EngineInv, IInv, PlaceInv, PlaceOf
<1>6. x.type \in {"position", "transaction"}
  BY <1>1, <1>3 DEF EngineInv, SupportedInv, Exception, EntityTypes
<1>7. r \in Record /\ r \in internal[x.call] \union custodian[x.call]
  BY <1>1, <1>4, ScopeIsRecords, ScopeIsLoaded DEF EngineInv, IInv
<1>8. r.type = x.type
  <2>1. r.type = RunType[run[x.call]]
    BY <1>1, <1>7 DEF EngineInv, TypesInv
  <2>2. ResultOf(x.call, r).type = RunType[run[x.call]]
    BY DEF ResultOf
  <2> QED
    BY <1>3, <1>4, <2>1, <2>2
<1> QED
  BY <1>1, <1>4, <1>5, <1>6, <1>7, <1>8 DEF Known

\* What the rules say of a pair names a builder for its type and a field that differs.
LEMMA ReasonHasBuilder ==
    ASSUME NEW conf \in Config, NEW int \in Record, NEW cust \in Record, NEW reason,
           Judge(conf, int, cust).status = "BREAK", Judge(conf, int, cust).reason = reason
    PROVE  /\ reason \in DOMAIN Builders
           /\ int.type = "position" => Builders[reason].type = "position"
           /\ int.type # "position" => Builders[reason].type = "transaction"
           /\ ValueOf(int, Builders[reason].field) # ValueOf(cust, Builders[reason].field)
<1>1. \A a \in Int, t \in Nat : ~Exceeds(a, a, t)
  BY DEF Exceeds, AbsDiff
<1>2. /\ int.qty \in Int /\ int.val \in Int /\ cust.qty \in Int /\ cust.val \in Int
      /\ conf.qty \in Nat /\ conf.price \in Nat
  BY DEF Record, Config
<1>3. \A code : Break(code).reason = code /\ Match.status # "BREAK"
  BY DEF Break, Match
<1>4. \/ /\ int.type = "position" /\ reason = "POS_QUANTITY_MISMATCH" /\ int.qty # cust.qty
      \/ /\ int.type = "position" /\ reason = "POS_PRICE_SOURCE_DIFF" /\ int.val # cust.val
      \/ /\ int.type # "position" /\ reason = "TXN_DUPLICATE" /\ int.val # cust.val
      \/ /\ int.type # "position" /\ reason = "TXN_AMOUNT_MISMATCH" /\ int.val # cust.val
  BY <1>1, <1>2, <1>3, JudgeByRule
<1> QED
  BY <1>4 DEF Builders, ValueOf

\* A record is unmapped because the call had none under its key on the other side; any other
\* break is of an internal record and the custodian record that its call paired it with.
LEMMA BreakCases ==
    ASSUME EngineInv, NEW c \in Calls, NEW r \in Scope(c), VerdictOn(c, r).status = "BREAK"
    PROVE  \/ /\ VerdictOn(c, r).reason = "MAP_ACCOUNT_UNMAPPED"
              /\ r.source = "internal" => \A s \in custodian[c] : s.key # r.key
              /\ r.source = "custodian" => \A s \in internal[c] : s.key # r.key
              /\ r.source \in Sources
           \/ /\ VerdictOn(c, r).reason \in DOMAIN Builders
              /\ Builders[VerdictOn(c, r).reason].type =
                    IF r.type = "position" THEN "position" ELSE "transaction"
              /\ r \in internal[c] /\ r.key \in DOMAIN pairing[c]
              /\ pairing[c][r.key] \in custodian[c] /\ pairing[c][r.key].key = r.key
              /\ ValueOf(r, Builders[VerdictOn(c, r).reason].field) #
                    ValueOf(pairing[c][r.key], Builders[VerdictOn(c, r).reason].field)
<1>1. /\ pairing[c] \in Pairings(custodian[c])
      /\ internal[c] \subseteq Record /\ custodian[c] \subseteq Record
  BY DEF EngineInv, IInv, TypeOK
<1>2. /\ DOMAIN pairing[c] = KeysOf(custodian[c])
      /\ \A k \in KeysOf(custodian[c]) : pairing[c][k] \in custodian[c] /\ pairing[c][k].key = k
  BY <1>1 DEF Pairings
<1>3. CASE r \in internal[c] /\ r.key \in DOMAIN pairing[c]
  <2>1. VerdictOn(c, r) = Judge(Cfg, r, pairing[c][r.key])
    BY <1>3 DEF VerdictOn
  <2>2. pairing[c][r.key] \in custodian[c] /\ pairing[c][r.key].key = r.key
    BY <1>2, <1>3
  <2>3. Cfg \in Config /\ r \in Record /\ pairing[c][r.key] \in Record
    BY <1>1, <1>3, <2>2, EngineAssumption
  <2> QED
    BY <1>3, <2>1, <2>2, <2>3, ReasonHasBuilder
<1>4. CASE ~(r \in internal[c] /\ r.key \in DOMAIN pairing[c])
  <2>1. VerdictOn(c, r).reason = "MAP_ACCOUNT_UNMAPPED"
    BY <1>4 DEF VerdictOn, Unmapped, Break
  <2>2. CASE r \in internal[c]
    <3>1. r.source = "internal"
      BY <2>2 DEF EngineInv, IdsInv
    <3>2. \A s \in custodian[c] : s.key # r.key
      BY <1>2, <1>4, <2>2 DEF KeysOf
    <3> QED
      BY <2>1, <3>1, <3>2 DEF Sources
  <2>3. CASE r \in Unmatched(c)
    <3>1. r.source = "custodian"
      BY <2>3 DEF Unmatched, EngineInv, IdsInv
    <3>2. \A s \in internal[c] : s.key # r.key
      BY <2>3 DEF Unmatched, KeysOf
    <3> QED
      BY <2>1, <3>1, <3>2 DEF Sources
  <2> QED
    BY <2>2, <2>3 DEF Scope
<1> QED
  BY <1>3, <1>4

-----------------------------------------------------------------------------
(* The pair and the records the engine had. *)

LEMMA LiveIsVersion == ASSUME EngineInv, NEW r \in records PROVE Version(r)
<1>1. r \in Known /\ r \in Record
  BY DEF Known, EngineInv, IInv, TypeOK
<1> QED
  BY <1>1 DEF Version, EngineInv, IdsInv

LEMMA OppositeSides ==
    \A s \in Sources : Opposite(s) \in Sources /\ Opposite(s) # s /\ Opposite(Opposite(s)) = s
BY DEF Sources, Opposite

\* The exception's own record is a version of the one the engine judged.
LEMMA OwnRecord ==
    ASSUME EngineInv, PairInv, exc \in exceptions, NEW s \in Sources, Own(s)
    PROVE  \E r \in Scope(exc.call) :
              /\ r \in Record /\ r.id = exc.entity /\ r.id = pair[s].id
              /\ r.type = exc.type /\ r.type = pair[s].type
              /\ r.source = s /\ r.key = pair[s].key
              /\ VerdictOn(exc.call, r).status = "BREAK"
              /\ VerdictOn(exc.call, r).reason = exc.reason
<1>1. PICK r \in Scope(exc.call) :
         /\ r \in Record /\ r \in Known
         /\ r.id = exc.entity /\ r.type = exc.type
         /\ VerdictOn(exc.call, r).status = "BREAK"
         /\ VerdictOn(exc.call, r).reason = exc.reason
  BY BehindException
<1>2. pair[s] # NoRow /\ pair[s].id = exc.entity /\ pair[s].source = s
  BY DEF Own
<1>3. SameRecord(pair[s], r)
  BY <1>1, <1>2 DEF PairInv, Version
<1> QED
  BY <1>1, <1>2, <1>3 DEF SameRecord

\* A record that the engine had loaded on a side is found there under its key, in the
\* version of now.
LEMMA LoadedIsFound ==
    ASSUME EngineInv, NEW c \in Calls, NEW r \in internal[c] \union custodian[c],
           NEW own, own.type = r.type, own.key = r.key, r.source = Opposite(own.source)
    PROVE  \E x \in Counterparts(own) : x.id = r.id
<1>1. PICK x \in records : x.id = r.id
  BY DEF EngineInv, PresentInv
<1>2. x \in Known /\ r \in Known
  BY DEF Known
<1>3. x.type = r.type /\ x.source = r.source /\ x.key = r.key
  BY <1>1, <1>2 DEF EngineInv, IdsInv, SameRecord
<1> QED
  BY <1>1, <1>3 DEF Counterparts

LEMMA LoadedSides ==
    ASSUME EngineInv, NEW c \in Calls, NEW s \in Sources, NEW r \in LoadedOf(c, s)
    PROVE  r \in internal[c] \union custodian[c] /\ r.source = s
BY DEF LoadedOf, Sources, EngineInv, IdsInv

\* What a query without a failure does not find, the engine had not loaded.
LEMMA NotFoundIsNotLoaded ==
    ASSUME EngineInv, PairInv, exc \in exceptions, NEW s \in Sources, Own(s),
           Counterparts(pair[s]) = {}
    PROVE  NothingLoaded(s)
<1> SUFFICES ASSUME NEW r \in LoadedOf(exc.call, Opposite(s)), r.key = pair[s].key PROVE FALSE
  BY DEF NothingLoaded
<1>1. exc.call \in Calls
  BY BehindException
<1>2. r \in internal[exc.call] \union custodian[exc.call] /\ r.source = Opposite(s)
  BY <1>1, LoadedSides, OppositeSides
<1>3. PICK q \in Scope(exc.call) : q.type = pair[s].type
  BY OwnRecord
<1>4. q \in internal[exc.call] \union custodian[exc.call]
  BY <1>3, ScopeIsLoaded
<1>5. r.type = pair[s].type
  BY <1>1, <1>2, <1>3, <1>4 DEF EngineInv, TypesInv
<1>6. pair[s].source = s
  BY DEF Own
<1> QED
  BY <1>1, <1>2, <1>5, <1>6, LoadedIsFound

-----------------------------------------------------------------------------
(* The invariant of an explanation. *)

LEMMA InitExplainInv == ExplainInit => ExplainInv
BY DEF ExplainInit, ExplainInv, ReadInv, PairInv, Empty, Version

\* The engine and the feeds take nothing from it.
LEMMA EngineStepKeepsExplanation ==
    ASSUME EngineInv, ExplainInv, [Next]_vars, UNCHANGED explanation
    PROVE  ExplainInv'
<1>1. at' = at /\ exc' = exc /\ found' = found /\ pair' = pair /\ lost' = lost
  BY DEF explanation
<1>2. results \subseteq results' /\ exceptions \subseteq exceptions'
  BY RowsStay
<1>3. ReadInv'
  BY <1>1, <1>2 DEF ExplainInv, ReadInv, ResultsFor
<1>4. \A r : Version(r) => Version(r)'
  BY KnownShrinks DEF Version, EngineInv, IInv
<1>5. ASSUME at = "done", NEW s \in Sources, NothingLoaded(s) PROVE NothingLoaded(s)'
  <2>1. exc \in exceptions
    BY <1>5 DEF ExplainInv, ReadInv
  <2>2. exc.call \in Calls /\ pc[exc.call] \notin Early
    BY <2>1, BehindException
  <2>3. internal'[exc.call] = internal[exc.call] /\ custodian'[exc.call] = custodian[exc.call]
    BY <2>2, SnapshotStays DEF EngineInv, IInv
  <2> QED
    BY <1>1, <1>5, <2>3 DEF NothingLoaded, LoadedOf
<1>6. \A s \in Sources : (Own(s) => Own(s)') /\ (Paired(s) => Paired(s)')
  BY <1>1 DEF Own, Paired
<1>7. PairInv'
  BY <1>1, <1>4, <1>5, <1>6 DEF ExplainInv, PairInv
<1> QED
  BY <1>3, <1>7 DEF ExplainInv

\* A read takes one of the rows there are, or none.
LEMMA AnswerOf ==
    ASSUME NEW rows, NEW a \in Answers(rows), NoRow \notin rows, lost \in BOOLEAN
    PROVE  /\ a.row = NoRow => a.lost \/ rows = {}
           /\ a.row # NoRow => a.row \in rows /\ a.lost = lost
           /\ lost => a.lost
           /\ a.lost \in BOOLEAN
<1>1. CASE a \in {[row |-> r, lost |-> lost] : r \in AnyOf(rows)}
  <2>1. PICK r \in AnyOf(rows) : a = [row |-> r, lost |-> lost]
    BY <1>1
  <2>2. a.row = r /\ a.lost = lost
    BY <2>1
  <2>3. r \in rows \/ (rows = {} /\ r = NoRow)
    BY DEF AnyOf
  <2> QED
    BY <2>2, <2>3
<1>2. CASE a = [row |-> NoRow, lost |-> TRUE]
  BY <1>2
<1> QED
  BY <1>1, <1>2 DEF Answers

LEMMA LoadExceptionKeeps ==
    ASSUME EngineInv, ExplainInv, LoadException PROVE ExplainInv'
<1>1. /\ at = "idle" /\ UNCHANGED <<vars, found, pair, lost>>
      /\ \/ exc' \in exceptions /\ at' = "result"
         \/ exc' = exc /\ at' = "failed"
  BY DEF LoadException
<1>2. found = NoRow /\ pair = Empty /\ ~lost
  <2>1. found = NoRow
    BY <1>1 DEF ExplainInv, ReadInv
  <2> QED
    BY <1>1, <2>1 DEF ExplainInv, ReadInv, PairInv
<1>3. exceptions' = exceptions
  BY <1>1 DEF vars, audit
<1>4. ReadInv'
  BY <1>1, <1>2, <1>3 DEF ExplainInv, ReadInv
<1>5. PairInv'
  BY <1>1, <1>2 DEF ExplainInv, PairInv, Empty
<1> QED
  BY <1>4, <1>5 DEF ExplainInv

LEMMA NoRowIsNoRecord ==
    ASSUME EngineInv
    PROVE  NoRow \notin results /\ NoRow \notin records
<1>1. \A r \in results : r.entity \in Ids
  BY DEF EngineInv, IInv, TypeOK, Result
<1>2. \A r \in records : r = [id |-> r.id, type |-> r.type, source |-> r.source, key |-> r.key,
                              qty |-> r.qty, val |-> r.val]
  BY DEF EngineInv, IInv, TypeOK, Record
<1>3. NoRow.entity = NoReason /\ NoRow = [entity |-> NoReason]
  BY DEF NoRow, NoResult
<1>4. NoRow \notin results
  BY <1>1, <1>3, EngineAssumption
<1>5. NoRow \notin records
  <2>1. DOMAIN NoRow = {"entity"}
    BY <1>3
  <2>2. \A r \in records : "id" \in DOMAIN r
    BY <1>2
  <2> QED
    BY <2>1, <2>2
<1> QED
  BY <1>4, <1>5

\* While the service reads, the tables stand still.
LEMMA ReadFrame ==
    ASSUME EngineInv, UNCHANGED vars
    PROVE  /\ exceptions' = exceptions /\ results' = results /\ records' = records
           /\ internal' = internal /\ custodian' = custodian
           /\ \A r : Version(r) => Version(r)'
<1>1. [Next]_vars
  OBVIOUS
<1>2. \A r : Version(r) => Version(r)'
  BY <1>1, KnownShrinks DEF Version, EngineInv, IInv
<1> QED
  BY <1>2 DEF vars, audit, snapshot

LEMMA LoadResultKeeps ==
    ASSUME EngineInv, ExplainInv, LoadResult PROVE ExplainInv'
<1>1. PICK a \in Answers(ResultsFor(exc)) :
         /\ at = "result" /\ found' = a.row /\ lost' = a.lost
         /\ at' = IF a.row = NoRow THEN "done" ELSE "run"
  BY DEF LoadResult
<1>2. UNCHANGED vars /\ exc' = exc /\ pair' = pair
  BY DEF LoadResult
<1>3. exc \in exceptions /\ ~lost /\ lost \in BOOLEAN /\ pair = Empty
  BY <1>1 DEF ExplainInv, ReadInv, PairInv
<1>4. ResultsFor(exc) # {} /\ NoRow \notin ResultsFor(exc)
  <2>1. PICK res \in results : ExceptionOf(res) = exc
    BY <1>3 DEF EngineInv, IInv, AuditChain
  <2>2. res \in ResultsFor(exc)
    BY <2>1 DEF ExceptionOf, ResultsFor
  <2> QED
    BY <2>2, NoRowIsNoRecord DEF ResultsFor
<1>5. /\ a.row = NoRow => a.lost
      /\ a.row # NoRow => a.row \in ResultsFor(exc) /\ a.lost = lost
      /\ a.lost \in BOOLEAN
  BY <1>1, <1>3, <1>4, AnswerOf
<1>6. exceptions' = exceptions /\ ResultsFor(exc)' = ResultsFor(exc)
  BY <1>2, ReadFrame DEF ResultsFor
<1>7. ReadInv'
  BY <1>1, <1>2, <1>3, <1>5, <1>6 DEF ExplainInv, ReadInv
<1>8. PairInv'
  BY <1>1, <1>2, <1>3, <1>5 DEF ExplainInv, PairInv, Empty, Sources
<1> QED
  BY <1>7, <1>8 DEF ExplainInv

LEMMA LoadRunKeeps ==
    ASSUME EngineInv, ExplainInv, LoadRun PROVE ExplainInv'
<1>1. /\ at = "run" /\ UNCHANGED <<vars, exc, found, pair>>
      /\ \/ lost' = lost /\ at' = IF exc.type \in {"position", "transaction"} THEN "entity" ELSE "done"
         \/ lost' = TRUE /\ at' = "done"
  BY DEF LoadRun
<1>2. exc \in exceptions /\ lost = FALSE /\ found # NoRow /\ pair = Empty
  BY <1>1 DEF ExplainInv, ReadInv, PairInv
<1>3. exc.type \in {"position", "transaction"}
  BY <1>2, BehindException
<1>4. exceptions' = exceptions /\ ResultsFor(exc)' = ResultsFor(exc)
  BY <1>1, ReadFrame DEF ResultsFor
<1>5. ReadInv'
  <2>1. /\ at' \in {"entity", "done"} /\ (at' = "entity" => ~lost') /\ lost' \in BOOLEAN
        /\ exc' = exc /\ found' = found
    BY <1>1, <1>2, <1>3
  <2>2. found \in ResultsFor(exc)
    BY <1>2 DEF ExplainInv, ReadInv
  <2> QED
    BY <1>2, <1>4, <2>1, <2>2 DEF ReadInv
<1>6. PairInv'
  BY <1>1, <1>2, <1>3 DEF ExplainInv, PairInv, Empty, Sources
<1> QED
  BY <1>5, <1>6 DEF ExplainInv

\* The record of an exception is there.
LEMMA EntityIsThere ==
    ASSUME EngineInv, exc \in exceptions
    PROVE  /\ RecordsOf(exc) # {} /\ NoRow \notin RecordsOf(exc)
           /\ \A r \in RecordsOf(exc) : Version(r) /\ r.id = exc.entity /\ r.source \in Sources
<1>1. PICK q \in Scope(exc.call) : q \in Known /\ q.id = exc.entity /\ q.type = exc.type
  BY BehindException
<1>2. q \in internal[exc.call] \union custodian[exc.call] /\ exc.call \in Calls
  BY <1>1, ScopeIsLoaded, BehindException
<1>3. PICK x \in records : x.id = q.id
  BY <1>2 DEF EngineInv, PresentInv
<1>4. x.type = q.type
  <2>1. x \in Known
    BY DEF Known
  <2> QED
    BY <1>1, <1>3, <2>1 DEF EngineInv, IdsInv, SameRecord
<1>5. x \in RecordsOf(exc)
  BY <1>1, <1>3, <1>4 DEF RecordsOf
<1>6. \A r \in RecordsOf(exc) : r \in records /\ r.id = exc.entity
  BY DEF RecordsOf
<1>7. \A r \in records : Version(r) /\ r.source \in Sources
  BY LiveIsVersion DEF Version, Record
<1> QED
  BY <1>5, <1>6, <1>7, NoRowIsNoRecord

LEMMA LoadEntityKeeps ==
    ASSUME EngineInv, ExplainInv, LoadEntity PROVE ExplainInv'
<1>1. PICK a \in Answers(RecordsOf(exc)) :
         /\ at = "entity" /\ lost' = a.lost
         /\ pair' = IF a.row = NoRow THEN pair ELSE [pair EXCEPT ![a.row.source] = a.row]
         /\ at' = IF a.row # NoRow THEN "pair"
                  ELSE IF exc.type = "position" THEN "again" ELSE "done"
  BY DEF LoadEntity
<1>2. UNCHANGED vars /\ exc' = exc /\ found' = found
  BY DEF LoadEntity
<1>3. /\ exc \in exceptions /\ lost = FALSE /\ found # NoRow /\ found \in ResultsFor(exc)
      /\ pair = Empty
  BY <1>1 DEF ExplainInv, ReadInv, PairInv
<1>4. /\ a.row = NoRow => a.lost
      /\ a.row # NoRow => a.row \in RecordsOf(exc) /\ a.lost = FALSE
      /\ a.lost \in BOOLEAN
  BY <1>1, <1>3, EntityIsThere, AnswerOf
<1>5. /\ exceptions' = exceptions /\ ResultsFor(exc)' = ResultsFor(exc)
      /\ \A r : Version(r) => Version(r)'
  BY <1>2, ReadFrame DEF ResultsFor
<1>6. ReadInv'
  <2>1. /\ at' \in {"pair", "again", "done"} /\ (at' = "pair" => ~lost') /\ lost' \in BOOLEAN
        /\ at' # "pair" => lost'
    BY <1>1, <1>4
  <2> QED
    BY <1>2, <1>3, <1>5, <2>1 DEF ReadInv
<1>7. CASE a.row = NoRow
  <2>1. pair' = Empty /\ lost' /\ at' \in {"again", "done"}
    BY <1>1, <1>3, <1>4, <1>7
  <2>2. PairInv'
    BY <2>1 DEF PairInv, Empty, Sources
  <2> QED
    BY <1>6, <2>2 DEF ExplainInv
<1>8. CASE a.row # NoRow
  <2> DEFINE side == a.row.source
  <2>1. /\ side \in Sources /\ a.row.id = exc.entity /\ Version(a.row)
        /\ at' = "pair" /\ ~lost'
    BY <1>1, <1>3, <1>4, <1>8, EntityIsThere
  <2>2. pair' = [Empty EXCEPT ![side] = a.row]
    BY <1>1, <1>3, <1>8
  <2>3. pair'[side] = a.row /\ pair'[Opposite(side)] = NoRow
    BY <2>1, <2>2, OppositeSides DEF Empty
  <2>4. \A s \in Sources : pair'[s] = NoRow \/ pair'[s] = a.row
    BY <2>1, <2>2 DEF Empty
  <2>5. DOMAIN pair' = Sources /\ pair' = [s \in Sources |-> pair'[s]]
    BY <2>2 DEF Empty
  <2>6. a.row \in Record /\ Version(a.row)'
    BY <1>5, <2>1 DEF Version
  <2>7. Own(side)'
    BY <1>2, <1>8, <2>1, <2>3 DEF Own
  <2>8. pair' \in [Sources -> Record \union {NoRow}]
    BY <2>4, <2>5, <2>6
  <2>9. \A s \in Sources : pair'[s] # NoRow => Version(pair[s])'
    BY <2>4, <2>6
  <2> HIDE DEF side
  <2>10. PairInv'
    BY <2>1, <2>3, <2>7, <2>8, <2>9 DEF PairInv
  <2> QED
    BY <1>6, <2>10 DEF ExplainInv
<1> QED
  BY <1>7, <1>8

LEMMA LoadAgainKeeps ==
    ASSUME EngineInv, ExplainInv, LoadAgain PROVE ExplainInv'
<1>1. PICK a \in Answers(RecordsOf(exc)) :
         pair' = [pair EXCEPT !["custodian"] = a.row] /\ lost' = a.lost
  BY DEF LoadAgain
<1>2. at = "again" /\ at' = "done" /\ UNCHANGED vars /\ exc' = exc /\ found' = found
  BY DEF LoadAgain
<1>3. /\ exc \in exceptions /\ lost /\ lost \in BOOLEAN
      /\ found # NoRow /\ found \in ResultsFor(exc) /\ pair = Empty
  BY <1>2 DEF ExplainInv, ReadInv, PairInv
<1>4. /\ lost' /\ lost' \in BOOLEAN
      /\ a.row # NoRow => a.row \in RecordsOf(exc)
  BY <1>1, <1>3, EntityIsThere, AnswerOf
<1>5. /\ exceptions' = exceptions /\ ResultsFor(exc)' = ResultsFor(exc)
      /\ \A r : Version(r) => Version(r)'
  BY <1>2, ReadFrame DEF ResultsFor
<1>6. ReadInv'
  BY <1>2, <1>3, <1>4, <1>5 DEF ReadInv
<1>7. a.row # NoRow => a.row \in Record /\ Version(a.row)'
  BY <1>3, <1>4, <1>5, EntityIsThere DEF Version
<1>8. /\ pair' \in [Sources -> Record \union {NoRow}]
      /\ \A s \in Sources : pair'[s] = NoRow \/ pair'[s] = a.row
      /\ pair'["internal"] = NoRow /\ "internal" \in Sources
  BY <1>1, <1>3, <1>7 DEF Empty, Sources
<1>9. \A s \in Sources : pair'[s] # NoRow => Version(pair[s])'
  BY <1>7, <1>8
<1>10. PairInv'
  BY <1>2, <1>4, <1>8, <1>9 DEF PairInv
<1> QED
  BY <1>6, <1>10 DEF ExplainInv

LEMMA FindPairedKeeps ==
    ASSUME EngineInv, ExplainInv, FindPaired PROVE ExplainInv'
<1>1. PICK side \in Sources :
         /\ pair[side] # NoRow
         /\ \E a \in Answers(Counterparts(pair[side])) :
               pair' = [pair EXCEPT ![Opposite(side)] = a.row] /\ lost' = a.lost
  BY DEF FindPaired
<1>2. PICK a \in Answers(Counterparts(pair[side])) :
         pair' = [pair EXCEPT ![Opposite(side)] = a.row] /\ lost' = a.lost
  BY <1>1
<1>3. at = "pair" /\ at' = "done" /\ UNCHANGED vars /\ exc' = exc /\ found' = found
  BY DEF FindPaired
<1>4. /\ exc \in exceptions /\ lost = FALSE
      /\ found # NoRow /\ found \in ResultsFor(exc)
      /\ pair \in [Sources -> Record \union {NoRow}] /\ PairInv
  BY <1>3 DEF ExplainInv, ReadInv, PairInv
<1>5. Own(side) /\ pair[Opposite(side)] = NoRow
  <2>1. PICK s \in Sources : Own(s) /\ pair[Opposite(s)] = NoRow
    BY <1>3, <1>4 DEF PairInv
  <2>2. s = side
    BY <1>1, <2>1 DEF Sources, Opposite
  <2> QED
    BY <2>1, <2>2
<1>6. /\ a.row = NoRow => a.lost \/ Counterparts(pair[side]) = {}
      /\ a.row # NoRow => a.row \in Counterparts(pair[side]) /\ a.lost = FALSE
      /\ a.lost \in BOOLEAN
  <2>1. NoRow \notin Counterparts(pair[side])
    BY NoRowIsNoRecord DEF Counterparts
  <2> QED
    BY <1>2, <1>4, <2>1, AnswerOf
<1>7. /\ exceptions' = exceptions /\ ResultsFor(exc)' = ResultsFor(exc)
      /\ internal' = internal /\ custodian' = custodian
      /\ \A r : Version(r) => Version(r)'
  BY <1>3, ReadFrame DEF ResultsFor
<1>8. ReadInv'
  BY <1>2, <1>3, <1>4, <1>6, <1>7 DEF ReadInv
<1>9. a.row # NoRow =>
         /\ a.row \in Record /\ Version(a.row)'
         /\ a.row.type = pair[side].type /\ a.row.key = pair[side].key
         /\ a.row.source = Opposite(side)
  <2>1. pair[side].source = side
    BY <1>5 DEF Own
  <2>2. a.row # NoRow => Version(a.row)
    BY <1>6, LiveIsVersion DEF Counterparts
  <2> QED
    BY <1>6, <1>7, <2>1, <2>2 DEF Counterparts, Version
<1>10. /\ pair'[Opposite(side)] = a.row /\ pair'[side] = pair[side]
       /\ pair' \in [Sources -> Record \union {NoRow}]
  BY <1>2, <1>4, <1>9, OppositeSides
<1>11. \A s \in Sources : s = side \/ s = Opposite(side)
  BY DEF Sources, Opposite
<1>12. \A s \in Sources : pair'[s] # NoRow => Version(pair[s])'
  <2>1. Version(pair[side])'
    BY <1>1, <1>4, <1>7, <1>10 DEF PairInv
  <2> QED
    BY <1>9, <1>10, <1>11, <2>1
<1>13. Own(side)'
  BY <1>3, <1>5, <1>10 DEF Own
<1>14. pair'[Opposite(side)] # NoRow => Paired(side)'
  BY <1>9, <1>10 DEF Paired
<1>15. ~lost' /\ pair'[Opposite(side)] = NoRow => NothingLoaded(side)'
  <2>1. ~lost' /\ pair'[Opposite(side)] = NoRow => NothingLoaded(side)
    BY <1>2, <1>4, <1>5, <1>6, <1>10, NotFoundIsNotLoaded
  <2> QED
    BY <1>3, <1>7, <1>10, <2>1 DEF NothingLoaded, LoadedOf
<1>16. lost' => pair'[Opposite(side)] = NoRow
  BY <1>2, <1>6, <1>10
<1>17. PairInv'
  BY <1>3, <1>10, <1>12, <1>13, <1>14, <1>15, <1>16, OppositeSides DEF PairInv
<1> QED
  BY <1>8, <1>17 DEF ExplainInv

THEOREM ExplanationInvariant == ExplainSpec => [](ExplainInv /\ EngineInv)
<1>1. ExplainInv /\ EngineInv /\ [ExplainNext]_<<vars, explanation>> => ExplainInv'
  <2> SUFFICES ASSUME ExplainInv, EngineInv, [ExplainNext]_<<vars, explanation>>
               PROVE  ExplainInv'
    OBVIOUS
  <2>1. CASE [Next]_vars /\ UNCHANGED explanation
    BY <2>1, EngineStepKeepsExplanation
  <2>2. CASE Explain
    BY <2>2, LoadExceptionKeeps, LoadResultKeeps, LoadRunKeeps, LoadEntityKeeps, LoadAgainKeeps,
       FindPairedKeeps DEF Explain
  <2> QED
    BY <2>1, <2>2 DEF ExplainNext
<1> QED
  BY <1>1, InitExplainInv, EngineBesideExplanation, PTL DEF ExplainSpec

-----------------------------------------------------------------------------
(* What an explanation promises. *)

\* The answer by what the two sides are.
LEMMA AnswerKinds ==
    /\ Answer.kind = "unmatched" =>
          \/ pair["internal"] = NoRow /\ Answer.missing = "internal"
          \/ pair["internal"] # NoRow /\ pair["custodian"] = NoRow /\ Answer.missing = "custodian"
    /\ Answer.kind # "unmatched" => pair["internal"] # NoRow /\ pair["custodian"] # NoRow
    /\ Answer.kind = "generic" => exc.reason \notin DOMAIN Builders
    /\ Answer.kind = "diffs" =>
          /\ exc.reason \in DOMAIN Builders
          /\ Answer.fields = FieldDiffs(exc.reason, pair["internal"], pair["custodian"])
    /\ Answer.kind = "panic" =>
          /\ exc.reason \in DOMAIN Builders
          /\ \/ pair["internal"].type # Builders[exc.reason].type
             \/ pair["custodian"].type # Builders[exc.reason].type
<1> DEFINE i == pair["internal"]
           c == pair["custodian"]
<1>1. CASE i = NoRow \/ c = NoRow
  <2>1. Answer = Explained("unmatched", IF i = NoRow THEN "internal" ELSE "custodian", {})
    BY <1>1 DEF Answer, BuildExplanation
  <2> QED
    BY <1>1, <2>1 DEF Explained
<1>2. CASE i # NoRow /\ c # NoRow /\ exc.reason \notin DOMAIN Builders
  <2>1. Answer = Explained("generic", NoReason, {})
    BY <1>2 DEF Answer, BuildExplanation
  <2> QED
    BY <1>2, <2>1 DEF Explained
<1>3. CASE i # NoRow /\ c # NoRow /\ exc.reason \in DOMAIN Builders
  <2>1. Answer = IF i.type = Builders[exc.reason].type /\ c.type = Builders[exc.reason].type
                 THEN Explained("diffs", NoReason, FieldDiffs(exc.reason, i, c))
                 ELSE Explained("panic", NoReason, {})
    BY <1>3 DEF Answer, BuildExplanation
  <2> QED
    BY <1>3, <2>1 DEF Explained
<1> QED
  BY <1>1, <1>2, <1>3

\* A finished explanation with two records has them on their sides, one of them the
\* exception's own and the other its counterpart.
LEMMA BothSides ==
    ASSUME EngineInv, ExplainInv, at = "done", pair["internal"] # NoRow, pair["custodian"] # NoRow
    PROVE  /\ exc \in exceptions
           /\ pair["internal"] \in Record /\ pair["custodian"] \in Record
           /\ \E s \in Sources : Own(s) /\ Paired(s)
<1>1. exc \in exceptions
  BY DEF ExplainInv, ReadInv
<1>2. \A s \in Sources : pair[s] # NoRow /\ Version(pair[s])
  BY DEF ExplainInv, PairInv, Sources
<1>3. ~lost
  BY <1>2 DEF ExplainInv, PairInv
<1>4. PICK s \in Sources : Own(s) /\ (pair[Opposite(s)] # NoRow => Paired(s))
  BY <1>3 DEF ExplainInv, PairInv
<1>5. Paired(s)
  BY <1>2, <1>4, OppositeSides
<1> QED
  BY <1>1, <1>2, <1>4, <1>5 DEF Version, Sources

\* Builders never get a record of another type, whatever was read.
THEOREM ExplanationTypes == ExplainSpec => []ExplainTypeOK
<1>1. ASSUME EngineInv, ExplainInv, at = "done", Answer.kind = "panic" PROVE FALSE
  <2>1. /\ exc.reason \in DOMAIN Builders /\ exc \in exceptions
        /\ \/ pair["internal"].type # Builders[exc.reason].type
           \/ pair["custodian"].type # Builders[exc.reason].type
    BY <1>1, AnswerKinds, BothSides
  <2>2. PICK s \in Sources : Own(s) /\ Paired(s)
    BY <1>1, AnswerKinds, BothSides
  <2>3. PICK r \in Scope(exc.call) :
           /\ r.type = exc.type /\ r.type = pair[s].type
           /\ VerdictOn(exc.call, r).status = "BREAK"
           /\ VerdictOn(exc.call, r).reason = exc.reason
    BY <1>1, <2>1, <2>2, OwnRecord DEF ExplainInv
  <2>4. /\ exc.reason # "MAP_ACCOUNT_UNMAPPED"
        /\ exc.type \in {"position", "transaction"} /\ exc.call \in Calls
    BY <1>1, <2>1, BehindException DEF Builders
  <2>5. Builders[exc.reason].type = exc.type
    BY <1>1, <2>3, <2>4, BreakCases
  <2>6. pair["internal"].type = exc.type /\ pair["custodian"].type = exc.type
    BY <2>2, <2>3 DEF Paired, Sources, Opposite
  <2> QED
    BY <2>1, <2>5, <2>6
<1>2. ASSUME EngineInv, ExplainInv PROVE ExplainTypeOK
  <2>1. exceptions \subseteq Exception /\ results \subseteq Result
    BY <1>2 DEF EngineInv, IInv, TypeOK
  <2>2. found \in Result \union {NoRow} /\ exc \in Exception \union {NoRow}
    BY <1>2, <2>1 DEF ExplainInv, ReadInv, ResultsFor
  <2>3. at = "done" => Answer.kind # "panic"
    BY <1>1, <1>2
  <2> QED
    BY <1>2, <2>2, <2>3 DEF ExplainTypeOK, ExplainInv, ReadInv, PairInv
<1> QED
  BY <1>2, ExplanationInvariant, PTL

\* Without a failed read, "unmatched" is the truth about what the engine had.
THEOREM UnmatchedIsTrue == ExplainSpec => []UnmatchedIsEarned
<1>1. ASSUME EngineInv, ExplainInv, Says("unmatched"), ~lost
      PROVE  LET entity == pair[Opposite(Answer.missing)]
             IN  /\ exc.reason = "MAP_ACCOUNT_UNMAPPED"
                 /\ entity # NoRow /\ entity.id = exc.entity /\ entity.source # Answer.missing
                 /\ \A r \in LoadedOf(exc.call, Answer.missing) : r.key # entity.key
  <2>1. at = "done" /\ exc \in exceptions
    BY <1>1 DEF Says, ExplainInv, ReadInv
  <2>2. PICK s \in Sources : Own(s) /\ (pair[Opposite(s)] = NoRow => NothingLoaded(s))
    BY <1>1, <2>1 DEF ExplainInv, PairInv
  <2>3. Answer.missing = Opposite(s) /\ pair[Opposite(s)] = NoRow
    BY <1>1, <2>2, AnswerKinds DEF Says, Own, Sources, Opposite
  <2>4. NothingLoaded(s) /\ Opposite(Answer.missing) = s
    BY <2>2, <2>3, OppositeSides
  <2>5. PICK r \in Scope(exc.call) :
           /\ r.source = s /\ r.key = pair[s].key
           /\ VerdictOn(exc.call, r).status = "BREAK"
           /\ VerdictOn(exc.call, r).reason = exc.reason
    BY <1>1, <2>1, <2>2, OwnRecord DEF ExplainInv
  <2>6. exc.call \in Calls
    BY <1>1, <2>1, BehindException
  <2>7. exc.reason = "MAP_ACCOUNT_UNMAPPED"
    <3>1. CASE r \in internal[exc.call] /\ r.key \in DOMAIN pairing[exc.call]
                /\ pairing[exc.call][r.key] \in custodian[exc.call]
                /\ pairing[exc.call][r.key].key = r.key
      <4>1. r.source = "internal"
        BY <1>1, <2>6, <3>1 DEF EngineInv, IdsInv
      <4>2. LoadedOf(exc.call, Opposite(s)) = custodian[exc.call]
        BY <2>5, <4>1 DEF LoadedOf, Opposite
      <4> QED
        BY <2>4, <2>5, <3>1, <4>2 DEF NothingLoaded
    <3> QED
      BY <1>1, <2>5, <2>6, <3>1, BreakCases
  <2> QED
    BY <2>2, <2>3, <2>4, <2>7, OppositeSides DEF Own, NothingLoaded
<1>2. EngineInv /\ ExplainInv => UnmatchedIsEarned
  BY <1>1 DEF UnmatchedIsEarned
<1> QED
  BY <1>2, ExplanationInvariant, PTL

\* What is explained by a pair was found broken by a pair, of the same two records when they
\* are the only ones with their key.
LEMMA ExplainedByPair ==
    ASSUME EngineInv, ExplainInv, Says("diffs")
    PROVE  \E r \in internal[exc.call] :
              /\ exc \in exceptions /\ exc.call \in Calls
              /\ pair["internal"].id = exc.entity /\ r.id = exc.entity
              /\ r.type = pair["internal"].type /\ r.key = pair["internal"].key
              /\ pair["internal"].source = "internal"
              /\ r.key \in DOMAIN pairing[exc.call]
              /\ pairing[exc.call][r.key] \in custodian[exc.call]
              /\ pairing[exc.call][r.key].key = r.key
              /\ ValueOf(r, Builders[exc.reason].field) #
                    ValueOf(pairing[exc.call][r.key], Builders[exc.reason].field)
<1>1. /\ at = "done" /\ exc.reason \in DOMAIN Builders
      /\ pair["internal"] # NoRow /\ pair["custodian"] # NoRow
  BY AnswerKinds DEF Says
<1>2. PICK s \in Sources : Own(s)
  BY <1>1, BothSides
<1>3. exc \in exceptions /\ exc.call \in Calls
  BY <1>1, BothSides, BehindException
<1>4. PICK r \in Scope(exc.call) :
         /\ r.id = exc.entity /\ r.type = pair[s].type /\ r.source = s /\ r.key = pair[s].key
         /\ VerdictOn(exc.call, r).status = "BREAK"
         /\ VerdictOn(exc.call, r).reason = exc.reason
  BY <1>2, <1>3, OwnRecord DEF ExplainInv
<1>5. /\ r \in internal[exc.call] /\ r.key \in DOMAIN pairing[exc.call]
      /\ pairing[exc.call][r.key] \in custodian[exc.call]
      /\ pairing[exc.call][r.key].key = r.key
      /\ ValueOf(r, Builders[exc.reason].field) #
            ValueOf(pairing[exc.call][r.key], Builders[exc.reason].field)
  <2>1. exc.reason # "MAP_ACCOUNT_UNMAPPED"
    BY <1>1 DEF Builders
  <2> QED
    BY <1>3, <1>4, <2>1, BreakCases
<1>6. s = "internal"
  BY <1>3, <1>4, <1>5 DEF EngineInv, IdsInv
<1> QED
  BY <1>2, <1>3, <1>4, <1>5, <1>6 DEF Own

\* The records set side by side are those the engine compared, in the versions of now.
THEOREM PairIsTheEnginesPair == ExplainSpec => []ExplainsItsPair
<1>1. ASSUME EngineInv, ExplainInv, Says("diffs"),
             Counterparts(pair["internal"]) = {pair["custodian"]}
      PROVE  \E i \in internal[exc.call], c \in custodian[exc.call] :
                /\ i.id = pair["internal"].id /\ i.id = exc.entity
                /\ c.id = pair["custodian"].id
                /\ Compared(exc, i, c)
  <2>1. PICK r \in internal[exc.call] :
           /\ exc \in exceptions /\ exc.call \in Calls
           /\ pair["internal"].id = exc.entity /\ r.id = exc.entity
           /\ r.type = pair["internal"].type /\ r.key = pair["internal"].key
           /\ pair["internal"].source = "internal"
           /\ r.key \in DOMAIN pairing[exc.call]
           /\ pairing[exc.call][r.key] \in custodian[exc.call]
           /\ pairing[exc.call][r.key].key = r.key
    BY <1>1, ExplainedByPair
  <2> DEFINE c == pairing[exc.call][r.key]
  <2>2. c.source = Opposite(pair["internal"].source) /\ c.type = pair["internal"].type
    BY <1>1, <2>1 DEF EngineInv, IdsInv, TypesInv, Opposite
  <2>3. PICK x \in Counterparts(pair["internal"]) : x.id = c.id
    BY <1>1, <2>1, <2>2, LoadedIsFound
  <2>4. c.id = pair["custodian"].id
    BY <1>1, <2>3
  <2>5. Compared(exc, r, c)
    BY <2>1 DEF Compared
  <2> QED
    BY <2>1, <2>4, <2>5
<1>2. EngineInv /\ ExplainInv => ExplainsItsPair
  BY <1>1 DEF ExplainsItsPair
<1> QED
  BY <1>2, ExplanationInvariant, PTL

\* Two values that do not differ are not those the engine compared.
THEOREM EqualValuesWereCorrected == ExplainSpec => []EqualMeansCorrected
<1>1. ASSUME EngineInv, ExplainInv, Says("diffs"),
             Compared(exc, pair["internal"], pair["custodian"]), NEW f \in Answer.fields
      PROVE  ValueOf(pair["internal"], f) # ValueOf(pair["custodian"], f)
  <2>1. PICK r \in internal[exc.call] :
           /\ exc.call \in Calls
           /\ pair["internal"].id = exc.entity /\ r.id = exc.entity
           /\ ValueOf(r, Builders[exc.reason].field) #
                 ValueOf(pairing[exc.call][r.key], Builders[exc.reason].field)
    BY <1>1, ExplainedByPair
  <2>2. /\ pair["internal"] \in internal[exc.call]
        /\ pair["custodian"] = pairing[exc.call][pair["internal"].key]
    BY <1>1 DEF Compared
  <2>3. r = pair["internal"]
    BY <1>1, <2>1, <2>2, LoadedIds DEF EngineInv
  <2>4. f \in FieldDiffs(exc.reason, pair["internal"], pair["custodian"])
    BY <1>1, AnswerKinds DEF Says
  <2>5. CASE f = Builders[exc.reason].field
    BY <2>1, <2>2, <2>3, <2>5
  <2>6. CASE f = "qty" /\ pair["internal"].qty # pair["custodian"].qty
    BY <2>6 DEF ValueOf
  <2> QED
    BY <2>4, <2>5, <2>6 DEF FieldDiffs
<1>2. EngineInv /\ ExplainInv => EqualMeansCorrected
  BY <1>1 DEF EqualMeansCorrected
<1> QED
  BY <1>2, ExplanationInvariant, PTL

\* Only a counterpart that came late is explained without a builder.
THEOREM GenericIsLate == ExplainSpec => []GenericMeansLateCounterpart
<1>1. ASSUME EngineInv, ExplainInv, Says("generic")
      PROVE  /\ exc.reason = "MAP_ACCOUNT_UNMAPPED"
             /\ \E side \in Sources :
                   /\ pair[Opposite(side)].id = exc.entity
                   /\ \A r \in LoadedOf(exc.call, side) : r.key # pair[side].key
  <2>1. /\ at = "done" /\ exc.reason \notin DOMAIN Builders
        /\ pair["internal"] # NoRow /\ pair["custodian"] # NoRow
    BY <1>1, AnswerKinds DEF Says
  <2>2. PICK s \in Sources : Own(s) /\ Paired(s) /\ exc \in exceptions
    BY <1>1, <2>1, BothSides
  <2>3. PICK r \in Scope(exc.call) :
           /\ r.source = s /\ r.key = pair[s].key
           /\ VerdictOn(exc.call, r).status = "BREAK"
           /\ VerdictOn(exc.call, r).reason = exc.reason
    BY <1>1, <2>2, OwnRecord DEF ExplainInv
  <2>4. exc.call \in Calls
    BY <1>1, <2>2, BehindException
  <2>5. /\ exc.reason = "MAP_ACCOUNT_UNMAPPED"
        /\ r.source = "internal" => \A x \in custodian[exc.call] : x.key # r.key
        /\ r.source = "custodian" => \A x \in internal[exc.call] : x.key # r.key
    BY <1>1, <2>1, <2>3, <2>4, BreakCases
  <2>6. \A x \in LoadedOf(exc.call, Opposite(s)) : x.key # r.key
    BY <2>3, <2>5 DEF LoadedOf, Opposite, Sources
  <2>7. pair[Opposite(Opposite(s))].id = exc.entity /\ pair[Opposite(s)].key = r.key
    BY <2>2, <2>3, OppositeSides DEF Own, Paired
  <2> QED
    BY <2>5, <2>6, <2>7, OppositeSides
<1>2. EngineInv /\ ExplainInv => GenericMeansLateCounterpart
  BY <1>1 DEF GenericMeansLateCounterpart
<1> QED
  BY <1>2, ExplanationInvariant, PTL

\* The result shown is the BREAK the exception was raised for.
THEOREM ShownResultIsTheBreak == ExplainSpec => []ShowsItsBreak
<1>1. ASSUME EngineInv, ExplainInv, at = "done"
      PROVE  /\ found = NoRow => lost
             /\ found # NoRow /\ ~Mixed(exc) => found.status = "BREAK" /\ ExceptionOf(found) = exc
  <2>1. (found = NoRow => lost) /\ exc \in exceptions
    BY <1>1 DEF ExplainInv, ReadInv
  <2>2. ASSUME found # NoRow, ~Mixed(exc)
        PROVE  found.status = "BREAK" /\ ExceptionOf(found) = exc
    <3>1. found \in ResultsFor(exc)
      BY <1>1, <2>2 DEF ExplainInv, ReadInv
    <3>2. found.call = exc.call /\ found.status = "BREAK" /\ found.reason = exc.reason
      BY <1>1, <2>1, <2>2, <3>1, ResultOfException DEF EngineInv
    <3>3. found.run = exc.run /\ found.type = exc.type /\ found.entity = exc.entity
      BY <3>1 DEF ResultsFor
    <3>4. exc \in Exception
      BY <1>1, <2>1 DEF EngineInv, IInv, TypeOK
    <3> QED
      BY <3>2, <3>3, <3>4 DEF ExceptionOf, Exception
  <2> QED
    BY <2>1, <2>2
<1>2. EngineInv /\ ExplainInv => ShowsItsBreak
  BY <1>1 DEF ShowsItsBreak
<1> QED
  BY <1>2, ExplanationInvariant, PTL
=============================================================================
