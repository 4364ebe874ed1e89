----------------------------- MODULE TrustProps -----------------------------
(***************************************************************************)
(* What a stored trust score says about the entity it is stored for.       *)
(***************************************************************************)
EXTENDS TrustService

Percent == 0 .. 100
ScoreRow == [components : [source : Percent, reconciliation : Percent, freshness : Percent,
                           completeness : Percent, review : Percent, anomaly : Percent],
             total : 0 .. 10000]
ScorerInput == [status : MatchStatuses, reason : ReasonCodes \union {NoReason},
                source : Sources, age : Int, present : 3 .. 4, review : Reviews]

TrustTypeOK ==
    /\ DOMAIN scores \subseteq Ids
    /\ \A e \in DOMAIN scores : scores[e] \in ScoreRow
    /\ DOMAIN review \subseteq exceptions
    /\ \A x \in DOMAIN review : review[x] \in ExceptionStatuses
    /\ age \in Ages
    /\ stage \in [Scorings -> Stages]
    /\ task \in [Scorings -> [exception : Exception \union {NoRow},
                              result : Result \union {NoRow}, review : Reviews,
                              input : ScorerInput \union {NoRow}]]

Scored(t) == task[t].input # NoRow
ByException(t) == task[t].exception # NoRow

\* The total and the components of a stored score belong together, though any number of
\* scorings of both kinds replace the row of an entity at the same time.
RowIsWhole == \A e \in DOMAIN scores : scores[e].total = Total(scores[e].components)

\* The board of scores: whose score each scoring works out, and what it has read for it.
TargetOf(t) ==
    IF ByException(t) THEN {task[t].exception.entity}
    ELSE {res.entity : res \in {task[t].result} \ {NoRow}}
ReadingOf(t) == {task[t].input} \ {NoRow}

Targets == [t \in Scorings |-> TargetOf(t)]
Readings == [t \in Scorings |-> ReadingOf(t)]
Over == {t \in Scorings : stage[t] \in {"scored", "failed"}}
Rows == [in \in ScorerInput |-> RowOf(in)]

Board == INSTANCE ScoreBoard
    WITH Entities <- Ids, Row <- Rows,
         target <- Targets, reading <- Readings, over <- Over, board <- scores

\* The service implements the board.  However many scorings of both kinds, lost writes, and
\* writes of the engine, the feeds and the operators run at once, a row of trust_scores is
\* one scoring's own, of one reading, complete, for the entity that scoring began with; a
\* scoring writes once; and no row is ever taken off or written by anything else.
BoardSpec == Board!Spec

\* The level of a stored score is earned: an entity with "High" has a result that is
\* no break, and one with "Low" has a break, whatever the age of the record, the state
\* of the review, the fields that are missing, and the reads that failed.
LevelIsEarned ==
    \A e \in DOMAIN scores :
        /\ Level(scores[e].total) = "High" =>
               \E res \in results : res.entity = e /\ res.status # "BREAK"
        /\ Level(scores[e].total) = "Low" =>
               \E res \in results : res.entity = e /\ res.status = "BREAK"

\* A scoring of an exception scores a break for the exception's reason, which is below 60
\* points even when the exception is resolved, unless two calls of the engine have worked
\* on its run: then the result it finds may be the other call's MATCH.
ExceptionScoresAsBreak ==
    \A t \in Scorings :
        Scored(t) /\ ByException(t) /\ ~Mixed(task[t].exception) =>
            /\ task[t].input.status = "BREAK"
            /\ task[t].input.reason = task[t].exception.reason
            /\ Score(task[t].input) < 6000

\* How far the total by a result is from the total by an exception, half of the review's
\* weight aside when the one by the result did not see the exception.
Gap(a, b) == Score(task[b].input) - Score(task[a].input)
                 - (IF task[b].input.review = NoException THEN 750 ELSE 0)

\* The two ways to the score of a broken record agree.  As long as nobody has reviewed,
\* scorings of one exception and of its result on the same day that read the same of the
\* record give the same total, or the one by the result did not see the exception, and is
\* higher by exactly half of the review's weight.  When a read of the record failed or a
\* feed came between, that moves the total by 2.5 points at most.
WaysAgree ==
    \A a, b \in Scorings :
        /\ Scored(a) /\ ByException(a) /\ ~Mixed(task[a].exception)
        /\ Scored(b) /\ ~ByException(b) /\ task[b].result \in ResultsFor(task[a].exception)
        /\ review = <<>>
        /\ task[a].input.age = task[b].input.age
        => /\ Gap(a, b) \in -250 .. 250
           /\ /\ task[a].input.source = task[b].input.source
              /\ task[a].input.present = task[b].input.present
              => Gap(a, b) = 0
=============================================================================
