----------------------------- MODULE ScoreBoard -----------------------------
(***************************************************************************)
(* What the trust scores promise of the board of scores, without the       *)
(* statements: a scoring settles once whose score it works out and once    *)
(* what it is worked out from, and posts the row of that, whole and at     *)
(* most once; nothing else touches the board, and an entity on it stays.   *)
(***************************************************************************)
CONSTANTS
    Scorings, Entities,
    Row       \* the row that each reading of an entity comes to

VARIABLES
    target,   \* of each scoring: {}, or the one entity it scores
    reading,  \* of each scoring: {}, or the one reading it has settled on
    over,     \* the scorings that have posted or given up
    board     \* the row of each entity that has one

vars == <<target, reading, over, board>>

Init ==
    /\ target = [t \in Scorings |-> {}]
    /\ reading = [t \in Scorings |-> {}]
    /\ over = {}
    /\ board = <<>>

Aim(t) ==
    /\ t \notin over
    /\ target[t] = {}
    /\ \E e \in Entities : target' = [target EXCEPT ![t] = {e}]
    /\ UNCHANGED <<reading, over, board>>

\* What is read is not the board's to say.
Settle(t) ==
    /\ t \notin over
    /\ target[t] # {} /\ reading[t] = {}
    /\ \E in \in reading'[t] : in \in DOMAIN Row /\ reading' = [reading EXCEPT ![t] = {in}]
    /\ UNCHANGED <<target, over, board>>

Posted(e, row) == [i \in DOMAIN board \union {e} |-> IF i = e THEN row ELSE board[i]]

\* A post may be lost, with the scoring none the wiser.
Post(t) ==
    /\ t \notin over
    /\ \E e \in target[t], in \in reading[t] : board' \in {board, Posted(e, Row[in])}
    /\ over' = over \union {t}
    /\ UNCHANGED <<target, reading>>

GiveUp(t) ==
    /\ t \notin over
    /\ over' = over \union {t}
    /\ target' = [target EXCEPT ![t] = {}]
    /\ reading' = [reading EXCEPT ![t] = {}]
    /\ UNCHANGED board

Next == \E t \in Scorings : Aim(t) \/ Settle(t) \/ Post(t) \/ GiveUp(t)

Spec == Init /\ [][Next]_vars
=============================================================================
