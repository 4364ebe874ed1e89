----------------------------- MODULE ExplainProps -----------------------------
(* What an explanation of an exception promises. *)
EXTENDS ExplainService

\* The explanation's state is well formed: what was read is what was asked for (service.go),
\* and the builders have what they assert of their records (builders.go).
ExplainTypeOK ==
    /\ at \in {"idle", "result", "run", "entity", "again", "pair", "done", "failed"}
    /\ exc \in Exception \union {NoRow}
    /\ found \in Result \union {NoRow}
    /\ pair \in [Sources -> Record \union {NoRow}]
    /\ lost \in BOOLEAN
    /\ at = "done" => Answer.kind # "panic"

-----------------------------------------------------------------------------
Says(kind) == at = "done" /\ Answer.kind = kind

\* What the call that raised the exception had loaded of a side, and what it compared.
LoadedOf(c, side) == IF side = "internal" THEN internal[c] ELSE custodian[c]
Compared(x, i, c) ==
    i \in internal[x.call] /\ i.key \in DOMAIN pairing[x.call] /\ c = pairing[x.call][i.key]

ValueOf(r, field) == IF field = "qty" THEN r.qty ELSE r.val

\* "Unmatched, no paired record found" is true when no read failed: the side named is the
\* one on which the engine had loaded no counterpart of the entity either.  (Of exceptions
\* that the engine raised: the seed's tax lot and its duplicate have no pair to be found.)
UnmatchedIsEarned ==
    Says("unmatched") /\ ~lost =>
        LET entity == pair[Opposite(Answer.missing)]
        IN  /\ exc.reason = "MAP_ACCOUNT_UNMAPPED"
            /\ entity # NoRow /\ entity.id = exc.entity /\ entity.source # Answer.missing
            /\ \A r \in LoadedOf(exc.call, Answer.missing) : r.key # entity.key

\* The records set side by side are the engine's pair, in the versions of now, unless a
\* second custodian record has their key.
ExplainsItsPair ==
    Says("diffs") /\ Counterparts(pair["internal"]) = {pair["custodian"]} =>
        \E i \in internal[exc.call], c \in custodian[exc.call] :
            /\ i.id = pair["internal"].id /\ i.id = exc.entity
            /\ c.id = pair["custodian"].id
            /\ Compared(exc, i, c)

\* An explanation that sets two equal values side by side is one of records that were
\* corrected, or are not the pair that the engine compared.
EqualMeansCorrected ==
    Says("diffs") /\ Compared(exc, pair["internal"], pair["custodian"]) =>
        \A f \in Answer.fields : ValueOf(pair["internal"], f) # ValueOf(pair["custodian"], f)

\* Only an unmatched record has no builder, and it is explained without one only when its
\* counterpart came after the engine had loaded that side.
GenericMeansLateCounterpart ==
    Says("generic") =>
        /\ exc.reason = "MAP_ACCOUNT_UNMAPPED"
        /\ \E side \in Sources :
              /\ pair[Opposite(side)].id = exc.entity
              /\ \A r \in LoadedOf(exc.call, side) : r.key # pair[side].key

\* The status and result shown are the BREAK the exception was raised for, unless several
\* calls worked on its run; they are blank only when a read failed.
ShowsItsBreak ==
    at = "done" =>
        /\ found = NoRow => lost
        /\ found # NoRow /\ ~Mixed(exc) => found.status = "BREAK" /\ ExceptionOf(found) = exc
=============================================================================
