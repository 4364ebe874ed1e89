----------------------------- MODULE ReplayProps -----------------------------
(***************************************************************************)
(* What a replay case is worth: what a capture expects of it, what its     *)
(* replays say, and which exceptions it can reproduce.                     *)
(***************************************************************************)
EXTENDS ReplayHarness

HarnessTypeOK ==
    /\ DOMAIN cases \subseteq Captures
    /\ \A k \in DOMAIN cases : cases[k] \in Case
    /\ at \in [Captures \union Replays -> CapturePlaces \union ReplayPlaces]
    /\ draft \in [Captures -> Row \union {NoDraft}]
    /\ job \in [Replays -> Job \union {NoJob}]

Judged(r) == job[r] # NoJob

\* A case expects what its exception says, a BREAK with the exception's reason code, unless
\* two calls of the engine have worked on the exception's run: GetReconResultForException
\* takes a result by its run and its entity, and any one of several.
ExpectsItsException ==
    \A k \in DOMAIN cases :
        LET row == cases[k].row IN
        row.expected = [status |-> "BREAK", reason |-> row.source.reason] \/ Mixed(row.source)

\* A case fails only when a replay regressed, which it can only if the capture expected a
\* MATCH: the case comes from a run that two calls of the engine have worked on.  A case of
\* any other run never fails, whatever its replays find.
FailingMeansMixedRun ==
    \A k \in DOMAIN cases : cases[k].status = "failing" =>
        /\ Mixed(cases[k].row.source)
        /\ \E r \in Replays : job[r].case = k /\ job[r].outcome = "regressed"

\* All the replays of a case say the same, whatever the feeds and the engine have written
\* in between (replay.md:88, domain-model.md:119).  CasesSpec says this and more.
ReplaysAgree ==
    \A a, b \in Replays :
        Judged(a) /\ Judged(b) /\ job[a].case = job[b].case =>
            job[a].verdict = job[b].verdict /\ job[a].outcome = job[b].outcome

\* The book of cases: the rows, their statuses, and what their replays have answered.
Contents == [k \in Captures |-> IF k \in DOMAIN cases THEN {cases[k].row} ELSE {}]
Marks == [k \in Captures |-> IF k \in DOMAIN cases THEN cases[k].status ELSE "absent"]
AnswersTo(k) ==
    {<<job[r].verdict, job[r].outcome>> : r \in {q \in Replays : Judged(q) /\ job[q].case = k}}
Answers == [k \in Captures |-> AnswersTo(k)]

Book == INSTANCE ReplayBook
    WITH Cases <- Captures, content <- Contents, mark <- Marks, answers <- Answers

\* The harness implements the book: concurrent captures and replays, whose updates of a
\* status race, fail and are lost, never rewrite what a case holds, never answer it in two
\* ways, and never flip a status once it is decided.
CasesSpec == Book!Spec

\* A case of the two records that the engine compared reproduces its exception: the replay
\* is unchanged, provided the engine works with the default config and one call of it
\* worked on the run.
FaithfulReplay ==
    \A r \in Replays :
        Judged(r) =>
            LET row == job[r].row
                x == row.source
            IN  /\ row.internal \in internal[x.call]
                /\ row.internal.id = x.entity
                /\ row.internal.key \in DOMAIN pairing[x.call]
                /\ row.custodian = pairing[x.call][row.internal.key]
                /\ ~Mixed(x)
                /\ Cfg = DefaultCfg
                => job[r].outcome = "unchanged"

\* service_test.go:201, replay.md:104: a missing snapshot is an error of the replay.  The
\* code's check is for an absent column; the missing record of an unmatched exception is
\* stored as a JSON null and judged as a record of zeros.
MissingSideIsAnError ==
    \A r \in Replays :
        Judged(r) => job[r].row.internal # Missing /\ job[r].row.custodian # Missing
=============================================================================
