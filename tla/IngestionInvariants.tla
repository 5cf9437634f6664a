------------------------ MODULE IngestionInvariants ------------------------
(***************************************************************************)
(* The facts about Ingestion that make its safety invariants inductive.    *)
(***************************************************************************)
EXTENDS Ingestion

\* An open transaction holds exactly the rows of the statements it has run.
TransactionRows ==
    \A r \in Requests :
        /\ call[r] = "insertJob" => inserted[r] = {"event"}
        /\ call[r] = "commit"    => inserted[r] = {"event", "job"}
        /\ call[r] \notin {"insertJob", "commit"} => inserted[r] = {}

\* What each branch of ingest knows of the stored row: the winner that its own
\* row is the one, the loser that there is one and, after the read, which.
BranchKnows ==
    \A r \in Requests :
        /\ call[r] = "publish" => stored[key(r)] = r
        /\ call[r] = "announceDuplicate" => /\ found[r] # None
                                            /\ found[r] = stored[key(r)]
        /\ answer[r] = "fresh" => found[r] = r
        /\ answer[r] # None => call[r] = "answered"

\* The inductive invariant.
IngestionInv ==
    /\ TypeOK
    /\ TransactionRows
    /\ OneHolder
    /\ EventHasItsJob
    /\ OriginalIsFound
    /\ BranchKnows
    /\ AnswersAreTrue
=============================================================================
