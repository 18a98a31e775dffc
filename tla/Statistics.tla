----------------------------- MODULE Statistics -----------------------------
(***************************************************************************)
(* GET /documents/statistics while the queue moves on.  get_statistics is  *)
(* three statements of one READ COMMITTED transaction: each of them sees   *)
(* the rows that are committed when it starts, so that the figures of one  *)
(* response come from three moments.  The documents change by the atomic   *)
(* steps of DocumentQueue, which DocumentRequests and the consumer         *)
(* implement.                                                              *)
(*                                                                         *)
(* A figure is kept as the set of the rows that went into it: the response *)
(* holds its cardinality (count) or a mean over it (avg), which is None if *)
(* and only if the set is empty.                                           *)
(***************************************************************************)
EXTENDS DocumentModel, FiniteSets

CONSTANTS
    EventIds,   \* as in DocumentQueue
    Reports,    \* the requests for statistics
    Times,      \* the instants that a client may ask for
    TopLimit    \* top_operators: limit = 10

ASSUME StatisticsAssumption ==
    /\ IsFiniteSet(Documents)
    /\ Times \subseteq Nat
    /\ TopLimit \in Nat \ {0}

VARIABLES
    documents,   \* as in DocumentQueue
    outbox,      \* as in DocumentQueue
    pc,          \* the statement that a report has come to
    period,      \* what it was asked for
    counted,     \* count_by_status: the rows of each group
    averaged,    \* average_processing_seconds: the rows under the mean
    top,         \* top_operators: the listed operators and their rows
    earlier      \* history: the reports that were complete when it began

Queue == INSTANCE DocumentQueue

figures == <<counted, averaged, top>>
vars    == <<documents, outbox, pc, period, figures, earlier>>

Period == [from_dt : Times, to_dt : Times]

\* A line of top_operators, and the list.
Line    == [total : (SUBSET Documents) \ {{}}, accepted : SUBSET Documents]
Ranking == UNION {[listed -> Line] : listed \in SUBSET Operators}
Nobody  == [o \in {} |-> <<>>]

TypeOK ==
    /\ Queue!TypeOK
    /\ pc       \in [Reports -> {"idle", "averaging", "ranking", "done", "failed"}]
    /\ period   \in [Reports -> Period \cup {<<>>}]
    /\ counted  \in [Reports -> [DocumentStatus -> SUBSET Documents]]
    /\ averaged \in [Reports -> SUBSET Documents]
    /\ top      \in [Reports -> Ranking]
    /\ \A r \in Reports : Cardinality(DOMAIN top[r]) <= TopLimit
    /\ earlier  \in [Reports -> SUBSET Reports]

Init ==
    /\ Queue!Init
    /\ pc       = [r \in Reports |-> "idle"]
    /\ period   = [r \in Reports |-> <<>>]
    /\ counted  = [r \in Reports |-> [s \in DocumentStatus |-> {}]]
    /\ averaged = [r \in Reports |-> {}]
    /\ top      = [r \in Reports |-> Nobody]
    /\ earlier  = [r \in Reports |-> {}]

----------------------------------------------------------------------------
\* WHERE created_at >= from_dt AND created_at <= to_dt.
CreatedIn(p) ==
    {d \in Documents : /\ documents[d].status # "absent"
                       /\ p.from_dt <= documents[d].created_at
                       /\ documents[d].created_at <= p.to_dt}

WithStatus(p, s) == {d \in CreatedIn(p) : documents[d].status = s}

\* decision_at and assigned_at are set exactly in the rows that are decided.
DecidedIn(p) == {d \in CreatedIn(p) : documents[d].status \in FinalStatus}

\* GROUP BY username, after the join with the operator of the document.
DecidedBy(p, o) == {d \in DecidedIn(p) : documents[d].assigned_to_id = o}

Deciders(p) == {o \in Operators : DecidedBy(p, o) # {}}

\* Mutant of TopOperators: the order without the limit.
AllDeciders(p) == {Deciders(p)}

\* ORDER BY total DESC LIMIT: which of the operators with equal totals are
\* listed is left open.
TopOperators(p) ==
    {listed \in SUBSET Deciders(p) :
        /\ Cardinality(listed) <= TopLimit
        /\ listed # Deciders(p) => Cardinality(listed) = TopLimit
        /\ \A o \in listed, other \in Deciders(p) \ listed :
              Cardinality(DecidedBy(p, o)) >= Cardinality(DecidedBy(p, other))}

----------------------------------------------------------------------------
\* The period is checked by StatsPeriodRequest, whose error is a 500; then
\* the first statement runs.
GetStatistics(r, p) ==
    /\ pc[r] = "idle"
    /\ period' = [period EXCEPT ![r] = p]
    /\ earlier' = [earlier EXCEPT ![r] = {e \in Reports : pc[e] = "done"}]
    /\ IF p.from_dt < p.to_dt
       THEN /\ pc' = [pc EXCEPT ![r] = "averaging"]
            /\ counted' = [counted EXCEPT ![r] = [s \in DocumentStatus |-> WithStatus(p, s)]]
       ELSE /\ pc' = [pc EXCEPT ![r] = "failed"]
            /\ UNCHANGED counted
    /\ UNCHANGED <<documents, outbox, averaged, top>>

\* Mutant of AverageProcessing: the mean of the accepted documents only.
AverageAccepted(r) ==
    /\ pc[r] = "averaging"
    /\ averaged' = [averaged EXCEPT ![r] = WithStatus(period[r], "accepted")]
    /\ pc' = [pc EXCEPT ![r] = "ranking"]
    /\ UNCHANGED <<documents, outbox, period, counted, top, earlier>>

AverageProcessing(r) ==
    /\ pc[r] = "averaging"
    /\ averaged' = [averaged EXCEPT ![r] = DecidedIn(period[r])]
    /\ pc' = [pc EXCEPT ![r] = "ranking"]
    /\ UNCHANGED <<documents, outbox, period, counted, top, earlier>>

RankOperators(r) ==
    /\ pc[r] = "ranking"
    /\ \E listed \in TopOperators(period[r]) :
          top' = [top EXCEPT ![r] = [o \in listed |->
             [ total    |-> DecidedBy(period[r], o),
               accepted |-> DecidedBy(period[r], o) \cap WithStatus(period[r], "accepted") ]]]
    /\ pc' = [pc EXCEPT ![r] = "done"]
    /\ UNCHANGED <<documents, outbox, period, counted, averaged, earlier>>

\* A statement fails, or the connection is lost: a 500.
StatementFails(r) ==
    /\ pc[r] \in {"averaging", "ranking"}
    /\ pc' = [pc EXCEPT ![r] = "failed"]
    /\ UNCHANGED <<documents, outbox, period, figures, earlier>>

QueueMoves ==
    /\ Queue!Next
    /\ UNCHANGED <<pc, period, figures, earlier>>

Report(r) ==
    \/ \E p \in Period : GetStatistics(r, p)
    \/ AverageProcessing(r)
    \/ RankOperators(r)
    \/ StatementFails(r)

Next == QueueMoves \/ \E r \in Reports : Report(r)

Spec == Init /\ [][Next]_vars

----------------------------------------------------------------------------
\* The figures of a response.
Total(r)   == UNION {counted[r][s] : s \in DocumentStatus}
Decided(r) == counted[r]["accepted"] \cup counted[r]["rejected"]
Ranked(r)  == UNION {top[r][o].total : o \in DOMAIN top[r]}
AveragedBy(r, o) == {d \in averaged[r] : documents[d].assigned_to_id = o}

\* The limit left o out for operators who have decided no less.
CutOff(r, o) ==
    /\ o \notin DOMAIN top[r]
    /\ Cardinality(DOMAIN top[r]) = TopLimit
    /\ \A listed \in DOMAIN top[r] :
          Cardinality(AveragedBy(r, o)) <= Cardinality(top[r][listed].total)

(* The three statements of one report may disagree, in one direction only: *)
(* what the counts show as decided is under the mean, and what is under    *)
(* the mean is in the total of its operator, unless the limit left that    *)
(* operator out for busier ones.  So the mean is not None when a decided   *)
(* document was counted, and an uncut list adds up to no less than         *)
(* accepted + rejected (get_statistics).                                   *)
StatementsAgree ==
    \A r \in Reports : pc[r] = "done" =>
        /\ Decided(r) \subseteq averaged[r]
        /\ \A d \in averaged[r] \ Ranked(r) : CutOff(r, documents[d].assigned_to_id)

(* Who asks for the same period again never sees less: no document leaves  *)
(* the total, goes back from decided, leaves the mean, or is taken from    *)
(* its operator, although redeliveries and claims go on in between.        *)
ReportsGrow ==
    \A r \in Reports : pc[r] = "done" => \A e \in earlier[r] : period[e] = period[r] =>
        /\ Total(e) \subseteq Total(r)
        /\ counted[r]["pending"] \cap Total(e) \subseteq counted[e]["pending"]
        /\ counted[e]["accepted"] \subseteq counted[r]["accepted"]
        /\ counted[e]["rejected"] \subseteq counted[r]["rejected"]
        /\ averaged[e] \subseteq averaged[r]
        /\ \A o \in DOMAIN top[e] \cap DOMAIN top[r] :
              /\ top[e][o].total \subseteq top[r][o].total
              /\ top[e][o].accepted \subseteq top[r][o].accepted
=============================================================================
