-------------------------- MODULE StatisticsProofs --------------------------
(***************************************************************************)
(* The figures of a report agree, and grow, for any number of documents,   *)
(* operators and reports.                                                  *)
(*                                                                         *)
(* Neither property is inductive, since the documents move on under a      *)
(* report.  The invariant says what survives: a row that went into a       *)
(* figure has the status of that figure still, or a later one (Counted,    *)
(* Averaged, Listed), because DocumentQueue only ever moves forward.  Each *)
(* statement then finds at least the rows of the statements before it, of  *)
(* its own report and of the earlier ones (Follows).                       *)
(***************************************************************************)
EXTENDS Statistics, FiniteSetTheorems, TLAPS

Promise == INSTANCE DocumentQueueProofs

\* How far a report is.
HasCounts(r) == pc[r] \in {"averaging", "ranking", "done"}
HasMean(r)   == pc[r] \in {"ranking", "done"}

Counted(r) ==
    /\ period[r] \in Period
    /\ \A s \in DocumentStatus : counted[r][s] \subseteq CreatedIn(period[r])
    /\ \A s \in FinalStatus : counted[r][s] \subseteq WithStatus(period[r], s)
    /\ \A s \in DocumentStatus \ {"pending"} :
          \A d \in counted[r][s] : documents[d].status # "pending"

Averaged(r) ==
    /\ Decided(r) \subseteq averaged[r]
    /\ averaged[r] \subseteq DecidedIn(period[r])

Listed(r) ==
    /\ \A o \in DOMAIN top[r] :
          /\ top[r][o].total \subseteq DecidedBy(period[r], o)
          /\ top[r][o].accepted \subseteq
                top[r][o].total \cap WithStatus(period[r], "accepted")
    /\ \A d \in averaged[r] \ Ranked(r) : CutOff(r, documents[d].assigned_to_id)

\* What a report shows beside an earlier one of the same period.
CountsFollow(r, e) ==
    /\ Total(e) \subseteq Total(r)
    /\ counted[r]["pending"] \cap Total(e) \subseteq counted[e]["pending"]
    /\ \A s \in FinalStatus : counted[e][s] \subseteq counted[r][s]

RankingFollows(r, e) ==
    \A o \in DOMAIN top[e] \cap DOMAIN top[r] :
        /\ top[e][o].total \subseteq top[r][o].total
        /\ top[e][o].accepted \subseteq top[r][o].accepted

Follows(r, e) ==
    /\ pc[e] = "done"
    /\ period[e] = period[r] =>
          /\ HasCounts(r)   => CountsFollow(r, e)
          /\ HasMean(r)     => averaged[e] \subseteq averaged[r]
          /\ pc[r] = "done" => RankingFollows(r, e)

Shown(r) ==
    /\ HasCounts(r)   => Counted(r)
    /\ HasMean(r)     => Averaged(r)
    /\ pc[r] = "done" => Listed(r)
    /\ pc[r] # "idle" => \A e \in earlier[r] : Follows(r, e)

IInv ==
    /\ Promise!IInv
    /\ TypeOK
    /\ \A r \in Reports : Shown(r)

-----------------------------------------------------------------------------
(* The queue below the reports.                                            *)

LEMMA QueueStep == Queue!Next => Promise!Next
BY DEF Queue!Next, Promise!Next, Queue!Insert, Promise!Insert, Queue!Claim,
       Promise!Claim, Queue!Decide, Promise!Decide, Queue!InsertPending,
       Promise!InsertPending, Queue!PendingRow, Promise!PendingRow,
       Queue!Absent, Promise!Absent, Queue!ClaimedRow, Promise!ClaimedRow,
       Queue!DecidedRow, Promise!DecidedRow, Queue!ValidDecision,
       Promise!ValidDecision, Queue!DecidableBy, Promise!DecidableBy,
       Queue!OutputMessage, Promise!OutputMessage, Queue!DocumentStatus,
       Promise!DocumentStatus, Queue!FinalStatus, Promise!FinalStatus

\* What a row keeps when the queue moves.
Later(d) ==
    /\ documents[d].status # "absent" =>
          /\ documents'[d].status # "absent"
          /\ documents'[d].created_at = documents[d].created_at
    /\ documents[d].status \notin {"absent", "pending"} =>
          documents'[d].status # "pending"
    /\ documents[d].status \in FinalStatus => documents'[d] = documents[d]

(* The steps of DocumentQueue keep its invariant and lose nothing that a   *)
(* report has counted.                                                     *)
LEMMA QueueForward ==
    ASSUME Promise!IInv, QueueMoves
    PROVE  Promise!IInv' /\ \A d \in Documents : Later(d)
<1>1. Promise!Next
  BY QueueStep DEF QueueMoves
<1>2. Promise!IInv'
  BY <1>1, Promise!NextIInv, DocumentModelAssumption
<1>3. \A d \in Documents : Promise!Forward(documents[d], documents'[d])
  BY <1>1, Promise!Moves, DocumentModelAssumption
<1>4. \A d \in Documents : documents[d] \in Promise!Row
  BY DEF Promise!IInv, Promise!TypeOK
<1>5. \A d \in Documents : Later(d)
  BY <1>3, <1>4 DEF Later, Promise!Forward, Promise!FinalStatus, FinalStatus,
     Promise!Row, Promise!DocumentStatus
<1> QED
  BY <1>2, <1>5

LEMMA RowsGrow ==
    ASSUME NEW p \in Period, \A d \in Documents : Later(d)
    PROVE  /\ CreatedIn(p) \subseteq CreatedIn(p)'
           /\ \A s \in FinalStatus : WithStatus(p, s) \subseteq WithStatus(p, s)'
           /\ DecidedIn(p) \subseteq DecidedIn(p)'
           /\ \A o : DecidedBy(p, o) \subseteq DecidedBy(p, o)'
<1>1. CreatedIn(p) \subseteq CreatedIn(p)'
  BY DEF CreatedIn, Later
<1>2. \A d \in Documents : documents[d].status \in FinalStatus => documents'[d] = documents[d]
  BY DEF Later
<1>3. /\ \A s \in FinalStatus : WithStatus(p, s) \subseteq WithStatus(p, s)'
      /\ DecidedIn(p) \subseteq DecidedIn(p)'
  BY <1>1, <1>2 DEF WithStatus, DecidedIn, CreatedIn
<1>4. \A o : DecidedBy(p, o) \subseteq DecidedBy(p, o)'
  BY <1>2, <1>3 DEF DecidedBy, DecidedIn, CreatedIn
<1> QED
  BY <1>1, <1>3, <1>4
-----------------------------------------------------------------------------
(* Types.                                                                  *)

LEMMA SameTypes == Promise!TypeOK <=> Queue!TypeOK
BY DEF Promise!TypeOK, Queue!TypeOK, Promise!Row, Queue!Row,
       Promise!DocumentStatus, Queue!DocumentStatus, Promise!OutboxEvent,
       Queue!OutboxEvent, Promise!Message, Queue!Message,
       Promise!FinalStatus, Queue!FinalStatus

(* The first statement finds rows of the table (count_by_status).          *)
LEMMA GetStatisticsType ==
    ASSUME TypeOK, NEW r \in Reports, NEW p \in Period, GetStatistics(r, p)
    PROVE  TypeOK'
<1> USE DEF TypeOK, GetStatistics
<1>1. Queue!TypeOK'
  BY DEF Queue!TypeOK
<1>2. [s \in DocumentStatus |-> WithStatus(p, s)] \in [DocumentStatus -> SUBSET Documents]
  BY DEF WithStatus, CreatedIn
<1>3. counted' \in [Reports -> [DocumentStatus -> SUBSET Documents]]
  BY <1>2
<1>4. pc' \in [Reports -> {"idle", "averaging", "ranking", "done", "failed"}]
  OBVIOUS
<1>5. period' \in [Reports -> Period \cup {<<>>}]
  OBVIOUS
<1>6. earlier' \in [Reports -> SUBSET Reports]
  OBVIOUS
<1> QED
  BY <1>1, <1>3, <1>4, <1>5, <1>6

LEMMA AverageProcessingType ==
    ASSUME TypeOK, NEW r \in Reports, AverageProcessing(r)
    PROVE  TypeOK'
<1> USE DEF TypeOK, AverageProcessing
<1>1. Queue!TypeOK'
  BY DEF Queue!TypeOK
<1>2. averaged' \in [Reports -> SUBSET Documents]
  BY DEF DecidedIn, CreatedIn
<1>3. pc' \in [Reports -> {"idle", "averaging", "ranking", "done", "failed"}]
  OBVIOUS
<1> QED
  BY <1>1, <1>2, <1>3

(* The list has a line for each listed operator, and no more of them than  *)
(* LIMIT allows (top_operators).                                           *)
LEMMA RankOperatorsType ==
    ASSUME TypeOK, NEW r \in Reports, RankOperators(r)
    PROVE  TypeOK'
<1>1. PICK listed \in TopOperators(period[r]) :
         top' = [top EXCEPT ![r] = [o \in listed |->
            [ total    |-> DecidedBy(period[r], o),
              accepted |-> DecidedBy(period[r], o) \cap WithStatus(period[r], "accepted") ]]]
  BY DEF RankOperators
<1> DEFINE list == [o \in listed |->
            [ total    |-> DecidedBy(period[r], o),
              accepted |-> DecidedBy(period[r], o) \cap WithStatus(period[r], "accepted") ]]
<1>2. /\ listed \in SUBSET Operators
      /\ Cardinality(listed) <= TopLimit
      /\ \A o \in listed : DecidedBy(period[r], o) # {}
  BY DEF TopOperators, Deciders
<1>3. \A o \in listed : list[o] \in Line
  BY <1>2 DEF Line, DecidedBy, DecidedIn, CreatedIn, WithStatus
<1>4. list \in [listed -> Line]
  BY <1>3
<1>5. list \in Ranking
  BY <1>2, <1>4 DEF Ranking
<1>6. DOMAIN list = listed
  OBVIOUS
<1> HIDE DEF list
<1>7. top' = [top EXCEPT ![r] = list]
  BY <1>1 DEF list
<1>8. /\ top' \in [Reports -> Ranking]
      /\ \A x \in Reports : Cardinality(DOMAIN top'[x]) <= TopLimit
  BY <1>2, <1>5, <1>6, <1>7 DEF TypeOK
<1>9. Queue!TypeOK'
  BY DEF TypeOK, RankOperators, Queue!TypeOK
<1> QED
  BY <1>8, <1>9 DEF TypeOK, RankOperators

LEMMA StatementFailsType ==
    ASSUME TypeOK, NEW r \in Reports, StatementFails(r)
    PROVE  TypeOK'
<1>1. Queue!TypeOK'
  BY DEF TypeOK, StatementFails, Queue!TypeOK
<1> QED
  BY <1>1 DEF TypeOK, StatementFails, figures
-----------------------------------------------------------------------------
(* What a report shows survives the steps of the queue and of the others.  *)

Kept(x) ==
    /\ pc'[x] = pc[x]
    /\ period'[x] = period[x]
    /\ counted'[x] = counted[x]
    /\ averaged'[x] = averaged[x]
    /\ top'[x] = top[x]
    /\ earlier'[x] = earlier[x]

LEMMA KeptCounted ==
    ASSUME NEW x \in Reports, Counted(x), Kept(x), \A d \in Documents : Later(d)
    PROVE  Counted(x)'
<1>0. PICK p \in Period : p = period[x]
  BY DEF Counted
<1>1. /\ \A s \in DocumentStatus : counted[x][s] \subseteq CreatedIn(p)
      /\ \A s \in FinalStatus : counted[x][s] \subseteq WithStatus(p, s)
      /\ \A s \in DocumentStatus \ {"pending"} :
            \A d \in counted[x][s] : documents[d].status # "pending"
  BY <1>0 DEF Counted
<1>2. /\ CreatedIn(p) \subseteq CreatedIn(p)'
      /\ \A s \in FinalStatus : WithStatus(p, s) \subseteq WithStatus(p, s)'
  BY <1>0, RowsGrow
<1>3. /\ \A s \in DocumentStatus : counted[x][s] \subseteq CreatedIn(p)'
      /\ \A s \in FinalStatus : counted[x][s] \subseteq WithStatus(p, s)'
  BY <1>1, <1>2
<1>4. \A s \in DocumentStatus \ {"pending"} :
         \A d \in counted[x][s] : documents'[d].status # "pending"
  BY <1>1 DEF CreatedIn, Later
<1>5. period'[x] = p /\ counted'[x] = counted[x]
  BY <1>0 DEF Kept
<1> QED
  BY <1>1, <1>3, <1>4, <1>5 DEF Counted, CreatedIn, WithStatus

LEMMA KeptAveraged ==
    ASSUME NEW x \in Reports, period[x] \in Period, Averaged(x), Kept(x),
           \A d \in Documents : Later(d)
    PROVE  Averaged(x)'
<1>1. DecidedIn(period[x]) \subseteq DecidedIn(period[x])'
  BY RowsGrow DEF Kept, DecidedIn, CreatedIn
<1>2. Decided(x)' = Decided(x)
  BY DEF Kept, Decided
<1> QED
  BY <1>1, <1>2 DEF Averaged, Kept

(* Who decided a document under the mean stays known, and so does whom the *)
(* limit left out.                                                         *)
LEMMA KeptListed ==
    ASSUME NEW x \in Reports, period[x] \in Period, Averaged(x), Listed(x),
           Kept(x), \A d \in Documents : Later(d)
    PROVE  Listed(x)'
<1> DEFINE p == period[x]
<1>1. /\ \A o : DecidedBy(p, o) \subseteq {d \in Documents : documents'[d].status \in FinalStatus}
      /\ period'[x] = p /\ top'[x] = top[x] /\ averaged'[x] = averaged[x]
  BY DEF DecidedBy, DecidedIn, CreatedIn, Later, Kept
<1>2. \A d \in averaged[x] : documents'[d] = documents[d]
  BY DEF Averaged, DecidedIn, CreatedIn, Later
<1>3. \A o : AveragedBy(x, o)' = AveragedBy(x, o)
  BY <1>1, <1>2 DEF AveragedBy
<1>4. Ranked(x)' = Ranked(x)
  BY <1>1 DEF Ranked
<1>5. \A o : CutOff(x, o) => CutOff(x, o)'
  BY <1>1, <1>3 DEF CutOff
<1>6. \A d \in (averaged[x] \ Ranked(x))' : CutOff(x, documents[d].assigned_to_id)'
  BY <1>1, <1>2, <1>4, <1>5 DEF Listed
<1>7. \A o : DecidedBy(p, o) \subseteq DecidedBy(p, o)'
  BY RowsGrow, <1>1 DEF DecidedBy, DecidedIn, CreatedIn
<1>8. WithStatus(p, "accepted") \subseteq WithStatus(p, "accepted")'
  BY RowsGrow, <1>1 DEF FinalStatus, WithStatus, CreatedIn
<1> QED
  BY <1>1, <1>6, <1>7, <1>8 DEF Listed

LEMMA KeptFollows ==
    ASSUME NEW x \in Reports, NEW e \in Reports, Follows(x, e), Kept(x), Kept(e)
    PROVE  Follows(x, e)'
<1>1. /\ HasCounts(x)' <=> HasCounts(x)
      /\ HasMean(x)' <=> HasMean(x)
  BY DEF Kept, HasCounts, HasMean
<1>2. Total(x)' = Total(x) /\ Total(e)' = Total(e)
  BY DEF Kept, Total
<1>3. CountsFollow(x, e) => CountsFollow(x, e)'
  BY <1>2 DEF Kept, CountsFollow
<1>4. RankingFollows(x, e) => RankingFollows(x, e)'
  BY DEF Kept, RankingFollows
<1> QED
  BY <1>1, <1>3, <1>4 DEF Kept, Follows

LEMMA KeptShown ==
    ASSUME TypeOK, NEW x \in Reports, Shown(x), Kept(x),
           \A e \in earlier[x] : pc[e] = "done" => Kept(e),
           \A d \in Documents : Later(d)
    PROVE  Shown(x)'
<1>1. HasCounts(x)' => Counted(x)'
  BY KeptCounted DEF Shown, HasCounts, Kept
<1>2. HasMean(x)' => Averaged(x)'
  BY KeptAveraged DEF Shown, HasCounts, HasMean, Kept, Counted
<1>3. (pc[x] = "done")' => Listed(x)'
  BY KeptListed DEF Shown, HasCounts, HasMean, Kept, Counted
<1>4. ASSUME (pc[x] # "idle")', NEW e \in earlier'[x] PROVE Follows(x, e)'
  <2>1. e \in earlier[x] /\ e \in Reports /\ Follows(x, e)
    BY <1>4 DEF Shown, Kept, TypeOK
  <2>2. Kept(e)
    BY <2>1 DEF Follows
  <2> QED
    BY <2>1, <2>2, KeptFollows
<1> QED
  BY <1>1, <1>2, <1>3, <1>4 DEF Shown
-----------------------------------------------------------------------------
(* Each statement finds the rows of the statements before it.              *)

LEMMA GetStatisticsShown ==
    ASSUME IInv, NEW r \in Reports, NEW p \in Period, GetStatistics(r, p)
    PROVE  Shown(r)'
<1>1. /\ documents' = documents /\ averaged' = averaged /\ top' = top
      /\ period'[r] = p
      /\ earlier'[r] = {e \in Reports : pc[e] = "done"}
      /\ pc'[r] \in {"averaging", "failed"}
      /\ \A e \in earlier'[r] : pc'[e] = "done" /\ period'[e] = period[e]
  BY DEF GetStatistics, IInv, TypeOK
<1>2. CASE pc'[r] = "failed"
  BY <1>1, <1>2 DEF Shown, Follows, HasCounts, HasMean
<1>3. CASE pc'[r] = "averaging"
  <2>1. /\ counted'[r] = [s \in DocumentStatus |-> WithStatus(p, s)]
        /\ \A e \in earlier'[r] : counted'[e] = counted[e]
    BY <1>1, <1>3 DEF GetStatistics, IInv, TypeOK
  <2>2. \A s \in DocumentStatus : counted'[r][s] = WithStatus(p, s)
    BY <2>1
  <2>3. FinalStatus \subseteq DocumentStatus \ {"pending"}
    BY DEF FinalStatus, DocumentStatus
  <2>4. Counted(r)'
    BY <1>1, <2>2, <2>3 DEF Counted, WithStatus, CreatedIn
  <2>5. ASSUME NEW e \in Reports, e \in earlier'[r], period[e] = p
        PROVE  CountsFollow(r, e)'
    <3>1. Counted(e)
      BY <1>1, <2>5 DEF IInv, Shown, HasCounts
    <3>2. Total(e)' = Total(e)
      BY <2>1, <2>5 DEF Total
    <3>3. ASSUME NEW d \in Total(e)
          PROVE  /\ d \in Total(r)'
                 /\ d \in counted'[r]["pending"] => d \in counted[e]["pending"]
      <4>1. PICK s \in DocumentStatus : d \in counted[e][s]
        BY <3>3 DEF Total
      <4>2. d \in CreatedIn(p)
        BY <2>5, <3>1, <4>1 DEF Counted
      <4>3. documents[d].status \in DocumentStatus
        BY <4>2 DEF CreatedIn, IInv, Promise!IInv, Promise!TypeOK, Promise!Row,
                    Promise!DocumentStatus, DocumentStatus
      <4>4. d \in counted'[r][documents[d].status]
        BY <2>2, <4>2, <4>3 DEF WithStatus
      <4>5. d \in Total(r)'
        BY <4>3, <4>4 DEF Total
      <4>6. ASSUME d \in counted'[r]["pending"] PROVE s = "pending"
        <5>1. documents[d].status = "pending"
          BY <2>2, <4>6 DEF WithStatus, DocumentStatus
        <5> QED
          BY <3>1, <4>1, <5>1 DEF Counted
      <4> QED
        BY <4>1, <4>5, <4>6
    <3>4. \A s \in FinalStatus : counted[e][s] \subseteq counted'[r][s]
      BY <2>2, <2>3, <2>5, <3>1 DEF Counted
    <3> QED
      BY <2>1, <2>5, <3>2, <3>3, <3>4 DEF CountsFollow
  <2>6. \A e \in earlier'[r] : Follows(r, e)'
    BY <1>1, <1>3, <2>5 DEF Follows, HasMean
  <2> QED
    BY <1>3, <2>4, <2>6 DEF Shown, HasMean
<1> QED
  BY <1>1, <1>2, <1>3

(* The statement of the mean leaves the counts as they are.                *)
LEMMA AverageProcessingShown ==
    ASSUME IInv, NEW r \in Reports, AverageProcessing(r)
    PROVE  Shown(r)'
<1>1. /\ pc[r] = "averaging" /\ pc'[r] = "ranking"
      /\ averaged'[r] = DecidedIn(period[r])
      /\ documents' = documents /\ period' = period /\ counted' = counted
      /\ top' = top /\ earlier' = earlier
      /\ \A e \in Reports \ {r} : pc'[e] = pc[e] /\ averaged'[e] = averaged[e]
  BY DEF AverageProcessing, IInv, TypeOK
<1>2. Counted(r)
  BY <1>1 DEF IInv, Shown, HasCounts
<1>3. Counted(r)'
  BY <1>1, <1>2 DEF Counted, WithStatus, CreatedIn
<1>4. Averaged(r)'
  <2>1. Decided(r)' = Decided(r) /\ DecidedIn(period[r])' = DecidedIn(period[r])
    BY <1>1 DEF Decided, DecidedIn, CreatedIn
  <2>2. Decided(r) \subseteq DecidedIn(period[r])
    BY <1>2 DEF Counted, Decided, FinalStatus, WithStatus, DecidedIn
  <2> QED
    BY <1>1, <2>1, <2>2 DEF Averaged
<1>5. ASSUME NEW e \in earlier[r] PROVE Follows(r, e)'
  <2>1. e \in Reports /\ Follows(r, e) /\ pc[e] = "done" /\ e # r
    BY <1>1, <1>5 DEF IInv, Shown, Follows, TypeOK
  <2>2. CountsFollow(r, e) => CountsFollow(r, e)'
    BY <1>1 DEF CountsFollow, Total
  <2>3. averaged[e] \subseteq DecidedIn(period[e])
    BY <2>1 DEF IInv, Shown, HasMean, Averaged
  <2> QED
    BY <1>1, <2>1, <2>2, <2>3 DEF Follows, HasCounts, HasMean
<1> QED
  BY <1>1, <1>3, <1>4, <1>5 DEF Shown

LEMMA StatementFailsShown ==
    ASSUME IInv, NEW r \in Reports, StatementFails(r)
    PROVE  Shown(r)'
<1>1. /\ pc[r] \in {"averaging", "ranking"} /\ pc'[r] = "failed"
      /\ earlier' = earlier
      /\ \A e \in Reports \ {r} : pc'[e] = pc[e]
  BY DEF StatementFails, IInv, TypeOK
<1>2. \A e \in earlier[r] : pc'[e] = "done"
  BY <1>1 DEF IInv, Shown, Follows, TypeOK
<1> QED
  BY <1>1, <1>2 DEF Shown, Follows, HasCounts, HasMean
(* The operators whom the limit leaves out have decided no more than those *)
(* it lists, and the rows under the mean are still theirs (ORDER BY total  *)
(* DESC LIMIT).                                                            *)
LEMMA RankOperatorsShown ==
    ASSUME IInv, NEW r \in Reports, RankOperators(r)
    PROVE  Shown(r)'
<1> DEFINE p == period[r]
<1>1. PICK listed \in TopOperators(p) :
         top' = [top EXCEPT ![r] = [o \in listed |->
            [ total    |-> DecidedBy(p, o),
              accepted |-> DecidedBy(p, o) \cap WithStatus(p, "accepted") ]]]
  BY DEF RankOperators
<1>2. /\ pc[r] = "ranking" /\ pc'[r] = "done"
      /\ documents' = documents /\ period' = period /\ counted' = counted
      /\ averaged' = averaged /\ earlier' = earlier
      /\ \A e \in Reports \ {r} : pc'[e] = pc[e] /\ top'[e] = top[e]
  BY DEF RankOperators, IInv, TypeOK
<1>3. /\ DOMAIN top'[r] = listed
      /\ \A o \in listed :
            /\ top'[r][o].total = DecidedBy(p, o)
            /\ top'[r][o].accepted = DecidedBy(p, o) \cap WithStatus(p, "accepted")
  BY <1>1 DEF IInv, TypeOK
<1>4. Counted(r) /\ Averaged(r)
  BY <1>2 DEF IInv, Shown, HasCounts, HasMean
<1>5. Counted(r)' /\ Averaged(r)'
  BY <1>2, <1>4 DEF Counted, WithStatus, CreatedIn, Averaged, Decided, DecidedIn
<1>6. ASSUME NEW d \in averaged[r], d \notin Ranked(r)'
      PROVE  CutOff(r, documents[d].assigned_to_id)'
  <2> DEFINE o == documents[d].assigned_to_id
  <2>1. d \in DecidedBy(p, o)
    BY <1>4, <1>6 DEF Averaged, DecidedBy
  <2>2. o \in Operators
    BY <2>1 DEF DecidedBy, DecidedIn, CreatedIn, IInv, Promise!IInv, Promise!Held,
                FinalStatus, Promise!FinalStatus
  <2>3. o \in Deciders(p)
    BY <2>1, <2>2 DEF Deciders
  <2>4. o \notin listed
    <3>1. Ranked(r)' = UNION {top'[r][x].total : x \in listed}
      BY <1>3 DEF Ranked
    <3> QED
      BY <1>3, <1>6, <2>1, <3>1
  <2> HIDE DEF o
  <2>5. /\ Cardinality(listed) = TopLimit
        /\ \A x \in listed : Cardinality(DecidedBy(p, x)) >= Cardinality(DecidedBy(p, o))
    BY <2>3, <2>4 DEF TopOperators
  <2>6. AveragedBy(r, o) \subseteq DecidedBy(p, o)
    BY <1>4 DEF AveragedBy, Averaged, DecidedBy
  <2>7. \A x : DecidedBy(p, x) \subseteq Documents
    BY DEF DecidedBy, DecidedIn, CreatedIn
  <2>8. \A x : /\ IsFiniteSet(DecidedBy(p, x))
               /\ Cardinality(DecidedBy(p, x)) \in Nat
    BY <2>7, FS_Subset, FS_CardinalityType, StatisticsAssumption
  <2>9. /\ Cardinality(AveragedBy(r, o)) <= Cardinality(DecidedBy(p, o))
        /\ Cardinality(AveragedBy(r, o)) \in Nat
    BY <2>6, <2>8, FS_Subset, FS_CardinalityType
  <2>10. \A x \in listed : Cardinality(AveragedBy(r, o)) <= Cardinality(DecidedBy(p, x))
    BY <2>5, <2>8, <2>9
  <2>11. \A y : AveragedBy(r, y)' = {z \in averaged[r] : documents[z].assigned_to_id = y}
    BY <1>2 DEF AveragedBy
  <2>12. documents'[d].assigned_to_id = o
    BY <1>2 DEF o
  <2>13. {z \in averaged[r] : documents[z].assigned_to_id = o} = AveragedBy(r, o)
    BY DEF AveragedBy
  <2> QED
    BY <1>3, <2>4, <2>5, <2>10, <2>11, <2>12, <2>13 DEF CutOff
<1>7. Listed(r)'
  <2>1. \A o \in listed : /\ top'[r][o].total = DecidedBy(period[r], o)'
                          /\ top'[r][o].accepted =
                                DecidedBy(period[r], o)' \cap WithStatus(period[r], "accepted")'
    BY <1>2, <1>3 DEF DecidedBy, DecidedIn, CreatedIn, WithStatus
  <2>2. \A d \in (averaged[r] \ Ranked(r))' : CutOff(r, documents[d].assigned_to_id)'
    BY <1>2, <1>6
  <2> QED
    BY <1>3, <2>1, <2>2 DEF Listed
<1>8. ASSUME NEW e \in earlier[r] PROVE Follows(r, e)'
  <2>1. e \in Reports /\ Follows(r, e) /\ pc[e] = "done" /\ e # r
    BY <1>2, <1>8 DEF IInv, Shown, Follows, TypeOK
  <2>2. CountsFollow(r, e) => CountsFollow(r, e)'
    BY <1>2 DEF CountsFollow, Total
  <2>3. Listed(e)
    BY <2>1 DEF IInv, Shown
  <2>4. period[e] = p => RankingFollows(r, e)'
    BY <1>2, <1>3, <2>1, <2>3 DEF Listed, RankingFollows
  <2> QED
    BY <1>2, <2>1, <2>2, <2>4 DEF Follows, HasCounts, HasMean
<1> QED
  BY <1>2, <1>5, <1>7, <1>8 DEF Shown
-----------------------------------------------------------------------------
(* The invariant.                                                          *)

LEMMA InitIInv == Init => IInv
<1> SUFFICES ASSUME Init PROVE IInv
  OBVIOUS
<1>1. Promise!IInv
  <2>1. Promise!Init
    BY DEF Init, Queue!Init, Promise!Init, Queue!Absent, Promise!Absent
  <2> QED
    BY <2>1, Promise!InitIInv, DocumentModelAssumption
<1>2. Queue!TypeOK
  BY <1>1, SameTypes DEF Promise!IInv
<1>3. Nobody \in Ranking /\ DOMAIN Nobody = {}
  <2>1. Nobody \in [{} -> Line]
    BY DEF Nobody
  <2> QED
    BY <2>1 DEF Ranking, Nobody
<1>4. \A r \in Reports : Cardinality(DOMAIN top[r]) <= TopLimit
  BY <1>3, FS_EmptySet, StatisticsAssumption DEF Init
<1>5. TypeOK
  BY <1>2, <1>3, <1>4 DEF Init, TypeOK
<1>6. \A r \in Reports : Shown(r)
  BY DEF Init, Shown, HasCounts, HasMean
<1> QED
  BY <1>1, <1>5, <1>6 DEF IInv

(* A step of one report leaves the documents and the other reports alone.  *)
LEMMA ReportKeeps ==
    ASSUME TypeOK, NEW r \in Reports, Report(r)
    PROVE  /\ documents' = documents /\ outbox' = outbox
           /\ pc[r] # "done"
           /\ \A x \in Reports \ {r} : Kept(x)
<1>1. CASE \E p \in Period : GetStatistics(r, p)
  BY <1>1 DEF GetStatistics, TypeOK, Kept
<1>2. CASE AverageProcessing(r)
  BY <1>2 DEF AverageProcessing, TypeOK, Kept
<1>3. CASE RankOperators(r)
  BY <1>3 DEF RankOperators, TypeOK, Kept
<1>4. CASE StatementFails(r)
  BY <1>4 DEF StatementFails, TypeOK, Kept, figures
<1> QED
  BY <1>1, <1>2, <1>3, <1>4 DEF Report

LEMMA ReportIInv ==
    ASSUME IInv, NEW r \in Reports, Report(r)
    PROVE  IInv'
<1>1. /\ documents' = documents /\ outbox' = outbox
      /\ pc[r] # "done"
      /\ \A x \in Reports \ {r} : Kept(x)
  BY ReportKeeps DEF IInv
<1>2. Promise!IInv'
  BY <1>1 DEF IInv, Promise!IInv, Promise!TypeOK, Promise!Held,
              Promise!OutboxMatchesDocuments
<1>3. TypeOK'
  BY GetStatisticsType, AverageProcessingType, RankOperatorsType,
     StatementFailsType DEF Report, IInv
<1>4. Shown(r)'
  BY GetStatisticsShown, AverageProcessingShown, RankOperatorsShown,
     StatementFailsShown DEF Report
<1>5. ASSUME NEW x \in Reports \ {r} PROVE Shown(x)'
  <2>1. TypeOK /\ Shown(x) /\ Kept(x)
    BY <1>1 DEF IInv
  <2>2. \A e \in earlier[x] : pc[e] = "done" => Kept(e)
    BY <1>1, <2>1 DEF TypeOK
  <2>3. \A d \in Documents : Later(d)
    BY <1>1 DEF Later
  <2> QED
    BY <2>1, <2>2, <2>3, KeptShown
<1> QED
  BY <1>2, <1>3, <1>4, <1>5 DEF IInv

LEMMA QueueIInv ==
    ASSUME IInv, QueueMoves
    PROVE  IInv'
<1>1. Promise!IInv' /\ \A d \in Documents : Later(d)
  BY QueueForward DEF IInv
<1>2. Queue!TypeOK'
  <2>1. Promise!TypeOK'
    BY <1>1 DEF Promise!IInv
  <2> QED
    BY <2>1 DEF Promise!TypeOK, Queue!TypeOK, Promise!Row, Queue!Row,
       Promise!DocumentStatus, Queue!DocumentStatus, Promise!OutboxEvent,
       Queue!OutboxEvent, Promise!Message, Queue!Message,
       Promise!FinalStatus, Queue!FinalStatus
<1>3. UNCHANGED <<pc, period, counted, averaged, top, earlier>>
  BY DEF QueueMoves, figures
<1>4. TypeOK'
  BY <1>2, <1>3 DEF IInv, TypeOK
<1>5. ASSUME NEW x \in Reports PROVE Shown(x)'
  <2>1. TypeOK /\ Shown(x) /\ \A y : Kept(y)
    BY <1>3 DEF IInv, Kept
  <2> QED
    BY <1>1, <2>1, KeptShown
<1> QED
  BY <1>1, <1>4, <1>5 DEF IInv

LEMMA NextIInv == IInv /\ [Next]_vars => IInv'
<1> SUFFICES ASSUME IInv, [Next]_vars PROVE IInv'
  OBVIOUS
<1>1. CASE UNCHANGED vars
  <2>1. /\ UNCHANGED <<documents, outbox, pc, period, counted, averaged, top, earlier>>
    BY <1>1 DEF vars, figures
  <2>2. Promise!IInv'
    BY <2>1 DEF IInv, Promise!IInv, Promise!TypeOK, Promise!Held,
                Promise!OutboxMatchesDocuments
  <2>3. TypeOK'
    BY <2>1 DEF IInv, TypeOK, Queue!TypeOK
  <2>4. ASSUME NEW x \in Reports PROVE Shown(x)'
    <3>1. TypeOK /\ Shown(x) /\ \A y : Kept(y)
      BY <2>1 DEF IInv, Kept
    <3>2. \A d \in Documents : Later(d)
      BY <2>1 DEF Later
    <3> QED
      BY <3>1, <3>2, KeptShown
  <2> QED
    BY <2>2, <2>3, <2>4 DEF IInv
<1>2. CASE QueueMoves
  BY <1>2, QueueIInv
<1>3. CASE \E r \in Reports : Report(r)
  BY <1>3, ReportIInv
<1> QED
  BY <1>1, <1>2, <1>3 DEF Next

(* The inductive invariant holds throughout every execution.               *)
THEOREM Invariance == Spec => []IInv
BY InitIInv, NextIInv, PTL DEF Spec

(* Reports are well-typed; a list has no more lines than LIMIT allows, and *)
(* no line without a document.                                             *)
THEOREM TypeCorrect == Spec => []TypeOK
<1>1. IInv => TypeOK
  BY DEF IInv
<1> QED
  BY Invariance, <1>1, PTL

(* The figures of one response differ in one direction only, for any       *)
(* number of documents, operators and lines (get_statistics).              *)
THEOREM FiguresAgree == Spec => []StatementsAgree
<1>1. IInv => StatementsAgree
  BY DEF IInv, Shown, HasMean, Averaged, Listed, StatementsAgree
<1> QED
  BY Invariance, <1>1, PTL

(* A later report on the same period never shows less than a complete one  *)
(* before it.                                                              *)
THEOREM FiguresGrow == Spec => []ReportsGrow
<1>1. IInv => ReportsGrow
  BY DEF IInv, Shown, Follows, HasCounts, HasMean, CountsFollow, RankingFollows,
         ReportsGrow, FinalStatus
<1> QED
  BY Invariance, <1>1, PTL
=============================================================================
