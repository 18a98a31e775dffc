------------------------- MODULE OutboxRelayProofs -------------------------
(***************************************************************************)
(* The relays implement OutboxDelivery, for any number of relays, events,  *)
(* failures and outages: no event is in two batches, an event is marked as *)
(* published only after it arrived, and a settled event stays as it is.    *)
(*                                                                         *)
(* The invariant says of each relay that it holds the lock of every event  *)
(* of its batch, that these are pending in the table, and that its draft   *)
(* of each is the row of the table for those still in its queue and that   *)
(* row with the outcome for the others.  That messages are not sent twice  *)
(* without a cause needs a count besides: CopiesInv.                       *)
(***************************************************************************)
EXTENDS OutboxRelay, FiniteSetTheorems, TLAPS

Elements(q) == {q[i] : i \in 1..Len(q)}

NoRepeat(q) == \A i, j \in 1..Len(q) : q[i] = q[j] => i = j

\* The outcome of e that w has noted.
Noted(w, e) ==
    \/ draft[w][e] = Published(events[e]) /\ copies[e] > 0
    \/ draft[w][e] = Retried(events[e])

BatchOK(w) ==
    /\ taken[w] \subseteq scanned[w]
    /\ Elements(queue[w]) \subseteq taken[w]
    /\ NoRepeat(queue[w])
    /\ \A e \in taken[w] :
          /\ locked_by[e] = w
          /\ events[e].status = "pending"
          /\ IF e \in Elements(queue[w]) THEN draft[w][e] = events[e]
                                         ELSE Noted(w, e)

RelayOK(w) ==
    /\ pc[w] = "sleeping" => taken[w] = {} /\ queue[w] = <<>> /\ scanned[w] = {}
    /\ pc[w] = "fetching" => Elements(queue[w]) = taken[w]
    /\ pc[w] \in {"sending", "acked", "raised"} => queue[w] # <<>>
    /\ pc[w] = "sending" => in_flight[w] = Head(queue[w])
    /\ pc[w] = "acked" => copies[Head(queue[w])] > 0
    /\ in_flight[w] # NoEvent => events[in_flight[w]].status # "absent"

EventsOK ==
    \A e \in Events :
        /\ events[e].status = "pending" => events[e].retry_count < MaxRetries
        /\ events[e].status = "published" => copies[e] > 0

IInv ==
    /\ TypeOK
    /\ EventsOK
    /\ \A w \in Relays : BatchOK(w) /\ RelayOK(w)

-----------------------------------------------------------------------------
(* Facts about queues without repetition.                                  *)

LEMMA AppendElements ==
    ASSUME NEW S, NEW q \in Seq(S), NEW e \in S
    PROVE  /\ Elements(Append(q, e)) = Elements(q) \cup {e}
           /\ NoRepeat(q) /\ e \notin Elements(q) => NoRepeat(Append(q, e))
<1>1. /\ Len(Append(q, e)) = Len(q) + 1 /\ Len(q) \in Nat
      /\ \A i \in 1..Len(q) : Append(q, e)[i] = q[i]
      /\ Append(q, e)[Len(q) + 1] = e
  OBVIOUS
<1>2. 1..(Len(q) + 1) = (1..Len(q)) \cup {Len(q) + 1}
  BY <1>1
<1>3. Elements(Append(q, e)) = Elements(q) \cup {e}
  BY <1>1, <1>2 DEF Elements
<1>4. ASSUME NoRepeat(q), e \notin Elements(q) PROVE NoRepeat(Append(q, e))
  <2> SUFFICES ASSUME NEW i \in 1..(Len(q) + 1), NEW j \in 1..(Len(q) + 1),
                      Append(q, e)[i] = Append(q, e)[j]
               PROVE  i = j
    BY <1>1 DEF NoRepeat
  <2> QED
    BY <1>1, <1>2, <1>4 DEF NoRepeat, Elements
<1> QED
  BY <1>3, <1>4

LEMMA TailElements ==
    ASSUME NEW S, NEW q \in Seq(S), q # <<>>
    PROVE  /\ Head(q) \in Elements(q)
           /\ Tail(q) \in Seq(S)
           /\ Elements(Tail(q)) \subseteq Elements(q)
           /\ NoRepeat(q) => /\ NoRepeat(Tail(q))
                             /\ Elements(Tail(q)) = Elements(q) \ {Head(q)}
<1>1. /\ Len(q) \in Nat \ {0} /\ Head(q) = q[1] /\ Tail(q) \in Seq(S)
      /\ Len(Tail(q)) = Len(q) - 1
      /\ \A i \in 1..(Len(q) - 1) : Tail(q)[i] = q[i + 1]
  OBVIOUS
<1>2. Head(q) \in Elements(q)
  BY <1>1 DEF Elements
<1>3. \A i \in 1..(Len(q) - 1) : i + 1 \in 1..Len(q)
  BY <1>1
<1>4. Elements(Tail(q)) \subseteq Elements(q)
  BY <1>1, <1>3 DEF Elements
<1>5. ASSUME NoRepeat(q) PROVE NoRepeat(Tail(q))
  <2> SUFFICES ASSUME NEW i \in 1..(Len(q) - 1), NEW j \in 1..(Len(q) - 1),
                      Tail(q)[i] = Tail(q)[j]
               PROVE  i = j
    BY <1>1 DEF NoRepeat
  <2>1. q[i + 1] = q[j + 1]
    BY <1>1
  <2>2. i + 1 = j + 1
    BY <1>3, <1>5, <2>1 DEF NoRepeat
  <2> QED
    BY <2>2, <1>1
<1>6. ASSUME NoRepeat(q) PROVE Elements(Tail(q)) = Elements(q) \ {Head(q)}
  <2>1. \A i \in 1..(Len(q) - 1) : Tail(q)[i] # Head(q)
    <3> TAKE i \in 1..(Len(q) - 1)
    <3>1. i + 1 # 1 /\ 1 \in 1..Len(q)
      BY <1>1
    <3> QED
      BY <1>1, <1>3, <1>6, <3>1 DEF NoRepeat
  <2>2. \A k \in 1..Len(q) : k # 1 => k - 1 \in 1..(Len(q) - 1) /\ Tail(q)[k - 1] = q[k]
    BY <1>1
  <2>3. Elements(q) \ {Head(q)} \subseteq Elements(Tail(q))
    BY <1>1, <2>2 DEF Elements
  <2> QED
    BY <1>1, <1>4, <2>1, <2>3 DEF Elements
<1> QED
  BY <1>1, <1>2, <1>4, <1>5, <1>6

(* Facts about rows.                                                       *)

LEMMA RowTypes ==
    /\ AbsentEvent \in EventRow
    /\ \A t \in Nat : /\ PendingEvent(t) \in EventRow
                      /\ PendingEvent(t).status = "pending"
                      /\ PendingEvent(t).retry_count = 0
    /\ \A row \in EventRow : /\ Published(row) \in EventRow
                             /\ Published(row).status = "published"
<1>1. 0 \in 0..MaxRetries
  BY OutboxModelAssumption
<1>2. AbsentEvent \in EventRow
  BY <1>1 DEF AbsentEvent, EventRow, EventStatus
<1>3. \A t \in Nat : /\ PendingEvent(t) \in EventRow
                     /\ PendingEvent(t).status = "pending"
                     /\ PendingEvent(t).retry_count = 0
  BY <1>1 DEF PendingEvent, AbsentEvent, EventRow, EventStatus
<1>4. \A row \in EventRow : /\ Published(row) \in EventRow
                            /\ Published(row).status = "published"
  BY DEF Published, EventRow, EventStatus
<1> QED
  BY <1>2, <1>3, <1>4

(* A failed attempt leaves the event pending with attempts to spare, or    *)
(* gives it up.                                                            *)
LEMMA RetriedRow ==
    ASSUME NEW row \in EventRow, row.status = "pending",
           row.retry_count < MaxRetries
    PROVE  /\ Retried(row) \in EventRow
           /\ Retried(row).status \in {"pending", "failed"}
           /\ Retried(row).status = "pending" => Retried(row).retry_count < MaxRetries
<1>1. row.retry_count + 1 \in 0..MaxRetries
  BY OutboxModelAssumption DEF EventRow
<1>2. /\ Retried(row).retry_count = row.retry_count + 1
      /\ Retried(row).status = IF row.retry_count + 1 >= MaxRetries
                               THEN "failed" ELSE "pending"
      /\ Retried(row) \in EventRow
  BY <1>1 DEF Retried, EventRow, EventStatus
<1> QED
  BY <1>1, <1>2, OutboxModelAssumption

-----------------------------------------------------------------------------
LEMMA InitIInv == Init => IInv
<1> SUFFICES ASSUME Init PROVE IInv
  OBVIOUS
<1>1. TypeOK
  BY RowTypes, OutboxRelayAssumption DEF Init, TypeOK, PC, NoDraft
<1>2. EventsOK
  BY DEF Init, EventsOK, AbsentEvent
<1>3. Elements(<<>>) = {} /\ NoRepeat(<<>>)
  BY DEF Elements, NoRepeat
<1>4. \A w \in Relays : BatchOK(w) /\ RelayOK(w)
  BY <1>3 DEF Init, BatchOK, RelayOK
<1> QED
  BY <1>1, <1>2, <1>4 DEF IInv

(* A relay is undisturbed by a step that leaves alone what it knows and    *)
(* the rows and locks of its batch.                                        *)
LEMMA Undisturbed ==
    ASSUME TypeOK, TypeOK', NEW s \in Relays, BatchOK(s), RelayOK(s),
           pc'[s] = pc[s], scanned'[s] = scanned[s], taken'[s] = taken[s],
           queue'[s] = queue[s], draft'[s] = draft[s],
           in_flight'[s] = in_flight[s],
           \A e \in taken[s] : events'[e] = events[e] /\ locked_by'[e] = locked_by[e],
           \A e \in Events : /\ copies'[e] >= copies[e]
                             /\ events[e].status # "absent" => events'[e].status # "absent"
    PROVE  BatchOK(s)' /\ RelayOK(s)'
<1>1. BatchOK(s)'
  <2>1. \A e \in taken[s] : Noted(s, e) => Noted(s, e)'
    BY DEF Noted, TypeOK
  <2> QED
    BY <2>1 DEF BatchOK
<1>2. queue[s] # <<>> => Head(queue[s]) \in Events
  BY DEF TypeOK
<1>3. RelayOK(s)'
  BY <1>2 DEF RelayOK, TypeOK
<1> QED
  BY <1>1, <1>3

(* A relay that touches only its own session and free locks disturbs no    *)
(* other relay.                                                            *)
LEMMA OnlyOne ==
    ASSUME IInv, TypeOK', NEW w \in Relays, UNCHANGED events,
           \A e \in Events : copies'[e] >= copies[e],
           \A e \in Events : locked_by[e] \notin {w, NoRelay} =>
              locked_by'[e] = locked_by[e],
           \A s \in Relays \ {w} :
              /\ pc'[s] = pc[s] /\ scanned'[s] = scanned[s]
              /\ taken'[s] = taken[s] /\ queue'[s] = queue[s]
              /\ draft'[s] = draft[s] /\ in_flight'[s] = in_flight[s]
    PROVE  \A s \in Relays \ {w} : BatchOK(s)' /\ RelayOK(s)'
<1> TAKE s \in Relays \ {w}
<1>1. \A e \in taken[s] : locked_by'[e] = locked_by[e]
  BY OutboxRelayAssumption DEF IInv, BatchOK, TypeOK
<1> QED
  BY <1>1, Undisturbed DEF IInv

LEMMA StoreIInv ==
    ASSUME IInv, NEW e \in Events, NEW t \in EventTimes, Store(e, t)
    PROVE  IInv'
<1> USE DEF IInv
<1>1. t \in Nat
  BY OutboxModelAssumption
<1>2. /\ events' = [events EXCEPT ![e] = PendingEvent(t)]
      /\ events[e].status = "absent"
      /\ UNCHANGED <<copies, kafka, locked_by, pc, session, in_flight, bounds>>
  BY DEF Store
<1>3. TypeOK'
  BY <1>1, <1>2, RowTypes DEF TypeOK, session, bounds
<1>4. EventsOK'
  BY <1>1, <1>2, RowTypes, OutboxModelAssumption DEF EventsOK, TypeOK
<1>5. ASSUME NEW s \in Relays PROVE BatchOK(s)' /\ RelayOK(s)'
  <2>1. e \notin taken[s]
    BY <1>2 DEF BatchOK
  <2>2. \A x \in Events : events[x].status # "absent" => events'[x].status # "absent"
    BY <1>2 DEF TypeOK
  <2>3. \A x \in taken[s] : events'[x] = events[x]
    BY <1>2, <2>1 DEF TypeOK
  <2>4. \A x \in Events : copies'[x] >= copies[x]
    BY <1>2 DEF TypeOK
  <2> QED
    BY <1>2, <1>3, <2>2, <2>3, <2>4, Undisturbed DEF session
<1> QED
  BY <1>3, <1>4, <1>5

(* A step that changes neither tables nor sessions, except that messages   *)
(* may arrive, preserves the invariant if the relay that takes it does not *)
(* contradict itself.                                                      *)
LEMMA SessionsKept ==
    ASSUME IInv, TypeOK', NEW w \in Relays, RelayOK(w)',
           UNCHANGED <<events, locked_by, scanned, taken, queue, draft>>,
           \A e \in Events : copies'[e] >= copies[e],
           \A s \in Relays \ {w} : pc'[s] = pc[s] /\ in_flight'[s] = in_flight[s]
    PROVE  IInv'
<1> USE DEF IInv
<1>1. EventsOK'
  BY DEF EventsOK, TypeOK
<1>2. \A s \in Relays \ {w} : BatchOK(s)' /\ RelayOK(s)'
  BY OnlyOne
<1>3. BatchOK(w)'
  <2>1. \A e \in taken[w] : Noted(w, e) => Noted(w, e)'
    BY DEF Noted, TypeOK
  <2> QED
    BY <2>1 DEF BatchOK
<1> QED
  BY <1>1, <1>2, <1>3

LEMMA SelectIInv ==
    ASSUME IInv, NEW w \in Relays, FetchPending(w) \/ EndFetch(w)
    PROVE  IInv'
<1>1. /\ UNCHANGED <<table, kafka, locked_by, scanned, taken, queue, draft, in_flight, bounds>>
      /\ \/ pc' = [pc EXCEPT ![w] = "fetching"] /\ pc[w] = "sleeping"
         \/ pc' = [pc EXCEPT ![w] = "relaying"]
      /\ \/ snapshot' = snapshot
         \/ snapshot' = [snapshot EXCEPT ![w] = {e \in Events : events[e].status = "pending"}]
  BY DEF FetchPending, EndFetch, session
<1>2. TypeOK'
  <2>1. pc' \in [Relays -> PC]
    <3>1. pc \in [Relays -> PC] /\ {"fetching", "relaying"} \subseteq PC
      BY DEF IInv, TypeOK, PC
    <3> QED
      BY <1>1, <3>1
  <2>2. snapshot' \in [Relays -> SUBSET Events]
    <3>1. snapshot \in [Relays -> SUBSET Events]
      BY DEF IInv, TypeOK
    <3> QED
      BY <1>1, <3>1
  <2> QED
    BY <1>1, <2>1, <2>2 DEF IInv, TypeOK, table, bounds
<1>3. RelayOK(w)'
  <2>1. Elements(<<>>) = {}
    BY DEF Elements
  <2> QED
    BY <1>1, <2>1 DEF IInv, TypeOK, RelayOK, table
<1>4. \A s \in Relays \ {w} : pc'[s] = pc[s] /\ in_flight'[s] = in_flight[s]
  BY <1>1 DEF IInv, TypeOK
<1>5. UNCHANGED <<events, locked_by, scanned, taken, queue, draft>>
      /\ \A e \in Events : copies'[e] >= copies[e]
  BY <1>1 DEF IInv, TypeOK, table
<1> QED
  BY <1>2, <1>3, <1>4, <1>5, SessionsKept

LEMMA SendIInv ==
    ASSUME IInv, NEW w \in Relays, Send(w) \/ SendRaises(w) \/ Dropped(w)
    PROVE  IInv'
<1>0. Send(w) => Head(queue[w]) \in Events /\ Head(queue[w]) \in taken[w]
  BY TailElements DEF IInv, TypeOK, BatchOK, Send
<1>1. TypeOK'
  <2>1. pc' \in [Relays -> PC]
    BY DEF IInv, TypeOK, PC, Send, SendRaises, Dropped
  <2>2. in_flight' \in [Relays -> Events \cup {NoEvent}]
    BY <1>0 DEF IInv, TypeOK, Send, SendRaises, Dropped, Current
  <2>3. UNCHANGED <<table, kafka, locked_by, session, bounds>>
    BY DEF Send, SendRaises, Dropped
  <2> QED
    BY <2>1, <2>2, <2>3 DEF IInv, TypeOK, table, session, bounds
<1>2. UNCHANGED <<events, locked_by, scanned, taken, queue, draft>>
      /\ \A e \in Events : copies'[e] >= copies[e]
  BY DEF Send, SendRaises, Dropped, table, session, IInv, TypeOK
<1>3. \A s \in Relays \ {w} : pc'[s] = pc[s] /\ in_flight'[s] = in_flight[s]
  BY DEF Send, SendRaises, Dropped, IInv, TypeOK
<1>4. RelayOK(w)'
  <2>1. CASE Send(w)
    <3>1. pc'[w] = "sending" /\ in_flight'[w] = Head(queue[w]) /\ queue[w] # <<>>
      BY <2>1 DEF Send, Current, IInv, TypeOK
    <3>2. events[Head(queue[w])].status = "pending"
      BY <1>0, <2>1 DEF IInv, BatchOK
    <3> QED
      BY <1>2, <3>1, <3>2 DEF RelayOK
  <2>2. CASE SendRaises(w)
    BY <2>2, <1>2, OutboxRelayAssumption DEF SendRaises, RelayOK, IInv, TypeOK
  <2>3. CASE Dropped(w)
    BY <2>3, <1>2, OutboxRelayAssumption DEF Dropped, RelayOK, IInv, TypeOK
  <2> QED
    BY <2>1, <2>2, <2>3
<1> QED
  BY <1>1, <1>2, <1>3, <1>4, SessionsKept

LEMMA ArrivesIInv ==
    ASSUME IInv, NEW w \in Relays, SendAcked(w) \/ AckLost(w) \/ Flushed(w)
    PROVE  IInv'
<1> DEFINE e == in_flight[w]
<1>1. /\ Arrives(w) /\ e \in Events
      /\ copies' = [copies EXCEPT ![e] = @ + 1]
      /\ in_flight' = [in_flight EXCEPT ![w] = NoEvent]
      /\ UNCHANGED <<events, kafka, locked_by, session, aborts, outages>>
  BY DEF SendAcked, AckLost, Flushed, Arrives
<1>2. TypeOK'
  <2>1. pc' \in [Relays -> PC]
    BY DEF IInv, TypeOK, PC, SendAcked, AckLost, Flushed
  <2>3. lost_acks' \in 0..MaxLostAcks
    <3>1. lost_acks \in 0..MaxLostAcks /\ MaxLostAcks \in Nat
      BY OutboxRelayAssumption DEF IInv, TypeOK
    <3> QED
      BY <3>1 DEF SendAcked, AckLost, Flushed
  <2>2. copies' \in [Events -> Nat] /\ in_flight' \in [Relays -> Events \cup {NoEvent}]
    BY <1>1 DEF IInv, TypeOK
  <2> QED
    BY <1>1, <2>1, <2>2, <2>3 DEF IInv, TypeOK, session
<1>3. \A x \in Events : copies'[x] >= copies[x]
  BY <1>1 DEF IInv, TypeOK
<1>4. \A s \in Relays \ {w} : pc'[s] = pc[s] /\ in_flight'[s] = in_flight[s]
  BY <1>1 DEF IInv, TypeOK, SendAcked, AckLost, Flushed
<1>5. RelayOK(w)'
  <2>1. in_flight'[w] = NoEvent /\ UNCHANGED <<queue, taken, scanned>>
    BY <1>1 DEF IInv, TypeOK, session
  <2>2. CASE Flushed(w)
    BY <2>1, <2>2, OutboxRelayAssumption DEF Flushed, RelayOK, IInv, TypeOK
  <2>3. CASE SendAcked(w) \/ AckLost(w)
    <3>1. pc[w] = "sending" /\ pc'[w] \in {"acked", "raised"}
      BY <2>3 DEF SendAcked, AckLost, IInv, TypeOK
    <3>2. queue[w] # <<>> /\ Head(queue[w]) = e
      BY <3>1 DEF IInv, RelayOK
    <3>3. copies'[e] > 0
      BY <1>1 DEF IInv, TypeOK
    <3> QED
      BY <2>1, <3>1, <3>2, <3>3 DEF RelayOK
  <2> QED
    BY <2>2, <2>3
<1> QED
  BY <1>1, <1>2, <1>3, <1>4, <1>5, SessionsKept DEF session

-----------------------------------------------------------------------------
(* Rows that the SELECT passes over.                                       *)
LEMMA SkipIInv ==
    ASSUME IInv, NEW w \in Relays, NEW e \in Events,
           SkipLockedRow(w, e) \/ SkipSettledRow(w, e)
    PROVE  IInv'
<1>1. /\ scanned' = [scanned EXCEPT ![w] = @ \cup {e}]
      /\ pc[w] = "fetching"
      /\ UNCHANGED <<table, kafka, pc, snapshot, taken, queue, draft, in_flight, bounds>>
      /\ \/ locked_by' = locked_by
         \/ locked_by[e] = NoRelay /\ locked_by' = [locked_by EXCEPT ![e] = w]
  BY DEF SkipLockedRow, SkipSettledRow, Scanning
<1>2. TypeOK'
  BY <1>1 DEF IInv, TypeOK, table, bounds
<1>3. EventsOK'
  BY <1>1 DEF IInv, EventsOK, table
<1>4. \A s \in Relays \ {w} : BatchOK(s)' /\ RelayOK(s)'
  <2>1. \A x \in Events : locked_by[x] \notin {w, NoRelay} => locked_by'[x] = locked_by[x]
    BY <1>1 DEF IInv, TypeOK
  <2>2. \A x \in Events : copies'[x] >= copies[x]
    BY <1>1 DEF IInv, TypeOK, table
  <2>3. \A s \in Relays \ {w} : scanned'[s] = scanned[s]
    BY <1>1 DEF IInv, TypeOK
  <2> QED
    BY <1>1, <1>2, <2>1, <2>2, <2>3, OnlyOne DEF table
<1>5. BatchOK(w)'
  <2>1. taken[w] \subseteq scanned'[w]
    BY <1>1 DEF IInv, TypeOK, BatchOK
  <2>2. \A x \in taken[w] : locked_by'[x] = w
    BY <1>1 DEF IInv, TypeOK, BatchOK
  <2>3. \A x \in taken[w] : Noted(w, x) => Noted(w, x)'
    BY <1>1 DEF Noted, table
  <2> QED
    BY <1>1, <2>1, <2>2, <2>3 DEF IInv, BatchOK, table
<1>6. RelayOK(w)'
  BY <1>1 DEF IInv, RelayOK, table
<1> QED
  BY <1>2, <1>3, <1>4, <1>5, <1>6 DEF IInv

(* The row that the SELECT returns joins the batch.                        *)
LEMMA TakeRowIInv ==
    ASSUME IInv, NEW w \in Relays, NEW e \in Events, TakeRow(w, e)
    PROVE  IInv'
<1>1. /\ pc[w] = "fetching" /\ e \notin scanned[w]
      /\ locked_by[e] = NoRelay /\ events[e].status = "pending"
      /\ scanned' = [scanned EXCEPT ![w] = @ \cup {e}]
      /\ locked_by' = [locked_by EXCEPT ![e] = w]
      /\ taken' = [taken EXCEPT ![w] = @ \cup {e}]
      /\ queue' = [queue EXCEPT ![w] = Append(@, e)]
      /\ draft' = [draft EXCEPT ![w][e] = events[e]]
      /\ UNCHANGED <<table, kafka, pc, snapshot, in_flight, bounds>>
  BY DEF TakeRow, Return, Scanning, NextInOrder
<1>2. TypeOK'
  BY <1>1 DEF IInv, TypeOK, table, bounds
<1>3. EventsOK'
  BY <1>1 DEF IInv, EventsOK, table
<1>4. \A s \in Relays \ {w} : BatchOK(s)' /\ RelayOK(s)'
  <2>1. \A x \in Events : locked_by[x] \notin {w, NoRelay} => locked_by'[x] = locked_by[x]
    BY <1>1 DEF IInv, TypeOK
  <2>2. \A x \in Events : copies'[x] >= copies[x]
    BY <1>1 DEF IInv, TypeOK, table
  <2>3. \A s \in Relays \ {w} : /\ scanned'[s] = scanned[s] /\ taken'[s] = taken[s]
                                /\ queue'[s] = queue[s] /\ draft'[s] = draft[s]
    BY <1>1 DEF IInv, TypeOK
  <2> QED
    BY <1>1, <1>2, <2>1, <2>2, <2>3, OnlyOne DEF table
<1>5. /\ queue[w] \in Seq(Events) /\ queue'[w] = Append(queue[w], e)
      /\ taken'[w] = taken[w] \cup {e}
      /\ scanned'[w] = scanned[w] \cup {e}
      /\ draft'[w][e] = events[e]
      /\ \A x \in Events \ {e} : draft'[w][x] = draft[w][x]
      /\ locked_by'[e] = w
      /\ \A x \in Events \ {e} : locked_by'[x] = locked_by[x]
      /\ taken[w] \subseteq Events
  BY <1>1 DEF IInv, TypeOK
<1>6. e \notin taken[w] /\ Elements(queue[w]) = taken[w] /\ NoRepeat(queue[w])
  BY <1>1 DEF IInv, BatchOK, RelayOK
<1>7. Elements(queue'[w]) = taken'[w] /\ NoRepeat(queue'[w])
  BY <1>5, <1>6, AppendElements
<1>8. BatchOK(w)'
  <2>1. \A x \in taken'[w] : locked_by'[x] = w /\ events[x].status = "pending"
                             /\ draft'[w][x] = events[x]
    BY <1>1, <1>5, <1>6 DEF IInv, BatchOK
  <2>2. taken'[w] \subseteq scanned'[w]
    BY <1>5 DEF IInv, BatchOK
  <2> QED
    BY <1>1, <1>7, <2>1, <2>2 DEF BatchOK, table
<1>9. RelayOK(w)'
  BY <1>1, <1>7 DEF IInv, RelayOK, table
<1> QED
  BY <1>2, <1>3, <1>4, <1>8, <1>9 DEF IInv

(* The outcome of the current event, whichever it is, is noted.            *)
LEMMA MarkIInv ==
    ASSUME IInv, NEW w \in Relays, MarkPublished(w) \/ MarkFailed(w)
    PROVE  IInv'
<1>0. PICK e : e = Current(w)
  OBVIOUS
<1>1. PICK row :
         /\ \/ pc[w] = "acked" /\ row = Published(draft[w][e])
            \/ pc[w] = "raised" /\ row = Retried(draft[w][e])
         /\ draft' = [draft EXCEPT ![w][e] = row]
         /\ queue' = [queue EXCEPT ![w] = Tail(@)]
         /\ pc' = [pc EXCEPT ![w] = "relaying"]
         /\ UNCHANGED <<table, kafka, locked_by, snapshot, scanned, taken,
                        in_flight, bounds>>
  BY <1>0 DEF MarkPublished, MarkFailed, Mark
<1>2. /\ queue[w] \in Seq(Events) /\ queue[w] # <<>> /\ e = Head(queue[w])
      /\ NoRepeat(queue[w]) /\ Elements(queue[w]) \subseteq taken[w]
      /\ taken[w] \subseteq Events
  BY <1>0, <1>1 DEF IInv, TypeOK, RelayOK, BatchOK, Current
<1>3. /\ e \in Elements(queue[w]) /\ Tail(queue[w]) \in Seq(Events)
      /\ NoRepeat(Tail(queue[w]))
      /\ Elements(Tail(queue[w])) = Elements(queue[w]) \ {e}
  BY <1>2, TailElements
<1>4. /\ e \in taken[w] /\ e \in Events /\ draft[w][e] = events[e]
      /\ events[e] \in EventRow /\ events[e].status = "pending"
      /\ events[e].retry_count < MaxRetries
      /\ pc[w] = "acked" => copies[e] > 0
  BY <1>2, <1>3 DEF IInv, TypeOK, RelayOK, BatchOK, EventsOK
<1>5. row \in EventRow
  BY <1>1, <1>4, RowTypes, RetriedRow
<1>6. TypeOK'
  BY <1>1, <1>3, <1>4, <1>5 DEF IInv, TypeOK, table, bounds, PC
<1>7. EventsOK'
  BY <1>1 DEF IInv, EventsOK, table
<1>8. \A s \in Relays \ {w} : BatchOK(s)' /\ RelayOK(s)'
  <2>1. \A x \in Events : copies'[x] >= copies[x]
    BY <1>1 DEF IInv, TypeOK, table
  <2>2. \A s \in Relays \ {w} : /\ pc'[s] = pc[s]
                                /\ queue'[s] = queue[s] /\ draft'[s] = draft[s]
    BY <1>1 DEF IInv, TypeOK
  <2> QED
    BY <1>1, <1>6, <2>1, <2>2, OnlyOne DEF table
<1>9. BatchOK(w)'
  <2>1. queue'[w] = Tail(queue[w]) /\ draft'[w][e] = row
        /\ \A x \in Events \ {e} : draft'[w][x] = draft[w][x]
    BY <1>1, <1>4 DEF IInv, TypeOK
  <2>2. Noted(w, e)'
    BY <1>1, <1>4, <2>1 DEF Noted, table
  <2>3. \A x \in taken[w] \ {e} : Noted(w, x) => Noted(w, x)'
    BY <1>1, <1>2, <2>1 DEF Noted, table
  <2> QED
    BY <1>1, <1>2, <1>3, <2>1, <2>2, <2>3 DEF IInv, BatchOK, table
<1>10. RelayOK(w)'
  BY <1>1 DEF IInv, TypeOK, RelayOK, table
<1> QED
  BY <1>6, <1>7, <1>8, <1>9, <1>10 DEF IInv

-----------------------------------------------------------------------------
(* A session that closes disturbs nobody, whatever it wrote to the rows of *)
(* its own batch.                                                          *)
LEMMA ClosedIInv ==
    ASSUME IInv, NEW w \in Relays, Closed(w), events' \in [Events -> EventRow],
           EventsOK', UNCHANGED <<copies, kafka, lost_acks, outages>>,
           aborts' \in 0..MaxAborts,
           \/ in_flight' = in_flight
           \/ in_flight' = [in_flight EXCEPT ![w] = NoEvent],
           \A e \in Events \ taken[w] : events'[e] = events[e],
           \A e \in taken[w] : events'[e].status # "absent"
    PROVE  IInv'
<1>1. TypeOK'
  <2>1. locked_by' \in [Events -> Relays \cup {NoRelay}]
    BY DEF IInv, TypeOK, Closed
  <2>2. pc' \in [Relays -> PC]
    BY DEF IInv, TypeOK, Closed, PC
  <2>3. /\ snapshot' \in [Relays -> SUBSET Events]
        /\ scanned' \in [Relays -> SUBSET Events]
        /\ taken' \in [Relays -> SUBSET Events]
    BY DEF IInv, TypeOK, Closed
  <2>4. queue' \in [Relays -> Seq(Events)]
    BY DEF IInv, TypeOK, Closed
  <2>5. draft' \in [Relays -> [Events -> EventRow]]
    BY RowTypes DEF IInv, TypeOK, Closed, NoDraft
  <2>6. in_flight' \in [Relays -> Events \cup {NoEvent}]
    BY DEF IInv, TypeOK
  <2> QED
    BY <2>1, <2>2, <2>3, <2>4, <2>5, <2>6 DEF IInv, TypeOK
<1>2. \A e \in Events : events[e].status # "absent" => events'[e].status # "absent"
  OBVIOUS
<1>3. ASSUME NEW s \in Relays \ {w} PROVE BatchOK(s)' /\ RelayOK(s)'
  <2>1. \A e \in taken[s] : locked_by[e] = s /\ e \in Events \ taken[w]
    BY DEF IInv, BatchOK, TypeOK
  <2>2. \A e \in taken[s] : events'[e] = events[e] /\ locked_by'[e] = locked_by[e]
    BY <2>1 DEF Closed
  <2>3. /\ pc'[s] = pc[s] /\ scanned'[s] = scanned[s] /\ taken'[s] = taken[s]
        /\ queue'[s] = queue[s] /\ draft'[s] = draft[s]
        /\ in_flight'[s] = in_flight[s]
    BY DEF IInv, TypeOK, Closed
  <2>4. \A e \in Events : copies'[e] >= copies[e]
    BY DEF IInv, TypeOK
  <2> QED
    BY <1>1, <1>2, <2>2, <2>3, <2>4, Undisturbed DEF IInv
<1>4. /\ pc'[w] = "sleeping" /\ taken'[w] = {} /\ scanned'[w] = {}
      /\ queue'[w] = <<>>
  BY DEF IInv, TypeOK, Closed
<1>5. BatchOK(w)'
  <2>1. Elements(<<>>) = {} /\ NoRepeat(<<>>)
    BY DEF Elements, NoRepeat
  <2> QED
    BY <1>4, <2>1 DEF BatchOK
<1>6. RelayOK(w)'
  <2>1. in_flight'[w] \in {in_flight[w], NoEvent}
    BY DEF IInv, TypeOK
  <2>2. in_flight'[w] # NoEvent => events'[in_flight'[w]].status # "absent"
    BY <1>2, <2>1 DEF IInv, TypeOK, RelayOK
  <2> QED
    BY <1>4, <2>2 DEF RelayOK
<1> QED
  BY <1>1, <1>3, <1>5, <1>6 DEF IInv

(* What a commit writes: for each event of the batch its outcome.          *)
LEMMA CommitRows ==
    ASSUME IInv, NEW w \in Relays, Commit(w), NEW e \in taken[w]
    PROVE  /\ e \in Events /\ events'[e] = draft[w][e] /\ Noted(w, e)
           /\ events[e] \in EventRow /\ events[e].status = "pending"
           /\ events[e].retry_count < MaxRetries
           /\ locked_by[e] = w
<1>1. Elements(queue[w]) = {}
  BY DEF Commit, Elements
<1> QED
  BY <1>1 DEF IInv, TypeOK, BatchOK, EventsOK, Commit

LEMMA CommitIInv ==
    ASSUME IInv, NEW w \in Relays, Commit(w)
    PROVE  IInv'
<1>1. \A e \in taken[w] : /\ events'[e] \in EventRow
                          /\ events'[e].status # "absent"
                          /\ events'[e].status = "pending" => events'[e].retry_count < MaxRetries
                          /\ events'[e].status = "published" => copies[e] > 0
  BY CommitRows, RowTypes, RetriedRow DEF Noted
<1>2. \A e \in Events \ taken[w] : events'[e] = events[e]
  BY DEF Commit
<1>3. events' \in [Events -> EventRow]
  BY <1>1 DEF Commit, IInv, TypeOK
<1>4. EventsOK'
  BY <1>1, <1>2 DEF EventsOK, IInv, Commit
<1>5. aborts' \in 0..MaxAborts
  BY DEF Commit, bounds, IInv, TypeOK
<1> QED
  BY <1>1, <1>2, <1>3, <1>4, <1>5, ClosedIInv DEF Commit, bounds

LEMMA RolledBackIInv ==
    ASSUME IInv, NEW w \in Relays, StatementFails(w) \/ Crash(w) \/ Cancelled(w)
    PROVE  IInv'
<1>1. RolledBack(w) /\ \/ in_flight' = in_flight
                       \/ in_flight' = [in_flight EXCEPT ![w] = NoEvent]
  BY DEF StatementFails, Crash, Cancelled
<1>2. UNCHANGED <<events, copies, kafka, lost_acks, outages>> /\ Closed(w)
  BY <1>1 DEF RolledBack, table
<1>3. aborts' \in 0..MaxAborts
  BY <1>1, OutboxRelayAssumption DEF RolledBack, IInv, TypeOK
<1>4. EventsOK' /\ events' \in [Events -> EventRow]
  BY <1>2 DEF IInv, EventsOK, TypeOK
<1>5. \A e \in taken[w] : events'[e].status # "absent"
  BY <1>2 DEF IInv, BatchOK
<1> QED
  BY <1>1, <1>2, <1>3, <1>4, <1>5, ClosedIInv

(* Kafka's outages, and steps in which nothing happens.                    *)
LEMMA OutageIInv ==
    ASSUME IInv, KafkaFails \/ KafkaRecovers \/ UNCHANGED vars
    PROVE  IInv'
<1>1. UNCHANGED <<table, locked_by, pc, session, in_flight, aborts, lost_acks>>
  BY DEF KafkaFails, KafkaRecovers, vars, table, session, bounds
<1>0. kafka \in BOOLEAN /\ outages \in 0..MaxOutages /\ MaxOutages \in Nat
  BY OutboxRelayAssumption DEF IInv, TypeOK
<1>2. kafka' \in BOOLEAN
  BY <1>0, Zenon DEF KafkaFails, KafkaRecovers, vars
<1>6. outages' \in 0..MaxOutages
  BY <1>0 DEF KafkaFails, KafkaRecovers, bounds, vars
<1>3. TypeOK'
  BY <1>1, <1>2, <1>6 DEF IInv, TypeOK, table, session
<1>4. EventsOK'
  BY <1>1 DEF IInv, EventsOK, table
<1>5. ASSUME NEW s \in Relays PROVE BatchOK(s)' /\ RelayOK(s)'
  <2>1. \A e \in Events : copies'[e] >= copies[e]
    BY <1>1 DEF IInv, TypeOK, table
  <2> QED
    BY <1>1, <1>3, <2>1, Undisturbed DEF IInv, table, session
<1> QED
  BY <1>3, <1>4, <1>5 DEF IInv

LEMMA NextIInv == IInv /\ [Next]_vars => IInv'
<1> SUFFICES ASSUME IInv, [Next]_vars PROVE IInv'
  OBVIOUS
<1>1. ASSUME NEW w \in Relays, Advance(w) PROVE IInv'
  BY <1>1, SelectIInv, SkipIInv, TakeRowIInv, SendIInv, ArrivesIInv, MarkIInv,
     CommitIInv DEF Advance
<1> QED
  BY <1>1, StoreIInv, OutageIInv, RolledBackIInv DEF Next

-----------------------------------------------------------------------------
(* The inductive invariant holds throughout every execution.               *)
THEOREM Invariance == Spec => []IInv
BY InitIInv, NextIInv, PTL DEF Spec

(* Rows, locks and sessions have their declared shape; in particular no    *)
(* event is tried more than MaxRetries times.                              *)
THEOREM TypeCorrect == Spec => []TypeOK
<1>1. IInv => TypeOK
  BY DEF IInv
<1> QED
  BY Invariance, <1>1, PTL

(* No two relays ever work on one event, whatever fails.                   *)
THEOREM MutualExclusion == Spec => []OneRelayEach
<1>1. IInv => OneRelayEach
  BY DEF IInv, BatchOK, OneRelayEach
<1> QED
  BY Invariance, <1>1, PTL

(* An event marked as published has reached the topic.                     *)
THEOREM NoFalsePublication == Spec => []PublishedIsDelivered
<1>1. IInv => PublishedIsDelivered
  BY DEF IInv, EventsOK, PublishedIsDelivered, Delivery!PublishedIsDelivered
<1> QED
  BY Invariance, <1>1, PTL

(* A published or failed event never changes again.                        *)
THEOREM Finality == Spec => SettledIsFinal
<1> DEFINE Kept == \A e \in Events : events[e].status \in {"published", "failed"}
                                     => events'[e] = events[e]
<1>1. IInv /\ [Next]_vars => [Kept]_<<events, copies>>
  <2> SUFFICES ASSUME IInv, Next, NEW e \in Events,
                      events[e].status \in {"published", "failed"}
               PROVE  events'[e] = events[e]
    BY DEF vars
  <2>1. ASSUME NEW x \in Events, NEW t \in EventTimes, Store(x, t)
        PROVE  events'[e] = events[e]
    BY <2>1 DEF Store, IInv, TypeOK
  <2>2. ASSUME NEW w \in Relays, Commit(w) PROVE events'[e] = events[e]
    BY <2>2 DEF Commit, IInv, BatchOK
  <2>3. CASE UNCHANGED events
    BY <2>3
  <2> QED
    BY <2>1, <2>2, <2>3
       DEF Next, Advance, KafkaFails, KafkaRecovers, FetchPending, SkipLockedRow,
           SkipSettledRow, TakeRow, Return, EndFetch, Send, SendAcked, AckLost,
           Flushed, Arrives, SendRaises, Dropped, MarkPublished, MarkFailed, Mark,
           StatementFails, Crash, Cancelled, RolledBack, table
<1> HIDE DEF Kept
<1>2. Spec => [][Kept]_<<events, copies>>
  BY Invariance, <1>1, PTL DEF Spec
<1> QED
  BY <1>2 DEF Kept, SettledIsFinal, Delivery!SettledIsFinal, Delivery!vars

-----------------------------------------------------------------------------
(* Duplicates.  Every copy of a message, on the topic or still in a        *)
(* producer's buffer, is paid for: by a transaction that was rolled back,  *)
(* by an acknowledgement that was lost, or by the one attempt that is      *)
(* under way or has been noted as a success (Used).                        *)

InFlight(e) == {w \in Relays : in_flight[w] = e}

Sent(e) == copies[e] + Cardinality(InFlight(e))

\* The transaction of w is sending e, or will commit that it did.
Attempted(w, e) ==
    /\ e \in taken[w]
    /\ \/ pc[w] \in {"sending", "acked"} /\ e = Head(queue[w])
       \/ e \notin Elements(queue[w]) /\ draft[w][e].status = "published"

Used(e) == events[e].status = "published" \/ \E w \in Relays : Attempted(w, e)

Paid(e) ==
    /\ IsFiniteSet(InFlight(e))
    /\ Sent(e) <= aborts + lost_acks + (IF Used(e) THEN 1 ELSE 0)

NothingInFlight ==
    \A w \in Relays : pc[w] \in {"fetching", "relaying", "acked", "raised"} =>
        in_flight[w] = NoEvent

CopiesInv == NothingInFlight /\ \A e \in Events : Paid(e)

LEMMA InitCopiesInv == Init => CopiesInv
<1>0. Init => NothingInFlight
  BY DEF Init, NothingInFlight
<1> SUFFICES ASSUME Init, NEW e \in Events PROVE Paid(e)
  BY <1>0 DEF CopiesInv
<1>1. InFlight(e) = {}
  BY OutboxRelayAssumption DEF Init, InFlight
<1>2. Sent(e) = 0 /\ IsFiniteSet(InFlight(e))
  BY <1>1, FS_EmptySet DEF Sent, Init
<1>3. aborts = 0 /\ lost_acks = 0
  BY DEF Init
<1> QED
  BY <1>2, <1>3 DEF Paid

(* What is sent is paid for as long as the debt does not grow: an attempt  *)
(* that is no longer counted is made up for by a new excuse or by the loss *)
(* of its message.                                                         *)
LEMMA PaidKept ==
    ASSUME TypeOK, TypeOK', NEW e \in Events, Paid(e), IsFiniteSet(InFlight(e)'),
           Sent(e)' <= Sent(e), aborts' >= aborts, lost_acks' >= lost_acks,
           Used(e) => \/ Used(e)'
                      \/ aborts' > aborts \/ lost_acks' > lost_acks
                      \/ Sent(e)' < Sent(e)
    PROVE  Paid(e)'
<1>1. /\ copies[e] \in Nat /\ copies'[e] \in Nat
      /\ Cardinality(InFlight(e)) \in Nat /\ Cardinality(InFlight(e)') \in Nat
  BY FS_CardinalityType DEF TypeOK, Paid
<1>2. Sent(e) \in Nat /\ Sent(e)' \in Nat
  BY <1>1 DEF Sent
<1>3. /\ aborts \in Nat /\ aborts' \in Nat /\ lost_acks \in Nat /\ lost_acks' \in Nat
  BY OutboxRelayAssumption DEF TypeOK
<1>4. Sent(e) <= aborts + lost_acks + (IF Used(e) THEN 1 ELSE 0)
  BY DEF Paid
<1> HIDE DEF Used, Sent
<1>5. Sent(e)' <= aborts' + lost_acks' + (IF Used(e)' THEN 1 ELSE 0)
  <2>1. CASE Used(e)
    <3>1. Sent(e) <= aborts + lost_acks + 1
      BY <1>4, <2>1
    <3>2. CASE Used(e)'
      BY <1>2, <1>3, <3>1, <3>2
    <3>3. CASE ~ Used(e)'
      <4>1. \/ aborts' > aborts \/ lost_acks' > lost_acks
            \/ Sent(e)' < Sent(e)
        BY <2>1, <3>3
      <4>2. Sent(e)' <= aborts' + lost_acks'
        BY <1>2, <1>3, <3>1, <4>1
      <4> QED
        BY <3>3, <4>2, <1>3
    <3> QED
      BY <3>2, <3>3
  <2>2. CASE ~ Used(e)
    <3>1. Sent(e) <= aborts + lost_acks
      BY <1>3, <1>4, <2>2
    <3>2. Sent(e)' <= aborts' + lost_acks'
      BY <1>2, <1>3, <3>1
    <3> QED
      BY <1>2, <1>3, <3>2
  <2> QED
    BY <2>1, <2>2
<1> QED
  BY <1>5 DEF Paid

(* A producer that loses its message, or keeps it, sends nothing new.      *)
LEMMA MessageLost ==
    ASSUME IInv, TypeOK', NEW w \in Relays, NEW e \in Events, Paid(e), copies' = copies,
           \/ in_flight' = in_flight
           \/ in_flight' = [in_flight EXCEPT ![w] = NoEvent]
    PROVE  /\ IsFiniteSet(InFlight(e)') /\ Sent(e)' <= Sent(e)
           /\ in_flight[w] = e /\ in_flight' = [in_flight EXCEPT ![w] = NoEvent]
                 => Sent(e)' < Sent(e)
<1>1. InFlight(e)' = InFlight(e) \/ InFlight(e)' = InFlight(e) \ {w}
  BY OutboxRelayAssumption DEF InFlight, IInv, TypeOK
<1>2. /\ IsFiniteSet(InFlight(e))
      /\ IsFiniteSet(InFlight(e) \ {w})
      /\ Cardinality(InFlight(e) \ {w}) = IF w \in InFlight(e) THEN Cardinality(InFlight(e)) - 1
                                          ELSE Cardinality(InFlight(e))
      /\ Cardinality(InFlight(e)) \in Nat
  BY FS_RemoveElement, FS_CardinalityType DEF Paid
<1>3. in_flight[w] = e /\ in_flight' = [in_flight EXCEPT ![w] = NoEvent]
         => InFlight(e)' = InFlight(e) \ {w} /\ w \in InFlight(e)
  BY OutboxRelayAssumption DEF InFlight, IInv, TypeOK
<1>4. copies[e] \in Nat /\ copies'[e] = copies[e]
  BY DEF IInv, TypeOK
<1>5. IsFiniteSet(InFlight(e)') /\ Cardinality(InFlight(e)') <= Cardinality(InFlight(e))
  BY <1>1, <1>2
<1>6. in_flight[w] = e /\ in_flight' = [in_flight EXCEPT ![w] = NoEvent]
         => Cardinality(InFlight(e)') = Cardinality(InFlight(e)) - 1
  BY <1>2, <1>3
<1>7. Cardinality(InFlight(e)') \in Nat
  BY <1>5, FS_CardinalityType
<1> QED
  BY <1>2, <1>4, <1>5, <1>6, <1>7 DEF Sent

(* A message that arrives is no longer in flight.                          *)
LEMMA MessageArrives ==
    ASSUME IInv, NEW w \in Relays, NEW e \in Events, Paid(e), Arrives(w)
    PROVE  IsFiniteSet(InFlight(e)') /\ Sent(e)' = Sent(e)
<1>1. /\ in_flight[w] \in Events
      /\ copies' = [copies EXCEPT ![in_flight[w]] = @ + 1]
      /\ in_flight' = [in_flight EXCEPT ![w] = NoEvent]
  BY DEF Arrives
<1>2. IsFiniteSet(InFlight(e)) /\ Cardinality(InFlight(e)) \in Nat /\ copies[e] \in Nat
  BY FS_CardinalityType DEF Paid, IInv, TypeOK
<1>3. CASE in_flight[w] = e
  <2>1. InFlight(e)' = InFlight(e) \ {w} /\ w \in InFlight(e)
    BY <1>1, <1>3, OutboxRelayAssumption DEF InFlight, IInv, TypeOK
  <2>2. /\ IsFiniteSet(InFlight(e)')
        /\ Cardinality(InFlight(e)') = Cardinality(InFlight(e)) - 1
    BY <1>2, <2>1, FS_RemoveElement
  <2>3. copies'[e] = copies[e] + 1
    BY <1>1, <1>3 DEF IInv, TypeOK
  <2> QED
    BY <1>2, <2>2, <2>3 DEF Sent
<1>4. CASE in_flight[w] # e
  <2>1. InFlight(e)' = InFlight(e)
    BY <1>1, <1>4, OutboxRelayAssumption DEF InFlight, IInv, TypeOK
  <2>2. copies'[e] = copies[e]
    BY <1>1, <1>4 DEF IInv, TypeOK
  <2> QED
    BY <1>2, <2>1, <2>2 DEF Sent
<1> QED
  BY <1>3, <1>4

(* What w attempted is still attempted after a step of its own that keeps  *)
(* its session, or of another relay; the rows of the table stay.           *)
LEMMA UsedKept ==
    ASSUME NEW e \in Events, Used(e), events' = events,
           \A s \in Relays : Attempted(s, e) => Attempted(s, e)'
    PROVE  Used(e)'
BY DEF Used

LEMMA OthersAttempt ==
    ASSUME NEW s \in Relays, NEW e \in Events, taken'[s] = taken[s], pc'[s] = pc[s],
           queue'[s] = queue[s], draft'[s] = draft[s], Attempted(s, e)
    PROVE  Attempted(s, e)'
BY DEF Attempted

(* Sessions move on, messages do not.                                      *)
LEMMA QuietCopiesInv ==
    ASSUME IInv, IInv', CopiesInv, NothingInFlight',
           UNCHANGED <<copies, in_flight, aborts, lost_acks>>,
           \A e \in Events : Used(e) => Used(e)'
    PROVE  CopiesInv'
<1> SUFFICES ASSUME NEW e \in Events PROVE Paid(e)'
  BY DEF CopiesInv
<1>1. InFlight(e)' = InFlight(e) /\ Paid(e)
  BY DEF InFlight, CopiesInv
<1>2. /\ IsFiniteSet(InFlight(e)') /\ Cardinality(InFlight(e)) \in Nat
      /\ Sent(e)' = Sent(e) /\ copies[e] \in Nat
  BY <1>1, FS_CardinalityType DEF Sent, Paid, IInv, TypeOK
<1>3. Sent(e)' <= Sent(e)
  BY <1>2 DEF Sent
<1>4. aborts' >= aborts /\ lost_acks' >= lost_acks
  BY OutboxRelayAssumption DEF IInv, TypeOK
<1> QED
  BY <1>1, <1>2, <1>3, <1>4, PaidKept DEF IInv

LEMMA StoreCopiesInv ==
    ASSUME IInv, IInv', CopiesInv, NEW x \in Events, NEW t \in EventTimes, Store(x, t)
    PROVE  CopiesInv'
<1>1. /\ events[x].status = "absent" /\ \A e \in Events \ {x} : events'[e] = events[e]
      /\ UNCHANGED <<copies, in_flight, aborts, lost_acks, pc, taken, queue, draft>>
  BY DEF Store, session, bounds, IInv, TypeOK
<1>2. \A e \in Events : Used(e) => Used(e)'
  BY <1>1 DEF Used, Attempted
<1> QED
  BY <1>1, <1>2, QuietCopiesInv DEF CopiesInv, NothingInFlight

LEMMA FetchCopiesInv ==
    ASSUME IInv, IInv', CopiesInv, NEW w \in Relays,
           \/ FetchPending(w) \/ EndFetch(w)
           \/ \E x \in Events : SkipLockedRow(w, x) \/ SkipSettledRow(w, x) \/ TakeRow(w, x)
    PROVE  CopiesInv'
<1> DEFINE Quiet ==
              /\ pc[w] \in {"sleeping", "fetching"} /\ pc'[w] \in {"fetching", "relaying"}
              /\ pc[w] = "sleeping" => in_flight[w] = NoEvent
              /\ UNCHANGED <<events, copies, in_flight, aborts, lost_acks>>
              /\ \A s \in Relays \ {w} : /\ pc'[s] = pc[s] /\ taken'[s] = taken[s]
                                         /\ queue'[s] = queue[s] /\ draft'[s] = draft[s]
<1>1. Quiet
  <2>1. FetchPending(w) \/ EndFetch(w) => Quiet
    BY DEF FetchPending, EndFetch, table, session, bounds, IInv, TypeOK
  <2>2. ASSUME NEW x \in Events, SkipLockedRow(w, x) \/ SkipSettledRow(w, x) PROVE Quiet
    BY <2>2 DEF SkipLockedRow, SkipSettledRow, Scanning, table, bounds, IInv, TypeOK
  <2>3. ASSUME NEW x \in Events, TakeRow(w, x) PROVE Quiet
    BY <2>3 DEF TakeRow, Return, Scanning, table, bounds, IInv, TypeOK
  <2> QED
    BY <2>1, <2>2, <2>3
<1>2. NothingInFlight'
  BY <1>1 DEF CopiesInv, NothingInFlight
<1>3. \A e \in Events : ~Attempted(w, e)
  BY <1>1 DEF Attempted, IInv, BatchOK, RelayOK
<1>4. \A e \in Events : Used(e) => Used(e)'
  BY <1>1, <1>3, UsedKept, OthersAttempt
<1> QED
  BY <1>1, <1>2, <1>4, QuietCopiesInv

(* The current event is sent: nobody had it attempted.                     *)
LEMMA SendCopiesInv ==
    ASSUME IInv, IInv', CopiesInv, NEW w \in Relays, Send(w)
    PROVE  CopiesInv'
<1>0. PICK h : h = Current(w)
  OBVIOUS
<1>1. /\ pc[w] = "relaying" /\ pc'[w] = "sending" /\ queue[w] # <<>>
      /\ in_flight[w] = NoEvent /\ in_flight'[w] = h
      /\ \A s \in Relays \ {w} : pc'[s] = pc[s] /\ in_flight'[s] = in_flight[s]
      /\ UNCHANGED <<events, copies, aborts, lost_acks, taken, queue, draft>>
  BY <1>0 DEF Send, CopiesInv, NothingInFlight, table, session, bounds, IInv, TypeOK
<1>2. h \in Elements(queue[w]) /\ h \in taken[w] /\ h \in Events /\ h = Head(queue[w])
  BY <1>0, <1>1, TailElements DEF Current, IInv, TypeOK, BatchOK
<1>3. NothingInFlight'
  BY <1>1 DEF CopiesInv, NothingInFlight
<1>4. Paid(h)'
  <2>1. ~Used(h)
    <3>1. events[h].status # "published"
      BY <1>2 DEF IInv, BatchOK
    <3>2. \A s \in Relays \ {w} : h \notin taken[s]
      BY <1>2 DEF IInv, BatchOK
    <3> QED
      BY <1>1, <1>2, <3>1, <3>2 DEF Used, Attempted
  <2>2. Used(h)'
    BY <1>1, <1>2 DEF Used, Attempted
  <2>3. InFlight(h)' = InFlight(h) \cup {w} /\ w \notin InFlight(h)
    BY <1>1, <1>2, OutboxRelayAssumption DEF InFlight
  <2>4. IsFiniteSet(InFlight(h)) /\ Sent(h) <= aborts + lost_acks
    <3>1. Paid(h)
      BY <1>2 DEF CopiesInv
    <3>2. copies[h] \in Nat /\ Cardinality(InFlight(h)) \in Nat
          /\ aborts \in Nat /\ lost_acks \in Nat
      BY <1>2, <3>1, FS_CardinalityType, OutboxRelayAssumption DEF Paid, IInv, TypeOK
    <3> QED
      BY <2>1, <3>1, <3>2 DEF Paid, Sent
  <2>5. /\ IsFiniteSet(InFlight(h)')
        /\ Cardinality(InFlight(h)') = Cardinality(InFlight(h)) + 1
        /\ Cardinality(InFlight(h)) \in Nat
    BY <2>3, <2>4, FS_AddElement, FS_CardinalityType
  <2>6. copies[h] \in Nat /\ aborts \in Nat /\ lost_acks \in Nat
    BY <1>2, OutboxRelayAssumption DEF IInv, TypeOK
  <2>7. Sent(h)' <= aborts' + lost_acks' + 1
    BY <1>1, <2>4, <2>5, <2>6 DEF Sent
  <2> QED
    BY <2>2, <2>5, <2>7 DEF Paid
<1>5. ASSUME NEW e \in Events \ {h} PROVE Paid(e)'
  <2>1. InFlight(e)' = InFlight(e) /\ Paid(e)
    BY <1>1, OutboxRelayAssumption DEF InFlight, CopiesInv
  <2>2. Used(e) => Used(e)'
    BY <1>1 DEF Used, Attempted
  <2>3. IsFiniteSet(InFlight(e)') /\ Cardinality(InFlight(e)) \in Nat /\ copies[e] \in Nat
    BY <2>1, FS_CardinalityType DEF Paid, IInv, TypeOK
  <2>4. Sent(e)' <= Sent(e)
    BY <1>1, <2>1, <2>3 DEF Sent
  <2>5. aborts' >= aborts /\ lost_acks' >= lost_acks
    BY <1>1, OutboxRelayAssumption DEF IInv, TypeOK
  <2> QED
    BY <2>1, <2>2, <2>3, <2>4, <2>5, PaidKept DEF IInv
<1> QED
  BY <1>3, <1>4, <1>5 DEF CopiesInv

(* A message arrives; if its acknowledgement does not, that is counted.    *)
LEMMA ArrivesCopiesInv ==
    ASSUME IInv, IInv', CopiesInv, NEW w \in Relays, SendAcked(w) \/ AckLost(w) \/ Flushed(w)
    PROVE  CopiesInv'
<1>1. /\ Arrives(w)
      /\ in_flight' = [in_flight EXCEPT ![w] = NoEvent]
      /\ UNCHANGED <<events, aborts, taken, queue, draft>>
      /\ \A s \in Relays \ {w} : pc'[s] = pc[s]
      /\ \/ pc'[w] = pc[w] /\ lost_acks' = lost_acks
         \/ pc[w] = "sending" /\ pc'[w] = "acked" /\ lost_acks' = lost_acks
         \/ lost_acks' = lost_acks + 1
  BY DEF SendAcked, AckLost, Flushed, Arrives, session, IInv, TypeOK
<1>2. NothingInFlight'
  BY <1>1 DEF CopiesInv, NothingInFlight, IInv, TypeOK
<1>3. ASSUME NEW e \in Events PROVE Paid(e)'
  <2>1. Paid(e)
    BY DEF CopiesInv
  <2>2. IsFiniteSet(InFlight(e)') /\ Sent(e)' = Sent(e)
    BY <1>1, <2>1, MessageArrives
  <2>3. Sent(e) \in Nat
    BY <2>1, FS_CardinalityType DEF Sent, Paid, IInv, TypeOK
  <2>4. aborts \in Nat /\ lost_acks \in Nat
    BY OutboxRelayAssumption DEF IInv, TypeOK
  <2>5. Used(e) => Used(e)' \/ lost_acks' > lost_acks
    <3>1. CASE lost_acks' = lost_acks + 1
      BY <2>4, <3>1
    <3>2. CASE lost_acks' = lost_acks
      <4>1. \A s \in Relays : Attempted(s, e) => Attempted(s, e)'
        BY <1>1, <2>4, <3>2 DEF Attempted
      <4> QED
        BY <1>1, <4>1, UsedKept
    <3> QED
      BY <1>1, <3>1, <3>2
  <2>6. /\ Sent(e)' <= Sent(e) /\ aborts' >= aborts /\ lost_acks' >= lost_acks
    BY <1>1, <2>2, <2>3, <2>4
  <2> QED
    BY <2>1, <2>2, <2>5, <2>6, PaidKept DEF IInv
<1> QED
  BY <1>2, <1>3 DEF CopiesInv

(* A message is given up: the attempt of the relay that sent it with it.   *)
LEMMA LostCopiesInv ==
    ASSUME IInv, IInv', CopiesInv, NEW w \in Relays, SendRaises(w) \/ Dropped(w)
    PROVE  CopiesInv'
<1>1. /\ in_flight' = [in_flight EXCEPT ![w] = NoEvent]
      /\ UNCHANGED <<events, copies, aborts, lost_acks, taken, queue, draft>>
      /\ \A s \in Relays \ {w} : pc'[s] = pc[s]
      /\ \/ pc'[w] = pc[w]
         \/ pc[w] = "sending" /\ pc'[w] = "raised"
  BY DEF SendRaises, Dropped, table, session, bounds, IInv, TypeOK
<1>2. NothingInFlight'
  BY <1>1 DEF CopiesInv, NothingInFlight, IInv, TypeOK
<1>3. ASSUME NEW e \in Events PROVE Paid(e)'
  <2>1. Paid(e)
    BY DEF CopiesInv
  <2>2. /\ IsFiniteSet(InFlight(e)') /\ Sent(e)' <= Sent(e)
        /\ in_flight[w] = e => Sent(e)' < Sent(e)
    BY <1>1, <2>1, MessageLost DEF IInv
  <2>3. Used(e) => Used(e)' \/ in_flight[w] = e
    <3>1. ASSUME in_flight[w] # e, NEW s \in Relays, Attempted(s, e) PROVE Attempted(s, e)'
      <4>1. CASE pc'[s] = pc[s]
        BY <1>1, <3>1, <4>1, OthersAttempt
      <4>2. CASE s = w /\ pc[w] = "sending"
        BY <1>1, <3>1, <4>2 DEF Attempted, IInv, RelayOK
      <4> QED
        BY <1>1, <4>1, <4>2
    <3> QED
      BY <1>1, <3>1, UsedKept
  <2>4. aborts' >= aborts /\ lost_acks' >= lost_acks
    BY <1>1, OutboxRelayAssumption DEF IInv, TypeOK
  <2> QED
    BY <2>1, <2>2, <2>3, <2>4, PaidKept DEF IInv
<1> QED
  BY <1>2, <1>3 DEF CopiesInv

(* The outcome is noted: a success stays an attempt.                       *)
LEMMA MarkCopiesInv ==
    ASSUME IInv, IInv', CopiesInv, NEW w \in Relays, MarkPublished(w) \/ MarkFailed(w)
    PROVE  CopiesInv'
<1>0. PICK h : h = Current(w)
  OBVIOUS
<1>1. /\ pc[w] \in {"acked", "raised"} /\ pc'[w] = "relaying"
      /\ UNCHANGED <<events, copies, in_flight, aborts, lost_acks, taken>>
      /\ \A s \in Relays \ {w} : /\ pc'[s] = pc[s] /\ queue'[s] = queue[s]
                                 /\ draft'[s] = draft[s]
      /\ queue'[w] = Tail(queue[w])
  BY DEF MarkPublished, MarkFailed, Mark, table, bounds, IInv, TypeOK
<1>2. queue[w] \in Seq(Events) /\ queue[w] # <<>> /\ NoRepeat(queue[w])
  BY <1>1 DEF IInv, TypeOK, BatchOK, RelayOK
<1>3. /\ h \in Elements(queue[w]) /\ h \in taken[w] /\ h \in Events /\ h = Head(queue[w])
      /\ Elements(Tail(queue[w])) = Elements(queue[w]) \ {h}
  BY <1>0, <1>2, TailElements DEF Current, IInv, TypeOK, BatchOK
<1>4. /\ \A e \in Events \ {h} : draft'[w][e] = draft[w][e]
      /\ pc[w] = "acked" => draft'[w][h] = Published(draft[w][h])
      /\ draft[w][h] \in EventRow
  BY <1>0, <1>1, <1>3 DEF MarkPublished, MarkFailed, Mark, IInv, TypeOK
<1>5. NothingInFlight'
  BY <1>1 DEF CopiesInv, NothingInFlight
<1>6. ASSUME NEW e \in Events, Attempted(w, e) PROVE Attempted(w, e)'
  <2>1. CASE e = h
    <3>1. pc[w] = "acked"
      BY <1>1, <1>3, <1>6, <2>1 DEF Attempted
    <3> QED
      BY <1>1, <1>3, <1>4, <2>1, <3>1, RowTypes DEF Attempted
  <2>2. CASE e # h
    BY <1>1, <1>3, <1>4, <1>6, <2>2 DEF Attempted
  <2> QED
    BY <2>1, <2>2
<1>7. \A e \in Events : Used(e) => Used(e)'
  BY <1>1, <1>6, UsedKept, OthersAttempt
<1> QED
  BY <1>1, <1>5, <1>7, QuietCopiesInv

(* A commit makes the successes of the batch durable.                      *)
LEMMA CommitCopiesInv ==
    ASSUME IInv, IInv', CopiesInv, NEW w \in Relays, Commit(w)
    PROVE  CopiesInv'
<1>1. /\ pc[w] = "relaying" /\ pc'[w] = "sleeping"
      /\ UNCHANGED <<copies, in_flight, aborts, lost_acks>>
      /\ \A s \in Relays \ {w} : /\ pc'[s] = pc[s] /\ taken'[s] = taken[s]
                                 /\ queue'[s] = queue[s] /\ draft'[s] = draft[s]
      /\ \A e \in Events : events'[e] = IF e \in taken[w] THEN draft[w][e] ELSE events[e]
  BY DEF Commit, Closed, bounds, IInv, TypeOK
<1>2. NothingInFlight'
  BY <1>1 DEF CopiesInv, NothingInFlight
<1>3. ASSUME NEW e \in Events, Used(e) PROVE Used(e)'
  <2>1. CASE events[e].status = "published"
    BY <1>1, <2>1 DEF Used, IInv, BatchOK
  <2>2. CASE Attempted(w, e)
    BY <1>1, <2>2 DEF Used, Attempted
  <2>3. ASSUME NEW s \in Relays \ {w}, Attempted(s, e) PROVE Used(e)'
    BY <1>1, <2>3, OthersAttempt DEF Used
  <2> QED
    BY <1>3, <2>1, <2>2, <2>3 DEF Used
<1> QED
  BY <1>1, <1>2, <1>3, QuietCopiesInv

(* A batch that is rolled back may have its events sent again, and counts. *)
LEMMA RolledBackCopiesInv ==
    ASSUME IInv, IInv', CopiesInv, NEW w \in Relays,
           StatementFails(w) \/ Crash(w) \/ Cancelled(w)
    PROVE  CopiesInv'
<1>1. /\ pc'[w] = "sleeping" /\ \A s \in Relays \ {w} : pc'[s] = pc[s]
      /\ copies' = copies /\ lost_acks' = lost_acks /\ aborts' = aborts + 1
      /\ \/ in_flight' = in_flight
         \/ in_flight' = [in_flight EXCEPT ![w] = NoEvent]
  BY DEF StatementFails, Crash, Cancelled, RolledBack, Closed, table, IInv, TypeOK
<1>2. NothingInFlight'
  BY <1>1 DEF CopiesInv, NothingInFlight, IInv, TypeOK
<1>3. ASSUME NEW e \in Events PROVE Paid(e)'
  <2>1. Paid(e)
    BY DEF CopiesInv
  <2>2. IsFiniteSet(InFlight(e)') /\ Sent(e)' <= Sent(e)
    BY <1>1, <2>1, MessageLost DEF IInv
  <2>3. aborts' > aborts /\ aborts' >= aborts /\ lost_acks' >= lost_acks
    BY <1>1, OutboxRelayAssumption DEF IInv, TypeOK
  <2> QED
    BY <2>1, <2>2, <2>3, PaidKept DEF IInv
<1> QED
  BY <1>2, <1>3 DEF CopiesInv

LEMMA NextCopiesInv == IInv /\ IInv' /\ CopiesInv /\ [Next]_vars => CopiesInv'
<1> SUFFICES ASSUME IInv, IInv', CopiesInv, [Next]_vars PROVE CopiesInv'
  OBVIOUS
<1>1. CASE KafkaFails \/ KafkaRecovers \/ UNCHANGED vars
  <2>1. UNCHANGED <<events, copies, in_flight, aborts, lost_acks, pc, taken, queue, draft>>
    BY <1>1 DEF KafkaFails, KafkaRecovers, vars, table, session, bounds
  <2>2. \A e \in Events : Used(e) => Used(e)'
    BY <2>1 DEF Used, Attempted
  <2> QED
    BY <2>1, <2>2, QuietCopiesInv DEF CopiesInv, NothingInFlight
<1>2. ASSUME NEW w \in Relays, Advance(w) PROVE CopiesInv'
  BY <1>2, FetchCopiesInv, SendCopiesInv, ArrivesCopiesInv, LostCopiesInv,
     MarkCopiesInv, CommitCopiesInv DEF Advance
<1> QED
  BY <1>1, <1>2, StoreCopiesInv, RolledBackCopiesInv DEF Next

(* However many relays poll the table at the same time, an event is sent   *)
(* more than once only after a batch was rolled back or an acknowledgement *)
(* was lost, and then no more often than that happened.                    *)
THEOREM DuplicatesHaveCauses == Spec => []DuplicatesExplained
<1>1. IInv /\ CopiesInv => DuplicatesExplained
  <2> SUFFICES ASSUME IInv, CopiesInv, NEW e \in Events
               PROVE  copies[e] <= 1 + aborts + lost_acks
    BY DEF DuplicatesExplained
  <2>1. Paid(e)
    BY DEF CopiesInv
  <2>2. /\ copies[e] \in Nat /\ Cardinality(InFlight(e)) \in Nat
        /\ aborts \in Nat /\ lost_acks \in Nat
    BY <2>1, FS_CardinalityType, OutboxRelayAssumption DEF Paid, IInv, TypeOK
  <2>3. copies[e] + Cardinality(InFlight(e)) <= aborts + lost_acks + 1
    BY <2>1, <2>2 DEF Paid, Sent
  <2> QED
    BY <2>2, <2>3
<1>2. Spec => []CopiesInv
  BY Invariance, InitCopiesInv, NextCopiesInv, PTL DEF Spec
<1> QED
  BY Invariance, <1>1, <1>2, PTL

-----------------------------------------------------------------------------
(* The promise, step by step.                                              *)

LEMMA DeliveryInit == Init => Delivery!Init
BY DEF Init, Delivery!Init, AbsentEvent, Delivery!AbsentEvent

(* A commit settles the events of the batch.                               *)
LEMMA CommitSettles ==
    ASSUME IInv, NEW w \in Relays, Commit(w)
    PROVE  Delivery!Next
<1> DEFINE delivered == {e \in taken[w] : draft[w][e] = Published(events[e]) /\ copies[e] > 0}
           refused   == taken[w] \ delivered
<1>1. taken[w] \subseteq Events /\ delivered \in SUBSET Events /\ refused \in SUBSET Events
  BY DEF IInv, TypeOK
<1>2. \A e \in refused : draft[w][e] = Retried(events[e])
  BY CommitRows DEF Noted
<1>3. \A e \in taken[w] : events[e].status = "pending"
  BY DEF IInv, BatchOK
<1>4. events' = [e \in Events |->
                    IF e \in delivered THEN Published(events[e])
                    ELSE IF e \in refused THEN Retried(events[e])
                    ELSE events[e]]
  BY <1>1, <1>2 DEF Commit
<1>5. Delivery!Settle(delivered, refused)
  BY <1>3, <1>4 DEF Delivery!Settle, Published, Delivery!Published, Retried,
                    Delivery!Retried, Commit
<1> QED
  BY <1>1, <1>5 DEF Delivery!Next

LEMMA ArrivesDelivers ==
    ASSUME IInv, NEW w \in Relays, Arrives(w)
    PROVE  Delivery!Next
<1>1. in_flight[w] \in Events /\ events[in_flight[w]].status # "absent"
  BY OutboxRelayAssumption DEF IInv, RelayOK, Arrives
<1>2. Delivery!Deliver(in_flight[w])
  BY <1>1 DEF Arrives, Delivery!Deliver
<1> QED
  BY <1>1, <1>2 DEF Delivery!Next

LEMMA DeliveryStep == IInv /\ [Next]_vars => [Delivery!Next]_(Delivery!vars)
<1> SUFFICES ASSUME IInv, [Next]_vars PROVE [Delivery!Next]_(Delivery!vars)
  OBVIOUS
<1> USE DEF Delivery!vars
<1>1. ASSUME NEW e \in Events, NEW t \in EventTimes, Store(e, t)
      PROVE  Delivery!Next
  <2>1. Delivery!Store(e, t)
    BY <1>1 DEF Store, Delivery!Store, PendingEvent, Delivery!PendingEvent,
                AbsentEvent, Delivery!AbsentEvent
  <2> QED
    BY <2>1 DEF Delivery!Next
<1>2. ASSUME NEW w \in Relays, Advance(w) PROVE [Delivery!Next]_(Delivery!vars)
  <2>1. CASE Commit(w)
    BY <2>1, CommitSettles
  <2>2. CASE SendAcked(w) \/ AckLost(w) \/ Flushed(w)
    BY <2>2, ArrivesDelivers DEF SendAcked, AckLost, Flushed
  <2>3. CASE UNCHANGED table
    BY <2>3 DEF table
  <2> QED
    BY <1>2, <2>1, <2>2, <2>3
       DEF Advance, FetchPending, SkipLockedRow, SkipSettledRow, TakeRow, Return,
           EndFetch, Send, SendRaises, Dropped, MarkPublished, MarkFailed, Mark
<1>3. ASSUME NEW w \in Relays, StatementFails(w) \/ Crash(w) \/ Cancelled(w)
      PROVE  UNCHANGED table
  BY <1>3 DEF StatementFails, Crash, Cancelled, RolledBack
<1>4. CASE KafkaFails \/ KafkaRecovers \/ UNCHANGED vars
  BY <1>4 DEF KafkaFails, KafkaRecovers, vars, table
<1> QED
  BY <1>1, <1>2, <1>3, <1>4 DEF Next, table

(* Seen through the table and the topic, every execution of the relays is  *)
(* one of stores, deliveries and settlements (process_batch).              *)
THEOREM Refinement == Spec => DeliverySpec
BY Invariance, DeliveryInit, DeliveryStep, PTL
   DEF Spec, DeliverySpec, Delivery!Spec

(* Only what is in the table is ever sent.                                 *)
SentIsStored == \A e \in Events : copies[e] > 0 => events[e].status # "absent"

LEMMA OnlyStoredIsSent == Spec => []SentIsStored
<1>1. Init => SentIsStored
  BY DEF Init, SentIsStored
<1>2. IInv /\ SentIsStored /\ [Next]_vars => SentIsStored'
  <2> SUFFICES ASSUME IInv, SentIsStored, [Next]_vars, NEW e \in Events, copies'[e] > 0
               PROVE  events'[e].status # "absent"
    BY DEF SentIsStored
  <2>1. events[e] \in EventRow /\ copies[e] \in Nat
    BY DEF IInv, TypeOK
  <2>2. [Delivery!Next]_(Delivery!vars)
    BY DeliveryStep
  <2>3. ASSUME NEW x \in Events, NEW t \in EventTimes, Delivery!Store(x, t)
        PROVE  events'[e].status # "absent"
    <3>1. Delivery!PendingEvent(t).status = "pending"
      BY DEF Delivery!PendingEvent, Delivery!AbsentEvent
    <3>2. events'[e] = Delivery!PendingEvent(t) \/ events'[e] = events[e]
      BY <2>3 DEF Delivery!Store, IInv, TypeOK
    <3> QED
      BY <2>3, <3>1, <3>2 DEF Delivery!Store, SentIsStored
  <2>4. ASSUME NEW x \in Events, Delivery!Deliver(x) PROVE events'[e].status # "absent"
    BY <2>1, <2>4 DEF Delivery!Deliver, SentIsStored, IInv, TypeOK
  <2>5. ASSUME NEW delivered \in SUBSET Events, NEW refused \in SUBSET Events,
               Delivery!Settle(delivered, refused)
        PROVE  events'[e].status # "absent"
    <3>1. events[e].status # "absent"
      BY <2>5 DEF Delivery!Settle, SentIsStored
    <3>2. events'[e] \in {events[e], Delivery!Published(events[e]), Delivery!Retried(events[e])}
      BY <2>5 DEF Delivery!Settle
    <3>3. /\ Delivery!Published(events[e]).status = "published"
          /\ Delivery!Retried(events[e]).status \in {"failed", events[e].status}
      BY <2>1 DEF Delivery!Published, Delivery!Retried, EventRow
    <3> QED
      BY <3>1, <3>2, <3>3
  <2>6. CASE UNCHANGED Delivery!vars
    BY <2>6 DEF Delivery!vars, SentIsStored
  <2> QED
    BY <2>2, <2>3, <2>4, <2>5, <2>6 DEF Delivery!Next
<1> QED
  BY Invariance, <1>1, <1>2, PTL DEF Spec

(* The relays and the topic bring no event into the table.                 *)
LEMMA RelaysStoreNothing ==
    ASSUME IInv,
           \/ KafkaFails \/ KafkaRecovers
           \/ \E w \in Relays : Advance(w) \/ StatementFails(w) \/ Crash(w) \/ Cancelled(w),
           NEW e \in Events, events[e].status = "absent"
    PROVE  events'[e].status = "absent"
<1>1. ASSUME NEW w \in Relays, Commit(w) PROVE events'[e] = events[e]
  BY <1>1 DEF Commit, IInv, BatchOK
<1>2. CASE UNCHANGED events
  BY <1>2
<1> QED
  BY <1>1, <1>2
     DEF Advance, KafkaFails, KafkaRecovers, FetchPending, SkipLockedRow,
         SkipSettledRow, TakeRow, Return, EndFetch, Send, SendAcked, AckLost,
         Flushed, Arrives, SendRaises, Dropped, MarkPublished, MarkFailed, Mark,
         StatementFails, Crash, Cancelled, RolledBack, table
=============================================================================
