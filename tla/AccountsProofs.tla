--------------------------- MODULE AccountsProofs ---------------------------
(***************************************************************************)
(* The table "users" and the rights of requests are correct for any number *)
(* of requests, seeds and accounts.                                        *)
(*                                                                         *)
(* OneAccountEach is not inductive: that a COMMIT meets no row with its    *)
(* names follows from the entries of the unique indexes, which an open     *)
(* transaction has to itself (PlacedApart) and no committed row has        *)
(* (PlacedFresh), and from its having all of them at the end (Complete).   *)
(* ServedWithRights needs that a token names a row which is there already, *)
(* so that nobody gains rights by an INSERT (TokenNamesRow).               *)
(***************************************************************************)
EXTENDS Accounts, TLAPS

Open == {"flushing", "answered"}

Name(a)    == <<"username", a.username>>
Address(a) == <<"email", a.email>>

\* The entries that t has made or will make.
Due(t) == placed[t] \cup {todo[t][i] : i \in DOMAIN todo[t]}

Complete(t) ==
    /\ pc[t] \in Open => \A a \in Accounts(t) : {Name(a), Address(a)} \subseteq Due(t)
    /\ pc[t] \notin Open => placed[t] = {} /\ todo[t] = <<>>

PlacedFresh == \A t \in Writers : placed[t] \cap Committed = {}
PlacedApart == \A t, s \in Writers : t # s => placed[t] \cap placed[s] = {}

\* A row is one of its inserter's accounts, and the inserter is done.
Inserted ==
    \A u \in users :
        /\ u.username = u.id[2].username /\ u.email = u.id[2].email
        /\ u.id[1] \in Writers => pc[u.id[1]] = "done"
        /\ u.id[1] \in Seeds => u.id[2] \in Accounts(u.id[1])

\* A seed that goes on has not seen a row that was there before everything.
SeedAlone ==
    \A s \in Seeds : pc[s] \in Open => \A u \in users : u.id[1] # ByHand

\* What a request has sent and been told, at each point.
RequestOK(r) ==
    /\ pc[r] = "checking" =>
          /\ request[r] \in Sent
          /\ request[r].endpoint = "register" => request[r].account \in Account
    /\ pc[r] \in Open => request[r].account \in Account
    /\ pc[r] \in {"idle", "holding", "checking", "flushing"} => reply[r] = "none"
    /\ pc[r] = "answered" => reply[r] = "201" /\ todo[r] = <<>>

\* The table and the transactions that write it.
TableInv ==
    /\ TypeOK
    /\ OneAccountEach
    /\ RegisteredIsKept
    /\ SeededOnce
    /\ Inserted
    /\ \A t \in Writers : Complete(t)
    /\ \A r \in Requests : RequestOK(r)
    /\ PlacedFresh
    /\ PlacedApart
    /\ SeedAlone

TokenNamesRow(r) == token[r] # NoToken => \E u \in users : u.id = token[r].sub

\* Rights that a request has now, it has had since it was sent.
Witnessed(r) ==
    pc[r] = "checking" /\ Entitled(users, token[r], request[r].endpoint) => witnessed[r]

Served(r) == pc[r] \in Open \/ reply[r] \in {"200", "201"} => witnessed[r]

RightsOK(r) == TokenNamesRow(r) /\ Witnessed(r) /\ Served(r)

\* The rights of the requests; it is inductive in the states of TableInv.
RightsInv == \A r \in Requests : RightsOK(r)

-----------------------------------------------------------------------------
(* Entries of the indexes.                                                 *)

LEMMA EntriesOf ==
    ASSUME NEW a \in Account
    PROVE  /\ Entries(a) \in Seq(Entry)
           /\ Name(a) \in Entry /\ Address(a) \in Entry
           /\ Entries(a) = <<Name(a), Address(a)>>
BY DEF Entries, Entry, Account, Name, Address

LEMMA SeedEntriesOf ==
    /\ SeedEntries \in Seq(Entry)
    /\ \A i \in DOMAIN SeedAccounts :
          \E j, k \in DOMAIN SeedEntries :
             SeedEntries[j] = Name(SeedAccounts[i]) /\ SeedEntries[k] = Address(SeedAccounts[i])
<1> DEFINE n == Len(SeedAccounts)
<1>1. n \in Nat /\ \A i \in 1..n : SeedAccounts[i] \in Account
  BY AccountsAssumption
<1>2. \A k \in 1..(2 * n) : (k + 1) \div 2 \in 1..n
  BY <1>1
<1>3. \A k \in 1..(2 * n) : SeedEntries[k] \in Entry
  BY <1>1, <1>2, EntriesOf DEF SeedEntries
<1>4. DOMAIN SeedEntries = 1..(2 * n) /\ DOMAIN SeedAccounts = 1..n
  BY AccountsAssumption DEF SeedEntries
<1>5. SeedEntries \in Seq(Entry)
  <2>1. 2 * n \in Nat
    BY <1>1
  <2>2. SeedEntries = [k \in 1..(2 * n) |-> SeedEntries[k]]
    BY DEF SeedEntries
  <2> QED
    BY <1>3, <2>1, <2>2
<1>6. ASSUME NEW i \in 1..n
      PROVE  /\ SeedEntries[2 * i - 1] = Name(SeedAccounts[i])
             /\ SeedEntries[2 * i] = Address(SeedAccounts[i])
  <2>1. /\ 2 * i - 1 \in 1..(2 * n) /\ 2 * i \in 1..(2 * n)
        /\ ((2 * i - 1) + 1) \div 2 = i /\ (2 * i + 1) \div 2 = i
        /\ (2 * i - 1) % 2 = 1 /\ (2 * i) % 2 # 1
    BY <1>1
  <2>2. Entries(SeedAccounts[i]) = <<Name(SeedAccounts[i]), Address(SeedAccounts[i])>>
    BY <1>1, EntriesOf
  <2> QED
    BY <2>1, <2>2 DEF SeedEntries
<1>7. ASSUME NEW i \in 1..n
      PROVE  2 * i - 1 \in DOMAIN SeedEntries /\ 2 * i \in DOMAIN SeedEntries
  BY <1>1, <1>4
<1> QED
  BY <1>4, <1>5, <1>6, <1>7

LEMMA HeadAndTail ==
    ASSUME NEW S, NEW s \in Seq(S), s # <<>>
    PROVE  /\ Head(s) \in S /\ Tail(s) \in Seq(S)
           /\ {s[i] : i \in DOMAIN s} =
                 {Head(s)} \cup {Tail(s)[i] : i \in DOMAIN Tail(s)}
<1>1. /\ Len(s) \in Nat \ {0} /\ DOMAIN s = 1..Len(s)
      /\ Head(s) = s[1] /\ DOMAIN Tail(s) = 1..(Len(s) - 1)
      /\ \A i \in 1..(Len(s) - 1) : Tail(s)[i] = s[i + 1]
  OBVIOUS
<1>2. ASSUME NEW i \in DOMAIN s
      PROVE  s[i] = Head(s) \/ \E j \in DOMAIN Tail(s) : s[i] = Tail(s)[j]
  <2>1. CASE i = 1
    BY <1>1, <2>1
  <2>2. CASE i # 1
    <3>1. i - 1 \in 1..(Len(s) - 1) /\ (i - 1) + 1 = i
      BY <1>1, <2>2
    <3> QED
      BY <1>1, <3>1
  <2> QED
    BY <2>1, <2>2
<1>3. 1 \in DOMAIN s /\ \A j \in DOMAIN Tail(s) : j + 1 \in DOMAIN s
  BY <1>1
<1>4. Head(s) \in S /\ Tail(s) \in Seq(S)
  OBVIOUS
<1>5. \A i \in DOMAIN Tail(s) : Tail(s)[i] \in {s[j] : j \in DOMAIN s}
  BY <1>1, <1>3
<1>6. Head(s) \in {s[j] : j \in DOMAIN s}
  BY <1>1, <1>3
<1>7. {s[i] : i \in DOMAIN s} = {Head(s)} \cup {Tail(s)[i] : i \in DOMAIN Tail(s)}
  BY <1>2, <1>5, <1>6
<1> QED
  BY <1>4, <1>7

\* The accounts of a transaction that is open are accounts.
LEMMA AccountsType ==
    ASSUME TableInv, NEW t \in Writers, pc[t] \in Open
    PROVE  Accounts(t) \subseteq Account
<1>1. CASE t \in Seeds
  <2>1. \A i \in DOMAIN SeedAccounts : SeedAccounts[i] \in Account
    BY AccountsAssumption
  <2> QED
    BY <1>1, <2>1 DEF Accounts
<1>2. CASE t \notin Seeds
  BY <1>2 DEF Accounts, TableInv, RequestOK, Writers
<1> QED
  BY <1>1, <1>2

-----------------------------------------------------------------------------
LEMMA TableInit == Init => TableInv
<1> SUFFICES ASSUME Init PROVE TableInv
  OBVIOUS
<1>1. PICK accounts \in {{}, HandAccounts} : users = {NewUser(ByHand, a) : a \in accounts}
  BY DEF Init
<1>2. accounts \subseteq Account /\ \A a, b \in accounts : a # b => Distinct(a, b)
  BY <1>1, AccountsAssumption
<1>3. \A u \in users : \E a \in accounts :
         u = NewUser(ByHand, a) /\ a \in Account
  BY <1>1, <1>2
<1>4. \A a \in Account : NewUser(ByHand, a) \in User
  BY DEF NewUser, User, Id, Account
<1>5. users \subseteq User
  BY <1>3, <1>4
<1>6. TypeOK
  <2>1. /\ pc \in [Writers -> PC]
        /\ token \in [Requests -> Token \cup {NoToken}]
        /\ request \in [Requests -> Sent \cup {NotSent}]
        /\ placed \in [Writers -> SUBSET Entry]
        /\ reply \in [Requests -> {"none", "200", "201", "401", "403", "500"}]
        /\ witnessed \in [Requests -> BOOLEAN]
    BY DEF Init, PC
  <2>2. todo \in [Writers -> Seq(Entry)]
    BY DEF Init
  <2>3. changes \in 0..MaxChanges
    BY AccountsAssumption DEF Init
  <2>4. \A t \in Writers : placed[t] = {}
    BY DEF Init
  <2> QED
    BY <1>5, <2>1, <2>2, <2>3, <2>4 DEF TypeOK
<1>7. OneAccountEach
  <2> SUFFICES ASSUME NEW u \in users, NEW v \in users,
                      u.username = v.username \/ u.email = v.email
               PROVE  u = v
    BY DEF OneAccountEach
  <2>1. PICK a \in accounts, b \in accounts : u = NewUser(ByHand, a) /\ v = NewUser(ByHand, b)
    BY <1>1
  <2>2. a.username = b.username \/ a.email = b.email
    BY <2>1 DEF NewUser
  <2> QED
    BY <1>2, <2>1, <2>2 DEF Distinct
<1>8. \A u \in users : /\ u.id[1] = ByHand
                       /\ u.username = u.id[2].username /\ u.email = u.id[2].email
  BY <1>3 DEF NewUser
<1>9. Inserted /\ SeededOnce
  BY <1>8, AccountsAssumption DEF Inserted, SeededOnce, Writers
<1>10. RegisteredIsKept
  BY DEF Init, RegisteredIsKept
<1>11. ASSUME NEW r \in Requests PROVE RequestOK(r)
  BY DEF RequestOK, Init, Open, Writers
<1>12. /\ \A t \in Writers : Complete(t)
       /\ PlacedFresh /\ PlacedApart /\ SeedAlone
  BY DEF Init, Complete, PlacedFresh, PlacedApart, SeedAlone, Open, Writers
<1> QED
  BY <1>6, <1>7, <1>9, <1>10, <1>11, <1>12 DEF TableInv

(* A request that does not write, before and after its step, disturbs      *)
(* nobody: Login, Expire, Send and the answers of get_current_user.        *)
LEMMA QuietStep ==
    ASSUME TableInv, NEW r \in Requests, TypeOK',
           UNCHANGED <<users, writing>>,
           pc[r] \notin Open \cup {"done"}, pc'[r] \notin Open,
           reply'[r] # "201", RequestOK(r)',
           \A t \in Writers \ {r} : pc'[t] = pc[t],
           \A q \in Requests \ {r} : request'[q] = request[q] /\ reply'[q] = reply[q]
    PROVE  TableInv'
<1> USE DEF TableInv
<1>1. \A q \in Requests : RequestOK(q)'
  BY DEF RequestOK, writing, Writers
<1>2. \A t \in Writers : Complete(t)'
  <2> TAKE t \in Writers
  <2>1. CASE t = r
    BY <2>1 DEF Complete, writing
  <2>2. CASE t # r
    BY <2>2, AccountsAssumption DEF Complete, Due, Accounts, writing, Writers
  <2> QED
    BY <2>1, <2>2
<1>3. OneAccountEach' /\ PlacedFresh' /\ PlacedApart'
  BY DEF OneAccountEach, PlacedFresh, PlacedApart, Committed, writing
<1>4. \A s \in Seeds : Accounts(s)' = Accounts(s) /\ pc'[s] = pc[s]
  BY AccountsAssumption DEF Accounts, Writers
<1>5. SeededOnce' /\ SeedAlone'
  BY <1>4 DEF SeededOnce, SeedAlone
<1>6. Inserted'
  <2> SUFFICES ASSUME NEW u \in users
               PROVE  /\ u.username = u.id[2].username /\ u.email = u.id[2].email
                      /\ u.id[1] \in Writers => pc'[u.id[1]] = "done"
                      /\ u.id[1] \in Seeds => u.id[2] \in Accounts(u.id[1])'
    BY DEF Inserted
  <2> QED
    BY <1>4 DEF Inserted
<1>7. RegisteredIsKept'
  BY DEF RegisteredIsKept, Writers
<1> QED
  BY <1>1, <1>2, <1>3, <1>5, <1>6, <1>7

(* The facts about a table that a step leaves alone, if it takes nobody    *)
(* out of "done" and tells no request that is done what it was not told.   *)
LEMMA SameUsers ==
    ASSUME TableInv, users' = users,
           \A t \in Writers : pc[t] = "done" => pc'[t] = "done",
           \A r \in Requests : reply'[r] = "201" /\ pc'[r] = "done" =>
              reply[r] = "201" /\ pc[r] = "done" /\ request'[r] = request[r]
    PROVE  OneAccountEach' /\ RegisteredIsKept' /\ SeededOnce' /\ Inserted'
<1> USE DEF TableInv
<1>1. \A s \in Seeds : Accounts(s)' = Accounts(s)
  BY DEF Accounts
<1>2. Inserted'
  <2> SUFFICES ASSUME NEW u \in users
               PROVE  /\ u.username = u.id[2].username /\ u.email = u.id[2].email
                      /\ u.id[1] \in Writers => pc'[u.id[1]] = "done"
                      /\ u.id[1] \in Seeds => u.id[2] \in Accounts(u.id[1])'
    BY DEF Inserted
  <2> QED
    BY <1>1 DEF Inserted
<1>3. SeededOnce'
  BY <1>1 DEF SeededOnce
<1>4. OneAccountEach' /\ RegisteredIsKept'
  BY DEF OneAccountEach, RegisteredIsKept
<1> QED
  BY <1>2, <1>3, <1>4

(* A transaction starts with the entries of its accounts to make.          *)
LEMMA StartStep ==
    ASSUME TableInv, TypeOK', NEW t \in Writers, NEW entries \in Seq(Entry),
           pc[t] \in {"idle", "checking"},
           pc' = [pc EXCEPT ![t] = "flushing"],
           todo' = [todo EXCEPT ![t] = entries],
           UNCHANGED <<users, request, placed, reply>>,
           t \in Seeds => users = {},
           t \in Requests => request[t].account \in Account /\ pc[t] = "checking",
           \A a \in Accounts(t) : \E j, k \in DOMAIN entries :
              entries[j] = Name(a) /\ entries[k] = Address(a)
    PROVE  TableInv'
<1> USE DEF TableInv
<1>1. /\ pc'[t] = "flushing" /\ todo'[t] = entries
      /\ \A s \in Writers \ {t} : pc'[s] = pc[s] /\ todo'[s] = todo[s]
  BY DEF TypeOK
<1>2. Requests \subseteq Writers /\ Seeds \subseteq Writers
  BY DEF Writers
<1>3. OneAccountEach' /\ RegisteredIsKept' /\ SeededOnce' /\ Inserted'
  <2>1. \A s \in Writers : pc[s] = "done" <=> pc'[s] = "done"
    BY <1>1
  <2> QED
    BY <1>2, <2>1, SameUsers
<1>4. \A s \in Writers : Complete(s)'
  <2> TAKE s \in Writers
  <2>1. CASE s = t
    BY <1>1, <2>1 DEF Complete, Due, Accounts, Open
  <2>2. CASE s # t
    BY <1>1, <2>2 DEF Complete, Due, Accounts, Open
  <2> QED
    BY <2>1, <2>2
<1>5. \A r \in Requests : RequestOK(r)'
  <2> TAKE r \in Requests
  <2>1. CASE r = t
    BY <1>1, <2>1 DEF RequestOK, Open
  <2>2. CASE r # t
    BY <1>1, <1>2, <2>2 DEF RequestOK, Open
  <2> QED
    BY <2>1, <2>2
<1>6. PlacedFresh' /\ PlacedApart'
  BY DEF PlacedFresh, PlacedApart, Committed
<1>7. SeedAlone'
  BY <1>1, <1>2 DEF SeedAlone, Open
<1> QED
  BY <1>3, <1>4, <1>5, <1>6, <1>7

(* An entry goes where no committed row and no open transaction has it.    *)
LEMMA PlaceStep ==
    ASSUME TableInv, NEW t \in Writers, Place(t)
    PROVE  TableInv'
<1> USE DEF TableInv
<1> DEFINE entry == Head(todo[t])
<1>1. /\ todo[t] \in Seq(Entry) /\ todo[t] # <<>> /\ pc[t] \in Open
  BY DEF Place, Inserting, TypeOK, Open
<1>2. /\ entry \in Entry /\ Tail(todo[t]) \in Seq(Entry)
      /\ {todo[t][i] : i \in DOMAIN todo[t]} =
            {entry} \cup {Tail(todo[t])[i] : i \in DOMAIN Tail(todo[t])}
  BY <1>1, HeadAndTail
<1> HIDE DEF entry
<1>3. /\ placed' = [placed EXCEPT ![t] = placed[t] \cup {entry}]
      /\ todo' = [todo EXCEPT ![t] = Tail(todo[t])]
      /\ UNCHANGED <<users, pc, token, request, reply, witnessed, changes>>
      /\ entry \notin Committed
      /\ \A s \in Writers \ {t} : entry \notin placed[s]
  BY DEF Place, entry
<1>4. /\ placed'[t] = placed[t] \cup {entry} /\ todo'[t] = Tail(todo[t])
      /\ \A s \in Writers \ {t} : placed'[s] = placed[s] /\ todo'[s] = todo[s]
  BY <1>3 DEF TypeOK
<1>5. TypeOK'
  BY <1>1, <1>2, <1>3, <1>4 DEF TypeOK, Open
<1>6. OneAccountEach' /\ RegisteredIsKept' /\ SeededOnce' /\ Inserted'
  BY <1>3, SameUsers
<1>7. \A s \in Writers : Complete(s)'
  <2> TAKE s \in Writers
  <2>1. Accounts(s)' = Accounts(s)
    BY <1>3 DEF Accounts
  <2>2. CASE s = t
    <3>1. Due(t)' = Due(t)
      BY <1>2, <1>4 DEF Due
    <3> QED
      BY <1>1, <1>3, <2>1, <2>2, <3>1 DEF Complete
  <2>3. CASE s # t
    BY <1>3, <1>4, <2>1, <2>3 DEF Complete, Due
  <2> QED
    BY <2>2, <2>3
<1>8. \A r \in Requests : RequestOK(r)'
  BY <1>1, <1>3, <1>4 DEF RequestOK, Writers
<1>9. PlacedFresh'
  BY <1>3, <1>4 DEF PlacedFresh, Committed
<1>10. PlacedApart'
  BY <1>3, <1>4 DEF PlacedApart
<1>11. SeedAlone'
  BY <1>3 DEF SeedAlone
<1> QED
  BY <1>5, <1>6, <1>7, <1>8, <1>9, <1>10, <1>11

(* A transaction that ends without a trace gives its entries back.         *)
LEMMA RollbackStep ==
    ASSUME TableInv, NEW t \in Writers, NEW end \in {"done", "failed"},
           pc[t] \in {"checking"} \cup Open,
           Rollback(t, end),
           end = "done" /\ t \in Requests => reply[t] # "201"
    PROVE  TableInv'
<1> USE DEF TableInv
<1>1. /\ pc'[t] = end /\ todo'[t] = <<>> /\ placed'[t] = {}
      /\ \A s \in Writers \ {t} :
            pc'[s] = pc[s] /\ todo'[s] = todo[s] /\ placed'[s] = placed[s]
      /\ UNCHANGED <<users, request, witnessed, changes>>
  BY DEF TypeOK, Rollback
<1>2. /\ \A r \in Requests \ {t} : reply'[r] = reply[r]
      /\ t \in Requests => reply'[t] = IF reply[t] = "none" THEN "500" ELSE reply[t]
  BY DEF Rollback
<1>3. TypeOK'
  <2>1. pc' \in [Writers -> PC]
    BY DEF TypeOK, Rollback, PC
  <2>2. token' \in [Requests -> Token \cup {NoToken}]
    BY DEF TypeOK, Rollback
  <2>3. reply' \in [Requests -> {"none", "200", "201", "401", "403", "500"}]
    BY DEF TypeOK, Rollback
  <2>4. todo' \in [Writers -> Seq(Entry)] /\ placed' \in [Writers -> SUBSET Entry]
    BY DEF TypeOK, Rollback
  <2> QED
    BY <1>1, <2>1, <2>2, <2>3, <2>4 DEF TypeOK
<1>4. OneAccountEach' /\ RegisteredIsKept' /\ SeededOnce' /\ Inserted'
  <2>1. \A s \in Writers : pc[s] = "done" => pc'[s] = "done"
    BY <1>1 DEF Open
  <2>2. \A r \in Requests : reply'[r] = "201" /\ pc'[r] = "done" =>
           reply[r] = "201" /\ pc[r] = "done" /\ request'[r] = request[r]
    BY <1>1, <1>2 DEF Writers
  <2> QED
    BY <1>1, <2>1, <2>2, SameUsers
<1>5. \A s \in Writers : Complete(s)'
  <2> TAKE s \in Writers
  <2>1. CASE s = t
    BY <1>1, <2>1 DEF Complete, Open
  <2>2. CASE s # t
    BY <1>1, <2>2 DEF Complete, Due, Accounts
  <2> QED
    BY <2>1, <2>2
<1>6. \A r \in Requests : RequestOK(r)'
  <2> TAKE r \in Requests
  <2>1. CASE r = t
    BY <1>1, <2>1 DEF RequestOK, Open
  <2>2. CASE r # t
    BY <1>1, <1>2, <2>2 DEF RequestOK, Writers
  <2> QED
    BY <2>1, <2>2
<1>7. PlacedFresh' /\ PlacedApart'
  BY <1>1 DEF PlacedFresh, PlacedApart, Committed
<1>8. SeedAlone'
  BY <1>1 DEF SeedAlone, Open, Writers
<1> QED
  BY <1>3, <1>4, <1>5, <1>6, <1>7, <1>8

(* A 201 is sent once flush() has made all entries.                        *)
LEMMA RespondStep ==
    ASSUME TableInv, NEW r \in Requests, Respond(r)
    PROVE  TableInv'
<1> USE DEF TableInv
<1>1. Requests \subseteq Writers
  BY DEF Writers
<1>2. /\ pc[r] = "flushing" /\ todo[r] = <<>>
      /\ pc'[r] = "answered" /\ reply'[r] = "201"
      /\ \A t \in Writers \ {r} : pc'[t] = pc[t]
      /\ \A q \in Requests \ {r} : reply'[q] = reply[q]
      /\ UNCHANGED <<users, token, request, todo, placed, witnessed, changes>>
  BY <1>1 DEF Respond, writing, TypeOK
<1>3. TypeOK'
  BY <1>1, <1>2 DEF TypeOK, Respond, PC
<1>4. OneAccountEach' /\ RegisteredIsKept' /\ SeededOnce' /\ Inserted'
  <2>1. \A s \in Writers : pc[s] = "done" => pc'[s] = "done"
    BY <1>2
  <2>2. \A q \in Requests : reply'[q] = "201" /\ pc'[q] = "done" =>
           reply[q] = "201" /\ pc[q] = "done" /\ request'[q] = request[q]
    BY <1>1, <1>2
  <2> QED
    BY <1>2, <2>1, <2>2, SameUsers
<1>5. \A s \in Writers : Complete(s)'
  BY <1>2 DEF Complete, Due, Accounts, Open
<1>6. \A q \in Requests : RequestOK(q)'
  <2> TAKE q \in Requests
  <2>1. CASE q = r
    BY <1>2, <2>1 DEF RequestOK, Open
  <2>2. CASE q # r
    BY <1>1, <1>2, <2>2 DEF RequestOK
  <2> QED
    BY <2>1, <2>2
<1>7. PlacedFresh' /\ PlacedApart'
  BY <1>2 DEF PlacedFresh, PlacedApart, Committed
<1>8. SeedAlone'
  BY <1>2, AccountsAssumption DEF SeedAlone, Writers
<1> QED
  BY <1>3, <1>4, <1>5, <1>6, <1>7, <1>8

(* A transaction commits its rows: their names are placed, so that no row  *)
(* of the table and no other open transaction has them.                    *)
LEMMA CommitStep ==
    ASSUME TableInv, NEW t \in Writers, Commit(t)
    PROVE  TableInv'
<1> USE DEF TableInv
<1> DEFINE rows == {NewUser(t, a) : a \in Accounts(t)}
<1>1. /\ pc[t] \in Open /\ todo[t] = <<>>
      /\ t \in Requests => pc[t] = "answered"
      /\ users' = users \cup rows
      /\ placed' = [placed EXCEPT ![t] = {}]
      /\ pc' = [pc EXCEPT ![t] = "done"]
      /\ UNCHANGED <<token, request, todo, reply, witnessed, changes>>
  BY AccountsAssumption DEF Commit, Open
<1>2. Accounts(t) \subseteq Account
  BY <1>1, AccountsType
<1>3. /\ pc'[t] = "done" /\ placed'[t] = {}
      /\ \A s \in Writers \ {t} : pc'[s] = pc[s] /\ placed'[s] = placed[s]
  BY <1>1 DEF TypeOK
<1>4. \A a \in Accounts(t) : Name(a) \in placed[t] /\ Address(a) \in placed[t]
  BY <1>1 DEF Complete, Due
<1>5. \A u \in rows : \E a \in Accounts(t) :
         /\ a \in Account /\ u = NewUser(t, a)
         /\ u.id = <<t, a>> /\ u.username = a.username /\ u.email = a.email
  BY <1>2 DEF NewUser
<1>6. \A a \in Accounts(t), b \in Accounts(t) : a # b => Distinct(a, b)
  BY AccountsAssumption DEF Accounts
<1>7. \A u \in rows, v \in users : u.username # v.username /\ u.email # v.email
  <2> SUFFICES ASSUME NEW u \in rows, NEW v \in users
               PROVE  u.username # v.username /\ u.email # v.email
    OBVIOUS
  <2>1. <<"username", v.username>> \in Committed /\ <<"email", v.email>> \in Committed
    BY DEF Committed
  <2>2. <<"username", u.username>> \in placed[t] /\ <<"email", u.email>> \in placed[t]
    BY <1>4, <1>5 DEF Name, Address
  <2> QED
    BY <2>1, <2>2 DEF PlacedFresh
<1>8. users' \subseteq User
  <2>1. \A a \in Account : NewUser(t, a) \in User
    BY DEF NewUser, User, Id, Account
  <2> QED
    BY <1>1, <1>5, <2>1 DEF TypeOK
<1>9. \A s \in Seeds : Accounts(s)' = Accounts(s)
  BY DEF Accounts
<1>10. \A a \in Accounts(t) : \E u \in rows : u.id = <<t, a>>
  <2> TAKE a \in Accounts(t)
  <2>1. NewUser(t, a).id = <<t, a>> /\ NewUser(t, a) \in rows
    BY DEF NewUser
  <2> QED
    BY <2>1
<1> HIDE DEF rows
<1>11. TypeOK'
  BY <1>1, <1>3, <1>8 DEF TypeOK, PC
<1>12. OneAccountEach'
  <2> SUFFICES ASSUME NEW u \in users', NEW v \in users',
                      u.username = v.username \/ u.email = v.email
               PROVE  u = v
    BY DEF OneAccountEach
  <2>1. CASE u \in rows /\ v \in rows
    BY <1>5, <1>6, <2>1 DEF Distinct
  <2>2. CASE u \in rows /\ v \in users
    BY <1>7, <2>2
  <2>3. CASE u \in users /\ v \in rows
    BY <1>7, <2>3
  <2>4. CASE u \in users /\ v \in users
    BY <2>4 DEF OneAccountEach
  <2> QED
    BY <1>1, <2>1, <2>2, <2>3, <2>4
<1>13. RegisteredIsKept'
  <2> SUFFICES ASSUME NEW r \in Requests, reply[r] = "201", pc'[r] = "done"
               PROVE  \E u \in users' : u.id = <<r, request[r].account>>
    BY <1>1 DEF RegisteredIsKept
  <2>1. CASE r = t
    BY <1>1, <1>10, <2>1, AccountsAssumption DEF Accounts
  <2>2. CASE r # t
    BY <1>1, <1>3, <2>2 DEF RegisteredIsKept, Writers
  <2> QED
    BY <2>1, <2>2
<1>14. Inserted'
  <2> SUFFICES ASSUME NEW u \in users'
               PROVE  /\ u.username = u.id[2].username /\ u.email = u.id[2].email
                      /\ u.id[1] \in Writers => pc'[u.id[1]] = "done"
                      /\ u.id[1] \in Seeds => u.id[2] \in Accounts(u.id[1])'
    BY DEF Inserted
  <2>1. CASE u \in users
    BY <1>3, <1>9, <2>1 DEF Inserted
  <2>2. CASE u \in rows
    <3>1. PICK a \in Accounts(t) : u.id = <<t, a>> /\ u.username = a.username /\ u.email = a.email
      BY <1>5, <2>2
    <3>2. u.id[1] = t /\ u.id[2] = a
      BY <3>1
    <3> QED
      BY <1>3, <1>9, <3>1, <3>2
  <2> QED
    BY <1>1, <2>1, <2>2
<1>15. SeededOnce'
  <2> SUFFICES ASSUME NEW s \in Seeds, NEW u \in users', u.id[1] = s
               PROVE  /\ \A a \in Accounts(s) : \E v \in users' : v.id = <<s, a>>
                      /\ \A v \in users' : v.id[1] \notin (Seeds \ {s}) \cup {ByHand}
    BY <1>9 DEF SeededOnce
  <2>1. \A v \in rows : v.id[1] = t /\ v.id[2] \in Accounts(t)
    BY <1>5
  <2>2. t # ByHand
    BY AccountsAssumption
  <2>3. ASSUME t \in Seeds, NEW x \in Seeds, NEW v \in users, NEW w \in rows, v.id[1] = x
        PROVE  FALSE
    <3>1. v.id[2] \in Accounts(t) /\ v.username = v.id[2].username
      BY <2>3 DEF Inserted, Accounts
    <3>2. Name(v.id[2]) \in placed[t] /\ Name(v.id[2]) \in Committed
      BY <1>4, <3>1 DEF Committed, Name
    <3> QED
      BY <3>2 DEF PlacedFresh
  <2>4. CASE u \in users
    <3>1. ASSUME NEW a \in Accounts(s) PROVE \E v \in users' : v.id = <<s, a>>
      <4>1. <<s, a>> \in {v.id : v \in users}
        BY <2>4, Zenon DEF SeededOnce
      <4> QED
        BY <1>1, <4>1
    <3>2. \A v \in users : v.id[1] \notin (Seeds \ {s}) \cup {ByHand}
      BY <2>4 DEF SeededOnce
    <3>3. \A v \in rows : v.id[1] \notin (Seeds \ {s}) \cup {ByHand}
      BY <2>1, <2>2, <2>3, <2>4
    <3> QED
      BY <1>1, <3>1, <3>2, <3>3
  <2>5. CASE u \in rows
    <3>1. s = t
      BY <2>1, <2>5
    <3>2. \A v \in users : v.id[1] \notin Seeds
      BY <2>3, <2>5, <3>1
    <3>3. \A v \in users : v.id[1] # ByHand
      BY <1>1, <3>1 DEF SeedAlone
    <3> QED
      BY <1>1, <1>10, <2>1, <2>2, <3>1, <3>2, <3>3
  <2> QED
    BY <1>1, <2>4, <2>5
<1>16. \A s \in Writers : Complete(s)'
  <2> TAKE s \in Writers
  <2>1. CASE s = t
    BY <1>1, <1>3, <2>1 DEF Complete, Open
  <2>2. CASE s # t
    BY <1>1, <1>3, <2>2 DEF Complete, Due, Accounts
  <2> QED
    BY <2>1, <2>2
<1>17. \A r \in Requests : RequestOK(r)'
  <2> TAKE r \in Requests
  <2>1. CASE r = t
    BY <1>3, <2>1 DEF RequestOK, Open
  <2>2. CASE r # t
    BY <1>1, <1>3, <2>2 DEF RequestOK, Writers
  <2> QED
    BY <2>1, <2>2
<1>18. PlacedFresh'
  <2>1. \A s \in Writers \ {t} : placed[s] \cap placed[t] = {} /\ placed[s] \cap Committed = {}
    BY DEF PlacedFresh, PlacedApart
  <2>2. Committed' \subseteq Committed \cup placed[t]
    <3>1. \A u \in rows : {<<"username", u.username>>, <<"email", u.email>>} \subseteq placed[t]
      BY <1>4, <1>5 DEF Name, Address
    <3> QED
      BY <1>1, <3>1 DEF Committed
  <2> QED
    BY <1>3, <2>1, <2>2 DEF PlacedFresh
<1>19. PlacedApart'
  BY <1>3 DEF PlacedApart
<1>20. SeedAlone'
  <2>1. \A u \in rows : u.id[1] # ByHand
    BY <1>5, AccountsAssumption
  <2> QED
    BY <1>1, <1>3, <2>1 DEF SeedAlone, Open, Writers
<1> QED
  BY <1>11, <1>12, <1>13, <1>14, <1>15, <1>16, <1>17, <1>18, <1>19, <1>20

(* A change by hand keeps a row's key and names.                           *)
LEMMA ChangeUserStep ==
    ASSUME TableInv, NEW u \in users, NEW role \in Role, NEW active \in BOOLEAN,
           ChangeUser(u, role, active)
    PROVE  TableInv'
<1> USE DEF TableInv
<1> DEFINE v == [u EXCEPT !.role = role, !.is_active = active]
<1>1. /\ users' = (users \ {u}) \cup {v}
      /\ UNCHANGED <<pc, token, request, todo, placed, reply>>
      /\ changes < MaxChanges /\ changes' = changes + 1
      /\ witnessed' \in [Requests -> BOOLEAN]
  BY DEF ChangeUser, writing, TypeOK, Entitled
<1>2. u \in User
  BY DEF TypeOK
<1>3. v \in User /\ v.id = u.id /\ v.username = u.username /\ v.email = u.email
  BY <1>2 DEF User
<1> HIDE DEF v
<1>4. TypeOK'
  BY <1>1, <1>3, AccountsAssumption DEF TypeOK
<1>5. /\ \A w \in users' : \E x \in users :
            w.id = x.id /\ w.username = x.username /\ w.email = x.email
      /\ \A x \in users : \E w \in users' :
            w.id = x.id /\ w.username = x.username /\ w.email = x.email
  BY <1>1, <1>3
<1>6. OneAccountEach'
  BY <1>1, <1>3 DEF OneAccountEach
<1>7. Committed' = Committed
  BY <1>5 DEF Committed
<1>8. \A t \in Writers : Accounts(t)' = Accounts(t)
  BY <1>1 DEF Accounts
<1>9. RegisteredIsKept'
  <2> SUFFICES ASSUME NEW r \in Requests, reply[r] = "201", pc[r] = "done"
               PROVE  \E w \in users' : w.id = <<r, request[r].account>>
    BY <1>1 DEF RegisteredIsKept
  <2>1. PICK x \in users : x.id = <<r, request[r].account>>
    BY DEF RegisteredIsKept
  <2> QED
    BY <1>5, <2>1
<1>10. SeededOnce'
  <2>0. \A s \in Seeds : Accounts(s)' = Accounts(s)
    BY <1>8 DEF Writers
  <2> SUFFICES ASSUME NEW s \in Seeds, NEW w \in users', w.id[1] = s
               PROVE  /\ \A a \in Accounts(s) : <<s, a>> \in {x.id : x \in users'}
                      /\ \A x \in users' : x.id[1] \notin (Seeds \ {s}) \cup {ByHand}
    BY <2>0 DEF SeededOnce
  <2>1. PICK x \in users : x.id[1] = s
    BY <1>5
  <2>2. /\ \A a \in Accounts(s) : <<s, a>> \in {y.id : y \in users}
        /\ \A y \in users : y.id[1] \notin (Seeds \ {s}) \cup {ByHand}
    BY <2>1, Zenon DEF SeededOnce
  <2>3. {y.id : y \in users} = {z.id : z \in users'}
    BY <1>5
  <2>4. \A z \in users' : z.id[1] \notin (Seeds \ {s}) \cup {ByHand}
    BY <1>5, <2>2
  <2> QED
    BY <2>2, <2>3, <2>4
<1>11. Inserted'
  <2> SUFFICES ASSUME NEW w \in users'
               PROVE  /\ w.username = w.id[2].username /\ w.email = w.id[2].email
                      /\ w.id[1] \in Writers => pc'[w.id[1]] = "done"
                      /\ w.id[1] \in Seeds => w.id[2] \in Accounts(w.id[1])'
    BY DEF Inserted
  <2>1. PICK x \in users : w.id = x.id /\ w.username = x.username /\ w.email = x.email
    BY <1>5
  <2> QED
    BY <1>1, <1>8, <2>1 DEF Inserted, Writers
<1>12. \A t \in Writers : Complete(t)'
  BY <1>1, <1>8 DEF Complete, Due
<1>13. \A r \in Requests : RequestOK(r)'
  BY <1>1 DEF RequestOK
<1>14. PlacedFresh' /\ PlacedApart'
  BY <1>1, <1>7 DEF PlacedFresh, PlacedApart
<1>15. SeedAlone'
  BY <1>1, <1>5 DEF SeedAlone
<1> QED
  BY <1>4, <1>6, <1>9, <1>10, <1>11, <1>12, <1>13, <1>14, <1>15

(* Logging in, sending a request and being answered change no table.       *)
LEMMA LoginStep ==
    ASSUME TableInv, NEW r \in Requests, NEW u \in users, Login(r, u)
    PROVE  TableInv'
<1>1. /\ pc[r] = "idle" /\ pc' = [pc EXCEPT ![r] = "holding"]
      /\ token' = [token EXCEPT ![r] = [sub |-> u.id, role |-> u.role]]
      /\ UNCHANGED <<users, request, todo, placed, reply, witnessed, changes>>
  BY DEF Login, writing
<1>2. [sub |-> u.id, role |-> u.role] \in Token
  BY DEF TableInv, TypeOK, User, Token
<1>3. TypeOK'
  BY <1>1, <1>2 DEF TableInv, TypeOK, PC
<1>4. pc'[r] = "holding" /\ \A t \in Writers \ {r} : pc'[t] = pc[t]
  BY <1>1 DEF TableInv, TypeOK, Writers
<1>5. RequestOK(r)' /\ reply'[r] # "201"
  BY <1>1, <1>4 DEF TableInv, RequestOK, Open
<1> QED
  BY <1>1, <1>3, <1>4, <1>5, QuietStep DEF Open, writing

LEMMA ExpireStep ==
    ASSUME TableInv, NEW r \in Requests, Expire(r)
    PROVE  TableInv'
<1>1. /\ pc[r] \in {"holding", "checking"}
      /\ token' = [token EXCEPT ![r] = NoToken]
      /\ UNCHANGED <<users, pc, request, todo, placed, reply, witnessed, changes>>
  BY DEF Expire, writing
<1>2. TypeOK'
  BY <1>1 DEF TableInv, TypeOK
<1>3. RequestOK(r)' /\ reply'[r] # "201"
  BY <1>1 DEF TableInv, RequestOK, Open
<1> QED
  BY <1>1, <1>2, <1>3, QuietStep DEF Open, writing

LEMMA SendStep ==
    ASSUME TableInv, NEW r \in Requests, NEW e \in Endpoint,
           NEW a \in Account \cup {NoAccount}, e = "register" => a \in Account,
           Send(r, e, a)
    PROVE  TableInv'
<1> DEFINE sent == [endpoint |-> e, account |-> a]
<1>1. /\ pc[r] = "holding" /\ pc' = [pc EXCEPT ![r] = "checking"]
      /\ request' = [request EXCEPT ![r] = sent]
      /\ witnessed' = [witnessed EXCEPT ![r] = Entitled(users, token[r], e)]
      /\ UNCHANGED <<users, token, todo, placed, reply, changes>>
  BY DEF Send, writing
<1>2. sent \in Sent /\ sent.endpoint = e /\ sent.account = a
  BY DEF Sent
<1> HIDE DEF sent
<1>3. Entitled(users, token[r], e) \in BOOLEAN
  BY DEF Entitled
<1>4. TypeOK'
  BY <1>1, <1>2, <1>3 DEF TableInv, TypeOK, PC
<1>5. /\ pc'[r] = "checking" /\ request'[r] = sent
      /\ \A t \in Writers \ {r} : pc'[t] = pc[t]
      /\ \A q \in Requests \ {r} : request'[q] = request[q]
  BY <1>1 DEF TableInv, TypeOK, Writers
<1>6. RequestOK(r)' /\ reply'[r] # "201"
  BY <1>1, <1>2, <1>5 DEF TableInv, RequestOK, Open
<1> QED
  BY <1>1, <1>4, <1>5, <1>6, QuietStep DEF Open, writing

LEMMA AnswerStep ==
    ASSUME TableInv, NEW r \in Requests, NEW code \in {"200", "401", "403"},
           pc[r] = "checking", Answer(r, code)
    PROVE  TableInv'
<1>1. /\ pc' = [pc EXCEPT ![r] = "done"]
      /\ token' = [token EXCEPT ![r] = NoToken]
      /\ reply' = [reply EXCEPT ![r] = code]
      /\ UNCHANGED <<users, request, todo, placed, witnessed, changes>>
  BY DEF Answer, writing
<1>2. /\ pc'[r] = "done" /\ reply'[r] = code
      /\ \A t \in Writers \ {r} : pc'[t] = pc[t]
      /\ \A q \in Requests \ {r} : reply'[q] = reply[q]
  BY <1>1 DEF TableInv, TypeOK, Writers
<1>3. placed[r] = {}
  BY DEF TableInv, Complete, Open, Writers
<1>4. TypeOK'
  BY <1>1, <1>2, <1>3 DEF TableInv, TypeOK, PC
<1>5. RequestOK(r)'
  BY <1>1, <1>2 DEF TableInv, RequestOK, Open
<1> QED
  BY <1>1, <1>2, <1>4, <1>5, QuietStep DEF Open, writing

LEMMA RegisterStep ==
    ASSUME TableInv, NEW r \in Requests, Register(r)
    PROVE  TableInv'
<1>1. /\ pc[r] = "checking" /\ pc' = [pc EXCEPT ![r] = "flushing"]
      /\ token' = [token EXCEPT ![r] = NoToken]
      /\ todo' = [todo EXCEPT ![r] = Entries(request[r].account)]
      /\ UNCHANGED <<users, request, placed, reply, witnessed, changes>>
  BY DEF Register
<1>2. request[r].account \in Account
  BY <1>1 DEF TableInv, RequestOK, Register
<1>3. /\ Entries(request[r].account) \in Seq(Entry)
      /\ Accounts(r) = {request[r].account}
  BY <1>2, EntriesOf, AccountsAssumption DEF Accounts
<1>4. TypeOK'
  BY <1>1, <1>3 DEF TableInv, TypeOK, PC
<1>5. \A a \in Accounts(r) : \E j, k \in DOMAIN Entries(request[r].account) :
         /\ Entries(request[r].account)[j] = Name(a)
         /\ Entries(request[r].account)[k] = Address(a)
  <2>1. Entries(request[r].account) = <<Name(request[r].account), Address(request[r].account)>>
    BY <1>2, EntriesOf
  <2>2. 1 \in DOMAIN Entries(request[r].account) /\ 2 \in DOMAIN Entries(request[r].account)
    BY <2>1
  <2> QED
    BY <1>3, <2>1, <2>2
<1> QED
  BY <1>1, <1>2, <1>3, <1>4, <1>5, StartStep, AccountsAssumption DEF Writers

LEMMA SeedStep ==
    ASSUME TableInv, NEW s \in Seeds, Seed(s)
    PROVE  TableInv'
<1>1. s \in Writers /\ s \notin Requests /\ pc[s] = "idle"
  BY AccountsAssumption DEF Writers, Seed
<1>2. CASE users = {}
  <2>1. /\ pc' = [pc EXCEPT ![s] = "flushing"]
        /\ todo' = [todo EXCEPT ![s] = SeedEntries]
        /\ UNCHANGED <<users, token, request, placed, reply, witnessed, changes>>
    BY <1>2 DEF Seed
  <2>2. TypeOK'
    BY <2>1, SeedEntriesOf DEF TableInv, TypeOK, PC
  <2>3. \A a \in Accounts(s) : \E j, k \in DOMAIN SeedEntries :
           SeedEntries[j] = Name(a) /\ SeedEntries[k] = Address(a)
    BY SeedEntriesOf DEF Accounts
  <2> QED
    BY <1>1, <1>2, <2>1, <2>2, <2>3, SeedEntriesOf, StartStep
<1>3. CASE users # {}
  <2>1. /\ pc' = [pc EXCEPT ![s] = "done"]
        /\ UNCHANGED <<users, token, request, todo, placed, reply, witnessed, changes>>
    BY <1>3 DEF Seed
  <2>2. pc'[s] = "done" /\ \A t \in Writers \ {s} : pc'[t] = pc[t]
    BY <1>1, <2>1 DEF TableInv, TypeOK
  <2>3. TypeOK'
    <3>1. placed[s] = {}
      BY <1>1 DEF TableInv, Complete, Open
    <3> QED
      BY <2>1, <2>2, <3>1 DEF TableInv, TypeOK, PC
  <2>4. OneAccountEach' /\ RegisteredIsKept' /\ SeededOnce' /\ Inserted'
    <3>1. \A t \in Writers : pc[t] = "done" => pc'[t] = "done"
      BY <2>2
    <3>2. \A r \in Requests : reply'[r] = "201" /\ pc'[r] = "done" =>
             reply[r] = "201" /\ pc[r] = "done" /\ request'[r] = request[r]
      BY <1>1, <2>1, <2>2 DEF Writers
    <3> QED
      BY <2>1, <3>1, <3>2, SameUsers
  <2>5. \A t \in Writers : Complete(t)'
    BY <1>1, <2>1, <2>2 DEF TableInv, Complete, Due, Accounts, Open
  <2>6. \A r \in Requests : RequestOK(r)'
    BY <1>1, <2>1, <2>2 DEF TableInv, RequestOK, Writers
  <2>7. PlacedFresh' /\ PlacedApart' /\ SeedAlone'
    BY <2>1, <2>2 DEF TableInv, PlacedFresh, PlacedApart, SeedAlone, Committed, Open, Writers
  <2> QED
    BY <2>3, <2>4, <2>5, <2>6, <2>7 DEF TableInv
<1> QED
  BY <1>2, <1>3

LEMMA TableNext == TableInv /\ [Next]_vars => TableInv'
<1> SUFFICES ASSUME TableInv, [Next]_vars PROVE TableInv'
  OBVIOUS
<1>1. CASE UNCHANGED vars
  <2>1. UNCHANGED <<users, pc, token, request, todo, placed, reply, witnessed, changes>>
    BY <1>1 DEF vars, writing
  <2>2. TypeOK'
    BY <2>1 DEF TableInv, TypeOK
  <2>3. OneAccountEach' /\ RegisteredIsKept' /\ SeededOnce' /\ Inserted'
    BY <2>1, SameUsers
  <2>4. /\ \A t \in Writers : Complete(t)'
        /\ \A r \in Requests : RequestOK(r)'
    BY <2>1 DEF TableInv, Complete, Due, Accounts, RequestOK
  <2>5. PlacedFresh' /\ PlacedApart' /\ SeedAlone'
    BY <2>1 DEF TableInv, PlacedFresh, PlacedApart, SeedAlone, Committed
  <2> QED
    BY <2>2, <2>3, <2>4, <2>5 DEF TableInv
<1>2. ASSUME NEW u \in users, NEW r \in Requests, Login(r, u) PROVE TableInv'
  BY <1>2, LoginStep
<1>3. ASSUME NEW u \in users, NEW role \in Role, NEW active \in BOOLEAN,
             ChangeUser(u, role, active)
      PROVE  TableInv'
  BY <1>3, ChangeUserStep
<1>4. ASSUME NEW r \in Requests, Expire(r) PROVE TableInv'
  BY <1>4, ExpireStep
<1>5. ASSUME NEW r \in Requests, NEW e \in Endpoint \ {"register"}, Send(r, e, NoAccount)
      PROVE  TableInv'
  BY <1>5, SendStep
<1>6. ASSUME NEW r \in Requests, NEW a \in Registrable, Send(r, "register", a)
      PROVE  TableInv'
  BY <1>6, SendStep, AccountsAssumption DEF Endpoint
<1>7. ASSUME NEW s \in Seeds, Seed(s) PROVE TableInv'
  BY <1>7, SeedStep
<1>8. ASSUME NEW t \in Writers, Advance(t) PROVE TableInv'
  <2>1. CASE t \in Requests /\ (Unauthenticated(t) \/ Forbidden(t) \/ Serve(t))
    BY <2>1, AnswerStep DEF Unauthenticated, Forbidden, Serve
  <2>2. CASE t \in Requests /\ Register(t)
    BY <2>2, RegisterStep
  <2>3. CASE t \in Requests /\ Respond(t)
    BY <2>3, RespondStep
  <2>4. CASE Place(t)
    BY <2>4, PlaceStep
  <2>5. CASE Duplicate(t)
    <3>1. pc[t] \in Open /\ todo[t] # <<>> /\ Rollback(t, "done")
      BY <2>5 DEF Duplicate, Inserting, Open
    <3>2. t \in Requests => reply[t] # "201"
      BY <3>1 DEF TableInv, RequestOK, Open
    <3> QED
      BY <3>1, <3>2, RollbackStep
  <2>6. CASE Commit(t)
    BY <2>6, CommitStep
  <2> QED
    BY <1>8, <2>1, <2>2, <2>3, <2>4, <2>5, <2>6 DEF Advance
<1>9. ASSUME NEW t \in Writers, Abort(t) PROVE TableInv'
  BY <1>9, RollbackStep DEF Abort, Open
<1> QED
  BY <1>1, <1>2, <1>3, <1>4, <1>5, <1>6, <1>7, <1>8, <1>9 DEF Next

-----------------------------------------------------------------------------
(* Rights.                                                                 *)

\* require_roles asks what the property means by rights.
LEMMA RoleIsRight ==
    ASSUME NEW r \in Requests, HasRole(r)
    PROVE  Entitled(users, token[r], request[r].endpoint)
BY DEF HasRole, CurrentUser, Entitled

LEMMA RightsInit == Init => RightsInv
BY DEF Init, RightsInv, RightsOK, TokenNamesRow, Witnessed, Served, Open, Writers

(* A step that leaves the rows alone, and all requests but t.              *)
LEMMA RightsOfOne ==
    ASSUME RightsInv, NEW t, users' = users,
           \A q \in Requests \ {t} :
              /\ pc'[q] = pc[q] /\ token'[q] = token[q] /\ request'[q] = request[q]
              /\ reply'[q] = reply[q] /\ witnessed'[q] = witnessed[q],
           t \in Requests => RightsOK(t)'
    PROVE  RightsInv'
<1> SUFFICES ASSUME NEW q \in Requests \ {t} PROVE RightsOK(q)'
  BY DEF RightsInv
<1>1. RightsOK(q)
  BY DEF RightsInv
<1>2. TokenNamesRow(q)'
  BY <1>1 DEF RightsOK, TokenNamesRow
<1>3. Witnessed(q)'
  BY <1>1 DEF RightsOK, Witnessed, Entitled
<1>4. Served(q)'
  BY <1>1 DEF RightsOK, Served
<1> QED
  BY <1>2, <1>3, <1>4 DEF RightsOK

LEMMA LoginRights ==
    ASSUME TableInv, RightsInv, NEW r \in Requests, NEW u \in users, Login(r, u)
    PROVE  RightsInv'
<1>1. /\ pc[r] = "idle" /\ pc' = [pc EXCEPT ![r] = "holding"]
      /\ token' = [token EXCEPT ![r] = [sub |-> u.id, role |-> u.role]]
      /\ UNCHANGED <<users, request, reply, witnessed>>
  BY DEF Login
<1>2. /\ pc'[r] = "holding" /\ token'[r].sub = u.id
      /\ \A q \in Requests \ {r} : pc'[q] = pc[q] /\ token'[q] = token[q]
  BY <1>1 DEF TableInv, TypeOK, Writers
<1>3. reply[r] = "none"
  BY <1>1 DEF TableInv, RequestOK
<1>4. RightsOK(r)'
  BY <1>1, <1>2, <1>3 DEF RightsOK, TokenNamesRow, Witnessed, Served, Open
<1> QED
  BY <1>1, <1>2, <1>4, RightsOfOne

LEMMA ExpireRights ==
    ASSUME TableInv, RightsInv, NEW r \in Requests, Expire(r)
    PROVE  RightsInv'
<1>1. /\ token'[r] = NoToken
      /\ \A q \in Requests \ {r} : token'[q] = token[q]
      /\ UNCHANGED <<users, pc, request, reply, witnessed>>
  BY DEF Expire, TableInv, TypeOK
<1>2. RightsOK(r)'
  BY <1>1 DEF RightsInv, RightsOK, TokenNamesRow, Witnessed, Served, Entitled
<1> QED
  BY <1>1, <1>2, RightsOfOne

LEMMA SendRights ==
    ASSUME TableInv, RightsInv, NEW r \in Requests, NEW e, NEW a, Send(r, e, a)
    PROVE  RightsInv'
<1>1. /\ pc[r] = "holding" /\ pc' = [pc EXCEPT ![r] = "checking"]
      /\ request' = [request EXCEPT ![r] = [endpoint |-> e, account |-> a]]
      /\ witnessed' = [witnessed EXCEPT ![r] = Entitled(users, token[r], e)]
      /\ UNCHANGED <<users, token, reply>>
  BY DEF Send
<1>2. /\ pc'[r] = "checking" /\ request'[r].endpoint = e
      /\ witnessed'[r] = Entitled(users, token[r], e)
      /\ \A q \in Requests \ {r} :
            pc'[q] = pc[q] /\ request'[q] = request[q] /\ witnessed'[q] = witnessed[q]
  BY <1>1 DEF TableInv, TypeOK, Writers
<1>3. reply[r] = "none"
  BY <1>1 DEF TableInv, RequestOK
<1>4. TokenNamesRow(r)'
  BY <1>1 DEF RightsInv, RightsOK, TokenNamesRow
<1>5. Witnessed(r)' /\ Served(r)'
  BY <1>1, <1>2, <1>3 DEF Witnessed, Served, Open
<1> QED
  BY <1>1, <1>2, <1>4, <1>5, RightsOfOne DEF RightsOK

(* get_current_user and require_roles: who passes has the rights now, and  *)
(* that is witnessed.                                                      *)
LEMMA CheckRights ==
    ASSUME TableInv, RightsInv, NEW r \in Requests,
           Unauthenticated(r) \/ Forbidden(r) \/ Serve(r) \/ Register(r)
    PROVE  RightsInv'
<1>1. /\ pc[r] = "checking"
      /\ token' = [token EXCEPT ![r] = NoToken]
      /\ UNCHANGED <<users, request, witnessed>>
      /\ \/ /\ pc' = [pc EXCEPT ![r] = "done"]
            /\ \E code \in {"401", "403"} : reply' = [reply EXCEPT ![r] = code]
         \/ /\ pc' = [pc EXCEPT ![r] = "done"] /\ reply' = [reply EXCEPT ![r] = "200"]
            /\ HasRole(r)
         \/ pc' = [pc EXCEPT ![r] = "flushing"] /\ reply' = reply /\ HasRole(r)
  BY DEF Unauthenticated, Forbidden, Serve, Register, Answer
<1>2. /\ token'[r] = NoToken /\ pc'[r] # "checking"
      /\ \A q \in Requests \ {r} :
            pc'[q] = pc[q] /\ token'[q] = token[q] /\ reply'[q] = reply[q]
  BY <1>1 DEF TableInv, TypeOK, Writers
<1>3. HasRole(r) => witnessed[r]
  BY <1>1, RoleIsRight DEF RightsInv, RightsOK, Witnessed
<1>4. HasRole(r) \/ (pc'[r] \notin Open /\ reply'[r] \notin {"200", "201"})
  BY <1>1 DEF TableInv, TypeOK, Writers, Open
<1>5. RightsOK(r)'
  BY <1>1, <1>2, <1>3, <1>4 DEF RightsOK, TokenNamesRow, Witnessed, Served
<1> QED
  BY <1>1, <1>2, <1>5, RightsOfOne

LEMMA RespondRights ==
    ASSUME TableInv, RightsInv, NEW r \in Requests, Respond(r)
    PROVE  RightsInv'
<1>1. /\ pc[r] \in Open /\ pc'[r] = "answered"
      /\ \A q \in Requests \ {r} : pc'[q] = pc[q] /\ reply'[q] = reply[q]
      /\ UNCHANGED <<users, token, request, witnessed>>
  BY DEF Respond, TableInv, TypeOK, Writers, Open
<1>2. RightsOK(r)'
  BY <1>1 DEF RightsInv, RightsOK, TokenNamesRow, Witnessed, Served
<1> QED
  BY <1>1, <1>2, RightsOfOne

LEMMA RollbackRights ==
    ASSUME TableInv, RightsInv, NEW t \in Writers, NEW end \in {"done", "failed"},
           Rollback(t, end)
    PROVE  RightsInv'
<1>1. /\ pc'[t] = end
      /\ UNCHANGED <<users, request, witnessed>>
      /\ \A q \in Requests \ {t} :
            pc'[q] = pc[q] /\ token'[q] = token[q] /\ reply'[q] = reply[q]
      /\ t \in Requests => /\ token'[t] = NoToken
                           /\ reply'[t] = IF reply[t] = "none" THEN "500" ELSE reply[t]
  BY DEF Rollback, TableInv, TypeOK, Writers
<1>2. t \in Requests => RightsOK(t)'
  BY <1>1 DEF RightsInv, RightsOK, TokenNamesRow, Witnessed, Served, Open
<1> QED
  BY <1>1, <1>2, RightsOfOne

(* The rows of a COMMIT are new: no token names one of them.               *)
LEMMA CommitRights ==
    ASSUME TableInv, RightsInv, NEW t \in Writers, Commit(t)
    PROVE  RightsInv'
<1>1. /\ pc[t] \in Open /\ pc'[t] = "done"
      /\ \A s \in Writers \ {t} : pc'[s] = pc[s]
      /\ users' = users \cup {NewUser(t, a) : a \in Accounts(t)}
      /\ UNCHANGED <<token, request, reply, witnessed>>
  BY DEF Commit, TableInv, TypeOK, Open
<1>2. \A u \in users : u.id[1] # t
  BY <1>1 DEF TableInv, Inserted, Open
<1>3. \A u \in users' : u \in users \/ u.id[1] = t
  BY <1>1 DEF NewUser
<1> SUFFICES ASSUME NEW r \in Requests PROVE RightsOK(r)'
  BY DEF RightsInv
<1>4. RightsOK(r)
  BY DEF RightsInv
<1>5. TokenNamesRow(r)'
  BY <1>1, <1>4 DEF RightsOK, TokenNamesRow
<1>6. ASSUME NEW e, Entitled(users', token[r], e) PROVE Entitled(users, token[r], e)
  <2>1. PICK u \in users' : /\ token[r] # NoToken /\ u.id = token[r].sub
                            /\ u.is_active /\ u.role \in Allowed(e)
    BY <1>6 DEF Entitled
  <2>2. u.id[1] # t
    BY <1>2, <1>4, <2>1 DEF RightsOK, TokenNamesRow
  <2> QED
    BY <1>3, <2>1, <2>2 DEF Entitled
<1>7. Witnessed(r)'
  <2> SUFFICES ASSUME pc'[r] = "checking", Entitled(users', token[r], request[r].endpoint)
               PROVE  witnessed[r]
    BY <1>1 DEF Witnessed
  <2>1. pc[r] = "checking"
    BY <1>1 DEF Writers
  <2> QED
    BY <1>4, <1>6, <2>1 DEF RightsOK, Witnessed
<1>8. Served(r)'
  BY <1>1, <1>4 DEF RightsOK, Served, Open, Writers
<1> QED
  BY <1>5, <1>7, <1>8 DEF RightsOK

(* A change by hand may give rights, or take them.                         *)
LEMMA ChangeUserRights ==
    ASSUME TableInv, RightsInv, NEW u \in users, NEW role, NEW active,
           ChangeUser(u, role, active)
    PROVE  RightsInv'
<1>1. /\ UNCHANGED <<pc, token, request, reply>>
      /\ \A r \in Requests : witnessed'[r] = (witnessed[r] \/
            (pc[r] = "checking" /\ Entitled(users', token[r], request[r].endpoint)))
  BY DEF ChangeUser
<1>2. \A x \in users : \E w \in users' : w.id = x.id
  <2>1. u \in User
    BY DEF TableInv, TypeOK
  <2>2. [u EXCEPT !.role = role, !.is_active = active].id = u.id
    BY <2>1 DEF User
  <2> QED
    BY <2>2 DEF ChangeUser
<1> SUFFICES ASSUME NEW r \in Requests PROVE RightsOK(r)'
  BY DEF RightsInv
<1>3. RightsOK(r) /\ witnessed[r] \in BOOLEAN
  BY DEF RightsInv, TableInv, TypeOK
<1>4. TokenNamesRow(r)'
  BY <1>1, <1>2, <1>3 DEF RightsOK, TokenNamesRow
<1>5. Witnessed(r)'
  BY <1>1 DEF Witnessed
<1>6. Served(r)'
  BY <1>1, <1>3 DEF RightsOK, Served
<1> QED
  BY <1>4, <1>5, <1>6 DEF RightsOK

LEMMA RightsNext == TableInv /\ RightsInv /\ [Next]_vars => RightsInv'
<1> SUFFICES ASSUME TableInv, RightsInv, [Next]_vars PROVE RightsInv'
  OBVIOUS
<1>1. CASE UNCHANGED vars
  BY <1>1 DEF vars, RightsInv, RightsOK, TokenNamesRow, Witnessed, Served, Entitled
<1>2. ASSUME NEW u \in users, NEW r \in Requests, Login(r, u) PROVE RightsInv'
  BY <1>2, LoginRights
<1>3. ASSUME NEW u \in users, NEW role \in Role, NEW active \in BOOLEAN,
             ChangeUser(u, role, active)
      PROVE  RightsInv'
  BY <1>3, ChangeUserRights
<1>4. ASSUME NEW r \in Requests, Expire(r) PROVE RightsInv'
  BY <1>4, ExpireRights
<1>5. ASSUME NEW r \in Requests, NEW e, NEW a, Send(r, e, a) PROVE RightsInv'
  BY <1>5, SendRights
<1>6. ASSUME NEW s \in Seeds, Seed(s) PROVE RightsInv'
  <2>1. /\ UNCHANGED <<users, token, request, reply, witnessed>>
        /\ \A q \in Requests : pc'[q] = pc[q]
    BY <1>6, AccountsAssumption DEF Seed, TableInv, TypeOK, Writers
  <2> QED
    BY <2>1, RightsOfOne, AccountsAssumption
<1>7. ASSUME NEW t \in Writers, Advance(t) PROVE RightsInv'
  <2>1. CASE t \in Requests /\ (Unauthenticated(t) \/ Forbidden(t) \/ Serve(t) \/ Register(t))
    BY <2>1, CheckRights
  <2>2. CASE t \in Requests /\ Respond(t)
    BY <2>2, RespondRights
  <2>3. CASE Place(t)
    BY <2>3 DEF Place, RightsInv, RightsOK, TokenNamesRow, Witnessed, Served, Entitled
  <2>4. CASE Duplicate(t)
    BY <2>4, RollbackRights DEF Duplicate
  <2>5. CASE Commit(t)
    BY <2>5, CommitRights
  <2> QED
    BY <1>7, <2>1, <2>2, <2>3, <2>4, <2>5 DEF Advance
<1>8. ASSUME NEW t \in Writers, Abort(t) PROVE RightsInv'
  BY <1>8, RollbackRights DEF Abort
<1> QED
  BY <1>1, <1>2, <1>3, <1>4, <1>5, <1>6, <1>7, <1>8 DEF Next

-----------------------------------------------------------------------------
(* What is said of the table and its writers is an invariant.              *)
THEOREM TableInvariance == Spec => []TableInv
BY TableInit, TableNext, PTL DEF Spec

(* So is what is said of tokens, rights and the requests served.           *)
THEOREM RightsInvariance == Spec => []RightsInv
BY TableInvariance, RightsInit, RightsNext, PTL DEF Spec

(* Rows, tokens and transactions are well-typed; a transaction that is     *)
(* over has no entries in the indexes.                                     *)
THEOREM TypeCorrect == Spec => []TypeOK
<1>1. TableInv => TypeOK
  BY DEF TableInv
<1> QED
  BY TableInvariance, <1>1, PTL

(* No two rows share a username or an email, however registrations and     *)
(* seeds race for them (User.username, User.email).                        *)
THEOREM UniqueAccounts == Spec => []OneAccountEach
<1>1. TableInv => OneAccountEach
  BY DEF TableInv
<1> QED
  BY TableInvariance, <1>1, PTL

(* A 201 that is followed by no failure from outside is kept               *)
(* (UserRepository.create flushes before the response).                    *)
THEOREM RegistrationsAreKept == Spec => []RegisteredIsKept
<1>1. TableInv => RegisteredIsKept
  BY DEF TableInv
<1> QED
  BY TableInvariance, <1>1, PTL

(* A seed leaves all its accounts or none, besides no other seed's and no  *)
(* row that was there before (seed).                                       *)
THEOREM SeedsExclude == Spec => []SeededOnce
<1>1. TableInv => SeededOnce
  BY DEF TableInv
<1> QED
  BY TableInvariance, <1>1, PTL

(* Nobody is served without having had the rights since the request was    *)
(* sent (get_current_user, require_roles).                                 *)
THEOREM RightsAreChecked == Spec => []ServedWithRights
<1>1. RightsInv => ServedWithRights
  BY DEF RightsInv, RightsOK, Served, ServedWithRights, Open
<1> QED
  BY RightsInvariance, <1>1, PTL
=============================================================================
