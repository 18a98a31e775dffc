------------------------------ MODULE Accounts ------------------------------
(***************************************************************************)
(* The table "users" and what stands between a request and its handler:    *)
(* login, the tokens it issues, get_current_user with require_roles, the   *)
(* registration of a user, and scripts/seed_users.py, which creates the    *)
(* first users.  Accounts are deactivated and given other roles by hand,   *)
(* in the database: no endpoint does it.                                   *)
(*                                                                         *)
(* An INSERT puts the username, then the email of each row into the unique *)
(* indexes.  PostgreSQL lets it wait while another open transaction has    *)
(* made the same entry, and refuses it once a committed row has it.        *)
(***************************************************************************)
EXTENDS Integers, Sequences

CONSTANTS
    Usernames, Emails,
    Requests,       \* the HTTP requests that carry a token
    Seeds,          \* the runs of seed_users.py
    ByHand,         \* who inserts an account with SQL
    Registrable,    \* the accounts that clients ask to register
    SeedAccounts,   \* the accounts of seed_users.py, in order
    HandAccounts,   \* accounts that may be there before everything else
    MaxChanges      \* bound: how often rows are changed by hand

Role    == {"operator", "supervisor", "admin"}
Account == [username : Usernames, email : Emails, role : Role]
Writers == Requests \cup Seeds

Distinct(a, b) == a.username # b.username /\ a.email # b.email

\* seed() numbers its users; rows inserted by hand obey the constraints too.
ASSUME AccountsAssumption ==
    /\ Requests \cap Seeds = {}
    /\ ByHand \notin Writers
    /\ Registrable \cup HandAccounts \subseteq Account
    /\ SeedAccounts \in Seq(Account)
    /\ \A i, j \in DOMAIN SeedAccounts : i # j => Distinct(SeedAccounts[i], SeedAccounts[j])
    /\ \A a, b \in HandAccounts : a # b => Distinct(a, b)
    /\ MaxChanges \in Nat

VARIABLES
    users,       \* the committed rows
    pc,          \* where a request or a seed is
    token,       \* the token of a request, from its login until it expires
                 \* or has served: another login stands for using it again
    request,     \* what a request asks for
    todo,        \* the index entries that a transaction has still to make
    placed,      \* those that it has made and not committed
    reply,       \* the response's status code
    witnessed,   \* history: the sender has had the rights since it was sent
    changes      \* history: the number of changes by hand

writing == <<todo, placed>>
vars    == <<users, pc, token, request, writing, reply, witnessed, changes>>

\* A row's key: who inserted it, and which of the inserter's accounts it is.
Id    == (Writers \cup {ByHand}) \X Account
User  == [id : Id, username : Usernames, email : Emails, role : Role, is_active : BOOLEAN]
Token == [sub : Id, role : Role]
Entry == {"username"} \X Usernames \cup {"email"} \X Emails

Endpoint  == {"claim", "statistics", "register"}
NoAccount == <<>>
NoToken   == <<>>
NotSent   == <<>>
Sent      == [endpoint : Endpoint, account : Account \cup {NoAccount}]

\* "idle" has not started; the client of a "holding" request has logged in,
\* and "checking" is a request that get_current_user has not seen.
\* "flushing" is before and inside the INSERT, "answered" has answered and not
\* committed; the transaction of a "failed" one was rolled back for a reason
\* that the code has no part in.
PC == {"idle", "holding", "checking", "flushing", "answered", "done", "failed"}

TypeOK ==
    /\ users     \subseteq User
    /\ pc        \in [Writers -> PC]
    /\ token     \in [Requests -> Token \cup {NoToken}]
    /\ request   \in [Requests -> Sent \cup {NotSent}]
    /\ todo      \in [Writers -> Seq(Entry)]
    /\ placed    \in [Writers -> SUBSET Entry]
    /\ \A t \in Writers : pc[t] \in {"done", "failed"} => placed[t] = {}
    /\ reply     \in [Requests -> {"none", "200", "201", "401", "403", "500"}]
    /\ witnessed \in [Requests -> BOOLEAN]
    /\ changes   \in 0..MaxChanges

\* The row of an account that t inserts, with the defaults of the columns.
NewUser(t, account) ==
    [ id |-> <<t, account>>, username |-> account.username, email |-> account.email,
      role |-> account.role, is_active |-> TRUE ]

Init ==
    /\ \E accounts \in {{}, HandAccounts} : users = {NewUser(ByHand, a) : a \in accounts}
    /\ pc        = [t \in Writers |-> "idle"]
    /\ token     = [r \in Requests |-> NoToken]
    /\ request   = [r \in Requests |-> NotSent]
    /\ todo      = [t \in Writers |-> <<>>]
    /\ placed    = [t \in Writers |-> {}]
    /\ reply     = [r \in Requests |-> "none"]
    /\ witnessed = [r \in Requests |-> FALSE]
    /\ changes   = 0

----------------------------------------------------------------------------
(* Tokens and rights.                                                      *)

\* The client of r logs in: the account is active and the password right;
\* anything else is a 401 that changes nothing.
Login(r, u) ==
    /\ pc[r] = "idle" /\ u.is_active
    /\ token' = [token EXCEPT ![r] = [sub |-> u.id, role |-> u.role]]
    /\ pc' = [pc EXCEPT ![r] = "holding"]
    /\ UNCHANGED <<users, request, writing, reply, witnessed, changes>>

\* ACCESS_TOKEN_EXPIRE_MINUTES have passed.
Expire(r) ==
    /\ pc[r] \in {"holding", "checking"}
    /\ token' = [token EXCEPT ![r] = NoToken]
    /\ UNCHANGED <<users, pc, request, writing, reply, witnessed, changes>>

\* OperatorUser, SupervisorUser, AdminUser.
Allowed(endpoint) ==
    CASE endpoint = "claim"      -> Role
      [] endpoint = "statistics" -> {"supervisor", "admin"}
      [] endpoint = "register"   -> {"admin"}

\* get_current_user: the row that the token names, if it is active.
CurrentUser(r) ==
    {u \in users : token[r] # NoToken /\ u.id = token[r].sub /\ u.is_active}

\* Mutant of HasRole: the role in the claims of the token.
HasRoleInClaims(r) ==
    CurrentUser(r) # {} /\ token[r].role \in Allowed(request[r].endpoint)

\* require_roles: the role in the row, whatever the token says.
HasRole(r) ==
    \E u \in CurrentUser(r) : u.role \in Allowed(request[r].endpoint)

\* What the property means by rights: those of the holder of a token.
Entitled(rows, held, endpoint) ==
    \E u \in rows : held # NoToken /\ u.id = held.sub /\ u.is_active /\ u.role \in Allowed(endpoint)

\* Somebody changes the role or is_active of a row, one at a time, in the
\* database.
ChangeUser(u, role, active) ==
    /\ role = u.role <=> active # u.is_active
    /\ changes < MaxChanges
    /\ changes' = changes + 1
    /\ users' = (users \ {u}) \cup {[u EXCEPT !.role = role, !.is_active = active]}
    /\ witnessed' = [r \in Requests |-> witnessed[r] \/
          (pc[r] = "checking" /\ Entitled(users', token[r], request[r].endpoint))]
    /\ UNCHANGED <<pc, token, request, writing, reply>>

----------------------------------------------------------------------------
(* A request, up to its handler.                                           *)

Send(r, endpoint, account) ==
    /\ pc[r] = "holding"
    /\ request' = [request EXCEPT ![r] = [endpoint |-> endpoint, account |-> account]]
    /\ witnessed' = [witnessed EXCEPT ![r] = Entitled(users, token[r], endpoint)]
    /\ pc' = [pc EXCEPT ![r] = "checking"]
    /\ UNCHANGED <<users, token, writing, reply, changes>>

\* The entries of a row, in the order of the unique constraints.
Entries(account) == << <<"username", account.username>>, <<"email", account.email>> >>

\* r goes no further.
Answer(r, code) ==
    /\ pc' = [pc EXCEPT ![r] = "done"]
    /\ token' = [token EXCEPT ![r] = NoToken]
    /\ reply' = [reply EXCEPT ![r] = code]
    /\ UNCHANGED <<users, request, writing, witnessed, changes>>

\* The token has expired, or its user is not there.
Unauthenticated(r) ==
    /\ pc[r] = "checking"
    /\ CurrentUser(r) = {}
    /\ Answer(r, "401")

Forbidden(r) ==
    /\ pc[r] = "checking"
    /\ CurrentUser(r) # {}
    /\ ~HasRole(r)
    /\ Answer(r, "403")

\* The user passes, and another handler than register does its work.
Serve(r) ==
    /\ pc[r] = "checking"
    /\ HasRole(r)
    /\ request[r].endpoint # "register"
    /\ Answer(r, "200")

\* The user passes, and UserRepository.create starts.
Register(r) ==
    /\ pc[r] = "checking"
    /\ HasRole(r)
    /\ request[r].endpoint = "register"
    /\ pc' = [pc EXCEPT ![r] = "flushing"]
    /\ token' = [token EXCEPT ![r] = NoToken]
    /\ todo' = [todo EXCEPT ![r] = Entries(request[r].account)]
    /\ UNCHANGED <<users, request, placed, reply, witnessed, changes>>

----------------------------------------------------------------------------
(* Inserting users.                                                        *)

\* The two entries of each account, one account after the other.
SeedEntries ==
    [k \in 1..(2 * Len(SeedAccounts)) |->
        Entries(SeedAccounts[(k + 1) \div 2])[IF k % 2 = 1 THEN 1 ELSE 2]]

\* Mutant of Seed: without the look at existing users.
SeedBlindly(s) ==
    /\ pc[s] = "idle"
    /\ pc' = [pc EXCEPT ![s] = "flushing"]
    /\ todo' = [todo EXCEPT ![s] = SeedEntries]
    /\ UNCHANGED <<users, token, request, placed, reply, witnessed, changes>>

\* seed() skips if there is a user; else it hashes the passwords of all its
\* accounts, for a while, and inserts them.
Seed(s) ==
    /\ pc[s] = "idle"
    /\ IF users = {}
       THEN /\ pc' = [pc EXCEPT ![s] = "flushing"]
            /\ todo' = [todo EXCEPT ![s] = SeedEntries]
       ELSE /\ pc' = [pc EXCEPT ![s] = "done"]
            /\ UNCHANGED todo
    /\ UNCHANGED <<users, token, request, placed, reply, witnessed, changes>>

Accounts(t) == IF t \in Seeds THEN {SeedAccounts[i] : i \in DOMAIN SeedAccounts}
                              ELSE {request[t].account}

\* The entries of the committed rows.
Committed == {<<"username", u.username>> : u \in users} \cup {<<"email", u.email>> : u \in users}

\* The next entry of t; flush() makes them all, and COMMIT those that nobody
\* has flushed.
Inserting(t) == pc[t] \in {"flushing", "answered"} /\ todo[t] # <<>>

\* Mutant of Place: no wait for transactions that are still open.
PlaceAnyway(t) ==
    /\ Inserting(t)
    /\ Head(todo[t]) \notin Committed
    /\ placed' = [placed EXCEPT ![t] = @ \cup {Head(todo[t])}]
    /\ todo' = [todo EXCEPT ![t] = Tail(@)]
    /\ UNCHANGED <<users, pc, token, request, reply, witnessed, changes>>

Place(t) ==
    /\ Inserting(t)
    /\ Head(todo[t]) \notin Committed
    /\ \A other \in Writers \ {t} : Head(todo[t]) \notin placed[other]
    /\ placed' = [placed EXCEPT ![t] = @ \cup {Head(todo[t])}]
    /\ todo' = [todo EXCEPT ![t] = Tail(@)]
    /\ UNCHANGED <<users, pc, token, request, reply, witnessed, changes>>

\* Mutant of Rollback: the session is left open.
RollbackForgotten(t, end) ==
    /\ pc' = [pc EXCEPT ![t] = end]
    /\ token' = [r \in Requests |-> IF r = t THEN NoToken ELSE token[r]]
    /\ reply' = [r \in Requests |-> IF r = t /\ reply[r] = "none" THEN "500" ELSE reply[r]]
    /\ UNCHANGED <<users, request, writing, witnessed, changes>>

\* The transaction of t ends without a trace; a client without an answer
\* gets a 500.
Rollback(t, end) ==
    /\ pc' = [pc EXCEPT ![t] = end]
    /\ todo' = [todo EXCEPT ![t] = <<>>]
    /\ placed' = [placed EXCEPT ![t] = {}]
    /\ token' = [r \in Requests |-> IF r = t THEN NoToken ELSE token[r]]
    /\ reply' = [r \in Requests |-> IF r = t /\ reply[r] = "none" THEN "500" ELSE reply[r]]
    /\ UNCHANGED <<users, request, witnessed, changes>>

\* IntegrityError, which no handler turns into a 4xx.
Duplicate(t) ==
    /\ Inserting(t)
    /\ Head(todo[t]) \in Committed
    /\ Rollback(t, "done")

\* Mutant of Respond: create() without its flush().
RespondUnflushed(r) ==
    /\ pc[r] = "flushing"
    /\ reply' = [reply EXCEPT ![r] = "201"]
    /\ pc' = [pc EXCEPT ![r] = "answered"]
    /\ UNCHANGED <<users, token, request, writing, witnessed, changes>>

Respond(r) ==
    /\ pc[r] = "flushing"
    /\ todo[r] = <<>>
    /\ reply' = [reply EXCEPT ![r] = "201"]
    /\ pc' = [pc EXCEPT ![r] = "answered"]
    /\ UNCHANGED <<users, token, request, writing, witnessed, changes>>

\* get_db_session after "yield", or the commit of seed().
Commit(t) ==
    /\ pc[t] = IF t \in Seeds THEN "flushing" ELSE "answered"
    /\ todo[t] = <<>>
    /\ users' = users \cup {NewUser(t, a) : a \in Accounts(t)}
    /\ placed' = [placed EXCEPT ![t] = {}]
    /\ pc' = [pc EXCEPT ![t] = "done"]
    /\ UNCHANGED <<token, request, todo, reply, witnessed, changes>>

\* A process dies, a connection breaks or a statement fails.
Abort(t) ==
    /\ pc[t] \in {"checking", "flushing", "answered"}
    /\ Rollback(t, "failed")

----------------------------------------------------------------------------
Advance(t) ==
    \/ /\ t \in Requests
       /\ Unauthenticated(t) \/ Forbidden(t) \/ Serve(t) \/ Register(t) \/ Respond(t)
    \/ Place(t) \/ Duplicate(t) \/ Commit(t)

Next ==
    \/ \E u \in users :
          \/ \E r \in Requests : Login(r, u)
          \/ \E role \in Role, active \in BOOLEAN : ChangeUser(u, role, active)
    \/ \E r \in Requests :
          \/ Expire(r)
          \/ \E e \in Endpoint \ {"register"} : Send(r, e, NoAccount)
          \/ \E a \in Registrable : Send(r, "register", a)
    \/ \E s \in Seeds : Seed(s)
    \/ \E t \in Writers : Advance(t) \/ Abort(t)

\* Who has started is carried on; an INSERT goes on as soon as it may.
Spec     == Init /\ [][Next]_vars
FairSpec == Spec /\ \A t \in Writers : WF_vars(Advance(t))

----------------------------------------------------------------------------
(* No two users have a username or an email in common, whatever            *)
(* registrations and seeds race (unique=True of User.username, User.email). *)
OneAccountEach ==
    \A u, v \in users : u.username = v.username \/ u.email = v.email => u = v

(* Who is told 201 and has not met a failure from outside has an account:  *)
(* the name that another registration took meanwhile is noticed before the *)
(* response, because create() flushes (UserRepository.create).             *)
RegisteredIsKept ==
    \A r \in Requests : reply[r] = "201" /\ pc[r] = "done" =>
        \E u \in users : u.id = <<r, request[r].account>>

(* A seed leaves all its accounts or none of them, only one seed leaves    *)
(* any, and it adds none to a table that had users (seed: "Users already   *)
(* exist", and one commit for all).                                        *)
SeededOnce ==
    \A s \in Seeds : \A u \in users : u.id[1] = s =>
        /\ \A a \in Accounts(s) : <<s, a>> \in {v.id : v \in users}
        /\ \A v \in users : v.id[1] \notin (Seeds \ {s}) \cup {ByHand}

(* A request does its work only if its sender's row, as it was at some     *)
(* moment since the request was sent, was active and had the role: a token *)
(* gives no rights that the row has lost before (get_current_user loads    *)
(* the user on every request; require_roles asks the row, not the token).  *)
ServedWithRights ==
    \A r \in Requests :
        pc[r] \in {"flushing", "answered"} \/ reply[r] \in {"200", "201"} => witnessed[r]

(* Every request and every seed ends: two INSERTs never wait for each      *)
(* other, and nobody waits for a transaction that is over.                 *)
EveryWriterEnds ==
    \A t \in Writers : pc[t] \notin {"idle", "holding"} ~> pc[t] \in {"done", "failed"}
=============================================================================
