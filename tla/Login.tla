------------------------------- MODULE Login -------------------------------
(***************************************************************************)
(* login_server: accounts in MySQL, tokens in Redis, and the gateway that  *)
(* takes a token for a session (ServeHTTP).  Requests run on goroutines of *)
(* their own; a step is one statement to MySQL or one command to Redis.    *)
(* Every statement takes a connection of the pool: which one depends on    *)
(* the statements of other requests and on SetConnMaxLifetime.             *)
(*                                                                         *)
(* Left out: the key "token:<uid>" and last_login_time, which no code      *)
(* reads, and the message to "gateway:kick": its uid is a string, which    *)
(* the subscriber cannot decode into its uint32, so it skips the message.  *)
(***************************************************************************)
EXTENDS Naturals, Sequences, FiniteSets

CONSTANTS Requests,  \* bound: HTTP requests, each made once
          Names,     \* bound: usernames
          Values,    \* bound: passwords and e-mail addresses
          DbConns,   \* bound: connections of the MySQL pool
          None

Kinds == {"register", "login", "password", "email"}

ASSUME LoginAssumption == None \notin Requests \cup Names \cup Values \cup Nat \cup Kinds

VARIABLES
  users,     \* the table; the uid of a row is its number, 0 is no uid
  last_id,   \* LAST_INSERT_ID() of a connection, 0 before its first INSERT
  auth,      \* the key "auth:<token>"; a token is known by the request that
             \* has generated it
  req,       \* the local state of the requests
  session,   \* the uid of the gateway session opened with a token
  expired    \* observer: tokens whose key has reached its 24 hours

vars == <<users, last_id, auth, req, session, expired>>

\* "lastid": the row is inserted; "token" and "auth": the two Set commands
\* of saveTokenToRedis come next; "update": the token has been looked up.
ReqPc == {"unused", "sent", "lastid", "token", "auth", "update", "ok", "failed"}

ReqType ==
  [pc    : ReqPc,
   kind  : Kinds \cup {None},
   name  : Names \cup {None},      \* of register and login
   value : Values \cup {None},     \* the password, or the new e-mail address
   token : Requests \cup {None},   \* of the two updates
   uid   : Nat \cup {None}]

Unused == [pc |-> "unused", kind |-> None, name |-> None, value |-> None,
           token |-> None, uid |-> None]

Row == [name : Names, password : Values, email : Values \cup {None}]

UniqueNames(t) == \A u, v \in DOMAIN t : t[u].name = t[v].name => u = v

\* The table outlives the process.
Tables == {t \in UNION {[1 .. n -> Row] : n \in 0 .. Cardinality(Names)} : UniqueNames(t)}

Init ==
  /\ users \in Tables
  /\ last_id = [d \in DbConns |-> 0]
  /\ auth = [t \in Requests |-> None]
  /\ req = [r \in Requests |-> Unused]
  /\ session = [t \in Requests |-> None]
  /\ expired = {}

-----------------------------------------------------------------------------
(* The clients.  They use the tokens they have been given.                  *)

Given(t) == req[t].pc = "ok" /\ req[t].kind \in {"register", "login"}

SendCredentials(r, kind, n, v) ==
  /\ req[r].pc = "unused"
  /\ req' = [req EXCEPT ![r] = [Unused EXCEPT !.pc = "sent", !.kind = kind,
                                              !.name = n, !.value = v]]
  /\ UNCHANGED <<users, last_id, auth, session, expired>>

SendUpdate(r, kind, t, v) ==
  /\ req[r].pc = "unused"
  /\ Given(t)
  /\ req' = [req EXCEPT ![r] = [Unused EXCEPT !.pc = "sent", !.kind = kind,
                                              !.token = t, !.value = v]]
  /\ UNCHANGED <<users, last_id, auth, session, expired>>

-----------------------------------------------------------------------------
(* /api/register                                                            *)

Handles(r, kind) == req[r].pc = "sent" /\ req[r].kind = kind

Goto(r, pc) == req' = [req EXCEPT ![r].pc = pc]

Rows(n) == {u \in DOMAIN users : users[u].name = n}

\* The e-mail address of a new row tells nothing here: it starts as None.
NewRow(r) == [name |-> req[r].name, password |-> req[r].value, email |-> None]

\* Defect: the table has no UNIQUE index on the username.
RegisterInserts_NoIndex(r, d) ==
  /\ Handles(r, "register")
  /\ users' = Append(users, NewRow(r))
  /\ last_id' = [last_id EXCEPT ![d] = Len(users) + 1]
  /\ Goto(r, "lastid")
  /\ UNCHANGED <<auth, session, expired>>

RegisterInserts(r, d) ==
  /\ Handles(r, "register")
  /\ Rows(req[r].name) = {}
  /\ users' = Append(users, NewRow(r))
  /\ last_id' = [last_id EXCEPT ![d] = Len(users) + 1]
  /\ Goto(r, "lastid")
  /\ UNCHANGED <<auth, session, expired>>

\* The name is taken, or the database is out of reach: ErrDbExists either way.
RegisterFails(r) ==
  /\ Handles(r, "register")
  /\ Goto(r, "failed")
  /\ UNCHANGED <<users, last_id, auth, session, expired>>

\* The row is inserted and the answer of the database lost with its connection.
RegisterAnswerLost(r) ==
  /\ Handles(r, "register")
  /\ Rows(req[r].name) = {}
  /\ users' = Append(users, NewRow(r))
  /\ Goto(r, "failed")
  /\ UNCHANGED <<last_id, auth, session, expired>>

\* SELECT LAST_INSERT_ID() on whichever connection is free.
ReadsLastInsertId(r, d) ==
  /\ req[r].pc = "lastid"
  /\ req' = [req EXCEPT ![r].pc = "token", ![r].uid = last_id[d]]
  /\ UNCHANGED <<users, last_id, auth, session, expired>>

\* A new connection of the pool, or an error of Scan, which is not looked at.
ReadsNoId(r) ==
  /\ req[r].pc = "lastid"
  /\ req' = [req EXCEPT ![r].pc = "token", ![r].uid = 0]
  /\ UNCHANGED <<users, last_id, auth, session, expired>>

-----------------------------------------------------------------------------
(* /api/login                                                               *)

\* The row is read, and the password is compared with what was read.
LoginFinds(r) ==
  /\ Handles(r, "login")
  /\ \E u \in Rows(req[r].name) :
       /\ users[u].password = req[r].value
       /\ req' = [req EXCEPT ![r].pc = "token", ![r].uid = u]
  /\ UNCHANGED <<users, last_id, auth, session, expired>>

\* No such row, another password, or no answer from the database.
LoginRefuses(r) ==
  /\ Handles(r, "login")
  /\ Goto(r, "failed")
  /\ UNCHANGED <<users, last_id, auth, session, expired>>

-----------------------------------------------------------------------------
(* saveTokenToRedis, of register and of login.                              *)

SavesToken(r) ==
  /\ req[r].pc = "token"
  /\ Goto(r, "auth")
  /\ UNCHANGED <<users, last_id, auth, session, expired>>

SavesAuth(r) ==
  /\ req[r].pc = "auth"
  /\ auth' = [auth EXCEPT ![r] = req[r].uid]
  /\ Goto(r, "ok")
  /\ UNCHANGED <<users, last_id, session, expired>>

\* Defect: the result of the second command is not returned.
SaveFails_Ignored(r) ==
  /\ req[r].pc \in {"token", "auth"}
  /\ IF req[r].pc = "auth" THEN Goto(r, "ok") ELSE Goto(r, "failed")
  /\ UNCHANGED <<users, last_id, auth, session, expired>>

\* Either command fails.
SaveFails(r) ==
  /\ req[r].pc \in {"token", "auth"}
  /\ Goto(r, "failed")
  /\ UNCHANGED <<users, last_id, auth, session, expired>>

\* The key is set, but the answer of Redis is lost: a token that nobody knows.
SaveAnswerLost(r) ==
  /\ req[r].pc = "auth"
  /\ auth' = [auth EXCEPT ![r] = req[r].uid]
  /\ Goto(r, "failed")
  /\ UNCHANGED <<users, last_id, session, expired>>

Expires(t) ==
  /\ auth[t] # None
  /\ auth' = [auth EXCEPT ![t] = None]
  /\ expired' = expired \cup {t}
  /\ UNCHANGED <<users, last_id, req, session>>

-----------------------------------------------------------------------------
(* /api/update_password and /api/update_email                               *)

HandlesUpdate(r) == Handles(r, "password") \/ Handles(r, "email")

UpdateFindsUid(r) ==
  /\ HandlesUpdate(r)
  /\ auth[req[r].token] # None
  /\ req' = [req EXCEPT ![r].pc = "update", ![r].uid = auth[req[r].token]]
  /\ UNCHANGED <<users, last_id, auth, session, expired>>

UpdateRefuses(r) ==
  /\ HandlesUpdate(r)
  /\ auth[req[r].token] = None
  /\ Goto(r, "failed")
  /\ UNCHANGED <<users, last_id, auth, session, expired>>

\* Redis is out of reach.  Only redis.Nil is refused: the handler goes on with
\* an empty uid, which MySQL reads as 0.
UpdateFindsNothing(r) ==
  /\ HandlesUpdate(r)
  /\ req' = [req EXCEPT ![r].pc = "update", ![r].uid = 0]
  /\ UNCHANGED <<users, last_id, auth, session, expired>>

\* Defect: the statement has lost its WHERE.
Updated_Everywhere(r) ==
  [u \in DOMAIN users |-> [users[u] EXCEPT ![req[r].kind] = req[r].value]]

\* The row of the uid, if there is one.
Updated(r) ==
  [u \in DOMAIN users |->
     IF u = req[r].uid THEN [users[u] EXCEPT ![req[r].kind] = req[r].value]
                       ELSE users[u]]

Updates(r) ==
  /\ req[r].pc = "update"
  /\ users' = Updated(r)
  /\ Goto(r, "ok")
  /\ UNCHANGED <<last_id, auth, session, expired>>

\* ErrApiDbError: the statement may have run.
UpdateFails(r) ==
  /\ req[r].pc = "update"
  /\ users' \in {users, Updated(r)}
  /\ Goto(r, "failed")
  /\ UNCHANGED <<last_id, auth, session, expired>>

-----------------------------------------------------------------------------
\* The gateway: ServeHTTP opens a session for the uid of a token.
ServeHTTP(t) ==
  /\ Given(t)
  /\ auth[t] # None
  /\ session' = [session EXCEPT ![t] = auth[t]]
  /\ UNCHANGED <<users, last_id, auth, req, expired>>

-----------------------------------------------------------------------------
Client(r) ==
  \E v \in Values :
    \/ \E kind \in {"register", "login"}, n \in Names : SendCredentials(r, kind, n, v)
    \/ \E kind \in {"password", "email"}, t \in Requests : SendUpdate(r, kind, t, v)

Register(r) ==
  \/ \E d \in DbConns : RegisterInserts(r, d) \/ ReadsLastInsertId(r, d)
  \/ RegisterFails(r)
  \/ RegisterAnswerLost(r)
  \/ ReadsNoId(r)

SaveToken(r) == SavesToken(r) \/ SavesAuth(r) \/ SaveFails(r) \/ SaveAnswerLost(r)

Update(r) ==
  \/ UpdateFindsUid(r)
  \/ UpdateRefuses(r)
  \/ UpdateFindsNothing(r)
  \/ Updates(r)
  \/ UpdateFails(r)

Next ==
  \E r \in Requests :
    \/ Client(r)
    \/ Register(r)
    \/ LoginFinds(r) \/ LoginRefuses(r)
    \/ SaveToken(r)
    \/ Update(r)
    \/ Expires(r)
    \/ ServeHTTP(r)

Spec == Init /\ [][Next]_vars
-----------------------------------------------------------------------------
(* Properties.                                                             *)

\* Every variable keeps its shape, and no two rows have the same name.
TypeOK ==
  /\ users \in Seq(Row)
  /\ UniqueNames(users)
  /\ last_id \in [DbConns -> Nat]
  /\ auth \in [Requests -> Nat \cup {None}]
  /\ req \in [Requests -> ReqType]
  /\ session \in [Requests -> Nat \cup {None}]
  /\ expired \subseteq Requests

Owns(t, u) == u \in DOMAIN users /\ users[u].name = req[t].name

\* A token that a login has been answered with stands for the account of that
\* login, and for no other, until it expires: in Redis and in the session that
\* the gateway opens with it, although writes fail, answers are lost, and other
\* requests of the same and of other accounts run in between.
LoginTokenIsOwn ==
  \A t \in Requests :
    /\ req[t].kind = "login"
    /\ req[t].pc = "ok"
    => /\ t \notin expired => auth[t] # None
       /\ auth[t] # None => Owns(t, auth[t])
       /\ session[t] # None => Owns(t, session[t])

\* An account is changed only by the request of one who has logged in to it, or
\* by the holder of a token of a registration: a request whose token Redis could
\* not be asked about, or whose token expires before the row is written, changes
\* no other account.
ChangedByItsOwner ==
  [][\A u \in DOMAIN users : users'[u] # users[u] =>
       \E r \in Requests :
         /\ req[r].pc = "update"
         /\ req'[r].pc # "update"
         /\ \/ Owns(req[r].token, u)
            \/ req[req[r].token].kind = "register"]_vars

-----------------------------------------------------------------------------
(* What the repository says of the program, and the code does not keep.    *)

\* lobby_server/api.md:4: the uid of a player is bound to the uid of the table
\* users.  The gateway opens sessions only for uids that are in the table.
SessionUidIsAUser ==
  \A t \in Requests : session[t] # None => session[t] \in DOMAIN users
=============================================================================
