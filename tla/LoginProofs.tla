---------------------------- MODULE LoginProofs ----------------------------
(***************************************************************************)
(* Safety of Login for every number of requests, accounts and database     *)
(* connections.                                                            *)
(***************************************************************************)
EXTENDS Login, TLAPS

-----------------------------------------------------------------------------
(* The inductive invariant.                                                 *)

Credentials == {"register", "login"}
FieldKinds  == {"password", "email"}

\* What a request is, from what it has done.
RequestsOK ==
  \A r \in Requests :
    /\ req[r].pc \in {"lastid", "token", "auth"} => req[r].kind \in Credentials
    /\ req[r].pc = "update" => req[r].kind \in FieldKinds
    /\ req[r].kind \in Credentials => req[r].name \in Names /\ req[r].value \in
               Values
    /\ req[r].kind \in FieldKinds =>
         req[r].value \in Values /\ req[r].token \in Requests /\ Given(req[r].token)
    /\ req[r].pc \in {"token", "auth", "update"} => req[r].uid # None
    /\ Given(r) => req[r].uid # None
    /\ req[r].pc \in {"unused", "sent", "lastid"} => req[r].uid = None

\* The uid that a login has read is that of its row.
LoginsOK ==
  \A r \in Requests :
    req[r].kind = "login" /\ req[r].uid # None => Owns(r, req[r].uid)

\* An update goes by the uid of its token, or by 0.
UpdatesOK ==
  \A r \in Requests :
    req[r].pc = "update" => req[r].uid \in {0, req[req[r].token].uid}

\* A key, and a session opened with it, hold the uid of their request.
KeysOK ==
  \A t \in Requests :
    /\ auth[t] # None =>
         /\ auth[t] = req[t].uid
         /\ req[t].pc \in {"ok", "failed"}
         /\ req[t].kind \in Credentials
    /\ session[t] # None => session[t] = req[t].uid /\ Given(t)
    /\ Given(t) => auth[t] # None \/ t \in expired

IInv == TypeOK /\ RequestsOK /\ LoginsOK /\ UpdatesOK /\ KeysOK

\* The table is empty or not: no row has the number 0.
LEMMA RowNumbers ==
  ASSUME TypeOK
  PROVE  /\ DOMAIN users = 1 .. Len(users)
         /\ Len(users) \in Nat
         /\ 0 \notin DOMAIN users
         /\ \A u \in DOMAIN users : users[u] \in Row
PROOF
  BY DEF TypeOK

\* A step that only moves a request on keeps the shape of the requests.
LEMMA GotoType ==
  ASSUME req \in [Requests -> ReqType], NEW r \in Requests, NEW pc \in ReqPc,
             Goto(r, pc)
  PROVE  req' \in [Requests -> ReqType]
PROOF
  <1>1. [req[r] EXCEPT !.pc = pc] \in ReqType
    BY DEF ReqType
  <1>2. QED
    BY <1>1 DEF Goto

\* So does one that also reads a uid.
LEMMA UidType ==
  ASSUME req \in [Requests -> ReqType], NEW r \in Requests, NEW pc \in ReqPc,
         NEW uid \in Nat, req' = [req EXCEPT ![r].pc = pc, ![r].uid = uid]
  PROVE  req' \in [Requests -> ReqType]
PROOF
  <1>1. [req[r] EXCEPT !.pc = pc, !.uid = uid] \in ReqType
    BY DEF ReqType
  <1>2. req' = [req EXCEPT ![r] = [req[r] EXCEPT !.pc = pc, !.uid = uid]]
    OBVIOUS
  <1>3. QED
    BY <1>1, <1>2

\* An update writes rows that are rows, under the names they had.
LEMMA UpdatedRows ==
  ASSUME TypeOK, RequestsOK, NEW r \in Requests, req[r].pc = "update"
  PROVE  /\ Updated(r) \in Seq(Row)
         /\ DOMAIN Updated(r) = DOMAIN users
         /\ \A u \in DOMAIN users : Updated(r)[u].name = users[u].name
PROOF
  <1>1. req[r].kind \in FieldKinds /\ req[r].value \in Values
    BY DEF RequestsOK
  <1>2. \A u \in DOMAIN users :
          /\ [users[u] EXCEPT ![req[r].kind] = req[r].value] \in Row
          /\ [users[u] EXCEPT ![req[r].kind] = req[r].value].name = users[u].name
    BY <1>1, RowNumbers DEF FieldKinds, Row
  <1>3. DOMAIN users = 1 .. Len(users) /\ Len(users) \in Nat
    BY RowNumbers
  <1>4. Updated(r) \in [1 .. Len(users) -> Row]
    BY <1>2, <1>3, RowNumbers DEF Updated
  <1>5. \A u \in DOMAIN users : Updated(r)[u].name = users[u].name
    BY <1>2 DEF Updated
  <1>6. QED
    BY <1>3, <1>4, <1>5

\* A registration adds a row under a name that no row has.
LEMMA NewRowLast ==
  ASSUME TypeOK, RequestsOK, NEW r \in Requests, Handles(r, "register"),
         Rows(req[r].name) = {}, users' = Append(users, NewRow(r))
  PROVE  /\ users' \in Seq(Row)
         /\ UniqueNames(users')
         /\ DOMAIN users \subseteq DOMAIN users'
         /\ \A u \in DOMAIN users : users'[u] = users[u]
PROOF
  <1>1. NewRow(r) \in Row
    BY DEF RequestsOK, Credentials, Handles, NewRow, Row
  <1>2. users \in Seq(Row)
    BY DEF TypeOK
  <1>3. /\ users' \in Seq(Row)
        /\ DOMAIN users' = 1 .. Len(users) + 1
        /\ \A u \in 1 .. Len(users) : users'[u] = users[u]
        /\ users'[Len(users) + 1] = NewRow(r)
    BY <1>1, <1>2
  <1>4. \A u \in DOMAIN users : users[u].name # NewRow(r).name
    BY DEF Rows, NewRow
  <1>5. DOMAIN users = 1 .. Len(users) /\ Len(users) \in Nat
    BY RowNumbers
  <1>6. \A u \in DOMAIN users' : u \in DOMAIN users \/ u = Len(users) + 1
    BY <1>3, <1>5
  <1>7. UniqueNames(users')
    BY <1>3, <1>4, <1>5, <1>6 DEF TypeOK, UniqueNames
  <1>8. QED
    BY <1>3, <1>5, <1>7

THEOREM InitIInv == Init => IInv
PROOF
  <1> SUFFICES ASSUME Init PROVE IInv
    OBVIOUS
  <1>1. users \in Seq(Row) /\ UniqueNames(users)
    BY DEF Init, Tables
  <1>2. Unused \in ReqType
    BY DEF Unused, ReqType, ReqPc, Kinds
  <1>3. \A r \in Requests : req[r] = Unused /\ auth[r] = None /\ session[r] = None
    BY DEF Init
  <1>4. TypeOK
    BY <1>1, <1>2 DEF Init, TypeOK
  <1>5. RequestsOK
    BY <1>3, LoginAssumption DEF RequestsOK, Unused, Given, Credentials,
       FieldKinds, Kinds
  <1>6. LoginsOK /\ UpdatesOK /\ KeysOK
    BY <1>3 DEF LoginsOK, UpdatesOK, KeysOK, Unused, Given
  <1>7. QED
    BY <1>4, <1>5, <1>6 DEF IInv

THEOREM NextIInv == IInv /\ [Next]_vars => IInv'
PROOF
  <1> SUFFICES ASSUME IInv, [Next]_vars PROVE IInv'
    OBVIOUS
  <1> USE LoginAssumption DEF IInv, TypeOK, Handles, Goto, Given, Owns
  <1>1. ASSUME NEW r \in Requests, NEW v \in Values, NEW n \in Names, NEW kind
             \in {"register", "login"}, SendCredentials(r, kind, n, v)
        PROVE  IInv'
    <2>1. TypeOK'
      BY <1>1 DEF SendCredentials, Unused, ReqType, ReqPc, Kinds
    <2>2. RequestsOK'
      BY <1>1 DEF SendCredentials, Unused, RequestsOK, Credentials, FieldKinds,
         ReqType, Kinds
    <2>3. LoginsOK'
      BY <1>1 DEF SendCredentials, Unused, LoginsOK, RequestsOK, ReqType
    <2>4. UpdatesOK'
      BY <1>1 DEF SendCredentials, Unused, UpdatesOK, RequestsOK, KeysOK,
         FieldKinds, ReqType
    <2>5. KeysOK'
      BY <1>1 DEF SendCredentials, Unused, KeysOK, RequestsOK, Credentials,
         FieldKinds, ReqType
    <2>6. QED
      BY <2>1, <2>2, <2>3, <2>4, <2>5
  <1>2. ASSUME NEW r \in Requests, NEW v \in Values, NEW t \in Requests, NEW
             kind \in {"password", "email"}, SendUpdate(r, kind, t, v)
        PROVE  IInv'
    <2>1. TypeOK'
      BY <1>2 DEF SendUpdate, Unused, ReqType, ReqPc, Kinds
    <2>2. RequestsOK'
      BY <1>2 DEF SendUpdate, Unused, RequestsOK, Credentials, FieldKinds,
         ReqType, Kinds
    <2>3. LoginsOK'
      BY <1>2 DEF SendUpdate, Unused, LoginsOK, RequestsOK, ReqType
    <2>4. UpdatesOK'
      BY <1>2 DEF SendUpdate, Unused, UpdatesOK, RequestsOK, KeysOK, FieldKinds,
         ReqType
    <2>5. KeysOK'
      BY <1>2 DEF SendUpdate, Unused, KeysOK, RequestsOK, Credentials,
         FieldKinds, ReqType
    <2>6. QED
      BY <2>1, <2>2, <2>3, <2>4, <2>5
  <1>3. ASSUME NEW r \in Requests, NEW d \in DbConns, RegisterInserts(r, d)
        PROVE  IInv'
    <2>1. TypeOK'
      <3>1. req' \in [Requests -> ReqType]
        BY <1>3, GotoType DEF RegisterInserts, ReqPc
      <3>2. users' \in Seq(Row) /\ UniqueNames(users')
        BY <1>3, NewRowLast DEF RegisterInserts
      <3>3. last_id' \in [DbConns -> Nat]
        BY <1>3, RowNumbers DEF RegisterInserts
      <3>4. QED
        BY <1>3, <3>1, <3>2, <3>3 DEF RegisterInserts
    <2>2. RequestsOK'
      BY <1>3 DEF RegisterInserts, NewRow, RequestsOK, Credentials, FieldKinds,
         ReqType, Kinds
    <2>3. LoginsOK'
      BY <1>3 DEF RegisterInserts, NewRow, LoginsOK, RequestsOK, ReqType
    <2>4. UpdatesOK'
      BY <1>3 DEF RegisterInserts, NewRow, UpdatesOK, RequestsOK, KeysOK,
         FieldKinds, ReqType
    <2>5. KeysOK'
      BY <1>3 DEF RegisterInserts, NewRow, KeysOK, RequestsOK, Credentials,
         FieldKinds, ReqType
    <2>6. QED
      BY <2>1, <2>2, <2>3, <2>4, <2>5
  <1>4. ASSUME NEW r \in Requests, RegisterFails(r)
        PROVE  IInv'
    <2>1. TypeOK'
      BY <1>4, GotoType DEF RegisterFails, ReqPc
    <2>2. RequestsOK'
      BY <1>4 DEF RegisterFails, RequestsOK, Credentials, FieldKinds, ReqType, Kinds
    <2>3. LoginsOK'
      BY <1>4 DEF RegisterFails, LoginsOK, RequestsOK, ReqType
    <2>4. UpdatesOK'
      BY <1>4 DEF RegisterFails, UpdatesOK, RequestsOK, KeysOK, FieldKinds, ReqType
    <2>5. KeysOK'
      BY <1>4 DEF RegisterFails, KeysOK, RequestsOK, Credentials, FieldKinds,
         ReqType
    <2>6. QED
      BY <2>1, <2>2, <2>3, <2>4, <2>5
  <1>5. ASSUME NEW r \in Requests, RegisterAnswerLost(r)
        PROVE  IInv'
    <2>1. TypeOK'
      BY <1>5, NewRowLast, GotoType, RowNumbers DEF RegisterAnswerLost, ReqPc
    <2>2. RequestsOK'
      BY <1>5 DEF RegisterAnswerLost, NewRow, RequestsOK, Credentials,
         FieldKinds, ReqType, Kinds
    <2>3. LoginsOK'
      BY <1>5 DEF RegisterAnswerLost, NewRow, LoginsOK, RequestsOK, ReqType
    <2>4. UpdatesOK'
      BY <1>5 DEF RegisterAnswerLost, NewRow, UpdatesOK, RequestsOK, KeysOK,
         FieldKinds, ReqType
    <2>5. KeysOK'
      BY <1>5 DEF RegisterAnswerLost, NewRow, KeysOK, RequestsOK, Credentials,
         FieldKinds, ReqType
    <2>6. QED
      BY <2>1, <2>2, <2>3, <2>4, <2>5
  <1>6. ASSUME NEW r \in Requests, NEW d \in DbConns, ReadsLastInsertId(r, d)
        PROVE  IInv'
    <2>1. TypeOK'
      BY <1>6, UidType DEF ReadsLastInsertId, ReqPc
    <2>2. RequestsOK'
      BY <1>6 DEF ReadsLastInsertId, RequestsOK, Credentials, FieldKinds,
         ReqType, Kinds
    <2>3. LoginsOK'
      BY <1>6 DEF ReadsLastInsertId, LoginsOK, RequestsOK, ReqType
    <2>4. UpdatesOK'
      BY <1>6 DEF ReadsLastInsertId, UpdatesOK, RequestsOK, KeysOK, FieldKinds,
         ReqType
    <2>5. KeysOK'
      BY <1>6 DEF ReadsLastInsertId, KeysOK, RequestsOK, Credentials,
         FieldKinds, ReqType
    <2>6. QED
      BY <2>1, <2>2, <2>3, <2>4, <2>5
  <1>7. ASSUME NEW r \in Requests, ReadsNoId(r)
        PROVE  IInv'
    <2>1. TypeOK'
      BY <1>7, UidType DEF ReadsNoId, ReqPc
    <2>2. RequestsOK'
      BY <1>7 DEF ReadsNoId, RequestsOK, Credentials, FieldKinds, ReqType, Kinds
    <2>3. LoginsOK'
      BY <1>7 DEF ReadsNoId, LoginsOK, RequestsOK, ReqType
    <2>4. UpdatesOK'
      BY <1>7 DEF ReadsNoId, UpdatesOK, RequestsOK, KeysOK, FieldKinds, ReqType
    <2>5. KeysOK'
      BY <1>7 DEF ReadsNoId, KeysOK, RequestsOK, Credentials, FieldKinds, ReqType
    <2>6. QED
      BY <2>1, <2>2, <2>3, <2>4, <2>5
  <1>8. ASSUME NEW r \in Requests, LoginFinds(r)
        PROVE  IInv'
    <2>1. TypeOK'
      <3>1. PICK u \in DOMAIN users : req' = [req EXCEPT ![r].pc = "token",
                 ![r].uid = u]
        BY <1>8 DEF LoginFinds, Rows
      <3>2. u \in Nat
        BY RowNumbers
      <3>3. req' \in [Requests -> ReqType]
        BY <3>1, <3>2, UidType DEF ReqPc
      <3>4. QED
        BY <1>8, <3>3 DEF LoginFinds
    <2>2. RequestsOK'
      BY <1>8 DEF LoginFinds, Rows, RequestsOK, Credentials, FieldKinds,
         ReqType, Kinds
    <2>3. LoginsOK'
      BY <1>8 DEF LoginFinds, Rows, LoginsOK, RequestsOK, ReqType
    <2>4. UpdatesOK'
      BY <1>8 DEF LoginFinds, Rows, UpdatesOK, RequestsOK, KeysOK, FieldKinds,
         ReqType
    <2>5. KeysOK'
      BY <1>8 DEF LoginFinds, Rows, KeysOK, RequestsOK, Credentials, FieldKinds,
         ReqType
    <2>6. QED
      BY <2>1, <2>2, <2>3, <2>4, <2>5
  <1>9. ASSUME NEW r \in Requests, LoginRefuses(r)
        PROVE  IInv'
    <2>1. TypeOK'
      BY <1>9, GotoType DEF LoginRefuses, ReqPc
    <2>2. RequestsOK'
      BY <1>9 DEF LoginRefuses, RequestsOK, Credentials, FieldKinds, ReqType, Kinds
    <2>3. LoginsOK'
      BY <1>9 DEF LoginRefuses, LoginsOK, RequestsOK, ReqType
    <2>4. UpdatesOK'
      BY <1>9 DEF LoginRefuses, UpdatesOK, RequestsOK, KeysOK, FieldKinds, ReqType
    <2>5. KeysOK'
      BY <1>9 DEF LoginRefuses, KeysOK, RequestsOK, Credentials, FieldKinds, ReqType
    <2>6. QED
      BY <2>1, <2>2, <2>3, <2>4, <2>5
  <1>10. ASSUME NEW r \in Requests, SavesToken(r)
        PROVE  IInv'
    <2>1. TypeOK'
      BY <1>10, GotoType DEF SavesToken, ReqPc
    <2>2. RequestsOK'
      BY <1>10 DEF SavesToken, RequestsOK, Credentials, FieldKinds, ReqType, Kinds
    <2>3. LoginsOK'
      BY <1>10 DEF SavesToken, LoginsOK, RequestsOK, ReqType
    <2>4. UpdatesOK'
      BY <1>10 DEF SavesToken, UpdatesOK, RequestsOK, KeysOK, FieldKinds, ReqType
    <2>5. KeysOK'
      BY <1>10 DEF SavesToken, KeysOK, RequestsOK, Credentials, FieldKinds, ReqType
    <2>6. QED
      BY <2>1, <2>2, <2>3, <2>4, <2>5
  <1>11. ASSUME NEW r \in Requests, SavesAuth(r)
        PROVE  IInv'
    <2>1. TypeOK'
      <3>1. req' \in [Requests -> ReqType]
        BY <1>11, GotoType DEF SavesAuth, ReqPc
      <3>2. req[r].uid \in Nat
        BY <1>11 DEF SavesAuth, RequestsOK, ReqType
      <3>3. QED
        BY <1>11, <3>1, <3>2 DEF SavesAuth
    <2>2. RequestsOK'
      BY <1>11 DEF SavesAuth, RequestsOK, Credentials, FieldKinds, ReqType, Kinds
    <2>3. LoginsOK'
      BY <1>11 DEF SavesAuth, LoginsOK, RequestsOK, ReqType
    <2>4. UpdatesOK'
      BY <1>11 DEF SavesAuth, UpdatesOK, RequestsOK, KeysOK, FieldKinds, ReqType
    <2>5. KeysOK'
      BY <1>11 DEF SavesAuth, KeysOK, RequestsOK, Credentials, FieldKinds, ReqType
    <2>6. QED
      BY <2>1, <2>2, <2>3, <2>4, <2>5
  <1>12. ASSUME NEW r \in Requests, SaveFails(r)
        PROVE  IInv'
    <2>1. TypeOK'
      BY <1>12, GotoType DEF SaveFails, ReqPc
    <2>2. RequestsOK'
      BY <1>12 DEF SaveFails, RequestsOK, Credentials, FieldKinds, ReqType, Kinds
    <2>3. LoginsOK'
      BY <1>12 DEF SaveFails, LoginsOK, RequestsOK, ReqType
    <2>4. UpdatesOK'
      BY <1>12 DEF SaveFails, UpdatesOK, RequestsOK, KeysOK, FieldKinds, ReqType
    <2>5. KeysOK'
      BY <1>12 DEF SaveFails, KeysOK, RequestsOK, Credentials, FieldKinds, ReqType
    <2>6. QED
      BY <2>1, <2>2, <2>3, <2>4, <2>5
  <1>13. ASSUME NEW r \in Requests, SaveAnswerLost(r)
        PROVE  IInv'
    <2>1. TypeOK'
      <3>1. req' \in [Requests -> ReqType]
        BY <1>13, GotoType DEF SaveAnswerLost, ReqPc
      <3>2. req[r].uid \in Nat
        BY <1>13 DEF SaveAnswerLost, RequestsOK, ReqType
      <3>3. QED
        BY <1>13, <3>1, <3>2 DEF SaveAnswerLost
    <2>2. RequestsOK'
      BY <1>13 DEF SaveAnswerLost, RequestsOK, Credentials, FieldKinds, ReqType,
         Kinds
    <2>3. LoginsOK'
      BY <1>13 DEF SaveAnswerLost, LoginsOK, RequestsOK, ReqType
    <2>4. UpdatesOK'
      BY <1>13 DEF SaveAnswerLost, UpdatesOK, RequestsOK, KeysOK, FieldKinds,
         ReqType
    <2>5. KeysOK'
      BY <1>13 DEF SaveAnswerLost, KeysOK, RequestsOK, Credentials, FieldKinds,
         ReqType
    <2>6. QED
      BY <2>1, <2>2, <2>3, <2>4, <2>5
  <1>14. ASSUME NEW r \in Requests, Expires(r)
        PROVE  IInv'
    <2>1. TypeOK'
      BY <1>14 DEF Expires, ReqType, ReqPc
    <2>2. RequestsOK'
      BY <1>14 DEF Expires, RequestsOK, Credentials, FieldKinds, ReqType, Kinds
    <2>3. LoginsOK'
      BY <1>14 DEF Expires, LoginsOK, RequestsOK, ReqType
    <2>4. UpdatesOK'
      BY <1>14 DEF Expires, UpdatesOK, RequestsOK, KeysOK, FieldKinds, ReqType
    <2>5. KeysOK'
      BY <1>14 DEF Expires, KeysOK, RequestsOK, Credentials, FieldKinds, ReqType
    <2>6. QED
      BY <2>1, <2>2, <2>3, <2>4, <2>5
  <1>15. ASSUME NEW r \in Requests, UpdateFindsUid(r)
        PROVE  IInv'
    <2>1. TypeOK'
      <3>1. HandlesUpdate(r)
        BY <1>15 DEF UpdateFindsUid
      <3>2. req[r].token \in Requests
        BY <3>1 DEF HandlesUpdate, RequestsOK, FieldKinds
      <3>3. auth[req[r].token] \in Nat
        BY <1>15, <3>2 DEF UpdateFindsUid
      <3>4. req' \in [Requests -> ReqType]
        BY <1>15, <3>3, UidType DEF UpdateFindsUid, ReqPc
      <3>5. QED
        BY <1>15, <3>4 DEF UpdateFindsUid
    <2>2. RequestsOK'
      BY <1>15 DEF UpdateFindsUid, HandlesUpdate, RequestsOK, Credentials,
         FieldKinds, ReqType, Kinds
    <2>3. LoginsOK'
      BY <1>15 DEF UpdateFindsUid, HandlesUpdate, LoginsOK, RequestsOK, ReqType
    <2>4. UpdatesOK'
      BY <1>15 DEF UpdateFindsUid, HandlesUpdate, UpdatesOK, RequestsOK, KeysOK,
         FieldKinds, ReqType
    <2>5. KeysOK'
      BY <1>15 DEF UpdateFindsUid, HandlesUpdate, KeysOK, RequestsOK,
         Credentials, FieldKinds, ReqType
    <2>6. QED
      BY <2>1, <2>2, <2>3, <2>4, <2>5
  <1>16. ASSUME NEW r \in Requests, UpdateRefuses(r)
        PROVE  IInv'
    <2>1. TypeOK'
      BY <1>16, GotoType DEF UpdateRefuses, ReqPc
    <2>2. RequestsOK'
      BY <1>16 DEF UpdateRefuses, HandlesUpdate, RequestsOK, Credentials,
         FieldKinds, ReqType, Kinds
    <2>3. LoginsOK'
      BY <1>16 DEF UpdateRefuses, HandlesUpdate, LoginsOK, RequestsOK, ReqType
    <2>4. UpdatesOK'
      BY <1>16 DEF UpdateRefuses, HandlesUpdate, UpdatesOK, RequestsOK, KeysOK,
         FieldKinds, ReqType
    <2>5. KeysOK'
      BY <1>16 DEF UpdateRefuses, HandlesUpdate, KeysOK, RequestsOK,
         Credentials, FieldKinds, ReqType
    <2>6. QED
      BY <2>1, <2>2, <2>3, <2>4, <2>5
  <1>17. ASSUME NEW r \in Requests, UpdateFindsNothing(r)
        PROVE  IInv'
    <2>1. TypeOK'
      BY <1>17, UidType DEF UpdateFindsNothing, ReqPc
    <2>2. RequestsOK'
      BY <1>17 DEF UpdateFindsNothing, HandlesUpdate, RequestsOK, Credentials,
         FieldKinds, ReqType, Kinds
    <2>3. LoginsOK'
      BY <1>17 DEF UpdateFindsNothing, HandlesUpdate, LoginsOK, RequestsOK, ReqType
    <2>4. UpdatesOK'
      BY <1>17 DEF UpdateFindsNothing, HandlesUpdate, UpdatesOK, RequestsOK,
         KeysOK, FieldKinds, ReqType
    <2>5. KeysOK'
      BY <1>17 DEF UpdateFindsNothing, HandlesUpdate, KeysOK, RequestsOK,
         Credentials, FieldKinds, ReqType
    <2>6. QED
      BY <2>1, <2>2, <2>3, <2>4, <2>5
  <1>18. ASSUME NEW r \in Requests, Updates(r)
        PROVE  IInv'
    <2>1. TypeOK'
      <3>1. req' \in [Requests -> ReqType]
        BY <1>18, GotoType DEF Updates, ReqPc
      <3>2. users' \in Seq(Row) /\ UniqueNames(users')
        BY <1>18, UpdatedRows DEF Updates, UniqueNames
      <3>3. QED
        BY <1>18, <3>1, <3>2 DEF Updates
    <2>2. RequestsOK'
      BY <1>18 DEF Updates, Updated, RequestsOK, Credentials, FieldKinds,
         ReqType, Kinds
    <2>3. LoginsOK'
      BY <1>18, UpdatedRows DEF Updates, LoginsOK, RequestsOK, ReqType
    <2>4. UpdatesOK'
      BY <1>18 DEF Updates, Updated, UpdatesOK, RequestsOK, KeysOK, FieldKinds,
         ReqType
    <2>5. KeysOK'
      BY <1>18 DEF Updates, KeysOK, RequestsOK, Credentials, FieldKinds, ReqType
    <2>6. QED
      BY <2>1, <2>2, <2>3, <2>4, <2>5
  <1>19. ASSUME NEW r \in Requests, UpdateFails(r)
        PROVE  IInv'
    <2>1. TypeOK'
      <3>1. req' \in [Requests -> ReqType]
        BY <1>19, GotoType DEF UpdateFails, ReqPc
      <3>2. users' \in Seq(Row) /\ UniqueNames(users')
        BY <1>19, UpdatedRows DEF UpdateFails, UniqueNames
      <3>3. QED
        BY <1>19, <3>1, <3>2 DEF UpdateFails
    <2>2. RequestsOK'
      BY <1>19 DEF UpdateFails, Updated, RequestsOK, Credentials, FieldKinds,
         ReqType, Kinds
    <2>3. LoginsOK'
      BY <1>19, UpdatedRows DEF UpdateFails, LoginsOK, RequestsOK, ReqType
    <2>4. UpdatesOK'
      BY <1>19 DEF UpdateFails, Updated, UpdatesOK, RequestsOK, KeysOK,
         FieldKinds, ReqType
    <2>5. KeysOK'
      BY <1>19 DEF UpdateFails, KeysOK, RequestsOK, Credentials, FieldKinds, ReqType
    <2>6. QED
      BY <2>1, <2>2, <2>3, <2>4, <2>5
  <1>20. ASSUME NEW r \in Requests, ServeHTTP(r)
        PROVE  IInv'
    <2>1. TypeOK'
      BY <1>20 DEF ServeHTTP, ReqType, ReqPc
    <2>2. RequestsOK'
      BY <1>20 DEF ServeHTTP, RequestsOK, Credentials, FieldKinds, ReqType, Kinds
    <2>3. LoginsOK'
      BY <1>20 DEF ServeHTTP, LoginsOK, RequestsOK, ReqType
    <2>4. UpdatesOK'
      BY <1>20 DEF ServeHTTP, UpdatesOK, RequestsOK, KeysOK, FieldKinds, ReqType
    <2>5. KeysOK'
      BY <1>20 DEF ServeHTTP, KeysOK, RequestsOK, Credentials, FieldKinds, ReqType
    <2>6. QED
      BY <2>1, <2>2, <2>3, <2>4, <2>5
  <1>21. CASE UNCHANGED vars
    BY <1>21 DEF vars, UniqueNames, RequestsOK, LoginsOK, UpdatesOK, KeysOK
  <1>22. QED
    BY <1>1, <1>2, <1>3, <1>4, <1>5, <1>6, <1>7, <1>8, <1>9, <1>10, <1>11, <1>12,
       <1>13, <1>14, <1>15, <1>16, <1>17, <1>18, <1>19, <1>20, <1>21
       DEF Next, Client, Register, SaveToken, Update

\* IInv is an invariant.
THEOREM Invariance == Spec => []IInv
PROOF
  <1>1. QED
    BY InitIInv, NextIInv, PTL DEF Spec

\* For any number of requests and accounts, every variable keeps its shape and
\* no two rows have the same name.
THEOREM TypeCorrect == Spec => []TypeOK
PROOF
  <1>1. IInv => TypeOK
    BY DEF IInv
  <1>2. QED
    BY <1>1, Invariance, PTL

\* The token of a login stands for the account of that login: the first write
\* of the key, by the request that has read the row, is its last.
THEOREM LoginTokenHolds == Spec => []LoginTokenIsOwn
PROOF
  <1>1. IInv => LoginTokenIsOwn
    BY DEF IInv, KeysOK, LoginsOK, LoginTokenIsOwn, Given
  <1>2. QED
    BY <1>1, Invariance, PTL

\* Only the last statement of an update changes a row, and the row is the one
\* of its token.
LEMMA RowsStay ==
  ASSUME IInv, [Next]_vars, NEW u \in DOMAIN users, users'[u] # users[u]
  PROVE  \E r \in Requests : /\ req[r].pc = "update"
                              /\ req'[r].pc # "update"
                              /\ u = req[r].uid
PROOF
  <1> USE DEF IInv
  <1>1. CASE UNCHANGED users
    BY <1>1
  <1>2. CASE \E r \in Requests : RegisterAnswerLost(r) \/ \E d \in DbConns :
             RegisterInserts(r, d)
    BY <1>2, NewRowLast DEF RegisterAnswerLost, RegisterInserts
  <1>3. CASE \E r \in Requests : Updates(r) \/ UpdateFails(r)
    <2>1. PICK r \in Requests : Updates(r) \/ UpdateFails(r)
      BY <1>3
    <2>2. req[r].pc = "update" /\ users' = Updated(r)
      BY <2>1 DEF Updates, UpdateFails
    <2>3. u = req[r].uid
      BY <2>2 DEF Updated
    <2>4. req'[r].pc # "update"
      BY <2>1 DEF Updates, UpdateFails, Goto, TypeOK, ReqType
    <2>5. QED
      BY <2>2, <2>3, <2>4
  <1>4. QED
    BY <1>1, <1>2, <1>3 DEF Next, vars, Client, Register, SaveToken, Update,
       SendCredentials, SendUpdate, RegisterFails, ReadsLastInsertId, ReadsNoId,
       LoginFinds, LoginRefuses, SavesToken, SavesAuth, SaveFails,
       SaveAnswerLost, Expires, UpdateFindsUid, UpdateRefuses,
       UpdateFindsNothing, ServeHTTP

\* For any number of requests and accounts, an account is changed only by one
\* who has logged in to it, or with the token of a registration.
THEOREM OwnersChange == Spec => ChangedByItsOwner
PROOF
  <1>1. ASSUME IInv, [Next]_vars, NEW u \in DOMAIN users, users'[u] # users[u]
        PROVE  \E r \in Requests :
                 /\ req[r].pc = "update"
                 /\ req'[r].pc # "update"
                 /\ \/ Owns(req[r].token, u)
                    \/ req[req[r].token].kind = "register"
    <2>1. PICK r \in Requests : /\ req[r].pc = "update"
                                /\ req'[r].pc # "update"
                                /\ u = req[r].uid
      BY <1>1, RowsStay
    <2>2. u # 0
      BY <1>1, RowNumbers DEF IInv
    <2>3. u = req[req[r].token].uid
      BY <1>1, <2>1, <2>2 DEF IInv, UpdatesOK
    <2>4. req[r].token \in Requests /\ Given(req[r].token)
      BY <1>1, <2>1 DEF IInv, RequestsOK
    <2>5. req[req[r].token].uid # None
      BY <1>1, <2>4 DEF IInv, RequestsOK
    <2>6. req[req[r].token].kind = "login" => Owns(req[r].token, u)
      BY <1>1, <2>3, <2>4, <2>5 DEF IInv, LoginsOK
    <2>7. QED
      BY <2>1, <2>4, <2>6 DEF Given
  <1>2. IInv /\ [Next]_vars =>
          [\A u \in DOMAIN users : users'[u] # users[u] =>
             \E r \in Requests :
               /\ req[r].pc = "update"
               /\ req'[r].pc # "update"
               /\ \/ Owns(req[r].token, u)
                  \/ req[req[r].token].kind = "register"]_vars
    BY <1>1
  <1>3. QED
    BY <1>2, Invariance, PTL DEF Spec, ChangedByItsOwner
=============================================================================
