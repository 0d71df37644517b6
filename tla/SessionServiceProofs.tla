------------------------- MODULE SessionServiceProofs -------------------------
(* What holds of SessionService for any number of requests, users, sessions and *)
(* refresh tokens, whatever the operations and failures allowed.                *)
EXTENDS SessionService, TLAPS

(* Where each operation can be in its handler, and what it has in hand there.   *)
Control(r) ==
  /\ At(r, "idle") => req[r] = NoReq /\ txn[r] = NoTxn
  /\ ~At(r, "idle") => Sid(r) \in Sids
  /\ pc[r] \in {"check", "load", "expire", "expire_flag", "flush_touch", "body"} =>
       req[r].op \in AuthOps
  /\ pc[r] \in {"verify", "burn", "reload"} => req[r].op \in RefreshOps
  /\ pc[r] \in {"flush_bind", "replay", "replay_commit", "replayed"} => req[r].op = "refresh"
  /\ req[r].op = "login" => pc[r] \in {"respond", "commit"}
  /\ req[r].op = "revoke_session" => req[r].target \in Sids
  /\ req[r].op = "refresh" => req[r].new \in Jtis
  /\ req[r].op \in RefreshOps => req[r].tok \in Jtis
  /\ IF pc[r] \in {"flush_end", "flag"} THEN txn[r].cur \in Sids ELSE txn[r].cur = NoSid
  /\ pc[r] \notin {"blacklist", "flush_end", "flag"} => txn[r].todo = {}

ControlOK == \A r \in Requests : Control(r)

(* A row that is there has a refresh token id, and a request only revokes rows  *)
(* that are there; a login's row is not.                                        *)
Present(s) == db[s].status # "absent"
Rows(r) ==
  /\ pc[r] \in {"expire", "flush_touch", "body"} => Present(Sid(r))
  /\ \A row \in txn[r].todo : Present(row.sid) /\ row.jti \in Jtis
  /\ pc[r] \in {"flush_end", "flag"} => Present(txn[r].cur)
  /\ \A s \in txn[r].ends : Present(s)
  /\ req[r].op = "login" => ~Present(Sid(r)) /\ txn[r].bound \in Jtis /\ txn[r].ends = {}
RowsOK ==
  /\ \A s \in Sids : Present(s) => db[s].jti \in Jtis
  /\ \A r \in Requests : Rows(r)

(* A token id is minted once, for the request that reserved it, and a session   *)
(* id is drawn once: no two logins insert the same row.                         *)
Minted(j, s) == token[j].sid = s
Mint(r) ==
  /\ req[r].op = "login" => req[r].new \in Jtis /\ Minted(req[r].new, Sid(r))
  /\ pc[r] \in {"verify", "burn"} /\ req[r].op = "refresh" => Minted(req[r].new, NoSid)
  /\ pc[r] \in {"reload", "flush_bind"} /\ req[r].op = "refresh" => Minted(req[r].new, Sid(r))
  /\ txn[r].bound # NoJti => txn[r].bound = req[r].new /\ Minted(req[r].new, Sid(r))
Distinct(r, q) ==
  /\ req[r].new # NoJti => req[q].new # req[r].new
  /\ req[r].op = "login" /\ req[q].op = "login" => Sid(q) # Sid(r)
TokensOK ==
  /\ \A j \in held : token[j].sid \in Sids
  /\ \A s \in Sids : Present(s) => \E j \in Jtis : Minted(j, s)
  /\ \A r \in Requests : Mint(r)
  /\ \A r, q \in Requests : r # q => Distinct(r, q)

Base == TypeOK /\ ControlOK /\ RowsOK /\ TokensOK

-------------------------------------------------------------------------------
(* The rows LoadRows returns: those of S, with the refresh token id that the    *)
(* request has loaded or that is stored.                                        *)
LEMMA LoadRowsType ==
  ASSUME TypeOK, NEW r \in Requests, NEW S \in SUBSET Sids
  PROVE  LoadRows(r, S) \in SUBSET Loaded
  BY DEF LoadRows, TypeOK, Row, Transaction, Loaded

(* A request that is over is idle with nothing in hand.                         *)
LEMMA FinishControl ==
  ASSUME Base, NEW r \in Requests, NEW q \in Requests, Finish(r)
  PROVE  Control(q)'
<1>1. pc' = [pc EXCEPT ![r] = "idle"] /\ req' = [req EXCEPT ![r] = NoReq]
        /\ txn' = [txn EXCEPT ![r] = NoTxn]
  BY DEF Finish, Goto
<1>2. CASE q = r
  BY <1>1, <1>2 DEF Base, TypeOK, Control, At, NoReq, NoTxn, AuthOps, RefreshOps
<1>3. CASE q # r
  BY <1>1, <1>3 DEF Base, ControlOK, TypeOK, Control, At, Sid
<1>. QED
  BY <1>2, <1>3

(* A handler that has found the sessions to revoke has their rows in hand.      *)
LEMMA RevokingControl ==
  ASSUME Base, NEW r \in Requests, NEW q \in Requests, NEW S \in SUBSET Sids,
         pc[r] \in {"body", "reload", "replay"}, Revoking(r, S)
  PROVE  Control(q)'
<1>1. pc' = [pc EXCEPT ![r] = IF S = {} THEN "respond" ELSE "blacklist"] /\ req' = req
        /\ txn' = [txn EXCEPT ![r].todo = LoadRows(r, S), ![r].own = NoJti]
  BY DEF Revoking, Goto
<1>2. S = {} => LoadRows(r, S) = {}
  BY DEF LoadRows
<1>3. CASE q = r
  BY <1>1, <1>2, <1>3 DEF Base, ControlOK, TypeOK, Control, At, Sid, Transaction
<1>4. CASE q # r
  BY <1>1, <1>4 DEF Base, ControlOK, TypeOK, Control, At, Sid
<1>. QED
  BY <1>3, <1>4

(* Every step leaves a request where its operation can be.                      *)
LEMMA ControlStep ==
  ASSUME Base, [Next]_vars
  PROVE  ControlOK'
<1>. SUFFICES ASSUME NEW q \in Requests PROVE Control(q)'
  BY DEF ControlOK
<1>1. ASSUME NEW r \in Requests, Login(r) PROVE Control(q)'
  <2>1. PICK s \in Sids, j \in Jtis :
          /\ req' = [req EXCEPT ![r] = [NoReq EXCEPT !.op = "login", !.sid = s, !.new = j]]
          /\ txn' = [txn EXCEPT ![r].bound = j]
    BY <1>1 DEF Login, FreshSids, FreshJtis
  <2>2. pc[r] = "idle" /\ pc' = [pc EXCEPT ![r] = "respond"]
    BY <1>1 DEF Login, At, Goto
  <2>3. CASE q = r
    BY <2>1, <2>2, <2>3 DEF Base, ControlOK, Control, TypeOK, At, Sid, NoReq, NoTxn, Transaction, AuthOps, RefreshOps
  <2>4. CASE q # r
    BY <2>1, <2>2, <2>4 DEF Base, ControlOK, Control, TypeOK, At, Sid
  <2>. QED
    BY <2>3, <2>4
<1>2. ASSUME NEW r \in Requests, BeginAuth(r) PROVE Control(q)'
  BY <1>2 DEF BeginAuth, Base, ControlOK, Control, TypeOK, At, Goto, Sid, clients, redis, NoReq, NoTxn, TokensOK, Token, AuthOps, RefreshOps, SinceNow
<1>3. ASSUME NEW r \in Requests, BeginRefresh(r) PROVE Control(q)'
  BY <1>3 DEF BeginRefresh, Base, ControlOK, Control, TypeOK, At, Goto, Sid, clients, redis, NoReq, NoTxn, TokensOK, Token, AuthOps, RefreshOps, SinceNow, FreshJtis
<1>4. ASSUME NEW r \in Requests, CheckFlag(r) PROVE Control(q)'
  <2>1. CASE Sid(r) \in revoked
    BY <1>4, <2>1, FinishControl DEF CheckFlag, Reject
  <2>2. CASE Sid(r) \notin revoked
    BY <1>4, <2>2 DEF CheckFlag, Base, ControlOK, Control, TypeOK, At, Goto, Sid
  <2>. QED
    BY <2>1, <2>2
<1>5. ASSUME NEW r \in Requests, Load(r) PROVE Control(q)'
  <2>1. CASE Active(Sid(r))
    BY <1>5, <2>1 DEF Load, Base, ControlOK, Control, TypeOK, At, Goto, Sid, Transaction
  <2>2. CASE ~Active(Sid(r))
    BY <1>5, <2>2, FinishControl DEF Load, Reject
  <2>. QED
    BY <2>1, <2>2
<1>6. ASSUME NEW r \in Requests, Expire(r) PROVE Control(q)'
  BY <1>6 DEF Expire, Base, ControlOK, Control, TypeOK, At, Goto, Sid, clients, redis
<1>7. ASSUME NEW r \in Requests, ExpireFlag(r) PROVE Control(q)'
  BY <1>7, FinishControl DEF ExpireFlag
<1>8. ASSUME NEW r \in Requests, FlushTouch(r) PROVE Control(q)'
  BY <1>8 DEF FlushTouch, Base, ControlOK, Control, TypeOK, At, Goto, Sid, clients, redis
<1>9. ASSUME NEW r \in Requests, Body(r) PROVE Control(q)'
  <2>1. pc[r] = "body" /\ req[r].op \in AuthOps /\ Sid(r) \in Sids
    BY <1>9 DEF Body, Base, ControlOK, Control, At
  <2>2. ASSUME NEW S \in SUBSET Sids, Revoking(r, S) PROVE Control(q)'
    BY <2>1, <2>2, RevokingControl
  <2>3. ASSUME Reject(r) PROVE Control(q)'
    BY <2>3, FinishControl DEF Reject
  <2>4. CASE req[r].op = "revoke_session"
    <3>1. req[r].target \in Sids
      BY <2>4 DEF Base, ControlOK, Control
    <3>2. \/ Reject(r)
          \/ \E S \in SUBSET Sids : Revoking(r, S)
      BY <1>9, <2>4, <3>1 DEF Body, RevokeByUuid
    <3>. QED
      BY <2>2, <2>3, <3>2
  <2>5. CASE req[r].op # "revoke_session"
    <3>1. \E S \in SUBSET Sids : Revoking(r, S)
      BY <1>9, <2>1, <2>5 DEF Body, AuthOps, ListActive, UserSids
    <3>. QED
      BY <2>2, <3>1
  <2>. QED
    BY <2>4, <2>5
<1>10. ASSUME NEW r \in Requests, Blacklist(r) PROVE Control(q)'
  <2>1. PICK row \in txn[r].todo : txn' = [txn EXCEPT ![r].todo = @ \ {row}, ![r].cur = row.sid]
    BY <1>10 DEF Blacklist
  <2>2. row.sid \in Sids
    BY DEF Base, TypeOK, Transaction, Loaded
  <2>3. pc[r] = "blacklist" /\ pc' = [pc EXCEPT ![r] = "flush_end"] /\ req' = req
    BY <1>10 DEF Blacklist, At, Goto
  <2>. QED
    BY <2>1, <2>2, <2>3 DEF Base, ControlOK, Control, TypeOK, At, Sid, Transaction
<1>11. ASSUME NEW r \in Requests, FlushEnd(r) PROVE Control(q)'
  BY <1>11 DEF FlushEnd, Base, ControlOK, Control, TypeOK, At, Goto, Sid, clients, redis, Transaction
<1>12. ASSUME NEW r \in Requests, Flag(r) PROVE Control(q)'
  BY <1>12 DEF Flag, Base, ControlOK, Control, TypeOK, At, Goto, Sid, clients, redis, AfterRevoke, Transaction, AuthOps, RefreshOps
<1>13. ASSUME NEW r \in Requests, VerifyRefresh(r) PROVE Control(q)'
  BY <1>13 DEF VerifyRefresh, Base, ControlOK, Control, TypeOK, At, Goto, Sid, clients, redis, RefreshOps
<1>14. ASSUME NEW r \in Requests, Burn(r) PROVE Control(q)'
  BY <1>14 DEF Burn, Base, ControlOK, Control, TypeOK, At, Goto, Sid, clients, redis
<1>15. ASSUME NEW r \in Requests, Reload(r) PROVE Control(q)'
  <2>1. pc[r] = "reload" /\ req[r].op \in RefreshOps
    BY <1>15 DEF Reload, Base, ControlOK, Control, At
  <2>2. CASE req[r].op = "logout"
    BY <1>15, <2>1, <2>2, RevokingControl DEF Reload
  <2>3. CASE req[r].op = "refresh" /\ Active(Sid(r))
    BY <1>15, <2>1, <2>3 DEF Reload, Base, ControlOK, Control, TypeOK, At, Goto, Sid
  <2>4. CASE req[r].op = "refresh" /\ ~Active(Sid(r))
    BY <1>15, <2>4, FinishControl DEF Reload, Reject
  <2>. QED
    BY <2>1, <2>2, <2>3, <2>4 DEF RefreshOps
<1>16. ASSUME NEW r \in Requests, FlushBind(r) PROVE Control(q)'
  BY <1>16 DEF FlushBind, Base, ControlOK, Control, TypeOK, At, Goto, Sid, clients, redis, Transaction
<1>17. ASSUME NEW r \in Requests, Replay(r) PROVE Control(q)'
  <2>1. CASE Active(Sid(r))
    <3>1. pc[r] = "replay" /\ Sid(r) \in Sids /\ Revoking(r, {Sid(r)})
      BY <1>17, <2>1 DEF Replay, Base, ControlOK, Control, At
    <3>. QED
      BY <3>1, RevokingControl
  <2>2. CASE ~Active(Sid(r))
    BY <1>17, <2>2 DEF Replay, Base, ControlOK, Control, TypeOK, At, Goto, Sid
  <2>. QED
    BY <2>1, <2>2
<1>18. ASSUME NEW r \in Requests, ReplayCommit(r) PROVE Control(q)'
  BY <1>18 DEF ReplayCommit, Base, ControlOK, Control, TypeOK, At, Goto, Sid, clients, redis
<1>19. ASSUME NEW r \in Requests, Replayed(r) PROVE Control(q)'
  BY <1>19, FinishControl DEF Replayed, Reject
<1>20. ASSUME NEW r \in Requests, Respond(r) PROVE Control(q)'
  BY <1>20 DEF Respond, Base, ControlOK, Control, TypeOK, At, Goto, Sid, clients, redis
<1>21. ASSUME NEW r \in Requests, Commit(r) PROVE Control(q)'
  BY <1>21, FinishControl DEF Commit
<1>22. ASSUME NEW r \in Requests, Abort(r) PROVE Control(q)'
  BY <1>22, FinishControl DEF Abort, Reject
<1>23. ASSUME NEW r \in Requests, DeadlockVictim(r) PROVE Control(q)'
  BY <1>23, FinishControl DEF DeadlockVictim, Reject
<1>24. CASE RedisRestart
  BY <1>24 DEF RedisRestart, Base, ControlOK, Control, TypeOK, At, Goto, Sid, clients, redis
<1>25. CASE UNCHANGED vars
  BY <1>25 DEF vars, Base, ControlOK, Control, TypeOK, At, Goto, Sid, clients, redis
<1>. QED
  BY <1>1, <1>2, <1>3, <1>4, <1>5, <1>6, <1>7, <1>8, <1>9, <1>10, <1>11, <1>12, <1>13, <1>14, <1>15, <1>16, <1>17, <1>18, <1>19, <1>20, <1>21, <1>22, <1>23, <1>24, <1>25 DEF Next, Begin, Step

(* What a request is left with, and what it can load, has its type.             *)
LEMMA FinishType ==
  ASSUME Base, NEW r \in Requests, Finish(r)
  PROVE  /\ lock' \in [Sids -> Requests \cup {NoRequest}] /\ pc' \in [Requests -> Steps]
         /\ req' \in [Requests -> Request] /\ txn' \in [Requests -> Transaction]
<1>1. NoReq \in Request /\ NoTxn \in Transaction
  BY DEF NoReq, Request, Ops, AuthOps, Since, NoTxn, Transaction
<1>. QED
  BY <1>1 DEF Finish, Goto, Unlock, Base, TypeOK, Steps

(* Rolling a request back keeps the types. *)
LEMMA RejectType ==
  ASSUME Base, NEW r \in Requests, Reject(r)
  PROVE  TypeOK'
  BY FinishType DEF Reject, Base, TypeOK, clients, redis

(* So does finding the sessions to revoke. *)
LEMMA RevokingType ==
  ASSUME Base, NEW r \in Requests, NEW S \in SUBSET Sids, Revoking(r, S)
  PROVE  TypeOK'
<1>1. LoadRows(r, S) \in SUBSET Loaded
  BY LoadRowsType DEF Base
<1>2. txn' \in [Requests -> Transaction]
  <2>1. txn[r] \in Transaction /\ txn \in [Requests -> Transaction]
    BY DEF Base, TypeOK
  <2>2. [txn[r] EXCEPT !.todo = LoadRows(r, S), !.own = NoJti] \in Transaction
    BY <1>1, <2>1 DEF Transaction
  <2>3. txn' = [txn EXCEPT ![r] = [txn[r] EXCEPT !.todo = LoadRows(r, S), !.own = NoJti]]
    BY <2>1 DEF Revoking
  <2>. QED
    BY <2>1, <2>2, <2>3
<1>3. pc' \in [Requests -> Steps]
  BY DEF Revoking, Goto, Base, TypeOK, Steps
<1>. QED
  BY <1>2, <1>3 DEF Revoking, Base, TypeOK, clients, redis

(* The rows a commit leaves have their type.                                    *)
LEMMA ApplyType ==
  ASSUME Base, NEW r \in Requests
  PROVE  Apply(r) \in [Sids -> Row]
  BY DEF Apply, Base, TypeOK, Row, Transaction

(* What a request records on arrival is a Since record. *)
LEMMA SinceType ==
  ASSUME Base, NEW op, NEW s \in Sids, NEW tok
  PROVE  SinceNow(op, s, tok) \in Since
<1>1. db[s].status \in {"absent", "active", "ended"}
  BY DEF Base, TypeOK, Row
<1>2. (\E j \in Jtis : tok # NoJti /\ token[j].parent = tok) \in BOOLEAN
  OBVIOUS
<1>3. {t \in UserSids(Owner[s]) : op = "logout_all" /\ Active(t)} \in SUBSET Sids
  BY DEF UserSids
<1>4. (op \in AuthOps /\ s \in acked) \in BOOLEAN
  OBVIOUS
<1>. QED
  BY <1>1, <1>2, <1>3, <1>4 DEF SinceNow, Since

(* Every step keeps the types.                                                 *)
LEMMA TypeStep ==
  ASSUME Base, [Next]_vars
  PROVE  TypeOK'
<1>1. ASSUME NEW r \in Requests, Login(r) PROVE TypeOK'
  <2>1. PICK s \in Sids, j \in Jtis :
          /\ token' = [token EXCEPT ![j] = [sid |-> s, parent |-> NoJti]]
          /\ req' = [req EXCEPT ![r] = [NoReq EXCEPT !.op = "login", !.sid = s, !.new = j]]
          /\ txn' = [txn EXCEPT ![r].bound = j]
    BY <1>1 DEF Login, FreshSids, FreshJtis
  <2>2. token' \in [Jtis -> Token]
    BY <2>1 DEF Base, TypeOK, Token
  <2>3. req' \in [Requests -> Request]
    BY <2>1 DEF Base, TypeOK, Request, NoReq, Since, Ops
  <2>4. txn' \in [Requests -> Transaction]
    <3>1. txn[r] \in Transaction /\ txn \in [Requests -> Transaction]
      BY DEF Base, TypeOK
    <3>2. [txn[r] EXCEPT !.bound = j] \in Transaction
      BY <3>1 DEF Transaction
    <3>3. txn' = [txn EXCEPT ![r] = [txn[r] EXCEPT !.bound = j]]
      BY <2>1, <3>1
    <3>. QED
      BY <3>1, <3>2, <3>3
  <2>. QED
    BY <1>1, <2>2, <2>3, <2>4 DEF Login, Base, TypeOK, Goto, redis, Steps
<1>2. ASSUME NEW r \in Requests, BeginAuth(r) PROVE TypeOK'
  <2>1. PICK j \in held, op \in AuthOps \cap ClientOps, x \in Sids \cup {NoSid} :
          req' = [req EXCEPT ![r] = [NoReq EXCEPT !.op = op, !.sid = token[j].sid,
                    !.target = x, !.since = SinceNow(op, token[j].sid, NoJti)]]
    BY <1>2 DEF BeginAuth
  <2>2. token[j].sid \in Sids
    BY DEF Base, TokensOK
  <2>3. SinceNow(op, token[j].sid, NoJti) \in Since
    BY <2>2, SinceType
  <2>4. req' \in [Requests -> Request]
    BY <2>1, <2>2, <2>3 DEF Base, TypeOK, Request, NoReq, Ops
  <2>. QED
    BY <1>2, <2>4 DEF BeginAuth, Base, TypeOK, Goto, clients, redis, Steps
<1>3. ASSUME NEW r \in Requests, BeginRefresh(r) PROVE TypeOK'
  <2>1. PICK j \in held, op \in RefreshOps \cap ClientOps, k \in FreshJtis \cup {NoJti} :
          req' = [req EXCEPT ![r] = [NoReq EXCEPT !.op = op, !.sid = token[j].sid,
                    !.tok = j, !.new = k, !.since = SinceNow(op, token[j].sid, j)]]
    BY <1>3 DEF BeginRefresh
  <2>2. token[j].sid \in Sids /\ j \in Jtis /\ k \in Jtis \cup {NoJti}
    BY DEF Base, TokensOK, TypeOK, FreshJtis
  <2>3. SinceNow(op, token[j].sid, j) \in Since
    BY <2>2, SinceType
  <2>4. req' \in [Requests -> Request]
    BY <2>1, <2>2, <2>3 DEF Base, TypeOK, Request, NoReq, Ops
  <2>. QED
    BY <1>3, <2>4 DEF BeginRefresh, Base, TypeOK, Goto, clients, redis, Steps
<1>4. ASSUME NEW r \in Requests, CheckFlag(r) PROVE TypeOK'
  BY <1>4, RejectType DEF CheckFlag, Base, TypeOK, Goto, clients, redis, Steps
<1>5. ASSUME NEW r \in Requests, Load(r) PROVE TypeOK'
  <2>1. CASE Active(Sid(r))
    <3>1. Sid(r) \in Sids
      BY <1>5 DEF Load, Base, ControlOK, Control, At
    <3>2. db[Sid(r)].jti \in Jtis \cup {NoJti}
      BY <3>1 DEF Base, TypeOK, Row
    <3>3. txn' = [txn EXCEPT ![r].own = db[Sid(r)].jti]
      BY <1>5, <2>1 DEF Load
    <3>4. txn' \in [Requests -> Transaction]
      <4>1. txn[r] \in Transaction /\ txn \in [Requests -> Transaction]
        BY DEF Base, TypeOK
      <4>2. [txn[r] EXCEPT !.own = db[Sid(r)].jti] \in Transaction
        BY <3>2, <4>1 DEF Transaction
      <4>. QED
        BY <3>3, <4>1, <4>2
    <3>. QED
      BY <1>5, <2>1, <3>4 DEF Load, Base, TypeOK, Goto, clients, redis, Steps
  <2>2. CASE ~Active(Sid(r))
    BY <1>5, <2>2, RejectType DEF Load
  <2>. QED
    BY <2>1, <2>2
<1>6. ASSUME NEW r \in Requests, Expire(r) PROVE TypeOK'
  BY <1>6 DEF Expire, Row, Base, TypeOK, Goto, clients, redis, Steps
<1>7. ASSUME NEW r \in Requests, ExpireFlag(r) PROVE TypeOK'
  <2>1. Sid(r) \in Sids
    BY <1>7 DEF ExpireFlag, Base, ControlOK, Control, At
  <2>. QED
    BY <1>7, <2>1, FinishType DEF ExpireFlag, Base, TypeOK, clients
<1>8. ASSUME NEW r \in Requests, FlushTouch(r) PROVE TypeOK'
  BY <1>8 DEF FlushTouch, LockRow, Base, TypeOK, Goto, clients, redis, Steps
<1>9. ASSUME NEW r \in Requests, Body(r) PROVE TypeOK'
  <2>1. pc[r] = "body" /\ req[r].op \in AuthOps /\ Sid(r) \in Sids
    BY <1>9 DEF Body, Base, ControlOK, Control, At
  <2>2. CASE req[r].op = "revoke_session"
    <3>1. req[r].target \in Sids
      BY <2>2 DEF Base, ControlOK, Control
    <3>2. \/ Reject(r)
          \/ \E S \in SUBSET Sids : Revoking(r, S)
      BY <1>9, <2>2, <3>1 DEF Body, RevokeByUuid
    <3>. QED
      BY <3>2, RejectType, RevokingType
  <2>3. CASE req[r].op # "revoke_session"
    <3>1. \E S \in SUBSET Sids : Revoking(r, S)
      BY <1>9, <2>1, <2>3 DEF Body, AuthOps, ListActive, UserSids
    <3>. QED
      BY <3>1, RevokingType
  <2>. QED
    BY <2>2, <2>3
<1>10. ASSUME NEW r \in Requests, Blacklist(r) PROVE TypeOK'
  <2>1. PICK row \in txn[r].todo :
          /\ blacklist' = blacklist \cup {row.jti}
          /\ txn' = [txn EXCEPT ![r].todo = @ \ {row}, ![r].cur = row.sid]
    BY <1>10 DEF Blacklist
  <2>2. row.sid \in Sids /\ row.jti \in Jtis
    BY DEF Base, TypeOK, Transaction, Loaded, RowsOK, Rows
  <2>3. txn' \in [Requests -> Transaction]
    <3>. DEFINE after == [txn[r] EXCEPT !.todo = @ \ {row}, !.cur = row.sid]
    <3>1. txn[r] \in Transaction /\ txn \in [Requests -> Transaction]
      BY DEF Base, TypeOK
    <3>2. after \in Transaction
      BY <2>2, <3>1 DEF Transaction
    <3>3. txn' = [txn EXCEPT ![r] = after]
      BY <2>1, <3>1
    <3>. QED
      BY <3>1, <3>2, <3>3
  <2>. QED
    BY <1>10, <2>1, <2>2, <2>3 DEF Blacklist, Base, TypeOK, Goto, clients, Steps
<1>11. ASSUME NEW r \in Requests, FlushEnd(r) PROVE TypeOK'
  <2>1. txn[r].cur \in Sids
    BY <1>11 DEF FlushEnd, Base, ControlOK, Control, At
  <2>2. txn' \in [Requests -> Transaction]
    <3>. DEFINE after == [txn[r] EXCEPT !.ends = @ \cup {txn[r].cur}]
    <3>1. txn[r] \in Transaction /\ txn \in [Requests -> Transaction]
      BY DEF Base, TypeOK
    <3>2. after \in Transaction
      BY <2>1, <3>1 DEF Transaction
    <3>3. txn' = [txn EXCEPT ![r] = after]
      BY <1>11, <3>1 DEF FlushEnd
    <3>. QED
      BY <3>1, <3>2, <3>3
  <2>. QED
    BY <1>11, <2>1, <2>2 DEF FlushEnd, LockRow, Base, TypeOK, Goto, clients, redis, Steps
<1>12. ASSUME NEW r \in Requests, Flag(r) PROVE TypeOK'
  <2>1. txn[r].cur \in Sids
    BY <1>12 DEF Flag, Base, ControlOK, Control, At
  <2>2. txn' \in [Requests -> Transaction]
    <3>1. txn[r] \in Transaction /\ txn \in [Requests -> Transaction]
      BY DEF Base, TypeOK
    <3>2. [txn[r] EXCEPT !.cur = NoSid] \in Transaction
      BY <3>1 DEF Transaction
    <3>3. txn' = [txn EXCEPT ![r] = [txn[r] EXCEPT !.cur = NoSid]]
      BY <1>12, <3>1 DEF Flag
    <3>. QED
      BY <3>1, <3>2, <3>3
  <2>. QED
    BY <1>12, <2>1, <2>2 DEF Flag, AfterRevoke, Base, TypeOK, Goto, clients, redis, Steps
<1>13. ASSUME NEW r \in Requests, VerifyRefresh(r) PROVE TypeOK'
  BY <1>13 DEF VerifyRefresh, Base, TypeOK, Goto, clients, redis, Steps
<1>14. ASSUME NEW r \in Requests, Burn(r) PROVE TypeOK'
  <2>1. req[r].tok \in Jtis /\ Sid(r) \in Sids
    BY <1>14 DEF Burn, Base, ControlOK, Control, At
  <2>2. token' \in [Jtis -> Token]
    BY <1>14, <2>1 DEF Burn, Base, TypeOK, Token
  <2>. QED
    BY <1>14, <2>1, <2>2 DEF Burn, Base, TypeOK, Goto, clients, redis, Steps
<1>15. ASSUME NEW r \in Requests, Reload(r) PROVE TypeOK'
  <2>1. CASE req[r].op = "logout"
    BY <1>15, <2>1, RevokingType DEF Reload
  <2>2. CASE req[r].op # "logout"
    BY <1>15, <2>2, RejectType DEF Reload, Base, TypeOK, Goto, clients, redis, Steps
  <2>. QED
    BY <2>1, <2>2
<1>16. ASSUME NEW r \in Requests, FlushBind(r) PROVE TypeOK'
  <2>1. txn' \in [Requests -> Transaction]
    <3>. DEFINE after == [txn[r] EXCEPT !.bound = req[r].new]
    <3>1. txn[r] \in Transaction /\ txn \in [Requests -> Transaction] /\ req[r] \in Request
      BY DEF Base, TypeOK
    <3>2. after \in Transaction
      BY <3>1 DEF Request, Transaction
    <3>3. txn' = [txn EXCEPT ![r] = after]
      BY <1>16, <3>1 DEF FlushBind
    <3>. QED
      BY <3>1, <3>2, <3>3
  <2>2. Sid(r) \in Sids
    BY <1>16 DEF FlushBind, Base, ControlOK, Control, At
  <2>. QED
    BY <1>16, <2>1, <2>2 DEF FlushBind, LockRow, Base, TypeOK, Goto, clients, redis, Steps
<1>17. ASSUME NEW r \in Requests, Replay(r) PROVE TypeOK'
  <2>1. Sid(r) \in Sids
    BY <1>17 DEF Replay, Base, ControlOK, Control, At
  <2>. QED
    BY <1>17, <2>1, RevokingType DEF Replay, Base, TypeOK, Goto, clients, redis, Steps
<1>18. ASSUME NEW r \in Requests, ReplayCommit(r) PROVE TypeOK'
  BY <1>18, ApplyType DEF ReplayCommit, Unlock, Base, TypeOK, Goto, clients, redis, Steps
<1>19. ASSUME NEW r \in Requests, Replayed(r) PROVE TypeOK'
  BY <1>19, RejectType DEF Replayed
<1>20. ASSUME NEW r \in Requests, Respond(r) PROVE TypeOK'
  <2>1. txn[r].ends \subseteq Sids /\ txn[r].bound \in Jtis \cup {NoJti}
    BY DEF Base, TypeOK, Transaction
  <2>. QED
    BY <1>20, <2>1 DEF Respond, Base, TypeOK, Goto, clients, redis, Steps
<1>21. ASSUME NEW r \in Requests, Commit(r) PROVE TypeOK'
  BY <1>21, ApplyType, FinishType DEF Commit, Base, TypeOK, clients, redis
<1>22. ASSUME NEW r \in Requests, Abort(r) PROVE TypeOK'
  BY <1>22, RejectType DEF Abort
<1>23. ASSUME NEW r \in Requests, DeadlockVictim(r) PROVE TypeOK'
  BY <1>23, RejectType DEF DeadlockVictim
<1>24. CASE RedisRestart
  BY <1>24 DEF RedisRestart, Base, TypeOK, Goto, clients, redis, Steps
<1>25. CASE UNCHANGED vars
  BY <1>25 DEF vars, Base, TypeOK, Goto, clients, redis, Steps
<1>. QED
  BY <1>1, <1>2, <1>3, <1>4, <1>5, <1>6, <1>7, <1>8, <1>9, <1>10, <1>11, <1>12, <1>13, <1>14, <1>15, <1>16, <1>17, <1>18, <1>19, <1>20, <1>21, <1>22, <1>23, <1>24, <1>25 DEF Next, Begin, Step

-------------------------------------------------------------------------------
(* Only three steps write the committed rows.                                   *)
LEMMA DbWriters ==
  ASSUME Base, [Next]_vars
  PROVE  \/ db' = db
         \/ \E r \in Requests : Expire(r) \/ ReplayCommit(r) \/ Commit(r)
<1>1. ASSUME NEW r \in Requests, Login(r) PROVE db' = db \/ Expire(r) \/ ReplayCommit(r) \/ Commit(r)
  BY <1>1 DEF Login
<1>2. ASSUME NEW r \in Requests, BeginAuth(r) PROVE db' = db \/ Expire(r) \/ ReplayCommit(r) \/ Commit(r)
  BY <1>2 DEF BeginAuth
<1>3. ASSUME NEW r \in Requests, BeginRefresh(r) PROVE db' = db \/ Expire(r) \/ ReplayCommit(r) \/ Commit(r)
  BY <1>3 DEF BeginRefresh
<1>4. ASSUME NEW r \in Requests, CheckFlag(r) PROVE db' = db \/ Expire(r) \/ ReplayCommit(r) \/ Commit(r)
  BY <1>4 DEF CheckFlag, Reject
<1>5. ASSUME NEW r \in Requests, Load(r) PROVE db' = db \/ Expire(r) \/ ReplayCommit(r) \/ Commit(r)
  BY <1>5 DEF Load, Reject
<1>6. ASSUME NEW r \in Requests, Expire(r) PROVE db' = db \/ Expire(r) \/ ReplayCommit(r) \/ Commit(r)
  BY <1>6 DEF Expire
<1>7. ASSUME NEW r \in Requests, ExpireFlag(r) PROVE db' = db \/ Expire(r) \/ ReplayCommit(r) \/ Commit(r)
  BY <1>7 DEF ExpireFlag
<1>8. ASSUME NEW r \in Requests, FlushTouch(r) PROVE db' = db \/ Expire(r) \/ ReplayCommit(r) \/ Commit(r)
  BY <1>8 DEF FlushTouch
<1>9. ASSUME NEW r \in Requests, Body(r) PROVE db' = db \/ Expire(r) \/ ReplayCommit(r) \/ Commit(r)
  <2>1. pc[r] = "body" /\ req[r].op \in AuthOps
    BY <1>9 DEF Body, Base, ControlOK, Control, At
  <2>. QED
    BY <1>9, <2>1 DEF Body, AuthOps, Revoking, RevokeByUuid, Reject
<1>10. ASSUME NEW r \in Requests, Blacklist(r) PROVE db' = db \/ Expire(r) \/ ReplayCommit(r) \/ Commit(r)
  BY <1>10 DEF Blacklist
<1>11. ASSUME NEW r \in Requests, FlushEnd(r) PROVE db' = db \/ Expire(r) \/ ReplayCommit(r) \/ Commit(r)
  BY <1>11 DEF FlushEnd
<1>12. ASSUME NEW r \in Requests, Flag(r) PROVE db' = db \/ Expire(r) \/ ReplayCommit(r) \/ Commit(r)
  BY <1>12 DEF Flag
<1>13. ASSUME NEW r \in Requests, VerifyRefresh(r) PROVE db' = db \/ Expire(r) \/ ReplayCommit(r) \/ Commit(r)
  BY <1>13 DEF VerifyRefresh
<1>14. ASSUME NEW r \in Requests, Burn(r) PROVE db' = db \/ Expire(r) \/ ReplayCommit(r) \/ Commit(r)
  BY <1>14 DEF Burn
<1>15. ASSUME NEW r \in Requests, Reload(r) PROVE db' = db \/ Expire(r) \/ ReplayCommit(r) \/ Commit(r)
  BY <1>15 DEF Reload, Revoking, Reject
<1>16. ASSUME NEW r \in Requests, FlushBind(r) PROVE db' = db \/ Expire(r) \/ ReplayCommit(r) \/ Commit(r)
  BY <1>16 DEF FlushBind
<1>17. ASSUME NEW r \in Requests, Replay(r) PROVE db' = db \/ Expire(r) \/ ReplayCommit(r) \/ Commit(r)
  BY <1>17 DEF Replay, Revoking
<1>18. ASSUME NEW r \in Requests, ReplayCommit(r) PROVE db' = db \/ Expire(r) \/ ReplayCommit(r) \/ Commit(r)
  BY <1>18 DEF ReplayCommit
<1>19. ASSUME NEW r \in Requests, Replayed(r) PROVE db' = db \/ Expire(r) \/ ReplayCommit(r) \/ Commit(r)
  BY <1>19 DEF Replayed, Reject
<1>20. ASSUME NEW r \in Requests, Respond(r) PROVE db' = db \/ Expire(r) \/ ReplayCommit(r) \/ Commit(r)
  BY <1>20 DEF Respond
<1>21. ASSUME NEW r \in Requests, Commit(r) PROVE db' = db \/ Expire(r) \/ ReplayCommit(r) \/ Commit(r)
  BY <1>21 DEF Commit
<1>22. ASSUME NEW r \in Requests, Abort(r) PROVE db' = db \/ Expire(r) \/ ReplayCommit(r) \/ Commit(r)
  BY <1>22 DEF Abort, Reject
<1>23. ASSUME NEW r \in Requests, DeadlockVictim(r) PROVE db' = db \/ Expire(r) \/ ReplayCommit(r) \/ Commit(r)
  BY <1>23 DEF DeadlockVictim, Reject
<1>24. CASE RedisRestart
  BY <1>24 DEF RedisRestart
<1>25. CASE UNCHANGED vars
  BY <1>25 DEF vars
<1>. QED
  BY <1>1, <1>2, <1>3, <1>4, <1>5, <1>6, <1>7, <1>8, <1>9, <1>10, <1>11, <1>12, <1>13, <1>14, <1>15, <1>16, <1>17, <1>18, <1>19, <1>20, <1>21, <1>22, <1>23, <1>24, <1>25 DEF Next, Begin, Step

(* A row never disappears and an ended session stays ended.                     *)
LEMMA StatusStep ==
  ASSUME Base, [Next]_vars, NEW s \in Sids
  PROVE  /\ Present(s) => Present(s)'
         /\ db[s].status = "ended" => db'[s].status = "ended"
<1>1. CASE db' = db
  BY <1>1 DEF Present
<1>2. ASSUME NEW r \in Requests, Expire(r)
      PROVE  (Present(s) => Present(s)') /\ (db[s].status = "ended" => db'[s].status = "ended")
  BY <1>2 DEF Expire, Present, Base, TypeOK, Row
<1>3. ASSUME NEW r \in Requests, db' = Apply(r)
      PROVE  (Present(s) => Present(s)') /\ (db[s].status = "ended" => db'[s].status = "ended")
  <2>1. req[r].op = "login" => ~Present(Sid(r))
    BY DEF Base, RowsOK, Rows
  <2>2. db'[s].status = CASE s \in txn[r].ends -> "ended"
                          [] req[r].op = "login" /\ s = Sid(r) -> "active"
                          [] OTHER -> db[s].status
    BY <1>3 DEF Apply
  <2>3. req[r].op = "login" => s \notin txn[r].ends
    BY DEF Base, RowsOK, Rows
  <2>. QED
    BY <2>1, <2>2, <2>3 DEF Present
<1>. QED
  BY <1>1, <1>2, <1>3, DbWriters DEF ReplayCommit, Commit

(* The row of a login under way stays absent until that login commits.          *)
LEMMA LoginRowStep ==
  ASSUME Base, [Next]_vars, NEW q \in Requests, req[q].op = "login", req'[q].op = "login",
         db'[Sid(q)].status # db[Sid(q)].status
  PROVE  FALSE
<1>1. ~Present(Sid(q)) /\ Sid(q) \in Sids
  BY DEF Base, RowsOK, Rows, ControlOK, Control, At, NoReq
<1>2. ASSUME NEW r \in Requests, Expire(r) PROVE FALSE
  <2>1. Present(Sid(r)) /\ Sid(r) \in Sids
    BY <1>2 DEF Expire, At, Base, RowsOK, Rows, ControlOK, Control
  <2>. QED
    BY <1>1, <1>2, <2>1 DEF Expire, Base, TypeOK, Row
<1>3. ASSUME NEW r \in Requests, r # q, db' = Apply(r) PROVE FALSE
  <2>1. Sid(q) \notin txn[r].ends
    BY <1>1 DEF Base, RowsOK, Rows
  <2>2. ~(req[r].op = "login" /\ Sid(q) = Sid(r))
    BY <1>3 DEF Base, TokensOK, Distinct
  <2>. QED
    BY <1>1, <1>3, <2>1, <2>2 DEF Apply
<1>4. ASSUME NEW r \in Requests, ReplayCommit(r) PROVE FALSE
  <2>1. r # q
    BY <1>4 DEF ReplayCommit, At, Base, ControlOK, Control
  <2>. QED
    BY <1>3, <1>4, <2>1 DEF ReplayCommit
<1>5. ASSUME NEW r \in Requests, Commit(r) PROVE FALSE
  <2>1. r # q
    BY <1>5 DEF Commit, Finish, NoReq, Base, TypeOK
  <2>. QED
    BY <1>3, <1>5, <2>1 DEF Commit
<1>. QED
  BY <1>2, <1>4, <1>5, DbWriters

(* A step of one request leaves the others where they are.                      *)
LEMMA Frame ==
  ASSUME Base, [Next]_vars, NEW q \in Requests
  PROVE  \/ pc'[q] = pc[q] /\ req'[q] = req[q] /\ txn'[q] = txn[q]
         \/ Begin(q) \/ Step(q) \/ Abort(q) \/ DeadlockVictim(q)
<1>1. ASSUME NEW r \in Requests, Begin(r) \/ Step(r) \/ Abort(r) \/ DeadlockVictim(r), r # q
      PROVE  pc'[q] = pc[q] /\ req'[q] = req[q] /\ txn'[q] = txn[q]
  <2>1. CASE Login(r)
    BY <1>1, <2>1 DEF Login, Goto, Base, TypeOK
  <2>2. CASE BeginAuth(r)
    BY <1>1, <2>2 DEF BeginAuth, Goto, Base, TypeOK
  <2>3. CASE BeginRefresh(r)
    BY <1>1, <2>3 DEF BeginRefresh, Goto, Base, TypeOK
  <2>4. CASE CheckFlag(r)
    BY <1>1, <2>4 DEF CheckFlag, Reject, Finish, Goto, Base, TypeOK
  <2>5. CASE Load(r)
    BY <1>1, <2>5 DEF Load, Reject, Finish, Goto, Base, TypeOK
  <2>6. CASE Expire(r)
    BY <1>1, <2>6 DEF Expire, Goto, Base, TypeOK
  <2>7. CASE ExpireFlag(r)
    BY <1>1, <2>7 DEF ExpireFlag, Finish, Goto, Base, TypeOK
  <2>8. CASE FlushTouch(r)
    BY <1>1, <2>8 DEF FlushTouch, Goto, Base, TypeOK
  <2>9. CASE Body(r)
    <3>1. pc[r] = "body" /\ req[r].op \in AuthOps
      BY <2>9 DEF Body, Base, ControlOK, Control, At
    <3>2. Reject(r) \/ \E S \in SUBSET Sids : Revoking(r, S)
      <4>1. Sid(r) \in Sids /\ (req[r].op = "revoke_session" => req[r].target \in Sids)
        BY <3>1 DEF Base, ControlOK, Control, At
      <4>. QED
        BY <2>9, <3>1, <4>1 DEF Body, AuthOps, RevokeByUuid, ListActive, UserSids
    <3>. QED
      BY <1>1, <3>2 DEF Revoking, Reject, Finish, Goto, Base, TypeOK
  <2>10. CASE Blacklist(r)
    BY <1>1, <2>10 DEF Blacklist, Goto, Base, TypeOK
  <2>11. CASE FlushEnd(r)
    BY <1>1, <2>11 DEF FlushEnd, Goto, Base, TypeOK
  <2>12. CASE Flag(r)
    BY <1>1, <2>12 DEF Flag, Goto, Base, TypeOK
  <2>13. CASE VerifyRefresh(r)
    BY <1>1, <2>13 DEF VerifyRefresh, Goto, Base, TypeOK
  <2>14. CASE Burn(r)
    BY <1>1, <2>14 DEF Burn, Goto, Base, TypeOK
  <2>15. CASE Reload(r)
    BY <1>1, <2>15 DEF Reload, Revoking, Reject, Finish, Goto, Base, TypeOK
  <2>16. CASE FlushBind(r)
    BY <1>1, <2>16 DEF FlushBind, Goto, Base, TypeOK
  <2>17. CASE Replay(r)
    BY <1>1, <2>17 DEF Replay, Revoking, Goto, Base, TypeOK
  <2>18. CASE ReplayCommit(r)
    BY <1>1, <2>18 DEF ReplayCommit, Goto, Base, TypeOK
  <2>19. CASE Replayed(r)
    BY <1>1, <2>19 DEF Replayed, Reject, Finish, Goto, Base, TypeOK
  <2>20. CASE Respond(r)
    BY <1>1, <2>20 DEF Respond, Goto, Base, TypeOK
  <2>21. CASE Commit(r)
    BY <1>1, <2>21 DEF Commit, Finish, Goto, Base, TypeOK
  <2>22. CASE Abort(r)
    BY <1>1, <2>22 DEF Abort, Reject, Finish, Goto, Base, TypeOK
  <2>23. CASE DeadlockVictim(r)
    BY <1>1, <2>23 DEF DeadlockVictim, Reject, Finish, Goto, Base, TypeOK
  <2>. QED
    BY <1>1, <2>1, <2>2, <2>3, <2>4, <2>5, <2>6, <2>7, <2>8, <2>9, <2>10, <2>11, <2>12, <2>13, <2>14, <2>15, <2>16, <2>17, <2>18, <2>19, <2>20, <2>21, <2>22, <2>23 DEF Begin, Step
<1>2. CASE RedisRestart
  BY <1>2 DEF RedisRestart
<1>3. CASE UNCHANGED vars
  BY <1>3 DEF vars
<1>. QED
  BY <1>1, <1>2, <1>3 DEF Next

(* A stored row has a refresh token id.                                         *)
LEMMA RowJtiStep ==
  ASSUME Base, [Next]_vars, NEW s \in Sids, Present(s)'
  PROVE  db'[s].jti \in Jtis
<1>1. Present(s) => db[s].jti \in Jtis
  BY DEF Base, RowsOK
<1>2. CASE db' = db
  BY <1>1, <1>2 DEF Present
<1>3. ASSUME NEW r \in Requests, Expire(r) PROVE db'[s].jti \in Jtis
  <2>1. Present(Sid(r)) /\ Sid(r) \in Sids
    BY <1>3 DEF Expire, At, Base, RowsOK, Rows, ControlOK, Control
  <2>. QED
    BY <1>1, <1>3, <2>1 DEF Expire, Present, Base, TypeOK, Row
<1>4. ASSUME NEW r \in Requests, db' = Apply(r) PROVE db'[s].jti \in Jtis
  <2>1. txn[r].bound \in Jtis \cup {NoJti}
    BY DEF Base, TypeOK, Transaction
  <2>2. s \in txn[r].ends => Present(s)
    BY DEF Base, RowsOK, Rows
  <2>3. req[r].op = "login" => txn[r].bound \in Jtis
    BY DEF Base, RowsOK, Rows
  <2>. QED
    BY <1>1, <1>4, <2>1, <2>2, <2>3, NullAssumption DEF Apply, Present
<1>. QED
  BY <1>2, <1>3, <1>4, DbWriters DEF ReplayCommit, Commit

(* The rows found to revoke are there and have a refresh token id.              *)
LEMMA RevokingRows ==
  ASSUME Base, NEW r \in Requests, NEW S \in SUBSET Sids, \A s \in S : Present(s),
         pc[r] \in {"body", "reload", "replay"}, Revoking(r, S)
  PROVE  Rows(r)'
<1>1. \A row \in LoadRows(r, S) : row.sid \in S /\ row.jti \in Jtis
  BY NullAssumption DEF LoadRows, Base, RowsOK, TypeOK, Transaction
<1>2. /\ pc'[r] \in {"respond", "blacklist"} /\ req'[r] = req[r] /\ db' = db
      /\ txn'[r] = [txn[r] EXCEPT !.todo = LoadRows(r, S), !.own = NoJti]
  BY DEF Revoking, Goto, Base, TypeOK
<1>3. txn'[r].todo = LoadRows(r, S) /\ txn'[r].ends = txn[r].ends /\ txn'[r].bound = txn[r].bound
  BY <1>2 DEF Base, TypeOK, Transaction
<1>4. \A s \in txn[r].ends : Present(s)
  BY DEF Base, RowsOK, Rows
<1>5. req[r].op # "login"
  BY DEF Base, ControlOK, Control
<1>. QED
  BY <1>1, <1>2, <1>3, <1>4, <1>5 DEF Rows, Present

(* Every step keeps what is known of the rows a request deals with.              *)
LEMMA RowsStep ==
  ASSUME Base, [Next]_vars, NEW q \in Requests
  PROVE  Rows(q)'
<1>0. Finish(q) => Rows(q)'
  BY DEF Finish, Goto, Base, TypeOK, Rows, NoReq, NoTxn
<1>1. CASE pc'[q] = pc[q] /\ req'[q] = req[q] /\ txn'[q] = txn[q]
  <2>1. txn[q].ends \subseteq Sids /\ \A row \in txn[q].todo : row.sid \in Sids
    BY DEF Base, TypeOK, Transaction, Loaded
  <2>2. /\ pc[q] \in {"expire", "flush_touch", "body"} => Sid(q) \in Sids
        /\ pc[q] \in {"flush_end", "flag"} => txn[q].cur \in Sids
    BY DEF Base, ControlOK, Control, At
  <2>3. \A s \in Sids : Present(s) => Present(s)'
    BY StatusStep
  <2>4. req[q].op = "login" => ~Present(Sid(q))'
    BY <1>1, LoginRowStep DEF Present, Base, RowsOK, Rows, Sid
  <2>5. Rows(q)
    BY DEF Base, RowsOK
  <2>. QED
    BY <1>1, <2>1, <2>2, <2>3, <2>4, <2>5 DEF Rows, Sid
<1>2. ASSUME pc'[q] # pc[q] \/ req'[q] # req[q] \/ txn'[q] # txn[q],
             Begin(q) \/ Step(q) \/ Abort(q) \/ DeadlockVictim(q)
      PROVE  Rows(q)'
  <2>1. CASE Login(q)
    <3>1. PICK s \in Sids, j \in Jtis :
            /\ \A k \in Jtis : token[k].sid # s
            /\ req' = [req EXCEPT ![q] = [NoReq EXCEPT !.op = "login", !.sid = s, !.new = j]]
            /\ txn' = [txn EXCEPT ![q].bound = j]
      BY <2>1 DEF Login, FreshSids, FreshJtis
    <3>2. ~Present(s)
      BY <3>1 DEF Base, TokensOK, Minted
    <3>3. pc'[q] = "respond" /\ req'[q].sid = s /\ txn'[q] = [NoTxn EXCEPT !.bound = j] /\ db' = db
      BY <2>1, <3>1 DEF Login, At, Goto, Base, TypeOK, ControlOK, Control, Request, NoReq
    <3>. QED
      BY <3>2, <3>3 DEF Rows, NoTxn, Sid, Present
  <2>2. CASE BeginAuth(q)
    <3>1. txn'[q] = NoTxn /\ pc'[q] = "check" /\ req'[q].op \in AuthOps
      BY <2>2 DEF BeginAuth, At, Goto, Base, TypeOK, ControlOK, Control, NoReq
    <3>. QED
      BY <3>1 DEF Rows, NoTxn, AuthOps
  <2>3. CASE BeginRefresh(q)
    <3>1. txn'[q] = NoTxn /\ pc'[q] = "verify" /\ req'[q].op \in RefreshOps
      BY <2>3 DEF BeginRefresh, At, Goto, Base, TypeOK, ControlOK, Control, NoReq
    <3>. QED
      BY <3>1 DEF Rows, NoTxn, RefreshOps
  <2>4. CASE CheckFlag(q)
    <3>1. CASE Reject(q)
      BY <3>1, <1>0 DEF Reject
    <3>2. CASE ~Reject(q)
      BY <2>4, <3>2 DEF CheckFlag, Rows, Present, At, Goto, Base, TypeOK, RowsOK, ControlOK, Control, Sid
    <3>. QED
      BY <3>1, <3>2
  <2>5. CASE Load(q)
    <3>1. CASE Active(Sid(q))
      <4>1. /\ pc'[q] \in {"expire", "flush_touch", "body"} /\ req'[q] = req[q] /\ db' = db
            /\ pc[q] = "load" /\ txn'[q].todo = txn[q].todo /\ txn'[q].ends = txn[q].ends
            /\ txn'[q].bound = txn[q].bound
        BY <2>5, <3>1 DEF Load, At, Goto, Base, TypeOK, Transaction
      <4>. QED
        BY <3>1, <4>1 DEF Rows, Active, Present, Sid, Base, RowsOK
    <3>2. CASE ~Active(Sid(q))
      BY <2>5, <3>2, <1>0 DEF Load, Reject
    <3>. QED
      BY <3>1, <3>2
  <2>6. CASE Expire(q)
    <3>1. db'[Sid(q)] = [db[Sid(q)] EXCEPT !.status = "ended"] /\ \A s \in Sids : Present(s) => Present(s)'
      BY <2>6, StatusStep DEF Expire, Base, TypeOK, ControlOK, Control, At
    <3>2. pc'[q] = "expire_flag" /\ req'[q] = req[q] /\ txn'[q] = txn[q] /\ pc[q] = "expire"
      BY <2>6 DEF Expire, At, Goto, Base, TypeOK
    <3>3. txn[q].ends \subseteq Sids /\ txn[q].todo \subseteq Loaded
      BY DEF Base, TypeOK, Transaction
    <3>. QED
      BY <3>1, <3>2, <3>3 DEF Rows, Loaded, Base, RowsOK, ControlOK, Control
  <2>7. CASE ExpireFlag(q)
    BY <2>7, <1>0 DEF ExpireFlag
  <2>8. CASE FlushTouch(q)
    BY <2>8 DEF FlushTouch, Rows, Present, At, Goto, Base, TypeOK, RowsOK, ControlOK, Control, Sid
  <2>9. CASE Body(q)
    <3>1. pc[q] = "body" /\ req[q].op \in AuthOps /\ Sid(q) \in Sids /\ Present(Sid(q))
      BY <2>9 DEF Body, Base, ControlOK, Control, At, RowsOK, Rows
    <3>2. ASSUME NEW S \in SUBSET Sids, Revoking(q, S), \A s \in S : Present(s) PROVE Rows(q)'
      BY <3>1, <3>2, RevokingRows
    <3>3. CASE req[q].op = "revoke_session"
      <4>1. req[q].target \in Sids
        BY <3>3 DEF Base, ControlOK, Control
      <4>2. \/ Reject(q)
            \/ \E S \in SUBSET Sids : Revoking(q, S) /\ \A s \in S : Present(s)
        BY <2>9, <3>3, <4>1 DEF Body, RevokeByUuid, Present
      <4>. QED
        BY <3>2, <4>2, <1>0 DEF Reject
    <3>4. CASE req[q].op # "revoke_session"
      <4>1. \E S \in SUBSET Sids : Revoking(q, S) /\ \A s \in S : Present(s)
        <5>1. CASE req[q].op = "me"
          BY <2>9, <5>1 DEF Body
        <5>2. CASE req[q].op = "logout_current"
          BY <2>9, <3>1, <5>2 DEF Body
        <5>3. CASE req[q].op = "logout_all"
          <6>1. Revoking(q, ListActive(q))
            BY <2>9, <5>3 DEF Body
          <6>2. ListActive(q) \in SUBSET Sids /\ \A s \in ListActive(q) : Present(s)
            BY DEF ListActive, UserSids, Active, Present
          <6>. QED
            BY <6>1, <6>2
        <5>. QED
          BY <3>1, <3>4, <5>1, <5>2, <5>3 DEF AuthOps
      <4>. QED
        BY <3>2, <4>1
    <3>. QED
      BY <3>3, <3>4
  <2>10. CASE Blacklist(q)
    <3>1. PICK row \in txn[q].todo : txn' = [txn EXCEPT ![q].todo = txn[q].todo \ {row}, ![q].cur = row.sid]
      BY <2>10 DEF Blacklist
    <3>2. /\ pc'[q] = "flush_end" /\ req'[q] = req[q] /\ db' = db /\ pc[q] = "blacklist"
          /\ txn'[q].todo = txn[q].todo \ {row} /\ txn'[q].cur = row.sid /\ txn'[q].ends = txn[q].ends
      BY <2>10, <3>1 DEF Blacklist, At, Goto, Base, TypeOK, Transaction
    <3>. QED
      BY <3>2 DEF Rows, Present, Base, RowsOK, ControlOK, Control
  <2>11. CASE FlushEnd(q)
    <3>1. /\ pc'[q] = "flag" /\ req'[q] = req[q] /\ db' = db /\ pc[q] = "flush_end"
          /\ txn'[q].todo = txn[q].todo /\ txn'[q].cur = txn[q].cur
          /\ txn'[q].ends = txn[q].ends \cup {txn[q].cur}
      BY <2>11 DEF FlushEnd, At, Goto, Base, TypeOK, Transaction
    <3>. QED
      BY <3>1 DEF Rows, Present, Base, RowsOK, ControlOK, Control
  <2>12. CASE Flag(q)
    <3>1. /\ pc'[q] \in {"blacklist", "replay_commit", "respond"} /\ req'[q] = req[q]
          /\ db' = db /\ pc[q] = "flag" /\ txn'[q].todo = txn[q].todo /\ txn'[q].ends = txn[q].ends
      BY <2>12 DEF Flag, AfterRevoke, At, Goto, Base, TypeOK, Transaction
    <3>. QED
      BY <3>1 DEF Rows, Present, Base, RowsOK, ControlOK, Control
  <2>13. CASE VerifyRefresh(q)
    BY <2>13 DEF VerifyRefresh, Rows, Present, At, Goto, Base, TypeOK, RowsOK, ControlOK, Control, Sid
  <2>14. CASE Burn(q)
    BY <2>14 DEF Burn, Rows, Present, At, Goto, Base, TypeOK, RowsOK, ControlOK, Control, Sid
  <2>15. CASE Reload(q)
    <3>1. CASE req[q].op = "logout"
      <4>1. pc[q] = "reload" /\ Revoking(q, {Sid(q)} \cap {s \in Sids : Active(s)})
        BY <2>15, <3>1 DEF Reload, At
      <4>. QED
        BY <4>1, RevokingRows DEF Active, Present
    <3>2. CASE req[q].op = "refresh" /\ Active(Sid(q))
      BY <2>15, <3>2 DEF Reload, Rows, Present, At, Goto, Base, TypeOK, RowsOK, ControlOK, Control, Sid
    <3>3. CASE ~(req[q].op = "refresh" /\ Active(Sid(q))) /\ req[q].op # "logout"
      BY <2>15, <3>3, <1>0 DEF Reload, Reject
    <3>. QED
      BY <3>1, <3>2, <3>3
  <2>16. CASE FlushBind(q)
    <3>1. /\ pc'[q] = "respond" /\ req'[q] = req[q] /\ db' = db /\ pc[q] = "flush_bind"
          /\ txn'[q].todo = txn[q].todo /\ txn'[q].ends = txn[q].ends
      BY <2>16 DEF FlushBind, At, Goto, Base, TypeOK, Transaction
    <3>. QED
      BY <3>1 DEF Rows, Present, Base, RowsOK, ControlOK, Control
  <2>17. CASE Replay(q)
    <3>1. CASE Active(Sid(q))
      <4>1. pc[q] = "replay" /\ Sid(q) \in Sids /\ Revoking(q, {Sid(q)})
        BY <2>17, <3>1 DEF Replay, Base, ControlOK, Control, At
      <4>. QED
        BY <3>1, <4>1, RevokingRows DEF Active, Present
    <3>2. CASE ~Active(Sid(q))
      BY <2>17, <3>2 DEF Replay, Rows, Present, At, Goto, Base, TypeOK, RowsOK, ControlOK, Control, Sid
    <3>. QED
      BY <3>1, <3>2
  <2>18. CASE ReplayCommit(q)
    <3>1. /\ pc'[q] = "replayed" /\ req'[q] = req[q] /\ txn'[q] = txn[q] /\ pc[q] = "replay_commit"
      BY <2>18 DEF ReplayCommit, At, Goto, Base, TypeOK
    <3>2. txn[q].ends \subseteq Sids /\ txn[q].todo = {} /\ req[q].op = "refresh"
      BY <3>1 DEF Base, TypeOK, Transaction, ControlOK, Control
    <3>. QED
      BY <3>1, <3>2, StatusStep DEF Rows, Base, RowsOK
  <2>19. CASE Replayed(q)
    BY <2>19, <1>0 DEF Replayed, Reject
  <2>20. CASE Respond(q)
    BY <2>20 DEF Respond, Rows, Present, At, Goto, Base, TypeOK, RowsOK, ControlOK, Control, Sid
  <2>21. CASE Commit(q)
    BY <2>21, <1>0 DEF Commit
  <2>22. CASE Abort(q)
    BY <2>22, <1>0 DEF Abort, Reject
  <2>23. CASE DeadlockVictim(q)
    BY <2>23, <1>0 DEF DeadlockVictim, Reject
  <2>. QED
    BY <1>2, <2>1, <2>2, <2>3, <2>4, <2>5, <2>6, <2>7, <2>8, <2>9, <2>10, <2>11, <2>12, <2>13, <2>14, <2>15, <2>16, <2>17, <2>18, <2>19, <2>20, <2>21, <2>22, <2>23 DEF Begin, Step
<1>. QED
  BY <1>1, <1>2, Frame

-------------------------------------------------------------------------------
(* The sessions the body of a route goes on to revoke are there.                *)
LEMMA BodyCases ==
  ASSUME Base, NEW r \in Requests, Body(r)
  PROVE  Reject(r) \/ \E S \in SUBSET Sids : Revoking(r, S)
<1>1. pc[r] = "body" /\ req[r].op \in AuthOps
  BY DEF Body, Base, ControlOK, Control, At
<1>2. Sid(r) \in Sids /\ (req[r].op = "revoke_session" => req[r].target \in Sids)
  BY <1>1 DEF Base, ControlOK, Control, At
<1>. QED
  BY <1>1, <1>2 DEF Body, AuthOps, RevokeByUuid, ListActive, UserSids

(* The parameters of a request change when it begins and when it is over.       *)
LEMMA ReqStep ==
  ASSUME Base, [Next]_vars, NEW q \in Requests
  PROVE  \/ req'[q] = req[q]
         \/ req'[q] = NoReq
         \/ /\ Login(q) \/ BeginAuth(q) \/ BeginRefresh(q)
            /\ \A p \in Requests \ {q} : req'[p] = req[p]
            /\ req'[q].new \in FreshJtis \cup {NoJti}
            /\ req'[q].op = "login" => Login(q) /\ req'[q].sid \in FreshSids
<1>1. CASE req'[q] = req[q]
  BY <1>1
<1>2. ASSUME Begin(q), req'[q] # req[q]
      PROVE  /\ Login(q) \/ BeginAuth(q) \/ BeginRefresh(q)
             /\ \A p \in Requests \ {q} : req'[p] = req[p]
             /\ req'[q].new \in FreshJtis \cup {NoJti}
             /\ req'[q].op = "login" => Login(q) /\ req'[q].sid \in FreshSids
  <2>1. CASE Login(q)
    <3>1. PICK s \in FreshSids, j \in FreshJtis :
            req' = [req EXCEPT ![q] = [NoReq EXCEPT !.op = "login", !.sid = s, !.new = j]]
      BY <2>1 DEF Login
    <3>2. req'[q].sid = s /\ req'[q].new = j
      BY <3>1 DEF Base, TypeOK, NoReq
    <3>. QED
      BY <2>1, <3>1, <3>2 DEF Base, TypeOK
  <2>2. CASE BeginAuth(q)
    <3>1. PICK j \in held, op \in AuthOps \cap ClientOps, x \in Sids \cup {NoSid} :
            req' = [req EXCEPT ![q] = [NoReq EXCEPT !.op = op, !.sid = token[j].sid,
                      !.target = x, !.since = SinceNow(op, token[j].sid, NoJti)]]
      BY <2>2 DEF BeginAuth
    <3>2. req'[q].op = op /\ req'[q].new = NoJti
      BY <3>1 DEF Base, TypeOK, NoReq
    <3>. QED
      BY <2>2, <3>1, <3>2 DEF Base, TypeOK, AuthOps
  <2>3. CASE BeginRefresh(q)
    <3>1. PICK j \in held, op \in RefreshOps \cap ClientOps, k \in FreshJtis \cup {NoJti} :
            req' = [req EXCEPT ![q] = [NoReq EXCEPT !.op = op, !.sid = token[j].sid,
                      !.tok = j, !.new = k, !.since = SinceNow(op, token[j].sid, j)]]
      BY <2>3 DEF BeginRefresh
    <3>2. req'[q].op = op /\ req'[q].new = k
      BY <3>1 DEF Base, TypeOK, NoReq
    <3>. QED
      BY <2>3, <3>1, <3>2 DEF Base, TypeOK, RefreshOps
  <2>. QED
    BY <1>2, <2>1, <2>2, <2>3 DEF Begin
<1>3. ASSUME Step(q) \/ Abort(q) \/ DeadlockVictim(q), req'[q] # req[q] PROVE req'[q] = NoReq
  <2>1. CASE CheckFlag(q)
    BY <1>3, <2>1 DEF CheckFlag, Reject, Finish, Base, TypeOK
  <2>2. CASE Load(q)
    BY <1>3, <2>2 DEF Load, Reject, Finish, Base, TypeOK
  <2>3. CASE Expire(q)
    BY <1>3, <2>3 DEF Expire, Base, TypeOK
  <2>4. CASE ExpireFlag(q)
    BY <1>3, <2>4 DEF ExpireFlag, Finish, Base, TypeOK
  <2>5. CASE FlushTouch(q)
    BY <1>3, <2>5 DEF FlushTouch, Base, TypeOK
  <2>6. CASE Body(q)
    BY <1>3, <2>6, BodyCases DEF Revoking, Reject, Finish, Base, TypeOK
  <2>7. CASE Blacklist(q)
    BY <1>3, <2>7 DEF Blacklist, Base, TypeOK
  <2>8. CASE FlushEnd(q)
    BY <1>3, <2>8 DEF FlushEnd, Base, TypeOK
  <2>9. CASE Flag(q)
    BY <1>3, <2>9 DEF Flag, Base, TypeOK
  <2>10. CASE VerifyRefresh(q)
    BY <1>3, <2>10 DEF VerifyRefresh, Base, TypeOK
  <2>11. CASE Burn(q)
    BY <1>3, <2>11 DEF Burn, Base, TypeOK
  <2>12. CASE Reload(q)
    BY <1>3, <2>12 DEF Reload, Revoking, Reject, Finish, Base, TypeOK
  <2>13. CASE FlushBind(q)
    BY <1>3, <2>13 DEF FlushBind, Base, TypeOK
  <2>14. CASE Replay(q)
    BY <1>3, <2>14 DEF Replay, Revoking
  <2>15. CASE ReplayCommit(q)
    BY <1>3, <2>15 DEF ReplayCommit, Base, TypeOK
  <2>16. CASE Replayed(q)
    BY <1>3, <2>16 DEF Replayed, Reject, Finish, Base, TypeOK
  <2>17. CASE Respond(q)
    BY <1>3, <2>17 DEF Respond, Base, TypeOK
  <2>18. CASE Commit(q)
    BY <1>3, <2>18 DEF Commit, Finish, Base, TypeOK
  <2>19. CASE Abort(q)
    BY <1>3, <2>19 DEF Abort, Reject, Finish, Base, TypeOK
  <2>20. CASE DeadlockVictim(q)
    BY <1>3, <2>20 DEF DeadlockVictim, Reject, Finish, Base, TypeOK
  <2>. QED
    BY <1>3, <2>1, <2>2, <2>3, <2>4, <2>5, <2>6, <2>7, <2>8, <2>9, <2>10, <2>11, <2>12, <2>13, <2>14, <2>15, <2>16, <2>17, <2>18, <2>19, <2>20 DEF Step
<1>. QED
  BY <1>1, <1>2, <1>3, Frame

(* No two requests hold the same fresh token id, and no two logins the same     *)
(* session id.                                                                  *)
LEMMA DistinctStep ==
  ASSUME Base, [Next]_vars, NEW q \in Requests, NEW p \in Requests, p # q
  PROVE  Distinct(q, p)'
<1>1. Distinct(q, p) /\ Distinct(p, q) /\ Mint(q) /\ Mint(p)
  BY DEF Base, TokensOK
<1>2. NoReq.new = NoJti /\ NoReq.op # "login"
  BY DEF NoReq
<1>3. ASSUME NEW x \in Requests, NEW y \in Requests, x # y, Mint(y), req'[y] = req[y],
             req'[x].new \in FreshJtis \cup {NoJti},
             req'[x].op = "login" => req'[x].sid \in FreshSids
      PROVE  Distinct(x, y)' /\ Distinct(y, x)'
  <2>1. req'[x].new # NoJti => req'[x].new # req'[y].new
    BY <1>3 DEF FreshJtis
  <2>2. req'[x].op = "login" /\ req'[y].op = "login" => req'[x].sid # req'[y].sid
    BY <1>3 DEF FreshSids, Mint, Minted, Sid
  <2>. QED
    BY <2>1, <2>2 DEF Distinct, Sid
<1>. QED
  BY <1>1, <1>2, <1>3, ReqStep DEF Distinct, Sid

ClientStep(r) == Login(r) \/ Burn(r) \/ Respond(r)

(* Tokens are minted by a login and a rotation and reach a client, like the     *)
(* news of an end, in a response; no other step tells clients anything.         *)
LEMMA ClientWriters ==
  ASSUME Base, [Next]_vars, clients' # clients
  PROVE  \E r \in Requests : ClientStep(r)
<1>1. ASSUME NEW r \in Requests, Login(r) PROVE clients' = clients \/ ClientStep(r)
  BY <1>1 DEF ClientStep
<1>2. ASSUME NEW r \in Requests, BeginAuth(r) PROVE clients' = clients \/ ClientStep(r)
  BY <1>2 DEF BeginAuth, clients
<1>3. ASSUME NEW r \in Requests, BeginRefresh(r) PROVE clients' = clients \/ ClientStep(r)
  BY <1>3 DEF BeginRefresh, clients
<1>4. ASSUME NEW r \in Requests, CheckFlag(r) PROVE clients' = clients \/ ClientStep(r)
  BY <1>4 DEF CheckFlag, Reject, clients
<1>5. ASSUME NEW r \in Requests, Load(r) PROVE clients' = clients \/ ClientStep(r)
  BY <1>5 DEF Load, Reject, clients
<1>6. ASSUME NEW r \in Requests, Expire(r) PROVE clients' = clients \/ ClientStep(r)
  BY <1>6 DEF Expire, clients
<1>7. ASSUME NEW r \in Requests, ExpireFlag(r) PROVE clients' = clients \/ ClientStep(r)
  BY <1>7 DEF ExpireFlag, clients
<1>8. ASSUME NEW r \in Requests, FlushTouch(r) PROVE clients' = clients \/ ClientStep(r)
  BY <1>8 DEF FlushTouch, clients
<1>9. ASSUME NEW r \in Requests, Body(r) PROVE clients' = clients \/ ClientStep(r)
  BY <1>9, BodyCases DEF Revoking, Reject, clients
<1>10. ASSUME NEW r \in Requests, Blacklist(r) PROVE clients' = clients \/ ClientStep(r)
  BY <1>10 DEF Blacklist, clients
<1>11. ASSUME NEW r \in Requests, FlushEnd(r) PROVE clients' = clients \/ ClientStep(r)
  BY <1>11 DEF FlushEnd, clients
<1>12. ASSUME NEW r \in Requests, Flag(r) PROVE clients' = clients \/ ClientStep(r)
  BY <1>12 DEF Flag, clients
<1>13. ASSUME NEW r \in Requests, VerifyRefresh(r) PROVE clients' = clients \/ ClientStep(r)
  BY <1>13 DEF VerifyRefresh, clients
<1>14. ASSUME NEW r \in Requests, Burn(r) PROVE clients' = clients \/ ClientStep(r)
  BY <1>14 DEF ClientStep
<1>15. ASSUME NEW r \in Requests, Reload(r) PROVE clients' = clients \/ ClientStep(r)
  BY <1>15 DEF Reload, Revoking, Reject, clients
<1>16. ASSUME NEW r \in Requests, FlushBind(r) PROVE clients' = clients \/ ClientStep(r)
  BY <1>16 DEF FlushBind, clients
<1>17. ASSUME NEW r \in Requests, Replay(r) PROVE clients' = clients \/ ClientStep(r)
  BY <1>17 DEF Replay, Revoking, clients
<1>18. ASSUME NEW r \in Requests, ReplayCommit(r) PROVE clients' = clients \/ ClientStep(r)
  BY <1>18 DEF ReplayCommit, clients
<1>19. ASSUME NEW r \in Requests, Replayed(r) PROVE clients' = clients \/ ClientStep(r)
  BY <1>19 DEF Replayed, Reject, clients
<1>20. ASSUME NEW r \in Requests, Respond(r) PROVE clients' = clients \/ ClientStep(r)
  BY <1>20 DEF ClientStep
<1>21. ASSUME NEW r \in Requests, Commit(r) PROVE clients' = clients \/ ClientStep(r)
  BY <1>21 DEF Commit, clients
<1>22. ASSUME NEW r \in Requests, Abort(r) PROVE clients' = clients \/ ClientStep(r)
  BY <1>22 DEF Abort, Reject, clients
<1>23. ASSUME NEW r \in Requests, DeadlockVictim(r) PROVE clients' = clients \/ ClientStep(r)
  BY <1>23 DEF DeadlockVictim, Reject, clients
<1>24. CASE RedisRestart
  BY <1>24 DEF RedisRestart, clients
<1>25. CASE UNCHANGED vars
  BY <1>25 DEF vars, clients
<1>. QED
  BY <1>1, <1>2, <1>3, <1>4, <1>5, <1>6, <1>7, <1>8, <1>9, <1>10, <1>11, <1>12, <1>13, <1>14, <1>15, <1>16, <1>17, <1>18, <1>19, <1>20, <1>21, <1>22, <1>23, <1>24, <1>25 DEF Next, Begin, Step

(* A minted token id keeps its session.                                         *)
LEMMA MintedStep ==
  ASSUME Base, [Next]_vars, NEW j \in Jtis, NEW s \in Sids, Minted(j, s)
  PROVE  Minted(j, s)'
<1>. USE NullAssumption DEF Minted
<1>1. CASE clients' = clients
  BY <1>1 DEF clients
<1>2. ASSUME NEW r \in Requests, Login(r) PROVE Minted(j, s)'
  <2>1. PICK i \in FreshJtis, x \in Sids :
          token' = [token EXCEPT ![i] = [sid |-> x, parent |-> NoJti]]
    BY <1>2 DEF Login, FreshSids
  <2>2. i # j
    BY <2>1 DEF FreshJtis
  <2>. QED
    BY <2>1, <2>2 DEF Base, TypeOK
<1>3. ASSUME NEW r \in Requests, Burn(r) PROVE Minted(j, s)'
  <2>1. req[r].op = "refresh" => req[r].new # j
    BY <1>3 DEF Burn, At, Base, TokensOK, Mint
  <2>. QED
    BY <1>3, <2>1 DEF Burn, Base, TypeOK
<1>4. ASSUME NEW r \in Requests, Respond(r) PROVE Minted(j, s)'
  BY <1>4 DEF Respond
<1>. QED
  BY <1>1, <1>2, <1>3, <1>4, ClientWriters DEF ClientStep

(* A token id reserved by a rotation is minted by nobody else.                  *)
LEMMA ReservedStep ==
  ASSUME Base, [Next]_vars, NEW q \in Requests, Minted(req[q].new, NoSid),
         req[q].op = "refresh", pc[q] \in {"verify", "burn"}, pc'[q] = pc[q]
  PROVE  token'[req[q].new].sid = NoSid
<1>. USE NullAssumption DEF Minted
<1>1. CASE clients' = clients
  BY <1>1 DEF clients
<1>2. ASSUME NEW r \in Requests, Login(r) PROVE token'[req[q].new].sid = NoSid
  <2>1. PICK i \in FreshJtis, x \in Sids :
          token' = [token EXCEPT ![i] = [sid |-> x, parent |-> NoJti]]
    BY <1>2 DEF Login, FreshSids
  <2>2. i # req[q].new
    BY <2>1 DEF FreshJtis
  <2>. QED
    BY <2>1, <2>2 DEF Base, TypeOK
<1>3. ASSUME NEW r \in Requests, Burn(r) PROVE token'[req[q].new].sid = NoSid
  <2>1. r # q
    BY <1>3 DEF Burn, At, Goto, Base, TypeOK
  <2>2. req[r].new # req[q].new
    BY <2>1 DEF Base, TokensOK, Distinct, ControlOK, Control
  <2>. QED
    BY <1>3, <2>2 DEF Burn, Base, TypeOK
<1>4. ASSUME NEW r \in Requests, Respond(r) PROVE token'[req[q].new].sid = NoSid
  BY <1>4 DEF Respond
<1>. QED
  BY <1>1, <1>2, <1>3, <1>4, ClientWriters DEF ClientStep

(* A step that mints nothing and does not bring the request to its rotation.    *)
LEMMA KeepMint ==
  ASSUME Base, NEW r \in Requests, token' = token, req'[r] = req[r],
         txn'[r].bound = txn[r].bound,
         pc'[r] \in {"verify", "burn"} => pc[r] \in {"verify", "burn"},
         pc'[r] \in {"reload", "flush_bind"} => pc[r] \in {"reload", "flush_bind"}
  PROVE  Mint(r)'
  BY DEF Base, TokensOK, Mint, Minted, Sid

(* Finding the sessions to revoke mints nothing. *)
LEMMA RevokingMint ==
  ASSUME Base, NEW r \in Requests, NEW S \in SUBSET Sids, Revoking(r, S)
  PROVE  Mint(r)'
<1>1. token' = token /\ req'[r] = req[r] /\ txn'[r].bound = txn[r].bound
      /\ pc'[r] \in {"respond", "blacklist"}
  BY DEF Revoking, Goto, Base, TypeOK, Transaction, clients
<1>. QED
  BY <1>1, KeepMint

(* Every step keeps what is known of the token id a request mints.              *)
LEMMA MintStep ==
  ASSUME Base, [Next]_vars, NEW q \in Requests
  PROVE  Mint(q)'
<1>0. Finish(q) => Mint(q)'
  BY DEF Finish, Goto, Base, TypeOK, Mint, NoReq, NoTxn
<1>1. CASE pc'[q] = pc[q] /\ req'[q] = req[q] /\ txn'[q] = txn[q]
  <2>1. Mint(q) /\ Control(q) /\ txn[q].bound \in Jtis \cup {NoJti} /\ (At(q, "idle") => txn[q].bound = NoJti)
    BY DEF Base, TokensOK, ControlOK, Control, TypeOK, Transaction, NoTxn
  <2>2. \A j \in Jtis, s \in Sids : Minted(j, s) => Minted(j, s)'
    BY MintedStep
  <2>3. req[q].op = "refresh" /\ pc[q] \in {"verify", "burn"} => token'[req[q].new].sid = NoSid
    BY <1>1, <2>1, ReservedStep DEF Mint
  <2>. QED
    BY <1>1, <2>1, <2>2, <2>3 DEF Mint, Minted, Sid, Control, At
<1>2. ASSUME pc'[q] # pc[q] \/ req'[q] # req[q] \/ txn'[q] # txn[q],
             Begin(q) \/ Step(q) \/ Abort(q) \/ DeadlockVictim(q)
      PROVE  Mint(q)'
  <2>1. CASE Login(q)
    <3>1. PICK s \in Sids, j \in Jtis :
            /\ token' = [token EXCEPT ![j] = [sid |-> s, parent |-> NoJti]]
            /\ req' = [req EXCEPT ![q] = [NoReq EXCEPT !.op = "login", !.sid = s, !.new = j]]
            /\ txn' = [txn EXCEPT ![q].bound = j]
      BY <2>1 DEF Login, FreshSids, FreshJtis
    <3>2. token'[j].sid = s /\ req'[q].new = j /\ req'[q].sid = s /\ req'[q].op = "login"
          /\ txn'[q].bound = j /\ pc'[q] = "respond"
      BY <2>1, <3>1 DEF Login, Goto, Base, TypeOK, NoReq, Transaction
    <3>. QED
      BY <3>1, <3>2 DEF Mint, Minted, Sid
  <2>2. CASE BeginAuth(q)
    <3>1. txn'[q].bound = NoJti /\ pc'[q] = "check" /\ req'[q].op \in AuthOps
      BY <2>2 DEF BeginAuth, At, Goto, Base, TypeOK, ControlOK, Control, NoReq, NoTxn
    <3>. QED
      BY <3>1 DEF Mint, AuthOps
  <2>3. CASE BeginRefresh(q)
    <3>1. PICK j \in held, op \in RefreshOps \cap ClientOps, k \in FreshJtis \cup {NoJti} :
            /\ (op = "refresh") = (k # NoJti)
            /\ req' = [req EXCEPT ![q] = [NoReq EXCEPT !.op = op, !.sid = token[j].sid,
                        !.tok = j, !.new = k, !.since = SinceNow(op, token[j].sid, j)]]
      BY <2>3 DEF BeginRefresh
    <3>2. txn'[q].bound = NoJti /\ pc'[q] = "verify" /\ token' = token
      BY <2>3 DEF BeginRefresh, At, Goto, Base, TypeOK, ControlOK, Control, NoTxn, clients
    <3>3. req'[q].op = op /\ req'[q].new = k
      BY <3>1 DEF Base, TypeOK, NoReq
    <3>. QED
      BY <3>1, <3>2, <3>3 DEF Mint, Minted, RefreshOps, FreshJtis
  <2>4. CASE CheckFlag(q)
    BY <2>4, KeepMint, <1>0 DEF CheckFlag, Reject, At, Goto, Base, TypeOK, Transaction, clients
  <2>5. CASE Load(q)
    <3>1. CASE Active(Sid(q))
      BY <2>5, <3>1, KeepMint DEF Load, At, Goto, Base, TypeOK, Transaction, clients
    <3>2. CASE ~Active(Sid(q))
      BY <2>5, <3>2, <1>0 DEF Load, Reject
    <3>. QED
      BY <3>1, <3>2
  <2>6. CASE Expire(q)
    BY <2>6, KeepMint DEF Expire, At, Goto, Base, TypeOK, Transaction, clients
  <2>7. CASE ExpireFlag(q)
    BY <2>7, <1>0 DEF ExpireFlag
  <2>8. CASE FlushTouch(q)
    BY <2>8, KeepMint DEF FlushTouch, At, Goto, Base, TypeOK, Transaction, clients
  <2>9. CASE Body(q)
    BY <2>9, BodyCases, <1>0, RevokingMint DEF Reject
  <2>10. CASE Blacklist(q)
    BY <2>10, KeepMint DEF Blacklist, At, Goto, Base, TypeOK, Transaction, clients
  <2>11. CASE FlushEnd(q)
    BY <2>11, KeepMint DEF FlushEnd, At, Goto, Base, TypeOK, Transaction, clients
  <2>12. CASE Flag(q)
    BY <2>12, KeepMint DEF Flag, AfterRevoke, At, Goto, Base, TypeOK, Transaction, clients
  <2>13. CASE VerifyRefresh(q)
    BY <2>13, KeepMint DEF VerifyRefresh, At, Goto, Base, TypeOK, Transaction, clients
  <2>14. CASE Burn(q)
    <3>1. /\ pc'[q] = "reload" /\ req' = req /\ txn' = txn /\ pc[q] = "burn"
          /\ req[q].op = "refresh" =>
               token' = [token EXCEPT ![req[q].new] = [sid |-> Sid(q), parent |-> req[q].tok]]
          /\ req[q].op # "refresh" => token' = token
      BY <2>14 DEF Burn, At, Goto, Base, TypeOK
    <3>2. req[q].op = "refresh" => req[q].new \in Jtis /\ token'[req[q].new].sid = Sid(q)
      BY <3>1 DEF Base, TypeOK, ControlOK, Control
    <3>3. req[q].op # "login" /\ Mint(q)
      BY <3>1 DEF Base, ControlOK, Control, TokensOK
    <3>4. txn[q].bound # NoJti => req[q].op = "refresh" \/ token' = token
      BY <3>1
    <3>. QED
      BY <3>1, <3>2, <3>3, <3>4 DEF Mint, Minted, Sid
  <2>15. CASE Reload(q)
    <3>1. CASE req[q].op = "logout"
      BY <2>15, <3>1, RevokingMint DEF Reload
    <3>2. CASE req[q].op = "refresh" /\ Active(Sid(q))
      BY <2>15, <3>2, KeepMint DEF Reload, At, Goto, Base, TypeOK, Transaction, clients
    <3>3. CASE ~(req[q].op = "refresh" /\ Active(Sid(q))) /\ req[q].op # "logout"
      BY <2>15, <3>3, <1>0 DEF Reload, Reject
    <3>. QED
      BY <3>1, <3>2, <3>3
  <2>16. CASE FlushBind(q)
    <3>1. /\ pc'[q] = "respond" /\ req' = req /\ token' = token /\ pc[q] = "flush_bind"
          /\ txn'[q].bound = req[q].new
      BY <2>16 DEF FlushBind, At, Goto, Base, TypeOK, Transaction, clients
    <3>2. req[q].op = "refresh" /\ Minted(req[q].new, Sid(q))
      BY <3>1 DEF Base, ControlOK, Control, TokensOK, Mint
    <3>. QED
      BY <3>1, <3>2 DEF Mint, Minted, Sid
  <2>17. CASE Replay(q)
    <3>1. Sid(q) \in Sids
      BY <2>17 DEF Replay, Base, ControlOK, Control, At
    <3>. QED
      BY <2>17, <3>1, RevokingMint, KeepMint DEF Replay, At, Goto, Base, TypeOK, Transaction, clients
  <2>18. CASE ReplayCommit(q)
    BY <2>18, KeepMint DEF ReplayCommit, At, Goto, Base, TypeOK, Transaction, clients
  <2>19. CASE Replayed(q)
    BY <2>19, <1>0 DEF Replayed, Reject
  <2>20. CASE Respond(q)
    BY <2>20, KeepMint DEF Respond, At, Goto, Base, TypeOK, Transaction, clients
  <2>21. CASE Commit(q)
    BY <2>21, <1>0 DEF Commit
  <2>22. CASE Abort(q)
    BY <2>22, <1>0 DEF Abort, Reject
  <2>23. CASE DeadlockVictim(q)
    BY <2>23, <1>0 DEF DeadlockVictim, Reject
  <2>. QED
    BY <1>2, <2>1, <2>2, <2>3, <2>4, <2>5, <2>6, <2>7, <2>8, <2>9, <2>10, <2>11, <2>12, <2>13, <2>14, <2>15, <2>16, <2>17, <2>18, <2>19, <2>20, <2>21, <2>22, <2>23 DEF Begin, Step
<1>. QED
  BY <1>1, <1>2, Frame

(* Clients only receive minted tokens.                                          *)
LEMMA HeldStep ==
  ASSUME Base, [Next]_vars, NEW j \in held'
  PROVE  token'[j].sid \in Sids
<1>1. CASE j \in held
  <2>1. token[j].sid \in Sids /\ j \in Jtis
    BY <1>1 DEF Base, TokensOK, TypeOK
  <2>. QED
    BY <2>1, MintedStep DEF Minted
<1>2. CASE j \notin held
  <2>1. PICK r \in Requests : Respond(r)
    BY <1>2, ClientWriters DEF ClientStep, Login, Burn, clients
  <2>2. j = txn[r].bound /\ j # NoJti /\ token' = token
    BY <1>2, <2>1 DEF Respond
  <2>3. token[j].sid = Sid(r) /\ Sid(r) \in Sids
    BY <2>1, <2>2 DEF Base, TokensOK, Mint, Minted, ControlOK, Control, Respond, At
  <2>. QED
    BY <2>2, <2>3
<1>. QED
  BY <1>1, <1>2

(* A stored row has a minted token.                                             *)
LEMMA PresentMintedStep ==
  ASSUME Base, [Next]_vars, NEW s \in Sids, Present(s)'
  PROVE  \E j \in Jtis : Minted(j, s)'
<1>1. CASE Present(s)
  BY <1>1, MintedStep DEF Base, TokensOK
<1>2. CASE ~Present(s)
  <2>1. ASSUME NEW r \in Requests, Expire(r) PROVE FALSE
    <3>1. Present(Sid(r))
      BY <2>1 DEF Expire, At, Base, RowsOK, Rows
    <3>. QED
      BY <1>2, <2>1, <3>1 DEF Expire, Present, Base, TypeOK
  <2>2. ASSUME NEW r \in Requests, db' = Apply(r)
        PROVE  req[r].op = "login" /\ s = Sid(r)
    BY <1>2, <2>2 DEF Apply, Present, Base, RowsOK, Rows
  <2>3. ASSUME NEW r \in Requests, req[r].op = "login", s = Sid(r) PROVE \E j \in Jtis : Minted(j, s)'
    BY <2>3, MintedStep DEF Base, TokensOK, Mint
  <2>4. db' # db
    BY <1>2 DEF Present
  <2>. QED
    BY <2>1, <2>2, <2>3, <2>4, DbWriters DEF Commit, ReplayCommit
<1>. QED
  BY <1>1, <1>2

(* Base is inductive: it holds at first, *)
LEMMA BaseInit == ASSUME Init PROVE Base
<1>1. NoReq \in Request /\ NoTxn \in Transaction
  BY DEF NoReq, Request, Ops, AuthOps, Since, NoTxn, Transaction
<1>2. TypeOK
  BY <1>1 DEF Init, TypeOK, Row, Token, Steps
<1>3. ControlOK
  BY DEF Init, ControlOK, Control, At, NoReq, NoTxn, RefreshOps
<1>4. RowsOK
  BY DEF Init, RowsOK, Rows, Present, NoReq, NoTxn
<1>5. TokensOK
  BY DEF Init, TokensOK, Mint, Minted, Distinct, Present, NoReq, NoTxn
<1>. QED
  BY <1>2, <1>3, <1>4, <1>5 DEF Base

(* and every step keeps it, *)
LEMMA BaseStep == ASSUME Base, [Next]_vars PROVE Base'
<1>1. RowsOK'
  BY RowJtiStep, RowsStep DEF RowsOK
<1>2. TokensOK'
  BY HeldStep, PresentMintedStep, MintStep, DistinctStep DEF TokensOK
<1>. QED
  BY <1>1, <1>2, TypeStep, ControlStep DEF Base

(* so it always holds. *)
LEMMA BaseHolds == Spec => []Base
  BY BaseInit, BaseStep, PTL DEF Spec

(* Rows, Redis keys and requests keep their types, whatever the load.           *)
THEOREM TypeCorrect == Spec => []TypeOK
<1>1. Base => TypeOK
  BY DEF Base
<1>. QED
  BY <1>1, BaseHolds, PTL

===============================================================================
