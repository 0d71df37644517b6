---------------------------- MODULE SessionService ----------------------------
(* Sessions and refresh tokens of the auth server, as concurrent requests see  *)
(* them: every request runs in one PostgreSQL transaction that is committed    *)
(* only after the response has been sent (db/session.py), while its writes to  *)
(* Redis are visible at once. A step of a request is the code between two      *)
(* awaits on PostgreSQL or Redis.                                              *)
(*                                                                             *)
(* Left out: the session_active key (written, never read) and the clock: any    *)
(* validation may find the session lapsed or its touch key still there. Module *)
(* SessionLifetime puts the clock back for one session.                        *)
EXTENDS FiniteSets

CONSTANTS
  Requests,     \* the requests the server handles at one time
  Users,
  Sids,         \* session ids a login may draw
  Jtis,         \* refresh token ids a login or a rotation may draw
  Owner,        \* the user who gets the session id
  ClientOps,    \* bound: the operations clients call
  Faults,       \* bound: the failures that may happen
  NoRequest, NoSid, NoJti

ASSUME OwnerAssumption == Owner \in [Sids -> Users]
ASSUME ClientOpsAssumption == ClientOps \subseteq
  {"login", "me", "logout_current", "logout_all", "revoke_session", "refresh", "logout"}
ASSUME FaultsAssumption == Faults \subseteq {"abort", "lost_response", "redis_restart"}
ASSUME NullAssumption ==
  NoRequest \notin Requests /\ NoSid \notin Sids /\ NoJti \notin Jtis

VARIABLES
  db,           \* committed rows: [status, jti (refresh_token_id)]
  lock,         \* the transaction that has an uncommitted UPDATE of the row
  blacklist,    \* Redis: blacklisted refresh token ids
  revoked,      \* Redis: sessions with a revoked flag
  token,        \* minted refresh tokens: [sid, parent (the token it replaced)]
  held,         \* tokens some client has received
  acked,        \* sessions whose end some client has been told of
  lost,         \* Redis has come back once without its last writes
  pc, req, txn  \* per request: next step, parameters, transaction

redis == <<blacklist, revoked>>
clients == <<token, held, acked>>
vars == <<db, lock, blacklist, revoked, token, held, acked, lost, pc, req, txn>>

AuthOps == {"me", "logout_current", "logout_all", "revoke_session"}
RefreshOps == {"refresh", "logout"}
Ops == AuthOps \cup RefreshOps \cup {"login"}

Steps == {"idle",
  "check", "load", "expire", "expire_flag", "flush_touch", "body",
  "verify", "burn", "reload", "flush_bind", "replay", "replay_commit", "replayed",
  "blacklist", "flush_end", "flag", "respond", "commit"}

Row == [status : {"absent", "active", "ended"}, jti : Jtis \cup {NoJti}]
Token == [sid : Sids \cup {NoSid}, parent : Jtis \cup {NoJti}]

(* What was already true when the request arrived: the state of its session's *)
(* row, whether some client had been told that the session ended, whether its *)
(* token had been rotated, and which sessions of its user were active.        *)
Since == [row : {"absent", "active", "ended"}, acked : BOOLEAN, spent : BOOLEAN, live : SUBSET Sids]

Request == [op : Ops, sid : Sids \cup {NoSid}, tok : Jtis \cup {NoJti},
            new : Jtis \cup {NoJti}, target : Sids \cup {NoSid}, since : Since]

(* own: refresh_token_id of the request's own session, as validation loaded it; *)
(* todo: the rows left to revoke, as loaded; cur: the session being revoked;    *)
(* ends, bound: the uncommitted writes of is_active and of refresh_token_id.    *)
Loaded == [sid : Sids, jti : Jtis \cup {NoJti}]
Transaction == [own : Jtis \cup {NoJti}, todo : SUBSET Loaded, cur : Sids \cup {NoSid},
                ends : SUBSET Sids, bound : Jtis \cup {NoJti}]

NoTxn == [own |-> NoJti, todo |-> {}, cur |-> NoSid, ends |-> {}, bound |-> NoJti]
NoReq == [op |-> "me", sid |-> NoSid, tok |-> NoJti, new |-> NoJti, target |-> NoSid,
          since |-> [row |-> "absent", acked |-> FALSE, spent |-> FALSE, live |-> {}]]

Init ==
  /\ db = [s \in Sids |-> [status |-> "absent", jti |-> NoJti]]
  /\ lock = [s \in Sids |-> NoRequest]
  /\ blacklist = {} /\ revoked = {}
  /\ token = [j \in Jtis |-> [sid |-> NoSid, parent |-> NoJti]]
  /\ held = {} /\ acked = {} /\ lost = FALSE
  /\ pc = [r \in Requests |-> "idle"]
  /\ req = [r \in Requests |-> NoReq]
  /\ txn = [r \in Requests |-> NoTxn]

-------------------------------------------------------------------------------
Active(s) == db[s].status = "active"
Sid(r) == req[r].sid
FreshSids == {s \in Sids : \A j \in Jtis : token[j].sid # s}
FreshJtis == {j \in Jtis : token[j].sid = NoSid /\ \A r \in Requests : req[r].new # j}
UserSids(u) == {s \in Sids : Owner[s] = u}

At(r, step) == pc[r] = step
Goto(r, step) == pc' = [pc EXCEPT ![r] = step]

(* UPDATE takes the row's lock, and waits for it if another transaction has it *)
LockFree(r, s) == lock[s] \in {NoRequest, r}
LockRow(r, s) == LockFree(r, s) /\ lock' = [lock EXCEPT ![s] = r]
Unlock(r) == lock' = [s \in Sids |-> IF lock[s] = r THEN NoRequest ELSE lock[s]]

(* The request is over: its transaction is closed and its locks released.     *)
Finish(r) ==
  /\ Goto(r, "idle") /\ Unlock(r)
  /\ req' = [req EXCEPT ![r] = NoReq]
  /\ txn' = [txn EXCEPT ![r] = NoTxn]

(* Mutant of Reject: get_db does not roll back, the row locks stay.             *)
RejectKeepsLocks(r) ==
  /\ Goto(r, "idle")
  /\ req' = [req EXCEPT ![r] = NoReq]
  /\ txn' = [txn EXCEPT ![r] = NoTxn]
  /\ UNCHANGED <<db, lock, redis, clients, lost>>

(* An exception leaves the handler: the transaction is rolled back when the     *)
(* session of get_db is closed. db_dependency does not pass the exception on to  *)
(* it, so that may be after the error has been sent: a Reject that comes late.   *)
Reject(r) == Finish(r) /\ UNCHANGED <<db, redis, clients, lost>>

(* SELECT of the rows of S: the request's own row, if validation has loaded it, *)
(* is in the identity map and keeps the values it was loaded with.              *)
LoadRows(r, S) ==
  {[sid |-> s, jti |-> IF s = Sid(r) /\ txn[r].own # NoJti THEN txn[r].own ELSE db[s].jti] :
     s \in S}

(* For CommitWholeRows: UPDATE writes the whole row, as it was loaded.         *)
ApplyWholeRow(r) ==
  [s \in Sids |->
    [status |-> IF s \in txn[r].ends THEN "ended"
                ELSE IF lock[s] = r \/ (req[r].op = "login" /\ s = Sid(r)) THEN "active"
                ELSE db[s].status,
     jti |-> IF s = Sid(r) /\ txn[r].bound # NoJti THEN txn[r].bound ELSE db[s].jti]]

(* What COMMIT makes of the rows: UPDATE wrote the dirty columns only.        *)
Apply(r) ==
  [s \in Sids |->
    [status |-> CASE s \in txn[r].ends -> "ended"
                  [] req[r].op = "login" /\ s = Sid(r) -> "active"
                  [] OTHER -> db[s].status,
     jti |-> IF s = Sid(r) /\ txn[r].bound # NoJti THEN txn[r].bound ELSE db[s].jti]]

SinceNow(op, s, tok) ==
  [row |-> IF op = "logout" THEN "absent" ELSE db[s].status,
   acked |-> op \in AuthOps /\ s \in acked,
   spent |-> \E j \in Jtis : tok # NoJti /\ token[j].parent = tok,
   live |-> {t \in UserSids(Owner[s]) : op = "logout_all" /\ Active(t)}]

-------------------------------------------------------------------------------
(* login and its second factors, from the moment the credentials are accepted: *)
(* tokens are minted for a new session id and its row is inserted, uncommitted. *)
Login(r) ==
  /\ At(r, "idle")
  /\ "login" \in ClientOps
  /\ \E s \in FreshSids, j \in FreshJtis :
       /\ token' = [token EXCEPT ![j] = [sid |-> s, parent |-> NoJti]]
       /\ req' = [req EXCEPT ![r] = [NoReq EXCEPT !.op = "login", !.sid = s, !.new = j]]
       /\ txn' = [txn EXCEPT ![r].bound = j]
  /\ Goto(r, "respond")
  /\ UNCHANGED <<db, lock, redis, held, acked, lost>>

(* A request with the access token of session s.                               *)
BeginAuth(r) ==
  /\ At(r, "idle")
  /\ \E j \in held, op \in AuthOps \cap ClientOps, t \in Sids \cup {NoSid} :
       /\ (op = "revoke_session") = (t # NoSid)
       /\ req' = [req EXCEPT ![r] = [NoReq EXCEPT !.op = op, !.sid = token[j].sid,
                    !.target = t, !.since = SinceNow(op, token[j].sid, NoJti)]]
  /\ Goto(r, "check")
  /\ UNCHANGED <<db, lock, redis, clients, lost, txn>>

CheckFlag(r) ==
  /\ At(r, "check")
  /\ IF Sid(r) \in revoked
       THEN Reject(r)
       ELSE Goto(r, "load") /\ UNCHANGED <<db, lock, redis, clients, lost, req, txn>>

Load(r) ==
  /\ At(r, "load")
  /\ IF Active(Sid(r))
       THEN /\ txn' = [txn EXCEPT ![r].own = db[Sid(r)].jti]
            /\ \E step \in {"expire", "flush_touch", "body"} : Goto(r, step)
            /\ UNCHANGED <<db, lock, redis, clients, lost, req>>
       ELSE Reject(r)

(* _expire: the one UPDATE that is committed before the handler goes on.       *)
Expire(r) ==
  /\ At(r, "expire") /\ LockFree(r, Sid(r))
  /\ db' = [db EXCEPT ![Sid(r)].status = "ended"]
  /\ Goto(r, "expire_flag")
  /\ UNCHANGED <<lock, redis, clients, lost, req, txn>>

ExpireFlag(r) ==
  /\ At(r, "expire_flag")
  /\ revoked' = revoked \cup {Sid(r)}
  /\ Finish(r)
  /\ UNCHANGED <<db, blacklist, clients, lost>>

FlushTouch(r) ==
  /\ At(r, "flush_touch")
  /\ LockRow(r, Sid(r))
  /\ Goto(r, "body")
  /\ UNCHANGED <<db, redis, clients, lost, req, txn>>

(* The sessions the handler goes on to revoke.                                 *)
Revoking(r, S) ==
  /\ txn' = [txn EXCEPT ![r].todo = LoadRows(r, S), ![r].own = NoJti]
  /\ Goto(r, IF S = {} THEN "respond" ELSE "blacklist")
  /\ UNCHANGED <<db, lock, redis, clients, lost, req>>

(* Mutant of ListActive: logout-all leaves out the current session.            *)
ListOthers(r) == {s \in UserSids(Owner[Sid(r)]) \ {Sid(r)} : Active(s)}

ListActive(r) == {s \in UserSids(Owner[Sid(r)]) : Active(s)}

(* Mutant of RevokeByUuid: ownership is not checked.                           *)
RevokeAnyUuid(r) ==
  LET t == req[r].target IN
  IF db[t].status = "absent" THEN Reject(r) ELSE Revoking(r, IF Active(t) THEN {t} ELSE {})

(* get_by_uuid of the target in revoke_by_uuid: its own row is in the identity *)
(* map, loaded as active.                                                      *)
RevokeByUuid(r) ==
  LET t == req[r].target IN
  IF db[t].status = "absent" \/ Owner[t] # Owner[Sid(r)]
    THEN Reject(r)                                      \* 404
    ELSE Revoking(r, IF Active(t) \/ t = Sid(r) THEN {t} ELSE {})

Body(r) ==
  /\ At(r, "body")
  /\ CASE req[r].op = "me" -> Revoking(r, {})
       [] req[r].op = "logout_current" -> Revoking(r, {Sid(r)})
       [] req[r].op = "logout_all" -> Revoking(r, ListActive(r))
       [] req[r].op = "revoke_session" -> RevokeByUuid(r)

-------------------------------------------------------------------------------
(* SessionService.revoke, for each session of todo.                            *)
Blacklist(r) ==
  /\ At(r, "blacklist")
  /\ \E row \in txn[r].todo :
       /\ blacklist' = blacklist \cup {row.jti}
       /\ txn' = [txn EXCEPT ![r].todo = @ \ {row}, ![r].cur = row.sid]
  /\ Goto(r, "flush_end")
  /\ UNCHANGED <<db, lock, revoked, clients, lost, req>>

FlushEnd(r) ==
  /\ At(r, "flush_end")
  /\ LockRow(r, txn[r].cur)
  /\ txn' = [txn EXCEPT ![r].ends = @ \cup {txn[r].cur}]
  /\ Goto(r, "flag")
  /\ UNCHANGED <<db, redis, clients, lost, req>>

(* Where the handler goes on once a session of todo is revoked.                *)
AfterRevoke(r) ==
  CASE txn[r].todo # {} -> "blacklist"
    [] txn[r].todo = {} /\ req[r].op = "refresh" -> "replay_commit"
    [] OTHER -> "respond"

(* Mutant of Flag: revoke forgets the revoked flag.                            *)
FlagNothing(r) ==
  /\ At(r, "flag")
  /\ txn' = [txn EXCEPT ![r].cur = NoSid]
  /\ Goto(r, AfterRevoke(r))
  /\ UNCHANGED <<db, lock, redis, clients, lost, req>>

Flag(r) ==
  /\ At(r, "flag")
  /\ revoked' = revoked \cup {txn[r].cur}
  /\ txn' = [txn EXCEPT ![r].cur = NoSid]
  /\ Goto(r, AfterRevoke(r))
  /\ UNCHANGED <<db, lock, blacklist, clients, lost, req>>

-------------------------------------------------------------------------------
(* A request with a refresh token, one it may have presented before.           *)
BeginRefresh(r) ==
  /\ At(r, "idle")
  /\ \E j \in held, op \in RefreshOps \cap ClientOps, k \in FreshJtis \cup {NoJti} :
       /\ (op = "refresh") = (k # NoJti)
       /\ req' = [req EXCEPT ![r] = [NoReq EXCEPT !.op = op, !.sid = token[j].sid,
                    !.tok = j, !.new = k, !.since = SinceNow(op, token[j].sid, j)]]
  /\ Goto(r, "verify")
  /\ UNCHANGED <<db, lock, redis, clients, lost, txn>>

VerifyRefresh(r) ==
  /\ At(r, "verify")
  /\ Goto(r, CASE req[r].tok \notin blacklist -> "burn"
               [] req[r].op = "refresh" -> "replay"
               [] OTHER -> "respond")     \* logout swallows the AuthError
  /\ UNCHANGED <<db, lock, redis, clients, lost, req, txn>>

(* Mutant of Burn: rotate mints the new pair and lets the old token live.      *)
MintOnly(r) ==
  /\ At(r, "burn")
  /\ token' = IF req[r].op = "refresh"
                THEN [token EXCEPT ![req[r].new] = [sid |-> Sid(r), parent |-> req[r].tok]]
                ELSE token
  /\ Goto(r, "reload")
  /\ UNCHANGED <<db, lock, redis, held, acked, lost, req, txn>>

(* TokenService.revoke; rotate then mints the new pair.                        *)
Burn(r) ==
  /\ At(r, "burn")
  /\ blacklist' = blacklist \cup {req[r].tok}
  /\ token' = IF req[r].op = "refresh"
                THEN [token EXCEPT ![req[r].new] = [sid |-> Sid(r), parent |-> req[r].tok]]
                ELSE token
  /\ Goto(r, "reload")
  /\ UNCHANGED <<db, lock, revoked, held, acked, lost, req, txn>>

(* Mutant of Reload: rebind_refresh does not look at is_active.                *)
ReloadAnyStatus(r) ==
  /\ At(r, "reload")
  /\ IF req[r].op = "logout"
       THEN Revoking(r, {Sid(r)} \cap {s \in Sids : Active(s)})
       ELSE Goto(r, "flush_bind") /\ UNCHANGED <<db, lock, redis, clients, lost, req, txn>>

(* get_by_uuid of rebind_refresh, and of logout.                               *)
Reload(r) ==
  /\ At(r, "reload")
  /\ CASE req[r].op = "logout" -> Revoking(r, {Sid(r)} \cap {s \in Sids : Active(s)})
       [] req[r].op = "refresh" /\ Active(Sid(r)) ->
            Goto(r, "flush_bind") /\ UNCHANGED <<db, lock, redis, clients, lost, req, txn>>
       [] OTHER -> Reject(r)

FlushBind(r) ==
  /\ At(r, "flush_bind")
  /\ LockRow(r, Sid(r))
  /\ txn' = [txn EXCEPT ![r].bound = req[r].new]
  /\ Goto(r, "respond")
  /\ UNCHANGED <<db, redis, clients, lost, req>>

(* _handle_refresh_replay: end the session of the replayed token.              *)
Replay(r) ==
  /\ At(r, "replay")
  /\ IF Active(Sid(r))
       THEN Revoking(r, {Sid(r)})
       ELSE Goto(r, "replayed") /\ UNCHANGED <<db, lock, redis, clients, lost, req, txn>>

(* Mutant of ReplayCommit: the revocation is left to the rollback of the 401.  *)
ReplayUncommitted(r) ==
  /\ At(r, "replay_commit")
  /\ Goto(r, "replayed")
  /\ UNCHANGED <<db, lock, redis, clients, lost, req, txn>>

ReplayCommit(r) ==
  /\ At(r, "replay_commit")
  /\ db' = Apply(r)
  /\ Unlock(r)
  /\ Goto(r, "replayed")
  /\ UNCHANGED <<redis, clients, lost, req, txn>>

Replayed(r) == At(r, "replayed") /\ Reject(r)           \* 401

-------------------------------------------------------------------------------
(* Mutant of Respond: an answer without tokens still stores a token.           *)
RespondAlways(r) ==
  /\ At(r, "respond")
  /\ held' = held \cup {txn[r].bound}
  /\ acked' = acked \cup txn[r].ends
  /\ Goto(r, "commit")
  /\ UNCHANGED <<db, lock, redis, token, lost, req, txn>>

(* The response leaves before the commit: the client has its tokens, or knows  *)
(* its sessions ended, unless the network loses the response.                  *)
Respond(r) ==
  /\ At(r, "respond")
  /\ \/ /\ held' = held \cup ({txn[r].bound} \ {NoJti})
        /\ acked' = acked \cup txn[r].ends
     \/ "lost_response" \in Faults /\ UNCHANGED <<held, acked>>
  /\ Goto(r, "commit")
  /\ UNCHANGED <<db, lock, redis, token, lost, req, txn>>

(* Mutant of Commit: get_db writes back every row it loaded, dirty or not.     *)
CommitWholeRows(r) ==
  /\ At(r, "commit")
  /\ db' = ApplyWholeRow(r)
  /\ Finish(r)
  /\ UNCHANGED <<redis, clients, lost>>

Commit(r) ==
  /\ At(r, "commit")
  /\ db' = Apply(r)
  /\ Finish(r)
  /\ UNCHANGED <<redis, clients, lost>>

(* A failed Redis or PostgreSQL call, the commit included, or a crash of the    *)
(* worker: the transaction is rolled back, what Redis was told stays.           *)
Abort(r) == "abort" \in Faults /\ ~At(r, "idle") /\ Reject(r)

-------------------------------------------------------------------------------
(* The row the request's next UPDATE needs.                                    *)
Wanted(r) ==
  CASE At(r, "flush_touch") \/ At(r, "flush_bind") \/ At(r, "expire") -> Sid(r)
    [] At(r, "flush_end") -> txn[r].cur
    [] OTHER -> NoSid
WaitsFor(r) == IF Wanted(r) = NoSid \/ LockFree(r, Wanted(r)) THEN NoRequest ELSE lock[Wanted(r)]

(* PostgreSQL's deadlock detector fails one transaction of a wait cycle.       *)
InCycle(r) == \E C \in SUBSET Requests : r \in C /\ {WaitsFor(c) : c \in C} = C
DeadlockVictim(r) == InCycle(r) /\ Reject(r)

(* Redis restarts from its last snapshot. Bound: once.                         *)
RedisRestart ==
  /\ "redis_restart" \in Faults /\ ~lost /\ lost' = TRUE
  /\ blacklist' \in SUBSET blacklist
  /\ revoked' \in SUBSET revoked
  /\ UNCHANGED <<db, lock, clients, pc, req, txn>>

Begin(r) == Login(r) \/ BeginAuth(r) \/ BeginRefresh(r)

Step(r) ==
  \/ CheckFlag(r) \/ Load(r) \/ Expire(r) \/ ExpireFlag(r)
  \/ FlushTouch(r) \/ Body(r)
  \/ Blacklist(r) \/ FlushEnd(r) \/ Flag(r)
  \/ VerifyRefresh(r) \/ Burn(r) \/ Reload(r) \/ FlushBind(r)
  \/ Replay(r) \/ ReplayCommit(r) \/ Replayed(r)
  \/ Respond(r) \/ Commit(r)

Next ==
  \/ \E r \in Requests : Begin(r) \/ Step(r) \/ Abort(r) \/ DeadlockVictim(r)
  \/ RedisRestart

Spec == Init /\ [][Next]_vars

(* The event loop resumes every request whose call has returned (weak); row    *)
(* locks are granted in the order they were asked for, so a waiting UPDATE     *)
(* gets its turn (strong); the deadlock detector runs.                         *)
Fairness ==
  /\ \A r \in Requests : SF_vars(Step(r))
  /\ WF_vars(\E r \in Requests : DeadlockVictim(r))
FairSpec == Spec /\ Fairness

-------------------------------------------------------------------------------
(* Type invariant of the rows, the Redis keys and the requests of              *)
(* SessionService and TokenService.                                            *)
TypeOK ==
  /\ db \in [Sids -> Row]
  /\ lock \in [Sids -> Requests \cup {NoRequest}]
  /\ blacklist \subseteq Jtis /\ revoked \subseteq Sids
  /\ token \in [Jtis -> Token] /\ held \subseteq Jtis /\ acked \subseteq Sids
  /\ lost \in BOOLEAN
  /\ pc \in [Requests -> Steps] /\ req \in [Requests -> Request]
  /\ txn \in [Requests -> Transaction]

(* A request that arrives after its session's end was committed gets nowhere:  *)
(* an access token is turned away by validate_and_touch, a refresh token gets  *)
(* no new pair from rebind_refresh, even when Redis has lost the revoked flag  *)
(* and the blacklist.                                                          *)
NoAuthAfterEnd ==
  \A r \in Requests : req[r].since.row = "ended" =>
    /\ req[r].op \in AuthOps => pc[r] \in {"check", "load"}
    /\ req[r].op = "refresh" => pc[r] \notin {"flush_bind", "respond", "commit"}

(* Once a client has been told that a session ended, no access token of it is  *)
(* honoured, although the response leaves before the commit and the commit may *)
(* fail: revoke sets the revoked flag first (while Redis keeps its data).      *)
AckedEndHolds ==
  ~lost => \A r \in Requests :
    req[r].since.acked /\ req[r].op \in AuthOps => At(r, "check")

(* A refresh token that has been rotated is recognised as a replay by every    *)
(* later request: verify_refresh never lets it through to rotate again.        *)
RotatedTokenIsReplay ==
  ~lost => \A r \in Requests :
    req[r].since.spent => pc[r] \notin {"burn", "reload", "flush_bind"}

(* A 401 that ends a session leaves it ended in the database, not just in       *)
(* Redis, although the transaction of a 401 is rolled back: _expire and          *)
(* _handle_refresh_replay commit before it, or somebody else did (a replay finds *)
(* no row while the login that made the token is not committed yet).             *)
EndSurvivesError ==
  \A r \in Requests :
    /\ At(r, "expire_flag") => db[Sid(r)].status = "ended"
    /\ At(r, "replayed") /\ req[r].since.row # "absent" => db[Sid(r)].status = "ended"

(* revoke_all leaves out no session that was active when logout-all arrived:   *)
(* by the time it answers, each is ended or about to be ended by this commit.  *)
LogoutAllComplete ==
  \A r \in Requests : req[r].op = "logout_all" /\ pc[r] \in {"respond", "commit"} =>
    \A s \in req[r].since.live : s \in txn[r].ends \/ db[s].status = "ended"

(* A request revokes sessions of its own user only: revoke_by_uuid answers 404 *)
(* for another user's session.                                                 *)
OwnershipEnforced ==
  \A r \in Requests : 
    \A s \in txn[r].ends \cup {row.sid : row \in txn[r].todo} : Owner[s] = Owner[Sid(r)]

(* The committed rows behave as SessionLedger says: a session is opened once,  *)
(* one commit ends sessions of one user, and no late commit of a concurrent    *)
(* touch or refresh brings an ended session back.                              *)
Ledger == INSTANCE SessionLedger WITH ledger <- [s \in Sids |-> db[s].status]
LedgerSpec == Ledger!Spec

(* Every request is answered and its transaction closed, even when logout-all, *)
(* revoke and refresh wait for each other's row locks.                         *)
EveryRequestEnds == \A r \in Requests : ~At(r, "idle") ~> At(r, "idle")

-------------------------------------------------------------------------------
(* What the repository's comments, tests and README say, and the code does not *)
(* keep (see README, findings).                                                *)

(* A refresh token is rotated once: it has one successor (TokenService.rotate). *)
RotatedOnce ==
  \A j, k \in held : token[j].parent = token[k].parent /\ token[j].parent # NoJti => j = k

(* When the logout route has answered "logged out" and nothing else is under   *)
(* way, nobody holds a working refresh token of a session that is still active. *)
Alone(r) == \A q \in Requests \ {r} : At(q, "idle")
LogoutEndsSession ==
  \A r \in Requests :
    /\ req[r].op = "logout" /\ At(r, "commit") /\ Alone(r)
    /\ Active(Sid(r)) /\ Sid(r) \notin txn[r].ends
    => \A j \in held \ blacklist : token[j].sid # Sid(r)

(* A token found blacklisted by verify_refresh, whose family is therefore      *)
(* killed, is one the client has already exchanged for a newer one; a refresh of *)
(* it that is still under way may yet deliver that one.                         *)
ReplayMeansRotated ==
  \A r \in Requests :
    req[r].op = "refresh" /\ At(r, "blacklist") /\ Alone(r) =>
      \E j \in held : token[j].parent = req[r].tok
===============================================================================
