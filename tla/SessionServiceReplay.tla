------------------------- MODULE SessionServiceReplay -------------------------
(* What the handling of replayed refresh tokens and logout-all guarantee, for  *)
(* any number of requests, users, sessions and tokens and for every            *)
(* combination of operations and failures.                                     *)
EXTENDS SessionServiceSafety

-------------------------------------------------------------------------------
(* A rotated token is blacklisted, and a request that came after the rotation  *)
(* is on the path of the replay.                                               *)
ParentsBurnt == ~lost =>
  \A j \in Jtis : token[j].parent # NoJti => token[j].parent \in blacklist
Spent(r) == ~lost /\ req[r].since.spent =>
  req[r].tok \in blacklist /\ pc[r] \notin {"burn", "reload", "flush_bind"}

(* A rotation blacklists the token before it mints the next one.               *)
LEMMA ParentsStep ==
  ASSUME Base, [Next]_vars, ParentsBurnt
  PROVE  ParentsBurnt'
<1>1. CASE clients' = clients
  BY <1>1, RedisStep DEF ParentsBurnt, clients
<1>2. ASSUME NEW r \in Requests, Login(r) PROVE ParentsBurnt'
  <2>1. PICK i \in FreshJtis, x \in Sids :
          token' = [token EXCEPT ![i] = [sid |-> x, parent |-> NoJti]]
    BY <1>2 DEF Login, FreshSids
  <2>2. blacklist' = blacklist /\ lost' = lost
    BY <1>2 DEF Login, redis
  <2>. QED
    BY <2>1, <2>2 DEF ParentsBurnt, Base, TypeOK
<1>3. ASSUME NEW r \in Requests, Burn(r) PROVE ParentsBurnt'
  <2>1. CASE req[r].op = "refresh"
    <3>1. /\ token' = [token EXCEPT ![req[r].new] = [sid |-> Sid(r), parent |-> req[r].tok]]
          /\ blacklist' = blacklist \cup {req[r].tok} /\ lost' = lost
      BY <1>3, <2>1 DEF Burn
    <3>. QED
      BY <3>1 DEF ParentsBurnt, Base, TypeOK
  <2>2. CASE req[r].op # "refresh"
    BY <1>3, <2>2 DEF Burn, ParentsBurnt
  <2>. QED
    BY <2>1, <2>2
<1>4. ASSUME NEW r \in Requests, Respond(r) PROVE ParentsBurnt'
  BY <1>4 DEF Respond, ParentsBurnt, redis
<1>. QED
  BY <1>1, <1>2, <1>3, <1>4, ClientWriters DEF ClientStep

(* No step lets a request with a rotated token on to the rotation.             *)
LEMMA SpentStep ==
  ASSUME Base, [Next]_vars, ParentsBurnt, NEW q \in Requests, Spent(q)
  PROVE  Spent(q)'
<1>. DEFINE Away == pc[q] \notin {"burn", "reload", "flush_bind"}
<1>1. CASE req'[q] = req[q] /\ (Away => Away')
  BY <1>1, RedisStep DEF Spent
<1>2. CASE req'[q] = NoReq
  BY <1>2 DEF Spent, NoReq
<1>3. ASSUME Login(q) \/ BeginAuth(q) PROVE Spent(q)'
  <2>1. ~req'[q].since.spent
    <3>1. CASE Login(q)
      BY <3>1 DEF Login, Base, TypeOK, NoReq
    <3>2. CASE BeginAuth(q)
      <4>1. PICK j \in held, op \in AuthOps \cap ClientOps, x \in Sids \cup {NoSid} :
              req' = [req EXCEPT ![q] = [NoReq EXCEPT !.op = op, !.sid = token[j].sid,
                        !.target = x, !.since = SinceNow(op, token[j].sid, NoJti)]]
        BY <3>2 DEF BeginAuth
      <4>2. req'[q].since = SinceNow(op, token[j].sid, NoJti)
        BY <4>1 DEF Base, TypeOK, NoReq
      <4>. QED
        BY <4>2 DEF SinceNow
    <3>. QED
      BY <1>3, <3>1, <3>2
  <2>. QED
    BY <2>1 DEF Spent
<1>4. ASSUME BeginRefresh(q) PROVE Spent(q)'
  <2>1. PICK j \in held, op \in RefreshOps \cap ClientOps, k \in FreshJtis \cup {NoJti} :
          req' = [req EXCEPT ![q] = [NoReq EXCEPT !.op = op, !.sid = token[j].sid,
                    !.tok = j, !.new = k, !.since = SinceNow(op, token[j].sid, j)]]
    BY <1>4 DEF BeginRefresh
  <2>2. req'[q].tok = j /\ req'[q].since = SinceNow(op, token[j].sid, j)
    BY <2>1 DEF Base, TypeOK, NoReq
  <2>3. SinceNow(op, token[j].sid, j).spent => \E i \in Jtis : j # NoJti /\ token[i].parent = j
    BY DEF SinceNow
  <2>4. pc'[q] = "verify" /\ blacklist' = blacklist /\ lost' = lost
    BY <1>4 DEF BeginRefresh, Goto, Base, TypeOK, redis
  <2>5. req'[q].since.spent => \E i \in Jtis : j # NoJti /\ token[i].parent = j
    BY <2>2, <2>3, Zenon
  <2>. QED
    BY <2>2, <2>4, <2>5 DEF Spent, ParentsBurnt
<1>5. CASE VerifyRefresh(q)
  BY <1>5 DEF VerifyRefresh, Spent, Goto, Base, TypeOK, redis
<1>6. CASE Burn(q)
  BY <1>6 DEF Burn, Spent, At
<1>7. CASE Reload(q)
  <2>1. pc[q] = "reload" /\ (req'[q] = req[q] \/ req'[q] = NoReq) /\ lost' = lost
    BY <1>7 DEF Reload, Revoking, Reject, Finish, At, Base, TypeOK
  <2>. QED
    BY <1>2, <2>1 DEF Spent
<1>8. CASE pc'[q] \in {"burn", "reload", "flush_bind"} /\ pc'[q] # pc[q]
  <2>1. VerifyRefresh(q) \/ Burn(q) \/ Reload(q)
    <3>1. CASE Login(q) \/ BeginAuth(q) \/ BeginRefresh(q)
      BY <1>8, <3>1 DEF Login, BeginAuth, BeginRefresh, AfterRevoke, Revoking, Reject, Finish, Goto, Base, TypeOK
    <3>2. CASE CheckFlag(q) \/ Load(q) \/ Expire(q) \/ ExpireFlag(q) \/ FlushTouch(q)
      BY <1>8, <3>2 DEF CheckFlag, Load, Expire, ExpireFlag, FlushTouch, AfterRevoke, Revoking, Reject, Finish, Goto, Base, TypeOK
    <3>3. CASE Body(q)
      BY <1>8, <3>3, BodyCases DEF AfterRevoke, Revoking, Reject, Finish, Goto, Base, TypeOK
    <3>4. CASE Blacklist(q) \/ FlushEnd(q) \/ Flag(q)
      BY <1>8, <3>4 DEF Blacklist, FlushEnd, Flag, AfterRevoke, Revoking, Reject, Finish, Goto, Base, TypeOK
    <3>5. CASE FlushBind(q) \/ Replay(q) \/ ReplayCommit(q) \/ Replayed(q)
      BY <1>8, <3>5 DEF FlushBind, Replay, ReplayCommit, Replayed, AfterRevoke, Revoking, Reject, Finish, Goto, Base, TypeOK
    <3>6. CASE Respond(q) \/ Commit(q) \/ Abort(q) \/ DeadlockVictim(q)
      BY <1>8, <3>6 DEF Respond, Commit, Abort, DeadlockVictim, AfterRevoke, Revoking, Reject, Finish, Goto, Base, TypeOK
    <3>. QED
      BY <1>8, <3>1, <3>2, <3>3, <3>4, <3>5, <3>6, Frame DEF Begin, Step
  <2>. QED
    BY <1>5, <1>6, <1>7, <2>1
<1>. QED
  BY <1>1, <1>2, <1>3, <1>4, <1>8, ReqStep

(* While Redis keeps its data, verify_refresh recognises every rotated token as *)
(* a replay: no later request rotates it again.                                 *)
THEOREM RotatedTokenIsReplayHolds == Spec => []RotatedTokenIsReplay
<1>. DEFINE I == ParentsBurnt /\ \A r \in Requests : Spent(r)
<1>1. Init => I
  BY DEF Init, ParentsBurnt, Spent, NoReq
<1>2. Base /\ I /\ [Next]_vars => I'
  BY ParentsStep, SpentStep
<1>3. I => RotatedTokenIsReplay
  BY DEF Spent, RotatedTokenIsReplay
<1>. QED
  BY <1>1, <1>2, <1>3, BaseHolds, PTL DEF Spec

-------------------------------------------------------------------------------
(* A replay revokes the session of the replayed token and nothing else, and is *)
(* answered once that is committed.                                            *)
Family(r) == req[r].op = "refresh" =>
  /\ \A row \in txn[r].todo : row.sid = Sid(r)
  /\ pc[r] \in {"flush_end", "flag"} => txn[r].cur = Sid(r)
  /\ pc[r] \in {"flag", "replay_commit"} => Sid(r) \in txn[r].ends
  /\ pc[r] = "replayed" => req[r].since.row = "absent" \/ db[Sid(r)].status = "ended"

(* No step answers a replay before the end of its session is committed.        *)
LEMMA FamilyStep ==
  ASSUME Base, [Next]_vars, NEW q \in Requests, Arrived(q), Family(q)
  PROVE  Family(q)'
<1>1. CASE req'[q].op # "refresh"
  BY <1>1 DEF Family
<1>2. CASE BeginRefresh(q)
  <2>1. txn'[q].todo = {} /\ pc'[q] = "verify"
    BY <1>2 DEF BeginRefresh, At, Goto, Base, TypeOK, ControlOK, Control, NoTxn
  <2>. QED
    BY <2>1 DEF Family
<1>3. ASSUME req'[q] = req[q], req[q].op = "refresh" PROVE Family(q)'
  <2>1. /\ Sid(q) \in Sids /\ Sid(q)' = Sid(q)
        /\ pc[q] \in Steps /\ txn[q] \in Transaction
        /\ pc[q] \notin {"idle", "check", "load", "expire", "expire_flag", "flush_touch", "body"}
    BY <1>3 DEF Base, TypeOK, ControlOK, Control, At, NoReq, AuthOps, Sid
  <2>2. db[Sid(q)].status = "ended" => db'[Sid(q)].status = "ended"
    BY <2>1, StatusStep
  <2>3. CASE pc'[q] = pc[q] /\ txn'[q] = txn[q]
    BY <1>3, <2>1, <2>2, <2>3 DEF Family
  <2>4. CASE Blacklist(q)
    <3>1. PICK row \in txn[q].todo :
            txn' = [txn EXCEPT ![q].todo = @ \ {row}, ![q].cur = row.sid]
      BY <2>4 DEF Blacklist
    <3>2. txn'[q].todo \subseteq txn[q].todo /\ txn'[q].cur = row.sid
      BY <3>1 DEF Base, TypeOK, Transaction
    <3>3. pc'[q] = "flush_end"
      BY <2>4 DEF Blacklist, Goto, Base, TypeOK
    <3>. QED
      BY <1>3, <2>1, <3>2, <3>3 DEF Family
  <2>5. CASE FlushEnd(q)
    <3>1. /\ txn'[q].todo = txn[q].todo /\ txn'[q].cur = txn[q].cur
          /\ txn'[q].ends = txn[q].ends \cup {txn[q].cur}
          /\ pc[q] = "flush_end" /\ pc'[q] = "flag"
      BY <2>5 DEF FlushEnd, At, Goto, Base, TypeOK, Transaction
    <3>. QED
      BY <1>3, <2>1, <3>1 DEF Family
  <2>6. CASE Flag(q)
    <3>1. /\ txn'[q].todo = txn[q].todo /\ txn'[q].ends = txn[q].ends
          /\ pc[q] = "flag" /\ pc'[q] \in {"blacklist", "replay_commit", "respond"}
      BY <2>6 DEF Flag, AfterRevoke, At, Goto, Base, TypeOK, Transaction
    <3>. QED
      BY <1>3, <2>1, <3>1 DEF Family
  <2>7. CASE Replay(q)
    <3>1. CASE Active(Sid(q))
      <4>1. /\ txn'[q].todo = LoadRows(q, {Sid(q)})
            /\ pc'[q] = "blacklist"
        BY <2>7, <3>1 DEF Replay, Revoking, Goto, Base, TypeOK, Transaction
      <4>2. \A row \in LoadRows(q, {Sid(q)}) : row.sid = Sid(q)
        BY DEF LoadRows
      <4>. QED
        BY <2>1, <4>1, <4>2 DEF Family
    <3>2. CASE ~Active(Sid(q))
      <4>1. pc'[q] = "replayed" /\ txn' = txn /\ db' = db
        BY <2>7, <3>2 DEF Replay, Goto, Base, TypeOK
      <4>2. req[q].since.row = "absent" \/ db[Sid(q)].status = "ended"
        BY <2>1, <3>2 DEF Arrived, Present, Active, Base, TypeOK, Row
      <4>. QED
        BY <1>3, <2>1, <4>1, <4>2 DEF Family
    <3>. QED
      BY <3>1, <3>2
  <2>8. CASE ReplayCommit(q)
    <3>1. pc[q] = "replay_commit" /\ pc'[q] = "replayed" /\ txn' = txn /\ db' = Apply(q)
      BY <2>8 DEF ReplayCommit, At, Goto, Base, TypeOK
    <3>2. db'[Sid(q)].status = "ended"
      BY <1>3, <2>1, <3>1 DEF Family, Apply
    <3>. QED
      BY <1>3, <2>1, <3>1, <3>2 DEF Family
  <2>9. CASE VerifyRefresh(q) \/ Burn(q) \/ Reload(q) \/ FlushBind(q) \/ Respond(q)
    <3>1. txn'[q].todo = txn[q].todo /\ pc'[q] \in {"replay", "burn", "respond", "reload", "flush_bind", "commit"}
      BY <1>3, <2>9, <2>1 DEF VerifyRefresh, Burn, Reload, FlushBind, Respond, Reject, Finish, Goto, At,
           Base, TypeOK, Transaction, NoReq
    <3>. QED
      BY <1>3, <2>1, <3>1 DEF Family
  <2>10. CASE Replayed(q) \/ Commit(q) \/ Abort(q) \/ DeadlockVictim(q)
    <3>1. req'[q] = NoReq
      BY <2>10 DEF Replayed, Commit, Abort, DeadlockVictim, Reject, Finish, Base, TypeOK
    <3>. QED
      BY <3>1 DEF Family, NoReq
  <2>11. CASE Begin(q) \/ CheckFlag(q) \/ Load(q) \/ Expire(q) \/ ExpireFlag(q) \/ FlushTouch(q) \/ Body(q)
    BY <2>1, <2>11 DEF Begin, Login, BeginAuth, BeginRefresh, CheckFlag, Load, Expire, ExpireFlag,
         FlushTouch, Body, At
  <2>. QED
    BY <2>3, <2>4, <2>5, <2>6, <2>7, <2>8, <2>9, <2>10, <2>11, Frame DEF Step
<1>. QED
  <2>1. ASSUME Login(q) \/ BeginAuth(q) PROVE Family(q)'
    <3>1. CASE Login(q)
      BY <1>1, <3>1 DEF Login, Base, TypeOK, NoReq
    <3>2. CASE BeginAuth(q)
      <4>1. PICK j \in held, op \in AuthOps \cap ClientOps, x \in Sids \cup {NoSid} :
              req' = [req EXCEPT ![q] = [NoReq EXCEPT !.op = op, !.sid = token[j].sid,
                        !.target = x, !.since = SinceNow(op, token[j].sid, NoJti)]]
        BY <3>2 DEF BeginAuth
      <4>2. req'[q].op = op
        BY <4>1 DEF Base, TypeOK, NoReq
      <4>. QED
        BY <1>1, <4>2 DEF AuthOps
    <3>. QED
      BY <2>1, <3>1, <3>2
  <2>. QED
    BY <1>1, <1>2, <1>3, <2>1, ReqStep DEF NoReq

(* _expire sets the flag once its UPDATE is committed.                         *)
Lapsed(r) == At(r, "expire_flag") => db[Sid(r)].status = "ended"

LEMMA LapsedStep ==
  ASSUME Base, [Next]_vars, NEW q \in Requests, Lapsed(q)
  PROVE  Lapsed(q)'
<1>1. CASE Expire(q)
  <2>1. Sid(q) \in Sids
    BY <1>1 DEF Expire, At, Base, ControlOK, Control
  <2>. QED
    BY <1>1, <2>1 DEF Expire, Lapsed, Sid, Base, TypeOK, Row
<1>2. ASSUME pc'[q] = pc[q], req'[q] = req[q] PROVE Lapsed(q)'
  <2>. SUFFICES ASSUME pc[q] = "expire_flag" PROVE db'[Sid(q)].status = "ended"
    BY <1>2 DEF Lapsed, At, Sid
  <2>1. Sid(q) \in Sids
    BY DEF At, Base, ControlOK, Control
  <2>. QED
    BY <2>1, StatusStep DEF Lapsed, At
<1>3. CASE pc'[q] # "expire_flag"
  BY <1>3 DEF Lapsed, At
<1>4. ASSUME ~Expire(q), Begin(q) \/ Step(q) \/ Abort(q) \/ DeadlockVictim(q)
      PROVE  pc'[q] # "expire_flag"
  <2>1. CASE Begin(q)
    BY <2>1 DEF Begin, Login, BeginAuth, BeginRefresh, Goto, Base, TypeOK
  <2>2. CASE CheckFlag(q) \/ Load(q) \/ ExpireFlag(q) \/ FlushTouch(q)
    BY <2>2 DEF CheckFlag, Load, ExpireFlag, FlushTouch, Reject, Finish, Goto, Base, TypeOK
  <2>3. CASE Body(q)
    BY <2>3, BodyCases DEF Revoking, Reject, Finish, Goto, Base, TypeOK
  <2>4. CASE Blacklist(q) \/ FlushEnd(q) \/ Flag(q)
    BY <2>4 DEF Blacklist, FlushEnd, Flag, AfterRevoke, Goto, Base, TypeOK
  <2>5. CASE VerifyRefresh(q) \/ Burn(q) \/ FlushBind(q)
    BY <2>5 DEF VerifyRefresh, Burn, FlushBind, Goto, Base, TypeOK
  <2>6. CASE Reload(q) \/ Replay(q)
    <3>1. CASE Reload(q) /\ req[q].op = "logout"
      BY <3>1 DEF Reload, Revoking, Goto, Base, TypeOK
    <3>2. CASE Reload(q) /\ req[q].op # "logout"
      BY <3>2 DEF Reload, Reject, Finish, Goto, Base, TypeOK
    <3>3. CASE Replay(q)
      BY <3>3 DEF Replay, Revoking, Goto, Base, TypeOK
    <3>. QED
      BY <2>6, <3>1, <3>2, <3>3
  <2>7. CASE ReplayCommit(q) \/ Replayed(q) \/ Respond(q) \/ Commit(q)
    BY <2>7 DEF ReplayCommit, Replayed, Respond, Commit, Reject, Finish, Goto, Base, TypeOK
  <2>8. CASE Abort(q) \/ DeadlockVictim(q)
    BY <2>8 DEF Abort, DeadlockVictim, Reject, Finish, Goto, Base, TypeOK
  <2>. QED
    BY <1>4, <2>1, <2>2, <2>3, <2>4, <2>5, <2>6, <2>7, <2>8 DEF Step
<1>. QED
  BY <1>1, <1>2, <1>3, <1>4, Frame

(* EndSurvivesError (_expire, _handle_refresh_replay): a session that a 401 ends *)
(* is ended in the database, whatever else aborts and whatever Redis loses.     *)
THEOREM EndSurvivesErrorHolds == Spec => []EndSurvivesError
<1>. DEFINE Committed == \A r \in Requests : Family(r) /\ Lapsed(r)
<1>1. Init => Committed
  BY DEF Init, Family, Lapsed, NoReq, At
<1>2. Base /\ (\A r \in Requests : Arrived(r)) /\ Committed /\ [Next]_vars => Committed'
  BY FamilyStep, LapsedStep
<1>3. Base /\ Committed => EndSurvivesError
  BY DEF Family, Lapsed, EndSurvivesError, Base, ControlOK, Control, At
<1>. QED
  BY <1>1, <1>2, <1>3, ArrivedHolds, PTL DEF Spec

-------------------------------------------------------------------------------
(* From its SELECT on, logout-all has every session that was active when it    *)
(* arrived in hand, among its writes, or somebody else has ended it.           *)
Covered(r, s) ==
  \/ \E row \in txn[r].todo : row.sid = s
  \/ pc[r] = "flush_end" /\ txn[r].cur = s
  \/ s \in txn[r].ends
  \/ db[s].status = "ended"
Complete(r) == req[r].op = "logout_all" =>
  \A s \in req[r].since.live :
    /\ Present(s) /\ Owner[s] = Owner[Sid(r)]
    /\ pc[r] \in {"blacklist", "flush_end", "flag", "respond", "commit"} => Covered(r, s)

(* No step of logout-all or of another request loses one of them.              *)
LEMMA CompleteStep ==
  ASSUME Base, [Next]_vars, NEW q \in Requests, Complete(q)
  PROVE  Complete(q)'
<1>1. CASE req'[q].op # "logout_all"
  BY <1>1 DEF Complete
<1>2. ASSUME BeginAuth(q), req'[q].op = "logout_all" PROVE Complete(q)'
  <2>1. PICK j \in held, op \in AuthOps \cap ClientOps, x \in Sids \cup {NoSid} :
          req' = [req EXCEPT ![q] = [NoReq EXCEPT !.op = op, !.sid = token[j].sid,
                    !.target = x, !.since = SinceNow(op, token[j].sid, NoJti)]]
    BY <1>2 DEF BeginAuth
  <2>2. req'[q].sid = token[j].sid /\ req'[q].since = SinceNow(op, token[j].sid, NoJti)
    BY <2>1 DEF Base, TypeOK, NoReq
  <2>3. \A s \in SinceNow(op, token[j].sid, NoJti).live :
          s \in Sids /\ Owner[s] = Owner[token[j].sid] /\ Active(s)
    BY DEF SinceNow, UserSids
  <2>4. pc'[q] = "check" /\ db' = db
    BY <1>2 DEF BeginAuth, Goto, Base, TypeOK
  <2>. QED
    BY <2>2, <2>3, <2>4 DEF Complete, Present, Active, Sid
<1>3. ASSUME req'[q] = req[q], req[q].op = "logout_all" PROVE Complete(q)'
  <2>. SUFFICES ASSUME NEW s \in req[q].since.live,
                       pc'[q] \in {"blacklist", "flush_end", "flag", "respond", "commit"}
                PROVE  Covered(q, s)'
    <3>1. \A s \in req[q].since.live : s \in Sids
      BY DEF Base, TypeOK, Request, Since
    <3>. QED
      BY <1>3, <3>1, StatusStep DEF Complete, Sid
  <2>1. /\ s \in Sids /\ Present(s) /\ Owner[s] = Owner[Sid(q)]
        /\ pc[q] \in {"blacklist", "flush_end", "flag", "respond", "commit"} => Covered(q, s)
    BY <1>3 DEF Base, TypeOK, Request, Since, Complete
  <2>2. db[s].status = "ended" => db'[s].status = "ended"
    BY <2>1, StatusStep
  <2>3. CASE pc'[q] = pc[q] /\ txn'[q] = txn[q]
    BY <2>1, <2>2, <2>3 DEF Covered
  <2>4. CASE Body(q)
    <3>1. Revoking(q, ListActive(q))
      BY <1>3, <2>4 DEF Body
    <3>2. txn'[q].todo = LoadRows(q, ListActive(q)) /\ db' = db
      BY <3>1 DEF Revoking, Base, TypeOK, Transaction
    <3>3. CASE Active(s)
      <4>1. s \in ListActive(q)
        BY <2>1, <3>3 DEF ListActive, UserSids
      <4>2. \E row \in LoadRows(q, ListActive(q)) : row.sid = s
        <5>. DEFINE row == [sid |-> s, jti |-> IF s = Sid(q) /\ txn[q].own # NoJti THEN txn[q].own ELSE db[s].jti]
        <5>1. row \in LoadRows(q, ListActive(q))
          BY <4>1, Zenon DEF LoadRows
        <5>2. row.sid = s
          OBVIOUS
        <5>. QED
          BY <5>1, <5>2, Zenon
      <4>. QED
        BY <3>2, <4>2 DEF Covered
    <3>4. CASE ~Active(s)
      <4>1. db[s].status = "ended"
        BY <2>1, <3>4 DEF Active, Present, Base, TypeOK, Row
      <4>. QED
        BY <2>2, <4>1 DEF Covered
    <3>. QED
      BY <3>3, <3>4
  <2>5. CASE Blacklist(q)
    <3>1. PICK row \in txn[q].todo :
            txn' = [txn EXCEPT ![q].todo = @ \ {row}, ![q].cur = row.sid]
      BY <2>5 DEF Blacklist
    <3>2. txn'[q].todo = txn[q].todo \ {row} /\ txn'[q].cur = row.sid /\ txn'[q].ends = txn[q].ends
      BY <3>1 DEF Base, TypeOK, Transaction
    <3>3. pc[q] = "blacklist" /\ pc'[q] = "flush_end"
      BY <2>5 DEF Blacklist, At, Goto, Base, TypeOK
    <3>. QED
      BY <2>1, <2>2, <3>2, <3>3 DEF Covered
  <2>6. CASE FlushEnd(q)
    <3>1. /\ txn'[q].todo = txn[q].todo /\ txn'[q].cur = txn[q].cur
          /\ txn'[q].ends = txn[q].ends \cup {txn[q].cur}
          /\ pc[q] = "flush_end" /\ pc'[q] = "flag"
      BY <2>6 DEF FlushEnd, At, Goto, Base, TypeOK, Transaction
    <3>. QED
      BY <2>1, <2>2, <3>1 DEF Covered
  <2>7. CASE Flag(q)
    <3>1. /\ txn'[q].todo = txn[q].todo /\ txn'[q].ends = txn[q].ends /\ pc[q] = "flag"
      BY <2>7 DEF Flag, At, Base, TypeOK, Transaction
    <3>. QED
      BY <2>1, <2>2, <3>1 DEF Covered
  <2>8. CASE Respond(q)
    BY <2>1, <2>2, <2>8 DEF Respond, At, Covered
  <2>9. CASE Commit(q) \/ ExpireFlag(q) \/ Replayed(q) \/ Abort(q) \/ DeadlockVictim(q)
    <3>1. req'[q] = NoReq
      BY <2>9 DEF Commit, ExpireFlag, Replayed, Abort, DeadlockVictim, Reject, Finish, Base, TypeOK
    <3>. QED
      BY <1>3, <3>1 DEF NoReq
  <2>10. CASE Begin(q) \/ VerifyRefresh(q) \/ Burn(q) \/ Reload(q) \/ FlushBind(q) \/ Replay(q) \/ ReplayCommit(q)
    <3>1. pc[q] \in {"idle", "verify", "burn", "reload", "flush_bind", "replay", "replay_commit"}
      BY <2>10 DEF Begin, Login, BeginAuth, BeginRefresh, VerifyRefresh, Burn, Reload, FlushBind,
           Replay, ReplayCommit, At
    <3>. QED
      BY <1>3, <3>1 DEF Base, ControlOK, Control, At, RefreshOps, NoReq
  <2>11. CASE CheckFlag(q) \/ Load(q) \/ Expire(q) \/ FlushTouch(q)
    BY <1>3, <2>11 DEF CheckFlag, Load, Expire, FlushTouch, Reject, Finish, Goto, Base, TypeOK, NoReq
  <2>. QED
    BY <2>3, <2>4, <2>5, <2>6, <2>7, <2>8, <2>9, <2>10, <2>11, Frame DEF Step
<1>4. ASSUME Login(q) \/ BeginRefresh(q) PROVE Complete(q)'
  <2>1. CASE Login(q)
    BY <1>1, <2>1 DEF Login, Base, TypeOK, NoReq
  <2>2. CASE BeginRefresh(q)
    <3>1. PICK j \in held, op \in RefreshOps \cap ClientOps, k \in FreshJtis \cup {NoJti} :
            req' = [req EXCEPT ![q] = [NoReq EXCEPT !.op = op, !.sid = token[j].sid,
                      !.tok = j, !.new = k, !.since = SinceNow(op, token[j].sid, j)]]
      BY <2>2 DEF BeginRefresh
    <3>2. req'[q].op = op
      BY <3>1 DEF Base, TypeOK, NoReq
    <3>. QED
      BY <1>1, <3>2 DEF RefreshOps
  <2>. QED
    BY <1>4, <2>1, <2>2
<1>. QED
  BY <1>1, <1>2, <1>3, <1>4, ReqStep DEF NoReq

(* When logout-all answers, every session of the user that was active when it  *)
(* arrived has been ended, or is ended by its commit.                          *)
THEOREM LogoutAllCompleteHolds == Spec => []LogoutAllComplete
<1>1. Init => \A r \in Requests : Complete(r)
  BY DEF Init, Complete, NoReq
<1>2. Base /\ (\A r \in Requests : Complete(r)) /\ [Next]_vars => (\A r \in Requests : Complete(r))'
  BY CompleteStep
<1>3. Base /\ (\A r \in Requests : Complete(r)) => LogoutAllComplete
  BY DEF Complete, Covered, LogoutAllComplete, Base, ControlOK, Control
<1>. QED
  BY <1>1, <1>2, <1>3, BaseHolds, PTL DEF Spec

===============================================================================
