------------------------ MODULE SessionServiceSafety ------------------------
(* The safety properties of SessionService, for any number of requests, users, *)
(* sessions and tokens and for every combination of operations and failures,   *)
(* on top of the inductive invariant Base.                                     *)
EXTENDS SessionServiceProofs

-----------------------------------------------------------------------------
(* A request deals with sessions of its own user only.                         *)
Owned(r) ==
  /\ \A s \in txn[r].ends : Owner[s] = Owner[Sid(r)]
  /\ \A row \in txn[r].todo : Owner[row.sid] = Owner[Sid(r)]
  /\ pc[r] \in {"flush_end", "flag"} => Owner[txn[r].cur] = Owner[Sid(r)]

(* A handler that goes on to revoke sessions of its user owns what it has loaded. *)
LEMMA RevokingOwned ==
  ASSUME Base, NEW r \in Requests, NEW S \in SUBSET Sids, Owned(r),
         \A s \in S : Owner[s] = Owner[Sid(r)], Revoking(r, S)
  PROVE  Owned(r)'
<1>1. \A row \in LoadRows(r, S) : row.sid \in S
  BY DEF LoadRows
<1>2. /\ pc'[r] \in {"respond", "blacklist"} /\ req'[r] = req[r]
      /\ txn'[r].todo = LoadRows(r, S) /\ txn'[r].ends = txn[r].ends
  BY DEF Revoking, Goto, Base, TypeOK, Transaction
<1>. QED
  BY <1>1, <1>2 DEF Owned, Sid

(* No step gives a request a session of another user.                         *)
LEMMA OwnedStep ==
  ASSUME Base, [Next]_vars, NEW q \in Requests, Owned(q)
  PROVE  Owned(q)'
<1>0. Finish(q) => Owned(q)'
  BY DEF Finish, Goto, Base, TypeOK, Owned, NoReq, NoTxn
<1>1. CASE pc'[q] = pc[q] /\ req'[q] = req[q] /\ txn'[q] = txn[q]
  BY <1>1 DEF Owned, Sid
<1>2. ASSUME pc'[q] # pc[q] \/ req'[q] # req[q] \/ txn'[q] # txn[q],
             Begin(q) \/ Step(q) \/ Abort(q) \/ DeadlockVictim(q)
      PROVE  Owned(q)'
  <2>1. CASE Login(q)
    <3>1. pc'[q] = "respond" /\ txn'[q].ends = {} /\ txn'[q].todo = {}
      BY <2>1 DEF Login, At, Goto, Base, TypeOK, Transaction, ControlOK, Control, NoTxn
    <3>. QED
      BY <3>1 DEF Owned
  <2>2. CASE BeginAuth(q)
    <3>1. pc'[q] = "check" /\ txn'[q].ends = {} /\ txn'[q].todo = {}
      BY <2>2 DEF BeginAuth, At, Goto, Base, TypeOK, ControlOK, Control, NoTxn
    <3>. QED
      BY <3>1 DEF Owned
  <2>3. CASE BeginRefresh(q)
    <3>1. pc'[q] = "verify" /\ txn'[q].ends = {} /\ txn'[q].todo = {}
      BY <2>3 DEF BeginRefresh, At, Goto, Base, TypeOK, ControlOK, Control, NoTxn
    <3>. QED
      BY <3>1 DEF Owned
  <2>4. CASE CheckFlag(q)
    BY <2>4, <1>0 DEF CheckFlag, Reject, Owned, Sid, At, Goto, Base, TypeOK, Transaction
  <2>5. CASE Load(q)
    <3>1. CASE Active(Sid(q))
      <4>1. /\ pc'[q] \in {"expire", "flush_touch", "body"} /\ req'[q] = req[q]
            /\ txn'[q].todo = txn[q].todo /\ txn'[q].ends = txn[q].ends
        BY <2>5, <3>1 DEF Load, Goto, Base, TypeOK, Transaction
      <4>. QED
        BY <4>1 DEF Owned, Sid
    <3>2. CASE ~Active(Sid(q))
      BY <2>5, <3>2, <1>0 DEF Load, Reject
    <3>. QED
      BY <3>1, <3>2
  <2>6. CASE Expire(q)
    BY <2>6 DEF Expire, Owned, Sid, At, Goto, Base, TypeOK, Transaction
  <2>7. CASE ExpireFlag(q)
    BY <2>7, <1>0 DEF ExpireFlag
  <2>8. CASE FlushTouch(q)
    BY <2>8 DEF FlushTouch, Owned, Sid, At, Goto, Base, TypeOK, Transaction
  <2>9. CASE Body(q)
    <3>1. pc[q] = "body" /\ req[q].op \in AuthOps /\ Sid(q) \in Sids
      BY <2>9 DEF Body, Base, ControlOK, Control, At
    <3>2. ASSUME NEW S \in SUBSET Sids, Revoking(q, S), \A s \in S : Owner[s] = Owner[Sid(q)]
          PROVE  Owned(q)'
      BY <3>2, RevokingOwned
    <3>3. CASE req[q].op = "revoke_session"
      <4>1. req[q].target \in Sids
        BY <3>3 DEF Base, ControlOK, Control
      <4>2. \/ Reject(q)
            \/ \E S \in SUBSET Sids : Revoking(q, S) /\ \A s \in S : Owner[s] = Owner[Sid(q)]
        BY <2>9, <3>3, <4>1 DEF Body, RevokeByUuid
      <4>. QED
        BY <3>2, <4>2, <1>0 DEF Reject
    <3>4. CASE req[q].op = "me"
      <4>1. Revoking(q, {})
        BY <2>9, <3>4 DEF Body
      <4>. QED
        BY <3>2, <4>1
    <3>5. CASE req[q].op = "logout_current"
      <4>1. Revoking(q, {Sid(q)})
        BY <2>9, <3>5 DEF Body
      <4>. QED
        BY <3>1, <3>2, <4>1
    <3>6. CASE req[q].op = "logout_all"
      <4>1. Revoking(q, ListActive(q))
        BY <2>9, <3>6 DEF Body
      <4>. QED
        BY <3>2, <4>1 DEF ListActive, UserSids
    <3>. QED
      BY <3>1, <3>3, <3>4, <3>5, <3>6 DEF AuthOps
  <2>10. CASE Blacklist(q)
    <3>1. PICK row \in txn[q].todo : txn' = [txn EXCEPT ![q].todo = txn[q].todo \ {row}, ![q].cur = row.sid]
      BY <2>10 DEF Blacklist
    <3>2. /\ pc'[q] = "flush_end" /\ req'[q] = req[q]
          /\ txn'[q].todo = txn[q].todo \ {row} /\ txn'[q].cur = row.sid /\ txn'[q].ends = txn[q].ends
      BY <2>10, <3>1 DEF Blacklist, Goto, Base, TypeOK, Transaction
    <3>. QED
      BY <3>2 DEF Owned, Sid
  <2>11. CASE FlushEnd(q)
    <3>1. /\ pc'[q] = "flag" /\ req'[q] = req[q] /\ pc[q] = "flush_end"
          /\ txn'[q].todo = txn[q].todo /\ txn'[q].cur = txn[q].cur
          /\ txn'[q].ends = txn[q].ends \cup {txn[q].cur}
      BY <2>11 DEF FlushEnd, At, Goto, Base, TypeOK, Transaction
    <3>. QED
      BY <3>1 DEF Owned, Sid
  <2>12. CASE Flag(q)
    <3>1. /\ pc'[q] \in {"blacklist", "replay_commit", "respond"} /\ req'[q] = req[q]
          /\ txn'[q].todo = txn[q].todo /\ txn'[q].ends = txn[q].ends
      BY <2>12 DEF Flag, AfterRevoke, Goto, Base, TypeOK, Transaction
    <3>. QED
      BY <3>1 DEF Owned, Sid
  <2>13. CASE VerifyRefresh(q)
    BY <2>13 DEF VerifyRefresh, Owned, Sid, At, Goto, Base, TypeOK, Transaction
  <2>14. CASE Burn(q)
    BY <2>14 DEF Burn, Owned, Sid, At, Goto, Base, TypeOK, Transaction
  <2>15. CASE Reload(q)
    <3>1. CASE req[q].op = "logout"
      <4>1. Revoking(q, {Sid(q)} \cap {s \in Sids : Active(s)})
        BY <2>15, <3>1 DEF Reload
      <4>. QED
        BY <4>1, RevokingOwned
    <3>2. CASE req[q].op = "refresh" /\ Active(Sid(q))
      BY <2>15, <3>2 DEF Reload, Owned, Sid, At, Goto, Base, TypeOK, Transaction
    <3>3. CASE ~(req[q].op = "refresh" /\ Active(Sid(q))) /\ req[q].op # "logout"
      BY <2>15, <3>3, <1>0 DEF Reload, Reject
    <3>. QED
      BY <3>1, <3>2, <3>3
  <2>16. CASE FlushBind(q)
    BY <2>16 DEF FlushBind, Owned, Sid, At, Goto, Base, TypeOK, Transaction
  <2>17. CASE Replay(q)
    <3>1. CASE Active(Sid(q))
      <4>1. Sid(q) \in Sids /\ Revoking(q, {Sid(q)})
        BY <2>17, <3>1 DEF Replay, Base, ControlOK, Control, At
      <4>. QED
        BY <4>1, RevokingOwned
    <3>2. CASE ~Active(Sid(q))
      BY <2>17, <3>2 DEF Replay, Owned, Sid, At, Goto, Base, TypeOK, Transaction
    <3>. QED
      BY <3>1, <3>2
  <2>18. CASE ReplayCommit(q)
    BY <2>18 DEF ReplayCommit, Owned, Sid, At, Goto, Base, TypeOK, Transaction
  <2>19. CASE Replayed(q)
    BY <2>19, <1>0 DEF Replayed, Reject
  <2>20. CASE Respond(q)
    BY <2>20 DEF Respond, Owned, Sid, At, Goto, Base, TypeOK, Transaction
  <2>21. CASE Commit(q)
    BY <2>21, <1>0 DEF Commit
  <2>22. CASE Abort(q)
    BY <2>22, <1>0 DEF Abort, Reject
  <2>23. CASE DeadlockVictim(q)
    BY <2>23, <1>0 DEF DeadlockVictim, Reject
  <2>. QED
    BY <1>2, <2>1, <2>2, <2>3, <2>4, <2>5, <2>6, <2>7, <2>8, <2>9, <2>10, <2>11, <2>12, <2>13, <2>14, <2>15, <2>16, <2>17, <2>18, <2>19, <2>20, <2>21, <2>22, <2>23 DEF Begin, Step
<1>. QED
  BY <1>1, <1>2, Frame

(* So ownership always holds, next to Base. *)
LEMMA OwnedHolds == Spec => [](Base /\ \A r \in Requests : Owned(r))
<1>1. Init => \A r \in Requests : Owned(r)
  BY DEF Init, Owned, NoTxn
<1>2. Base /\ (\A r \in Requests : Owned(r)) /\ [Next]_vars => (\A r \in Requests : Owned(r))'
  BY OwnedStep
<1>. QED
  BY <1>1, <1>2, BaseInit, BaseStep, PTL DEF Spec

(* revoke_by_uuid, revoke_all and the logouts only revoke sessions of the user  *)
(* the request is authenticated as.                                             *)
THEOREM OwnershipHolds == Spec => []OwnershipEnforced
<1>1. (\A r \in Requests : Owned(r)) => OwnershipEnforced
  BY DEF Owned, OwnershipEnforced
<1>. QED
  BY <1>1, OwnedHolds, PTL

-----------------------------------------------------------------------------
(* Every commit opens one session or ends sessions of one user, and nothing else writes rows. *)
LEMMA LedgerStep ==
  ASSUME Base, \A r \in Requests : Owned(r), [Next]_vars
  PROVE  [Ledger!Next]_([s \in Sids |-> db[s].status])
<1>. DEFINE ledger == [s \in Sids |-> db[s].status]
<1>1. CASE db' = db
  BY <1>1
<1>2. ASSUME NEW r \in Requests, NEW S \in SUBSET Sids, \A s \in S : Owner[s] = Owner[Sid(r)],
             Sid(r) \in Sids, ledger' = [s \in Sids |-> IF s \in S THEN "ended" ELSE ledger[s]],
             \A s \in S : Present(s)
      PROVE  Ledger!Next \/ ledger' = ledger
  <2>. DEFINE T == {s \in S : ledger[s] = "active"}
  <2>1. \A s \in S \ T : ledger[s] = "ended"
    <3>1. \A s \in Sids : ledger[s] = db[s].status /\ db[s] \in Row
      BY DEF Base, TypeOK
    <3>. QED
      BY <1>2, <3>1 DEF Present, Row
  <2>2. ledger' = [s \in Sids |-> IF s \in T THEN "ended" ELSE ledger[s]]
    BY <1>2, <2>1
  <2>3. Owner[Sid(r)] \in Users
    BY <1>2, OwnerAssumption
  <2>4. T \in SUBSET Sids /\ \A s \in T : ledger[s] = "active" /\ Owner[s] = Owner[Sid(r)]
    BY <1>2
  <2>5. \E U \in SUBSET Sids : Ledger!End(U)
    <3>. HIDE DEF T
    <3>. QED
      BY <2>2, <2>3, <2>4 DEF Ledger!End
  <2>. QED
    BY <2>5 DEF Ledger!Next
<1>3. ASSUME NEW r \in Requests, Expire(r) PROVE Ledger!Next \/ ledger' = ledger
  <2>1. Present(Sid(r)) /\ Sid(r) \in Sids
    BY <1>3 DEF Expire, At, Base, RowsOK, Rows, ControlOK, Control
  <2>2. ledger' = [s \in Sids |-> IF s \in {Sid(r)} THEN "ended" ELSE ledger[s]]
    BY <1>3, <2>1 DEF Expire, Base, TypeOK, Row
  <2>. QED
    BY <1>2, <2>1, <2>2
<1>4. ASSUME NEW r \in Requests, db' = Apply(r), ~At(r, "idle") PROVE Ledger!Next \/ ledger' = ledger
  <2>1. Sid(r) \in Sids /\ txn[r].ends \subseteq Sids
    BY <1>4 DEF Base, ControlOK, Control, TypeOK, Transaction
  <2>2. CASE req[r].op = "login"
    <3>1. txn[r].ends = {} /\ ~Present(Sid(r))
      BY <2>1, <2>2 DEF Base, RowsOK, Rows, Present
    <3>2. ledger' = [ledger EXCEPT ![Sid(r)] = "active"]
      BY <1>4, <2>1, <2>2, <3>1 DEF Apply
    <3>. QED
      BY <2>1, <3>1, <3>2 DEF Ledger!Next, Ledger!Open, Present
  <2>3. CASE req[r].op # "login"
    <3>1. ledger' = [s \in Sids |-> IF s \in txn[r].ends THEN "ended" ELSE ledger[s]]
      BY <1>4, <2>3 DEF Apply
    <3>2. \A s \in txn[r].ends : Owner[s] = Owner[Sid(r)] /\ Present(s)
      BY DEF Owned, Base, RowsOK, Rows
    <3>. QED
      BY <1>2, <2>1, <3>1, <3>2
  <2>. QED
    BY <2>2, <2>3
<1>. QED
  BY <1>1, <1>3, <1>4, DbWriters DEF Commit, ReplayCommit, At

(* However requests, failures and cache losses interleave, the stored sessions  *)
(* are opened once, ended by their own user's requests, and never come back.    *)
THEOREM LedgerImplemented == Spec => LedgerSpec
<1>1. Spec => [](Base /\ \A r \in Requests : Owned(r))
  BY OwnedHolds
<1>2. Init => Ledger!Init
  BY DEF Init, Ledger!Init
<1>. QED
  BY <1>1, <1>2, LedgerStep, PTL DEF Spec, LedgerSpec, Ledger!Spec

-----------------------------------------------------------------------------
(* What a request saw of its session's row on arrival is still so, and if that *)
(* was an ended session, the request gets nowhere.                             *)
TurnedAway(r) ==
  /\ req[r].op \in AuthOps => pc[r] \in {"check", "load"}
  /\ req[r].op = "refresh" => pc[r] \notin {"flush_bind", "respond", "commit"}
Arrived(r) ==
  /\ req[r].since.row # "absent" => Present(Sid(r))
  /\ req[r].since.row = "ended" => db[Sid(r)].status = "ended" /\ TurnedAway(r)

(* No other request undoes what a request saw: an ended session stays ended. *)
LEMMA KeepArrived ==
  ASSUME Base, [Next]_vars, NEW r \in Requests, Arrived(r), req'[r] = req[r],
         db[Sid(r)].status = "ended" /\ TurnedAway(r) => TurnedAway(r)'
  PROVE  Arrived(r)'
<1>1. CASE req[r].since.row = "absent"
  BY <1>1 DEF Arrived
<1>2. CASE Sid(r) \in Sids
  BY <1>2, StatusStep DEF Arrived, Sid
<1>3. CASE At(r, "idle")
  <2>1. req[r].since.row = "absent"
    BY <1>3 DEF Base, ControlOK, Control, NoReq
  <2>. QED
    BY <1>1, <2>1
<1>. QED
  BY <1>2, <1>3 DEF Base, ControlOK, Control

(* No step lets a request on an ended session get on.                          *)
LEMMA ArrivedStep ==
  ASSUME Base, [Next]_vars, NEW q \in Requests, Arrived(q)
  PROVE  Arrived(q)'
<1>0. Finish(q) => Arrived(q)'
  BY DEF Finish, Goto, Base, TypeOK, Arrived, NoReq
<1>1. CASE pc'[q] = pc[q] /\ req'[q] = req[q] /\ txn'[q] = txn[q]
  BY <1>1, KeepArrived DEF TurnedAway
<1>2. ASSUME pc'[q] # pc[q] \/ req'[q] # req[q] \/ txn'[q] # txn[q],
             Begin(q) \/ Step(q) \/ Abort(q) \/ DeadlockVictim(q)
      PROVE  Arrived(q)'
  <2>1. CASE Login(q)
    <3>1. req'[q].since.row = "absent"
      BY <2>1 DEF Login, Base, TypeOK, NoReq
    <3>. QED
      BY <3>1 DEF Arrived
  <2>2. CASE BeginAuth(q)
    <3>1. PICK j \in held, op \in AuthOps \cap ClientOps, x \in Sids \cup {NoSid} :
            req' = [req EXCEPT ![q] = [NoReq EXCEPT !.op = op, !.sid = token[j].sid,
                      !.target = x, !.since = SinceNow(op, token[j].sid, NoJti)]]
      BY <2>2 DEF BeginAuth
    <3>2. req'[q].op = op /\ req'[q].sid = token[j].sid
          /\ req'[q].since = SinceNow(op, token[j].sid, NoJti)
      BY <3>1 DEF Base, TypeOK, NoReq
    <3>3. req'[q].since.row \in {"absent", db[token[j].sid].status}
      BY <3>2 DEF SinceNow
    <3>4. pc'[q] = "check" /\ db' = db
      BY <2>2 DEF BeginAuth, Goto, Base, TypeOK
    <3>. QED
      BY <3>2, <3>3, <3>4 DEF Arrived, TurnedAway, Present, Sid, AuthOps
  <2>3. CASE BeginRefresh(q)
    <3>1. PICK j \in held, op \in RefreshOps \cap ClientOps, k \in FreshJtis \cup {NoJti} :
            req' = [req EXCEPT ![q] = [NoReq EXCEPT !.op = op, !.sid = token[j].sid,
                      !.tok = j, !.new = k, !.since = SinceNow(op, token[j].sid, j)]]
      BY <2>3 DEF BeginRefresh
    <3>2. req'[q].op = op /\ req'[q].sid = token[j].sid
          /\ req'[q].since = SinceNow(op, token[j].sid, j)
      BY <3>1 DEF Base, TypeOK, NoReq
    <3>3. req'[q].since.row \in {"absent", db[token[j].sid].status}
      BY <3>2 DEF SinceNow
    <3>4. pc'[q] = "verify" /\ db' = db
      BY <2>3 DEF BeginRefresh, Goto, Base, TypeOK
    <3>. QED
      BY <3>2, <3>3, <3>4 DEF Arrived, TurnedAway, Present, Sid, AuthOps, RefreshOps
  <2>4. CASE CheckFlag(q)
    <3>1. CASE Sid(q) \notin revoked
      <4>1. req'[q] = req[q] /\ (db[Sid(q)].status = "ended" /\ TurnedAway(q) => TurnedAway(q)')
        BY <2>4, <3>1 DEF CheckFlag, TurnedAway, At, Goto, Base, TypeOK, ControlOK, Control, AuthOps, RefreshOps
      <4>. QED
        BY <4>1, KeepArrived
    <3>2. CASE ~(Sid(q) \notin revoked)
      BY <2>4, <3>2, <1>0 DEF CheckFlag, Reject
    <3>. QED
      BY <3>1, <3>2
  <2>5. CASE Load(q)
    <3>1. CASE Active(Sid(q))
      <4>1. req'[q] = req[q] /\ (db[Sid(q)].status = "ended" /\ TurnedAway(q) => TurnedAway(q)')
        BY <2>5, <3>1 DEF Load, TurnedAway, At, Goto, Base, TypeOK, ControlOK, Control, AuthOps, RefreshOps, Active
      <4>. QED
        BY <4>1, KeepArrived
    <3>2. CASE ~(Active(Sid(q)))
      BY <2>5, <3>2, <1>0 DEF Load, Reject
    <3>. QED
      BY <3>1, <3>2
  <2>6. CASE Expire(q)
    <3>1. req'[q] = req[q] /\ (db[Sid(q)].status = "ended" /\ TurnedAway(q) => TurnedAway(q)')
      BY <2>6 DEF Expire, TurnedAway, At, Goto, Base, TypeOK, ControlOK, Control, AuthOps, RefreshOps
    <3>. QED
      BY <3>1, KeepArrived
  <2>7. CASE ExpireFlag(q)
    BY <2>7, <1>0 DEF ExpireFlag
  <2>8. CASE FlushTouch(q)
    <3>1. req'[q] = req[q] /\ (db[Sid(q)].status = "ended" /\ TurnedAway(q) => TurnedAway(q)')
      BY <2>8 DEF FlushTouch, TurnedAway, At, Goto, Base, TypeOK, ControlOK, Control, AuthOps, RefreshOps
    <3>. QED
      BY <3>1, KeepArrived
  <2>9. CASE Body(q)
    <3>1. pc[q] = "body" /\ req[q].op \in AuthOps
      BY <2>9 DEF Body, Base, ControlOK, Control, At
    <3>2. CASE Reject(q)
      BY <3>2, <1>0 DEF Reject
    <3>3. ASSUME NEW S \in SUBSET Sids, Revoking(q, S) PROVE Arrived(q)'
      <4>1. req'[q] = req[q] /\ ~TurnedAway(q)
        BY <3>1, <3>3 DEF Revoking, TurnedAway
      <4>. QED
        BY <4>1, KeepArrived
    <3>. QED
      BY <2>9, <3>2, <3>3, BodyCases
  <2>10. CASE Blacklist(q)
    <3>1. req'[q] = req[q] /\ (db[Sid(q)].status = "ended" /\ TurnedAway(q) => TurnedAway(q)')
      BY <2>10 DEF Blacklist, TurnedAway, At, Goto, Base, TypeOK, ControlOK, Control, AuthOps, RefreshOps
    <3>. QED
      BY <3>1, KeepArrived
  <2>11. CASE FlushEnd(q)
    <3>1. req'[q] = req[q] /\ (db[Sid(q)].status = "ended" /\ TurnedAway(q) => TurnedAway(q)')
      BY <2>11 DEF FlushEnd, TurnedAway, At, Goto, Base, TypeOK, ControlOK, Control, AuthOps, RefreshOps
    <3>. QED
      BY <3>1, KeepArrived
  <2>12. CASE Flag(q)
    <3>1. req'[q] = req[q] /\ (db[Sid(q)].status = "ended" /\ TurnedAway(q) => TurnedAway(q)')
      BY <2>12 DEF Flag, TurnedAway, At, Goto, Base, TypeOK, ControlOK, Control, AuthOps, RefreshOps, AfterRevoke
    <3>. QED
      BY <3>1, KeepArrived
  <2>13. CASE VerifyRefresh(q)
    <3>1. req'[q] = req[q] /\ (db[Sid(q)].status = "ended" /\ TurnedAway(q) => TurnedAway(q)')
      BY <2>13 DEF VerifyRefresh, TurnedAway, At, Goto, Base, TypeOK, ControlOK, Control, AuthOps, RefreshOps
    <3>. QED
      BY <3>1, KeepArrived
  <2>14. CASE Burn(q)
    <3>1. req'[q] = req[q] /\ (db[Sid(q)].status = "ended" /\ TurnedAway(q) => TurnedAway(q)')
      BY <2>14 DEF Burn, TurnedAway, At, Goto, Base, TypeOK, ControlOK, Control, AuthOps, RefreshOps
    <3>. QED
      BY <3>1, KeepArrived
  <2>15. CASE Reload(q)
    <3>1. CASE req[q].op = "logout"
      <4>1. req'[q] = req[q] /\ TurnedAway(q)'
        BY <2>15, <3>1 DEF Reload, Revoking, TurnedAway, AuthOps
      <4>. QED
        BY <4>1, KeepArrived
    <3>2. CASE req[q].op = "refresh" /\ Active(Sid(q))
      <4>1. req'[q] = req[q] /\ db[Sid(q)].status # "ended"
        BY <2>15, <3>2 DEF Reload, Active
      <4>. QED
        BY <4>1, KeepArrived
    <3>3. CASE ~(req[q].op = "refresh" /\ Active(Sid(q))) /\ req[q].op # "logout"
      BY <2>15, <3>3, <1>0 DEF Reload, Reject
    <3>. QED
      BY <3>1, <3>2, <3>3
  <2>16. CASE FlushBind(q)
    <3>1. req'[q] = req[q] /\ (db[Sid(q)].status = "ended" /\ TurnedAway(q) => TurnedAway(q)')
      BY <2>16 DEF FlushBind, TurnedAway, At, Goto, Base, TypeOK, ControlOK, Control, AuthOps, RefreshOps
    <3>. QED
      BY <3>1, KeepArrived
  <2>17. CASE Replay(q)
    <3>1. CASE Active(Sid(q))
      <4>1. req'[q] = req[q] /\ db[Sid(q)].status # "ended"
        BY <2>17, <3>1 DEF Replay, Revoking, Active
      <4>. QED
        BY <4>1, KeepArrived
    <3>2. CASE ~Active(Sid(q))
      <4>1. req'[q] = req[q] /\ (db[Sid(q)].status = "ended" /\ TurnedAway(q) => TurnedAway(q)')
        BY <2>17, <3>2 DEF Replay, TurnedAway, At, Goto, Base, TypeOK, ControlOK, Control, AuthOps, RefreshOps
      <4>. QED
        BY <4>1, KeepArrived
    <3>. QED
      BY <3>1, <3>2
  <2>18. CASE ReplayCommit(q)
    <3>1. req'[q] = req[q] /\ (db[Sid(q)].status = "ended" /\ TurnedAway(q) => TurnedAway(q)')
      BY <2>18 DEF ReplayCommit, TurnedAway, At, Goto, Base, TypeOK, ControlOK, Control, AuthOps, RefreshOps
    <3>. QED
      BY <3>1, KeepArrived
  <2>19. CASE Replayed(q)
    BY <2>19, <1>0 DEF Replayed, Reject
  <2>20. CASE Respond(q)
    <3>1. req'[q] = req[q] /\ (db[Sid(q)].status = "ended" /\ TurnedAway(q) => TurnedAway(q)')
      BY <2>20 DEF Respond, TurnedAway, At, Goto, Base, TypeOK, ControlOK, Control, AuthOps, RefreshOps
    <3>. QED
      BY <3>1, KeepArrived
  <2>21. CASE Commit(q)
    BY <2>21, <1>0 DEF Commit
  <2>22. CASE Abort(q)
    BY <2>22, <1>0 DEF Abort, Reject
  <2>23. CASE DeadlockVictim(q)
    BY <2>23, <1>0 DEF DeadlockVictim, Reject
  <2>. QED
    BY <1>2, <2>1, <2>2, <2>3, <2>4, <2>5, <2>6, <2>7, <2>8, <2>9, <2>10, <2>11, <2>12, <2>13, <2>14, <2>15, <2>16, <2>17, <2>18, <2>19, <2>20, <2>21, <2>22, <2>23 DEF Begin, Step
<1>. QED
  BY <1>1, <1>2, Frame

(* So what was seen on arrival always holds. *)
LEMMA ArrivedHolds == Spec => [](Base /\ \A r \in Requests : Arrived(r))
<1>1. Init => \A r \in Requests : Arrived(r)
  BY DEF Init, Arrived, NoReq
<1>2. Base /\ (\A r \in Requests : Arrived(r)) /\ [Next]_vars => (\A r \in Requests : Arrived(r))'
  BY ArrivedStep
<1>. QED
  BY <1>1, <1>2, BaseInit, BaseStep, PTL DEF Spec

(* Neither an access token nor a refresh token of a session gets anywhere once *)
(* the session's end is committed, even if Redis has lost every key.           *)
THEOREM NoAuthAfterEndHolds == Spec => []NoAuthAfterEnd
<1>1. (\A r \in Requests : Arrived(r)) => NoAuthAfterEnd
  BY DEF Arrived, TurnedAway, NoAuthAfterEnd
<1>. QED
  BY <1>1, ArrivedHolds, PTL

-----------------------------------------------------------------------------
(* As long as Redis keeps its data, flags and blacklist entries only come.     *)
LEMMA RedisStep ==
  ASSUME Base, [Next]_vars
  PROVE  lost' \/ (~lost /\ revoked \subseteq revoked' /\ blacklist \subseteq blacklist')
<1>1. ASSUME NEW r \in Requests, Login(r) PROVE lost' \/ (~lost /\ revoked \subseteq revoked' /\ blacklist \subseteq blacklist')
  BY <1>1 DEF Login, redis, clients
<1>2. ASSUME NEW r \in Requests, BeginAuth(r) PROVE lost' \/ (~lost /\ revoked \subseteq revoked' /\ blacklist \subseteq blacklist')
  BY <1>2 DEF BeginAuth, redis, clients
<1>3. ASSUME NEW r \in Requests, BeginRefresh(r) PROVE lost' \/ (~lost /\ revoked \subseteq revoked' /\ blacklist \subseteq blacklist')
  BY <1>3 DEF BeginRefresh, redis, clients
<1>4. ASSUME NEW r \in Requests, CheckFlag(r) PROVE lost' \/ (~lost /\ revoked \subseteq revoked' /\ blacklist \subseteq blacklist')
  BY <1>4 DEF CheckFlag, Reject, redis, clients
<1>5. ASSUME NEW r \in Requests, Load(r) PROVE lost' \/ (~lost /\ revoked \subseteq revoked' /\ blacklist \subseteq blacklist')
  BY <1>5 DEF Load, Reject, redis, clients
<1>6. ASSUME NEW r \in Requests, Expire(r) PROVE lost' \/ (~lost /\ revoked \subseteq revoked' /\ blacklist \subseteq blacklist')
  BY <1>6 DEF Expire, redis, clients
<1>7. ASSUME NEW r \in Requests, ExpireFlag(r) PROVE lost' \/ (~lost /\ revoked \subseteq revoked' /\ blacklist \subseteq blacklist')
  BY <1>7 DEF ExpireFlag, redis, clients
<1>8. ASSUME NEW r \in Requests, FlushTouch(r) PROVE lost' \/ (~lost /\ revoked \subseteq revoked' /\ blacklist \subseteq blacklist')
  BY <1>8 DEF FlushTouch, redis, clients
<1>9. ASSUME NEW r \in Requests, Body(r) PROVE lost' \/ (~lost /\ revoked \subseteq revoked' /\ blacklist \subseteq blacklist')
  BY <1>9, BodyCases DEF Revoking, Reject, redis, clients
<1>10. ASSUME NEW r \in Requests, Blacklist(r) PROVE lost' \/ (~lost /\ revoked \subseteq revoked' /\ blacklist \subseteq blacklist')
  BY <1>10 DEF Blacklist, redis, clients
<1>11. ASSUME NEW r \in Requests, FlushEnd(r) PROVE lost' \/ (~lost /\ revoked \subseteq revoked' /\ blacklist \subseteq blacklist')
  BY <1>11 DEF FlushEnd, redis, clients
<1>12. ASSUME NEW r \in Requests, Flag(r) PROVE lost' \/ (~lost /\ revoked \subseteq revoked' /\ blacklist \subseteq blacklist')
  BY <1>12 DEF Flag, redis, clients
<1>13. ASSUME NEW r \in Requests, VerifyRefresh(r) PROVE lost' \/ (~lost /\ revoked \subseteq revoked' /\ blacklist \subseteq blacklist')
  BY <1>13 DEF VerifyRefresh, redis, clients
<1>14. ASSUME NEW r \in Requests, Burn(r) PROVE lost' \/ (~lost /\ revoked \subseteq revoked' /\ blacklist \subseteq blacklist')
  BY <1>14 DEF Burn, redis, clients
<1>15. ASSUME NEW r \in Requests, Reload(r) PROVE lost' \/ (~lost /\ revoked \subseteq revoked' /\ blacklist \subseteq blacklist')
  BY <1>15 DEF Reload, Revoking, Reject, redis, clients
<1>16. ASSUME NEW r \in Requests, FlushBind(r) PROVE lost' \/ (~lost /\ revoked \subseteq revoked' /\ blacklist \subseteq blacklist')
  BY <1>16 DEF FlushBind, redis, clients
<1>17. ASSUME NEW r \in Requests, Replay(r) PROVE lost' \/ (~lost /\ revoked \subseteq revoked' /\ blacklist \subseteq blacklist')
  BY <1>17 DEF Replay, Revoking, redis, clients
<1>18. ASSUME NEW r \in Requests, ReplayCommit(r) PROVE lost' \/ (~lost /\ revoked \subseteq revoked' /\ blacklist \subseteq blacklist')
  BY <1>18 DEF ReplayCommit, redis, clients
<1>19. ASSUME NEW r \in Requests, Replayed(r) PROVE lost' \/ (~lost /\ revoked \subseteq revoked' /\ blacklist \subseteq blacklist')
  BY <1>19 DEF Replayed, Reject, redis, clients
<1>20. ASSUME NEW r \in Requests, Respond(r) PROVE lost' \/ (~lost /\ revoked \subseteq revoked' /\ blacklist \subseteq blacklist')
  BY <1>20 DEF Respond, redis, clients
<1>21. ASSUME NEW r \in Requests, Commit(r) PROVE lost' \/ (~lost /\ revoked \subseteq revoked' /\ blacklist \subseteq blacklist')
  BY <1>21 DEF Commit, redis, clients
<1>22. ASSUME NEW r \in Requests, Abort(r) PROVE lost' \/ (~lost /\ revoked \subseteq revoked' /\ blacklist \subseteq blacklist')
  BY <1>22 DEF Abort, Reject, redis, clients
<1>23. ASSUME NEW r \in Requests, DeadlockVictim(r) PROVE lost' \/ (~lost /\ revoked \subseteq revoked' /\ blacklist \subseteq blacklist')
  BY <1>23 DEF DeadlockVictim, Reject, redis, clients
<1>24. CASE RedisRestart
  BY <1>24 DEF RedisRestart, clients
<1>25. CASE UNCHANGED vars
  BY <1>25 DEF vars, redis, clients
<1>. QED
  BY <1>1, <1>2, <1>3, <1>4, <1>5, <1>6, <1>7, <1>8, <1>9, <1>10, <1>11, <1>12, <1>13, <1>14, <1>15, <1>16, <1>17, <1>18, <1>19, <1>20, <1>21, <1>22, <1>23, <1>24, <1>25 DEF Next, Begin, Step

(* A session a transaction has ended has its revoked flag, except between the   *)
(* flush and the flag; a request that came after the answer finds the flag.     *)
Flagged(r) ==
  ~lost =>
    /\ \A s \in txn[r].ends : s \in revoked \/ (At(r, "flag") /\ s = txn[r].cur)
    /\ req[r].since.acked => Sid(r) \in revoked /\ (req[r].op \in AuthOps => At(r, "check"))
AckedFlagged == ~lost => acked \subseteq revoked
FlagsOK == AckedFlagged /\ \A r \in Requests : Flagged(r)

(* A client is told of the end of flagged sessions only. *)
LEMMA AckedFlaggedStep ==
  ASSUME Base, FlagsOK, [Next]_vars
  PROVE  AckedFlagged'
<1>1. CASE acked' = acked
  BY <1>1, RedisStep DEF FlagsOK, AckedFlagged
<1>2. CASE acked' # acked
  <2>1. PICK r \in Requests : Respond(r)
    BY <1>2, ClientWriters DEF ClientStep, Login, Burn, clients
  <2>2. acked' = acked \cup txn[r].ends /\ pc[r] = "respond" /\ revoked' = revoked /\ lost' = lost
    BY <1>2, <2>1 DEF Respond, At, redis
  <2>. QED
    BY <2>2 DEF FlagsOK, AckedFlagged, Flagged, At
<1>. QED
  BY <1>1, <1>2

(* A step that neither ends a session nor leaves the flag check behind.         *)
LEMMA KeepFlagged ==
  ASSUME Base, [Next]_vars, NEW r \in Requests, Flagged(r), req'[r] = req[r],
         txn'[r].ends = txn[r].ends, ~At(r, "flag"),
         req[r].op \in AuthOps /\ At(r, "check") => At(r, "check")'
  PROVE  Flagged(r)'
  BY RedisStep DEF Flagged, Sid

(* Every step keeps the flags a request relies on.                              *)
LEMMA FlaggedStep ==
  ASSUME Base, [Next]_vars, NEW q \in Requests, FlagsOK, Flagged(q)
  PROVE  Flagged(q)'
<1>0. Finish(q) => Flagged(q)'
  BY DEF Finish, Goto, Base, TypeOK, Flagged, NoReq, NoTxn
<1>1. CASE pc'[q] = pc[q] /\ req'[q] = req[q] /\ txn'[q] = txn[q]
  <2>1. CASE At(q, "flag")
    BY <1>1, <2>1, RedisStep DEF Flagged, At, Sid
  <2>2. CASE ~At(q, "flag")
    BY <1>1, <2>2, KeepFlagged DEF At
  <2>. QED
    BY <2>1, <2>2
<1>2. ASSUME pc'[q] # pc[q] \/ req'[q] # req[q] \/ txn'[q] # txn[q],
             Begin(q) \/ Step(q) \/ Abort(q) \/ DeadlockVictim(q)
      PROVE  Flagged(q)'
  <2>1. CASE Login(q)
    <3>1. req'[q].since.acked = FALSE /\ txn'[q].ends = {}
      BY <2>1 DEF Login, At, Base, TypeOK, ControlOK, Control, Transaction, NoReq, NoTxn
    <3>. QED
      BY <3>1 DEF Flagged
  <2>2. CASE BeginAuth(q)
    <3>1. PICK j \in held, op \in AuthOps \cap ClientOps, x \in Sids \cup {NoSid} :
            req' = [req EXCEPT ![q] = [NoReq EXCEPT !.op = op, !.sid = token[j].sid,
                      !.target = x, !.since = SinceNow(op, token[j].sid, NoJti)]]
      BY <2>2 DEF BeginAuth
    <3>2. req'[q].op = op /\ req'[q].sid = token[j].sid
          /\ req'[q].since = SinceNow(op, token[j].sid, NoJti)
      BY <3>1 DEF Base, TypeOK, NoReq
    <3>5. SinceNow(op, token[j].sid, NoJti).acked = (op \in AuthOps /\ token[j].sid \in acked)
      BY DEF SinceNow
    <3>3. req'[q].since.acked => req'[q].sid \in acked
      BY <3>2, <3>5, Zenon
    <3>4. pc'[q] = "check" /\ revoked' = revoked /\ lost' = lost /\ txn'[q].ends = {}
      BY <2>2 DEF BeginAuth, At, Goto, Base, TypeOK, ControlOK, Control, NoTxn, redis
    <3>. QED
      BY <3>3, <3>4 DEF Flagged, FlagsOK, AckedFlagged, Sid, At
  <2>3. CASE BeginRefresh(q)
    <3>1. PICK j \in held, op \in RefreshOps \cap ClientOps, k \in FreshJtis \cup {NoJti} :
            req' = [req EXCEPT ![q] = [NoReq EXCEPT !.op = op, !.sid = token[j].sid,
                      !.tok = j, !.new = k, !.since = SinceNow(op, token[j].sid, j)]]
      BY <2>3 DEF BeginRefresh
    <3>2. req'[q].since = SinceNow(op, token[j].sid, j)
      BY <3>1 DEF Base, TypeOK, NoReq
    <3>5. SinceNow(op, token[j].sid, j).acked = (op \in AuthOps /\ token[j].sid \in acked)
      BY DEF SinceNow
    <3>6. op \notin AuthOps
      BY DEF AuthOps, RefreshOps
    <3>3. ~req'[q].since.acked
      BY <3>2, <3>5, <3>6, Zenon
    <3>4. txn'[q].ends = {}
      BY <2>3 DEF BeginRefresh, At, Base, ControlOK, Control, NoTxn
    <3>. QED
      BY <3>3, <3>4 DEF Flagged
  <2>4. CASE CheckFlag(q)
    <3>1. CASE Sid(q) \notin revoked
      <4>1. req'[q] = req[q] /\ txn' = txn /\ lost' = lost /\ revoked' = revoked /\ pc[q] = "check"
        BY <2>4, <3>1 DEF CheckFlag, At, redis
      <4>. QED
        BY <3>1, <4>1 DEF Flagged, At, Sid
    <3>2. CASE Sid(q) \in revoked
      BY <2>4, <3>2, <1>0 DEF CheckFlag, Reject
    <3>. QED
      BY <3>1, <3>2
  <2>5. CASE Load(q)
    <3>1. CASE Active(Sid(q))
      <4>1. /\ req'[q] = req[q] /\ txn'[q].ends = txn[q].ends /\ ~At(q, "flag")
            /\ req[q].op \in AuthOps => ~At(q, "check")
        BY <2>5, <3>1 DEF Load, ControlOK, Control, AuthOps, RefreshOps, At, Goto, Base, TypeOK, Transaction
      <4>. QED
        BY <4>1, KeepFlagged
    <3>2. CASE ~(Active(Sid(q)))
      BY <2>5, <3>2, <1>0 DEF Load, Reject
    <3>. QED
      BY <3>1, <3>2
  <2>6. CASE Expire(q)
    <3>1. /\ req'[q] = req[q] /\ txn'[q].ends = txn[q].ends /\ ~At(q, "flag")
          /\ req[q].op \in AuthOps => ~At(q, "check")
      BY <2>6 DEF Expire, ControlOK, Control, AuthOps, RefreshOps, At, Goto, Base, TypeOK, Transaction
    <3>. QED
      BY <3>1, KeepFlagged
  <2>7. CASE ExpireFlag(q)
    BY <2>7, <1>0 DEF ExpireFlag
  <2>8. CASE FlushTouch(q)
    <3>1. /\ req'[q] = req[q] /\ txn'[q].ends = txn[q].ends /\ ~At(q, "flag")
          /\ req[q].op \in AuthOps => ~At(q, "check")
      BY <2>8 DEF FlushTouch, ControlOK, Control, AuthOps, RefreshOps, At, Goto, Base, TypeOK, Transaction
    <3>. QED
      BY <3>1, KeepFlagged
  <2>9. CASE Body(q)
    <3>2. CASE Reject(q)
      BY <3>2, <1>0 DEF Reject
    <3>3. ASSUME NEW S \in SUBSET Sids, Revoking(q, S), pc[q] \in {"body", "reload", "replay"} PROVE Flagged(q)'
      <4>1. /\ req'[q] = req[q] /\ txn'[q].ends = txn[q].ends /\ ~At(q, "flag") /\ ~At(q, "check")
        BY <3>3 DEF Revoking, At, Goto, Base, TypeOK, Transaction
      <4>. QED
        BY <4>1, KeepFlagged
    <3>. QED
      BY <2>9, <3>2, <3>3, BodyCases DEF Body, At
  <2>10. CASE Blacklist(q)
    <3>1. /\ req'[q] = req[q] /\ txn'[q].ends = txn[q].ends /\ ~At(q, "flag")
          /\ req[q].op \in AuthOps => ~At(q, "check")
      BY <2>10 DEF Blacklist, ControlOK, Control, AuthOps, RefreshOps, At, Goto, Base, TypeOK, Transaction
    <3>. QED
      BY <3>1, KeepFlagged
  <2>11. CASE FlushEnd(q)
    <3>1. /\ req'[q] = req[q] /\ pc'[q] = "flag" /\ pc[q] = "flush_end" /\ lost' = lost /\ revoked' = revoked
          /\ txn'[q].ends = txn[q].ends \cup {txn[q].cur} /\ txn'[q].cur = txn[q].cur
      BY <2>11 DEF FlushEnd, redis, At, Goto, Base, TypeOK, Transaction
    <3>. QED
      BY <3>1 DEF Flagged, At, Sid
  <2>12. CASE Flag(q)
    <3>1. /\ req'[q] = req[q] /\ pc'[q] # "check" /\ pc[q] = "flag" /\ lost' = lost
          /\ revoked' = revoked \cup {txn[q].cur} /\ txn'[q].ends = txn[q].ends
      BY <2>12 DEF Flag, AfterRevoke, At, Goto, Base, TypeOK, Transaction
    <3>. QED
      BY <3>1 DEF Flagged, At, Sid
  <2>13. CASE VerifyRefresh(q)
    <3>1. /\ req'[q] = req[q] /\ txn'[q].ends = txn[q].ends /\ ~At(q, "flag")
          /\ req[q].op \in AuthOps => ~At(q, "check")
      BY <2>13 DEF VerifyRefresh, ControlOK, Control, AuthOps, RefreshOps, At, Goto, Base, TypeOK, Transaction
    <3>. QED
      BY <3>1, KeepFlagged
  <2>14. CASE Burn(q)
    <3>1. /\ req'[q] = req[q] /\ txn'[q].ends = txn[q].ends /\ ~At(q, "flag")
          /\ req[q].op \in AuthOps => ~At(q, "check")
      BY <2>14 DEF Burn, ControlOK, Control, AuthOps, RefreshOps, At, Goto, Base, TypeOK, Transaction
    <3>. QED
      BY <3>1, KeepFlagged
  <2>15. CASE Reload(q)
    <3>3. ASSUME NEW S \in SUBSET Sids, Revoking(q, S), pc[q] \in {"body", "reload", "replay"} PROVE Flagged(q)'
      <4>1. /\ req'[q] = req[q] /\ txn'[q].ends = txn[q].ends /\ ~At(q, "flag") /\ ~At(q, "check")
        BY <3>3 DEF Revoking, At, Goto, Base, TypeOK, Transaction
      <4>. QED
        BY <4>1, KeepFlagged
    <3>4. CASE req[q].op = "logout"
      BY <2>15, <3>3, <3>4 DEF Reload, At
    <3>5. CASE req[q].op = "refresh" /\ Active(Sid(q))
      <4>1. /\ req'[q] = req[q] /\ txn'[q].ends = txn[q].ends /\ ~At(q, "flag") /\ ~At(q, "check")
        BY <2>15, <3>5 DEF Reload, At, Goto, Base, TypeOK, Transaction
      <4>. QED
        BY <4>1, KeepFlagged
    <3>6. CASE ~(req[q].op = "refresh" /\ Active(Sid(q))) /\ req[q].op # "logout"
      BY <2>15, <3>6, <1>0 DEF Reload, Reject
    <3>. QED
      BY <3>4, <3>5, <3>6
  <2>16. CASE FlushBind(q)
    <3>1. /\ req'[q] = req[q] /\ txn'[q].ends = txn[q].ends /\ ~At(q, "flag")
          /\ req[q].op \in AuthOps => ~At(q, "check")
      BY <2>16 DEF FlushBind, ControlOK, Control, AuthOps, RefreshOps, At, Goto, Base, TypeOK, Transaction
    <3>. QED
      BY <3>1, KeepFlagged
  <2>17. CASE Replay(q)
    <3>3. ASSUME NEW S \in SUBSET Sids, Revoking(q, S), pc[q] \in {"body", "reload", "replay"} PROVE Flagged(q)'
      <4>1. /\ req'[q] = req[q] /\ txn'[q].ends = txn[q].ends /\ ~At(q, "flag") /\ ~At(q, "check")
        BY <3>3 DEF Revoking, At, Goto, Base, TypeOK, Transaction
      <4>. QED
        BY <4>1, KeepFlagged
    <3>4. CASE Active(Sid(q))
      <4>1. Sid(q) \in Sids /\ pc[q] = "replay"
        BY <2>17 DEF Replay, Base, ControlOK, Control, At
      <4>. QED
        BY <2>17, <3>3, <3>4, <4>1 DEF Replay
    <3>5. CASE ~Active(Sid(q))
      <4>1. /\ req'[q] = req[q] /\ txn'[q].ends = txn[q].ends /\ ~At(q, "flag") /\ ~At(q, "check")
        BY <2>17, <3>5 DEF Replay, At, Goto, Base, TypeOK, Transaction
      <4>. QED
        BY <4>1, KeepFlagged
    <3>. QED
      BY <3>4, <3>5
  <2>18. CASE ReplayCommit(q)
    <3>1. /\ req'[q] = req[q] /\ txn'[q].ends = txn[q].ends /\ ~At(q, "flag")
          /\ req[q].op \in AuthOps => ~At(q, "check")
      BY <2>18 DEF ReplayCommit, ControlOK, Control, AuthOps, RefreshOps, At, Goto, Base, TypeOK, Transaction
    <3>. QED
      BY <3>1, KeepFlagged
  <2>19. CASE Replayed(q)
    BY <2>19, <1>0 DEF Replayed, Reject
  <2>20. CASE Respond(q)
    <3>1. /\ req'[q] = req[q] /\ txn'[q].ends = txn[q].ends /\ ~At(q, "flag")
          /\ req[q].op \in AuthOps => ~At(q, "check")
      BY <2>20 DEF Respond, ControlOK, Control, AuthOps, RefreshOps, At, Goto, Base, TypeOK, Transaction
    <3>. QED
      BY <3>1, KeepFlagged
  <2>21. CASE Commit(q)
    BY <2>21, <1>0 DEF Commit
  <2>22. CASE Abort(q)
    BY <2>22, <1>0 DEF Abort, Reject
  <2>23. CASE DeadlockVictim(q)
    BY <2>23, <1>0 DEF DeadlockVictim, Reject
  <2>. QED
    BY <1>2, <2>1, <2>2, <2>3, <2>4, <2>5, <2>6, <2>7, <2>8, <2>9, <2>10, <2>11, <2>12, <2>13, <2>14, <2>15, <2>16, <2>17, <2>18, <2>19, <2>20, <2>21, <2>22, <2>23 DEF Begin, Step
<1>. QED
  BY <1>1, <1>2, Frame

(* Once a client has been told that a session ended, its access tokens are dead *)
(* as long as Redis keeps its data, even if the commit fails.                   *)
THEOREM AckedEndHoldsAlways == Spec => []AckedEndHolds
<1>1. Init => FlagsOK
  BY DEF Init, FlagsOK, AckedFlagged, Flagged, NoReq, NoTxn
<1>2. Base /\ FlagsOK /\ [Next]_vars => FlagsOK'
  BY FlaggedStep, AckedFlaggedStep DEF FlagsOK
<1>3. FlagsOK => AckedEndHolds
  BY DEF FlagsOK, Flagged, AckedEndHolds
<1>. QED
  BY <1>1, <1>2, <1>3, BaseHolds, PTL DEF Spec

===============================================================================
